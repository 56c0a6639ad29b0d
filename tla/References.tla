---------------------------- MODULE References ----------------------------
(***************************************************************************)
(* A Microvm CR and the MicrovmImage CR it refers to, each reconciled by a *)
(* worker of its own, and the IAM Role to which both refer.                *)
(*                                                                         *)
(* A reference (roleRef, imageIdentifierRef) is resolved at the start of   *)
(* every reconciliation by reading the CR it names.  The two workers never *)
(* notify each other: a Microvm learns that its image became ready, or is  *)
(* gone, only by reading it again.                                         *)
(*                                                                         *)
(* What modules Microvm and MicrovmImage model request by request (patches,*)
(* late initialization, losses) is one step here: from ReadOne to the      *)
(* request it leads to, and from that request to the status patch.         *)
(* A role field stands for executionRole of a Microvm and for buildRole of *)
(* a MicrovmImage.  The image may be one that AWS already has and that the *)
(* CR adopts.                                                              *)
(*                                                                         *)
(* An operator that nothing uses is a faulty form of the definition it     *)
(* precedes, kept to show that a run notices the fault.                    *)
(***************************************************************************)
EXTENDS Naturals, FiniteSets

CONSTANTS
    RoleARNs,     \* ARNs of the role
    ImageARNs,    \* ARNs of images
    VMs,          \* identifiers that RunMicrovm can hand out
    NIL,          \* a value not set
    Missing,      \* adoption fields without the key "arn"
    Allowed       \* how often the disturbances may occur together

\* The disturbances, bounded by Allowed: a user edits or deletes a CR, the role or
\* its CR changes, a build fails or a VM terminates, somebody else deletes an
\* image, a creation is rejected with a terminal error code, a controller crash.
Disturbances == {"edit", "delete", "role", "fail", "outside", "reject", "crash"}

Resources == {"MicrovmImage", "Microvm"}
Fields(k) == IF k = "Microvm" THEN {"role", "image"} ELSE {"role"}
RequiredField(k) == IF k = "Microvm" THEN "image" ELSE "role"
Ids(k) == IF k = "Microvm" THEN VMs ELSE ImageARNs

\* A reference is absent, has no From, or names a CR.  (One without a name fails
\* like one whose CR does not exist.)
Refs == {"none", "empty", "named"}
ARNs(f) == IF f = "role" THEN RoleARNs ELSE ImageARNs
Field(f) == [ref: Refs, val: ARNs(f) \cup {NIL}]

States == {"absent", "starting", "up", "updating", "failed", "ending", "over"}

ASSUME ReferencesAssumption ==
    /\ NIL \notin RoleARNs \cup ImageARNs \cup VMs
    /\ Missing \notin ImageARNs \cup {NIL}
    /\ ImageARNs \cap VMs = {}
    /\ Allowed \subseteq [Disturbances -> Nat]

VARIABLES
    role,     \* the Role CR, reconciled by another controller
    cr,       \* the two CRs as the API server stores them
    aws,      \* the image or VM behind each identifier
    worker,   \* the worker of each CR
    queued,   \* a reconciliation of the CR is due, now or after a delay
    used,     \* how often each disturbance has occurred
    offered   \* history: what each field could have been resolved to since
              \* the worker started its reconciliation

vars == <<role, cr, aws, worker, queued, used, offered>>

Role == [exists: BOOLEAN, terminal: BOOLEAN, synced: BOOLEAN, arn: RoleARNs \cup {NIL}]

\* No CR, a new one, one that is synced, or synced before and now terminal.
RoleStates ==
    {r \in Role : /\ r.synced = (r.arn # NIL)
                  /\ r.terminal \/ ~r.exists => r.synced = r.exists}

CR(k) == [
    exists: BOOLEAN, deleting: BOOLEAN, finalizer: BOOLEAN,
    adopt: IF k = "Microvm" THEN {NIL} ELSE ImageARNs \cup {NIL, Missing},
    role: Field("role"), image: IF k = "Microvm" THEN Field("image") ELSE {NIL},
    id: Ids(k) \cup {NIL}, synced: BOOLEAN, terminal: BOOLEAN, resolved: BOOLEAN]

Object == [state: States, role: RoleARNs \cup {NIL}, image: ImageARNs \cup {NIL}]

PCs == {"idle", "role", "image", "find", "manage", "create"}

-----------------------------------------------------------------------------
(* references.go, of both kinds.                                           *)

ClearNothing(k, c) == c

\* A concrete value next to a reference was put there by ResolveReferences.
ClearResolvedReferences(k, c) ==
    LET Clear(x) == IF x.ref = "none" THEN x ELSE [x EXCEPT !.val = NIL]
    IN [c EXCEPT !.role = Clear(@), !.image = IF k = "Microvm" THEN Clear(@) ELSE @]

\* At most one of reference and value, and one of them if the field is required.
validateReferenceFields(k, c) ==
    /\ \A f \in Fields(k) : c[f].ref = "none" \/ c[f].val = NIL
    /\ LET q == c[RequiredField(k)] IN q.ref # "none" \/ q.val # NIL

\* What a reference of field f is resolved against.
Referenced(f) ==
    IF f = "role" THEN role
    ELSE LET i == cr["MicrovmImage"]
         IN [exists |-> i.exists, terminal |-> i.terminal, synced |-> i.synced, arn |-> i.id]

stateExistsOnly(t) == t.exists /\ ~t.terminal /\ t.arn # NIL

\* getReferencedResourceState finds nothing to object to.
getReferencedResourceState(t) == t.exists /\ ~t.terminal /\ t.synced /\ t.arn # NIL

-----------------------------------------------------------------------------
(* Steps shared by the workers' paths.                                     *)

Spend(d) ==
    /\ [used EXCEPT ![d] = @ + 1] \in Allowed
    /\ used' = [used EXCEPT ![d] = @ + 1]

Idle == [pc |-> "idle", copy |-> NIL, valid |-> TRUE]

GoTo(k, l, c) == worker' = [worker EXCEPT ![k].pc = l, ![k].copy = c]

\* The end of a reconciliation: c's status is patched into the CR, and the key
\* is due again unless the outcome was terminal.
Report(k, c, requeue) ==
    /\ cr' = [cr EXCEPT ![k].id = c.id, ![k].synced = c.synced,
                        ![k].terminal = c.terminal, ![k].resolved = c.resolved]
    /\ worker' = [worker EXCEPT ![k] = Idle]
    /\ queued' = [queued EXCEPT ![k] = @ \/ requeue]

ResetConditionsUnset(c) == [c EXCEPT !.synced = FALSE, !.terminal = FALSE, !.resolved = NIL]
ResetConditions(c) == [c EXCEPT !.synced = FALSE, !.terminal = FALSE, !.resolved = TRUE]

NeedsAdoption(c) == c.adopt # NIL /\ ~c.finalizer

ToleratesOnAdoption(c) == NeedsAdoption(c)

\* An unresolved reference is an error of the reconciliation, but not of a
\* deletion, and not of an adoption, which takes the spec from AWS.
ToleratesUnresolved(c) == c.deleting \/ NeedsAdoption(c)

\* What ReadOne is asked for.
Identifier(c) == IF NeedsAdoption(c) THEN c.adopt ELSE c.id

Gone(k) == IF k = "Microvm" THEN {"absent"} ELSE {"absent", "over"}

NotFound(k, i) == i \notin {j \in Ids(k) : aws[j].state \notin Gone(k)}

-----------------------------------------------------------------------------
(* Reconciling: resolution.                                                *)

\* The validation error, found before the references are resolved, is returned
\* after that.
Dequeue(k) ==
    /\ worker[k].pc = "idle"
    /\ queued[k]
    /\ queued' = [queued EXCEPT ![k] = FALSE]
    /\ worker' =
         IF cr[k].exists
         THEN [worker EXCEPT ![k] = [pc |-> "role", copy |-> ResetConditions(cr[k]),
                                     valid |-> validateReferenceFields(k, cr[k])]]
         ELSE worker
    /\ UNCHANGED <<role, cr, aws, used>>

FailAsTerminal(k, c) == Report(k, [c EXCEPT !.resolved = FALSE, !.terminal = TRUE], FALSE)
FailResolution(k, c) == Report(k, [c EXCEPT !.resolved = FALSE], TRUE)

ResolvedUnvalidated(k, f, c) ==
    IF k = "Microvm" /\ f = "role"
    THEN GoTo(k, "image", c) /\ UNCHANGED <<cr, queued>>
    ELSE GoTo(k, "find", c) /\ UNCHANGED <<cr, queued>>

\* Field f is done: the next one, the validation error, or ReadOne.
Resolved(k, f, c) ==
    IF k = "Microvm" /\ f = "role"
    THEN GoTo(k, "image", c) /\ UNCHANGED <<cr, queued>>
    ELSE IF worker[k].valid \/ ToleratesUnresolved(c)
    THEN GoTo(k, "find", c) /\ UNCHANGED <<cr, queued>>
    ELSE FailResolution(k, c)

\* resolveReferenceFor...: reads one referenced CR.  An error ends
\* ResolveReferences, with what has been resolved so far.
Resolve(k, f) ==
    /\ worker[k].pc = f
    /\ LET c == worker[k].copy
           t == Referenced(f)
       IN IF c[f].ref \in {"none", "empty"}
          THEN Resolved(k, f, c)
          ELSE IF getReferencedResourceState(t)
          THEN Resolved(k, f, [c EXCEPT ![f].val = t.arn])
          ELSE IF ToleratesUnresolved(c)
          THEN GoTo(k, "find", c) /\ UNCHANGED <<cr, queued>>
          ELSE FailResolution(k, c)
    /\ UNCHANGED <<role, aws, used>>

-----------------------------------------------------------------------------
(* Reconciling: the resource manager.                                      *)

\* PopulateResourceFromAnnotation: a terminal error.
FieldsMissing(k) ==
    /\ worker[k].pc = "find"
    /\ LET c == worker[k].copy
       IN /\ NeedsAdoption(c) /\ c.adopt = Missing
          /\ Report(k, [c EXCEPT !.terminal = TRUE], FALSE)
    /\ UNCHANGED <<role, aws, used>>

FindNothingCreates(k) ==
    /\ worker[k].pc = "find"
    /\ LET c == worker[k].copy
       IN /\ ~c.deleting /\ Identifier(c) # Missing /\ NotFound(k, Identifier(c))
          /\ IF c.adopt # NIL /\ ~c.finalizer
             THEN Report(k, c, TRUE)
             ELSE /\ GoTo(k, IF c.finalizer THEN "create" ELSE "manage", c)
                  /\ UNCHANGED <<cr, queued>>
    /\ UNCHANGED <<role, aws, used>>

\* What is to be adopted, or was adopted, is never created.
FindNothing(k) ==
    /\ worker[k].pc = "find"
    /\ LET c == worker[k].copy
       IN /\ ~c.deleting /\ Identifier(c) # Missing /\ NotFound(k, Identifier(c))
          /\ IF c.adopt # NIL
             THEN Report(k, c, TRUE)
             ELSE /\ GoTo(k, IF c.finalizer THEN "create" ELSE "manage", c)
                  /\ UNCHANGED <<cr, queued>>
    /\ UNCHANGED <<role, aws, used>>

\* A merge patch carries what a and b differ in once their resolved references
\* are cleared.
MergeSpec(k, stored, a, b) ==
    LET from == ClearResolvedReferences(k, a)
        to == ClearResolvedReferences(k, b)
    IN [stored EXCEPT !.role.val = IF from.role = to.role THEN @ ELSE to.role.val]

\* The image is found: the finalizer, the spec that AWS reports and the ARN are
\* patched.
Adopt(k) ==
    /\ worker[k].pc = "find"
    /\ LET c == worker[k].copy
           i == Identifier(c)
       IN /\ ~c.deleting /\ NeedsAdoption(c) /\ i # Missing /\ ~NotFound(k, i)
          /\ IF cr[k].exists
             THEN /\ cr' = [cr EXCEPT ![k] =
                       [MergeSpec(k, @, c, [c EXCEPT !.role.val = aws[i].role]) EXCEPT
                           !.finalizer = TRUE, !.id = i, !.terminal = FALSE,
                           !.synced = (aws[i].state = "up"), !.resolved = TRUE]]
                  /\ queued' = [queued EXCEPT ![k] = TRUE]
             ELSE UNCHANGED <<cr, queued>>
          /\ worker' = [worker EXCEPT ![k] = Idle]
    /\ UNCHANGED <<role, aws, used>>

\* ReadOne found the resource.  The role is read back from AWS, the image of a
\* VM is not.  A difference is a terminal error of a Microvm and a rebuild of an
\* image that is up; before its first build ends an image is not compared.
Compare(k) ==
    /\ worker[k].pc = "find"
    /\ LET c == worker[k].copy
           m == aws[Identifier(c)]
           differ == c.role.val # m.role /\ m.state \notin {"failed", "absent"}
           rebuild == k = "MicrovmImage" /\ differ /\ m.state = "up"
       IN /\ ~c.deleting /\ ~NeedsAdoption(c) /\ ~NotFound(k, Identifier(c))
          /\ IF k = "Microvm" /\ (m.state = "over" \/ differ)
             THEN Report(k, [c EXCEPT !.terminal = TRUE], FALSE)
             ELSE Report(k, [c EXCEPT !.synced = (m.state = "up" /\ ~differ)], TRUE)
          /\ aws' = IF rebuild
                    THEN [aws EXCEPT ![Identifier(c)].state = "updating",
                                     ![Identifier(c)].role = c.role.val]
                    ELSE aws
    /\ UNCHANGED <<role, used>>

Manage(k) ==
    /\ worker[k].pc = "manage"
    /\ IF cr[k].exists
       THEN /\ cr' = [cr EXCEPT ![k].finalizer = TRUE]
            /\ GoTo(k, "create", [worker[k].copy EXCEPT !.finalizer = TRUE])
       ELSE worker' = [worker EXCEPT ![k] = Idle] /\ UNCHANGED cr
    /\ UNCHANGED <<role, aws, queued, used>>

\* AWS takes a creation with a role that it needs, and from an image it has.
Accepted(k, c) ==
    IF k = "Microvm"
    THEN c.image.val # NIL /\ aws[c.image.val].state \in {"up", "updating"}
    ELSE c.role.val # NIL

Create(k) ==
    /\ worker[k].pc = "create"
    /\ LET c == worker[k].copy
       IN /\ Accepted(k, c)
          /\ \E i \in Ids(k) :
               /\ aws[i].state = "absent"
               /\ aws' = [aws EXCEPT ![i] =
                    [state |-> "starting", role |-> c.role.val,
                     image |-> IF k = "Microvm" THEN c.image.val ELSE NIL]]
               /\ Report(k, [c EXCEPT !.id = i], TRUE)
    /\ UNCHANGED <<role, used>>

CreateFails(k) ==
    /\ worker[k].pc = "create"
    /\ LET c == worker[k].copy
       IN \/ /\ ~Accepted(k, c) \/ \A i \in Ids(k) : aws[i].state # "absent"
             /\ Report(k, c, TRUE)
             /\ UNCHANGED used
          \/ /\ Spend("reject")
             /\ Report(k, [c EXCEPT !.terminal = TRUE], FALSE)
    /\ UNCHANGED <<role, aws>>

\* A CR that is being deleted: ReadOne and sdkDelete.  An image is unmanaged
\* once its deletion is accepted, a VM once it is TERMINATED.
Delete(k) ==
    /\ worker[k].pc = "find"
    /\ LET c == worker[k].copy
           i == Identifier(c)
           gone == i \notin {j \in Ids(k) : aws[j].state \notin {"absent", "over"}}
           taken == ~gone /\ aws[i].state \in {"up", "failed"}
       IN /\ c.deleting
          /\ aws' = IF taken
                    THEN [aws EXCEPT ![i].state = "ending"]
                    ELSE aws
          /\ IF gone \/ (taken /\ k = "MicrovmImage")
             THEN /\ cr' = [cr EXCEPT ![k].exists = FALSE, ![k].finalizer = FALSE]
                  /\ worker' = [worker EXCEPT ![k] = Idle]
                  /\ UNCHANGED queued
             ELSE Report(k, c, TRUE)
    /\ UNCHANGED <<role, used>>

-----------------------------------------------------------------------------
(* The environment.                                                        *)

\* The role is created, deleted, changed, or its CR changes condition.
RoleChanges ==
    /\ Spend("role")
    /\ role' \in RoleStates \ {role}
    /\ UNCHANGED <<cr, aws, worker, queued>>

UserEdits(k) ==
    /\ cr[k].exists /\ ~cr[k].deleting
    /\ Spend("edit")
    /\ \E f \in Fields(k) : \E x \in Field(f) \ {cr[k][f]} :
         /\ x.ref # "none" => x.val = NIL
         /\ cr' = [cr EXCEPT ![k][f] = x]
    /\ queued' = [queued EXCEPT ![k] = TRUE]
    /\ UNCHANGED <<role, aws, worker>>

UserDeletes(k) ==
    /\ cr[k].exists /\ ~cr[k].deleting
    /\ Spend("delete")
    /\ cr' = [cr EXCEPT ![k].deleting = TRUE, ![k].exists = cr[k].finalizer]
    /\ queued' = [queued EXCEPT ![k] = TRUE]
    /\ UNCHANGED <<role, aws, worker>>

Move(i, from, to) ==
    /\ aws[i].state \in from
    /\ aws' = [aws EXCEPT ![i].state = to]
    /\ UNCHANGED <<role, cr, worker, queued>>

\* What AWS finishes on its own once it has begun.
Progress(i) ==
    /\ Move(i, {"starting", "updating"}, "up") \/ Move(i, {"ending"}, "over")
    /\ UNCHANGED used

\* A first build fails, a VM terminates by itself.
Break(i) ==
    /\ Spend("fail")
    /\ IF i \in VMs THEN Move(i, {"starting", "up"}, "ending") ELSE Move(i, {"starting"}, "failed")

\* An image is deleted, but not by the controller.
DeleteOutside(i) == Spend("outside") /\ Move(i, {"up"}, "ending")

Crash ==
    /\ Spend("crash")
    /\ worker' = [k \in Resources |-> Idle]
    /\ queued' = [k \in Resources |-> cr[k].exists]
    /\ UNCHANGED <<role, cr, aws>>

-----------------------------------------------------------------------------

NewCR(k, r, i, a) ==
    [exists |-> TRUE, deleting |-> FALSE, finalizer |-> FALSE, adopt |-> a,
     role |-> r, image |-> i, id |-> NIL,
     synced |-> FALSE, terminal |-> FALSE, resolved |-> TRUE]

NoRef == [ref |-> "none", val |-> NIL]
ByName == [ref |-> "named", val |-> NIL]
Absent == [state |-> "absent", role |-> NIL, image |-> NIL]

\* Both CRs are created together, before the role is ready.  The image is a new
\* one, or it is adopted, with a spec that has the role or without one.  The
\* Microvm names its image, or by mistake gives its ARN as well.
Init ==
    /\ role = [exists |-> TRUE, terminal |-> FALSE, synced |-> FALSE, arn |-> NIL]
    /\ \E b \in {NoRef, ByName}, a \in ImageARNs \cup {NIL, Missing},
          m \in {ByName} \cup {[ref |-> "named", val |-> i] : i \in ImageARNs} :
         /\ b = NoRef => a # NIL
         /\ cr = [k \in Resources |->
                   IF k = "Microvm" THEN NewCR(k, ByName, m, NIL) ELSE NewCR(k, b, NIL, a)]
         /\ \E old \in RoleARNs \cup {NIL} :
              /\ old # NIL => a \in ImageARNs
              /\ aws = [i \in ImageARNs \cup VMs |->
                         IF i = a /\ old # NIL
                         THEN [state |-> "up", role |-> old, image |-> NIL]
                         ELSE Absent]
    /\ worker = [k \in Resources |-> Idle]
    /\ queued = [k \in Resources |-> TRUE]
    /\ used = [d \in Disturbances |-> 0]
    /\ offered = [k \in Resources |-> [f \in Fields(k) |-> {}]]

Reconcile(k) ==
    \/ Dequeue(k) \/ (\E f \in Fields(k) : Resolve(k, f))
    \/ FieldsMissing(k) \/ FindNothing(k) \/ Adopt(k) \/ Compare(k)
    \/ Manage(k) \/ Create(k) \/ CreateFails(k) \/ Delete(k)

Users == \E k \in Resources : UserEdits(k) \/ UserDeletes(k)

Cloud ==
    \/ \E i \in ImageARNs \cup VMs : Progress(i) \/ Break(i)
    \/ \E i \in ImageARNs : DeleteOutside(i)

\* What README.md demands of a CR that is referred to.
Ready(t) == t.exists /\ t.synced /\ ~t.terminal /\ t.arn # NIL

\* The history, in the state a step leads to.
Observe ==
    offered' = [k \in Resources |-> [f \in Fields(k) |->
        IF worker'[k].pc = "idle" THEN {}
        ELSE offered[k][f] \cup
             (IF Ready(Referenced(f))' THEN {Referenced(f)'.arn} ELSE {})]]

Steps == (\E k \in Resources : Reconcile(k)) \/ RoleChanges \/ Users \/ Cloud \/ Crash

Next == Steps /\ Observe

Spec == Init /\ [][Next]_vars

\* Both workers serve their queues and AWS finishes what it began.
Fairness ==
    /\ \A k \in Resources : WF_vars(Reconcile(k) /\ Observe)
    /\ WF_vars((\E i \in ImageARNs \cup VMs : Progress(i)) /\ Observe)

FairSpec == Spec /\ Fairness

-----------------------------------------------------------------------------
(* Properties.                                                             *)

\* Type invariant.
TypeOK ==
    /\ role \in Role
    /\ DOMAIN cr = Resources /\ DOMAIN worker = Resources
    /\ \A k \in Resources :
         /\ cr[k] \in CR(k)
         /\ worker[k] \in [pc: PCs, copy: CR(k) \cup {NIL}, valid: BOOLEAN]
         /\ offered[k] \in [Fields(k) -> SUBSET (RoleARNs \cup ImageARNs)]
    /\ aws \in [ImageARNs \cup VMs -> Object]
    /\ queued \in [Resources -> BOOLEAN]
    /\ used \in [Disturbances -> Nat]

Born(i) == aws[i].state = "absent" /\ aws'[i].state # "absent"

\* A resource is created only with what its references offered during the very
\* reconciliation that creates it: each CR they name was there, Synced, not
\* Terminal and had its ARN, even if it was deleted, rebuilt or changed before the
\* request was sent.  No resolution is remembered from an earlier attempt.
CreatedFromReady ==
    [][\A k \in Resources : \A i \in Ids(k) : Born(i) =>
         \A f \in Fields(k) :
             worker[k].copy[f].ref = "named" => aws'[i][f] \in offered[k][f]]_vars

\* The controller never writes a spec that it would then reject for ever: a
\* resolved value, or the role of an adopted image, does not end up beside the
\* reference it stands for.  (A user who adds a reference while the image is being
\* adopted can produce the pair.)
StoredSpecStaysValid ==
    [][used'["edit"] = 0 => \A k \in Resources :
         validateReferenceFields(k, cr[k]) => validateReferenceFields(k, cr'[k])]_cr

\* A spec that has both a reference and a value, or neither, creates nothing,
\* although the error found by validateReferenceFields waits until the
\* references are resolved, and resolving overwrites the value.
InvalidNotCreated ==
    used["edit"] = 0 => \A k \in Resources :
        (\E i \in Ids(k) : aws[i].state # "absent" /\ i # cr[k].adopt) =>
            validateReferenceFields(k, cr[k])

\* An adopting CR never builds an image of its own, neither before the adoption
\* nor after the adopted image was deleted.
AdoptedNotBuilt ==
    LET a == cr["MicrovmImage"].adopt
    IN a # NIL => \A i \in ImageARNs : aws[i].state # "absent" => i = a

\* A deleted CR goes away, even if what it refers to is gone or never ready.
DeletionCompletes == \A k \in Resources : cr[k].deleting ~> ~cr[k].exists

\* The spec of k is complete and what it names outside this module is ready.
Startable(k) ==
    /\ cr[k].exists /\ ~cr[k].deleting /\ validateReferenceFields(k, cr[k])
    /\ \/ cr[k].role.ref = "named" /\ Ready(role)
       \/ cr[k].role.ref = "none" /\ (k = "MicrovmImage" => cr[k].role.val # NIL)

\* Two controllers that never notify each other: once the role stays ready, the
\* image is built or adopted and then the Microvm that waits for it runs.
ChainStarts ==
    <>[](/\ \A k \in Resources : Startable(k)
         /\ cr["Microvm"].image.ref = "named"
         /\ cr["MicrovmImage"].adopt = NIL \/ cr["MicrovmImage"].id # NIL) =>
        <>(cr["Microvm"].id # NIL)

=============================================================================
