-------------------------- MODULE ReferencesProofs --------------------------
(***************************************************************************)
(* What holds of References for every set of roles, images and VMs, and    *)
(* for every set of allowed disturbances: its type invariant and its       *)
(* safety properties.                                                      *)
(***************************************************************************)
EXTENDS References, TLAPS

-----------------------------------------------------------------------------
(* The invariant.  Each part speaks of one worker, or of what is in AWS.   *)

Busy(k) == worker[k].pc # "idle"

\* Past the resolution of its references.
Acting == {"find", "manage", "create"}

\* The references that a worker must have resolved by now.
Taken(k) ==
    IF worker[k].pc = "image" THEN {"role"}
    ELSE IF worker[k].pc \in Acting /\ ~ToleratesUnresolved(worker[k].copy) THEN Fields(k)
    ELSE {}

CRsTyped == DOMAIN cr = Resources /\ \A k \in Resources : cr[k] \in CR(k)

\* A busy worker has a copy of its CR, and only a Microvm has an image to name.
WorkersTyped ==
    /\ DOMAIN worker = Resources
    /\ \A k \in Resources :
         /\ worker[k] \in [pc: PCs, copy: CR(k) \cup {NIL}, valid: BOOLEAN]
         /\ Busy(k) => worker[k].copy \in CR(k)
         /\ worker[k].pc = "image" => k = "Microvm"

OffersTyped == \A k \in Resources : offered[k] \in [Fields(k) -> SUBSET (RoleARNs \cup ImageARNs)]

TypeInv ==
    /\ role \in Role /\ CRsTyped /\ WorkersTyped /\ OffersTyped
    /\ aws \in [ImageARNs \cup VMs -> Object]
    /\ queued \in [Resources -> BOOLEAN]
    /\ used \in [Disturbances -> Nat]

\* The adoption annotation is as the worker read it, and what adopts goes no
\* further than the read.
AdoptionKnown(k) ==
    /\ Busy(k) => worker[k].copy.adopt = cr[k].adopt
    /\ worker[k].pc \in {"manage", "create"} => worker[k].copy.adopt = NIL /\ ~worker[k].copy.deleting

\* A worker acts on a spec that was found valid, unless it may go on without
\* resolved references.
ValidActs(k) ==
    worker[k].pc \in Acting => worker[k].valid \/ ToleratesUnresolved(worker[k].copy)

\* What a worker has resolved was offered since it started.
OfferTaken(k) ==
    \A f \in Taken(k) :
        worker[k].copy[f].ref = "named" => worker[k].copy[f].val \in offered[k][f]

\* As long as nobody edits a spec, a worker's copy has the references of the CR
\* and, where there is none, its value; what it found valid still is; and the
\* role of an image is known when the worker acts.
CopyCurrent(k) ==
    /\ \A f \in Fields(k) :
         /\ worker[k].copy[f].ref = cr[k][f].ref
         /\ cr[k][f].ref = "none" => worker[k].copy[f].val = cr[k][f].val
    /\ worker[k].valid => validateReferenceFields(k, cr[k])
    /\ k = "MicrovmImage" /\ "role" \in Taken(k) => worker[k].copy.role.val # NIL

WorkerInv(k) ==
    /\ AdoptionKnown(k) /\ ValidActs(k) /\ OfferTaken(k)
    /\ used["edit"] = 0 /\ Busy(k) => CopyCurrent(k)

\* Every image in AWS has a role, which is what an adopted CR receives.
ImagesHaveRoles ==
    used["edit"] = 0 =>
        /\ cr["MicrovmImage"].role.ref # "empty"
        /\ \A i \in ImageARNs : aws[i].state # "absent" => aws[i].role # NIL

CloudInv == ImagesHaveRoles /\ AdoptedNotBuilt /\ InvalidNotCreated

IInv == TypeInv /\ (\A k \in Resources : WorkerInv(k)) /\ CloudInv

-----------------------------------------------------------------------------
(* What the operators on CRs return.                                       *)

\* What the references of a CR, and its validation, depend on.
SameSpec(c, d) == c.role = d.role /\ c.image = d.image /\ c.adopt = d.adopt

LEMMA SameSpecValid ==
    ASSUME NEW k \in Resources, NEW c, NEW d, SameSpec(c, d)
    PROVE  validateReferenceFields(k, c) = validateReferenceFields(k, d)
<1>1. \A f \in Fields(k) : c[f] = d[f]
  BY DEF Fields, SameSpec
<1>2. c[RequiredField(k)] = d[RequiredField(k)]
  BY DEF RequiredField, SameSpec
<1>3. QED
  BY <1>1, <1>2 DEF validateReferenceFields

LEMMA ResetType ==
    ASSUME NEW k \in Resources, NEW c \in CR(k)
    PROVE  /\ ResetConditions(c) \in CR(k)
           /\ SameSpec(ResetConditions(c), c)
BY DEF ResetConditions, CR, SameSpec

\* The fields of a CR.
LEMMA FieldType ==
    ASSUME NEW k \in Resources, NEW c \in CR(k), NEW f \in Fields(k)
    PROVE  c[f] \in Field(f)
BY DEF Fields, CR, Resources

\* A CR whose reference f is resolved to a.
SetVal(c, f, a) == [c EXCEPT ![f].val = a]

LEMMA ResolvedType ==
    ASSUME NEW k \in Resources, NEW c \in CR(k), NEW f \in Fields(k), NEW a \in ARNs(f)
    PROVE  LET d == SetVal(c, f, a)
           IN /\ d \in CR(k)
              /\ d.adopt = c.adopt /\ d.deleting = c.deleting /\ d.finalizer = c.finalizer
              /\ d[f] = [ref |-> c[f].ref, val |-> a]
              /\ \A g \in Fields(k) \ {f} : d[g] = c[g]
<1>1. c[f] \in Field(f)
  BY FieldType
<1>2. CASE f = "role"
  BY <1>1, <1>2 DEF SetVal, CR, Field, ARNs, Resources, Fields
<1>3. CASE f = "image"
  BY <1>1, <1>3 DEF SetVal, CR, Field, ARNs, Resources, Fields
<1>4. QED
  BY <1>2, <1>3 DEF Fields

\* What a reference can be resolved to is an ARN of its kind.
LEMMA ReferencedType ==
    ASSUME TypeInv, NEW f \in {"role", "image"}, getReferencedResourceState(Referenced(f))
    PROVE  Referenced(f).arn \in ARNs(f)
<1>1. cr["MicrovmImage"] \in CR("MicrovmImage")
  BY DEF TypeInv, CRsTyped, Resources
<1>2. cr["MicrovmImage"].id \in ImageARNs \cup {NIL}
  BY <1>1 DEF CR, Ids
<1>3. QED
  BY <1>2 DEF Referenced, getReferencedResourceState, ARNs, TypeInv, Role

LEMMA ReportTerminal ==
    ASSUME NEW k \in Resources, NEW c \in CR(k)
    PROVE  /\ [c EXCEPT !.terminal = TRUE] \in CR(k)
           /\ [c EXCEPT !.resolved = FALSE] \in CR(k)
           /\ \A b \in BOOLEAN : [c EXCEPT !.synced = b] \in CR(k)
           /\ \A i \in Ids(k) : [c EXCEPT !.id = i] \in CR(k)
           /\ [c EXCEPT !.finalizer = TRUE] \in CR(k)
BY DEF CR

\* Report patches a status: no spec, finalizer or deletion mark changes.
LEMMA ReportType ==
    ASSUME TypeInv, NEW k \in Resources, NEW c \in CR(k), NEW b \in BOOLEAN, Report(k, c, b)
    PROVE  /\ CRsTyped' /\ WorkersTyped' /\ queued' \in [Resources -> BOOLEAN]
           /\ \A j \in Resources : SameSpec(cr'[j], cr[j])
           /\ \A j \in Resources : worker'[j] \in {worker[j], Idle}
           /\ worker'[k] = Idle
<1>1. cr' = [cr EXCEPT ![k] = [cr[k] EXCEPT !.id = c.id, !.synced = c.synced,
                                 !.terminal = c.terminal, !.resolved = c.resolved]]
  BY DEF Report, TypeInv, CRsTyped
<1> DEFINE d == [cr[k] EXCEPT !.id = c.id, !.synced = c.synced,
                          !.terminal = c.terminal, !.resolved = c.resolved]
<1>2. cr'[k] \in CR(k) /\ SameSpec(cr'[k], cr[k])
  <2>1. cr'[k] = d /\ cr[k] \in CR(k)
    BY <1>1 DEF TypeInv, CRsTyped
  <2>2. d \in CR(k) /\ SameSpec(d, cr[k])
    BY <2>1 DEF CR, SameSpec
  <2>3. QED
    BY <2>1, <2>2
<1>3. CRsTyped' /\ \A j \in Resources : SameSpec(cr'[j], cr[j])
  BY <1>1, <1>2 DEF TypeInv, CRsTyped, SameSpec
<1>4. worker' = [worker EXCEPT ![k] = Idle]
  BY DEF Report
<1>5. WorkersTyped' /\ worker'[k] = Idle /\ \A j \in Resources : worker'[j] \in {worker[j], Idle}
  BY <1>4 DEF TypeInv, WorkersTyped, Busy, Idle, PCs
<1>6. queued' \in [Resources -> BOOLEAN]
  BY DEF Report, TypeInv
<1>7. QED
  BY <1>3, <1>5, <1>6

LEMMA GoToType ==
    ASSUME TypeInv, NEW k \in Resources, NEW c \in CR(k), NEW l \in PCs, GoTo(k, l, c),
           l = "image" => k = "Microvm"
    PROVE  /\ WorkersTyped'
           /\ worker'[k].pc = l /\ worker'[k].copy = c /\ worker'[k].valid = worker[k].valid
           /\ \A j \in Resources \ {k} : worker'[j] = worker[j]
<1> DEFINE w == [worker[k] EXCEPT !.pc = l, !.copy = c]
<1>1. worker' = [worker EXCEPT ![k] = w]
  BY DEF GoTo, TypeInv, WorkersTyped
<1>2. worker[k] \in [pc: PCs, copy: CR(k) \cup {NIL}, valid: BOOLEAN]
  BY DEF TypeInv, WorkersTyped
<1>3. /\ w \in [pc: PCs, copy: CR(k) \cup {NIL}, valid: BOOLEAN]
      /\ w.pc = l /\ w.copy = c /\ w.valid = worker[k].valid
  BY <1>2
<1> HIDE DEF w
<1>4. QED
  BY <1>1, <1>2, <1>3 DEF TypeInv, WorkersTyped, Busy

-----------------------------------------------------------------------------
(* Type correctness.                                                       *)

LEMMA ObserveType ==
    ASSUME TypeInv, Observe, role' \in Role, CRsTyped'
    PROVE  /\ OffersTyped'
           /\ \A k \in Resources : \A f \in Fields(k) :
                worker'[k].pc # "idle" =>
                    /\ offered[k][f] \subseteq offered'[k][f]
                    /\ Ready(Referenced(f))' => Referenced(f)'.arn \in offered'[k][f]
<1>1. ASSUME NEW k \in Resources, NEW f \in Fields(k), Ready(Referenced(f))'
      PROVE  Referenced(f)'.arn \in RoleARNs \cup ImageARNs
  <2>1. CASE f = "role"
    BY <1>1, <2>1 DEF Referenced, Ready, Role
  <2>2. CASE f # "role"
    <3>1. cr'["MicrovmImage"] \in CR("MicrovmImage")
      BY DEF CRsTyped, Resources
    <3>2. cr'["MicrovmImage"].id \in ImageARNs \cup {NIL}
      BY <3>1 DEF CR, Ids
    <3>3. QED
      BY <1>1, <2>2, <3>2 DEF Referenced, Ready
  <2>3. QED
    BY <2>1, <2>2
<1> DEFINE now(f) == IF Ready(Referenced(f))' THEN {Referenced(f)'.arn} ELSE {}
           seen(k, f) == IF worker'[k].pc = "idle" THEN {} ELSE offered[k][f] \cup now(f)
<1>2. \A k \in Resources : \A f \in Fields(k) : now(f) \subseteq RoleARNs \cup ImageARNs
  BY <1>1
<1>3. \A k \in Resources : offered'[k] = [f \in Fields(k) |-> seen(k, f)]
  BY DEF Observe
<1>4. \A f : Ready(Referenced(f))' => Referenced(f)'.arn \in now(f)
  OBVIOUS
<1> HIDE DEF now
<1>5. \A k \in Resources : \A f \in Fields(k) : seen(k, f) \subseteq RoleARNs \cup ImageARNs
  BY <1>2 DEF OffersTyped, TypeInv
<1>6. \A k \in Resources : \A f \in Fields(k) : offered'[k][f] = seen(k, f)
  BY <1>3
<1>7. \A k \in Resources : \A f \in Fields(k) :
         worker'[k].pc # "idle" => seen(k, f) = offered[k][f] \cup now(f)
  OBVIOUS
<1> HIDE DEF seen
<1>8. OffersTyped'
  BY <1>3, <1>5 DEF OffersTyped
<1>9. QED
  BY <1>4, <1>6, <1>7, <1>8

LEMMA SpendType ==
    ASSUME TypeInv, NEW d \in Disturbances, Spend(d)
    PROVE  /\ used' \in [Disturbances -> Nat]
           /\ used'[d] # 0
           /\ used'["edit"] = 0 => used["edit"] = 0
BY DEF Spend, TypeInv, Disturbances

\* What a reconciliation that resolves its references leaves alone.
LEMMA ResolveType ==
    ASSUME TypeInv, NEW k \in Resources, NEW f \in Fields(k), Resolve(k, f)
    PROVE  CRsTyped' /\ WorkersTyped' /\ queued' \in [Resources -> BOOLEAN]
<1> DEFINE c == worker[k].copy
           d == SetVal(c, f, Referenced(f).arn)
<1>1. c \in CR(k) /\ f \in {"role", "image"}
  BY DEF Resolve, Fields, TypeInv, WorkersTyped, Busy
<1>2. ASSUME NEW x \in CR(k), FailResolution(k, x)
      PROVE  CRsTyped' /\ WorkersTyped' /\ queued' \in [Resources -> BOOLEAN]
  BY <1>2, ReportTerminal, ReportType DEF FailResolution
<1>3. ASSUME NEW x \in CR(k), Resolved(k, f, x)
      PROVE  CRsTyped' /\ WorkersTyped' /\ queued' \in [Resources -> BOOLEAN]
  <2>1. CASE GoTo(k, "image", x) /\ k = "Microvm" /\ UNCHANGED <<cr, queued>>
    BY <2>1, GoToType DEF PCs, TypeInv, CRsTyped
  <2>2. CASE GoTo(k, "find", x) /\ UNCHANGED <<cr, queued>>
    BY <2>2, GoToType DEF PCs, TypeInv, CRsTyped
  <2>3. QED
    BY <1>2, <1>3, <2>1, <2>2 DEF Resolved
<1>4. CASE c[f].ref \in {"none", "empty"}
  BY <1>1, <1>3, <1>4 DEF Resolve
<1>5. CASE c[f].ref \notin {"none", "empty"} /\ getReferencedResourceState(Referenced(f))
  <2>1. Referenced(f).arn \in ARNs(f)
    BY <1>1, <1>5, ReferencedType
  <2>2. d \in CR(k)
    BY <1>1, <2>1, ResolvedType
  <2>3. Resolved(k, f, d)
    BY <1>5 DEF Resolve, SetVal
  <2>4. QED
    BY <1>3, <2>2, <2>3
<1>6. CASE c[f].ref \notin {"none", "empty"} /\ ~getReferencedResourceState(Referenced(f))
  <2>1. CASE GoTo(k, "find", c) /\ UNCHANGED <<cr, queued>>
    BY <1>1, <2>1, GoToType DEF PCs, TypeInv, CRsTyped
  <2>2. QED
    BY <1>1, <1>2, <1>6, <2>1 DEF Resolve
<1>7. QED
  BY <1>4, <1>5, <1>6

\* What every step establishes besides the history.
Stepped ==
    /\ role' \in Role /\ CRsTyped' /\ WorkersTyped'
    /\ aws' \in [ImageARNs \cup VMs -> Object]
    /\ queued' \in [Resources -> BOOLEAN]
    /\ used' \in [Disturbances -> Nat]
    /\ used'["edit"] = 0 => used["edit"] = 0

LEMMA DequeueType ==
    ASSUME TypeInv, NEW k \in Resources, Dequeue(k)
    PROVE  Stepped
<1>1. CASE cr[k].exists
  <2>1. ResetConditions(cr[k]) \in CR(k)
    BY ResetType DEF TypeInv, CRsTyped
  <2>2. worker' = [worker EXCEPT ![k] = [pc |-> "role", copy |-> ResetConditions(cr[k]),
                                        valid |-> validateReferenceFields(k, cr[k])]]
    BY <1>1 DEF Dequeue
  <2>3. validateReferenceFields(k, cr[k]) \in BOOLEAN
    BY DEF validateReferenceFields
  <2>4. WorkersTyped'
    BY <2>1, <2>2, <2>3 DEF TypeInv, WorkersTyped, Busy, PCs
  <2>5. QED
    BY <2>4 DEF Stepped, Dequeue, TypeInv, CRsTyped
<1>2. CASE ~cr[k].exists
  BY <1>2 DEF Stepped, Dequeue, TypeInv, CRsTyped, WorkersTyped, Busy
<1>3. QED
  BY <1>1, <1>2

LEMMA RestIsTyped ==
    ASSUME TypeInv, CRsTyped', WorkersTyped', queued' \in [Resources -> BOOLEAN],
           UNCHANGED <<role, aws, used>>
    PROVE  Stepped
BY DEF Stepped, TypeInv

LEMMA FindType ==
    ASSUME TypeInv, NEW k \in Resources, FieldsMissing(k) \/ FindNothing(k)
    PROVE  Stepped
<1> DEFINE c == worker[k].copy
<1>1. c \in CR(k)
  BY DEF FieldsMissing, FindNothing, TypeInv, WorkersTyped, Busy
<1>2. ASSUME NEW x \in CR(k), NEW b \in BOOLEAN, Report(k, x, b), UNCHANGED <<role, aws, used>>
      PROVE  Stepped
  BY <1>2, ReportType, RestIsTyped
<1>3. CASE FieldsMissing(k)
  BY <1>1, <1>2, <1>3, ReportTerminal DEF FieldsMissing
<1>4. CASE FindNothing(k)
  <2>1. ASSUME NEW l \in {"create", "manage"}, GoTo(k, l, c), UNCHANGED <<cr, queued>>
        PROVE  Stepped
    BY <1>1, <1>4, <2>1, GoToType, RestIsTyped DEF FindNothing, PCs, TypeInv, CRsTyped
  <2>2. QED
    BY <1>1, <1>2, <1>4, <2>1 DEF FindNothing
<1>5. QED
  BY <1>3, <1>4

LEMMA IdentifierType ==
    ASSUME TypeInv, NEW k \in Resources, NEW i, ~NotFound(k, i)
    PROVE  i \in Ids(k) /\ i \in ImageARNs \cup VMs /\ aws[i] \in Object /\ aws[i].state # "absent"
BY DEF NotFound, Gone, Ids, TypeInv

LEMMA ManageType ==
    ASSUME TypeInv, NEW k \in Resources, Manage(k)
    PROVE  Stepped
<1> DEFINE c == worker[k].copy
<1>1. c \in CR(k) /\ cr[k] \in CR(k)
  BY DEF Manage, TypeInv, CRsTyped, WorkersTyped, Busy
<1>2. CASE cr[k].exists
  <2>1. [c EXCEPT !.finalizer = TRUE] \in CR(k) /\ [cr[k] EXCEPT !.finalizer = TRUE] \in CR(k)
    BY <1>1, ReportTerminal
  <2>2. cr' = [cr EXCEPT ![k] = [cr[k] EXCEPT !.finalizer = TRUE]]
    BY <1>2 DEF Manage, TypeInv, CRsTyped
  <2>3. CRsTyped'
    BY <2>1, <2>2 DEF TypeInv, CRsTyped
  <2>4. WorkersTyped'
    BY <1>2, <2>1, GoToType DEF Manage, PCs
  <2>5. QED
    BY <2>3, <2>4, RestIsTyped DEF Manage, TypeInv
<1>3. CASE ~cr[k].exists
  <2>1. worker' = [worker EXCEPT ![k] = Idle] /\ UNCHANGED <<role, cr, aws, queued, used>>
    BY <1>3 DEF Manage
  <2>2. WorkersTyped'
    BY <2>1 DEF TypeInv, WorkersTyped, Busy, Idle, PCs
  <2>3. QED
    BY <2>1, <2>2, RestIsTyped DEF TypeInv, CRsTyped
<1>4. QED
  BY <1>2, <1>3

LEMMA CreateType ==
    ASSUME TypeInv, NEW k \in Resources, Create(k) \/ CreateFails(k)
    PROVE  Stepped
<1> DEFINE c == worker[k].copy
<1>1. c \in CR(k)
  BY DEF Create, CreateFails, TypeInv, WorkersTyped, Busy
<1>2. CASE Create(k)
  <2>1. PICK i \in Ids(k) :
           /\ aws' = [aws EXCEPT ![i] = [state |-> "starting", role |-> c.role.val,
                                image |-> IF k = "Microvm" THEN c.image.val ELSE NIL]]
           /\ Report(k, [c EXCEPT !.id = i], TRUE)
    BY <1>2 DEF Create
  <2>2. c.role.val \in RoleARNs \cup {NIL}
        /\ (k = "Microvm" => c.image.val \in ImageARNs \cup {NIL})
    BY <1>1 DEF CR, Field, ARNs
  <2>3. aws' \in [ImageARNs \cup VMs -> Object]
    BY <2>1, <2>2 DEF Object, States, TypeInv
  <2>4. CRsTyped' /\ WorkersTyped' /\ queued' \in [Resources -> BOOLEAN]
    BY <1>1, <2>1, ReportTerminal, ReportType
  <2>5. QED
    BY <1>2, <2>3, <2>4 DEF Create, Stepped, TypeInv
<1>3. CASE CreateFails(k)
  <2>1. CRsTyped' /\ WorkersTyped' /\ queued' \in [Resources -> BOOLEAN]
    BY <1>1, <1>3, ReportTerminal, ReportType DEF CreateFails
  <2>2. used' \in [Disturbances -> Nat] /\ (used'["edit"] = 0 => used["edit"] = 0)
    BY <1>3, SpendType DEF CreateFails, TypeInv, Disturbances
  <2>3. QED
    BY <1>3, <2>1, <2>2 DEF CreateFails, Stepped, TypeInv
<1>4. QED
  BY <1>2, <1>3

LEMMA ClearedRole ==
    ASSUME NEW k \in Resources, NEW c \in CR(k)
    PROVE  ClearResolvedReferences(k, c).role =
               IF c.role.ref = "none" THEN c.role ELSE [ref |-> c.role.ref, val |-> NIL]
<1>1. c.role \in Field("role")
  BY DEF CR
<1>2. QED
  BY <1>1 DEF ClearResolvedReferences, Field, CR

LEMMA MergeType ==
    ASSUME NEW k \in Resources, NEW s \in CR(k), NEW c \in CR(k), NEW r \in RoleARNs \cup {NIL}
    PROVE  LET m == MergeSpec(k, s, c, [c EXCEPT !.role.val = r])
           IN /\ m \in CR(k)
              /\ m.image = s.image /\ m.adopt = s.adopt /\ m.role.ref = s.role.ref
              /\ m.role.val = IF c.role.ref # "none" \/ c.role.val = r THEN s.role.val ELSE r
<1> DEFINE d == [c EXCEPT !.role.val = r]
           from == ClearResolvedReferences(k, c).role
           to == ClearResolvedReferences(k, d).role
           v == IF from = to THEN s.role.val ELSE to.val
<1>1. c.role \in Field("role") /\ s.role \in Field("role")
  BY DEF CR
<1>2. d \in CR(k) /\ d.role = [ref |-> c.role.ref, val |-> r]
  BY <1>1 DEF CR, Field, ARNs
<1>3. from = (IF c.role.ref = "none" THEN c.role ELSE [ref |-> c.role.ref, val |-> NIL])
  BY ClearedRole
<1> HIDE DEF d
<1>4. to = (IF c.role.ref = "none" THEN d.role ELSE [ref |-> c.role.ref, val |-> NIL])
  BY <1>2, ClearedRole
<1>5. v = IF c.role.ref # "none" \/ c.role.val = r THEN s.role.val ELSE r
  BY <1>1, <1>2, <1>3, <1>4 DEF Field
<1>6. MergeSpec(k, s, c, d) = [s EXCEPT !.role.val = v]
  BY DEF MergeSpec
<1> HIDE DEF v, from, to
<1>7. v \in RoleARNs \cup {NIL}
  BY <1>1, <1>5 DEF Field, ARNs
<1>8. [s EXCEPT !.role.val = v] = [s EXCEPT !.role = [s.role EXCEPT !.val = v]]
  OBVIOUS
<1>9. [s.role EXCEPT !.val = v] = [ref |-> s.role.ref, val |-> v]
  BY <1>1 DEF Field
<1>10. [ref |-> s.role.ref, val |-> v] \in Field("role")
  BY <1>1, <1>7 DEF Field, ARNs
<1>11. QED
  BY <1>5, <1>6, <1>8, <1>9, <1>10 DEF CR, d

\* What the adoption patches besides the role.
Adopted(m, i, up) ==
    [m EXCEPT !.finalizer = TRUE, !.id = i, !.terminal = FALSE, !.synced = up, !.resolved = TRUE]

LEMMA AdoptedType ==
    ASSUME NEW k \in Resources, NEW m \in CR(k), NEW i \in Ids(k), NEW up \in BOOLEAN
    PROVE  Adopted(m, i, up) \in CR(k) /\ SameSpec(Adopted(m, i, up), m)
BY DEF Adopted, CR, SameSpec

\* The CR that Adopt leaves behind.
LEMMA AdoptShape ==
    ASSUME TypeInv, NEW k \in Resources, Adopt(k), cr[k].exists
    PROVE  LET c == worker[k].copy
           IN /\ cr' = [cr EXCEPT ![k] = Adopted(
                          MergeSpec(k, cr[k], c, [c EXCEPT !.role.val = aws[c.adopt].role]),
                          c.adopt, aws[c.adopt].state = "up")]
              /\ c.adopt \in Ids(k) /\ aws[c.adopt] \in Object /\ aws[c.adopt].state # "absent"
<1>1. Identifier(worker[k].copy) = worker[k].copy.adopt
  BY DEF Adopt, Identifier
<1>2. QED
  BY <1>1, IdentifierType DEF Adopt, Adopted, TypeInv, CRsTyped

LEMMA AdoptType ==
    ASSUME TypeInv, NEW k \in Resources, Adopt(k)
    PROVE  Stepped
<1>1. WorkersTyped'
  BY DEF Adopt, TypeInv, WorkersTyped, Busy, Idle, PCs
<1>2. CASE ~cr[k].exists
  BY <1>1, <1>2, RestIsTyped DEF Adopt, TypeInv, CRsTyped
<1>3. CASE cr[k].exists
  <2> DEFINE c == worker[k].copy
             r == aws[c.adopt].role
             m == MergeSpec(k, cr[k], c, [c EXCEPT !.role.val = r])
             n == Adopted(m, c.adopt, aws[c.adopt].state = "up")
  <2>1. c \in CR(k) /\ cr[k] \in CR(k)
    BY DEF Adopt, TypeInv, CRsTyped, WorkersTyped, Busy
  <2>2. r \in RoleARNs \cup {NIL} /\ cr' = [cr EXCEPT ![k] = n] /\ c.adopt \in Ids(k)
    BY <1>3, AdoptShape DEF Object
  <2>3. n \in CR(k)
    BY <2>1, <2>2, MergeType, AdoptedType
  <2>4. CRsTyped'
    BY <2>2, <2>3 DEF TypeInv, CRsTyped
  <2>5. queued' \in [Resources -> BOOLEAN]
    BY <1>3 DEF Adopt, TypeInv
  <2>6. QED
    BY <1>1, <2>4, <2>5, RestIsTyped DEF Adopt
<1>4. QED
  BY <1>2, <1>3

LEMMA CompareType ==
    ASSUME TypeInv, NEW k \in Resources, Compare(k)
    PROVE  Stepped
<1> DEFINE c == worker[k].copy
<1>1. c \in CR(k)
  BY DEF Compare, TypeInv, WorkersTyped, Busy
<1>2. CRsTyped' /\ WorkersTyped' /\ queued' \in [Resources -> BOOLEAN]
  BY <1>1, ReportTerminal, ReportType DEF Compare
<1>3. aws' \in [ImageARNs \cup VMs -> Object]
  <2>1. c.role.val \in RoleARNs \cup {NIL}
    BY <1>1 DEF CR, Field, ARNs
  <2>2. CASE aws' = aws
    BY <2>2 DEF TypeInv
  <2>3. CASE aws' # aws
    <3>1. aws' = [aws EXCEPT ![Identifier(c)].state = "updating", ![Identifier(c)].role = c.role.val]
      BY <2>3 DEF Compare
    <3>2. QED
      BY <2>1, <3>1 DEF TypeInv, Object, States
  <2>4. QED
    BY <2>2, <2>3
<1>4. QED
  BY <1>2, <1>3 DEF Compare, Stepped, TypeInv

LEMMA DeleteType ==
    ASSUME TypeInv, NEW k \in Resources, Delete(k)
    PROVE  Stepped
<1> DEFINE c == worker[k].copy
<1>1. c \in CR(k) /\ cr[k] \in CR(k)
  BY DEF Delete, TypeInv, CRsTyped, WorkersTyped, Busy
<1>2. aws' \in [ImageARNs \cup VMs -> Object]
  BY DEF Delete, TypeInv, Object, States
<1>3. CASE Report(k, c, TRUE)
  BY <1>1, <1>2, <1>3, ReportType DEF Delete, Stepped, TypeInv
<1>4. CASE ~Report(k, c, TRUE)
  <2>1. /\ cr' = [cr EXCEPT ![k].exists = FALSE, ![k].finalizer = FALSE]
        /\ worker' = [worker EXCEPT ![k] = Idle]
        /\ UNCHANGED <<role, queued, used>>
    BY <1>4 DEF Delete
  <2>2. cr' = [cr EXCEPT ![k] = [cr[k] EXCEPT !.exists = FALSE, !.finalizer = FALSE]]
    BY <2>1 DEF TypeInv, CRsTyped
  <2>3. [cr[k] EXCEPT !.exists = FALSE, !.finalizer = FALSE] \in CR(k)
    BY <1>1 DEF CR
  <2>4. CRsTyped'
    BY <2>2, <2>3 DEF TypeInv, CRsTyped
  <2>5. WorkersTyped'
    BY <2>1 DEF TypeInv, WorkersTyped, Busy, Idle, PCs
  <2>6. QED
    BY <1>2, <2>1, <2>4, <2>5 DEF Stepped, TypeInv
<1>5. QED
  BY <1>3, <1>4

LEMMA OutsideType ==
    ASSUME TypeInv, RoleChanges \/ Users \/ Cloud \/ Crash
    PROVE  Stepped
<1>1. CASE RoleChanges
  BY <1>1, SpendType DEF RoleChanges, RoleStates, Stepped, TypeInv, Disturbances, CRsTyped,
     WorkersTyped, Busy
<1>2. CASE Users
  <2>1. PICK k \in Resources : UserEdits(k) \/ UserDeletes(k)
    BY <1>2 DEF Users
  <2>2. cr[k] \in CR(k) /\ DOMAIN cr = Resources
    BY DEF TypeInv, CRsTyped
  <2>3. CRsTyped'
    <3>1. CASE UserEdits(k)
      <4>1. PICK f \in Fields(k) : \E x \in Field(f) : cr' = [cr EXCEPT ![k][f] = x]
        BY <3>1 DEF UserEdits
      <4>2. PICK x \in Field(f) : cr' = [cr EXCEPT ![k] = [cr[k] EXCEPT ![f] = x]]
        BY <2>2, <4>1
      <4>3. [cr[k] EXCEPT ![f] = x] \in CR(k)
        BY <2>2 DEF CR, Fields
      <4>4. QED
        BY <4>2, <4>3 DEF TypeInv, CRsTyped
    <3>2. CASE UserDeletes(k)
      <4>1. cr' = [cr EXCEPT ![k] = [cr[k] EXCEPT !.deleting = TRUE, !.exists = cr[k].finalizer]]
        BY <2>2, <3>2 DEF UserDeletes
      <4>2. [cr[k] EXCEPT !.deleting = TRUE, !.exists = cr[k].finalizer] \in CR(k)
        BY <2>2 DEF CR
      <4>3. QED
        BY <4>1, <4>2 DEF TypeInv, CRsTyped
    <3>3. QED
      BY <2>1, <3>1, <3>2
  <2>4. queued' \in [Resources -> BOOLEAN] /\ UNCHANGED <<role, aws, worker>>
    BY <2>1 DEF UserEdits, UserDeletes, TypeInv
  <2>5. used' \in [Disturbances -> Nat] /\ (used'["edit"] = 0 => used["edit"] = 0)
    BY <2>1, SpendType DEF UserEdits, UserDeletes, Disturbances
  <2>6. QED
    BY <2>3, <2>4, <2>5 DEF Stepped, TypeInv, WorkersTyped, Busy
<1>3. CASE Cloud
  <2>1. used' \in [Disturbances -> Nat] /\ (used'["edit"] = 0 => used["edit"] = 0)
    BY <1>3, SpendType DEF Cloud, Progress, Break, DeleteOutside, TypeInv, Disturbances
  <2>2. PICK i \in ImageARNs \cup VMs, s \in States :
           aws' = [aws EXCEPT ![i].state = s] /\ UNCHANGED <<role, cr, worker, queued>>
    BY <1>3 DEF Cloud, Progress, Break, DeleteOutside, Move, States
  <2>3. aws' \in [ImageARNs \cup VMs -> Object]
    BY <2>2 DEF TypeInv, Object
  <2>4. QED
    BY <2>1, <2>2, <2>3 DEF Stepped, TypeInv, CRsTyped, WorkersTyped, Busy
<1>4. CASE Crash
  <2>1. WorkersTyped'
    BY <1>4 DEF Crash, WorkersTyped, Busy, Idle, PCs
  <2>2. queued' \in [Resources -> BOOLEAN]
    BY <1>4 DEF Crash, TypeInv, CRsTyped, CR
  <2>3. QED
    BY <1>4, <2>1, <2>2, SpendType DEF Crash, Stepped, TypeInv, CRsTyped, Disturbances
<1>5. QED
  BY <1>1, <1>2, <1>3, <1>4

LEMMA TypeInit == Init => TypeInv
<1> SUFFICES ASSUME Init PROVE TypeInv
  OBVIOUS
<1>1. PICK b \in {NoRef, ByName}, a \in ImageARNs \cup {NIL, Missing},
           m \in {ByName} \cup {[ref |-> "named", val |-> i] : i \in ImageARNs} :
         cr = [k \in Resources |->
                 IF k = "Microvm" THEN NewCR(k, ByName, m, NIL) ELSE NewCR(k, b, NIL, a)]
  BY DEF Init
<1>2. /\ b \in Field("role") /\ ByName \in Field("role")
      /\ m \in Field("image")
  BY DEF NoRef, ByName, Field, Refs, ARNs
<1>3. CRsTyped
  <2>1. NewCR("Microvm", ByName, m, NIL) \in CR("Microvm")
    BY <1>2 DEF NewCR, CR
  <2>2. NewCR("MicrovmImage", b, NIL, a) \in CR("MicrovmImage")
    BY <1>2 DEF NewCR, CR
  <2>3. QED
    BY <1>1, <2>1, <2>2 DEF CRsTyped, Resources
<1>4. aws \in [ImageARNs \cup VMs -> Object]
  BY DEF Init, Absent, Object, States
<1>5. role \in Role /\ queued \in [Resources -> BOOLEAN] /\ used \in [Disturbances -> Nat]
  BY DEF Init, Role
<1>6. WorkersTyped
  BY DEF Init, WorkersTyped, Busy, Idle, PCs
<1>7. OffersTyped
  BY DEF Init, OffersTyped
<1>8. QED
  BY <1>3, <1>4, <1>5, <1>6, <1>7 DEF TypeInv

LEMMA StepType ==
    ASSUME TypeInv, Steps
    PROVE  Stepped
<1>1. ASSUME NEW k \in Resources, Reconcile(k)
      PROVE  Stepped
  <2>1. ASSUME NEW f \in Fields(k), Resolve(k, f)
        PROVE  Stepped
    <3>1. CRsTyped' /\ WorkersTyped' /\ queued' \in [Resources -> BOOLEAN]
      BY <2>1, ResolveType
    <3>2. QED
      BY <2>1, <3>1, RestIsTyped DEF Resolve
  <2>2. QED
    BY <1>1, <2>1, DequeueType, FindType, AdoptType, CompareType, ManageType, CreateType,
       DeleteType DEF Reconcile
<1>2. QED
  BY <1>1, OutsideType DEF Steps

LEMMA TypeStep ==
    ASSUME TypeInv, Next
    PROVE  TypeInv'
<1>1. Stepped
  BY StepType DEF Next
<1>2. OffersTyped'
  BY <1>1, ObserveType DEF Next, Stepped
<1>3. QED
  BY <1>1, <1>2 DEF Stepped, TypeInv

LEMMA TypeStutter ==
    ASSUME TypeInv, UNCHANGED vars
    PROVE  TypeInv'
BY DEF vars, TypeInv, CRsTyped, WorkersTyped, OffersTyped, Busy

\* The two CRs, the workers' copies of them and what is in AWS keep the shape
\* that the API types give them, over every sequence of reconciliations, edits
\* and crashes.
THEOREM TypeCorrect == Spec => []TypeOK
<1>1. TypeInv => TypeOK
  BY DEF TypeInv, TypeOK, CRsTyped, WorkersTyped, OffersTyped
<1>2. TypeInv /\ [Next]_vars => TypeInv'
  BY TypeStep, TypeStutter
<1>3. QED
  BY <1>1, <1>2, TypeInit, PTL DEF Spec

-----------------------------------------------------------------------------
(* What an action leaves alone.                                            *)

\* The invariant of a worker survives every step that does not give the
\* worker something to do.
LEMMA KeepsWorker ==
    ASSUME TypeInv, Stepped, Observe, NEW j \in Resources, WorkerInv(j),
           worker'[j] \in {worker[j], Idle},
           cr'[j].adopt = cr[j].adopt,
           used'["edit"] = 0 => SameSpec(cr'[j], cr[j])
    PROVE  WorkerInv(j)'
<1>1. CASE worker'[j] = Idle
  BY <1>1 DEF WorkerInv, AdoptionKnown, ValidActs, OfferTaken, Taken, Busy, Idle, Acting
<1>2. CASE worker'[j] = worker[j] /\ worker[j].pc # "idle"
  <2>1. AdoptionKnown(j)' /\ ValidActs(j)'
    BY <1>2 DEF WorkerInv, AdoptionKnown, ValidActs, Busy
  <2>2. OfferTaken(j)'
    <3>1. Taken(j)' = Taken(j) /\ Taken(j) \subseteq Fields(j)
      BY <1>2 DEF Taken, TypeInv, WorkersTyped, Fields
    <3>2. \A f \in Fields(j) : offered[j][f] \subseteq offered'[j][f]
      BY <1>2, ObserveType DEF Stepped
    <3>3. QED
      BY <1>2, <3>1, <3>2 DEF WorkerInv, OfferTaken
  <2>3. ASSUME used'["edit"] = 0
        PROVE  CopyCurrent(j)'
    <3>1. CopyCurrent(j)
      BY <1>2, <2>3 DEF Stepped, WorkerInv, Busy
    <3>2. SameSpec(cr'[j], cr[j])
      BY <2>3
    <3>3. validateReferenceFields(j, cr'[j]) = validateReferenceFields(j, cr[j])
      BY <3>2, SameSpecValid
    <3>4. \A f \in Fields(j) : cr'[j][f] = cr[j][f]
      BY <3>2 DEF SameSpec, Fields
    <3>5. Taken(j)' = Taken(j)
      BY <1>2 DEF Taken
    <3>6. QED
      BY <1>2, <3>1, <3>3, <3>4, <3>5 DEF CopyCurrent
  <2>4. QED
    BY <2>1, <2>2, <2>3 DEF WorkerInv
<1>3. CASE worker'[j] = worker[j] /\ worker[j].pc = "idle"
  BY <1>3 DEF WorkerInv, AdoptionKnown, ValidActs, OfferTaken, Taken, Busy, Acting
<1>4. QED
  BY <1>1, <1>2, <1>3

\* What is in AWS stays in order if nothing is created there.
LEMMA KeepsCloud ==
    ASSUME TypeInv, Stepped, CloudInv,
           \A j \in Resources : cr'[j].adopt = cr[j].adopt,
           used'["edit"] = 0 => \A j \in Resources : SameSpec(cr'[j], cr[j]),
           \A i \in ImageARNs \cup VMs : aws'[i].state # "absent" => aws[i].state # "absent",
           used'["edit"] = 0 => \A i \in ImageARNs : aws'[i].role \in {aws[i].role} \cup RoleARNs
    PROVE  CloudInv'
<1>1. ImagesHaveRoles'
  BY ReferencesAssumption DEF CloudInv, ImagesHaveRoles, Stepped, Resources, SameSpec
<1>2. AdoptedNotBuilt'
  BY DEF CloudInv, AdoptedNotBuilt, Resources
<1>3. InvalidNotCreated'
  <2>1. SUFFICES ASSUME used'["edit"] = 0, NEW k \in Resources,
                        NEW i \in Ids(k), aws'[i].state # "absent", i # cr'[k].adopt
                 PROVE  validateReferenceFields(k, cr'[k])
    BY DEF InvalidNotCreated
  <2>2. i \in ImageARNs \cup VMs
    BY DEF Ids
  <2>3. aws[i].state # "absent" /\ i # cr[k].adopt
    BY <2>1, <2>2
  <2>4. validateReferenceFields(k, cr[k])
    BY <2>1, <2>3 DEF CloudInv, InvalidNotCreated, Stepped
  <2>5. QED
    BY <2>1, <2>4, SameSpecValid
<1>4. QED
  BY <1>1, <1>2, <1>3 DEF CloudInv

LEMMA TakesField ==
    ASSUME TypeInv, NEW k \in Resources, NEW f, worker[k].pc = f, f \in Fields(k)
    PROVE  worker[k].copy \in CR(k) /\ Busy(k) /\ f \in {"role", "image"}
BY DEF TypeInv, WorkersTyped, Busy, Fields

\* Resolving goes on to the next field, to ReadOne, or ends the reconciliation.
Continues(k, f) ==
    LET c == worker[k].copy
        d == worker'[k].copy
        t == Referenced(f)
    IN /\ UNCHANGED <<cr, queued>>
       /\ worker'[k].valid = worker[k].valid
       /\ d \in CR(k)
       /\ d.adopt = c.adopt /\ d.deleting = c.deleting /\ d.finalizer = c.finalizer
       /\ d[f].ref = c[f].ref
       /\ \A g \in Fields(k) \ {f} : d[g] = c[g]
       /\ \/ d[f] = c[f] /\ c[f].ref # "named"
          \/ c[f].ref = "named" /\ getReferencedResourceState(t) /\ d[f].val = t.arn
          \/ d[f] = c[f] /\ ToleratesUnresolved(c) /\ worker'[k].pc = "find"
       /\ \/ worker'[k].pc = "image" /\ k = "Microvm" /\ f = "role"
          \/ worker'[k].pc = "find" /\ ToleratesUnresolved(c)
          \/ worker'[k].pc = "find" /\ worker[k].valid /\ (k = "Microvm" => f = "image")

LEMMA ResolveShape ==
    ASSUME TypeInv, NEW k \in Resources, NEW f \in Fields(k), Resolve(k, f)
    PROVE  /\ \/ Continues(k, f)
              \/ worker'[k] = Idle /\ \A j \in Resources : SameSpec(cr'[j], cr[j])
           /\ \A j \in Resources \ {k} : worker'[j] \in {worker[j], Idle} /\ SameSpec(cr'[j], cr[j])
<1> DEFINE c == worker[k].copy
           t == Referenced(f)
           d == SetVal(c, f, t.arn)
           Goal == /\ \/ Continues(k, f)
                      \/ worker'[k] = Idle /\ \A j \in Resources : SameSpec(cr'[j], cr[j])
                   /\ \A j \in Resources \ {k} :
                        worker'[j] \in {worker[j], Idle} /\ SameSpec(cr'[j], cr[j])
<1>1. c \in CR(k) /\ f \in {"role", "image"} /\ c[f] \in Field(f)
  BY TakesField, FieldType DEF Resolve
<1>2. ASSUME NEW x \in CR(k), FailResolution(k, x)
      PROVE  Goal
  BY <1>2, ReportTerminal, ReportType DEF FailResolution
<1>3. ASSUME NEW x \in CR(k), NEW l \in {"image", "find"}, GoTo(k, l, x), UNCHANGED <<cr, queued>>,
             x.adopt = c.adopt, x.deleting = c.deleting, x.finalizer = c.finalizer,
             x[f].ref = c[f].ref, \A g \in Fields(k) \ {f} : x[g] = c[g],
             \/ x[f] = c[f] /\ c[f].ref # "named"
             \/ c[f].ref = "named" /\ getReferencedResourceState(t) /\ x[f].val = t.arn
             \/ x[f] = c[f] /\ ToleratesUnresolved(c) /\ l = "find",
             \/ l = "image" /\ k = "Microvm" /\ f = "role"
             \/ l = "find" /\ ToleratesUnresolved(c)
             \/ l = "find" /\ worker[k].valid /\ (k = "Microvm" => f = "image")
      PROVE  Goal
  <2>1. /\ worker'[k].pc = l /\ worker'[k].copy = x /\ worker'[k].valid = worker[k].valid
        /\ \A j \in Resources \ {k} : worker'[j] = worker[j]
    BY <1>3, GoToType DEF PCs
  <2>2. Continues(k, f)
    BY <1>3, <2>1 DEF Continues
  <2>3. QED
    BY <1>3, <2>1, <2>2 DEF SameSpec
<1>4. ASSUME NEW x \in CR(k), Resolved(k, f, x),
             x.adopt = c.adopt, x.deleting = c.deleting, x.finalizer = c.finalizer,
             x[f].ref = c[f].ref, \A g \in Fields(k) \ {f} : x[g] = c[g],
             \/ x[f] = c[f] /\ c[f].ref # "named"
             \/ c[f].ref = "named" /\ getReferencedResourceState(t) /\ x[f].val = t.arn
      PROVE  Goal
  <2>1. ToleratesUnresolved(x) = ToleratesUnresolved(c)
    BY <1>4 DEF ToleratesUnresolved, NeedsAdoption
  <2>2. CASE k = "Microvm" /\ f = "role"
    BY <1>3, <1>4, <2>2 DEF Resolved
  <2>3. CASE ~(k = "Microvm" /\ f = "role") /\ (worker[k].valid \/ ToleratesUnresolved(c))
    <3>1. k = "Microvm" => f = "image"
      BY <2>3 DEF Fields
    <3>2. GoTo(k, "find", x) /\ UNCHANGED <<cr, queued>>
      BY <1>4, <2>1, <2>3 DEF Resolved
    <3>3. QED
      BY <1>3, <1>4, <2>3, <3>1, <3>2
  <2>4. CASE ~(k = "Microvm" /\ f = "role") /\ ~(worker[k].valid \/ ToleratesUnresolved(c))
    BY <1>2, <1>4, <2>1, <2>4 DEF Resolved
  <2>5. QED
    BY <2>2, <2>3, <2>4
<1>5. CASE c[f].ref \in {"none", "empty"}
  <2>1. Resolved(k, f, c)
    BY <1>5 DEF Resolve
  <2>2. QED
    BY <1>1, <1>4, <1>5, <2>1
<1>6. CASE c[f].ref \notin {"none", "empty"} /\ getReferencedResourceState(t)
  <2>1. t.arn \in ARNs(f)
    BY <1>1, <1>6, ReferencedType
  <2>2. /\ d \in CR(k)
        /\ d.adopt = c.adopt /\ d.deleting = c.deleting /\ d.finalizer = c.finalizer
        /\ d[f] = [ref |-> c[f].ref, val |-> t.arn]
        /\ \A g \in Fields(k) \ {f} : d[g] = c[g]
    BY <1>1, <2>1, ResolvedType
  <2>3. Resolved(k, f, d)
    BY <1>6 DEF Resolve, SetVal
  <2>4. c[f].ref = "named"
    BY <1>1, <1>6 DEF Field, Refs
  <2> HIDE DEF d
  <2>5. d[f].ref = c[f].ref /\ d[f].val = t.arn
    BY <2>2
  <2>6. QED
    BY <1>4, <1>6, <2>2, <2>3, <2>4, <2>5
<1>7. CASE c[f].ref \notin {"none", "empty"} /\ ~getReferencedResourceState(t)
  <2>1. CASE ToleratesUnresolved(c)
    <3>1. GoTo(k, "find", c) /\ UNCHANGED <<cr, queued>>
      BY <1>7, <2>1 DEF Resolve
    <3>2. QED
      BY <1>1, <1>3, <2>1, <3>1
  <2>2. CASE ~ToleratesUnresolved(c)
    BY <1>1, <1>2, <1>7, <2>2 DEF Resolve
  <2>3. QED
    BY <2>1, <2>2
<1>8. QED
  BY <1>5, <1>6, <1>7

-----------------------------------------------------------------------------
(* What a worker's own steps establish for it.                             *)

LEMMA DequeueKeeps ==
    ASSUME TypeInv, Stepped, NEW k \in Resources, Dequeue(k), Observe, WorkerInv(k)
    PROVE  WorkerInv(k)'
<1>1. CASE cr[k].exists
  <2>1. /\ cr' = cr /\ cr[k] \in CR(k) /\ DOMAIN worker = Resources
        /\ worker'[k] = [pc |-> "role", copy |-> ResetConditions(cr[k]),
                         valid |-> validateReferenceFields(k, cr[k])]
    BY <1>1 DEF Dequeue, TypeInv, CRsTyped, WorkersTyped
  <2>2. SameSpec(worker'[k].copy, cr'[k])
    BY <2>1, ResetType
  <2>3. AdoptionKnown(k)' /\ ValidActs(k)' /\ Taken(k)' = {}
    BY <2>1, <2>2 DEF AdoptionKnown, ValidActs, Acting, Taken, SameSpec
  <2>4. CopyCurrent(k)'
    <3>1. \A f \in Fields(k) : worker'[k].copy[f] = cr'[k][f]
      BY <2>2 DEF SameSpec, Fields
    <3>2. worker'[k].valid => validateReferenceFields(k, cr'[k])
      BY <2>1
    <3>3. QED
      BY <2>3, <3>1, <3>2 DEF CopyCurrent
  <2>5. QED
    BY <2>3, <2>4 DEF WorkerInv, OfferTaken
<1>2. CASE ~cr[k].exists
  BY <1>2, KeepsWorker DEF Dequeue, SameSpec
<1>3. QED
  BY <1>1, <1>2

\* A resolution takes what is offered at that moment, and an image that goes on
\* has a role: resolved, or given in a spec that was found valid.
LEMMA ResolveKeeps ==
    ASSUME TypeInv, Stepped, NEW k \in Resources, NEW f \in Fields(k), Resolve(k, f), Observe,
           WorkerInv(k), ImagesHaveRoles
    PROVE  WorkerInv(k)'
<1> DEFINE c == worker[k].copy
           d == worker'[k].copy
           t == Referenced(f)
<1>1. CASE worker'[k] = Idle /\ \A j \in Resources : SameSpec(cr'[j], cr[j])
  BY <1>1, KeepsWorker DEF SameSpec
<1>2. CASE Continues(k, f)
  <2>1. c \in CR(k) /\ Busy(k) /\ f \in {"role", "image"} /\ worker[k].pc = f
    BY TakesField DEF Resolve
  <2>2. UNCHANGED <<role, cr, aws, used>>
    BY <1>2 DEF Continues, Resolve
  <2>3. ToleratesUnresolved(d) = ToleratesUnresolved(c)
    BY <1>2 DEF Continues, ToleratesUnresolved, NeedsAdoption
  <2>4. AdoptionKnown(k)'
    BY <1>2, <2>1, <2>2 DEF Continues, WorkerInv, AdoptionKnown, Busy
  <2>5. ValidActs(k)'
    BY <1>2, <2>3 DEF Continues, ValidActs, Acting
  <2>6. Taken(k)' \subseteq Taken(k) \cup {f} /\ Taken(k)' \subseteq Fields(k)
    BY <1>2, <2>1, <2>3 DEF Continues, Taken, Acting, Fields, Resources
  <2>7. f \in Taken(k)' =>
          \/ d[f] = c[f] /\ c[f].ref # "named"
          \/ c[f].ref = "named" /\ getReferencedResourceState(t) /\ d[f].val = t.arn
    BY <1>2, <2>3 DEF Continues, Taken, Acting
  <2>8. OfferTaken(k)'
    <3>1. SUFFICES ASSUME NEW g \in Taken(k)', d[g].ref = "named"
                   PROVE  d[g].val \in offered'[k][g]
      BY DEF OfferTaken
    <3>2. offered[k][g] \subseteq offered'[k][g]
      BY <1>2, <2>6, <3>1, ObserveType DEF Stepped, Continues
    <3>3. CASE g # f
      BY <1>2, <2>6, <3>1, <3>2, <3>3 DEF Continues, WorkerInv, OfferTaken
    <3>4. CASE g = f
      <4>1. getReferencedResourceState(t) /\ d[f].val = t.arn
        BY <1>2, <2>7, <3>1, <3>4 DEF Continues
      <4>2. Ready(t)' /\ t' = t
        BY <2>2, <4>1 DEF getReferencedResourceState, Ready, Referenced
      <4>3. QED
        BY <1>2, <3>4, <4>1, <4>2, ObserveType DEF Stepped, Continues
    <3>5. QED
      BY <3>3, <3>4
  <2>9. ASSUME used'["edit"] = 0
        PROVE  CopyCurrent(k)'
    <3>1. CopyCurrent(k)
      BY <2>1, <2>2, <2>9 DEF WorkerInv
    <3>2. \A g \in Fields(k) :
             /\ d[g].ref = cr'[k][g].ref
             /\ cr'[k][g].ref = "none" => d[g].val = cr'[k][g].val
      BY <1>2, <2>2, <3>1 DEF Continues, CopyCurrent
    <3>3. worker'[k].valid => validateReferenceFields(k, cr'[k])
      BY <1>2, <2>2, <3>1 DEF Continues, CopyCurrent
    <3>4. ASSUME k = "MicrovmImage", "role" \in Taken(k)'
          PROVE  d.role.val # NIL
      <4>1. f = "role" /\ Fields(k) = {"role"} /\ worker'[k].pc = "find"
        BY <1>2, <3>4 DEF Fields, Continues
      <4>2. worker[k].valid
        BY <1>2, <2>3, <3>4, <4>1 DEF Continues, Taken, Acting
      <4>3. validateReferenceFields(k, cr[k]) /\ c.role.ref = cr[k].role.ref
        BY <3>1, <4>1, <4>2 DEF CopyCurrent
      <4>4. c.role.ref # "empty" /\ c.role \in Field("role")
        BY <2>1, <2>2, <2>9, <3>4, <4>3 DEF ImagesHaveRoles, CR
      <4>5. CASE c.role.ref = "none"
        <5>1. cr[k].role.val # NIL
          BY <3>4, <4>3, <4>5 DEF validateReferenceFields, RequiredField
        <5>2. QED
          BY <2>2, <3>2, <4>1, <4>3, <4>5, <5>1
      <4>6. CASE c.role.ref = "named"
        BY <2>7, <3>4, <4>1, <4>6 DEF getReferencedResourceState
      <4>7. QED
        BY <4>4, <4>5, <4>6 DEF Field, Refs
    <3>5. QED
      BY <3>2, <3>3, <3>4 DEF CopyCurrent
  <2>10. QED
    BY <2>4, <2>5, <2>8, <2>9 DEF WorkerInv
<1>3. QED
  BY <1>1, <1>2, ResolveShape

\* Going on to manage or create, after nothing was found.
LEMMA GoOnKeeps ==
    ASSUME TypeInv, Stepped, Observe, NEW k \in Resources, WorkerInv(k),
           worker[k].pc \in Acting, worker'[k].pc \in {"manage", "create"},
           worker'[k].valid = worker[k].valid,
           LET c == worker[k].copy
               d == worker'[k].copy
           IN /\ c \in CR(k) /\ c.adopt = NIL /\ ~c.deleting
              /\ SameSpec(d, c) /\ d.deleting = c.deleting,
           SameSpec(cr'[k], cr[k])
    PROVE  WorkerInv(k)'
<1> DEFINE c == worker[k].copy
           d == worker'[k].copy
<1>1. ~ToleratesUnresolved(c) /\ ~ToleratesUnresolved(d)
  BY DEF ToleratesUnresolved, NeedsAdoption, SameSpec
<1>2. AdoptionKnown(k)' /\ ValidActs(k)'
  BY <1>1 DEF WorkerInv, AdoptionKnown, ValidActs, SameSpec, Busy, Acting
<1>3. Taken(k) = Fields(k) /\ Taken(k)' = Fields(k)
  BY <1>1 DEF Taken, Acting
<1>4. \A f \in Fields(k) : d[f] = c[f] /\ cr'[k][f] = cr[k][f]
  BY DEF SameSpec, Fields
<1>5. OfferTaken(k)'
  <2>1. \A f \in Fields(k) : offered[k][f] \subseteq offered'[k][f]
    BY ObserveType DEF Stepped
  <2>2. QED
    BY <1>3, <1>4, <2>1 DEF WorkerInv, OfferTaken
<1>6. used'["edit"] = 0 => CopyCurrent(k)'
  <2>1. used'["edit"] = 0 => CopyCurrent(k)
    BY DEF Stepped, WorkerInv, Busy, Acting
  <2>2. validateReferenceFields(k, cr'[k]) = validateReferenceFields(k, cr[k])
    BY SameSpecValid
  <2>3. c.role = d.role
    BY DEF SameSpec
  <2>4. QED
    BY <1>3, <1>4, <2>1, <2>2, <2>3 DEF CopyCurrent
<1>7. QED
  BY <1>2, <1>5, <1>6 DEF WorkerInv

LEMMA FindNothingKeeps ==
    ASSUME TypeInv, Stepped, Observe, NEW k \in Resources, WorkerInv(k), FindNothing(k)
    PROVE  /\ WorkerInv(k)'
           /\ \A j \in Resources : SameSpec(cr'[j], cr[j])
           /\ \A j \in Resources \ {k} : worker'[j] \in {worker[j], Idle}
<1> DEFINE c == worker[k].copy
<1>1. c \in CR(k)
  BY DEF FindNothing, TypeInv, WorkersTyped, Busy
<1>2. CASE Report(k, c, TRUE)
  BY <1>1, <1>2, ReportType, KeepsWorker DEF SameSpec
<1>3. CASE ~Report(k, c, TRUE)
  <2>1. PICK l \in {"manage", "create"} : GoTo(k, l, c) /\ UNCHANGED <<cr, queued>>
    BY <1>3 DEF FindNothing
  <2>2. /\ worker'[k].pc = l /\ worker'[k].copy = c /\ worker'[k].valid = worker[k].valid
        /\ \A j \in Resources \ {k} : worker'[j] = worker[j]
    BY <1>1, <2>1, GoToType DEF PCs
  <2>3. c.adopt = NIL /\ ~c.deleting /\ worker[k].pc = "find"
    BY <1>3 DEF FindNothing
  <2>4. WorkerInv(k)'
    BY <1>1, <2>1, <2>2, <2>3, GoOnKeeps DEF SameSpec, Acting
  <2>5. QED
    BY <2>1, <2>2, <2>4 DEF SameSpec
<1>4. QED
  BY <1>2, <1>3

LEMMA ManageKeeps ==
    ASSUME TypeInv, Stepped, Observe, NEW k \in Resources, WorkerInv(k), Manage(k)
    PROVE  /\ WorkerInv(k)'
           /\ \A j \in Resources : SameSpec(cr'[j], cr[j])
           /\ \A j \in Resources \ {k} : worker'[j] \in {worker[j], Idle}
<1> DEFINE c == worker[k].copy
           d == [c EXCEPT !.finalizer = TRUE]
           e == [cr[k] EXCEPT !.finalizer = TRUE]
<1>1. c \in CR(k) /\ cr[k] \in CR(k) /\ DOMAIN worker = Resources
  BY DEF Manage, TypeInv, CRsTyped, WorkersTyped, Busy
<1>2. CASE cr[k].exists
  <2>1. GoTo(k, "create", d) /\ cr' = [cr EXCEPT ![k] = e]
    BY <1>2 DEF Manage, TypeInv, CRsTyped
  <2>2. /\ d \in CR(k) /\ SameSpec(d, c) /\ d.deleting = c.deleting
        /\ SameSpec(e, cr[k])
    BY <1>1 DEF CR, SameSpec
  <2> HIDE DEF d, e
  <2>3. /\ worker'[k].pc = "create" /\ worker'[k].copy = d /\ worker'[k].valid = worker[k].valid
        /\ \A j \in Resources \ {k} : worker'[j] = worker[j]
    BY <2>1, <2>2, GoToType DEF PCs
  <2>4. \A j \in Resources : SameSpec(cr'[j], cr[j])
    BY <2>1, <2>2 DEF TypeInv, CRsTyped, SameSpec
  <2>5. c.adopt = NIL /\ ~c.deleting /\ worker[k].pc \in Acting
    BY DEF WorkerInv, AdoptionKnown, Manage, Acting
  <2>6. WorkerInv(k)'
    BY <1>1, <2>2, <2>3, <2>4, <2>5, GoOnKeeps
  <2>7. QED
    BY <2>3, <2>4, <2>6
<1>3. CASE ~cr[k].exists
  <2>1. worker' = [worker EXCEPT ![k] = Idle] /\ UNCHANGED cr
    BY <1>3 DEF Manage
  <2>2. QED
    BY <1>1, <2>1, KeepsWorker DEF SameSpec
<1>4. QED
  BY <1>2, <1>3

-----------------------------------------------------------------------------
(* The steps that write to AWS, and the adoption.                          *)

\* A worker that creates has a valid spec, which nobody has edited since the
\* worker read it, and adopts nothing.
LEMMA CreatesValid ==
    ASSUME TypeInv, NEW k \in Resources, WorkerInv(k), worker[k].pc = "create"
    PROVE  /\ worker[k].copy \in CR(k) /\ ~ToleratesUnresolved(worker[k].copy)
           /\ Taken(k) = Fields(k)
           /\ cr[k].adopt = NIL
           /\ used["edit"] = 0 => validateReferenceFields(k, cr[k])
<1>1. Busy(k) /\ worker[k].copy \in CR(k) /\ worker[k].pc \in Acting
  BY DEF TypeInv, WorkersTyped, Busy, Acting
<1>2. worker[k].copy.adopt = NIL /\ ~worker[k].copy.deleting /\ cr[k].adopt = NIL
  BY <1>1 DEF WorkerInv, AdoptionKnown
<1>3. ~ToleratesUnresolved(worker[k].copy)
  BY <1>2 DEF ToleratesUnresolved, NeedsAdoption
<1>4. worker[k].valid
  BY <1>1, <1>3 DEF WorkerInv, ValidActs
<1>5. QED
  BY <1>1, <1>2, <1>3, <1>4 DEF Taken, WorkerInv, CopyCurrent

LEMMA CreateShape ==
    ASSUME TypeInv, NEW k \in Resources, Create(k)
    PROVE  /\ worker'[k] = Idle
           /\ \A j \in Resources : worker'[j] \in {worker[j], Idle} /\ SameSpec(cr'[j], cr[j])
           /\ UNCHANGED used
           /\ \E i \in Ids(k) :
                /\ \A n \in (ImageARNs \cup VMs) \ {i} : aws'[n] = aws[n]
                /\ aws'[i].role = worker[k].copy.role.val
                /\ k = "Microvm" => aws'[i].image = worker[k].copy.image.val
<1> DEFINE c == worker[k].copy
<1>1. c \in CR(k)
  BY DEF Create, TypeInv, WorkersTyped, Busy
<1>2. PICK i \in Ids(k) :
         /\ aws' = [aws EXCEPT ![i] = [state |-> "starting", role |-> c.role.val,
                              image |-> IF k = "Microvm" THEN c.image.val ELSE NIL]]
         /\ Report(k, [c EXCEPT !.id = i], TRUE)
  BY DEF Create
<1>3. /\ worker'[k] = Idle
      /\ \A j \in Resources : worker'[j] \in {worker[j], Idle} /\ SameSpec(cr'[j], cr[j])
  BY <1>1, <1>2, ReportTerminal, ReportType
<1>4. i \in ImageARNs \cup VMs
  BY DEF Ids
<1>5. QED
  BY <1>2, <1>3, <1>4 DEF Create, TypeInv

LEMMA CreateCloud ==
    ASSUME TypeInv, Stepped, NEW k \in Resources, WorkerInv(k), CloudInv, Create(k)
    PROVE  CloudInv'
<1>1. PICK i \in Ids(k) :
         /\ \A n \in (ImageARNs \cup VMs) \ {i} : aws'[n] = aws[n]
         /\ aws'[i].role = worker[k].copy.role.val
  BY CreateShape
<1>2. \A j \in Resources : SameSpec(cr'[j], cr[j])
  BY CreateShape
<1>3. cr[k].adopt = NIL /\ (used["edit"] = 0 => validateReferenceFields(k, cr[k]))
  BY CreatesValid DEF Create
<1>4. \A j \in Resources : \A n \in Ids(j) : j = k \/ aws'[n] = aws[n]
  BY <1>1, ReferencesAssumption DEF Ids, Resources
<1>5. ImagesHaveRoles'
  <2>1. ASSUME k = "MicrovmImage"
        PROVE  aws'[i].role # NIL
    BY <1>1, <2>1 DEF Create, Accepted
  <2>2. \A n \in ImageARNs : aws'[n] = aws[n] \/ aws'[n].role # NIL
    BY <1>1, <2>1, <1>4 DEF Ids, Resources
  <2>3. QED
    BY <1>2, <2>2 DEF Stepped, CloudInv, ImagesHaveRoles, SameSpec, Resources
<1>6. AdoptedNotBuilt'
  <2>1. CASE k = "MicrovmImage"
    BY <1>2, <1>3, <2>1 DEF AdoptedNotBuilt, SameSpec
  <2>2. CASE k = "Microvm"
    BY <1>2, <1>4, <2>2 DEF CloudInv, AdoptedNotBuilt, SameSpec, Ids, Resources
  <2>3. QED
    BY <2>1, <2>2 DEF Resources
<1>7. InvalidNotCreated'
  <2>1. SUFFICES ASSUME used'["edit"] = 0, NEW j \in Resources,
                        NEW n \in Ids(j), aws'[n].state # "absent", n # cr'[j].adopt
                 PROVE  validateReferenceFields(j, cr'[j])
    BY DEF InvalidNotCreated
  <2>2. validateReferenceFields(j, cr[j])
    BY <1>2, <1>3, <1>4, <2>1 DEF CloudInv, InvalidNotCreated, Stepped, SameSpec
  <2>3. QED
    BY <1>2, <2>2, SameSpecValid
<1>8. QED
  BY <1>5, <1>6, <1>7 DEF CloudInv

\* What Compare sends to AWS is a role.
LEMMA CompareKeeps ==
    ASSUME TypeInv, Stepped, Observe, NEW k \in Resources, WorkerInv(k), CloudInv, Compare(k)
    PROVE  /\ CloudInv'
           /\ \A j \in Resources : worker'[j] \in {worker[j], Idle} /\ SameSpec(cr'[j], cr[j])
<1> DEFINE c == worker[k].copy
           id == Identifier(c)
<1>1. c \in CR(k) /\ Busy(k)
  BY DEF Compare, TypeInv, WorkersTyped, Busy
<1>2. \A j \in Resources : worker'[j] \in {worker[j], Idle} /\ SameSpec(cr'[j], cr[j])
  BY <1>1, ReportTerminal, ReportType DEF Compare
<1>3. \/ aws' = aws
      \/ /\ aws' = [aws EXCEPT ![id].state = "updating", ![id].role = c.role.val]
         /\ k = "MicrovmImage" /\ id \in ImageARNs /\ aws[id].state # "absent"
  <2>1. id \in Ids(k) /\ aws[id].state # "absent"
    BY IdentifierType DEF Compare
  <2>2. QED
    BY <2>1 DEF Compare, Ids
<1>4. ASSUME used'["edit"] = 0, k = "MicrovmImage"
      PROVE  c.role.val \in RoleARNs
  <2>1. ~ToleratesUnresolved(c) /\ "role" \in Taken(k)
    BY <1>4 DEF Compare, ToleratesUnresolved, Taken, Acting, Fields
  <2>2. c.role.val # NIL
    BY <1>1, <1>4, <2>1 DEF Stepped, WorkerInv, CopyCurrent
  <2>3. c.role \in Field("role")
    BY <1>1 DEF CR
  <2>4. QED
    BY <2>2, <2>3 DEF Field, ARNs
<1>5. CASE aws' = aws
  BY <1>2, <1>5, KeepsCloud DEF SameSpec
<1>6. CASE aws' # aws
  <2> HIDE DEF id
  <2>1. /\ aws' = [aws EXCEPT ![id].state = "updating", ![id].role = c.role.val]
        /\ k = "MicrovmImage" /\ aws[id].state # "absent" /\ id \in ImageARNs
    BY <1>3, <1>6
  <2>2. aws[id] \in Object /\ aws \in [ImageARNs \cup VMs -> Object]
    BY <2>1 DEF TypeInv
  <2>3. \A n \in ImageARNs \cup VMs :
           \/ aws'[n] = aws[n]
           \/ n = id /\ aws'[n].role = c.role.val
    BY <2>1, <2>2 DEF Object
  <2>4. \A n \in ImageARNs \cup VMs : aws'[n].state # "absent" => aws[n].state # "absent"
    BY <2>1, <2>3
  <2>5. used'["edit"] = 0 => \A n \in ImageARNs : aws'[n].role \in {aws[n].role} \cup RoleARNs
    BY <1>4, <2>1, <2>3
  <2>6. QED
    BY <1>2, <2>4, <2>5, KeepsCloud DEF SameSpec
<1>7. QED
  BY <1>2, <1>5, <1>6

\* An adopting CR keeps its annotation and its references, and a valid spec
\* stays valid: beside a reference the role is not written, and what is written
\* where there is none is the role of an image.
LEMMA AdoptKeeps ==
    ASSUME TypeInv, Stepped, NEW k \in Resources, WorkerInv(k), CloudInv, Adopt(k)
    PROVE  /\ \A j \in Resources : worker'[j] \in {worker[j], Idle}
           /\ worker'[k] = Idle
           /\ k = "MicrovmImage"
           /\ \A j \in Resources \ {k} : cr'[j] = cr[j]
           /\ cr'[k].adopt = cr[k].adopt /\ cr'[k].role.ref = cr[k].role.ref
           /\ used["edit"] = 0 /\ validateReferenceFields(k, cr[k]) =>
                validateReferenceFields(k, cr'[k])
<1> DEFINE c == worker[k].copy
           r == aws[c.adopt].role
           m == MergeSpec(k, cr[k], c, [c EXCEPT !.role.val = r])
           n == Adopted(m, c.adopt, aws[c.adopt].state = "up")
<1>1. c \in CR(k) /\ cr[k] \in CR(k) /\ Busy(k)
  BY DEF Adopt, TypeInv, CRsTyped, WorkersTyped, Busy
<1>2. worker'[k] = Idle /\ \A j \in Resources : worker'[j] \in {worker[j], Idle}
  BY DEF Adopt, TypeInv, WorkersTyped
<1>3. k = "MicrovmImage"
  BY <1>1 DEF Adopt, NeedsAdoption, CR, Resources
<1>4. CASE ~cr[k].exists
  BY <1>2, <1>3, <1>4 DEF Adopt
<1>5. CASE cr[k].exists
  <2>1. /\ cr' = [cr EXCEPT ![k] = n]
        /\ c.adopt \in Ids(k) /\ aws[c.adopt] \in Object /\ aws[c.adopt].state # "absent"
    BY <1>5, AdoptShape
  <2>2. r \in RoleARNs \cup {NIL}
    BY <2>1 DEF Object
  <2>3. /\ m \in CR(k)
        /\ m.image = cr[k].image /\ m.adopt = cr[k].adopt /\ m.role.ref = cr[k].role.ref
        /\ m.role.val = IF c.role.ref # "none" \/ c.role.val = r THEN cr[k].role.val ELSE r
    BY <1>1, <2>2, MergeType
  <2> HIDE DEF m
  <2>4. SameSpec(n, m)
    BY <2>1, <2>3, AdoptedType
  <2> HIDE DEF n
  <2>5. cr'[k] = n /\ \A j \in Resources \ {k} : cr'[j] = cr[j]
    BY <2>1 DEF TypeInv, CRsTyped
  <2>6. cr'[k].adopt = cr[k].adopt /\ cr'[k].role.ref = cr[k].role.ref /\ cr'[k].role.val = m.role.val
    BY <2>3, <2>4, <2>5 DEF SameSpec
  <2>7. ASSUME used["edit"] = 0, validateReferenceFields(k, cr[k])
        PROVE  validateReferenceFields(k, cr'[k])
    <3>1. c.role.ref = cr[k].role.ref
      BY <1>1, <1>3, <2>7 DEF WorkerInv, CopyCurrent, Fields
    <3>2. r # NIL
      BY <1>3, <2>1, <2>7 DEF CloudInv, ImagesHaveRoles, Ids
    <3>3. /\ cr[k].role.ref = "none" \/ cr[k].role.val = NIL
          /\ cr[k].role.ref # "none" \/ cr[k].role.val # NIL
      BY <1>3, <2>7 DEF validateReferenceFields, Fields, RequiredField
    <3>4. /\ cr'[k].role.ref = "none" \/ cr'[k].role.val = NIL
          /\ cr'[k].role.ref # "none" \/ cr'[k].role.val # NIL
      BY <2>3, <2>6, <3>1, <3>2, <3>3
    <3>5. QED
      BY <1>3, <3>4 DEF validateReferenceFields, Fields, RequiredField
  <2>8. QED
    BY <1>2, <1>3, <2>5, <2>6, <2>7
<1>6. QED
  BY <1>4, <1>5

LEMMA AdoptCloud ==
    ASSUME TypeInv, Stepped, NEW k \in Resources, WorkerInv(k), CloudInv, Adopt(k)
    PROVE  CloudInv'
<1>1. /\ k = "MicrovmImage" /\ UNCHANGED <<aws, used>>
      /\ \A j \in Resources \ {k} : cr'[j] = cr[j]
      /\ cr'[k].adopt = cr[k].adopt /\ cr'[k].role.ref = cr[k].role.ref
      /\ cr[k].adopt # NIL
  BY AdoptKeeps DEF Adopt, NeedsAdoption, WorkerInv, AdoptionKnown, Busy
<1>2. ImagesHaveRoles' /\ AdoptedNotBuilt'
  BY <1>1 DEF CloudInv, ImagesHaveRoles, AdoptedNotBuilt
<1>3. InvalidNotCreated'
  BY <1>1 DEF CloudInv, InvalidNotCreated, AdoptedNotBuilt, Ids
<1>4. QED
  BY <1>2, <1>3 DEF CloudInv

-----------------------------------------------------------------------------
(* The invariant.                                                          *)

LEMMA InvInit == Init => IInv
<1> SUFFICES ASSUME Init PROVE IInv
  OBVIOUS
<1>1. TypeInv
  BY TypeInit
<1>2. \A k \in Resources : worker[k].pc = "idle"
  BY DEF Init, Idle
<1>3. \A k \in Resources : WorkerInv(k)
  BY <1>2 DEF WorkerInv, AdoptionKnown, ValidActs, OfferTaken, Taken, Busy, Acting
<1>4. PICK b \in {NoRef, ByName}, a \in ImageARNs \cup {NIL, Missing}, old \in RoleARNs \cup {NIL} :
         /\ cr["MicrovmImage"] = NewCR("MicrovmImage", b, NIL, a)
         /\ aws = [i \in ImageARNs \cup VMs |->
                     IF i = a /\ old # NIL
                     THEN [state |-> "up", role |-> old, image |-> NIL]
                     ELSE Absent]
         /\ old # NIL => a \in ImageARNs
  BY DEF Init, Resources
<1>5. \A i \in ImageARNs \cup VMs : aws[i].state # "absent" => i = a /\ a \in ImageARNs /\ aws[i].role # NIL
  BY <1>4 DEF Absent
<1>6. cr["MicrovmImage"].adopt = a /\ cr["MicrovmImage"].role.ref # "empty"
  BY <1>4 DEF NewCR, NoRef, ByName
<1>7. ImagesHaveRoles /\ AdoptedNotBuilt
  BY <1>5, <1>6 DEF ImagesHaveRoles, AdoptedNotBuilt
<1>8. InvalidNotCreated
  BY <1>5, <1>6, ReferencesAssumption DEF InvalidNotCreated, Ids, Resources
<1>9. QED
  BY <1>1, <1>3, <1>7, <1>8 DEF IInv, CloudInv

\* Only an adoption and a user change a spec.
LEMMA SpecKept ==
    ASSUME IInv, Stepped, Observe, NEW k \in Resources, Reconcile(k), ~Adopt(k)
    PROVE  \A j \in Resources : SameSpec(cr'[j], cr[j])
<1>1. TypeInv /\ CloudInv /\ \A j \in Resources : WorkerInv(j)
  BY DEF IInv
<1>2. CASE UNCHANGED cr
  BY <1>2 DEF SameSpec
<1>3. ASSUME NEW f \in Fields(k), Resolve(k, f)
      PROVE  \A j \in Resources : SameSpec(cr'[j], cr[j])
  BY <1>1, <1>3, ResolveShape DEF Continues, SameSpec
<1>4. ASSUME NEW c \in CR(k), NEW b \in BOOLEAN, Report(k, c, b)
      PROVE  \A j \in Resources : SameSpec(cr'[j], cr[j])
  BY <1>1, <1>4, ReportType
<1>5. CASE FieldsMissing(k) \/ CreateFails(k)
  <2>1. worker[k].copy \in CR(k)
    BY <1>1, <1>5 DEF FieldsMissing, CreateFails, TypeInv, WorkersTyped, Busy
  <2>2. QED
    BY <1>4, <1>5, <2>1, ReportTerminal DEF FieldsMissing, CreateFails
<1>6. CASE FindNothing(k)
  BY <1>1, <1>6, FindNothingKeeps
<1>7. CASE Compare(k)
  BY <1>1, <1>7, CompareKeeps
<1>8. CASE Manage(k)
  BY <1>1, <1>8, ManageKeeps
<1>9. CASE Create(k)
  BY <1>1, <1>9, CreateShape
<1>10. CASE Delete(k)
  <2>1. worker[k].copy \in CR(k) /\ cr[k] \in CR(k)
    BY <1>1, <1>10 DEF Delete, TypeInv, CRsTyped, WorkersTyped, Busy
  <2>2. CASE Report(k, worker[k].copy, TRUE)
    BY <1>4, <2>1, <2>2
  <2>3. CASE ~Report(k, worker[k].copy, TRUE)
    <3>1. cr' = [cr EXCEPT ![k].exists = FALSE, ![k].finalizer = FALSE]
      BY <1>10, <2>3 DEF Delete
    <3>2. QED
      BY <1>1, <3>1 DEF TypeInv, CRsTyped, CR, SameSpec
  <2>4. QED
    BY <2>2, <2>3
<1>11. QED
  BY <1>2, <1>3, <1>5, <1>6, <1>7, <1>8, <1>9, <1>10 DEF Reconcile, Dequeue

LEMMA OutsideSpecKept ==
    ASSUME TypeInv, RoleChanges \/ Users \/ Cloud \/ Crash
    PROVE  /\ \A j \in Resources : cr'[j].adopt = cr[j].adopt
           /\ used'["edit"] = 0 => \A j \in Resources : SameSpec(cr'[j], cr[j])
<1>1. CASE Users
  <2>1. PICK k \in Resources : UserEdits(k) \/ UserDeletes(k)
    BY <1>1 DEF Users
  <2>2. cr[k] \in CR(k) /\ DOMAIN cr = Resources
    BY DEF TypeInv, CRsTyped
  <2>3. CASE UserEdits(k)
    <3>1. used'["edit"] # 0
      BY <2>3, SpendType DEF UserEdits, Disturbances
    <3>2. PICK f \in Fields(k) : \E x \in Field(f) : cr' = [cr EXCEPT ![k][f] = x]
      BY <2>3 DEF UserEdits
    <3>3. \A j \in Resources : cr'[j].adopt = cr[j].adopt
      BY <2>2, <3>2 DEF CR, Fields
    <3>4. QED
      BY <3>1, <3>3
  <2>4. CASE UserDeletes(k)
    <3>1. cr' = [cr EXCEPT ![k].deleting = TRUE, ![k].exists = cr[k].finalizer]
      BY <2>4 DEF UserDeletes
    <3>2. QED
      BY <2>2, <3>1 DEF CR, SameSpec
  <2>5. QED
    BY <2>1, <2>3, <2>4
<1>2. CASE UNCHANGED cr
  BY <1>2 DEF SameSpec
<1>3. QED
  BY <1>1, <1>2 DEF RoleChanges, Cloud, Progress, Break, DeleteOutside, Move, Crash

\* What a step of the Microvm or image controller establishes.
LEMMA ReconcileKeeps ==
    ASSUME IInv, Stepped, Observe, NEW k \in Resources, Reconcile(k)
    PROVE  (\A j \in Resources : WorkerInv(j)') /\ CloudInv'
<1>1. TypeInv /\ CloudInv /\ \A j \in Resources : WorkerInv(j)
  BY DEF IInv
<1>2. ASSUME \A j \in Resources \ {k} : worker'[j] \in {worker[j], Idle},
             \A j \in Resources : SameSpec(cr'[j], cr[j]),
             WorkerInv(k)', UNCHANGED aws
      PROVE  (\A j \in Resources : WorkerInv(j)') /\ CloudInv'
  BY <1>1, <1>2, KeepsWorker, KeepsCloud DEF SameSpec
<1>3. ASSUME \A j \in Resources : worker'[j] \in {worker[j], Idle} /\ SameSpec(cr'[j], cr[j])
      PROVE  /\ \A j \in Resources : WorkerInv(j)'
             /\ (\A i \in ImageARNs \cup VMs : aws'[i].state # "absent" => aws[i].state # "absent")
                /\ (\A i \in ImageARNs : aws'[i].role = aws[i].role) => CloudInv'
  BY <1>1, <1>3, KeepsWorker, KeepsCloud DEF SameSpec
<1>4. CASE Dequeue(k)
  <2>1. \A j \in Resources \ {k} : worker'[j] = worker[j]
    BY <1>4 DEF Dequeue
  <2>2. QED
    BY <1>1, <1>2, <1>4, <2>1, DequeueKeeps DEF Dequeue, SameSpec
<1>5. ASSUME NEW f \in Fields(k), Resolve(k, f)
      PROVE  (\A j \in Resources : WorkerInv(j)') /\ CloudInv'
  <2>1. WorkerInv(k)'
    BY <1>1, <1>5, ResolveKeeps DEF CloudInv
  <2>2. /\ \A j \in Resources \ {k} : worker'[j] \in {worker[j], Idle}
        /\ \A j \in Resources : SameSpec(cr'[j], cr[j])
    BY <1>1, <1>5, ResolveShape DEF Continues, SameSpec
  <2>3. QED
    BY <1>2, <1>5, <2>1, <2>2 DEF Resolve
<1>6. CASE FieldsMissing(k)
  <2>1. worker[k].copy \in CR(k)
    BY <1>1, <1>6 DEF FieldsMissing, TypeInv, WorkersTyped, Busy
  <2>2. \A j \in Resources : worker'[j] \in {worker[j], Idle} /\ SameSpec(cr'[j], cr[j])
    BY <1>1, <1>6, <2>1, ReportTerminal, ReportType DEF FieldsMissing
  <2>3. QED
    BY <1>3, <1>6, <2>2 DEF FieldsMissing
<1>7. CASE FindNothing(k)
  BY <1>1, <1>2, <1>7, FindNothingKeeps DEF FindNothing
<1>8. CASE Adopt(k)
  <2>1. ASSUME NEW j \in Resources
        PROVE  WorkerInv(j)'
    <3>1. CASE j = k
      BY <1>1, <1>8, <3>1, AdoptKeeps DEF WorkerInv, AdoptionKnown, ValidActs, OfferTaken, Taken,
         Busy, Idle, Acting
    <3>2. CASE j # k
      BY <1>1, <1>8, <3>2, AdoptKeeps, KeepsWorker DEF SameSpec
    <3>3. QED
      BY <3>1, <3>2
  <2>2. QED
    BY <1>1, <1>8, <2>1, AdoptCloud
<1>9. CASE Compare(k)
  BY <1>1, <1>3, <1>9, CompareKeeps
<1>10. CASE Manage(k)
  BY <1>1, <1>2, <1>10, ManageKeeps DEF Manage
<1>11. CASE Create(k)
  BY <1>1, <1>3, <1>11, CreateShape, CreateCloud
<1>12. CASE CreateFails(k)
  <2>1. worker[k].copy \in CR(k)
    BY <1>1, <1>12 DEF CreateFails, TypeInv, WorkersTyped, Busy
  <2>2. \A j \in Resources : worker'[j] \in {worker[j], Idle} /\ SameSpec(cr'[j], cr[j])
    BY <1>1, <1>12, <2>1, ReportTerminal, ReportType DEF CreateFails
  <2>3. QED
    BY <1>3, <1>12, <2>2 DEF CreateFails
<1>13. CASE Delete(k)
  <2> DEFINE c == worker[k].copy
             i == Identifier(c)
  <2>1. c \in CR(k) /\ cr[k] \in CR(k)
    BY <1>1, <1>13 DEF Delete, TypeInv, CRsTyped, WorkersTyped, Busy
  <2>2. \A j \in Resources : worker'[j] \in {worker[j], Idle} /\ SameSpec(cr'[j], cr[j])
    <3>1. worker' = [worker EXCEPT ![k] = Idle]
      BY <1>13 DEF Delete, Report
    <3>2. ~Adopt(k)
      BY <1>13 DEF Delete, Adopt
    <3>3. QED
      BY <1>1, <3>1, <3>2, SpecKept DEF TypeInv, WorkersTyped
  <2>3. \/ aws' = aws
        \/ aws' = [aws EXCEPT ![i].state = "ending"] /\ i \in Ids(k) /\ aws[i].state # "absent"
    BY <1>13 DEF Delete
  <2> HIDE DEF i
  <2>4. \A n \in ImageARNs \cup VMs :
           (aws'[n].state # "absent" => aws[n].state # "absent") /\ aws'[n].role = aws[n].role
    BY <1>1, <2>3 DEF TypeInv, Object
  <2>5. QED
    BY <1>3, <2>2, <2>4
<1>14. QED
  BY <1>4, <1>5, <1>6, <1>7, <1>8, <1>9, <1>10, <1>11, <1>12, <1>13 DEF Reconcile

LEMMA OutsideKeeps ==
    ASSUME IInv, Stepped, Observe, RoleChanges \/ Users \/ Cloud \/ Crash
    PROVE  (\A j \in Resources : WorkerInv(j)') /\ CloudInv'
<1>1. TypeInv /\ CloudInv /\ \A j \in Resources : WorkerInv(j)
  BY DEF IInv
<1>2. ASSUME \A j \in Resources : worker'[j] \in {worker[j], Idle},
             \A j \in Resources : cr'[j].adopt = cr[j].adopt,
             used'["edit"] = 0 => \A j \in Resources : SameSpec(cr'[j], cr[j]),
             \A i \in ImageARNs \cup VMs :
                 (aws'[i].state # "absent" => aws[i].state # "absent") /\ aws'[i].role = aws[i].role
      PROVE  (\A j \in Resources : WorkerInv(j)') /\ CloudInv'
  BY <1>1, <1>2, KeepsWorker, KeepsCloud
<1>3. CASE RoleChanges
  BY <1>2, <1>3 DEF RoleChanges, SameSpec
<1>4. CASE Users
  <2>1. UNCHANGED <<aws, worker>>
    BY <1>4 DEF Users, UserEdits, UserDeletes
  <2>2. QED
    BY <1>1, <1>2, <1>4, <2>1, OutsideSpecKept
<1>5. CASE Cloud
  <2>1. PICK i \in ImageARNs \cup VMs, s \in States :
           /\ aws' = [aws EXCEPT ![i].state = s] /\ UNCHANGED <<role, cr, worker, queued>>
           /\ aws[i].state # "absent"
    BY <1>5 DEF Cloud, Progress, Break, DeleteOutside, Move, States
  <2>2. \A n \in ImageARNs \cup VMs :
           (aws'[n].state # "absent" => aws[n].state # "absent") /\ aws'[n].role = aws[n].role
    BY <1>1, <2>1 DEF TypeInv, Object
  <2>3. QED
    BY <1>2, <2>1, <2>2 DEF SameSpec
<1>6. CASE Crash
  BY <1>2, <1>6 DEF Crash, SameSpec
<1>7. QED
  BY <1>3, <1>4, <1>5, <1>6

LEMMA StutterKeeps ==
    ASSUME IInv, UNCHANGED vars
    PROVE  IInv'
BY TypeStutter DEF vars, IInv, WorkerInv, CloudInv, AdoptionKnown, ValidActs, OfferTaken, CopyCurrent,
   Taken, Busy, ImagesHaveRoles, AdoptedNotBuilt, InvalidNotCreated

LEMMA InvStep == IInv /\ [Next]_vars => IInv'
<1>1. ASSUME IInv, Next
      PROVE  IInv'
  <2>1. TypeInv' /\ Stepped /\ Observe
    BY <1>1, TypeStep, StepType DEF IInv, Next
  <2>2. (\A j \in Resources : WorkerInv(j)') /\ CloudInv'
    BY <1>1, <2>1, ReconcileKeeps, OutsideKeeps DEF Next, Steps
  <2>3. QED
    BY <2>1, <2>2 DEF IInv
<1>2. QED
  BY <1>1, StutterKeeps

\* The invariant of References, for every set of ARNs and VMs and every bound on the
\* disturbances.
THEOREM Invariance == Spec => []IInv
BY InvInit, InvStep, PTL DEF Spec

-----------------------------------------------------------------------------
(* The safety properties.                                                  *)

\* An adopting CR never builds an image of its own, however its reads, the
\* deletion of the adopted image, edits and crashes interleave (sdkFind and the
\* adoption of microvm_image).
THEOREM AdoptionSafety == Spec => []AdoptedNotBuilt
<1>1. IInv => AdoptedNotBuilt
  BY DEF IInv, CloudInv
<1>2. QED
  BY <1>1, Invariance, PTL

\* Unless a spec is edited after it was read, one that has both a reference and a
\* value, or neither where one is required, has created nothing, although the
\* error waits until the references are resolved (validateReferenceFields).
THEOREM InvalidSafety == Spec => []InvalidNotCreated
<1>1. IInv => InvalidNotCreated
  BY DEF IInv, CloudInv
<1>2. QED
  BY <1>1, Invariance, PTL

\* A creation sends only what its references offered during the reconciliation
\* that sends it: each CR they name was ready at some moment since the worker
\* took the key (ResolveReferences, of both kinds).
THEOREM ReadySafety == Spec => CreatedFromReady
<1> DEFINE Taking ==
             \A k \in Resources : \A i \in Ids(k) : Born(i) =>
                 \A f \in Fields(k) :
                     worker[k].copy[f].ref = "named" => aws'[i][f] \in offered[k][f]
<1>1. ASSUME IInv, [Next]_vars
      PROVE  Taking
  <2>1. SUFFICES ASSUME NEW k \in Resources, NEW i \in Ids(k), Born(i), NEW f \in Fields(k),
                        worker[k].copy[f].ref = "named"
                 PROVE  aws'[i][f] \in offered[k][f]
    OBVIOUS
  <2>2. TypeInv /\ \A j \in Resources : WorkerInv(j)
    BY <1>1 DEF IInv
  <2>3. i \in ImageARNs \cup VMs
    BY DEF Ids
  <2>4. \E j \in Resources : Create(j)
    <3>1. SUFFICES ASSUME \A j \in Resources : ~Create(j)
                   PROVE  aws[i].state # "absent" \/ aws'[i].state = "absent"
      BY <2>1 DEF Born
    <3>2. ASSUME NEW n, NEW s, aws' = [aws EXCEPT ![n].state = s], aws[n].state # "absent"
          PROVE  aws[i].state # "absent" \/ aws'[i].state = "absent"
      BY <2>2, <2>3, <3>2 DEF TypeInv
    <3>3. CASE UNCHANGED aws
      BY <3>3
    <3>4. ASSUME NEW j \in Resources, Compare(j)
          PROVE  aws[i].state # "absent" \/ aws'[i].state = "absent"
      <4>1. aws[Identifier(worker[j].copy)].state # "absent"
        BY <2>2, <3>4, IdentifierType DEF Compare
      <4>2. QED
        BY <2>2, <2>3, <3>3, <3>4, <4>1 DEF Compare, TypeInv
    <3>5. ASSUME NEW j \in Resources, Delete(j)
          PROVE  aws[i].state # "absent" \/ aws'[i].state = "absent"
      BY <3>2, <3>3, <3>5 DEF Delete
    <3>6. CASE Cloud
      BY <3>2, <3>6 DEF Cloud, Progress, Break, DeleteOutside, Move
    <3>7. QED
      BY <1>1, <3>1, <3>3, <3>4, <3>5, <3>6 DEF vars, Next, Steps, Reconcile, Dequeue, Resolve,
         FieldsMissing, FindNothing, Adopt, Manage, CreateFails, RoleChanges, Users, UserEdits,
         UserDeletes, Crash
  <2>5. PICK j \in Resources : Create(j)
    BY <2>4
  <2>6. j = k
    <3>1. PICK n \in Ids(j) : \A o \in (ImageARNs \cup VMs) \ {n} : aws'[o] = aws[o]
      BY <2>2, <2>5, CreateShape
    <3>2. i = n
      BY <2>1, <2>3, <3>1 DEF Born
    <3>3. QED
      BY <3>2, ReferencesAssumption DEF Ids, Resources
  <2>7. PICK n \in Ids(k) :
           /\ \A o \in (ImageARNs \cup VMs) \ {n} : aws'[o] = aws[o]
           /\ aws'[n].role = worker[k].copy.role.val
           /\ k = "Microvm" => aws'[n].image = worker[k].copy.image.val
    BY <2>2, <2>5, <2>6, CreateShape
  <2>8. i = n
    BY <2>1, <2>3, <2>7 DEF Born
  <2>9. aws'[i][f] = worker[k].copy[f].val
    BY <2>7, <2>8 DEF Fields
  <2>10. f \in Taken(k)
    BY <2>2, <2>5, <2>6, CreatesValid DEF Create
  <2>11. QED
    BY <2>1, <2>2, <2>9, <2>10 DEF WorkerInv, OfferTaken
<1>2. QED
  BY <1>1, Invariance, PTL DEF Spec, CreatedFromReady

\* The controller never makes a valid spec invalid: a resolved value does not end
\* up beside its reference, and an adoption does not blank the role.  Only a user
\* who edits can (ClearResolvedReferences, the patch of the adoption).
THEOREM ValiditySafety == Spec => StoredSpecStaysValid
<1> DEFINE Staying ==
             used'["edit"] = 0 => \A k \in Resources :
                 validateReferenceFields(k, cr[k]) => validateReferenceFields(k, cr'[k])
<1>1. ASSUME IInv, [Next]_vars
      PROVE  [Staying]_cr
  <2>1. CASE UNCHANGED cr
    BY <2>1
  <2>2. CASE cr' # cr
    <3>1. /\ Next /\ Stepped /\ Observe
          /\ IInv /\ TypeInv /\ CloudInv /\ \A j \in Resources : WorkerInv(j)
      BY <1>1, <2>2, StepType DEF vars, IInv, Next
    <3>2. SUFFICES ASSUME used'["edit"] = 0, NEW k \in Resources, validateReferenceFields(k, cr[k])
                   PROVE  validateReferenceFields(k, cr'[k])
      OBVIOUS
    <3>3. ASSUME SameSpec(cr'[k], cr[k])
          PROVE  validateReferenceFields(k, cr'[k])
      BY <3>2, <3>3, SameSpecValid
    <3>4. ASSUME NEW j \in Resources, Adopt(j)
          PROVE  validateReferenceFields(k, cr'[k])
      <4>1. CASE j = k
        BY <3>1, <3>2, <3>4, <4>1, AdoptKeeps DEF Adopt
      <4>2. CASE j # k
        BY <3>1, <3>3, <3>4, <4>2, AdoptKeeps DEF SameSpec
      <4>3. QED
        BY <4>1, <4>2
    <3>5. ASSUME NEW j \in Resources, Reconcile(j), ~Adopt(j)
          PROVE  SameSpec(cr'[k], cr[k])
      BY <3>1, <3>5, SpecKept
    <3>6. CASE RoleChanges \/ Users \/ Cloud \/ Crash
      <4>1. SameSpec(cr'[k], cr[k])
        BY <3>1, <3>2, <3>6, OutsideSpecKept
      <4>2. QED
        BY <3>3, <4>1
    <3>7. QED
      BY <3>1, <3>3, <3>4, <3>5, <3>6 DEF Next, Steps
  <2>3. QED
    BY <2>1, <2>2
<1>2. QED
  BY <1>1, Invariance, PTL DEF Spec, StoredSpecStaysValid

=============================================================================
