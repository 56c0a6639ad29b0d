------------------------------ MODULE Microvm ------------------------------
(***************************************************************************)
(* One Microvm custom resource (CR), the reconcile worker that owns its    *)
(* key, and the MicroVMs that AWS runs on its behalf.                      *)
(*                                                                         *)
(* The worker is the ACK runtime driving pkg/resource/microvm: it reads    *)
(* the CR, calls the resource manager (ReadOne, Create, Update,            *)
(* LateInitialize, Delete) and patches the CR.  Every request to AWS or to *)
(* the API server is a step of its own; the local computation that follows *)
(* an answer belongs to the step that received it.  The user, AWS, timers  *)
(* and crashes of the controller interleave with these steps.              *)
(*                                                                         *)
(* A spec is abstracted to the three kinds of field the code treats        *)
(* differently:                                                            *)
(*   echo    sdkFind overwrites it with what GetMicrovm returns            *)
(*           (executionRoleARN, idlePolicy, imageVersion)                  *)
(*   late    echoed, and filled by LateInitialize when omitted             *)
(*           (maximumDurationInSeconds, egress and ingress connectors)     *)
(*   hidden  never overwritten by sdkFind                                  *)
(*           (imageIdentifier, logging, runHookPayload)                    *)
(*                                                                         *)
(* An operator that nothing uses (isTerminatedEarly before isTerminated,   *)
(* DifferIfSet before Differ, ...) is a faulty form of the definition it   *)
(* precedes, kept to show that a run notices the fault.                    *)
(***************************************************************************)
EXTENDS Naturals, FiniteSets

CONSTANTS
    VMs,          \* identifiers that RunMicrovm can hand out
    Vals,         \* values of an echoed spec field
    Payloads,     \* values of a hidden spec field
    Default,      \* what AWS chooses for an omitted field
    NIL,          \* an omitted field, an identifier or a state not known yet
    LateStates,   \* VM states in which AWS reports the "late" field
    Allowed       \* how often the disturbances may occur together

\* The disturbances, bounded by Allowed, a set of counts: a user edit, an
\* on-demand or idle suspension, a retryable error of an AWS call, an AWS call
\* rejected with a terminal error code, a patch or an answer that is lost, a
\* crash of the controller.
Kinds == {"edit", "suspend", "error", "reject", "drop", "crash"}

SyncedStates == {"RUNNING", "SUSPENDED"}
VMStates == SyncedStates \cup {"PENDING", "SUSPENDING", "TERMINATING", "TERMINATED"}

ASSUME MicrovmAssumption ==
    /\ Default \in Vals
    /\ NIL \notin Vals \cup Payloads \cup VMs \cup VMStates
    /\ LateStates \subseteq VMStates
    /\ Allowed \subseteq [Kinds -> Nat]

VARIABLES
    cr,       \* the CR as the API server stores it
    exists,   \* whether the API server still has it
    vms,      \* AWS: the VM behind each identifier
    pc,       \* where the worker is
    desired,  \* the worker's copy of the CR
    latest,   \* the worker's resource as last observed in AWS
    err,      \* the error the reconciliation is about to return
    queued,   \* the key is in the work queue
    timer,    \* a delayed requeue is pending
    used      \* how often each disturbance has occurred

vars == <<cr, exists, vms, pc, desired, latest, err, queued, timer, used>>
worker == <<pc, desired, latest, err>>

Resource == [
    echo: Vals \cup {NIL}, late: Vals \cup {NIL}, hidden: Payloads \cup {NIL},
    finalizer: BOOLEAN, deleting: BOOLEAN,
    id: VMs \cup {NIL}, state: VMStates \cup {NIL},
    terminal: BOOLEAN, recoverable: BOOLEAN, synced: BOOLEAN]

VM == [state: VMStates \cup {"ABSENT", "PURGED"}, echo: Vals, late: Vals, hidden: Payloads \cup {NIL}]

PCs == {"idle", "find", "manage", "run", "patchRun", "lateRead", "patchLate",
        "status", "delFind", "terminate", "unmanage"}

Live(v) == vms[v].state \notin {"ABSENT", "TERMINATED", "PURGED"}

-----------------------------------------------------------------------------
(* Pure parts of the resource manager.                                     *)

\* GetMicrovm and RunMicrovm as merged into a resource: echoed spec fields and
\* status are overwritten, hidden fields are kept from the copy.
Observed(r, v, m) ==
    [r EXCEPT !.echo = m.echo,
              !.late = IF m.state \in LateStates THEN m.late ELSE NIL,
              !.id = v, !.state = m.state]

requiredFieldsMissingFromReadOneInput(r) == r.id = NIL

ForgottenTerminated == {v \in VMs : vms[v].state \in {"TERMINATED", "PURGED"}}

\* GetMicrovm answers ResourceNotFoundException for a VM that AWS forgot.
Forgotten == {v \in VMs : vms[v].state = "PURGED"}

NotFound(r) == requiredFieldsMissingFromReadOneInput(r) \/ r.id \in Forgotten

isTerminatedEarly(r) == r.state \in {"TERMINATING", "TERMINATED"}
isTerminatedNever(r) == FALSE
isTerminated(r) == r.state = "TERMINATED"
Deletable(r) == r.state \in {NIL, "RUNNING", "SUSPENDED"}
IsSyncedRunning(r) == r.state = "RUNNING"
IsSynced(r) == r.state \in SyncedStates

DifferLateOnly(a, b) == a.late # b.late \/ a.hidden # b.hidden
DifferIfSet(a, b) == (a.echo # NIL /\ a.echo # b.echo) \/ a.late # b.late

\* newResourceDelta(a, b).DifferentAt("Spec")
Differ(a, b) == a.echo # b.echo \/ a.late # b.late \/ a.hidden # b.hidden

updateConditionsUnset(r, e) ==
    [r EXCEPT !.terminal = IF e = "terminal" THEN TRUE ELSE NIL,
              !.recoverable = IF e = "terminal" THEN @ ELSE e = "retry"]

\* updateConditions: a terminal error leaves Recoverable alone, every other
\* outcome clears Terminal.
updateConditions(r, e) ==
    [r EXCEPT !.terminal = (e = "terminal"),
              !.recoverable = IF e = "terminal" THEN @ ELSE e = "retry"]

lateInitializeFromReadOneOutput(observed, r) ==
    [r EXCEPT !.late = IF @ = NIL THEN observed.late ELSE @]

incompleteLateInitialization(r) == r.late = NIL

KeepConditions(r) == r

\* The runtime strips the conditions of the resource a sync starts from.
ResetConditions(r) ==
    [r EXCEPT !.terminal = FALSE, !.recoverable = FALSE, !.synced = FALSE]

MergeLateOnly(c, a, b) == [c EXCEPT !.late = IF a.late = b.late THEN @ ELSE b.late]

\* A merge patch carries the fields in which a and b differ.
MergeSpec(c, a, b) ==
    [c EXCEPT !.echo = IF a.echo = b.echo THEN @ ELSE b.echo,
              !.late = IF a.late = b.late THEN @ ELSE b.late]

Blank == [echo |-> NIL, late |-> NIL, hidden |-> NIL,
          finalizer |-> FALSE, deleting |-> FALSE, id |-> NIL, state |-> NIL,
          terminal |-> FALSE, recoverable |-> FALSE, synced |-> FALSE]

-----------------------------------------------------------------------------
(* Steps shared by the worker's paths.                                     *)

Spend(k) ==
    /\ [used EXCEPT ![k] = @ + 1] \in Allowed
    /\ used' = [used EXCEPT ![k] = @ + 1]

GoTo(l, d, r) ==
    /\ pc' = l
    /\ desired' = d
    /\ latest' = r
    /\ err' = "none"

\* The reconciliation ends with error e; its last request patches the status
\* of r.  (Copies that are not read again are blanked.)
Settle(r, e) ==
    /\ pc' = "status"
    /\ desired' = Blank
    /\ latest' = r
    /\ err' = e

\* Back to the queue, with a delayed requeue if one is asked for.
Rest(requeue) ==
    /\ pc' = "idle"
    /\ desired' = Blank
    /\ latest' = Blank
    /\ err' = "none"
    /\ timer' = (timer \/ requeue)

\* A terminal error is not retried; every other outcome is followed by a
\* delayed requeue, the ten hour resync of a synced resource included.
RequeuesOnError(e) == e = "retry"
Requeues(e) == e # "terminal"

-----------------------------------------------------------------------------
(* Reconciling a CR that is not being deleted.                             *)

Dequeue ==
    /\ pc = "idle"
    /\ queued
    /\ queued' = FALSE
    /\ IF ~exists
       THEN UNCHANGED worker
       ELSE IF cr.deleting
       THEN GoTo("delFind", cr, Blank)
       ELSE GoTo("find", ResetConditions(cr), Blank)
    /\ UNCHANGED <<cr, exists, vms, timer, used>>

FindNothingUnmanaged ==
    /\ pc = "find"
    /\ NotFound(desired)
    /\ GoTo("run", desired, Blank)
    /\ UNCHANGED <<cr, exists, vms, queued, timer, used>>

FindNothing ==
    /\ pc = "find"
    /\ NotFound(desired)
    /\ GoTo(IF desired.finalizer THEN "run" ELSE "manage", desired, Blank)
    /\ UNCHANGED <<cr, exists, vms, queued, timer, used>>

\* ReadOne found the VM.  A TERMINATED VM is a terminal error; a difference
\* calls Update, which is not implemented; otherwise late initialization runs.
FindVM ==
    /\ pc = "find"
    /\ ~NotFound(desired)
    /\ LET r == Observed(desired, desired.id, vms[desired.id])
           ok == updateConditions(r, "none")
       IN IF isTerminated(r)
          THEN Settle(updateConditions(r, "terminal"), "terminal")
          ELSE IF Differ(desired, ok)
          THEN Settle(updateConditions(ok, "terminal"), "terminal")
          ELSE GoTo("lateRead", Blank, ok)
    /\ UNCHANGED <<cr, exists, vms, queued, timer, used>>

FindFails ==
    /\ pc = "find"
    /\ ~requiredFieldsMissingFromReadOneInput(desired)
    /\ \/ Spend("error") /\ Settle(updateConditions(desired, "retry"), "retry")
       \/ Spend("reject") /\ Settle(updateConditions(desired, "terminal"), "terminal")
    /\ UNCHANGED <<cr, exists, vms, queued, timer>>

\* The finalizer is patched before anything is created.  The patch fails when
\* the user deleted the CR, still without finalizer, in the meantime.
Manage ==
    /\ pc = "manage"
    /\ IF exists
       THEN /\ cr' = [cr EXCEPT !.finalizer = TRUE]
            /\ GoTo("run", [desired EXCEPT !.finalizer = TRUE], Blank)
            /\ UNCHANGED timer
       ELSE Rest(TRUE) /\ UNCHANGED cr
    /\ UNCHANGED <<exists, vms, queued, used>>

ManageFails ==
    /\ pc = "manage"
    /\ Spend("error")
    /\ Rest(TRUE)
    /\ UNCHANGED <<cr, exists, vms, queued>>

OrDefault(x) == IF x = NIL THEN Default ELSE x

NewVM(r) == [state |-> "PENDING", echo |-> OrDefault(r.echo),
             late |-> OrDefault(r.late), hidden |-> r.hidden]

Unused == {v \in VMs : vms[v].state = "ABSENT"}

Run ==
    /\ pc = "run"
    /\ \E v \in Unused :
         /\ vms' = [vms EXCEPT ![v] = NewVM(desired)]
         /\ GoTo("patchRun", desired,
                 updateConditions(Observed(desired, v, NewVM(desired)), "none"))
    /\ UNCHANGED <<cr, exists, queued, timer, used>>

\* Create returns an error: a payload that cannot be built, a throttled or a
\* rejected call, a quota.
RunFails ==
    /\ pc = "run"
    /\ \/ Spend("error") /\ Settle(updateConditions(desired, "retry"), "retry")
       \/ Spend("reject") /\ Settle(updateConditions(desired, "terminal"), "terminal")
       \/ Unused = {} /\ Settle(updateConditions(desired, "retry"), "retry") /\ UNCHANGED used
    /\ UNCHANGED <<cr, exists, vms, queued, timer>>

\* The request took effect and its answer was lost.
RunAnswerLost ==
    /\ pc = "run"
    /\ Spend("drop")
    /\ \E v \in Unused : vms' = [vms EXCEPT ![v] = NewVM(desired)]
    /\ Settle(updateConditions(desired, "retry"), "retry")
    /\ UNCHANGED <<cr, exists, queued, timer>>

\* The spec patch that follows Create, and the one that follows late
\* initialization.  A changed spec is a new generation, which queues the key.
PatchSpec ==
    /\ cr' = MergeSpec(cr, desired, latest)
    /\ queued' = (queued \/ cr' # cr)
    /\ \/ pc = "patchRun" /\ GoTo("lateRead", Blank, latest)
       \/ pc = "patchLate" /\ Settle(latest, err)
    /\ UNCHANGED <<exists, vms, timer, used>>

PatchSpecFails ==
    /\ pc \in {"patchRun", "patchLate"}
    /\ Spend("drop")
    /\ Settle(latest, "retry")
    /\ UNCHANGED <<cr, exists, vms, queued, timer>>

\* LateInitialize reads the VM again and fills what the spec still omits.  When
\* the read fails it returns its copy with Synced=False, and drops the
\* conditions that the failed read had put on the observed resource.
LateRead ==
    /\ pc = "lateRead"
    /\ ~NotFound(latest)
    /\ LET observed == Observed(latest, latest.id, vms[latest.id])
           filled == lateInitializeFromReadOneOutput(observed, latest)
       IN IF isTerminated(observed)
          THEN Settle(latest, "terminal")
          ELSE /\ pc' = "patchLate"
               /\ desired' = latest
               /\ latest' = filled
               /\ err' = IF incompleteLateInitialization(filled) THEN "retry" ELSE "none"
    /\ UNCHANGED <<cr, exists, vms, queued, timer, used>>

LateReadFailsUnsaved ==
    /\ pc = "lateRead"
    /\ Spend("error")
    /\ Rest(TRUE)
    /\ UNCHANGED <<cr, exists, vms, queued>>

LateReadFails ==
    /\ pc = "lateRead"
    /\ \/ Spend("error") /\ Settle(latest, "retry")
       \/ Spend("reject") /\ Settle(latest, "terminal")
       \/ NotFound(latest) /\ Settle(latest, "retry") /\ UNCHANGED used
    /\ UNCHANGED <<cr, exists, vms, queued, timer>>

\* The runtime sets Synced on the way out of a sync: False on any error.
ensureConditions(r, e) ==
    IF r.deleting THEN r ELSE [r EXCEPT !.synced = (e = "none" /\ IsSynced(r))]

PatchStatus ==
    /\ pc = "status"
    /\ LET r == ensureConditions(latest, err)
       IN cr' = [cr EXCEPT !.id = r.id, !.state = r.state, !.terminal = r.terminal,
                           !.recoverable = r.recoverable, !.synced = r.synced]
    /\ Rest(Requeues(err))
    /\ UNCHANGED <<exists, vms, queued, used>>

\* A failed status patch is not reported: the outcome decides the requeue.
PatchStatusFails ==
    /\ pc = "status"
    /\ Spend("drop")
    /\ Rest(Requeues(err))
    /\ UNCHANGED <<cr, exists, vms, queued>>

-----------------------------------------------------------------------------
(* Reconciling a CR that is being deleted.                                 *)

DelFindNothing ==
    /\ pc = "delFind"
    /\ NotFound(desired)
    /\ GoTo("unmanage", Blank, Blank)
    /\ UNCHANGED <<cr, exists, vms, queued, timer, used>>

\* ReadOne and the guards of sdkDelete that come before its request.
DelFindVM ==
    /\ pc = "delFind"
    /\ ~NotFound(desired)
    /\ LET r == updateConditions(Observed(desired, desired.id, vms[desired.id]), "none")
       IN IF isTerminated(r)
          THEN GoTo("unmanage", Blank, Blank)
          ELSE IF ~Deletable(r)
          THEN Settle(updateConditions(r, "retry"), "retry")
          ELSE GoTo("terminate", Blank, r)
    /\ UNCHANGED <<cr, exists, vms, queued, timer, used>>

DelFindFails ==
    /\ pc = "delFind"
    /\ ~requiredFieldsMissingFromReadOneInput(desired)
    /\ \/ Spend("error") /\ Rest(TRUE)
       \/ Spend("reject") /\ Rest(FALSE)
    /\ UNCHANGED <<cr, exists, vms, queued>>

\* TerminateMicrovm.  The VM may have left the state that was read: AWS takes
\* the request or answers with a retryable conflict.  An accepted request is
\* followed by requeueWaitWhileTerminating, never by a finished deletion.
Terminate ==
    /\ pc = "terminate"
    /\ \/ vms' = [vms EXCEPT ![latest.id].state =
                      IF Live(latest.id) THEN "TERMINATING" ELSE @]
       \/ vms[latest.id].state \notin SyncedStates /\ UNCHANGED vms
    /\ Settle(updateConditions(latest, "retry"), "retry")
    /\ UNCHANGED <<cr, exists, queued, timer, used>>

TerminateFails ==
    /\ pc = "terminate"
    /\ \/ Spend("error") /\ Settle(updateConditions(latest, "retry"), "retry")
       \/ Spend("reject") /\ Settle(updateConditions(latest, "terminal"), "terminal")
    /\ UNCHANGED <<cr, exists, vms, queued, timer>>

\* Removing the last finalizer of a CR that is being deleted deletes it.
Unmanage ==
    /\ pc = "unmanage"
    /\ cr' = [cr EXCEPT !.finalizer = FALSE]
    /\ exists' = FALSE
    /\ Rest(FALSE)
    /\ UNCHANGED <<vms, queued, used>>

UnmanageFails ==
    /\ pc = "unmanage"
    /\ Spend("drop")
    /\ Rest(TRUE)
    /\ UNCHANGED <<cr, exists, vms, queued>>

-----------------------------------------------------------------------------
(* The environment.                                                        *)

TimerFires ==
    /\ timer
    /\ timer' = FALSE
    /\ queued' = TRUE
    /\ UNCHANGED <<cr, exists, vms, pc, desired, latest, err, used>>

\* A crash loses the queue, the timers and the worker's copies; the restarted
\* controller lists every CR and queues it.
Crash ==
    /\ Spend("crash")
    /\ pc' = "idle"
    /\ desired' = Blank
    /\ latest' = Blank
    /\ err' = "none"
    /\ queued' = exists
    /\ timer' = FALSE
    /\ UNCHANGED <<cr, exists, vms>>

UserEdits ==
    /\ exists
    /\ ~cr.deleting
    /\ Spend("edit")
    /\ \/ \E x \in (Vals \cup {NIL}) \ {cr.echo} : cr' = [cr EXCEPT !.echo = x]
       \/ \E x \in (Vals \cup {NIL}) \ {cr.late} : cr' = [cr EXCEPT !.late = x]
       \/ \E x \in (Payloads \cup {NIL}) \ {cr.hidden} : cr' = [cr EXCEPT !.hidden = x]
    /\ queued' = TRUE
    /\ UNCHANGED <<exists, vms, pc, desired, latest, err, timer>>

UserDeletes ==
    /\ exists
    /\ ~cr.deleting
    /\ cr' = [cr EXCEPT !.deleting = TRUE]
    /\ exists' = cr.finalizer
    /\ queued' = TRUE
    /\ UNCHANGED <<vms, pc, desired, latest, err, timer, used>>

MoveVM(v, from, to) ==
    /\ vms[v].state \in from
    /\ vms' = [vms EXCEPT ![v].state = to]
    /\ UNCHANGED <<cr, exists, pc, desired, latest, err, queued, timer>>

\* What AWS finishes on its own once it has begun.
Progress(v) ==
    /\ \/ MoveVM(v, {"PENDING"}, "RUNNING")
       \/ MoveVM(v, {"SUSPENDING"}, "SUSPENDED")
       \/ MoveVM(v, {"TERMINATING"}, "TERMINATED")
    /\ UNCHANGED used

\* The idle policy or a call suspends the VM; traffic or a call resumes it.
Suspend(v) == Spend("suspend") /\ MoveVM(v, {"RUNNING"}, "SUSPENDING")
Resume(v) == MoveVM(v, {"SUSPENDED"}, "RUNNING") /\ UNCHANGED used

\* Idle policy, maximum duration or an out-of-band TerminateMicrovm.
SelfTerminate(v) ==
    /\ MoveVM(v, {"PENDING", "RUNNING", "SUSPENDING", "SUSPENDED"}, "TERMINATING")
    /\ UNCHANGED used

\* AWS forgets a terminated VM: GetMicrovm answers ResourceNotFoundException.
Purge(v) == MoveVM(v, {"TERMINATED"}, "PURGED") /\ UNCHANGED used

-----------------------------------------------------------------------------

Init ==
    /\ \E e, l \in Vals \cup {NIL}, h \in Payloads \cup {NIL} :
         cr = [Blank EXCEPT !.echo = e, !.late = l, !.hidden = h]
    /\ exists = TRUE
    /\ vms = [v \in VMs |-> [state |-> "ABSENT", echo |-> Default,
                             late |-> Default, hidden |-> NIL]]
    /\ pc = "idle"
    /\ desired = Blank
    /\ latest = Blank
    /\ err = "none"
    /\ queued = TRUE
    /\ timer = FALSE
    /\ used = [k \in Kinds |-> 0]

Sync ==
    \/ FindNothing \/ FindVM \/ FindFails
    \/ Manage \/ ManageFails
    \/ Run \/ RunFails \/ RunAnswerLost
    \/ PatchSpec \/ PatchSpecFails
    \/ LateRead \/ LateReadFails

Delete ==
    \/ DelFindNothing \/ DelFindVM \/ DelFindFails
    \/ Terminate \/ TerminateFails
    \/ Unmanage \/ UnmanageFails

Worker == Dequeue \/ Sync \/ Delete \/ PatchStatus \/ PatchStatusFails

Cloud == \E v \in VMs :
    Progress(v) \/ Suspend(v) \/ Resume(v) \/ SelfTerminate(v) \/ Purge(v)

Next == Worker \/ TimerFires \/ Crash \/ UserEdits \/ UserDeletes \/ Cloud

Spec == Init /\ [][Next]_vars

\* The worker runs while there is work, timers fire, and AWS finishes the
\* transitions it began.  Users, suspensions, terminations, failures and
\* crashes are never owed.
Fairness ==
    /\ WF_vars(Worker)
    /\ WF_vars(TimerFires)
    /\ \A v \in VMs : WF_vars(Progress(v))

FairSpec == Spec /\ Fairness

-----------------------------------------------------------------------------
(* Properties.                                                             *)

\* Type invariant: every variable, the worker's copies of the CR included,
\* stays in its domain (the types of apis/v1alpha1 as sdkFind fills them).
TypeOK ==
    /\ cr \in Resource /\ desired \in Resource /\ latest \in Resource
    /\ exists \in BOOLEAN /\ queued \in BOOLEAN /\ timer \in BOOLEAN
    /\ vms \in [VMs -> VM]
    /\ pc \in PCs
    /\ err \in {"none", "retry", "terminal"}
    /\ used \in [Kinds -> Nat]

NoDrop == used["drop"] = 0
NoReject == used["reject"] = 0

\* Nothing is scheduled: only the user, AWS or a restart can cause a reconcile.
AtRest == pc = "idle" /\ ~queued /\ ~timer

\* The worker has nothing read and unprocessed, and no event is waiting.
CaughtUp == pc = "idle" /\ ~queued

HasLiveVM == cr.id # NIL /\ Live(cr.id)
Drift == cr.echo # vms[cr.id].echo \/ cr.late # vms[cr.id].late

\* The finalizer is not dropped while the recorded VM might still be alive,
\* whatever fails, crashes or moves between sdkDelete's read, its
\* TerminateMicrovm and the removal (hooks.go isTerminated).
FinalizerGuardsVM == ~exists /\ cr.id # NIL => ~Live(cr.id)

\* The controller never loses track of a recorded VM: status.microvmID changes
\* only when AWS no longer knows the VM it named (sdkFind, sdkCreate).
RecordedVMKept ==
    [][cr.id # NIL /\ cr'.id # cr.id => vms[cr.id].state = "PURGED"]_vars

\* A Microvm runs a single MicroVM: as long as no answer, patch or controller
\* is lost, retries, edits, deletion and late initialization never leave two
\* VMs alive, nor one alive without its CR (sdkFind's NotFound, sdkCreate).
SingleVM ==
    NoDrop /\ used["crash"] = 0 =>
        \A v \in VMs : Live(v) => exists /\ \A w \in VMs : Live(w) => w = v

\* The controller stops reconciling a CR whose VM is alive only after it has
\* reported Terminal=True (onError, updateConditions, and the requeue
\* decision they feed).  Needs that no status patch was lost and AWS rejected
\* no read: see LateReadFails.
NeverAbandons ==
    AtRest /\ exists /\ NoDrop /\ NoReject => cr.terminal \/ ~HasLiveVM

\* Terminal=True has a cause: an edit that still differs from the running VM,
\* or a VM that terminated.  Defaults that AWS filled in are no edit: the spec
\* patch after sdkCreate and LateInitialize must have written them back.
TerminalHasCause ==
    CaughtUp /\ exists /\ ~cr.deleting /\ cr.terminal /\ NoDrop /\ NoReject =>
        ~HasLiveVM \/ (used["edit"] > 0 /\ Drift)

\* Terminal ("will not retry") and Recoverable ("will retry") are never both
\* True, although updateConditions leaves Recoverable alone on a terminal error.
TerminalExcludesRecoverable == ~(cr.terminal /\ cr.recoverable)

\* Synced=True tells the truth about the fields the controller reads back: no
\* edit it has processed is left unreported behind it (newResourceDelta,
\* sdkUpdate, IsSynced).
SyncedMatchesSpec ==
    CaughtUp /\ exists /\ ~cr.deleting /\ cr.synced /\ NoDrop => ~Drift

\* A deleted CR goes away: the requeues of sdkDelete lead through TERMINATING
\* to TERMINATED and to the removal of the finalizer, for a VM in any state.
DeletionCompletes == cr.deleting ~> ~exists

\* An edit of an echoed field is reported as Terminal, unless it is reverted,
\* the CR is deleted or the VM dies first.
EditReported ==
    (exists /\ ~cr.deleting /\ HasLiveVM /\ Drift) ~>
        (cr.terminal \/ cr.deleting \/ ~HasLiveVM \/ ~Drift)

\* The terminal condition is not permanent: a Microvm whose VM lives and whose
\* spec matches it again ends up Synced and without Terminal.
RevertClears ==
    (exists /\ ~cr.deleting /\ HasLiveVM /\ ~Drift) ~>
        ((cr.synced /\ ~cr.terminal) \/ cr.deleting \/ ~HasLiveVM \/ Drift)

\* The life of a VM as module Managed sees it.
Life(s) ==
    CASE s = "ABSENT" -> "unused"
      [] s = "TERMINATING" -> "ending"
      [] s = "TERMINATED" -> "over"
      [] s = "PURGED" -> "gone"
      [] OTHER -> "alive"

Promise == INSTANCE Managed WITH
    Ids <- VMs,
    Fresh <- {"unused"},
    Released <- {"over", "gone"},
    phase <- IF ~exists THEN "removed" ELSE IF cr.finalizer THEN "managed" ELSE "new",
    asked <- cr.deleting,
    record <- cr.id,
    cloud <- [v \in VMs |-> Life(vms[v].state)]

\* The controller keeps the promise of module Managed through every failure, lost
\* answer and crash: it runs a VM only with the finalizer in place and for a CR whose
\* recorded VM AWS forgot, never erases or replaces a record before that, and
\* removes a CR only after its user deleted it and its VM terminated.
KeepsPromise == Promise!Spec

-----------------------------------------------------------------------------
(* The invariant from which FinalizerGuardsVM, RecordedVMKept and SingleVM *)
(* are proved (MicrovmProofs).                                             *)

Gone(i) == i = NIL \/ vms[i].state = "PURGED"
Over(i) == i = NIL \/ vms[i].state \in {"TERMINATED", "PURGED"}

\* Where the worker may hold a VM that the CR does not name yet.
Carrying == {"patchRun", "lateRead", "patchLate", "status"}

\* An identifier the CR or the worker knows is one that AWS handed out.
KnownIds ==
    \A i \in {cr.id, desired.id, latest.id} : i # NIL => vms[i].state # "ABSENT"

\* A CR that names a VM, or that the worker acts on, carries the finalizer.
FinalizerHeld ==
    /\ exists /\ (cr.id # NIL \/ cr.deleting) => cr.finalizer
    /\ pc \in {"run", "delFind", "terminate", "unmanage"} \cup Carrying => exists /\ cr.finalizer
    /\ pc = "find" /\ (desired.finalizer \/ desired.id # NIL) => exists /\ cr.finalizer

\* How the identifier the worker works with relates to the one in the CR.
IdTracking ==
    /\ pc \in {"find", "delFind"} => desired.id = cr.id
    /\ pc \in {"manage", "run", "patchRun"} => desired.id = cr.id /\ Gone(cr.id)
    /\ pc \in {"terminate"} \cup Carrying => latest.id = cr.id \/ Gone(cr.id)
    /\ pc = "terminate" => latest.id # NIL
    /\ pc = "unmanage" => Over(cr.id)

\* Without a loss, a live VM is named by the CR or about to be.
LiveVMsOwned ==
    NoDrop /\ used["crash"] = 0 =>
        \A v \in VMs : Live(v) => cr.id = v \/ (pc \in Carrying /\ latest.id = v)

IInv == TypeOK /\ KnownIds /\ FinalizerHeld /\ IdTracking /\ FinalizerGuardsVM /\ LiveVMsOwned

-----------------------------------------------------------------------------
(* What the documentation promises and the code does not keep.             *)

\* README: editing any field of a Microvm spec produces a terminal error, so
\* a Synced resource at rest matches the running VM in every field.
EveryEditReported ==
    CaughtUp /\ exists /\ ~cr.deleting /\ HasLiveVM /\ cr.synced =>
        cr.hidden = vms[cr.id].hidden

=============================================================================
