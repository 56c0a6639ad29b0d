---------------------------- MODULE MicrovmImage ----------------------------
(***************************************************************************)
(* One MicrovmImage custom resource (CR), the reconcile worker that owns   *)
(* its key, and the image that AWS builds for it.                          *)
(*                                                                         *)
(* The worker is the ACK runtime driving pkg/resource/microvm_image, with  *)
(* the steps of module Microvm and three differences: an update is an      *)
(* asynchronous build of a new version, tags are synchronized by calls of  *)
(* their own, and deletion is finished once DeleteMicrovmImage is accepted.*)
(*                                                                         *)
(* A spec is abstracted to                                                 *)
(*   build   the build configuration, read back from the latest active     *)
(*           version (base image, role, artifact, hooks, ...)              *)
(*   late    the same, filled by LateInitialize when omitted               *)
(*           (baseImageVersion, egress connectors, resources)              *)
(*   tags    the set of tags                                               *)
(* spec.name never changes and identifies the one image of this module.    *)
(*                                                                         *)
(* An operator that nothing uses is a faulty form of the definition it     *)
(* precedes, kept to show that a run notices the fault.                    *)
(***************************************************************************)
EXTENDS Naturals, FiniteSets

CONSTANTS
    Builds,       \* build configurations
    Vals,         \* values of a late-initialized field
    Default,      \* what AWS resolves an omitted late field to
    UserTags,     \* tags a user may put in the spec
    AckTags,      \* tags the controller adds (--resource-tags)
    AwsTags,      \* tags that AWS injects ("aws:...")
    NIL,          \* an omitted field, no version, a state not known yet
    Allowed       \* how often the disturbances may occur together

\* The disturbances, bounded by Allowed: an edit of the build configuration, an
\* edit of the tags, a retryable error of an AWS call, a rejected AWS call, a
\* patch or an answer that is lost, a crash of the controller, a build or a
\* deletion that AWS fails, a change made behind the controller's back.
Kinds == {"edit", "tag", "error", "reject", "drop", "crash", "fail", "outside"}

\* The states in which AWS takes an update, and in which it takes a deletion.
Built == {"CREATED", "UPDATED", "CREATE_FAILED", "UPDATE_FAILED"}
Settled == Built \cup {"DELETE_FAILED"}
ImageStates == Settled \cup {"CREATING", "UPDATING", "DELETING"}

\* The states the controller gates on.
SyncedStates == {"CREATED", "UPDATED"}
UpdatableBuilt == SyncedStates
Updatable == SyncedStates \cup {"CREATE_FAILED", "UPDATE_FAILED"}
DeletableBuilt == SyncedStates \cup {"UPDATE_FAILED", "DELETE_FAILED"}
Deletable == Updatable \cup {"DELETE_FAILED"}

Tags == UserTags \cup AckTags \cup AwsTags

ASSUME ImageAssumption ==
    /\ Default \in Vals
    /\ NIL \notin Vals \cup Builds \cup ImageStates
    /\ UserTags \cap (AckTags \cup AwsTags) = {}
    /\ AckTags \cap AwsTags = {}
    /\ Allowed \subseteq [Kinds -> Nat]

VARIABLES
    cr,       \* the CR as the API server stores it
    exists,   \* whether the API server still has it
    image,    \* AWS: the image
    pc,       \* where the worker is
    desired,  \* the worker's copy of the CR
    latest,   \* the worker's resource as last observed in AWS
    err,      \* the error the reconciliation is about to return
    queued,   \* the key is in the work queue
    timer,    \* a delayed requeue is pending
    used,     \* how often each disturbance has occurred
    rebuilds  \* UpdateMicrovmImage requests that AWS accepted

vars == <<cr, exists, image, pc, desired, latest, err, queued, timer, used, rebuilds>>
worker == <<pc, desired, latest, err>>
aws == <<image, rebuilds>>

Resource == [
    build: Builds \cup {NIL}, late: Vals \cup {NIL}, tags: SUBSET Tags,
    finalizer: BOOLEAN, deleting: BOOLEAN,
    arn: BOOLEAN, state: ImageStates \cup {NIL},
    terminal: BOOLEAN, synced: BOOLEAN]

\* The configuration of an image version, which never changes.
Version == [build: Builds, late: Vals]
NoVersion == [build |-> NIL, late |-> NIL]

\* active is the latest version that was built, wanted the last one requested.
Image == [state: ImageStates \cup {"ABSENT"}, tags: SUBSET Tags,
          active: Version \cup {NoVersion}, wanted: Version \cup {NoVersion}]

PCs == {"idle", "find", "manage", "create", "untag", "tag", "update", "patch",
        "lateRead", "patchLate", "status", "delFind", "delete", "unmanage"}

-----------------------------------------------------------------------------
(* Pure parts of the resource manager.                                     *)

\* refreshSpecFromActiveVersion: without an active version the copy is kept.
refreshSpecFromActiveVersion(r, v) ==
    IF v = NoVersion THEN r ELSE [r EXCEPT !.build = v.build, !.late = v.late]

\* GetMicrovmImage, and GetMicrovmImageVersion of the active version.
Observed(r, m) ==
    [refreshSpecFromActiveVersion(r, m.active) EXCEPT
        !.tags = m.tags, !.state = m.state, !.arn = TRUE]

NotFound(r) == ~r.arn \/ image.state = "ABSENT"

mirrorNothing(a, b) == a

\* mirrorAWSTags: the tags AWS injected are no difference.
mirrorAWSTags(a, b) == [a EXCEPT !.tags = @ \cup (b.tags \cap AwsTags)]

EnsureTags(r) == [r EXCEPT !.tags = @ \cup AckTags]

FilterNothing(r) == r
FilterSystemTags(r) == [r EXCEPT !.tags = @ \cap UserTags]

\* newResourceDelta(a, b).DifferentExcept("Spec.Tags")
DifferentExceptTags(a, b) == a.build # b.build \/ a.late # b.late
Differ(a, b) == DifferentExceptTags(a, b) \/ a.tags # b.tags

updateConditions(r, e) == [r EXCEPT !.terminal = (e = "terminal")]

lateInitializeFromReadOneOutput(observed, r) ==
    [r EXCEPT !.late = IF @ = NIL THEN observed.late ELSE @]

IsSynced(r) == r.state \in SyncedStates

ResetConditions(r) == [r EXCEPT !.terminal = FALSE, !.synced = FALSE]

\* A merge patch carries what a and b differ in, once b lost its system tags.
MergeSpec(c, a, b) ==
    LET f == FilterSystemTags(b)
    IN [c EXCEPT !.build = IF a.build = f.build THEN @ ELSE f.build,
                 !.late = IF a.late = f.late THEN @ ELSE f.late,
                 !.tags = (@ \ (a.tags \ f.tags)) \cup (f.tags \ a.tags)]

Blank == [build |-> NIL, late |-> NIL, tags |-> {},
          finalizer |-> FALSE, deleting |-> FALSE, arn |-> FALSE, state |-> NIL,
          terminal |-> FALSE, synced |-> FALSE]

\* The version AWS builds from a request, and the answer to that request.
Requested(r) == [build |-> r.build, late |-> IF r.late = NIL THEN Default ELSE r.late]
Answered(r, v, s) == [r EXCEPT !.build = v.build, !.late = v.late, !.state = s]

-----------------------------------------------------------------------------
(* Steps shared by the worker's paths, as in module Microvm.               *)

Spend(k) ==
    /\ [used EXCEPT ![k] = @ + 1] \in Allowed
    /\ used' = [used EXCEPT ![k] = @ + 1]

GoTo(l, d, r) ==
    /\ pc' = l
    /\ desired' = d
    /\ latest' = r
    /\ err' = "none"

Settle(r, e) ==
    /\ pc' = "status"
    /\ desired' = Blank
    /\ latest' = r
    /\ err' = e

Rest(requeue) ==
    /\ pc' = "idle"
    /\ desired' = Blank
    /\ latest' = Blank
    /\ err' = "none"
    /\ timer' = (timer \/ requeue)

\* A call that failed and left conditions on r.
Failed(r) ==
    \/ Spend("error") /\ Settle(updateConditions(r, "retry"), "retry")
    \/ Spend("reject") /\ Settle(updateConditions(r, "terminal"), "terminal")

Requeues(e) == e # "terminal"

-----------------------------------------------------------------------------
(* Reconciling a CR that is not being deleted.                             *)

Dequeue ==
    /\ pc = "idle"
    /\ queued
    /\ queued' = FALSE
    /\ IF ~exists
       THEN UNCHANGED worker
       ELSE IF cr.deleting
       THEN GoTo("delFind", cr, Blank)
       ELSE GoTo("find", EnsureTags(ResetConditions(cr)), Blank)
    /\ UNCHANGED <<cr, exists, aws, timer, used>>

FindNothing ==
    /\ pc = "find"
    /\ NotFound(desired)
    /\ GoTo(IF desired.finalizer THEN "create" ELSE "manage", desired, Blank)
    /\ UNCHANGED <<cr, exists, aws, queued, timer, used>>

AfterTagsRebuild(d, l) ==
    IF l.state \notin Updatable
    THEN Settle(updateConditions(l, "retry"), "retry")
    ELSE GoTo("update", d, l)

\* The rest of sdkUpdate once the tags are in place.  A tags-only change
\* returns the desired resource with the status it was read with.
AfterTags(d, l) ==
    IF ~DifferentExceptTags(d, l)
    THEN GoTo("patch", d, updateConditions(d, "none"))
    ELSE IF l.state \notin Updatable
    THEN Settle(updateConditions(l, "retry"), "retry")
    ELSE GoTo("update", d, l)

AddTags(d, l) ==
    IF d.tags \subseteq l.tags THEN AfterTags(d, l) ELSE GoTo("tag", d, l)

\* syncTags: first the tags to delete, then the tags to add.
RemoveTags(d, l) ==
    IF l.tags \subseteq d.tags THEN AddTags(d, l) ELSE GoTo("untag", d, l)

FindImage ==
    /\ pc = "find"
    /\ ~NotFound(desired)
    /\ LET r == updateConditions(Observed(desired, image), "none")
           d == mirrorAWSTags(desired, r)
       IN IF Differ(d, r) THEN RemoveTags(d, r) ELSE GoTo("lateRead", Blank, r)
    /\ UNCHANGED <<cr, exists, aws, queued, timer, used>>

FindFails ==
    /\ pc = "find"
    /\ desired.arn
    /\ Failed(desired)
    /\ UNCHANGED <<cr, exists, aws, queued, timer>>

Manage ==
    /\ pc = "manage"
    /\ IF exists
       THEN /\ cr' = [cr EXCEPT !.finalizer = TRUE]
            /\ GoTo("create", [desired EXCEPT !.finalizer = TRUE], Blank)
            /\ UNCHANGED timer
       ELSE Rest(TRUE) /\ UNCHANGED cr
    /\ UNCHANGED <<exists, aws, queued, used>>

ManageFails ==
    /\ pc = "manage"
    /\ Spend("error")
    /\ Rest(TRUE)
    /\ UNCHANGED <<cr, exists, aws, queued>>

Created(r) ==
    [state |-> "CREATING", tags |-> r.tags \cup AwsTags,
     active |-> NoVersion, wanted |-> Requested(r)]

Create ==
    /\ pc = "create"
    /\ image.state = "ABSENT"
    /\ image' = Created(desired)
    /\ GoTo("patch", desired, updateConditions(
           [Answered(desired, Requested(desired), "CREATING") EXCEPT
               !.arn = TRUE, !.tags = @ \cup AwsTags], "none"))
    /\ UNCHANGED <<cr, exists, queued, timer, used, rebuilds>>

\* Names are unique: a name that is taken is a ValidationException.
CreateFails ==
    /\ pc = "create"
    /\ \/ Failed(desired)
       \/ /\ image.state # "ABSENT"
          /\ Settle(updateConditions(desired, "terminal"), "terminal")
          /\ UNCHANGED used
    /\ UNCHANGED <<cr, exists, aws, queued, timer>>

CreateAnswerLost ==
    /\ pc = "create"
    /\ image.state = "ABSENT"
    /\ Spend("drop")
    /\ image' = Created(desired)
    /\ Settle(updateConditions(desired, "retry"), "retry")
    /\ UNCHANGED <<cr, exists, queued, timer, rebuilds>>

UntagResource ==
    /\ pc = "untag"
    /\ image.state # "ABSENT"
    /\ image' = [image EXCEPT !.tags = @ \ (latest.tags \ desired.tags)]
    /\ AddTags(desired, latest)
    /\ UNCHANGED <<cr, exists, queued, timer, used, rebuilds>>

TagResource ==
    /\ pc = "tag"
    /\ image.state # "ABSENT"
    /\ image' = [image EXCEPT !.tags = @ \cup (desired.tags \ latest.tags)]
    /\ AfterTags(desired, latest)
    /\ UNCHANGED <<cr, exists, queued, timer, used, rebuilds>>

TagCallFailsIgnored ==
    /\ pc \in {"untag", "tag"}
    /\ Spend("error")
    /\ AfterTags(desired, latest)
    /\ UNCHANGED <<cr, exists, aws, queued, timer>>

TagCallFails ==
    /\ pc \in {"untag", "tag"}
    /\ \/ Failed(latest)
       \/ /\ image.state = "ABSENT"
          /\ Settle(updateConditions(latest, "retry"), "retry")
          /\ UNCHANGED used
    /\ UNCHANGED <<cr, exists, aws, queued, timer>>

\* UpdateMicrovmImage cuts a new version, whatever the request changes.
Rebuilding(r) == [image EXCEPT !.state = "UPDATING", !.wanted = Requested(r)]

Update ==
    /\ pc = "update"
    /\ image.state \in Built
    /\ image' = Rebuilding(desired)
    /\ rebuilds' = rebuilds + 1
    /\ GoTo("patch", desired,
            updateConditions(Answered(desired, Requested(desired), "UPDATING"), "none"))
    /\ UNCHANGED <<cr, exists, queued, timer, used>>

\* An image that left the state that was read answers with a conflict.
UpdateFails ==
    /\ pc = "update"
    /\ \/ Failed(latest)
       \/ /\ image.state \notin Built
          /\ Settle(updateConditions(latest, "retry"), "retry")
          /\ UNCHANGED used
    /\ UNCHANGED <<cr, exists, aws, queued, timer>>

UpdateAnswerLost ==
    /\ pc = "update"
    /\ image.state \in Built
    /\ Spend("drop")
    /\ image' = Rebuilding(desired)
    /\ rebuilds' = rebuilds + 1
    /\ Settle(updateConditions(latest, "retry"), "retry")
    /\ UNCHANGED <<cr, exists, queued, timer>>

\* The spec patch that follows Create or Update, and the one that follows late
\* initialization.
PatchSpec ==
    /\ cr' = MergeSpec(cr, desired, latest)
    /\ queued' = (queued \/ cr' # cr)
    /\ \/ pc = "patch" /\ GoTo("lateRead", Blank, latest)
       \/ pc = "patchLate" /\ Settle(latest, "none")
    /\ UNCHANGED <<exists, aws, timer, used>>

PatchSpecFails ==
    /\ pc \in {"patch", "patchLate"}
    /\ Spend("drop")
    /\ Settle(latest, "retry")
    /\ UNCHANGED <<cr, exists, aws, queued, timer>>

LateRead ==
    /\ pc = "lateRead"
    /\ ~NotFound(latest)
    /\ LET observed == Observed(latest, image)
       IN GoTo("patchLate", latest,
               lateInitializeFromReadOneOutput(observed, mirrorAWSTags(latest, observed)))
    /\ UNCHANGED <<cr, exists, aws, queued, timer, used>>

LateReadFails ==
    /\ pc = "lateRead"
    /\ \/ Spend("error") /\ Settle(latest, "retry")
       \/ Spend("reject") /\ Settle(latest, "terminal")
       \/ NotFound(latest) /\ Settle(latest, "retry") /\ UNCHANGED used
    /\ UNCHANGED <<cr, exists, aws, queued, timer>>

ensureConditions(r, e) ==
    IF r.deleting THEN r ELSE [r EXCEPT !.synced = (e = "none" /\ IsSynced(r))]

PatchStatus ==
    /\ pc = "status"
    /\ LET r == ensureConditions(latest, err)
       IN cr' = [cr EXCEPT !.arn = r.arn, !.state = r.state,
                           !.terminal = r.terminal, !.synced = r.synced]
    /\ Rest(Requeues(err))
    /\ UNCHANGED <<exists, aws, queued, used>>

PatchStatusFails ==
    /\ pc = "status"
    /\ Spend("drop")
    /\ Rest(Requeues(err))
    /\ UNCHANGED <<cr, exists, aws, queued>>

-----------------------------------------------------------------------------
(* Reconciling a CR that is being deleted.                                 *)

DelFindNothing ==
    /\ pc = "delFind"
    /\ NotFound(desired)
    /\ GoTo("unmanage", Blank, Blank)
    /\ UNCHANGED <<cr, exists, aws, queued, timer, used>>

\* ReadOne and the state guard of sdkDelete.
DelFindImage ==
    /\ pc = "delFind"
    /\ ~NotFound(desired)
    /\ LET r == updateConditions(Observed(desired, image), "none")
       IN IF r.state \in Deletable
          THEN GoTo("delete", Blank, r)
          ELSE Settle(updateConditions(r, "retry"), "retry")
    /\ UNCHANGED <<cr, exists, aws, queued, timer, used>>

DelFindFailsUnmanages ==
    /\ pc = "delFind"
    /\ desired.arn
    /\ Spend("error")
    /\ GoTo("unmanage", Blank, Blank)
    /\ UNCHANGED <<cr, exists, aws, queued, timer>>

DelFindFails ==
    /\ pc = "delFind"
    /\ desired.arn
    /\ \/ Spend("error") /\ Rest(TRUE)
       \/ Spend("reject") /\ Rest(FALSE)
    /\ UNCHANGED <<cr, exists, aws, queued>>

\* DeleteMicrovmImage.  An accepted request, whose answer is not waited upon
\* any further, finishes the deletion of the CR.
DeleteImage ==
    /\ pc = "delete"
    /\ image.state \in Settled
    /\ image' = [image EXCEPT !.state = "DELETING"]
    /\ GoTo("unmanage", Blank, Blank)
    /\ UNCHANGED <<cr, exists, queued, timer, used, rebuilds>>

DeleteFailsIgnored ==
    /\ pc = "delete"
    /\ image.state \notin Settled \/ Spend("error")
    /\ GoTo("unmanage", Blank, Blank)
    /\ UNCHANGED <<cr, exists, aws, queued, timer>>

DeleteFails ==
    /\ pc = "delete"
    /\ \/ Failed(latest)
       \/ /\ image.state \notin Settled
          /\ Settle(updateConditions(latest, "retry"), "retry")
          /\ UNCHANGED used
    /\ UNCHANGED <<cr, exists, aws, queued, timer>>

Unmanage ==
    /\ pc = "unmanage"
    /\ cr' = [cr EXCEPT !.finalizer = FALSE]
    /\ exists' = FALSE
    /\ Rest(FALSE)
    /\ UNCHANGED <<aws, queued, used>>

UnmanageFails ==
    /\ pc = "unmanage"
    /\ Spend("drop")
    /\ Rest(TRUE)
    /\ UNCHANGED <<cr, exists, aws, queued>>

-----------------------------------------------------------------------------
(* The environment.                                                        *)

TimerFires ==
    /\ timer
    /\ timer' = FALSE
    /\ queued' = TRUE
    /\ UNCHANGED <<cr, exists, aws, worker, used>>

Crash ==
    /\ Spend("crash")
    /\ pc' = "idle"
    /\ desired' = Blank
    /\ latest' = Blank
    /\ err' = "none"
    /\ queued' = exists
    /\ timer' = FALSE
    /\ UNCHANGED <<cr, exists, aws>>

UserEdits ==
    /\ exists
    /\ ~cr.deleting
    /\ \/ Spend("edit") /\ \E b \in Builds \ {cr.build} : cr' = [cr EXCEPT !.build = b]
       \/ Spend("edit") /\ \E x \in (Vals \cup {NIL}) \ {cr.late} : cr' = [cr EXCEPT !.late = x]
       \/ Spend("tag") /\ \E t \in (SUBSET UserTags) \ {cr.tags} : cr' = [cr EXCEPT !.tags = t]
    /\ queued' = TRUE
    /\ UNCHANGED <<exists, aws, worker, timer>>

UserDeletes ==
    /\ exists
    /\ ~cr.deleting
    /\ cr' = [cr EXCEPT !.deleting = TRUE]
    /\ exists' = cr.finalizer
    /\ queued' = TRUE
    /\ UNCHANGED <<aws, worker, timer, used>>

MoveImage(from, to) ==
    /\ image.state = from
    /\ image' = [image EXCEPT !.state = to]
    /\ UNCHANGED <<cr, exists, worker, queued, timer, rebuilds>>

\* A build that succeeds activates its version; a deleted image is forgotten.
Finish ==
    \/ /\ image.state \in {"CREATING", "UPDATING"}
       /\ image' = [image EXCEPT !.active = image.wanted,
                                 !.state = IF @ = "CREATING" THEN "CREATED" ELSE "UPDATED"]
       /\ UNCHANGED <<cr, exists, worker, queued, timer, used, rebuilds>>
    \/ MoveImage("DELETING", "ABSENT") /\ UNCHANGED used

\* A build that fails leaves the active version alone.
Break ==
    /\ Spend("fail")
    /\ \/ MoveImage("CREATING", "CREATE_FAILED")
       \/ MoveImage("UPDATING", "UPDATE_FAILED")
       \/ MoveImage("DELETING", "DELETE_FAILED")

\* An update or a deletion that the controller did not request.
Outside ==
    /\ Spend("outside")
    /\ \/ /\ image.state \in Built
          /\ \E v \in Version : image' = [image EXCEPT !.state = "UPDATING", !.wanted = v]
       \/ /\ image.state \in Settled
          /\ image' = [image EXCEPT !.state = "DELETING"]
    /\ UNCHANGED <<cr, exists, worker, queued, timer, rebuilds>>

-----------------------------------------------------------------------------

Init ==
    /\ \E b \in Builds, l \in Vals \cup {NIL}, t \in SUBSET UserTags :
         cr = [Blank EXCEPT !.build = b, !.late = l, !.tags = t]
    /\ exists = TRUE
    /\ image = [state |-> "ABSENT", tags |-> {}, active |-> NoVersion, wanted |-> NoVersion]
    /\ pc = "idle"
    /\ desired = Blank
    /\ latest = Blank
    /\ err = "none"
    /\ queued = TRUE
    /\ timer = FALSE
    /\ used = [k \in Kinds |-> 0]
    /\ rebuilds = 0

Sync ==
    \/ FindNothing \/ FindImage \/ FindFails
    \/ Manage \/ ManageFails
    \/ Create \/ CreateFails \/ CreateAnswerLost
    \/ UntagResource \/ TagResource \/ TagCallFails
    \/ Update \/ UpdateFails \/ UpdateAnswerLost
    \/ PatchSpec \/ PatchSpecFails
    \/ LateRead \/ LateReadFails

Delete ==
    \/ DelFindNothing \/ DelFindImage \/ DelFindFails
    \/ DeleteImage \/ DeleteFails
    \/ Unmanage \/ UnmanageFails

Worker == Dequeue \/ Sync \/ Delete \/ PatchStatus \/ PatchStatusFails

Next ==
    \/ Worker \/ TimerFires \/ Crash
    \/ UserEdits \/ UserDeletes
    \/ Finish \/ Break \/ Outside

Spec == Init /\ [][Next]_vars

\* The worker runs while there is work, timers fire, AWS finishes what it began.
Fairness == WF_vars(Worker) /\ WF_vars(TimerFires) /\ WF_vars(Finish)

FairSpec == Spec /\ Fairness

-----------------------------------------------------------------------------
(* Properties.                                                             *)

\* Type invariant.  In particular the tags stored in the CR are the user's:
\* no tag of AWS or of the controller leaks into the spec (FilterSystemTags).
TypeOK ==
    /\ cr \in Resource /\ desired \in Resource /\ latest \in Resource
    /\ cr.tags \subseteq UserTags
    /\ exists \in BOOLEAN /\ queued \in BOOLEAN /\ timer \in BOOLEAN
    /\ image \in Image
    /\ pc \in PCs
    /\ err \in {"none", "retry", "terminal"}
    /\ used \in [Kinds -> Nat]
    /\ rebuilds \in Nat

NoLoss == used["drop"] = 0 /\ used["crash"] = 0

CaughtUp == pc = "idle" /\ ~queued

\* The image runs what the spec asks for.
Matches ==
    /\ cr.build = image.active.build
    /\ cr.late = image.active.late
    /\ cr.tags = image.tags \cap UserTags

\* The finalizer is not dropped before AWS accepted the deletion of the image:
\* no failed call, state guard or lost answer of sdkDelete ends in a CR that is
\* gone and an image that nobody asked to delete.  An image whose creation was
\* lost is out of the controller's sight.
FinalizerGuardsImage ==
    ~exists /\ (cr.arn \/ NoLoss) =>
        image.state \in {"DELETING", "DELETE_FAILED", "ABSENT"}

\* Rebuilds are not endless: each accepted UpdateMicrovmImage has a cause of
\* its own, an edit of the build configuration, a failed build, a change from
\* outside or the loss of an answer.  Edits of tags, late initialization,
\* resyncs and retries are none (sdkUpdate, refreshSpecFromActiveVersion).
RebuildHasCause ==
    rebuilds <= used["edit"] + used["fail"] + used["outside"] + used["drop"] + used["crash"]

\* Tags that AWS injected survive every tag synchronization (mirrorAWSTags).
AwsTagsKept == image.state # "ABSENT" => AwsTags \subseteq image.tags

\* Synced=True means that the image matches the spec in the build
\* configuration, the late fields and the tags, once all edits are processed:
\* a tag call that failed between UntagResource and TagResource, a build that is
\* still running or has failed is not passed over (sdkUpdate, IsSynced).
SyncedMatchesSpec ==
    CaughtUp /\ exists /\ ~cr.deleting /\ cr.synced /\ NoLoss /\ used["outside"] = 0 => Matches

\* A deleted CR goes away, whatever its image was doing.
DeletionCompletes == cr.deleting ~> ~exists

\* Drift is corrected: an image that has an active version comes to run what
\* the spec asks for, be it the spec that changed or the image that was changed
\* behind the controller's back, after failed builds too.  An image whose
\* deletion, requested by somebody else, failed is not touched again.
DriftCorrected ==
    (exists /\ ~cr.deleting /\ cr.arn /\ image.active # NoVersion /\ ~Matches) ~>
        (Matches \/ cr.deleting \/ image.state \in {"ABSENT", "DELETE_FAILED"})

\* The life of an image as module Managed sees it.  A deletion that failed was
\* asked for, and the image takes no update any more.
Life(s) ==
    CASE s = "ABSENT" -> "gone"
      [] s \in {"DELETING", "DELETE_FAILED"} -> "ending"
      [] OTHER -> "alive"

Promise == INSTANCE Managed WITH
    Ids <- {"image"},
    NIL <- "none",
    Fresh <- {"gone"},
    Released <- {"ending", "over", "gone"},
    phase <- IF ~exists THEN "removed" ELSE IF cr.finalizer THEN "managed" ELSE "new",
    asked <- cr.deleting,
    record <- IF cr.arn THEN "image" ELSE "none",
    cloud <- [i \in {"image"} |-> Life(image.state)]

\* The controller keeps the promise of module Managed: it creates an image only
\* with the finalizer in place and no image recorded that AWS still has, and
\* removes a CR only after its user deleted it and AWS took the deletion of the
\* recorded image, whatever fails, crashes or changes outside.
KeepsPromise == Promise!Spec

-----------------------------------------------------------------------------
(* What the documentation promises and the code does not keep.             *)

\* descriptor.go: the CR "may not be deleted until ACK is finished cleaning up
\* any backend AWS service resources associated with the CR": no CR is gone
\* while its image stays behind.
NoOrphan == ~exists /\ NoLoss => image.state \in {"ABSENT", "DELETING"}

\* README: updates are accepted in CREATE_FAILED, so a spec that is fixed after
\* its first build failed is built.
FixIsBuilt ==
    (exists /\ image.state = "CREATE_FAILED" /\ cr.arn /\ cr.build # image.wanted.build) ~>
        (image.state # "CREATE_FAILED" \/ cr.build = image.wanted.build \/ cr.deleting)

=============================================================================
