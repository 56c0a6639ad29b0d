----------------------- MODULE MicrovmImageRefinement -----------------------
(***************************************************************************)
(* MicrovmImage implements Managed: every step of the worker, of AWS and   *)
(* of the user is a step that module Managed allows, or leaves what it     *)
(* speaks of alone.  The invariant is the one behind the safety of the     *)
(* finalizer (MicrovmImageProofs).                                         *)
(***************************************************************************)
EXTENDS MicrovmImageProofs

Abstract == [Promise!Next]_(Promise!vars)

LEMMA TypedCopies ==
    ASSUME IInv
    PROVE  /\ TypeInv /\ Protocol
           /\ cr \in Resource /\ desired \in Resource /\ latest \in Resource
           /\ image \in Image
BY Typed DEF IInv

\* A step that touches neither the life of the image nor what Managed reads of
\* the CR.
LEMMA Silent ==
    ASSUME exists' = exists, Life(image.state)' = Life(image.state), Same(cr', cr)
    PROVE  Abstract
BY DEF Abstract, Promise!vars, Same

\* The life of the image advances, and the CR is as it was.
LEMMA Advances ==
    ASSUME exists' = exists, cr' = cr,
           <<Life(image.state), Life(image.state)'>> \in Promise!Later
    PROVE  Abstract
<1>1. Promise!Advance("image")
  BY DEF Promise!Advance
<1>2. QED
  BY <1>1 DEF Abstract, Promise!Next

LEMMA SilentSteps ==
    IInv /\ (Dequeue \/ FindNothing \/ FindImage \/ FindFails \/ Resting \/ CreateFails
             \/ LatestFailures \/ PatchSpec \/ LateRead \/ DelFindNothing \/ DelFindImage
             \/ TimerFires \/ Crash \/ UserEdits \/ UNCHANGED vars) => Abstract
<1>1. ASSUME UNCHANGED <<cr, exists, image>> PROVE Abstract
  BY <1>1, Silent DEF Same
<1>2. ASSUME IInv, PatchSpec PROVE Abstract
  <2>1. /\ cr \in Resource /\ desired \in Resource /\ latest \in Resource
        /\ cr.tags \subseteq UserTags /\ cr.build \in Builds /\ latest.build \in Builds
    BY <1>2, Typed DEF IInv, PatchSpec, WorkerBuilds, Merging
  <2>2. Same(cr', cr) /\ UNCHANGED <<exists, image>>
    BY <1>2, <2>1, MergeType DEF PatchSpec, aws
  <2>3. QED
    BY <2>2, Silent
<1>3. ASSUME IInv, UserEdits PROVE Abstract
  <2>1. Same(cr', cr) /\ UNCHANGED <<exists, image>>
    BY <1>3, TypedCopies DEF UserEdits, Resource, Same, aws
  <2>2. QED
    BY <2>1, Silent
<1>4. QED
  BY <1>1, <1>2, <1>3 DEF Dequeue, FindNothing, FindImage, FindFails, Resting, ManageFails,
     PatchStatusFails, DelFindFails, UnmanageFails, CreateFails, LatestFailures, TagCallFails,
     UpdateFails, PatchSpecFails, LateReadFails, DeleteFails, LateRead, DelFindNothing,
     DelFindImage, TimerFires, Crash, vars, aws

\* CreateMicrovmImage, whether its answer arrives or not, begins the image.
LEMMA CreateBegins == IInv /\ (Create \/ CreateAnswerLost) => Abstract
<1> SUFFICES ASSUME IInv, Create \/ CreateAnswerLost PROVE Abstract
  OBVIOUS
<1>1. /\ exists /\ cr.finalizer /\ UNCHANGED <<cr, exists>>
      /\ image.state = "ABSENT" /\ image'.state = "CREATING"
  BY DEF IInv, Protocol, FinalizerHeld, Create, CreateAnswerLost, Created
<1>2. Promise!Begin("image")
  BY <1>1 DEF Promise!Begin, Promise!Replaceable, Life
<1>3. QED
  BY <1>2 DEF Abstract, Promise!Next

\* Tag calls and new versions belong to the life of the image.
LEMMA UpdatesAreSilent ==
    IInv /\ (UntagResource \/ TagResource \/ Update \/ UpdateAnswerLost) => Abstract
<1> SUFFICES ASSUME IInv, UntagResource \/ TagResource \/ Update \/ UpdateAnswerLost
             PROVE  Abstract
  OBVIOUS
<1>1. cr' = cr /\ exists' = exists /\ image \in Image
  BY TypedCopies DEF UntagResource, TagResource, Update, UpdateAnswerLost
<1>2. CASE UntagResource \/ TagResource
  <2>1. image'.state = image.state
    BY <1>1, <1>2 DEF UntagResource, TagResource, Image
  <2>2. QED
    BY <1>1, <2>1, Silent DEF Same
<1>3. CASE Update \/ UpdateAnswerLost
  <2>1. image.state \in Built /\ image'.state = "UPDATING"
    BY <1>1, <1>3 DEF Update, UpdateAnswerLost, Rebuilding, Image
  <2>2. Life(image.state)' = Life(image.state)
    BY <2>1 DEF Life, Built
  <2>3. QED
    BY <1>1, <2>2, Silent DEF Same
<1>4. QED
  BY <1>2, <1>3

\* The status patch records the ARN, or repeats it.
LEMMA StatusRecords == IInv /\ PatchStatus => Abstract
<1> SUFFICES ASSUME IInv, PatchStatus PROVE Abstract
  OBVIOUS
<1>1. /\ cr \in Resource /\ latest \in Resource /\ exists /\ cr.finalizer
      /\ cr.arn => latest.arn
  BY TypedCopies DEF Protocol, FinalizerHeld, ArnTracking, PatchStatus
<1>2. ensureConditions(latest, err).arn = latest.arn
  BY <1>1, EnsureType DEF Same
<1>3. /\ cr'.arn = latest.arn /\ cr'.finalizer = cr.finalizer /\ cr'.deleting = cr.deleting
      /\ UNCHANGED <<exists, image>>
  BY <1>1, <1>2 DEF PatchStatus, aws, Resource
<1>4. CASE cr.arn \/ ~latest.arn
  <2>1. cr'.arn = cr.arn
    BY <1>1, <1>3, <1>4 DEF Resource
  <2>2. QED
    BY <1>3, <2>1, Silent DEF Same
<1>5. CASE ~cr.arn /\ latest.arn
  <2>1. Promise!Record("image")
    BY <1>1, <1>3, <1>5 DEF Promise!Record, Promise!Replaceable, Life
  <2>2. QED
    BY <2>1 DEF Abstract, Promise!Next
<1>6. QED
  BY <1>4, <1>5

LEMMA FinalizerManages == IInv /\ Manage => Abstract
<1> SUFFICES ASSUME IInv, Manage PROVE Abstract
  OBVIOUS
<1>1. cr \in Resource /\ UNCHANGED <<exists, image>>
  BY TypedCopies DEF Manage, aws
<1>2. CASE ~exists \/ cr.finalizer
  <2>1. Same(cr', cr)
    BY <1>1, <1>2 DEF Manage, Resource, Same
  <2>2. QED
    BY <1>1, <2>1, Silent
<1>3. CASE exists /\ ~cr.finalizer
  <2>1. cr'.arn = cr.arn /\ cr'.finalizer /\ cr'.deleting = cr.deleting
    BY <1>1, <1>3 DEF Manage, Resource
  <2>2. Promise!Manage
    BY <1>1, <1>3, <2>1 DEF Promise!Manage
  <2>3. QED
    BY <2>2 DEF Abstract, Promise!Next
<1>4. QED
  BY <1>2, <1>3

\* What AWS does by itself, and what it takes from the controller or from others,
\* brings the image closer to its end or leaves it alive.
LEMMA CloudAdvances == IInv /\ (DeleteImage \/ Finish \/ Break \/ Outside) => Abstract
<1> SUFFICES ASSUME IInv, DeleteImage \/ Finish \/ Break \/ Outside PROVE Abstract
  OBVIOUS
<1>1. image \in Image /\ cr' = cr /\ exists' = exists
  BY TypedCopies DEF DeleteImage, Finish, Break, Outside, MoveImage
<1>2. \/ Life(image.state)' = Life(image.state)
      \/ <<Life(image.state), Life(image.state)'>> \in Promise!Later
  BY <1>1 DEF DeleteImage, Finish, Break, Outside, MoveImage, Life, Promise!Later,
     Image, ImageStates, Settled, Built
<1>3. QED
  BY <1>1, <1>2, Silent, Advances DEF Same

LEMMA UserAsks == IInv /\ UserDeletes => Abstract
<1> SUFFICES ASSUME IInv, UserDeletes PROVE Abstract
  OBVIOUS
<1>1. cr \in Resource
  BY TypedCopies
<1>2. /\ exists /\ ~cr.deleting /\ cr'.deleting /\ exists' = cr.finalizer
      /\ cr'.arn = cr.arn /\ cr'.finalizer = cr.finalizer /\ UNCHANGED image
  BY <1>1 DEF UserDeletes, aws, Resource
<1>3. Promise!Ask
  BY <1>1, <1>2 DEF Promise!Ask, Resource
<1>4. QED
  BY <1>3 DEF Abstract, Promise!Next

LEMMA UnmanageRemoves == IInv /\ Unmanage => Abstract
<1> SUFFICES ASSUME IInv, Unmanage PROVE Abstract
  OBVIOUS
<1>1. /\ cr \in Resource /\ exists /\ cr.finalizer /\ cr.deleting
      /\ cr.arn => image.state \in Ended
  BY TypedCopies DEF Unmanage, Protocol, FinalizerHeld, ArnTracking
<1>2. cr'.arn = cr.arn /\ cr'.deleting = cr.deleting /\ ~exists' /\ UNCHANGED image
  BY <1>1 DEF Unmanage, aws, Resource
<1>3. image.state \in Ended => Life(image.state) \in {"ending", "gone"}
  BY DEF Ended, Life
<1>4. Promise!Remove
  BY <1>1, <1>2, <1>3 DEF Promise!Remove
<1>5. QED
  BY <1>4 DEF Abstract, Promise!Next

\* The controller keeps the promise of Managed, for every set of configurations and
\* tags and every bound on failures, lost answers, crashes and changes from outside.
THEOREM Refinement == Spec => KeepsPromise
<1>1. Init => Promise!Init
  BY DEF Init, Promise!Init, Blank, Life
<1>2. IInv /\ [Next]_vars => [Promise!Next]_(Promise!vars)
  BY SilentSteps, CreateBegins, UpdatesAreSilent, StatusRecords, FinalizerManages, CloudAdvances,
     UserAsks, UnmanageRemoves
     DEF Next, Worker, Sync, Delete, Resting, LatestFailures, Abstract
<1>3. QED
  BY <1>1, <1>2, Invariance, PTL DEF Spec, KeepsPromise, Promise!Spec

\* What ManagedProofs asks of an instance holds of this one: no image is left behind
\* that was recorded and not released (PromiseSuffices).
THEOREM PromiseSound == Promise!Sound
BY DEF Promise!Sound, Promise!States, Promise!Later

=============================================================================
