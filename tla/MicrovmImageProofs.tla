------------------------- MODULE MicrovmImageProofs -------------------------
(***************************************************************************)
(* What holds of MicrovmImage for every set of build configurations,       *)
(* values and tags, and for every set of allowed disturbances: its type    *)
(* invariant, the safety of its finalizer and of the tags of AWS, that     *)
(* every rebuild has a cause, and that Synced=True is the truth.  That it  *)
(* implements Managed is in MicrovmImageRefinement.                        *)
(***************************************************************************)
EXTENDS MicrovmImage, TLAPS

-----------------------------------------------------------------------------
(* What the operators on resources return.                                 *)

\* What the protocol of the worker and the API server reads of a resource.
Same(r, s) ==
    /\ r.arn = s.arn
    /\ r.finalizer = s.finalizer
    /\ r.deleting = s.deleting

LEMMA BlankType == Blank \in Resource /\ ~Blank.arn /\ ~Blank.finalizer
BY DEF Blank, Resource

LEMMA ConditionsType ==
    ASSUME NEW r \in Resource, NEW e
    PROVE  LET u == updateConditions(r, e)
           IN u \in Resource /\ Same(u, r) /\ u.build = r.build /\ u.tags = r.tags
BY DEF updateConditions, Resource, Same

LEMMA ResetType ==
    ASSUME NEW r \in Resource
    PROVE  LET u == EnsureTags(ResetConditions(r))
           IN u \in Resource /\ Same(u, r) /\ u.build = r.build
BY DEF EnsureTags, ResetConditions, Resource, Tags, Same

LEMMA EnsureType ==
    ASSUME NEW r \in Resource, NEW e
    PROVE  LET u == ensureConditions(r, e)
           IN u \in Resource /\ Same(u, r)
BY DEF ensureConditions, IsSynced, Resource, Same

\* sdkFind's merge keeps the finalizer and gives the resource an ARN.
LEMMA ObservedType ==
    ASSUME NEW r \in Resource, NEW m \in Image, m.state # "ABSENT"
    PROVE  LET o == Observed(r, m)
           IN /\ o \in Resource
              /\ o.arn
              /\ o.finalizer = r.finalizer
              /\ o.deleting = r.deleting
              /\ o.tags = m.tags
              /\ r.build \in Builds => o.build \in Builds
<1> DEFINE v == m.active
           p == refreshSpecFromActiveVersion(r, v)
<1>1. /\ p \in Resource /\ p.finalizer = r.finalizer /\ p.deleting = r.deleting
      /\ r.build \in Builds => p.build \in Builds
  <2>1. CASE v = NoVersion
    BY <2>1 DEF refreshSpecFromActiveVersion
  <2>2. CASE v # NoVersion
    <3>1. v \in Version
      BY <2>2 DEF Image
    <3>2. QED
      BY <2>2, <3>1 DEF refreshSpecFromActiveVersion, Version, Resource
  <2>3. QED
    BY <2>1, <2>2
<1>2. m.tags \in SUBSET Tags /\ m.state \in ImageStates
  BY DEF Image
<1>3. Observed(r, m) = [p EXCEPT !.tags = m.tags, !.state = m.state, !.arn = TRUE]
  BY DEF Observed
<1> HIDE DEF p
<1>4. QED
  BY <1>1, <1>2, <1>3 DEF Resource

\* mirrorAWSTags keeps the tags that AWS injected out of the difference.
LEMMA MirrorType ==
    ASSUME NEW a \in Resource, NEW b \in Resource
    PROVE  LET d == mirrorAWSTags(a, b)
           IN /\ d \in Resource /\ Same(d, a) /\ d.build = a.build
              /\ b.tags \cap AwsTags \subseteq d.tags
BY DEF mirrorAWSTags, Resource, Same

LEMMA FilledType ==
    ASSUME NEW o \in Resource, NEW r \in Resource
    PROVE  LET u == lateInitializeFromReadOneOutput(o, r)
           IN u \in Resource /\ Same(u, r) /\ u.build = r.build
BY DEF lateInitializeFromReadOneOutput, Resource, Same

\* A spec patch never stores a tag that is not the user's, nor erases the build.
LEMMA MergeType ==
    ASSUME NEW c \in Resource, NEW a \in Resource, NEW b \in Resource,
           c.tags \subseteq UserTags, c.build \in Builds, b.build \in Builds
    PROVE  LET m == MergeSpec(c, a, b)
           IN /\ m \in Resource /\ Same(m, c)
              /\ m.tags \subseteq UserTags /\ m.build \in Builds
<1> DEFINE f == FilterSystemTags(b)
           x == IF a.build = f.build THEN c.build ELSE f.build
           y == IF a.late = f.late THEN c.late ELSE f.late
           t == (c.tags \ (a.tags \ f.tags)) \cup (f.tags \ a.tags)
<1>1. f \in Resource /\ f.tags \subseteq UserTags /\ f.build = b.build
  BY DEF FilterSystemTags, Resource
<1> HIDE DEF f
<1>2. x \in Builds /\ y \in Vals \cup {NIL} /\ t \subseteq UserTags /\ t \in SUBSET Tags
  BY <1>1 DEF Resource, Tags
<1>3. MergeSpec(c, a, b) = [c EXCEPT !.build = x, !.late = y, !.tags = t]
  BY DEF MergeSpec, f
<1> HIDE DEF x, y, t
<1>4. QED
  BY <1>2, <1>3 DEF Resource, Same

LEMMA RequestedType ==
    ASSUME NEW r \in Resource, r.build \in Builds
    PROVE  Requested(r) \in Version
BY ImageAssumption DEF Requested, Resource, Version

LEMMA AnsweredType ==
    ASSUME NEW r \in Resource, NEW v \in Version, NEW s \in ImageStates
    PROVE  LET u == Answered(r, v, s)
           IN u \in Resource /\ Same(u, r) /\ u.build \in Builds /\ u.tags = r.tags
BY DEF Answered, Version, Resource, Same

LEMMA SpendType ==
    ASSUME NEW k \in Kinds, used \in [Kinds -> Nat], Spend(k)
    PROVE  /\ used' \in [Kinds -> Nat]
           /\ used'[k] # 0
           /\ \A j \in Kinds : used'[j] = 0 => used[j] = 0
BY DEF Spend

-----------------------------------------------------------------------------
(* Type correctness, and AwsTagsKept.  UpdateMicrovmImage builds what the  *)
(* worker's copy asks for, so the copies must never have lost the build    *)
(* configuration; UntagResource removes what the desired resource lacks,   *)
(* so that must have been given the tags of AWS first.                     *)

Errors == {"none", "retry", "terminal"}

\* Where the worker will send, or patch, the build configuration of its copies.
Asking == {"find", "manage", "create", "untag", "tag", "update"}
Merging == {"untag", "tag", "update", "patch", "lateRead", "patchLate"}

WorkerBuilds ==
    /\ pc \in Asking => desired.build \in Builds
    /\ pc \in Merging => latest.build \in Builds

TagsMirrored == pc \in {"untag", "tag"} => latest.tags \cap AwsTags \subseteq desired.tags

TypeInv == TypeOK /\ cr.build \in Builds /\ WorkerBuilds /\ TagsMirrored /\ AwsTagsKept

WorkerTyped ==
    /\ pc' \in PCs
    /\ desired' \in Resource
    /\ latest' \in Resource
    /\ err' \in Errors
    /\ WorkerBuilds'
    /\ TagsMirrored'

LEMMA Typed ==
    ASSUME TypeInv
    PROVE  /\ cr \in Resource /\ desired \in Resource /\ latest \in Resource
           /\ cr.tags \subseteq UserTags /\ cr.build \in Builds
           /\ exists \in BOOLEAN /\ queued \in BOOLEAN /\ timer \in BOOLEAN
           /\ image \in Image /\ used \in [Kinds -> Nat] /\ rebuilds \in Nat
           /\ pc \in PCs /\ err \in Errors /\ WorkerBuilds
BY DEF TypeInv, TypeOK, Errors

LEMMA GoToTyped ==
    ASSUME NEW l \in PCs, NEW d \in Resource, NEW r \in Resource, GoTo(l, d, r),
           l \in Asking => d.build \in Builds,
           l \in Merging => r.build \in Builds,
           l \in {"untag", "tag"} => r.tags \cap AwsTags \subseteq d.tags
    PROVE  WorkerTyped
BY DEF GoTo, WorkerTyped, WorkerBuilds, TagsMirrored, Errors

LEMMA SettleTyped ==
    ASSUME NEW r \in Resource, NEW e \in Errors, Settle(r, e)
    PROVE  WorkerTyped
BY BlankType DEF Settle, WorkerTyped, WorkerBuilds, TagsMirrored, Asking, Merging, PCs

LEMMA RestTyped ==
    ASSUME NEW b \in BOOLEAN, timer \in BOOLEAN, Rest(b)
    PROVE  WorkerTyped /\ timer' \in BOOLEAN
BY BlankType DEF Rest, WorkerTyped, WorkerBuilds, TagsMirrored, Asking, Merging, PCs, Errors

\* A step of the worker that neither patches the CR nor changes the image.
LEMMA WorkerStep ==
    ASSUME TypeInv, WorkerTyped, UNCHANGED <<cr, exists, aws>>,
           queued' \in BOOLEAN, timer' \in BOOLEAN, used' \in [Kinds -> Nat]
    PROVE  TypeInv'
BY DEF TypeInv, TypeOK, WorkerTyped, aws, Errors, AwsTagsKept

\* A step that patches the CR or changes the image.
LEMMA AnyStep ==
    ASSUME TypeInv, WorkerTyped,
           cr' \in Resource, cr'.tags \subseteq UserTags, cr'.build \in Builds,
           exists' \in BOOLEAN, queued' \in BOOLEAN, timer' \in BOOLEAN,
           image' \in Image, AwsTagsKept', used' \in [Kinds -> Nat], rebuilds' \in Nat
    PROVE  TypeInv'
BY DEF TypeInv, TypeOK, WorkerTyped, Errors

LEMMA TypeInit == Init => TypeInv
<1> SUFFICES ASSUME Init PROVE TypeInv
  OBVIOUS
<1>1. PICK b \in Builds, l \in Vals \cup {NIL}, t \in SUBSET UserTags :
         cr = [Blank EXCEPT !.build = b, !.late = l, !.tags = t]
  BY DEF Init
<1>2. cr \in Resource /\ cr.build \in Builds /\ cr.tags \subseteq UserTags
  BY <1>1 DEF Blank, Resource, Tags
<1>3. image \in Image /\ AwsTagsKept
  BY DEF Init, Image, AwsTagsKept
<1>4. used \in [Kinds -> Nat] /\ rebuilds \in Nat
  BY DEF Init
<1>5. TypeOK
  BY <1>2, <1>3, <1>4, BlankType DEF Init, TypeOK, PCs
<1>6. WorkerBuilds /\ TagsMirrored
  BY DEF Init, WorkerBuilds, TagsMirrored, Asking, Merging
<1>7. QED
  BY <1>2, <1>3, <1>5, <1>6 DEF TypeInv

LEMMA DequeueType == TypeInv /\ Dequeue => TypeInv'
<1> SUFFICES ASSUME TypeInv, Dequeue PROVE TypeInv'
  OBVIOUS
<1>1. cr \in Resource /\ cr.build \in Builds
  BY Typed
<1>2. CASE UNCHANGED worker
  <2>1. WorkerTyped
    BY <1>2 DEF worker, TypeInv, TypeOK, WorkerTyped, WorkerBuilds, TagsMirrored, Errors
  <2>2. QED
    BY <2>1, Typed, WorkerStep DEF Dequeue
<1>3. CASE GoTo("delFind", cr, Blank)
  <2>1. WorkerTyped
    BY <1>1, <1>3, GoToTyped, BlankType DEF PCs, Asking, Merging
  <2>2. QED
    BY <2>1, Typed, WorkerStep DEF Dequeue
<1>4. CASE GoTo("find", EnsureTags(ResetConditions(cr)), Blank)
  <2> DEFINE d == EnsureTags(ResetConditions(cr))
  <2>1. d \in Resource /\ d.build \in Builds
    BY <1>1, ResetType
  <2> HIDE DEF d
  <2>2. GoTo("find", d, Blank)
    BY <1>4 DEF d
  <2>3. WorkerTyped
    BY <2>1, <2>2, GoToTyped, BlankType DEF PCs, Asking, Merging
  <2>4. QED
    BY <2>3, Typed, WorkerStep DEF Dequeue
<1>5. QED
  BY <1>2, <1>3, <1>4 DEF Dequeue

\* Where sdkUpdate goes once it has compared d, the mirrored CR, with l.
TagsLead(d, l) ==
    \/ \E p \in {"untag", "tag", "update"} : GoTo(p, d, l)
    \/ GoTo("patch", d, updateConditions(d, "none"))
    \/ Settle(updateConditions(l, "retry"), "retry")

LEMMA AfterTagsLead == ASSUME NEW d, NEW l, AfterTags(d, l) PROVE TagsLead(d, l)
BY DEF AfterTags, TagsLead

LEMMA AddTagsLead == ASSUME NEW d, NEW l, AddTags(d, l) PROVE TagsLead(d, l)
BY AfterTagsLead DEF AddTags, TagsLead

LEMMA RemoveTagsLead == ASSUME NEW d, NEW l, RemoveTags(d, l) PROVE TagsLead(d, l)
BY AddTagsLead DEF RemoveTags, TagsLead

LEMMA TagsTyped ==
    ASSUME NEW d \in Resource, NEW l \in Resource, TagsLead(d, l),
           d.build \in Builds, l.build \in Builds, l.tags \cap AwsTags \subseteq d.tags
    PROVE  WorkerTyped
<1>1. CASE \E p \in {"untag", "tag", "update"} : GoTo(p, d, l)
  BY <1>1, GoToTyped DEF PCs
<1>2. CASE GoTo("patch", d, updateConditions(d, "none"))
  <2> DEFINE u == updateConditions(d, "none")
  <2>1. u \in Resource /\ u.build \in Builds
    BY ConditionsType
  <2> HIDE DEF u
  <2>2. GoTo("patch", d, u)
    BY <1>2 DEF u
  <2>3. QED
    BY <2>1, <2>2, GoToTyped DEF PCs, Asking
<1>3. CASE Settle(updateConditions(l, "retry"), "retry")
  BY <1>3, ConditionsType, SettleTyped DEF Errors
<1>4. QED
  BY <1>1, <1>2, <1>3 DEF TagsLead

\* What sdkFind returns for an image that is found.
LEMMA FoundType ==
    ASSUME TypeInv, NEW d \in Resource, ~NotFound(d)
    PROVE  LET o == Observed(d, image)
               u == updateConditions(o, "none")
           IN /\ o \in Resource /\ u \in Resource
              /\ o.arn /\ u.arn /\ d.arn
              /\ u.finalizer = d.finalizer /\ u.deleting = d.deleting
              /\ o.finalizer = d.finalizer /\ o.deleting = d.deleting
              /\ d.build \in Builds => o.build \in Builds /\ u.build \in Builds
<1>1. image \in Image /\ image.state # "ABSENT" /\ d.arn
  BY Typed DEF NotFound
<1> DEFINE o == Observed(d, image)
<1>2. /\ o \in Resource /\ o.arn /\ o.finalizer = d.finalizer /\ o.deleting = d.deleting
      /\ d.build \in Builds => o.build \in Builds
  BY <1>1, ObservedType
<1> HIDE DEF o
<1>3. QED
  BY <1>1, <1>2, ConditionsType DEF Same, o

LEMMA FindType == TypeInv /\ (FindNothing \/ FindImage \/ FindFails) => TypeInv'
<1> SUFFICES ASSUME TypeInv, FindNothing \/ FindImage \/ FindFails PROVE TypeInv'
  OBVIOUS
<1>1. desired \in Resource /\ desired.build \in Builds
  BY Typed DEF FindNothing, FindImage, FindFails, WorkerBuilds, Asking
<1>2. CASE FindNothing
  <2>1. \E l \in {"create", "manage"} : GoTo(l, desired, Blank)
    BY <1>2 DEF FindNothing
  <2>2. WorkerTyped
    BY <1>1, <2>1, GoToTyped, BlankType DEF PCs, Merging
  <2>3. QED
    BY <1>2, <2>2, Typed, WorkerStep DEF FindNothing
<1>3. CASE FindImage
  <2> DEFINE r == updateConditions(Observed(desired, image), "none")
             d == mirrorAWSTags(desired, r)
  <2>1. r \in Resource /\ r.build \in Builds
    BY <1>1, <1>3, FoundType DEF FindImage
  <2>2. \/ RemoveTags(d, r)
        \/ GoTo("lateRead", Blank, r)
    BY <1>3 DEF FindImage
  <2> HIDE DEF r
  <2>3. d \in Resource /\ d.build \in Builds /\ r.tags \cap AwsTags \subseteq d.tags
    BY <1>1, <2>1, MirrorType
  <2> HIDE DEF d
  <2>4. CASE RemoveTags(d, r)
    <3>1. WorkerTyped
      BY <2>1, <2>3, <2>4, RemoveTagsLead, TagsTyped
    <3>2. QED
      BY <1>3, <3>1, Typed, WorkerStep DEF FindImage
  <2>5. CASE GoTo("lateRead", Blank, r)
    <3>1. WorkerTyped
      BY <2>1, <2>5, GoToTyped, BlankType DEF PCs, Asking
    <3>2. QED
      BY <1>3, <3>1, Typed, WorkerStep DEF FindImage
  <2>6. QED
    BY <2>2, <2>4, <2>5
<1>4. CASE FindFails
  <2>1. \E e \in {"retry", "terminal"} : Settle(updateConditions(desired, e), e)
    BY <1>4 DEF FindFails, Failed
  <2>2. WorkerTyped
    BY <1>1, <2>1, ConditionsType, SettleTyped DEF Errors
  <2>3. used' \in [Kinds -> Nat]
    BY <1>4, Typed, SpendType DEF FindFails, Failed, Kinds
  <2>4. QED
    BY <1>4, <2>2, <2>3, Typed, WorkerStep DEF FindFails
<1>5. QED
  BY <1>2, <1>3, <1>4

\* The outcomes of a call that failed: conditions on r, and at most a count spent.
Fails(r) ==
    /\ \E e \in Errors : Settle(r, e) \/ Settle(updateConditions(r, e), e)
    /\ used' = used \/ (\E k \in Kinds : Spend(k))

\* The steps that end a reconciliation with an error before they changed anything.
Failure(r) == Fails(r) /\ UNCHANGED <<cr, exists, aws, queued, timer>>

LEMMA FailureType == ASSUME TypeInv, NEW r \in Resource, Failure(r) PROVE TypeInv'
<1>1. WorkerTyped
  BY ConditionsType, SettleTyped DEF Failure, Fails
<1>2. used' \in [Kinds -> Nat]
  BY Typed, SpendType DEF Failure, Fails
<1>3. QED
  BY <1>1, <1>2, Typed, WorkerStep DEF Failure

LEMMA CreateFailsIs == CreateFails => Failure(desired)
BY DEF CreateFails, Failure, Failed, Fails, Errors, Kinds

LEMMA LatestFailuresAre ==
    TagCallFails \/ UpdateFails \/ PatchSpecFails \/ LateReadFails \/ DeleteFails
        => Failure(latest)
BY DEF TagCallFails, UpdateFails, PatchSpecFails, LateReadFails, DeleteFails,
       Failure, Failed, Fails, Errors, Kinds

\* The steps that only give a reconciliation up.
Resting == ManageFails \/ PatchStatusFails \/ DelFindFails \/ UnmanageFails

LEMMA RestingIs ==
    Resting => /\ \E b \in BOOLEAN : Rest(b)
               /\ \E k \in Kinds : Spend(k)
               /\ UNCHANGED <<cr, exists, aws, queued>>
BY DEF Resting, ManageFails, PatchStatusFails, DelFindFails, UnmanageFails, Requeues, Kinds

LEMMA RestingType == TypeInv /\ Resting => TypeInv'
<1> SUFFICES ASSUME TypeInv, Resting PROVE TypeInv'
  OBVIOUS
<1>1. WorkerTyped /\ timer' \in BOOLEAN
  BY RestingIs, Typed, RestTyped
<1>2. used' \in [Kinds -> Nat]
  BY RestingIs, Typed, SpendType
<1>3. QED
  BY <1>1, <1>2, RestingIs, Typed, WorkerStep

LEMMA ManageType == TypeInv /\ Manage => TypeInv'
<1> SUFFICES ASSUME TypeInv, Manage PROVE TypeInv'
  OBVIOUS
<1>1. cr \in Resource /\ desired \in Resource /\ desired.build \in Builds
  BY Typed DEF Manage, WorkerBuilds, Asking
<1>2. CASE exists
  <2> DEFINE d == [desired EXCEPT !.finalizer = TRUE]
             c == [cr EXCEPT !.finalizer = TRUE]
  <2>1. d \in Resource /\ d.build \in Builds
    BY <1>1 DEF Resource
  <2>2. c \in Resource /\ c.build = cr.build /\ c.tags = cr.tags
    BY <1>1 DEF Resource
  <2>3. GoTo("create", d, Blank) /\ cr' = c
    BY <1>2 DEF Manage
  <2> HIDE DEF d, c
  <2>4. WorkerTyped
    BY <2>1, <2>3, GoToTyped, BlankType DEF PCs, Merging
  <2>5. QED
    BY <1>2, <2>2, <2>3, <2>4, Typed, AnyStep DEF Manage, aws, TypeInv, AwsTagsKept
<1>3. CASE ~exists
  BY <1>3, Typed, RestTyped, WorkerStep DEF Manage
<1>4. QED
  BY <1>2, <1>3

\* CreateMicrovmImage makes an image that carries the tags of AWS.
LEMMA CreatedType ==
    ASSUME NEW r \in Resource, r.build \in Builds, image' = Created(r)
    PROVE  image' \in Image /\ AwsTagsKept' /\ image'.state = "CREATING"
<1>1. Requested(r) \in Version
  BY RequestedType
<1>2. r.tags \cup AwsTags \in SUBSET Tags
  BY DEF Resource, Tags
<1>3. QED
  BY <1>1, <1>2 DEF Created, Image, AwsTagsKept, ImageStates

LEMMA CreateType == TypeInv /\ (Create \/ CreateAnswerLost) => TypeInv'
<1> SUFFICES ASSUME TypeInv, Create \/ CreateAnswerLost PROVE TypeInv'
  OBVIOUS
<1>1. desired \in Resource /\ desired.build \in Builds /\ image' = Created(desired)
  BY Typed DEF Create, CreateAnswerLost, WorkerBuilds, Asking
<1>2. image' \in Image /\ AwsTagsKept'
  BY <1>1, CreatedType
<1>3. CASE Create
  <2> DEFINE a == Answered(desired, Requested(desired), "CREATING")
             b == [a EXCEPT !.arn = TRUE, !.tags = @ \cup AwsTags]
             u == updateConditions(b, "none")
  <2>1. a \in Resource /\ a.build \in Builds
    BY <1>1, RequestedType, AnsweredType DEF ImageStates
  <2>2. GoTo("patch", desired, u)
    BY <1>3 DEF Create
  <2> HIDE DEF a
  <2>3. b \in Resource /\ b.build \in Builds
    BY <2>1 DEF Resource, Tags
  <2> HIDE DEF b
  <2>4. u \in Resource /\ u.build \in Builds
    BY <2>3, ConditionsType
  <2> HIDE DEF u
  <2>5. WorkerTyped
    BY <1>1, <2>2, <2>4, GoToTyped DEF PCs
  <2>6. QED
    BY <1>2, <1>3, <2>5, Typed, AnyStep DEF Create
<1>4. CASE CreateAnswerLost
  <2>1. WorkerTyped
    BY <1>1, <1>4, ConditionsType, SettleTyped DEF CreateAnswerLost, Errors
  <2>2. used' \in [Kinds -> Nat]
    BY <1>4, Typed, SpendType DEF CreateAnswerLost, Kinds
  <2>3. QED
    BY <1>2, <1>4, <2>1, <2>2, Typed, AnyStep DEF CreateAnswerLost
<1>5. QED
  BY <1>3, <1>4

\* A tag call takes from the image what the desired resource lacks, and adds
\* what the image lacks; it is never told to take a tag of AWS.
LEMMA TagCallType == TypeInv /\ (UntagResource \/ TagResource) => TypeInv'
<1> SUFFICES ASSUME TypeInv, UntagResource \/ TagResource PROVE TypeInv'
  OBVIOUS
<1>1. /\ desired \in Resource /\ desired.build \in Builds
      /\ latest \in Resource /\ latest.build \in Builds
      /\ latest.tags \cap AwsTags \subseteq desired.tags
      /\ image \in Image /\ AwsTags \subseteq image.tags
  BY Typed DEF UntagResource, TagResource, WorkerBuilds, Asking, Merging,
     TypeInv, TagsMirrored, AwsTagsKept
<1>2. /\ desired.tags \in SUBSET Tags /\ image.tags \in SUBSET Tags
  BY <1>1 DEF Resource, Image
<1>3. PICK t \in SUBSET Tags : image' = [image EXCEPT !.tags = t] /\ AwsTags \subseteq t
  <2>1. CASE UntagResource
    <3>1. image.tags \ (latest.tags \ desired.tags) \in SUBSET Tags
      BY <1>2
    <3>2. QED
      BY <1>1, <2>1, <3>1 DEF UntagResource
  <2>2. CASE TagResource
    <3>1. image.tags \cup (desired.tags \ latest.tags) \in SUBSET Tags
      BY <1>2
    <3>2. QED
      BY <1>1, <2>2, <3>1 DEF TagResource
  <2>3. QED
    BY <2>1, <2>2
<1>4. image' \in Image /\ AwsTagsKept'
  BY <1>1, <1>3 DEF Image, AwsTagsKept
<1>5. TagsLead(desired, latest)
  BY AddTagsLead, AfterTagsLead DEF UntagResource, TagResource
<1>6. WorkerTyped
  BY <1>1, <1>5, TagsTyped
<1>7. QED
  BY <1>4, <1>6, Typed, AnyStep DEF UntagResource, TagResource

\* UpdateMicrovmImage asks for a version, and leaves the tags alone.
LEMMA RebuildingType ==
    ASSUME TypeInv, NEW r \in Resource, r.build \in Builds, image.state # "ABSENT",
           image' = Rebuilding(r)
    PROVE  image' \in Image /\ AwsTagsKept' /\ image'.state = "UPDATING"
<1>1. image \in Image /\ Requested(r) \in Version
  BY Typed, RequestedType
<1>2. QED
  BY <1>1 DEF Rebuilding, Image, ImageStates, TypeInv, AwsTagsKept

LEMMA UpdateType == TypeInv /\ (Update \/ UpdateAnswerLost) => TypeInv'
<1> SUFFICES ASSUME TypeInv, Update \/ UpdateAnswerLost PROVE TypeInv'
  OBVIOUS
<1>1. /\ desired \in Resource /\ desired.build \in Builds /\ latest \in Resource
      /\ image' = Rebuilding(desired) /\ image.state # "ABSENT" /\ rebuilds' \in Nat
  BY Typed DEF Update, UpdateAnswerLost, WorkerBuilds, Asking, Built
<1>2. image' \in Image /\ AwsTagsKept'
  BY <1>1, RebuildingType
<1>3. CASE Update
  <2> DEFINE a == Answered(desired, Requested(desired), "UPDATING")
             u == updateConditions(a, "none")
  <2>1. a \in Resource /\ a.build \in Builds
    BY <1>1, RequestedType, AnsweredType DEF ImageStates
  <2>2. GoTo("patch", desired, u)
    BY <1>3 DEF Update
  <2> HIDE DEF a
  <2>3. u \in Resource /\ u.build \in Builds
    BY <2>1, ConditionsType
  <2> HIDE DEF u
  <2>4. WorkerTyped
    BY <1>1, <2>2, <2>3, GoToTyped DEF PCs
  <2>5. QED
    BY <1>1, <1>2, <1>3, <2>4, Typed, AnyStep DEF Update
<1>4. CASE UpdateAnswerLost
  <2>1. WorkerTyped
    BY <1>1, <1>4, ConditionsType, SettleTyped DEF UpdateAnswerLost, Errors
  <2>2. used' \in [Kinds -> Nat]
    BY <1>4, Typed, SpendType DEF UpdateAnswerLost, Kinds
  <2>3. QED
    BY <1>1, <1>2, <1>4, <2>1, <2>2, Typed, AnyStep DEF UpdateAnswerLost
<1>5. QED
  BY <1>3, <1>4

LEMMA PatchSpecType == TypeInv /\ PatchSpec => TypeInv'
<1> SUFFICES ASSUME TypeInv, PatchSpec PROVE TypeInv'
  OBVIOUS
<1>1. cr \in Resource /\ desired \in Resource /\ latest \in Resource /\ latest.build \in Builds
  BY Typed DEF PatchSpec, WorkerBuilds, Merging
<1>2. cr' \in Resource /\ cr'.tags \subseteq UserTags /\ cr'.build \in Builds
  BY <1>1, Typed, MergeType DEF PatchSpec
<1>3. WorkerTyped
  <2>1. CASE GoTo("lateRead", Blank, latest)
    BY <1>1, <2>1, GoToTyped, BlankType DEF PCs, Asking
  <2>2. CASE Settle(latest, "none")
    BY <1>1, <2>2, SettleTyped DEF Errors
  <2>3. QED
    BY <2>1, <2>2 DEF PatchSpec
<1>4. queued' \in BOOLEAN
  BY Typed DEF PatchSpec
<1>5. QED
  BY <1>2, <1>3, <1>4, Typed, AnyStep DEF PatchSpec, aws, TypeInv, AwsTagsKept

LEMMA LateReadType == TypeInv /\ LateRead => TypeInv'
<1> SUFFICES ASSUME TypeInv, LateRead PROVE TypeInv'
  OBVIOUS
<1> DEFINE o == Observed(latest, image)
           m == mirrorAWSTags(latest, o)
           u == lateInitializeFromReadOneOutput(o, m)
<1>1. latest \in Resource /\ latest.build \in Builds
  BY Typed DEF LateRead, WorkerBuilds, Merging
<1>2. o \in Resource
  BY <1>1, FoundType DEF LateRead
<1>3. GoTo("patchLate", latest, u)
  BY DEF LateRead
<1> HIDE DEF o
<1>4. m \in Resource /\ m.build \in Builds
  BY <1>1, <1>2, MirrorType
<1> HIDE DEF m
<1>5. u \in Resource /\ u.build \in Builds
  BY <1>2, <1>4, FilledType
<1> HIDE DEF u
<1>6. WorkerTyped
  BY <1>1, <1>3, <1>5, GoToTyped DEF PCs
<1>7. QED
  BY <1>6, Typed, WorkerStep DEF LateRead

LEMMA PatchStatusType == TypeInv /\ PatchStatus => TypeInv'
<1> SUFFICES ASSUME TypeInv, PatchStatus PROVE TypeInv'
  OBVIOUS
<1> DEFINE r == ensureConditions(latest, err)
<1>1. cr \in Resource /\ r \in Resource
  BY Typed, EnsureType
<1>2. cr' = [cr EXCEPT !.arn = r.arn, !.state = r.state,
                       !.terminal = r.terminal, !.synced = r.synced]
  BY DEF PatchStatus
<1> HIDE DEF r
<1>3. cr' \in Resource /\ cr'.tags = cr.tags /\ cr'.build = cr.build
  BY <1>1, <1>2 DEF Resource
<1>4. WorkerTyped /\ timer' \in BOOLEAN
  BY Typed, RestTyped DEF PatchStatus, Requeues
<1>5. QED
  BY <1>3, <1>4, Typed, AnyStep DEF PatchStatus, aws, TypeInv, AwsTagsKept

LEMMA DelFindType == TypeInv /\ (DelFindNothing \/ DelFindImage) => TypeInv'
<1> SUFFICES ASSUME TypeInv, DelFindNothing \/ DelFindImage PROVE TypeInv'
  OBVIOUS
<1> DEFINE u == updateConditions(Observed(desired, image), "none")
<1>1. CASE DelFindNothing
  <2>1. WorkerTyped
    BY <1>1, GoToTyped, BlankType DEF DelFindNothing, PCs, Asking, Merging
  <2>2. QED
    BY <1>1, <2>1, Typed, WorkerStep DEF DelFindNothing
<1>2. CASE DelFindImage
  <2>1. u \in Resource
    BY <1>2, Typed, FoundType DEF DelFindImage
  <2>2. GoTo("delete", Blank, u) \/ Settle(updateConditions(u, "retry"), "retry")
    BY <1>2 DEF DelFindImage
  <2> HIDE DEF u
  <2>3. updateConditions(u, "retry") \in Resource
    BY <2>1, ConditionsType
  <2>4. WorkerTyped
    BY <2>1, <2>2, <2>3, GoToTyped, SettleTyped, BlankType DEF PCs, Asking, Merging, Errors
  <2>5. QED
    BY <1>2, <2>4, Typed, WorkerStep DEF DelFindImage
<1>3. QED
  BY <1>1, <1>2

\* An image that only changes its state stays an image, unless it is created.
LEMMA StateChange ==
    ASSUME TypeInv, image.state # "ABSENT", NEW m \in Image,
           image'= m, m.tags = image.tags
    PROVE  image' \in Image /\ AwsTagsKept'
BY DEF TypeInv, AwsTagsKept

LEMMA DeleteImageType == TypeInv /\ DeleteImage => TypeInv'
<1> SUFFICES ASSUME TypeInv, DeleteImage PROVE TypeInv'
  OBVIOUS
<1> DEFINE m == [image EXCEPT !.state = "DELETING"]
<1>1. m \in Image /\ m.tags = image.tags /\ image' = m
  BY Typed DEF DeleteImage, Image, ImageStates
<1> HIDE DEF m
<1>2. image' \in Image /\ AwsTagsKept'
  BY <1>1, StateChange DEF DeleteImage, Settled, Built
<1>3. WorkerTyped
  BY GoToTyped, BlankType DEF DeleteImage, PCs, Asking, Merging
<1>4. QED
  BY <1>2, <1>3, Typed, AnyStep DEF DeleteImage

LEMMA UnmanageType == TypeInv /\ Unmanage => TypeInv'
<1> SUFFICES ASSUME TypeInv, Unmanage PROVE TypeInv'
  OBVIOUS
<1>1. cr' \in Resource /\ cr'.tags = cr.tags /\ cr'.build = cr.build
  BY Typed DEF Unmanage, Resource
<1>2. WorkerTyped /\ timer' \in BOOLEAN
  BY Typed, RestTyped DEF Unmanage
<1>3. QED
  BY <1>1, <1>2, Typed, AnyStep DEF Unmanage, aws, TypeInv, AwsTagsKept

LEMMA SyncType == TypeInv /\ Sync => TypeInv'
BY Typed, FindType, ManageType, RestingType, CreateType, CreateFailsIs, TagCallType, UpdateType,
   LatestFailuresAre, FailureType, PatchSpecType, LateReadType DEF Sync, Resting

LEMMA DeleteType == TypeInv /\ Delete => TypeInv'
BY Typed, DelFindType, DeleteImageType, UnmanageType, RestingType, LatestFailuresAre, FailureType
   DEF Delete, Resting

\* The steps of users, timers and AWS leave the worker alone.
LEMMA Alone ==
    ASSUME TypeInv, UNCHANGED worker
    PROVE  WorkerTyped
BY DEF worker, TypeInv, TypeOK, WorkerTyped, WorkerBuilds, TagsMirrored, Errors

LEMMA UserType == TypeInv /\ (UserEdits \/ UserDeletes \/ TimerFires) => TypeInv'
<1> SUFFICES ASSUME TypeInv, UserEdits \/ UserDeletes \/ TimerFires PROVE TypeInv'
  OBVIOUS
<1>1. WorkerTyped /\ AwsTagsKept'
  BY Alone DEF UserEdits, UserDeletes, TimerFires, aws, TypeInv, AwsTagsKept
<1>2. /\ cr' \in Resource /\ cr'.tags \subseteq UserTags /\ cr'.build \in Builds
      /\ exists' \in BOOLEAN
  <2>1. CASE UserEdits
    BY <2>1, Typed DEF UserEdits, Resource, Tags
  <2>2. CASE UserDeletes \/ TimerFires
    BY <2>2, Typed DEF UserDeletes, TimerFires, Resource
  <2>3. QED
    BY <2>1, <2>2
<1>3. used' \in [Kinds -> Nat]
  BY Typed, SpendType DEF UserEdits, UserDeletes, TimerFires, Kinds
<1>4. QED
  BY <1>1, <1>2, <1>3, Typed, AnyStep DEF UserEdits, UserDeletes, TimerFires, aws

LEMMA CrashType == TypeInv /\ Crash => TypeInv'
<1> SUFFICES ASSUME TypeInv, Crash PROVE TypeInv'
  OBVIOUS
<1>1. WorkerTyped
  BY BlankType DEF Crash, WorkerTyped, WorkerBuilds, TagsMirrored, Asking, Merging, PCs, Errors
<1>2. used' \in [Kinds -> Nat]
  BY Typed, SpendType DEF Crash, Kinds
<1>3. QED
  BY <1>1, <1>2, Typed, WorkerStep DEF Crash

\* What AWS does to an image keeps its tags, and never brings one back.
LEMMA CloudImage ==
    ASSUME TypeInv, Finish \/ Break \/ Outside
    PROVE  \E m \in Image : image' = m /\ m.tags = image.tags /\ image.state # "ABSENT"
<1>1. image \in Image
  BY Typed
<1>2. CASE Finish
  <2>1. CASE image.state \in {"CREATING", "UPDATING"}
    BY <1>1, <1>2, <2>1 DEF Finish, MoveImage, Image, ImageStates, Settled, Built
  <2>2. CASE image.state = "DELETING"
    BY <1>1, <1>2, <2>2 DEF Finish, MoveImage, Image, ImageStates
  <2>3. QED
    BY <1>2, <2>1, <2>2 DEF Finish, MoveImage
<1>3. CASE Break
  <2>1. PICK s \in ImageStates : image' = [image EXCEPT !.state = s]
    BY <1>3 DEF Break, MoveImage, ImageStates, Settled, Built
  <2>2. image.state # "ABSENT"
    BY <1>3 DEF Break, MoveImage
  <2>3. QED
    BY <1>1, <2>1, <2>2 DEF Image
<1>4. CASE Outside
  <2>1. image.state # "ABSENT"
    BY <1>4 DEF Outside, Settled, Built
  <2>2. CASE \E v \in Version : image' = [image EXCEPT !.state = "UPDATING", !.wanted = v]
    BY <1>1, <2>1, <2>2 DEF Image, ImageStates
  <2>3. CASE image' = [image EXCEPT !.state = "DELETING"]
    BY <1>1, <2>1, <2>3 DEF Image, ImageStates
  <2>4. QED
    BY <1>4, <2>2, <2>3 DEF Outside
<1>5. QED
  BY <1>2, <1>3, <1>4

LEMMA CloudType == TypeInv /\ (Finish \/ Break \/ Outside) => TypeInv'
<1> SUFFICES ASSUME TypeInv, Finish \/ Break \/ Outside PROVE TypeInv'
  OBVIOUS
<1>1. image' \in Image /\ AwsTagsKept'
  BY CloudImage, StateChange
<1>2. UNCHANGED <<cr, exists, worker, queued, timer, rebuilds>>
  BY DEF Finish, Break, Outside, MoveImage
<1>3. WorkerTyped
  BY <1>2, Alone
<1>4. used' \in [Kinds -> Nat]
  BY Typed, SpendType DEF Finish, Break, Outside, MoveImage, Kinds
<1>5. QED
  BY <1>1, <1>2, <1>3, <1>4, Typed, AnyStep

LEMMA TypeStep == TypeInv /\ [Next]_vars => TypeInv'
<1> SUFFICES ASSUME TypeInv, [Next]_vars PROVE TypeInv'
  OBVIOUS
<1>1. CASE UNCHANGED vars
  BY <1>1 DEF vars, TypeInv, TypeOK, WorkerBuilds, TagsMirrored, AwsTagsKept
<1>2. CASE Next
  BY <1>2, DequeueType, SyncType, DeleteType, PatchStatusType, RestingType, UserType, CrashType,
     CloudType DEF Next, Worker, Resting
<1>3. QED
  BY <1>1, <1>2

LEMMA TypeInvariance == Spec => []TypeInv
BY TypeInit, TypeStep, PTL DEF Spec

\* Every reachable state is well typed; in particular no tag of AWS or of the
\* controller is ever written into a spec.
THEOREM TypeCorrect == Spec => []TypeOK
<1>1. TypeInv => TypeOK
  BY DEF TypeInv
<1>2. QED
  BY <1>1, TypeInvariance, PTL

\* No synchronization of tags takes a tag of AWS from an image.
THEOREM AwsTagsSafety == Spec => []AwsTagsKept
<1>1. TypeInv => AwsTagsKept
  BY DEF TypeInv
<1>2. QED
  BY <1>1, TypeInvariance, PTL

-----------------------------------------------------------------------------
(* The safety of the finalizer.  FinalizerGuardsImage is not inductive: the*)
(* worker removes the finalizer because of what it read before, and a user *)
(* who deletes a CR without one removes it at once.  So the finalizer must *)
(* be there whenever the CR or the worker knows an image (FinalizerHeld),  *)
(* what the worker knows must agree with the CR (ArnTracking), and without *)
(* a loss a live image is known to one of them (LiveImageOwned).           *)

\* The states of an image that is gone, or whose deletion AWS has taken.
Ended == {"ABSENT", "DELETING", "DELETE_FAILED"}

\* Where the worker may hold an image that the CR does not name yet.
Carrying == {"patch", "lateRead", "patchLate", "status"}

FinalizerHeld ==
    /\ exists /\ (cr.arn \/ cr.deleting) => cr.finalizer
    /\ pc \notin {"idle", "find", "manage"} => exists /\ cr.finalizer
    /\ pc = "find" /\ (desired.finalizer \/ desired.arn) => exists /\ cr.finalizer

ArnTracking ==
    /\ pc \in {"find", "manage", "create", "delFind"} => desired.arn = cr.arn
    /\ pc \in {"untag", "tag", "update"} => desired.arn
    /\ pc \in {"untag", "tag", "update", "patch", "lateRead", "patchLate", "delete"} => latest.arn
    /\ pc = "status" /\ cr.arn => latest.arn
    /\ pc \in {"delFind", "delete", "unmanage"} => cr.deleting
    /\ pc = "unmanage" /\ cr.arn => image.state \in Ended

LiveImageOwned ==
    NoLoss /\ image.state \notin Ended => cr.arn \/ (pc \in Carrying /\ latest.arn)

Protocol == FinalizerHeld /\ ArnTracking /\ LiveImageOwned /\ FinalizerGuardsImage

IInv == TypeInv /\ Protocol

\* No step takes a loss back.
LossStays == NoLoss' => NoLoss

LEMMA SpendStays == ASSUME TypeInv, NEW k \in Kinds, Spend(k) PROVE LossStays
BY SpendType, Typed DEF LossStays, NoLoss, Kinds

LEMMA LossShows ==
    ASSUME TypeInv, Spend("drop") \/ Spend("crash")
    PROVE  ~NoLoss'
BY SpendType, Typed DEF NoLoss, Kinds

\* Reconciliations that end, with what the worker knows on its way to the CR or
\* with nothing.
LEMMA SettleKeeps ==
    ASSUME IInv, UNCHANGED <<cr, exists, image>>, LossStays, exists, cr.finalizer,
           NEW r, NEW e, Settle(r, e), cr.arn => r.arn,
           NoLoss' /\ pc \in Carrying /\ latest.arn => r.arn
    PROVE  Protocol'
BY DEF IInv, Protocol, FinalizerHeld, ArnTracking, LiveImageOwned, FinalizerGuardsImage,
       Settle, Carrying, LossStays

LEMMA RestKeeps ==
    ASSUME IInv, UNCHANGED <<cr, exists, image>>, NEW b, Rest(b), LossStays,
           NoLoss' => pc \notin Carrying
    PROVE  Protocol'
BY DEF IInv, Protocol, FinalizerHeld, ArnTracking, LiveImageOwned, FinalizerGuardsImage,
       Rest, LossStays

\* The worker goes on, with the CR and the image as they were.
LEMMA GoToKeeps ==
    ASSUME IInv, UNCHANGED <<cr, exists, image, used>>, NEW l, NEW d, NEW r, GoTo(l, d, r),
           exists /\ cr.finalizer,
           l \in {"create", "untag", "tag", "update", "patch", "lateRead", "patchLate", "delete",
                  "unmanage"},
           l = "create" => d.arn = cr.arn,
           l \in {"untag", "tag", "update"} => d.arn,
           l \notin {"create", "unmanage"} => r.arn,
           l \in {"delete", "unmanage"} => cr.deleting,
           l = "unmanage" /\ cr.arn => image.state \in Ended,
           pc \in Carrying => l \in Carrying
    PROVE  Protocol'
BY DEF IInv, Protocol, FinalizerHeld, ArnTracking, LiveImageOwned, FinalizerGuardsImage,
       GoTo, Carrying, NoLoss

LEMMA TagsKeep ==
    ASSUME IInv, UNCHANGED <<cr, exists, image, used>>, pc \notin Carrying, exists /\ cr.finalizer,
           NEW d \in Resource, NEW l \in Resource, TagsLead(d, l), d.arn, l.arn
    PROVE  Protocol'
<1>1. /\ updateConditions(d, "none").arn
      /\ updateConditions(l, "retry").arn
  BY ConditionsType DEF Same
<1>2. LossStays
  BY DEF LossStays, NoLoss
<1>3. CASE \E p \in {"untag", "tag", "update"} : GoTo(p, d, l)
  BY <1>3, GoToKeeps
<1>4. CASE GoTo("patch", d, updateConditions(d, "none"))
  BY <1>1, <1>4, GoToKeeps
<1>5. CASE Settle(updateConditions(l, "retry"), "retry")
  BY <1>1, <1>2, <1>5, SettleKeeps
<1>6. QED
  BY <1>3, <1>4, <1>5 DEF TagsLead

LEMMA FindKeeps == IInv /\ (FindNothing \/ FindImage \/ FindFails) => Protocol'
<1> SUFFICES ASSUME IInv, FindNothing \/ FindImage \/ FindFails PROVE Protocol'
  OBVIOUS
<1>1. TypeInv /\ desired \in Resource /\ desired.arn = cr.arn /\ pc = "find"
  BY Typed DEF IInv, Protocol, ArnTracking, FindNothing, FindImage, FindFails
<1>2. CASE FindNothing
  <2>1. CASE desired.finalizer
    <3>1. GoTo("create", desired, Blank) /\ exists /\ cr.finalizer
      BY <1>2, <2>1 DEF FindNothing, IInv, Protocol, FinalizerHeld
    <3>2. QED
      BY <1>1, <1>2, <3>1, GoToKeeps DEF FindNothing, aws, Carrying
  <2>2. CASE ~desired.finalizer
    <3>1. GoTo("manage", desired, Blank)
      BY <1>2, <2>2 DEF FindNothing
    <3>2. QED
      BY <1>1, <1>2, <3>1 DEF FindNothing, aws, GoTo, IInv, Protocol, FinalizerHeld, ArnTracking,
         LiveImageOwned, FinalizerGuardsImage, Carrying, NoLoss
  <2>3. QED
    BY <2>1, <2>2
<1>3. CASE FindImage
  <2> DEFINE r == updateConditions(Observed(desired, image), "none")
             d == mirrorAWSTags(desired, r)
  <2>1. r \in Resource /\ r.arn /\ desired.arn
    BY <1>1, <1>3, FoundType DEF FindImage
  <2>2. RemoveTags(d, r) \/ GoTo("lateRead", Blank, r)
    BY <1>3 DEF FindImage
  <2> HIDE DEF r
  <2>3. d \in Resource /\ d.arn
    BY <1>1, <2>1, MirrorType DEF Same
  <2> HIDE DEF d
  <2>4. exists /\ cr.finalizer /\ pc \notin Carrying /\ UNCHANGED <<cr, exists, image, used>>
    BY <1>1, <1>3, <2>1 DEF IInv, Protocol, FinalizerHeld, Carrying, FindImage, aws
  <2>5. CASE RemoveTags(d, r)
    BY <2>1, <2>3, <2>4, <2>5, RemoveTagsLead, TagsKeep
  <2>6. CASE GoTo("lateRead", Blank, r)
    BY <2>1, <2>4, <2>6, GoToKeeps
  <2>7. QED
    BY <2>2, <2>5, <2>6
<1>4. CASE FindFails
  <2>1. PICK e : Settle(updateConditions(desired, e), e)
    BY <1>4 DEF FindFails, Failed
  <2>2. updateConditions(desired, e).arn /\ exists /\ cr.finalizer
    BY <1>1, <1>4, ConditionsType DEF FindFails, Same, IInv, Protocol, FinalizerHeld
  <2>3. LossStays
    BY <1>1, <1>4, SpendStays DEF FindFails, Failed, Kinds
  <2>4. QED
    BY <1>1, <1>4, <2>1, <2>2, <2>3, SettleKeeps DEF FindFails, aws, Carrying
<1>5. QED
  BY <1>2, <1>3, <1>4

\* A call that failed reports what the worker knew before.
LEMMA FailureKeeps ==
    ASSUME IInv, NEW r \in Resource, Failure(r), exists, cr.finalizer,
           cr.arn => r.arn, pc \in Carrying /\ latest.arn => r.arn
    PROVE  Protocol'
<1>1. LossStays
  <2>1. CASE used' = used
    BY <2>1 DEF LossStays, NoLoss
  <2>2. CASE \E k \in Kinds : Spend(k)
    BY <2>2, SpendStays DEF IInv
  <2>3. QED
    BY <2>1, <2>2 DEF Failure, Fails
<1>2. PICK e \in Errors : Settle(r, e) \/ Settle(updateConditions(r, e), e)
  BY DEF Failure, Fails
<1>3. updateConditions(r, e).arn = r.arn
  BY ConditionsType DEF Same
<1>4. UNCHANGED <<cr, exists, image>>
  BY DEF Failure, aws
<1>5. CASE Settle(r, e)
  BY <1>1, <1>4, <1>5, SettleKeeps
<1>6. CASE Settle(updateConditions(r, e), e)
  BY <1>1, <1>3, <1>4, <1>6, SettleKeeps
<1>7. QED
  BY <1>2, <1>5, <1>6

LatestFailures == TagCallFails \/ UpdateFails \/ PatchSpecFails \/ LateReadFails \/ DeleteFails

LEMMA FailuresKeep == IInv /\ (CreateFails \/ LatestFailures) => Protocol'
<1> SUFFICES ASSUME IInv, CreateFails \/ LatestFailures PROVE Protocol'
  OBVIOUS
<1>1. desired \in Resource /\ latest \in Resource
  BY Typed DEF IInv
<1>2. exists /\ cr.finalizer
  BY DEF IInv, Protocol, FinalizerHeld, CreateFails, LatestFailures, TagCallFails, UpdateFails,
     PatchSpecFails, LateReadFails, DeleteFails
<1>3. CASE CreateFails
  <2>1. desired.arn = cr.arn /\ pc \notin Carrying
    BY <1>3 DEF CreateFails, IInv, Protocol, ArnTracking, Carrying
  <2>2. QED
    BY <1>1, <1>2, <1>3, <2>1, CreateFailsIs, FailureKeeps
<1>4. CASE LatestFailures
  <2>1. latest.arn
    BY <1>4 DEF LatestFailures, TagCallFails, UpdateFails, PatchSpecFails, LateReadFails,
       DeleteFails, IInv, Protocol, ArnTracking
  <2>2. QED
    BY <1>1, <1>2, <1>4, <2>1, LatestFailuresAre, FailureKeeps DEF LatestFailures
<1>5. QED
  BY <1>3, <1>4

LEMMA RestingKeeps == IInv /\ Resting => Protocol'
<1> SUFFICES ASSUME IInv, Resting PROVE Protocol'
  OBVIOUS
<1>1. PICK b \in BOOLEAN, k \in Kinds : Rest(b) /\ Spend(k) /\ UNCHANGED <<cr, exists, image>>
  BY RestingIs DEF aws
<1>2. LossStays
  BY <1>1, SpendStays DEF IInv
<1>3. NoLoss' => pc \notin Carrying
  BY LossShows DEF IInv, Resting, ManageFails, PatchStatusFails, DelFindFails, UnmanageFails, Carrying
<1>4. QED
  BY <1>1, <1>2, <1>3, RestKeeps

LEMMA ManageKeeps == IInv /\ Manage => Protocol'
<1> SUFFICES ASSUME IInv, Manage PROVE Protocol'
  OBVIOUS
<1>1. cr \in Resource /\ desired \in Resource /\ desired.arn = cr.arn
  BY Typed DEF IInv, Protocol, ArnTracking, Manage
<1>2. CASE exists
  <2>1. /\ cr'.finalizer /\ cr'.arn = cr.arn
        /\ [desired EXCEPT !.finalizer = TRUE].arn = cr.arn
    BY <1>1, <1>2 DEF Manage, Resource
  <2>2. GoTo("create", [desired EXCEPT !.finalizer = TRUE], Blank) /\ UNCHANGED <<exists, image, used>>
    BY <1>2 DEF Manage, aws
  <2>3. QED
    BY <1>2, <2>1, <2>2 DEF Manage, GoTo, IInv, Protocol, FinalizerHeld, ArnTracking,
       LiveImageOwned, FinalizerGuardsImage, Carrying, NoLoss
<1>3. CASE ~exists
  BY <1>3, RestKeeps DEF Manage, aws, Carrying, LossStays, NoLoss
<1>4. QED
  BY <1>2, <1>3

LEMMA CreateKeeps == IInv /\ (Create \/ CreateAnswerLost) => Protocol'
<1> SUFFICES ASSUME IInv, Create \/ CreateAnswerLost PROVE Protocol'
  OBVIOUS
<1>1. /\ desired \in Resource /\ desired.build \in Builds /\ desired.arn = cr.arn
      /\ exists /\ cr.finalizer /\ UNCHANGED <<cr, exists>>
  BY Typed DEF IInv, TypeInv, WorkerBuilds, Asking, Protocol, FinalizerHeld, ArnTracking,
     Create, CreateAnswerLost
<1>2. CASE Create
  <2> DEFINE a == Answered(desired, Requested(desired), "CREATING")
             b == [a EXCEPT !.arn = TRUE, !.tags = @ \cup AwsTags]
             u == updateConditions(b, "none")
  <2>1. a \in Resource
    BY <1>1, RequestedType, AnsweredType DEF ImageStates
  <2>2. GoTo("patch", desired, u) /\ used' = used
    BY <1>2 DEF Create
  <2> HIDE DEF a
  <2>3. b \in Resource /\ b.arn
    BY <2>1 DEF Resource, Tags
  <2> HIDE DEF b
  <2>4. u.arn
    BY <2>3, ConditionsType DEF Same
  <2> HIDE DEF u
  <2>5. QED
    BY <1>1, <2>2, <2>4 DEF GoTo, IInv, Protocol, FinalizerHeld, ArnTracking,
       LiveImageOwned, FinalizerGuardsImage, Carrying
<1>3. CASE CreateAnswerLost
  <2>1. Settle(updateConditions(desired, "retry"), "retry") /\ ~NoLoss'
    BY <1>3, LossShows DEF CreateAnswerLost, IInv
  <2>2. updateConditions(desired, "retry").arn = cr.arn
    BY <1>1, ConditionsType DEF Same
  <2>3. QED
    BY <1>1, <2>1, <2>2 DEF Settle, IInv, Protocol, FinalizerHeld, ArnTracking,
       LiveImageOwned, FinalizerGuardsImage
<1>4. QED
  BY <1>2, <1>3

\* A step that changes the image, but not whether its deletion was taken.
LEMMA SameEnd ==
    ASSUME IInv, UNCHANGED <<cr, exists, worker>>, LossStays,
           image.state \in Ended <=> image'.state \in Ended
    PROVE  Protocol'
<1>1. /\ cr' = cr /\ exists' = exists /\ pc' = pc /\ desired' = desired /\ latest' = latest
  BY DEF worker
<1>2. FinalizerHeld'
  BY <1>1 DEF IInv, Protocol, FinalizerHeld
<1>3. ArnTracking'
  BY <1>1 DEF IInv, Protocol, ArnTracking
<1>4. LiveImageOwned'
  BY <1>1 DEF IInv, Protocol, LiveImageOwned, LossStays
<1>5. FinalizerGuardsImage'
  BY <1>1 DEF IInv, Protocol, FinalizerGuardsImage, LossStays, Ended
<1>6. QED
  BY <1>2, <1>3, <1>4, <1>5 DEF Protocol

LEMMA TagCallsKeep == IInv /\ (UntagResource \/ TagResource) => Protocol'
<1> SUFFICES ASSUME IInv, UntagResource \/ TagResource PROVE Protocol'
  OBVIOUS
<1>1. /\ desired \in Resource /\ desired.arn /\ latest \in Resource /\ latest.arn
      /\ exists /\ cr.finalizer /\ UNCHANGED <<cr, exists, used>>
      /\ pc \in {"untag", "tag"} /\ image \in Image
  BY Typed DEF IInv, Protocol, FinalizerHeld, ArnTracking, UntagResource, TagResource
<1>2. image'.state = image.state
  BY <1>1 DEF UntagResource, TagResource, Image
<1>3. /\ updateConditions(desired, "none").arn
      /\ updateConditions(latest, "retry").arn
  BY <1>1, ConditionsType DEF Same
<1>4. TagsLead(desired, latest)
  BY AddTagsLead, AfterTagsLead DEF UntagResource, TagResource
<1>5. /\ exists' /\ cr'.finalizer /\ cr'.arn = cr.arn
      /\ NoLoss' /\ image'.state \notin Ended => cr'.arn
  BY <1>1, <1>2 DEF IInv, Protocol, LiveImageOwned, Carrying, NoLoss
<1>6. CASE \E p \in {"untag", "tag", "update"} : GoTo(p, desired, latest)
  BY <1>1, <1>5, <1>6
     DEF GoTo, Protocol, FinalizerHeld, ArnTracking, LiveImageOwned, FinalizerGuardsImage
<1>7. CASE GoTo("patch", desired, updateConditions(desired, "none"))
  BY <1>1, <1>3, <1>5, <1>7
     DEF GoTo, Protocol, FinalizerHeld, ArnTracking, LiveImageOwned, FinalizerGuardsImage
<1>8. CASE Settle(updateConditions(latest, "retry"), "retry")
  BY <1>1, <1>3, <1>5, <1>8
     DEF Settle, Protocol, FinalizerHeld, ArnTracking, LiveImageOwned, FinalizerGuardsImage
<1>9. QED
  BY <1>4, <1>6, <1>7, <1>8 DEF TagsLead

LEMMA UpdateKeeps == IInv /\ (Update \/ UpdateAnswerLost) => Protocol'
<1> SUFFICES ASSUME IInv, Update \/ UpdateAnswerLost PROVE Protocol'
  OBVIOUS
<1>1. /\ desired \in Resource /\ desired.build \in Builds /\ desired.arn
      /\ latest \in Resource /\ latest.arn
      /\ exists /\ cr.finalizer /\ UNCHANGED <<cr, exists>> /\ image.state \notin Ended
  BY Typed DEF IInv, TypeInv, WorkerBuilds, Asking, Protocol, FinalizerHeld, ArnTracking,
     Update, UpdateAnswerLost, Built, Ended
<1>2. CASE Update
  <2> DEFINE a == Answered(desired, Requested(desired), "UPDATING")
             u == updateConditions(a, "none")
  <2>1. a \in Resource /\ a.arn
    BY <1>1, RequestedType, AnsweredType DEF ImageStates, Same
  <2>2. GoTo("patch", desired, u) /\ used' = used
    BY <1>2 DEF Update
  <2> HIDE DEF a
  <2>3. u.arn
    BY <2>1, ConditionsType DEF Same
  <2> HIDE DEF u
  <2>4. QED
    BY <1>1, <2>2, <2>3 DEF GoTo, IInv, Protocol, FinalizerHeld, ArnTracking,
       LiveImageOwned, FinalizerGuardsImage, Carrying
<1>3. CASE UpdateAnswerLost
  <2>1. Settle(updateConditions(latest, "retry"), "retry") /\ ~NoLoss'
    BY <1>3, LossShows DEF UpdateAnswerLost, IInv
  <2>2. updateConditions(latest, "retry").arn
    BY <1>1, ConditionsType DEF Same
  <2>3. QED
    BY <1>1, <2>1, <2>2 DEF Settle, IInv, Protocol, FinalizerHeld, ArnTracking,
       LiveImageOwned, FinalizerGuardsImage
<1>4. QED
  BY <1>2, <1>3

LEMMA PatchSpecKeeps == IInv /\ PatchSpec => Protocol'
<1> SUFFICES ASSUME IInv, PatchSpec PROVE Protocol'
  OBVIOUS
<1>1. /\ cr \in Resource /\ desired \in Resource /\ latest \in Resource /\ latest.build \in Builds
      /\ cr.tags \subseteq UserTags /\ cr.build \in Builds
  BY Typed DEF IInv, PatchSpec, WorkerBuilds, Merging
<1>2. Same(cr', cr)
  BY <1>1, MergeType DEF PatchSpec
<1>3. latest.arn /\ exists /\ cr.finalizer /\ pc \in Carrying /\ UNCHANGED <<exists, image, used>>
  BY DEF PatchSpec, aws, IInv, Protocol, FinalizerHeld, ArnTracking, Carrying
<1>4. pc' \in {"lateRead", "status"} /\ latest' = latest
  BY DEF PatchSpec, GoTo, Settle
<1>5. QED
  BY <1>2, <1>3, <1>4 DEF Same, Protocol, FinalizerHeld, ArnTracking,
     LiveImageOwned, FinalizerGuardsImage, Carrying

LEMMA LateReadKeeps == IInv /\ LateRead => Protocol'
<1> SUFFICES ASSUME IInv, LateRead PROVE Protocol'
  OBVIOUS
<1> DEFINE o == Observed(latest, image)
           m == mirrorAWSTags(latest, o)
           u == lateInitializeFromReadOneOutput(o, m)
<1>1. latest \in Resource /\ latest.arn /\ exists /\ cr.finalizer
  BY Typed DEF IInv, Protocol, FinalizerHeld, ArnTracking, LateRead
<1>2. o \in Resource
  BY <1>1, FoundType DEF LateRead, IInv
<1>3. GoTo("patchLate", latest, u) /\ UNCHANGED <<cr, exists, image, used>>
  BY DEF LateRead, aws
<1> HIDE DEF o
<1>4. m \in Resource /\ m.arn
  BY <1>1, <1>2, MirrorType DEF Same
<1> HIDE DEF m
<1>5. u.arn
  BY <1>2, <1>4, FilledType DEF Same
<1> HIDE DEF u
<1>6. QED
  BY <1>1, <1>3, <1>5, GoToKeeps DEF Carrying

\* The status patch stores the ARN the worker holds, and never erases one.
LEMMA PatchStatusKeeps == IInv /\ PatchStatus => Protocol'
<1> SUFFICES ASSUME IInv, PatchStatus PROVE Protocol'
  OBVIOUS
<1>1. /\ cr \in Resource /\ latest \in Resource /\ exists /\ cr.finalizer
      /\ cr.arn => latest.arn
  BY Typed DEF IInv, Protocol, FinalizerHeld, ArnTracking, PatchStatus
<1>2. ensureConditions(latest, err).arn = latest.arn
  BY <1>1, EnsureType DEF Same
<1>3. /\ cr'.arn = latest.arn /\ cr'.finalizer = cr.finalizer
      /\ pc' = "idle" /\ UNCHANGED <<exists, image, used>>
  BY <1>1, <1>2 DEF PatchStatus, Rest, aws, Resource
<1>4. QED
  BY <1>1, <1>3 DEF IInv, Protocol, FinalizerHeld, ArnTracking,
     LiveImageOwned, FinalizerGuardsImage, NoLoss

LEMMA DeleteKeeps == IInv /\ (DelFindNothing \/ DelFindImage \/ DeleteImage \/ Unmanage) => Protocol'
<1> SUFFICES ASSUME IInv, DelFindNothing \/ DelFindImage \/ DeleteImage \/ Unmanage
             PROVE  Protocol'
  OBVIOUS
<1>1. /\ cr \in Resource /\ desired \in Resource /\ image \in Image
      /\ exists /\ cr.finalizer /\ cr.deleting /\ pc \notin Carrying
      /\ pc = "delFind" => desired.arn = cr.arn
  BY Typed DEF IInv, Protocol, FinalizerHeld, ArnTracking, Carrying,
     DelFindNothing, DelFindImage, DeleteImage, Unmanage
<1>2. CASE DelFindNothing
  <2>1. GoTo("unmanage", Blank, Blank) /\ UNCHANGED <<cr, exists, image, used>>
    BY <1>2 DEF DelFindNothing, aws
  <2>2. cr.arn => image.state \in Ended
    BY <1>1, <1>2 DEF DelFindNothing, NotFound, Ended
  <2>3. QED
    BY <1>1, <2>1, <2>2, GoToKeeps
<1>3. CASE DelFindImage
  <2> DEFINE u == updateConditions(Observed(desired, image), "none")
  <2>1. u \in Resource /\ u.arn
    BY <1>1, <1>3, FoundType DEF DelFindImage, IInv
  <2>2. /\ GoTo("delete", Blank, u) \/ Settle(updateConditions(u, "retry"), "retry")
        /\ UNCHANGED <<cr, exists, image, used>>
    BY <1>3 DEF DelFindImage, aws
  <2> HIDE DEF u
  <2>3. updateConditions(u, "retry").arn
    BY <2>1, ConditionsType DEF Same
  <2>4. LossStays
    BY <2>2 DEF LossStays, NoLoss
  <2>5. QED
    BY <1>1, <2>1, <2>2, <2>3, <2>4, GoToKeeps, SettleKeeps
<1>4. CASE DeleteImage
  <2>1. image'.state = "DELETING"
    BY <1>1, <1>4 DEF DeleteImage, Image
  <2>2. QED
    BY <1>1, <1>4, <2>1 DEF DeleteImage, GoTo, Protocol, FinalizerHeld, ArnTracking,
       LiveImageOwned, FinalizerGuardsImage, Ended
<1>5. CASE Unmanage
  <2>1. /\ cr'.arn = cr.arn /\ ~exists' /\ pc' = "idle" /\ UNCHANGED <<image, used>>
        /\ (cr.arn \/ NoLoss) => image.state \in Ended
    BY <1>1, <1>5 DEF Unmanage, Rest, aws, Resource, IInv, Protocol, ArnTracking, LiveImageOwned
  <2>2. QED
    BY <1>1, <2>1 DEF Protocol, FinalizerHeld, ArnTracking, LiveImageOwned,
       FinalizerGuardsImage, NoLoss, Ended
<1>6. QED
  BY <1>2, <1>3, <1>4, <1>5

LEMMA DequeueKeeps == IInv /\ Dequeue => Protocol'
<1> SUFFICES ASSUME IInv, Dequeue PROVE Protocol'
  OBVIOUS
<1>1. pc = "idle" /\ UNCHANGED <<cr, exists, image, used>> /\ cr \in Resource
  BY Typed DEF Dequeue, aws, IInv
<1>2. CASE UNCHANGED worker
  BY <1>1, <1>2, SameEnd DEF LossStays, NoLoss
<1>3. CASE exists /\ cr.deleting /\ GoTo("delFind", cr, Blank)
  BY <1>1, <1>3 DEF GoTo, IInv, Protocol, FinalizerHeld, ArnTracking, LiveImageOwned,
     FinalizerGuardsImage, Carrying, NoLoss
<1>4. CASE exists /\ GoTo("find", EnsureTags(ResetConditions(cr)), Blank)
  <2> DEFINE d == EnsureTags(ResetConditions(cr))
  <2>1. d.arn = cr.arn /\ d.finalizer = cr.finalizer /\ GoTo("find", d, Blank)
    BY <1>1, <1>4, ResetType DEF Same
  <2> HIDE DEF d
  <2>2. QED
    BY <1>1, <1>4, <2>1 DEF GoTo, IInv, Protocol, FinalizerHeld, ArnTracking, LiveImageOwned,
       FinalizerGuardsImage, Carrying, NoLoss
<1>5. QED
  BY <1>2, <1>3, <1>4 DEF Dequeue

LEMMA CrashKeeps == IInv /\ Crash => Protocol'
<1> SUFFICES ASSUME IInv, Crash PROVE Protocol'
  OBVIOUS
<1>1. ~NoLoss' /\ pc' = "idle" /\ UNCHANGED <<cr, exists, image>>
  BY LossShows DEF Crash, aws, IInv
<1>2. QED
  BY <1>1 DEF IInv, Protocol, FinalizerHeld, ArnTracking, LiveImageOwned, FinalizerGuardsImage

\* A user may delete a CR at any moment; without the finalizer it is gone at once.
LEMMA UserKeeps == IInv /\ (UserEdits \/ UserDeletes \/ TimerFires) => Protocol'
<1> SUFFICES ASSUME IInv, UserEdits \/ UserDeletes \/ TimerFires PROVE Protocol'
  OBVIOUS
<1>1. cr \in Resource /\ exists \in BOOLEAN /\ TypeInv
  BY Typed DEF IInv
<1>2. pc' = pc /\ desired' = desired /\ latest' = latest /\ image' = image
  BY DEF UserEdits, UserDeletes, TimerFires, worker, aws
<1>3. LossStays
  BY <1>1, SpendStays DEF UserEdits, UserDeletes, TimerFires, Kinds, LossStays, NoLoss
<1>4. CASE UserEdits \/ TimerFires
  <2>1. Same(cr', cr) /\ exists' = exists
    BY <1>1, <1>4 DEF UserEdits, TimerFires, Resource, Same
  <2>2. QED
    BY <1>2, <1>3, <2>1 DEF Same, IInv, Protocol, FinalizerHeld, ArnTracking, LiveImageOwned,
       FinalizerGuardsImage, LossStays
<1>5. CASE UserDeletes
  <2>1. /\ cr'.deleting /\ cr'.arn = cr.arn /\ cr'.finalizer = cr.finalizer
        /\ exists /\ ~cr.deleting /\ exists' = cr.finalizer
    BY <1>1, <1>5 DEF UserDeletes, Resource
  <2>2. FinalizerHeld'
    BY <1>2, <2>1 DEF IInv, Protocol, FinalizerHeld
  <2>3. ArnTracking' /\ LiveImageOwned'
    BY <1>2, <1>3, <2>1 DEF IInv, Protocol, ArnTracking, LiveImageOwned, LossStays
  <2>4. FinalizerGuardsImage'
    BY <1>2, <1>3, <2>1 DEF IInv, Protocol, FinalizerHeld, LiveImageOwned, FinalizerGuardsImage,
       LossStays, Carrying, Ended
  <2>5. QED
    BY <2>2, <2>3, <2>4 DEF Protocol
<1>6. QED
  BY <1>4, <1>5

\* AWS ends what was asked to end, and an image that fails to go stays ended.
LEMMA CloudKeeps == IInv /\ (Finish \/ Break \/ Outside) => Protocol'
<1> SUFFICES ASSUME IInv, Finish \/ Break \/ Outside PROVE Protocol'
  OBVIOUS
<1>1. /\ pc' = pc /\ desired' = desired /\ latest' = latest /\ cr' = cr /\ exists' = exists
      /\ image \in Image /\ TypeInv
  BY Typed DEF Finish, Break, Outside, MoveImage, worker, IInv
<1>2. LossStays
  BY <1>1, SpendStays DEF Finish, Break, Outside, MoveImage, Kinds, LossStays, NoLoss
<1>3. image.state \in Ended => image'.state \in Ended
  BY <1>1 DEF Finish, Break, Outside, MoveImage, Image, Ended, Built, Settled
<1>4. FinalizerHeld' /\ ArnTracking'
  BY <1>1, <1>3 DEF IInv, Protocol, FinalizerHeld, ArnTracking
<1>5. LiveImageOwned'
  BY <1>1, <1>2, <1>3 DEF IInv, Protocol, LiveImageOwned, LossStays
<1>6. FinalizerGuardsImage'
  BY <1>1, <1>2, <1>3 DEF IInv, Protocol, FinalizerGuardsImage, LossStays, Ended
<1>7. QED
  BY <1>4, <1>5, <1>6 DEF Protocol

LEMMA ProtocolStep == IInv /\ [Next]_vars => Protocol'
<1> SUFFICES ASSUME IInv, [Next]_vars PROVE Protocol'
  OBVIOUS
<1>1. CASE UNCHANGED vars
  BY <1>1, SameEnd DEF vars, worker, LossStays, NoLoss
<1>2. CASE Next
  BY <1>2, DequeueKeeps, FindKeeps, FailuresKeep, RestingKeeps, ManageKeeps, CreateKeeps,
     TagCallsKeep, UpdateKeeps, PatchSpecKeeps, LateReadKeeps, PatchStatusKeeps, DeleteKeeps,
     CrashKeeps, UserKeeps, CloudKeeps
     DEF Next, Worker, Sync, Delete, Resting, LatestFailures
<1>3. QED
  BY <1>1, <1>2

\* The invariant of MicrovmImage, for every set of configurations, tags and disturbances.
THEOREM Invariance == Spec => []IInv
<1>1. Init => Protocol
  BY DEF Init, Blank, Protocol, FinalizerHeld, ArnTracking, LiveImageOwned, FinalizerGuardsImage, Ended
<1>2. IInv /\ [Next]_vars => IInv'
  BY TypeStep, ProtocolStep DEF IInv
<1>3. QED
  BY <1>1, <1>2, TypeInit, PTL DEF Spec, IInv

\* No CR is gone while AWS still has an image that nobody asked to delete.
THEOREM FinalizerSafety == Spec => []FinalizerGuardsImage
<1>1. IInv => FinalizerGuardsImage
  BY DEF IInv, Protocol
<1>2. QED
  BY <1>1, Invariance, PTL

-----------------------------------------------------------------------------
(* Why a rebuild has a cause.  The difference between the CR and the image *)
(* has two parts: what the CR has become since the worker read it, and     *)
(* what the worker's copy asks for beyond what AWS was last asked for.     *)
(* Each part is owed at most one rebuild.                                  *)

\* The copy the CR is compared with, and what the worker makes of it.
Basis ==
    IF pc \in Asking \cup {"patch", "patchLate"} THEN desired
    ELSE IF pc = "lateRead" THEN latest ELSE cr

Outcome ==
    IF pc \in Asking THEN desired
    ELSE IF pc \in {"patch", "lateRead", "patchLate"} THEN latest ELSE cr

\* AWS was asked for the build of r last and, unless it is at work, has built it.
Asked(r, m) ==
    \/ m.state = "ABSENT"
    \/ /\ r.build = m.wanted.build /\ r.late = m.wanted.late
       /\ m.state \in {"CREATING", "UPDATING"} \/ m.active = m.wanted

\* The worker has decided to rebuild.
Committed ==
    \/ pc = "update"
    \/ /\ pc \in {"untag", "tag"}
       /\ DifferentExceptTags(desired, latest)
       /\ latest.state \in Updatable

Unseen == DifferentExceptTags(cr, Basis)
Owed == Committed \/ ~Asked(Outcome, image)

Causes == used["edit"] + used["fail"] + used["outside"] + used["drop"] + used["crash"]

Ones(p) == IF p THEN 1 ELSE 0

RebuildsOwed == rebuilds + Ones(Unseen) + Ones(Owed) <= Causes

\* AWS was asked for every image, and one that is built has an active version.
VersionsKnown ==
    /\ image.state # "ABSENT" => image.wanted \in Version
    /\ image.state \in SyncedStates => image.active \in Version

RebuildInv == RebuildsOwed /\ VersionsKnown

-----------------------------------------------------------------------------
(* Fields that a comparison, a report and the counts depend on.            *)

LEMMA ConditionsFields ==
    ASSUME NEW r \in Resource, NEW e
    PROVE  LET u == updateConditions(r, e)
           IN /\ u.build = r.build /\ u.late = r.late /\ u.tags = r.tags
              /\ u.state = r.state /\ u.arn = r.arn /\ u.deleting = r.deleting
BY DEF updateConditions, Resource

LEMMA ResetFields ==
    ASSUME NEW r \in Resource
    PROVE  LET u == EnsureTags(ResetConditions(r))
           IN /\ u.build = r.build /\ u.late = r.late /\ u.tags = r.tags \cup AckTags
              /\ u.state = r.state /\ u.arn = r.arn /\ u.deleting = r.deleting
BY DEF EnsureTags, ResetConditions, Resource

LEMMA MirrorFields ==
    ASSUME NEW a \in Resource, NEW b
    PROVE  LET d == mirrorAWSTags(a, b)
           IN /\ d.build = a.build /\ d.late = a.late
              /\ d.tags = a.tags \cup (b.tags \cap AwsTags)
              /\ d.state = a.state /\ d.arn = a.arn /\ d.deleting = a.deleting
BY DEF mirrorAWSTags, Resource

LEMMA ObservedFields ==
    ASSUME NEW r \in Resource, NEW m \in Image
    PROVE  LET o == Observed(r, m)
           IN /\ o.tags = m.tags /\ o.state = m.state /\ o.arn /\ o.deleting = r.deleting
              /\ m.active = NoVersion => o.build = r.build /\ o.late = r.late
              /\ m.active # NoVersion => o.build = m.active.build /\ o.late = m.active.late
<1> DEFINE p == refreshSpecFromActiveVersion(r, m.active)
<1>1. /\ p \in [build : {p.build}, late : {p.late}, tags : {r.tags}, finalizer : {r.finalizer},
                deleting : {r.deleting}, arn : {r.arn}, state : {r.state},
                terminal : {r.terminal}, synced : {r.synced}]
      /\ m.active = NoVersion => p.build = r.build /\ p.late = r.late
      /\ m.active # NoVersion => p.build = m.active.build /\ p.late = m.active.late
  <2>1. CASE m.active = NoVersion
    BY <2>1 DEF refreshSpecFromActiveVersion, Resource
  <2>2. CASE m.active # NoVersion
    BY <2>2 DEF refreshSpecFromActiveVersion, Resource
  <2>3. QED
    BY <2>1, <2>2
<1>2. Observed(r, m) = [p EXCEPT !.tags = m.tags, !.state = m.state, !.arn = TRUE]
  BY DEF Observed
<1> HIDE DEF p
<1>3. QED
  BY <1>1, <1>2

LEMMA AnsweredFields ==
    ASSUME NEW r \in Resource, NEW v, NEW s
    PROVE  LET u == Answered(r, v, s)
           IN /\ u.build = v.build /\ u.late = v.late /\ u.tags = r.tags
              /\ u.state = s /\ u.arn = r.arn /\ u.deleting = r.deleting
BY DEF Answered, Resource

LEMMA FilledFields ==
    ASSUME NEW o, NEW r \in Resource
    PROVE  LET u == lateInitializeFromReadOneOutput(o, r)
           IN /\ u.build = r.build /\ u.tags = r.tags
              /\ u.late = IF r.late = NIL THEN o.late ELSE r.late
              /\ u.state = r.state /\ u.arn = r.arn /\ u.deleting = r.deleting
BY DEF lateInitializeFromReadOneOutput, Resource

\* What the spec patch leaves in the CR, if nothing was edited.
LEMMA MergeFields ==
    ASSUME NEW c \in Resource, NEW a \in Resource, NEW b \in Resource
    PROVE  LET m == MergeSpec(c, a, b)
           IN /\ m.arn = c.arn /\ m.state = c.state /\ m.deleting = c.deleting
              /\ m.synced = c.synced
              /\ m.tags = (c.tags \ (a.tags \ (b.tags \cap UserTags)))
                            \cup ((b.tags \cap UserTags) \ a.tags)
              /\ m.build = IF a.build = b.build THEN c.build ELSE b.build
              /\ m.late = IF a.late = b.late THEN c.late ELSE b.late
<1> DEFINE f == FilterSystemTags(b)
           x == IF a.build = f.build THEN c.build ELSE f.build
           y == IF a.late = f.late THEN c.late ELSE f.late
           t == (c.tags \ (a.tags \ f.tags)) \cup (f.tags \ a.tags)
<1>1. f.tags = b.tags \cap UserTags /\ f.build = b.build /\ f.late = b.late
  BY DEF FilterSystemTags, Resource
<1>2. MergeSpec(c, a, b) = [c EXCEPT !.build = x, !.late = y, !.tags = t]
  BY DEF MergeSpec
<1> HIDE DEF f
<1>3. /\ x = IF a.build = b.build THEN c.build ELSE b.build
      /\ y = IF a.late = b.late THEN c.late ELSE b.late
      /\ t = (c.tags \ (a.tags \ (b.tags \cap UserTags))) \cup ((b.tags \cap UserTags) \ a.tags)
  BY <1>1
<1> HIDE DEF x, y, t
<1>4. QED
  BY <1>2, <1>3 DEF Resource

\* A count that is spent, and what it causes.
CauseKinds == {"edit", "fail", "outside", "drop", "crash"}

LEMMA CausesType ==
    ASSUME TypeInv
    PROVE  Causes \in Nat
BY Typed DEF Causes, Kinds

LEMMA SpendCauses ==
    ASSUME TypeInv, NEW k \in Kinds, Spend(k)
    PROVE  /\ Causes' \in Nat
           /\ k \in CauseKinds => Causes' = Causes + 1
           /\ k \notin CauseKinds => Causes' = Causes
<1>1. used \in [Kinds -> Nat] /\ used' = [used EXCEPT ![k] = @ + 1]
  BY Typed DEF Spend
<1>2. /\ used'[k] = used[k] + 1
      /\ \A j \in Kinds \ {k} : used'[j] = used[j]
      /\ \A j \in Kinds : used[j] \in Nat /\ used'[j] \in Nat
  BY <1>1
<1>3. /\ used["edit"] \in Nat /\ used["fail"] \in Nat /\ used["outside"] \in Nat
      /\ used["drop"] \in Nat /\ used["crash"] \in Nat
  BY <1>2 DEF Kinds
<1>4. CASE k = "edit"
  <2>1. /\ used'["edit"] = used["edit"] + 1
        /\ used'["fail"] = used["fail"] /\ used'["outside"] = used["outside"]
        /\ used'["drop"] = used["drop"] /\ used'["crash"] = used["crash"]
    BY <1>2, <1>4 DEF Kinds
  <2>2. k \in CauseKinds
    BY <1>4 DEF CauseKinds
  <2>3. QED
    BY <1>3, <2>1, <2>2 DEF Causes
<1>5. CASE k = "fail"
  <2>1. /\ used'["fail"] = used["fail"] + 1
        /\ used'["edit"] = used["edit"] /\ used'["outside"] = used["outside"]
        /\ used'["drop"] = used["drop"] /\ used'["crash"] = used["crash"]
    BY <1>2, <1>5 DEF Kinds
  <2>2. k \in CauseKinds
    BY <1>5 DEF CauseKinds
  <2>3. QED
    BY <1>3, <2>1, <2>2 DEF Causes
<1>6. CASE k = "outside"
  <2>1. /\ used'["outside"] = used["outside"] + 1
        /\ used'["edit"] = used["edit"] /\ used'["fail"] = used["fail"]
        /\ used'["drop"] = used["drop"] /\ used'["crash"] = used["crash"]
    BY <1>2, <1>6 DEF Kinds
  <2>2. k \in CauseKinds
    BY <1>6 DEF CauseKinds
  <2>3. QED
    BY <1>3, <2>1, <2>2 DEF Causes
<1>7. CASE k = "drop"
  <2>1. /\ used'["drop"] = used["drop"] + 1
        /\ used'["edit"] = used["edit"] /\ used'["fail"] = used["fail"]
        /\ used'["outside"] = used["outside"] /\ used'["crash"] = used["crash"]
    BY <1>2, <1>7 DEF Kinds
  <2>2. k \in CauseKinds
    BY <1>7 DEF CauseKinds
  <2>3. QED
    BY <1>3, <2>1, <2>2 DEF Causes
<1>8. CASE k = "crash"
  <2>1. /\ used'["crash"] = used["crash"] + 1
        /\ used'["edit"] = used["edit"] /\ used'["fail"] = used["fail"]
        /\ used'["outside"] = used["outside"] /\ used'["drop"] = used["drop"]
    BY <1>2, <1>8 DEF Kinds
  <2>2. k \in CauseKinds
    BY <1>8 DEF CauseKinds
  <2>3. QED
    BY <1>3, <2>1, <2>2 DEF Causes
<1>9. CASE k \notin CauseKinds
  BY <1>2, <1>3, <1>9 DEF Causes, Kinds, CauseKinds
<1>10. QED
  BY <1>4, <1>5, <1>6, <1>7, <1>8, <1>9 DEF CauseKinds

\* No step takes a cause, a loss or the deletion of the CR back.
Frame ==
    /\ used' \in [Kinds -> Nat]
    /\ Causes' \in Nat /\ Causes' >= Causes
    /\ \A k \in Kinds : used'[k] = 0 => used[k] = 0

LEMMA FrameStep ==
    ASSUME TypeInv, [Next]_vars
    PROVE  Frame
<1>1. used \in [Kinds -> Nat] /\ Causes \in Nat
  BY Typed, CausesType
<1>2. ASSUME NEW k \in Kinds, Spend(k)
      PROVE  Frame
  <2>1. Causes' \in Nat /\ (Causes' = Causes + 1 \/ Causes' = Causes)
    BY <1>2, SpendCauses
  <2>2. Causes' >= Causes
    BY <1>1, <2>1
  <2>3. QED
    BY <1>1, <1>2, <2>1, <2>2, SpendType DEF Frame
<1>3. CASE UNCHANGED used
  <2>1. Causes' = Causes
    BY <1>3 DEF Causes
  <2>2. QED
    BY <1>1, <1>3, <2>1 DEF Frame
<1>4. UNCHANGED used \/ \E k \in Kinds : Spend(k)
  BY DEF Next, Worker, Sync, Delete, Dequeue, FindNothing, FindImage, FindFails, Manage, ManageFails,
     Create, CreateFails, CreateAnswerLost, UntagResource, TagResource, TagCallFails, Update,
     UpdateFails, UpdateAnswerLost, PatchSpec, PatchSpecFails, LateRead, LateReadFails,
     PatchStatus, PatchStatusFails, DelFindNothing, DelFindImage, DelFindFails, DeleteImage,
     DeleteFails, Unmanage, UnmanageFails, TimerFires, Crash, UserEdits, UserDeletes, Finish,
     Break, Outside, MoveImage, Failed, Kinds, vars
<1>5. QED
  BY <1>2, <1>3, <1>4

-----------------------------------------------------------------------------
(* No step owes a rebuild that has no cause.                               *)

\* Where the worker compares nothing with the CR any more.
AtCR == {"idle", "status", "delFind", "delete", "unmanage"}

LEMMA Counted ==
    ASSUME TypeInv, RebuildsOwed, Frame, rebuilds' = rebuilds,
           Unseen' /\ Owed' => Unseen /\ Owed,
           Unseen' \/ Owed' => Unseen \/ Owed
    PROVE  RebuildsOwed'
<1>1. rebuilds \in Nat /\ Causes \in Nat /\ Causes' \in Nat /\ Causes' >= Causes
  BY Typed, CausesType DEF Frame
<1>2. Ones(Unseen)' + Ones(Owed)' <= Ones(Unseen) + Ones(Owed)
  BY DEF Ones
<1>3. /\ Ones(Unseen) \in {0, 1} /\ Ones(Owed) \in {0, 1}
      /\ Ones(Unseen)' \in {0, 1} /\ Ones(Owed)' \in {0, 1}
  BY DEF Ones
<1>4. QED
  BY <1>1, <1>2, <1>3 DEF RebuildsOwed

\* A new cause pays for one difference.
LEMMA CauseCounted ==
    ASSUME TypeInv, RebuildsOwed, Causes' = Causes + 1, rebuilds' = rebuilds,
           Unseen' /\ Owed' => Unseen \/ Owed
    PROVE  RebuildsOwed'
<1>1. rebuilds \in Nat /\ Causes \in Nat
  BY Typed, CausesType
<1>2. Ones(Unseen)' + Ones(Owed)' <= Ones(Unseen) + Ones(Owed) + 1
  BY DEF Ones
<1>3. /\ Ones(Unseen) \in {0, 1} /\ Ones(Owed) \in {0, 1}
      /\ Ones(Unseen)' \in {0, 1} /\ Ones(Owed)' \in {0, 1}
  BY DEF Ones
<1>4. QED
  BY <1>1, <1>2, <1>3 DEF RebuildsOwed

LEMMA AskedSame ==
    ASSUME NEW r, NEW s, NEW m, NEW n, Asked(r, m), s.build = r.build, s.late = r.late,
           n.state = "ABSENT" \/ n = m
    PROVE  Asked(s, n)
BY DEF Asked

\* The CR is what counts again: whatever the worker has not seen of it is now a
\* difference with the image.
LEMMA EndCounted ==
    ASSUME TypeInv, RebuildsOwed, Frame, UNCHANGED aws, pc' \in AtCR,
           cr'.build = cr.build, cr'.late = cr.late, pc \notin {"patch", "patchLate"}
    PROVE  RebuildsOwed'
<1>1. Basis' = cr' /\ Outcome' = cr' /\ ~Committed'
  BY DEF Basis, Outcome, Committed, AtCR, Asking
<1>2. ~Unseen'
  BY <1>1 DEF Unseen, DifferentExceptTags
<1>3. Basis = Outcome
  BY DEF Basis, Outcome
<1>4. ~Unseen /\ ~Owed => ~Owed'
  <2>1. ASSUME ~Unseen, ~Owed
        PROVE  ~Owed'
    <3>1. Basis.build = cr.build /\ Basis.late = cr.late /\ Asked(Basis, image)
      BY <1>3, <2>1 DEF Unseen, Owed, DifferentExceptTags
    <3>2. Asked(cr, image)
      BY <3>1, AskedSame
    <3>3. Asked(cr', image')
      BY <3>2, AskedSame DEF aws
    <3>4. QED
      BY <1>1, <3>3 DEF Owed
  <2>2. QED
    BY <2>1
<1>5. QED
  BY <1>2, <1>4, Counted DEF aws

\* A reconciliation that ends with an error, or without a report.
Ends ==
    \/ FindFails \/ CreateFails \/ TagCallFails \/ UpdateFails \/ LateReadFails \/ DeleteFails
    \/ ManageFails \/ PatchStatusFails \/ DelFindFails \/ UnmanageFails
    \/ DelFindNothing \/ DelFindImage

LEMMA EndsCounted ==
    ASSUME TypeInv, RebuildsOwed, Frame, Ends
    PROVE  RebuildsOwed'
<1>1. UNCHANGED <<cr, aws>> /\ pc' \in AtCR /\ pc \notin {"patch", "patchLate"}
  BY DEF Ends, FindFails, CreateFails, TagCallFails, UpdateFails, LateReadFails, DeleteFails,
     ManageFails, PatchStatusFails, DelFindFails, UnmanageFails, DelFindNothing, DelFindImage,
     Failed, Settle, Rest, GoTo, AtCR
<1>2. QED
  BY <1>1, EndCounted

\* A request whose answer is lost, a patch that is lost, a crash: what follows
\* has a cause of its own.
LEMMA LossesCounted ==
    ASSUME TypeInv, RebuildsOwed, PatchSpecFails \/ CreateAnswerLost \/ UpdateAnswerLost \/ Crash
    PROVE  RebuildsOwed'
<1>1. pc' \in AtCR
  BY DEF PatchSpecFails, CreateAnswerLost, UpdateAnswerLost, Crash, Settle, AtCR
<1>2. ~Unseen'
  BY <1>1 DEF Unseen, Basis, DifferentExceptTags, AtCR, Asking
<1>3. Causes' = Causes + 1
  BY SpendCauses DEF PatchSpecFails, CreateAnswerLost, UpdateAnswerLost, Crash, Kinds, CauseKinds
<1>4. CASE UpdateAnswerLost
  <2>1. rebuilds' = rebuilds + 1 /\ Owed
    BY <1>4 DEF UpdateAnswerLost, Owed, Committed
  <2>2. rebuilds \in Nat /\ Causes \in Nat
    BY Typed, CausesType
  <2>3. rebuilds + 1 <= Causes
    BY <2>1, <2>2 DEF RebuildsOwed, Ones
  <2>4. Ones(Unseen)' = 0 /\ Ones(Owed)' \in {0, 1}
    BY <1>2 DEF Ones
  <2>5. QED
    BY <1>3, <2>1, <2>2, <2>3, <2>4 DEF RebuildsOwed
<1>5. CASE PatchSpecFails \/ CreateAnswerLost \/ Crash
  <2>1. rebuilds' = rebuilds
    BY <1>5 DEF PatchSpecFails, CreateAnswerLost, Crash, aws
  <2>2. QED
    BY <1>2, <1>3, <2>1, CauseCounted
<1>6. QED
  BY <1>4, <1>5

\* Where sdkUpdate goes once it has compared d with l, and why.
TagsDecide(d, l) ==
    \/ \E p \in {"untag", "tag"} : GoTo(p, d, l)
    \/ GoTo("update", d, l) /\ DifferentExceptTags(d, l) /\ l.state \in Updatable
    \/ GoTo("patch", d, updateConditions(d, "none")) /\ ~DifferentExceptTags(d, l)
    \/ Settle(updateConditions(l, "retry"), "retry")

LEMMA AfterTagsDecides == ASSUME NEW d, NEW l, AfterTags(d, l) PROVE TagsDecide(d, l)
BY DEF AfterTags, TagsDecide

LEMMA AddTagsDecides == ASSUME NEW d, NEW l, AddTags(d, l) PROVE TagsDecide(d, l)
BY AfterTagsDecides DEF AddTags, TagsDecide

LEMMA RemoveTagsDecides == ASSUME NEW d, NEW l, RemoveTags(d, l) PROVE TagsDecide(d, l)
BY AddTagsDecides DEF RemoveTags, TagsDecide

\* What asking for a build depends on.
SameBuilds(m, n) == n.state = m.state /\ n.wanted = m.wanted /\ n.active = m.active

LEMMA TagsCounted ==
    ASSUME TypeInv, RebuildsOwed, Frame, UNCHANGED <<cr, rebuilds>>, SameBuilds(image, image'),
           NEW d \in Resource, NEW l \in Resource, TagsDecide(d, l),
           pc \in Asking,
           d.build = desired.build, d.late = desired.late,
           DifferentExceptTags(d, l) /\ l.state \in Updatable => Owed
    PROVE  RebuildsOwed'
<1>1. Basis = desired /\ Outcome = desired
  BY DEF Basis, Outcome
<1>2. ASSUME NEW r, r.build = d.build, r.late = d.late
      PROVE  /\ DifferentExceptTags(cr, r) <=> Unseen
             /\ Asked(r, image') <=> Asked(Outcome, image)
  BY <1>1, <1>2 DEF Unseen, DifferentExceptTags, Asked, SameBuilds
<1>3. CASE \E p \in {"untag", "tag"} : GoTo(p, d, l)
  <2>1. Basis' = d /\ Outcome' = d /\ desired' = d /\ latest' = l /\ pc' \in {"untag", "tag"}
    BY <1>3 DEF GoTo, Basis, Outcome, Asking
  <2>2. Unseen' <=> Unseen
    BY <1>2, <2>1 DEF Unseen
  <2>3. Owed' => Owed
    BY <1>2, <2>1 DEF Owed, Committed
  <2>4. QED
    BY <2>2, <2>3, Counted
<1>4. CASE GoTo("update", d, l) /\ DifferentExceptTags(d, l) /\ l.state \in Updatable
  <2>1. Basis' = d
    BY <1>4 DEF GoTo, Basis, Asking
  <2>2. (Unseen' <=> Unseen) /\ Owed
    BY <1>2, <1>4, <2>1 DEF Unseen
  <2>3. QED
    BY <2>2, Counted
<1>5. CASE GoTo("patch", d, updateConditions(d, "none")) /\ ~DifferentExceptTags(d, l)
  <2> DEFINE u == updateConditions(d, "none")
  <2>1. u.build = d.build /\ u.late = d.late
    BY ConditionsFields
  <2> HIDE DEF u
  <2>2. Basis' = d /\ Outcome' = u /\ ~Committed'
    BY <1>5 DEF GoTo, Basis, Outcome, Committed, Asking, u
  <2>3. Unseen' <=> Unseen
    BY <1>2, <2>2 DEF Unseen
  <2>4. Owed' => Owed
    BY <1>2, <2>1, <2>2 DEF Owed
  <2>5. QED
    BY <2>3, <2>4, Counted
<1>6. CASE Settle(updateConditions(l, "retry"), "retry")
  <2>1. Basis' = cr /\ Outcome' = cr /\ ~Committed'
    BY <1>6 DEF Settle, Basis, Outcome, Committed, Asking
  <2>2. ~Unseen'
    BY <2>1 DEF Unseen, DifferentExceptTags
  <2>3. ~Unseen /\ ~Owed => ~Owed'
    <3>1. ~Unseen => cr.build = d.build /\ cr.late = d.late
      BY <1>1 DEF Unseen, DifferentExceptTags
    <3>2. ~Owed => Asked(Outcome, image)
      BY DEF Owed
    <3>3. ~Unseen => (Asked(cr, image') <=> Asked(Outcome, image))
      BY <1>2, <3>1
    <3>4. QED
      BY <2>1, <3>2, <3>3 DEF Owed
  <2>4. QED
    BY <2>2, <2>3, Counted
<1>7. QED
  BY <1>3, <1>4, <1>5, <1>6 DEF TagsDecide

LEMMA DequeueCounted ==
    ASSUME TypeInv, RebuildsOwed, Frame, Dequeue
    PROVE  RebuildsOwed'
<1>1. cr \in Resource /\ pc = "idle" /\ UNCHANGED <<cr, aws>>
  BY Typed DEF Dequeue
<1>2. CASE UNCHANGED worker \/ GoTo("delFind", cr, Blank)
  <2>1. pc' \in AtCR
    BY <1>1, <1>2 DEF worker, GoTo, AtCR
  <2>2. QED
    BY <1>1, <2>1, EndCounted
<1>3. CASE GoTo("find", EnsureTags(ResetConditions(cr)), Blank)
  <2> DEFINE d == EnsureTags(ResetConditions(cr))
  <2>1. d.build = cr.build /\ d.late = cr.late
    BY <1>1, ResetFields
  <2> HIDE DEF d
  <2>2. Basis' = d /\ Outcome' = d /\ ~Committed'
    BY <1>3 DEF GoTo, Basis, Outcome, Committed, Asking, d
  <2>3. Outcome = cr
    BY <1>1 DEF Outcome, Asking
  <2>4. ~Unseen'
    BY <1>1, <2>1, <2>2 DEF Unseen, DifferentExceptTags
  <2>5. Owed' => Owed
    BY <1>1, <2>1, <2>2, <2>3 DEF Owed, Asked, aws
  <2>6. QED
    BY <1>1, <2>4, <2>5, Counted DEF aws
<1>4. QED
  BY <1>2, <1>3 DEF Dequeue

\* A difference with an image that takes an update is one that AWS was not
\* asked to build: the active version is the one last asked for.
LEMMA FindCounted ==
    ASSUME TypeInv, RebuildInv, Frame, FindNothing \/ FindImage
    PROVE  RebuildsOwed'
<1>1. /\ desired \in Resource /\ image \in Image /\ cr \in Resource
      /\ pc = "find" /\ UNCHANGED <<cr, aws, used>> /\ RebuildsOwed
      /\ Basis = desired /\ Outcome = desired
  BY Typed DEF FindNothing, FindImage, RebuildInv, Basis, Outcome, Asking
<1>2. CASE FindNothing
  <2>1. Basis' = desired /\ Outcome' = desired /\ ~Committed'
    BY <1>2 DEF FindNothing, GoTo, Basis, Outcome, Committed, Asking
  <2>2. (Unseen' <=> Unseen) /\ (Owed' => Owed)
    BY <1>1, <2>1 DEF Unseen, Owed, aws
  <2>3. QED
    BY <1>1, <2>2, Counted DEF aws
<1>3. CASE FindImage
  <2> DEFINE o == Observed(desired, image)
             r == updateConditions(o, "none")
             d == mirrorAWSTags(desired, r)
  <2>1. ~NotFound(desired) /\ image.state # "ABSENT"
    BY <1>3 DEF FindImage, NotFound
  <2>2. o \in Resource /\ r \in Resource
    BY <1>1, <2>1, FoundType
  <2>3. d \in Resource /\ d.build = desired.build /\ d.late = desired.late
    BY <1>1, <2>2, MirrorType, MirrorFields
  <2>4. /\ o.state = image.state
        /\ image.active = NoVersion => o.build = desired.build /\ o.late = desired.late
        /\ image.active # NoVersion => o.build = image.active.build /\ o.late = image.active.late
    BY <1>1, ObservedFields
  <2>5. r.state = o.state /\ r.build = o.build /\ r.late = o.late
    BY <2>2, ConditionsFields
  <2>6. \/ RemoveTags(d, r)
        \/ GoTo("lateRead", Blank, r) /\ ~Differ(d, r)
    BY <1>3 DEF FindImage
  <2> HIDE DEF o, r, d
  <2>7. DifferentExceptTags(d, r) /\ r.state \in Updatable => Owed
    <3>1. ASSUME DifferentExceptTags(d, r), r.state \in Updatable
          PROVE  ~Asked(desired, image)
      <4>1. image.active # NoVersion
        BY <2>3, <2>4, <2>5, <3>1 DEF DifferentExceptTags
      <4>2. desired.build # image.active.build \/ desired.late # image.active.late
        BY <2>3, <2>4, <2>5, <3>1, <4>1 DEF DifferentExceptTags
      <4>3. image.state \notin {"CREATING", "UPDATING"}
        BY <2>4, <2>5, <3>1 DEF Updatable, SyncedStates
      <4>4. QED
        BY <2>1, <4>2, <4>3 DEF Asked
    <3>2. QED
      BY <1>1, <3>1 DEF Owed
  <2>8. CASE RemoveTags(d, r)
    <3>1. TagsDecide(d, r)
      BY <2>8, RemoveTagsDecides
    <3>2. SameBuilds(image, image')
      BY <1>1 DEF SameBuilds, aws
    <3>3. QED
      BY <1>1, <2>2, <2>3, <2>7, <3>1, <3>2, TagsCounted DEF aws, Asking
  <2>9. CASE GoTo("lateRead", Blank, r) /\ ~Differ(d, r)
    <3>1. r.build = desired.build /\ r.late = desired.late
      BY <2>3, <2>9 DEF Differ, DifferentExceptTags
    <3>2. Basis' = r /\ Outcome' = r /\ ~Committed'
      BY <2>9 DEF GoTo, Basis, Outcome, Committed, Asking
    <3>3. Unseen' <=> Unseen
      BY <1>1, <3>1, <3>2 DEF Unseen, DifferentExceptTags
    <3>4. Owed' => Owed
      BY <1>1, <3>1, <3>2 DEF Owed, Asked, aws
    <3>5. QED
      BY <1>1, <3>3, <3>4, Counted DEF aws
  <2>10. QED
    BY <2>6, <2>8, <2>9
<1>4. QED
  BY <1>2, <1>3

LEMMA TagCallsCounted ==
    ASSUME TypeInv, RebuildsOwed, Frame, UntagResource \/ TagResource
    PROVE  RebuildsOwed'
<1>1. /\ desired \in Resource /\ latest \in Resource /\ image \in Image
      /\ UNCHANGED <<cr, rebuilds>> /\ pc \in {"untag", "tag"}
  BY Typed DEF UntagResource, TagResource
<1>2. SameBuilds(image, image')
  BY <1>1 DEF UntagResource, TagResource, SameBuilds, Image
<1>3. TagsDecide(desired, latest)
  BY AddTagsDecides, AfterTagsDecides DEF UntagResource, TagResource
<1>4. DifferentExceptTags(desired, latest) /\ latest.state \in Updatable => Owed
  BY <1>1 DEF Owed, Committed
<1>5. QED
  BY <1>1, <1>2, <1>3, <1>4, TagsCounted DEF Asking

LEMMA ManageCounted ==
    ASSUME TypeInv, RebuildsOwed, Frame, Manage
    PROVE  RebuildsOwed'
<1>1. cr \in Resource /\ desired \in Resource /\ pc = "manage" /\ UNCHANGED aws
  BY Typed DEF Manage
<1>2. CASE ~exists
  BY <1>1, <1>2, EndCounted DEF Manage, Rest, AtCR
<1>3. CASE exists
  <2>1. /\ pc' = "create" /\ desired' = [desired EXCEPT !.finalizer = TRUE]
        /\ cr' = [cr EXCEPT !.finalizer = TRUE]
    BY <1>3 DEF Manage, GoTo
  <2>2. /\ desired'.build = desired.build /\ desired'.late = desired.late
        /\ cr'.build = cr.build /\ cr'.late = cr.late
    BY <1>1, <2>1 DEF Resource
  <2>3. /\ Basis = desired /\ Outcome = desired /\ Basis' = desired' /\ Outcome' = desired'
        /\ ~Committed'
    BY <1>1, <2>1 DEF Basis, Outcome, Committed, Asking
  <2>4. (Unseen' <=> Unseen) /\ (Owed' => Owed)
    BY <1>1, <2>2, <2>3 DEF Unseen, DifferentExceptTags, Owed, Asked, aws
  <2>5. QED
    BY <1>1, <2>4, Counted DEF aws
<1>4. QED
  BY <1>2, <1>3

\* CreateMicrovmImage and UpdateMicrovmImage ask for what the copy has.
LEMMA RequestsCounted ==
    ASSUME TypeInv, RebuildsOwed, Frame, Create \/ Update
    PROVE  RebuildsOwed'
<1>1. /\ desired \in Resource /\ image \in Image /\ rebuilds \in Nat /\ Causes \in Nat
      /\ desired.build \in Builds /\ UNCHANGED <<cr, used>> /\ Basis = desired
  BY Typed, CausesType DEF Create, Update, Basis, Asking, WorkerBuilds
<1> DEFINE v == Requested(desired)
<1>2. ASSUME NEW b, b.build = v.build, b.late = v.late, pc' = "patch", desired' = desired,
             latest' = b, image'.wanted = v, image'.state \in {"CREATING", "UPDATING"}
      PROVE  (Unseen' <=> Unseen) /\ ~Owed'
  <2> HIDE DEF v
  <2>1. Basis' = desired /\ Outcome' = b /\ ~Committed'
    BY <1>2 DEF Basis, Outcome, Committed, Asking
  <2>2. Unseen' <=> Unseen
    BY <1>1, <2>1 DEF Unseen, DifferentExceptTags
  <2>3. Asked(b, image')
    BY <1>2 DEF Asked
  <2>4. QED
    BY <2>1, <2>2, <2>3 DEF Owed
<1>3. v \in Version
  BY <1>1, RequestedType
<1>4. CASE Create
  <2> DEFINE a == Answered(desired, v, "CREATING")
             t == [a EXCEPT !.arn = TRUE, !.tags = @ \cup AwsTags]
             b == updateConditions(t, "none")
  <2>1. a \in Resource /\ a.build = v.build /\ a.late = v.late
    BY <1>1, <1>3, AnsweredType, AnsweredFields DEF ImageStates
  <2>2. t \in Resource /\ t.build = a.build /\ t.late = a.late
    <3> HIDE DEF a
    <3>1. QED
      BY <2>1 DEF Resource, Tags
  <2>3. b.build = t.build /\ b.late = t.late
    <3> HIDE DEF t
    <3>1. QED
      BY <2>2, ConditionsFields
  <2>4. pc' = "patch" /\ desired' = desired /\ latest' = b /\ image' = Created(desired)
    BY <1>4 DEF Create, GoTo
  <2>5. image'.wanted = v /\ image'.state \in {"CREATING", "UPDATING"}
    BY <2>4 DEF Created
  <2> HIDE DEF a, t, b, v
  <2>6. (Unseen' <=> Unseen) /\ ~Owed'
    BY <1>2, <2>1, <2>2, <2>3, <2>4, <2>5
  <2>7. QED
    BY <1>4, <2>6, Counted DEF Create
<1>5. CASE Update
  <2> DEFINE a == Answered(desired, v, "UPDATING")
             b == updateConditions(a, "none")
  <2>1. a \in Resource /\ a.build = v.build /\ a.late = v.late
    BY <1>1, <1>3, AnsweredType, AnsweredFields DEF ImageStates
  <2>2. b.build = a.build /\ b.late = a.late
    <3> HIDE DEF a
    <3>1. QED
      BY <2>1, ConditionsFields
  <2>3. pc' = "patch" /\ desired' = desired /\ latest' = b /\ image' = Rebuilding(desired)
    BY <1>5 DEF Update, GoTo
  <2>4. image'.wanted = v /\ image'.state \in {"CREATING", "UPDATING"}
    BY <1>1, <2>3 DEF Rebuilding, Image
  <2> HIDE DEF a, b, v
  <2>5. (Unseen' <=> Unseen) /\ ~Owed'
    BY <1>2, <2>1, <2>2, <2>3, <2>4
  <2>6. rebuilds' = rebuilds + 1 /\ Owed /\ Causes' = Causes
    BY <1>1, <1>5 DEF Update, Owed, Committed, Causes
  <2>7. Ones(Owed) = 1 /\ Ones(Owed)' = 0 /\ Ones(Unseen)' = Ones(Unseen) /\ Ones(Unseen) \in {0, 1}
    BY <2>5, <2>6 DEF Ones
  <2>8. rebuilds + Ones(Unseen) + 1 <= Causes
    BY <2>7 DEF RebuildsOwed
  <2>9. rebuilds' + Ones(Unseen)' + Ones(Owed)' <= Causes'
    BY <1>1, <2>6, <2>7, <2>8
  <2>10. QED
    BY <2>9 DEF RebuildsOwed
<1>6. QED
  BY <1>4, <1>5

\* The spec patch gives a CR that nobody edited what AWS answered.
LEMMA PatchSpecCounted ==
    ASSUME TypeInv, RebuildsOwed, Frame, PatchSpec
    PROVE  RebuildsOwed'
<1>1. /\ cr \in Resource /\ desired \in Resource /\ latest \in Resource
      /\ UNCHANGED aws /\ cr' = MergeSpec(cr, desired, latest)
  BY Typed DEF PatchSpec
<1>2. /\ cr'.build = IF desired.build = latest.build THEN cr.build ELSE latest.build
      /\ cr'.late = IF desired.late = latest.late THEN cr.late ELSE latest.late
  <2> DEFINE m == MergeSpec(cr, desired, latest)
  <2>1. /\ m.build = IF desired.build = latest.build THEN cr.build ELSE latest.build
        /\ m.late = IF desired.late = latest.late THEN cr.late ELSE latest.late
    BY <1>1, MergeFields
  <2> HIDE DEF m
  <2>2. QED
    BY <1>1, <2>1 DEF m
<1>3. pc \in {"patch", "patchLate"} /\ Basis = desired /\ Outcome = latest
  BY DEF PatchSpec, Basis, Outcome, Asking
<1>4. ~Unseen => cr'.build = latest.build /\ cr'.late = latest.late
  BY <1>2, <1>3 DEF Unseen, DifferentExceptTags
<1>5. ~Owed => Asked(latest, image)
  BY <1>3 DEF Owed
<1>6. CASE pc = "patch"
  <2>1. Basis' = latest /\ Outcome' = latest /\ ~Committed'
    BY <1>6 DEF PatchSpec, GoTo, Basis, Outcome, Committed, Asking
  <2>2. Unseen' => Unseen
    BY <1>4, <2>1 DEF Unseen, DifferentExceptTags
  <2>3. Owed' => Owed
    BY <1>1, <1>3, <2>1 DEF Owed, Asked, aws
  <2>4. QED
    BY <1>1, <2>2, <2>3, Counted DEF aws
<1>7. CASE pc = "patchLate"
  <2>1. Basis' = cr' /\ Outcome' = cr' /\ ~Committed'
    BY <1>7 DEF PatchSpec, Settle, Basis, Outcome, Committed, Asking
  <2>2. ~Unseen'
    BY <2>1 DEF Unseen, DifferentExceptTags
  <2>3. ~Unseen /\ ~Owed => Asked(cr', image')
    BY <1>1, <1>4, <1>5 DEF Asked, aws
  <2>4. Owed' => Unseen \/ Owed
    BY <2>1, <2>3 DEF Owed
  <2>5. QED
    BY <1>1, <2>2, <2>4, Counted DEF aws
<1>8. QED
  BY <1>3, <1>6, <1>7

\* A field that is filled was omitted, and AWS was asked for no image without it.
LEMMA LateReadCounted ==
    ASSUME TypeInv, RebuildInv, Frame, LateRead
    PROVE  RebuildsOwed'
<1> DEFINE o == Observed(latest, image)
           a == mirrorAWSTags(latest, o)
           u == lateInitializeFromReadOneOutput(o, a)
<1>1. /\ latest \in Resource /\ image \in Image /\ cr \in Resource /\ RebuildsOwed
      /\ UNCHANGED <<cr, aws>> /\ image.state # "ABSENT" /\ image.wanted \in Version
      /\ Basis = latest /\ Outcome = latest
  BY Typed DEF LateRead, NotFound, RebuildInv, VersionsKnown, Basis, Outcome, Asking
<1>2. a \in Resource /\ a.build = latest.build /\ a.late = latest.late
  <2>1. o \in Resource
    BY <1>1, ObservedType
  <2>2. QED
    BY <1>1, <2>1, MirrorType, MirrorFields
<1>3. u.build = a.build /\ (a.late # NIL => u.late = a.late)
  <2> HIDE DEF a, o
  <2>1. u.build = a.build /\ u.late = IF a.late = NIL THEN o.late ELSE a.late
    BY <1>2, FilledFields
  <2> HIDE DEF u
  <2>2. QED
    BY <2>1
<1>4. GoTo("patchLate", latest, u)
  BY DEF LateRead
<1> HIDE DEF o, a, u
<1>5. Basis' = latest /\ Outcome' = u /\ ~Committed'
  BY <1>4 DEF GoTo, Basis, Outcome, Committed, Asking
<1>6. Unseen' <=> Unseen
  BY <1>1, <1>5 DEF Unseen, DifferentExceptTags
<1>7. ~Owed => Asked(latest, image)
  BY <1>1 DEF Owed
<1>8. Asked(latest, image) => Asked(u, image')
  <2>1. Asked(latest, image) => latest.late = image.wanted.late
    BY <1>1 DEF Asked
  <2>2. image.wanted.late # NIL
    BY <1>1, ImageAssumption DEF Version
  <2>3. Asked(latest, image) => u.build = latest.build /\ u.late = latest.late
    BY <1>2, <1>3, <2>1, <2>2
  <2>4. QED
    BY <1>1, <2>3 DEF Asked, aws
<1>9. Owed' => Owed
  BY <1>5, <1>7, <1>8 DEF Owed
<1>10. QED
  BY <1>1, <1>6, <1>9, Counted DEF aws

LEMMA ReportsCounted ==
    ASSUME TypeInv, RebuildsOwed, Frame, PatchStatus \/ Unmanage \/ DeleteImage
    PROVE  RebuildsOwed'
<1>1. cr \in Resource /\ image \in Image
  BY Typed
<1>2. CASE PatchStatus
  <2>1. cr'.build = cr.build /\ cr'.late = cr.late
    BY <1>1, <1>2 DEF PatchStatus, Resource
  <2>2. QED
    BY <1>2, <2>1, EndCounted DEF PatchStatus, Rest, AtCR
<1>3. CASE Unmanage
  <2>1. cr'.build = cr.build /\ cr'.late = cr.late
    BY <1>1, <1>3 DEF Unmanage, Resource
  <2>2. QED
    BY <1>3, <2>1, EndCounted DEF Unmanage, Rest, AtCR
<1>4. CASE DeleteImage
  <2>1. /\ image.state \in Settled /\ image'.state = "DELETING"
        /\ image'.wanted = image.wanted /\ image'.active = image.active
    BY <1>1, <1>4 DEF DeleteImage, Image
  <2>2. Basis = cr /\ Outcome = cr /\ Basis' = cr /\ Outcome' = cr /\ ~Committed'
    BY <1>4 DEF DeleteImage, GoTo, Basis, Outcome, Committed, Asking
  <2>3. ~Unseen'
    BY <1>4, <2>2 DEF DeleteImage, Unseen, DifferentExceptTags
  <2>4. Asked(cr, image) => Asked(cr, image')
    BY <2>1 DEF Asked, Settled, Built
  <2>5. Owed' => Owed
    BY <2>2, <2>4 DEF Owed
  <2>6. QED
    BY <1>4, <2>3, <2>5, Counted DEF DeleteImage
<1>5. QED
  BY <1>2, <1>3, <1>4

\* While the worker waits, only the CR and the image decide.
LEMMA WaitingCounted ==
    ASSUME TypeInv, UNCHANGED worker
    PROVE  /\ Committed' <=> Committed
           /\ pc \in AtCR => ~Unseen'
           /\ pc \notin AtCR => Outcome' = Outcome
           /\ UNCHANGED cr => Outcome' = Outcome /\ (Unseen' <=> Unseen)
<1>1. /\ pc' = pc /\ desired' = desired /\ latest' = latest /\ pc \in PCs
  BY Typed DEF worker
<1>2. Committed' <=> Committed
  BY <1>1 DEF Committed
<1>3. pc \in AtCR => Basis' = cr'
  BY <1>1 DEF AtCR, Basis, Asking
<1>4. pc \in AtCR => ~Unseen'
  BY <1>3 DEF Unseen, DifferentExceptTags
<1>5. pc \notin AtCR => Outcome' = Outcome
  BY <1>1 DEF AtCR, Outcome, Asking, PCs
<1>6. UNCHANGED cr => Outcome' = Outcome /\ Basis' = Basis
  BY <1>1 DEF Basis, Outcome
<1>7. UNCHANGED cr => (Unseen' <=> Unseen)
  BY <1>6 DEF Unseen
<1>8. QED
  BY <1>2, <1>4, <1>5, <1>6, <1>7

LEMMA UserCounted ==
    ASSUME TypeInv, RebuildsOwed, Frame, UserEdits \/ UserDeletes \/ TimerFires
    PROVE  RebuildsOwed'
<1>1. cr \in Resource /\ UNCHANGED <<aws, worker>>
  BY Typed DEF UserEdits, UserDeletes, TimerFires
<1>2. CASE Spend("edit")
  <2>1. Causes' = Causes + 1
    BY <1>2, SpendCauses DEF Kinds, CauseKinds
  <2>2. Unseen' /\ Owed' => Owed
    BY <1>1, WaitingCounted DEF Owed, aws
  <2>3. QED
    BY <1>1, <2>1, <2>2, CauseCounted DEF aws
<1>3. CASE cr'.build = cr.build /\ cr'.late = cr.late
  <2>1. /\ pc' = pc /\ desired' = desired /\ latest' = latest
    BY <1>1 DEF worker
  <2>2. /\ Basis'.build = Basis.build /\ Basis'.late = Basis.late
        /\ Outcome'.build = Outcome.build /\ Outcome'.late = Outcome.late
    BY <1>3, <2>1 DEF Basis, Outcome
  <2>3. (Unseen' <=> Unseen)
    BY <1>3, <2>2 DEF Unseen, DifferentExceptTags
  <2>4. Owed' <=> Owed
    BY <1>1, <2>2, WaitingCounted DEF Owed, Asked, aws
  <2>5. QED
    BY <1>1, <2>3, <2>4, Counted DEF aws
<1>4. CASE UserEdits
  <2>1. Spend("edit") \/ \E t \in SUBSET UserTags : cr' = [cr EXCEPT !.tags = t]
    BY <1>4 DEF UserEdits
  <2>2. QED
    BY <1>1, <1>2, <1>3, <2>1 DEF Resource
<1>5. CASE UserDeletes
  BY <1>1, <1>3, <1>5 DEF UserDeletes, Resource
<1>6. CASE TimerFires
  BY <1>3, <1>6 DEF TimerFires
<1>7. QED
  BY <1>4, <1>5, <1>6

LEMMA CloudCounted ==
    ASSUME TypeInv, RebuildsOwed, Frame, Finish \/ Break \/ Outside
    PROVE  RebuildsOwed'
<1>1. image \in Image /\ UNCHANGED <<cr, worker, rebuilds>>
  BY Typed DEF Finish, Break, Outside, MoveImage
<1>2. (Unseen' <=> Unseen) /\ Outcome' = Outcome /\ (Committed' <=> Committed)
  BY <1>1, WaitingCounted
<1>3. CASE Break \/ Outside
  <2>1. Causes' = Causes + 1
    BY <1>3, SpendCauses DEF Break, Outside, Kinds, CauseKinds
  <2>2. QED
    BY <1>1, <1>2, <2>1, CauseCounted
<1>4. CASE Finish
  <2>1. \/ /\ image.state \in {"CREATING", "UPDATING"}
           /\ image'.wanted = image.wanted /\ image'.active = image.wanted
        \/ image'.state = "ABSENT"
    BY <1>1, <1>4 DEF Finish, MoveImage, Image
  <2>2. Asked(Outcome, image) => Asked(Outcome', image')
    BY <1>2, <2>1 DEF Asked
  <2>3. Owed' => Owed
    BY <1>2, <2>2 DEF Owed
  <2>4. QED
    BY <1>1, <1>2, <2>3, Counted
<1>5. QED
  BY <1>3, <1>4

\* What AWS is asked for is complete, and a build that succeeds is what was asked for.
LEMMA VersionsStep ==
    ASSUME TypeInv, VersionsKnown, [Next]_vars
    PROVE  VersionsKnown'
<1>1. /\ image \in Image /\ desired \in Resource
      /\ pc \in {"create", "update"} => Requested(desired) \in Version
  BY Typed, RequestedType DEF WorkerBuilds, Asking
<1>2. CASE image'.state = image.state /\ image'.wanted = image.wanted /\ image'.active = image.active
  BY <1>2 DEF VersionsKnown
<1>3. CASE Create \/ CreateAnswerLost
  BY <1>1, <1>3 DEF Create, CreateAnswerLost, Created, VersionsKnown, SyncedStates
<1>4. CASE Update \/ UpdateAnswerLost
  BY <1>1, <1>4 DEF Update, UpdateAnswerLost, Rebuilding, VersionsKnown, SyncedStates, Image
<1>5. CASE DeleteImage \/ Outside
  BY <1>1, <1>5 DEF DeleteImage, Outside, VersionsKnown, SyncedStates, Settled, Built, Image
<1>6. CASE Finish \/ Break
  BY <1>1, <1>6 DEF Finish, Break, MoveImage, VersionsKnown, SyncedStates, Image
<1>7. CASE UntagResource \/ TagResource
  BY <1>1, <1>2, <1>7 DEF UntagResource, TagResource, Image
<1>8. \/ UNCHANGED image
      \/ Create \/ CreateAnswerLost \/ Update \/ UpdateAnswerLost \/ DeleteImage
      \/ UntagResource \/ TagResource \/ Finish \/ Break \/ Outside
  BY DEF Next, Worker, Sync, Delete, Dequeue, FindNothing, FindImage, FindFails, Manage,
     ManageFails, CreateFails, TagCallFails, UpdateFails, PatchSpec, PatchSpecFails, LateRead,
     LateReadFails, PatchStatus, PatchStatusFails, DelFindNothing, DelFindImage, DelFindFails,
     DeleteFails, Unmanage, UnmanageFails, TimerFires, Crash, UserEdits, UserDeletes, aws, vars
<1>9. QED
  BY <1>2, <1>3, <1>4, <1>5, <1>6, <1>7, <1>8

LEMMA RebuildInit == Init => RebuildInv
<1> SUFFICES ASSUME Init PROVE RebuildInv
  OBVIOUS
<1>1. /\ Basis = cr /\ ~Committed /\ Asked(Outcome, image)
  BY DEF Init, Basis, Committed, Asked, Asking
<1>2. ~Unseen /\ ~Owed
  BY <1>1 DEF Unseen, Owed, DifferentExceptTags
<1>3. rebuilds = 0 /\ Causes = 0
  BY DEF Init, Causes, Kinds
<1>4. QED
  BY <1>2, <1>3 DEF Init, RebuildInv, RebuildsOwed, VersionsKnown, Ones, SyncedStates

LEMMA RebuildStep == TypeInv /\ RebuildInv /\ [Next]_vars => RebuildInv'
<1> SUFFICES ASSUME TypeInv, RebuildInv, [Next]_vars PROVE RebuildInv'
  OBVIOUS
<1>1. Frame /\ VersionsKnown' /\ RebuildsOwed
  BY FrameStep, VersionsStep DEF RebuildInv
<1>2. CASE UNCHANGED vars
  <2>1. (Unseen' <=> Unseen) /\ (Owed' <=> Owed)
    BY <1>2 DEF vars, Unseen, Owed, Basis, Outcome, Committed
  <2>2. QED
    BY <1>1, <1>2, <2>1, Counted DEF RebuildInv, vars
<1>3. CASE Sync
  BY <1>1, <1>3, FindCounted, EndsCounted, ManageCounted, RequestsCounted, LossesCounted,
     TagCallsCounted, PatchSpecCounted, LateReadCounted DEF Sync, Ends, RebuildInv
<1>4. CASE Delete
  BY <1>1, <1>4, EndsCounted, ReportsCounted DEF Delete, Ends, RebuildInv
<1>5. CASE Dequeue \/ PatchStatus \/ PatchStatusFails
  BY <1>1, <1>5, DequeueCounted, ReportsCounted, EndsCounted DEF Ends, RebuildInv
<1>6. CASE TimerFires \/ Crash \/ UserEdits \/ UserDeletes \/ Finish \/ Break \/ Outside
  BY <1>1, <1>6, LossesCounted, UserCounted, CloudCounted DEF RebuildInv
<1>7. QED
  BY <1>2, <1>3, <1>4, <1>5, <1>6 DEF Next, Worker

\* Each UpdateMicrovmImage that AWS accepted has a cause of its own.
THEOREM RebuildSafety == Spec => []RebuildHasCause
<1>1. TypeInv /\ RebuildInv => RebuildHasCause
  <2> SUFFICES ASSUME TypeInv, RebuildInv PROVE RebuildHasCause
    OBVIOUS
  <2>1. rebuilds \in Nat /\ Causes \in Nat
    BY Typed, CausesType
  <2>2. Ones(Unseen) \in {0, 1} /\ Ones(Owed) \in {0, 1}
    BY DEF Ones
  <2>3. rebuilds <= Causes
    BY <2>1, <2>2 DEF RebuildInv, RebuildsOwed
  <2>4. QED
    BY <2>3 DEF Causes, RebuildHasCause
<1>2. TypeInv /\ RebuildInv /\ [Next]_vars => (TypeInv /\ RebuildInv)'
  BY TypeStep, RebuildStep
<1>3. QED
  BY <1>1, <1>2, TypeInit, RebuildInit, PTL DEF Spec

-----------------------------------------------------------------------------
(* Why Synced tells the truth.  The status that the worker writes is about *)
(* the image it read and the spec it read before that, so SyncedMatchesSpec*)
(* follows from what its copies have to do with both at every step: a spec *)
(* that is not the copy's was edited, which queues the key (CopiesCurrent),*)
(* a copy that calls the image built has its version and its tags          *)
(* (StatesTracked), and syncTags knows the tags it changes (TagsTracked).  *)

\* Nothing was lost or changed from outside, and the CR stays.
Calm == NoLoss /\ used["outside"] = 0 /\ ~cr.deleting

\* r has the spec of the CR, or an edit has queued the key.
Current(r) ==
    ~queued => r.build = cr.build /\ r.late = cr.late /\ r.tags \cap UserTags = cr.tags

\* A copy that calls the image built is right about that.
Reports(r) == r.state \in SyncedStates => image.state \in SyncedStates

SameVersion(r) == r.build = image.active.build /\ r.late = image.active.late

\* A copy that calls the image built has its version and its tags.
Agrees(r) ==
    r.state \in SyncedStates =>
        /\ image.state \in SyncedStates /\ SameVersion(r)
        /\ r.tags \cap UserTags = image.tags \cap UserTags

\* The tags of the image at each call of syncTags.
TagsTracked ==
    /\ pc = "untag" => image.tags = latest.tags
    /\ pc = "tag" => image.tags = latest.tags \cap desired.tags

CopiesCurrent ==
    /\ pc \in Asking \cup {"patch", "patchLate"} => Current(desired)
    /\ pc = "lateRead" => Current(latest)
    /\ pc = "status" /\ err = "none" => Current(latest) /\ latest.arn
    /\ pc = "find" /\ desired.arn => desired.finalizer
    /\ pc = "manage" => ~cr.arn
    /\ ~desired.deleting /\ ~latest.deleting

StatesTracked ==
    /\ pc \notin Carrying => Reports(cr)
    /\ pc \in Asking => Reports(desired)
    /\ pc \in {"untag", "tag", "update", "status"} => Reports(latest)
    /\ pc \in {"untag", "tag"} /\ desired.state \in SyncedStates => SameVersion(latest)
    /\ pc \in {"patch", "lateRead", "patchLate"} => Agrees(latest)
    /\ pc = "status" /\ err = "none" => Agrees(latest)

StatusTrue ==
    exists =>
        /\ cr.synced => cr.arn /\ cr.state \in SyncedStates
        /\ CaughtUp /\ cr.synced => Matches

Synchronized == TagsTracked /\ CopiesCurrent /\ StatesTracked /\ StatusTrue

SyncInv == Calm => Synchronized

\* What a step of a calm run starts from.
SyncPre == IInv /\ VersionsKnown /\ Calm /\ Synchronized

LEMMA SyncTyped ==
    ASSUME SyncPre
    PROVE  /\ TypeInv /\ Protocol
           /\ cr \in Resource /\ desired \in Resource /\ latest \in Resource
           /\ cr.tags \subseteq UserTags /\ image \in Image /\ pc \in PCs /\ err \in Errors
           /\ image.state \in SyncedStates => image.active \in Version
           /\ ~cr.deleting /\ pc \notin {"delFind", "delete", "unmanage"}
           /\ TagsTracked /\ CopiesCurrent /\ StatesTracked /\ StatusTrue
BY Typed DEF SyncPre, IInv, Protocol, ArnTracking, VersionsKnown, Calm, Synchronized

\* A calm run was calm before.
LEMMA CalmStep ==
    ASSUME TypeInv, [Next]_vars, Calm'
    PROVE  Calm
<1>1. Frame
  BY FrameStep
<1>2. NoLoss /\ used["outside"] = 0
  BY <1>1 DEF Frame, Calm, NoLoss, Kinds
<1>3. cr.deleting => cr'.deleting
  <2>1. cr \in Resource /\ desired \in Resource /\ latest \in Resource
    BY Typed
  <2>2. CASE PatchSpec
    BY <2>1, <2>2, MergeFields DEF PatchSpec
  <2>3. CASE Manage \/ PatchStatus \/ Unmanage \/ UserEdits \/ UserDeletes
    BY <2>1, <2>3 DEF Manage, PatchStatus, Unmanage, UserEdits, UserDeletes, Resource
  <2>4. UNCHANGED cr \/ PatchSpec \/ Manage \/ PatchStatus \/ Unmanage \/ UserEdits \/ UserDeletes
    BY DEF Next, Worker, Sync, Delete, Dequeue, FindNothing, FindImage, FindFails, ManageFails,
       Create, CreateFails, CreateAnswerLost, UntagResource, TagResource, TagCallFails, Update,
       UpdateFails, UpdateAnswerLost, PatchSpecFails, LateRead, LateReadFails, PatchStatusFails,
       DelFindNothing, DelFindImage, DelFindFails, DeleteImage, DeleteFails, UnmanageFails,
       TimerFires, Crash, Finish, Break, Outside, MoveImage, vars
  <2>5. QED
    BY <2>2, <2>3, <2>4
<1>4. QED
  BY <1>2, <1>3 DEF Calm

\* The report of an error is about a state that the image still has.
LEMMA SettleSync ==
    ASSUME SyncPre, UNCHANGED <<cr, exists, image>>, NEW r, NEW e, Settle(r, e), e # "none",
           Reports(r), ~r.deleting
    PROVE  Synchronized'
<1>1. /\ pc' = "status" /\ desired' = Blank /\ latest' = r /\ err' = e
      /\ StatusTrue /\ ~Blank.deleting
  BY SyncTyped DEF Settle, Blank
<1>2. TagsTracked' /\ CopiesCurrent'
  BY <1>1 DEF TagsTracked, CopiesCurrent, Asking
<1>3. StatesTracked'
  BY <1>1 DEF StatesTracked, Reports, Asking, Carrying
<1>4. StatusTrue'
  BY <1>1 DEF StatusTrue, CaughtUp
<1>5. QED
  BY <1>2, <1>3, <1>4 DEF Synchronized

\* A reconciliation that ends without a report had no image to report on.
LEMMA RestSync ==
    ASSUME SyncPre, UNCHANGED <<cr, exists, image>>, NEW b, Rest(b), pc = "manage"
    PROVE  Synchronized'
<1>1. /\ pc' = "idle" /\ desired' = Blank /\ latest' = Blank /\ ~Blank.deleting
      /\ StatusTrue /\ ~cr.arn /\ Reports(cr)
  BY SyncTyped DEF Rest, Blank, CopiesCurrent, StatesTracked, Carrying
<1>2. TagsTracked' /\ CopiesCurrent'
  BY <1>1 DEF TagsTracked, CopiesCurrent, Asking
<1>3. StatesTracked'
  BY <1>1 DEF StatesTracked, Reports, Asking
<1>4. StatusTrue'
  BY <1>1 DEF StatusTrue
<1>5. QED
  BY <1>2, <1>3, <1>4 DEF Synchronized

\* A loss, a change from outside and a deletion are over for the claim.
LEMMA NotCalm ==
    ASSUME SyncPre, Calm'
    PROVE  /\ ~PatchSpecFails /\ ~CreateAnswerLost /\ ~UpdateAnswerLost /\ ~PatchStatusFails
           /\ ~Crash /\ ~Outside /\ ~UserDeletes /\ ~Delete
<1>1. used \in [Kinds -> Nat]
  BY SyncTyped, Typed
<1>2. \A k \in {"drop", "crash", "outside"} : ~Spend(k)
  BY <1>1, SyncTyped, SpendType DEF Calm, NoLoss, Kinds
<1>3. ~UserDeletes
  BY SyncTyped DEF UserDeletes, Calm, Resource
<1>4. ~Delete
  BY SyncTyped DEF Delete, DelFindNothing, DelFindImage, DelFindFails, DeleteImage, DeleteFails,
     Unmanage, UnmanageFails
<1>5. QED
  BY <1>2, <1>3, <1>4 DEF PatchSpecFails, CreateAnswerLost, UpdateAnswerLost, PatchStatusFails,
     Crash, Outside

\* The error paths of a reconciliation.
LEMMA FailuresSync ==
    ASSUME SyncPre,
           FindFails \/ CreateFails \/ TagCallFails \/ UpdateFails \/ LateReadFails \/ ManageFails
    PROVE  Synchronized'
<1>1. UNCHANGED <<cr, exists, image>>
  BY DEF FindFails, CreateFails, TagCallFails, UpdateFails, LateReadFails, ManageFails, aws
<1>2. /\ desired \in Resource /\ latest \in Resource /\ ~desired.deleting /\ ~latest.deleting
      /\ StatesTracked
  BY SyncTyped DEF CopiesCurrent
<1>3. ASSUME NEW d \in {desired, latest}, NEW e \in {"retry", "terminal"}, Reports(d),
             Settle(updateConditions(d, e), e)
      PROVE  Synchronized'
  <2> DEFINE r == updateConditions(d, e)
  <2>1. r.state = d.state /\ ~r.deleting
    BY <1>2, <1>3, ConditionsFields
  <2>2. Settle(r, e)
    BY <1>3
  <2> HIDE DEF r
  <2>3. Reports(r)
    BY <1>3, <2>1 DEF Reports
  <2>4. QED
    BY <1>1, <1>3, <2>1, <2>2, <2>3, SettleSync
<1>4. CASE FindFails \/ CreateFails
  <2>1. Reports(desired)
    BY <1>2, <1>4 DEF FindFails, CreateFails, StatesTracked, Asking
  <2>2. QED
    BY <1>3, <1>4, <2>1 DEF FindFails, CreateFails, Failed
<1>5. CASE TagCallFails \/ UpdateFails
  <2>1. Reports(latest)
    BY <1>2, <1>5 DEF TagCallFails, UpdateFails, StatesTracked
  <2>2. QED
    BY <1>3, <1>5, <2>1 DEF TagCallFails, UpdateFails, Failed
<1>6. CASE LateReadFails
  <2>1. Reports(latest)
    BY <1>2, <1>6 DEF LateReadFails, StatesTracked, Agrees, Reports
  <2>2. PICK e \in {"retry", "terminal"} : Settle(latest, e)
    BY <1>6 DEF LateReadFails
  <2>3. QED
    BY <1>1, <1>2, <2>1, <2>2, SettleSync
<1>7. CASE ManageFails
  BY <1>1, <1>7, RestSync DEF ManageFails
<1>8. QED
  BY <1>4, <1>5, <1>6, <1>7

LEMMA DequeueSync ==
    ASSUME SyncPre, Dequeue
    PROVE  Synchronized'
<1>1. /\ cr \in Resource /\ cr.tags \subseteq UserTags /\ ~cr.deleting
      /\ TagsTracked /\ CopiesCurrent /\ StatesTracked /\ StatusTrue /\ Reports(cr)
      /\ pc = "idle" /\ UNCHANGED <<cr, exists, image>> /\ queued' = FALSE
  BY SyncTyped DEF Dequeue, StatesTracked, Carrying, aws
<1>2. CASE ~exists
  <2>1. UNCHANGED <<pc, desired, latest, err>>
    BY <1>2 DEF Dequeue, worker
  <2>2. TagsTracked' /\ CopiesCurrent'
    BY <1>1, <2>1 DEF TagsTracked, CopiesCurrent, Asking
  <2>3. StatesTracked'
    BY <1>1, <2>1 DEF StatesTracked, Reports, Asking
  <2>4. StatusTrue'
    BY <1>1, <1>2 DEF StatusTrue
  <2>5. QED
    BY <2>2, <2>3, <2>4 DEF Synchronized
<1>3. CASE exists
  <2> DEFINE d == EnsureTags(ResetConditions(cr))
  <2>1. /\ d.build = cr.build /\ d.late = cr.late /\ d.tags = cr.tags \cup AckTags
        /\ d.state = cr.state /\ d.deleting = cr.deleting
        /\ d.arn = cr.arn /\ d.finalizer = cr.finalizer
    BY <1>1, ResetFields, ResetType DEF Same
  <2>2. pc' = "find" /\ desired' = d /\ latest' = Blank /\ ~Blank.deleting
    BY <1>1, <1>3 DEF Dequeue, GoTo, Blank
  <2> HIDE DEF d
  <2>3. d.tags \cap UserTags = cr.tags
    BY <1>1, <2>1, ImageAssumption
  <2>4. cr.arn => cr.finalizer
    BY <1>3, SyncTyped DEF Protocol, FinalizerHeld
  <2>5. TagsTracked' /\ CopiesCurrent'
    BY <1>1, <2>1, <2>2, <2>3, <2>4 DEF TagsTracked, CopiesCurrent, Current, Asking
  <2>6. StatesTracked'
    BY <1>1, <2>1, <2>2 DEF StatesTracked, Reports, Asking
  <2>7. StatusTrue'
    BY <1>1, <2>2 DEF StatusTrue, CaughtUp
  <2>8. QED
    BY <2>5, <2>6, <2>7 DEF Synchronized
<1>4. QED
  BY <1>2, <1>3

\* Where sdkUpdate goes, and what it knows of the tags t that the image has then.
TagsKnown(d, l, t) ==
    \/ GoTo("untag", d, l) /\ t = l.tags
    \/ GoTo("tag", d, l) /\ t = l.tags \cap d.tags
    \/ GoTo("update", d, l)
    \/ /\ GoTo("patch", d, updateConditions(d, "none"))
       /\ ~DifferentExceptTags(d, l) /\ t \cap UserTags = d.tags \cap UserTags
    \/ Settle(updateConditions(l, "retry"), "retry")

LEMMA AfterTagsKnown ==
    ASSUME NEW d, NEW l, AfterTags(d, l), NEW t, t = d.tags
    PROVE  TagsKnown(d, l, t)
BY DEF AfterTags, TagsKnown

LEMMA AddTagsKnown ==
    ASSUME NEW d, NEW l, AddTags(d, l), NEW t, t = l.tags \cap d.tags
    PROVE  TagsKnown(d, l, t)
<1>1. CASE d.tags \subseteq l.tags
  <2>1. AfterTags(d, l) /\ t = d.tags
    BY <1>1 DEF AddTags
  <2>2. QED
    BY <2>1, AfterTagsKnown
<1>2. CASE ~(d.tags \subseteq l.tags)
  BY <1>2 DEF AddTags, TagsKnown
<1>3. QED
  BY <1>1, <1>2

LEMMA RemoveTagsKnown ==
    ASSUME NEW d, NEW l, RemoveTags(d, l), NEW t, t = l.tags
    PROVE  TagsKnown(d, l, t)
<1>1. CASE l.tags \subseteq d.tags
  <2>1. AddTags(d, l) /\ t = l.tags \cap d.tags
    BY <1>1 DEF RemoveTags
  <2>2. QED
    BY <2>1, AddTagsKnown
<1>2. CASE ~(l.tags \subseteq d.tags)
  BY <1>2 DEF RemoveTags, TagsKnown
<1>3. QED
  BY <1>1, <1>2

\* d is the mirrored CR and l what AWS has, until the tags are in place.
LEMMA TagsSync ==
    ASSUME SyncPre, UNCHANGED <<cr, exists, queued>>, pc \in Asking,
           image'.state = image.state, image'.active = image.active,
           NEW d \in Resource, NEW l \in Resource, TagsKnown(d, l, image'.tags),
           Current(d), ~d.deleting, ~l.deleting, Reports(d), Reports(l),
           d.state \in SyncedStates => SameVersion(l)
    PROVE  Synchronized'
<1>1. StatusTrue /\ Reports(cr)
  BY SyncTyped DEF StatesTracked, Asking, Carrying
<1>2. /\ Current(d) <=> (~queued' => /\ d.build = cr'.build /\ d.late = cr'.late
                                     /\ d.tags \cap UserTags = cr'.tags)
      /\ Reports(d) <=> (d.state \in SyncedStates => image'.state \in SyncedStates)
      /\ Reports(l) <=> (l.state \in SyncedStates => image'.state \in SyncedStates)
      /\ Reports(cr) <=> (cr'.state \in SyncedStates => image'.state \in SyncedStates)
      /\ SameVersion(l) <=> (l.build = image'.active.build /\ l.late = image'.active.late)
  BY DEF Current, Reports, SameVersion
<1>3. ASSUME pc' # "idle"
      PROVE  StatusTrue'
  BY <1>1, <1>3 DEF StatusTrue, CaughtUp
<1>4. CASE \E p \in {"untag", "tag", "update"} :
             /\ GoTo(p, d, l)
             /\ p = "untag" => image'.tags = l.tags
             /\ p = "tag" => image'.tags = l.tags \cap d.tags
  <2>1. /\ pc' \in {"untag", "tag", "update"} /\ desired' = d /\ latest' = l
        /\ pc' = "untag" => image'.tags = l.tags
        /\ pc' = "tag" => image'.tags = l.tags \cap d.tags
    BY <1>4 DEF GoTo
  <2>2. TagsTracked'
    BY <2>1 DEF TagsTracked
  <2>3. CopiesCurrent'
    BY <1>2, <2>1 DEF CopiesCurrent, Current, Asking
  <2>4. StatesTracked'
    BY <1>1, <1>2, <2>1 DEF StatesTracked, Reports, SameVersion, Asking
  <2>5. QED
    BY <1>3, <2>1, <2>2, <2>3, <2>4 DEF Synchronized
<1>5. CASE /\ GoTo("patch", d, updateConditions(d, "none"))
           /\ ~DifferentExceptTags(d, l) /\ image'.tags \cap UserTags = d.tags \cap UserTags
  <2> DEFINE u == updateConditions(d, "none")
  <2>1. /\ u.build = d.build /\ u.late = d.late /\ u.tags = d.tags
        /\ u.state = d.state /\ u.deleting = d.deleting
    BY ConditionsFields
  <2>2. pc' = "patch" /\ desired' = d /\ latest' = u
    BY <1>5 DEF GoTo
  <2> HIDE DEF u
  <2>3. TagsTracked' /\ CopiesCurrent'
    BY <1>2, <2>1, <2>2 DEF TagsTracked, CopiesCurrent, Current, Asking
  <2>4. u.state \in SyncedStates =>
            /\ image'.state \in SyncedStates
            /\ u.build = image'.active.build /\ u.late = image'.active.late
            /\ u.tags \cap UserTags = image'.tags \cap UserTags
    BY <1>2, <1>5, <2>1 DEF DifferentExceptTags
  <2>5. StatesTracked'
    BY <2>2, <2>4 DEF StatesTracked, Agrees, SameVersion, Asking, Carrying
  <2>6. QED
    BY <1>3, <2>2, <2>3, <2>5 DEF Synchronized
<1>6. CASE Settle(updateConditions(l, "retry"), "retry")
  <2> DEFINE u == updateConditions(l, "retry")
  <2>1. u.state = l.state /\ u.deleting = l.deleting
    BY ConditionsFields
  <2>2. pc' = "status" /\ desired' = Blank /\ latest' = u /\ err' = "retry" /\ ~Blank.deleting
    BY <1>6 DEF Settle, Blank
  <2> HIDE DEF u
  <2>3. TagsTracked' /\ CopiesCurrent'
    BY <2>1, <2>2 DEF TagsTracked, CopiesCurrent, Asking
  <2>4. StatesTracked'
    BY <1>2, <2>1, <2>2 DEF StatesTracked, Reports, Asking, Carrying
  <2>5. QED
    BY <1>3, <2>2, <2>3, <2>4 DEF Synchronized
<1>7. QED
  BY <1>4, <1>5, <1>6 DEF TagsKnown

LEMMA FindNothingSync ==
    ASSUME SyncPre, FindNothing
    PROVE  Synchronized'
<1>1. /\ pc = "find" /\ UNCHANGED <<cr, exists, image, queued>> /\ desired' = desired
      /\ latest' = Blank /\ ~Blank.deleting
      /\ pc' = IF desired.finalizer THEN "create" ELSE "manage"
  BY DEF FindNothing, GoTo, Blank, aws
<1>2. /\ Current(desired) /\ (desired.arn => desired.finalizer) /\ ~desired.deleting
      /\ Reports(desired) /\ Reports(cr) /\ StatusTrue /\ desired.arn = cr.arn
  BY <1>1, SyncTyped DEF CopiesCurrent, StatesTracked, Asking, Carrying, Protocol, ArnTracking
<1>3. TagsTracked' /\ CopiesCurrent'
  BY <1>1, <1>2 DEF TagsTracked, CopiesCurrent, Current, Asking
<1>4. StatesTracked'
  BY <1>1, <1>2 DEF StatesTracked, Reports
<1>5. StatusTrue'
  BY <1>1, <1>2 DEF StatusTrue, CaughtUp
<1>6. QED
  BY <1>3, <1>4, <1>5 DEF Synchronized

\* What sdkFind reads of a built image is its version.
LEMMA FindImageSync ==
    ASSUME SyncPre, FindImage
    PROVE  Synchronized'
<1> DEFINE o == Observed(desired, image)
           r == updateConditions(o, "none")
           d == mirrorAWSTags(desired, r)
<1>1. /\ TypeInv /\ desired \in Resource /\ image \in Image /\ pc = "find"
      /\ ~NotFound(desired) /\ UNCHANGED <<cr, exists, image, queued>>
      /\ Current(desired) /\ ~desired.deleting /\ Reports(desired) /\ Reports(cr) /\ StatusTrue
      /\ image.state \in SyncedStates => image.active \in Version
  BY SyncTyped DEF FindImage, CopiesCurrent, StatesTracked, Asking, Carrying, aws
<1>2. o \in Resource /\ r \in Resource
  BY <1>1, FoundType
<1>3. /\ o.tags = image.tags /\ o.state = image.state /\ ~o.deleting
      /\ image.active # NoVersion => o.build = image.active.build /\ o.late = image.active.late
  BY <1>1, ObservedFields
<1>4. /\ r.tags = o.tags /\ r.state = o.state /\ r.build = o.build /\ r.late = o.late
      /\ r.deleting = o.deleting
  BY <1>2, ConditionsFields
<1>5. /\ d \in Resource /\ d.build = desired.build /\ d.late = desired.late
      /\ d.tags = desired.tags \cup (r.tags \cap AwsTags)
      /\ d.state = desired.state /\ d.deleting = desired.deleting
  BY <1>1, <1>2, MirrorType, MirrorFields
<1>6. \/ RemoveTags(d, r)
      \/ GoTo("lateRead", Blank, r) /\ ~Differ(d, r)
  BY DEF FindImage
<1> HIDE DEF o, r, d
<1>7. image.state \in SyncedStates => SameVersion(r)
  <2>1. NoVersion \notin Version
    BY ImageAssumption DEF NoVersion, Version
  <2>2. QED
    BY <1>1, <1>3, <1>4, <2>1 DEF SameVersion
<1>8. Reports(r) /\ Reports(d) /\ ~r.deleting /\ ~d.deleting
  BY <1>1, <1>3, <1>4, <1>5 DEF Reports
<1>9. d.tags \cap UserTags = desired.tags \cap UserTags
  BY <1>5, ImageAssumption
<1>10. Current(d)
  BY <1>1, <1>5, <1>9 DEF Current
<1>11. CASE RemoveTags(d, r)
  <2>1. TagsKnown(d, r, image'.tags)
    BY <1>1, <1>3, <1>4, <1>11, RemoveTagsKnown
  <2>2. d.state \in SyncedStates => SameVersion(r)
    BY <1>7, <1>8 DEF Reports
  <2>3. QED
    BY <1>1, <1>2, <1>5, <1>8, <1>10, <2>1, <2>2, TagsSync DEF Asking
<1>12. CASE GoTo("lateRead", Blank, r) /\ ~Differ(d, r)
  <2>1. pc' = "lateRead" /\ desired' = Blank /\ latest' = r /\ ~Blank.deleting
    BY <1>12 DEF GoTo, Blank
  <2>2. r.build = d.build /\ r.late = d.late /\ r.tags = d.tags
    BY <1>12 DEF Differ, DifferentExceptTags
  <2>3. Current(r)
    BY <1>10, <2>2 DEF Current
  <2>4. TagsTracked' /\ CopiesCurrent'
    BY <1>1, <1>8, <2>1, <2>3 DEF TagsTracked, CopiesCurrent, Current, Asking
  <2>5. StatesTracked'
    BY <1>1, <1>3, <1>4, <1>7, <2>1 DEF StatesTracked, Agrees, SameVersion, Asking, Carrying
  <2>6. StatusTrue'
    BY <1>1, <2>1 DEF StatusTrue, CaughtUp
  <2>7. QED
    BY <2>4, <2>5, <2>6 DEF Synchronized
<1>13. QED
  BY <1>6, <1>11, <1>12

LEMMA TagCallsSync ==
    ASSUME SyncPre, UntagResource \/ TagResource
    PROVE  Synchronized'
<1>1. /\ desired \in Resource /\ latest \in Resource /\ image \in Image
      /\ pc \in {"untag", "tag"} /\ UNCHANGED <<cr, exists, queued>>
      /\ Current(desired) /\ ~desired.deleting /\ ~latest.deleting
      /\ Reports(desired) /\ Reports(latest)
      /\ desired.state \in SyncedStates => SameVersion(latest)
      /\ TagsTracked
  BY SyncTyped DEF UntagResource, TagResource, CopiesCurrent, StatesTracked, Asking
<1>2. image'.state = image.state /\ image'.active = image.active
  BY <1>1 DEF UntagResource, TagResource, Image
<1>3. CASE UntagResource
  <2>1. image.tags = latest.tags
    BY <1>1, <1>3 DEF UntagResource, TagsTracked
  <2>2. image'.tags = latest.tags \cap desired.tags
    BY <1>1, <1>3, <2>1 DEF UntagResource, Image
  <2>3. TagsKnown(desired, latest, image'.tags)
    BY <1>3, <2>2, AddTagsKnown DEF UntagResource
  <2>4. QED
    BY <1>1, <1>2, <2>3, TagsSync DEF Asking
<1>4. CASE TagResource
  <2>1. image.tags = latest.tags \cap desired.tags
    BY <1>1, <1>4 DEF TagResource, TagsTracked
  <2>2. image'.tags = desired.tags
    BY <1>1, <1>4, <2>1 DEF TagResource, Image
  <2>3. TagsKnown(desired, latest, image'.tags)
    BY <1>4, <2>2, AfterTagsKnown DEF TagResource
  <2>4. QED
    BY <1>1, <1>2, <2>3, TagsSync DEF Asking
<1>5. QED
  BY <1>3, <1>4

LEMMA ManageSync ==
    ASSUME SyncPre, Manage
    PROVE  Synchronized'
<1>1. /\ cr \in Resource /\ desired \in Resource /\ pc = "manage" /\ UNCHANGED <<exists, image, queued>>
      /\ Current(desired) /\ ~desired.deleting /\ Reports(desired) /\ Reports(cr) /\ StatusTrue
  BY SyncTyped DEF Manage, CopiesCurrent, StatesTracked, Asking, Carrying, aws
<1>2. CASE ~exists
  BY <1>1, <1>2, RestSync DEF Manage
<1>3. CASE exists
  <2>1. /\ pc' = "create" /\ desired' = [desired EXCEPT !.finalizer = TRUE]
        /\ cr' = [cr EXCEPT !.finalizer = TRUE]
        /\ latest' = Blank /\ ~Blank.deleting
    BY <1>3 DEF Manage, GoTo, Blank
  <2>2. /\ desired'.build = desired.build /\ desired'.late = desired.late
        /\ desired'.tags = desired.tags /\ desired'.state = desired.state
        /\ desired'.deleting = desired.deleting
    BY <1>1, <2>1 DEF Resource
  <2>3. /\ cr'.build = cr.build /\ cr'.late = cr.late /\ cr'.tags = cr.tags
        /\ cr'.state = cr.state /\ cr'.arn = cr.arn /\ cr'.synced = cr.synced
    BY <1>1, <2>1 DEF Resource
  <2>4. TagsTracked' /\ CopiesCurrent'
    BY <1>1, <2>1, <2>2, <2>3 DEF TagsTracked, CopiesCurrent, Current, Asking
  <2>5. StatesTracked'
    BY <1>1, <2>1, <2>2, <2>3 DEF StatesTracked, Reports
  <2>6. StatusTrue'
    BY <1>1, <2>1, <2>3 DEF StatusTrue, CaughtUp
  <2>7. QED
    BY <2>4, <2>5, <2>6 DEF Synchronized
<1>4. QED
  BY <1>2, <1>3

\* The answer to a request calls the image neither created nor updated.
LEMMA RequestsSync ==
    ASSUME SyncPre, Create \/ Update
    PROVE  Synchronized'
<1>1. /\ desired \in Resource /\ desired.build \in Builds /\ pc \in {"create", "update"}
      /\ UNCHANGED <<cr, exists, queued>>
      /\ Current(desired) /\ ~desired.deleting /\ StatusTrue
  BY SyncTyped, Typed DEF Create, Update, CopiesCurrent, WorkerBuilds, Asking
<1> DEFINE v == Requested(desired)
<1>2. v \in Version
  BY <1>1, RequestedType
<1>3. ASSUME NEW b, pc' = "patch", desired' = desired, latest' = b,
             b.state \notin SyncedStates, ~b.deleting
      PROVE  Synchronized'
  <2> HIDE DEF v
  <2>1. TagsTracked' /\ CopiesCurrent'
    BY <1>1, <1>3 DEF TagsTracked, CopiesCurrent, Current, Asking
  <2>2. StatesTracked'
    BY <1>3 DEF StatesTracked, Agrees, Asking, Carrying
  <2>3. StatusTrue'
    BY <1>1, <1>3 DEF StatusTrue, CaughtUp
  <2>4. QED
    BY <2>1, <2>2, <2>3 DEF Synchronized
<1>4. CASE Create
  <2> DEFINE a == Answered(desired, v, "CREATING")
             t == [a EXCEPT !.arn = TRUE, !.tags = @ \cup AwsTags]
             b == updateConditions(t, "none")
  <2>1. a \in Resource /\ a.state = "CREATING" /\ ~a.deleting
    BY <1>1, <1>2, AnsweredType, AnsweredFields DEF ImageStates
  <2>2. t \in Resource /\ t.state = a.state /\ t.deleting = a.deleting
    <3> HIDE DEF a
    <3>1. QED
      BY <2>1 DEF Resource, Tags
  <2>3. b.state = t.state /\ b.deleting = t.deleting
    <3> HIDE DEF t
    <3>1. QED
      BY <2>2, ConditionsFields
  <2>4. pc' = "patch" /\ desired' = desired /\ latest' = b
    BY <1>4 DEF Create, GoTo
  <2> HIDE DEF a, t, b, v
  <2>5. b.state \notin SyncedStates
    BY <2>1, <2>2, <2>3 DEF SyncedStates
  <2>6. QED
    BY <1>3, <2>1, <2>2, <2>3, <2>4, <2>5
<1>5. CASE Update
  <2> DEFINE a == Answered(desired, v, "UPDATING")
             b == updateConditions(a, "none")
  <2>1. a \in Resource /\ a.state = "UPDATING" /\ ~a.deleting
    BY <1>1, <1>2, AnsweredType, AnsweredFields DEF ImageStates
  <2>2. b.state = a.state /\ b.deleting = a.deleting
    <3> HIDE DEF a
    <3>1. QED
      BY <2>1, ConditionsFields
  <2>3. pc' = "patch" /\ desired' = desired /\ latest' = b
    BY <1>5 DEF Update, GoTo
  <2> HIDE DEF a, b, v
  <2>4. b.state \notin SyncedStates
    BY <2>1, <2>2 DEF SyncedStates
  <2>5. QED
    BY <1>3, <2>1, <2>2, <2>3, <2>4
<1>6. QED
  BY <1>4, <1>5

\* A CR that nobody edited gets the spec of the copy that is patched into it.
LEMMA PatchSpecSync ==
    ASSUME SyncPre, PatchSpec
    PROVE  Synchronized'
<1>1. /\ cr \in Resource /\ desired \in Resource /\ latest \in Resource
      /\ cr.tags \subseteq UserTags
      /\ pc \in {"patch", "patchLate"} /\ UNCHANGED <<exists, image>>
      /\ Current(desired) /\ Agrees(latest) /\ ~latest.deleting /\ latest.arn
      /\ StatusTrue
  BY SyncTyped DEF PatchSpec, CopiesCurrent, StatesTracked, Asking, aws, Protocol, ArnTracking
<1>2. /\ cr'.arn = cr.arn /\ cr'.state = cr.state /\ cr'.synced = cr.synced
      /\ cr'.tags = (cr.tags \ (desired.tags \ (latest.tags \cap UserTags)))
                        \cup ((latest.tags \cap UserTags) \ desired.tags)
      /\ cr'.build = IF desired.build = latest.build THEN cr.build ELSE latest.build
      /\ cr'.late = IF desired.late = latest.late THEN cr.late ELSE latest.late
  <2> DEFINE m == MergeSpec(cr, desired, latest)
  <2>1. /\ m.arn = cr.arn /\ m.state = cr.state /\ m.synced = cr.synced
        /\ m.tags = (cr.tags \ (desired.tags \ (latest.tags \cap UserTags)))
                        \cup ((latest.tags \cap UserTags) \ desired.tags)
        /\ m.build = IF desired.build = latest.build THEN cr.build ELSE latest.build
        /\ m.late = IF desired.late = latest.late THEN cr.late ELSE latest.late
    BY <1>1, MergeFields
  <2>2. cr' = m
    BY DEF PatchSpec
  <2> HIDE DEF m
  <2>3. QED
    BY <2>1, <2>2
<1>3. ~queued' => Current(desired) /\ ~queued
  BY <1>1 DEF PatchSpec
<1>4. ~queued' => cr'.build = latest.build /\ cr'.late = latest.late
  BY <1>2, <1>3 DEF Current
<1>5. ~queued' => latest.tags \cap UserTags = cr'.tags
  <2>1. ~queued' => desired.tags \cap UserTags = cr.tags
    BY <1>3 DEF Current
  <2>2. QED
    BY <1>1, <1>2, <2>1
<1>6. /\ \/ pc' = "lateRead"
         \/ pc' = "status" /\ err' = "none"
      /\ latest' = latest /\ desired' = Blank /\ ~Blank.deleting
  BY DEF PatchSpec, GoTo, Settle, Blank
<1>7. Current(latest)'
  BY <1>4, <1>5, <1>6 DEF Current
<1>8. TagsTracked' /\ CopiesCurrent'
  BY <1>1, <1>6, <1>7 DEF TagsTracked, CopiesCurrent, Asking
<1>9. Agrees(latest)' /\ Reports(latest)'
  BY <1>1, <1>6 DEF Agrees, SameVersion, Reports
<1>10. StatesTracked'
  BY <1>6, <1>9 DEF StatesTracked, Asking, Carrying
<1>11. StatusTrue'
  BY <1>1, <1>2, <1>6 DEF StatusTrue, CaughtUp
<1>12. QED
  BY <1>8, <1>10, <1>11 DEF Synchronized

\* Late initialization fills nothing in a copy that has the image's version.
LEMMA LateReadSync ==
    ASSUME SyncPre, LateRead
    PROVE  Synchronized'
<1> DEFINE o == Observed(latest, image)
           a == mirrorAWSTags(latest, o)
           u == lateInitializeFromReadOneOutput(o, a)
<1>1. /\ latest \in Resource /\ image \in Image /\ image.state # "ABSENT"
      /\ pc = "lateRead" /\ UNCHANGED <<cr, exists, image, queued>>
      /\ Current(latest) /\ Agrees(latest) /\ ~latest.deleting /\ StatusTrue
      /\ image.state \in SyncedStates => image.active \in Version
  BY SyncTyped DEF LateRead, NotFound, CopiesCurrent, StatesTracked, aws
<1>2. o \in Resource
  BY <1>1, ObservedType
<1>3. /\ a \in Resource /\ a.build = latest.build /\ a.late = latest.late
      /\ a.tags = latest.tags \cup (o.tags \cap AwsTags)
      /\ a.state = latest.state /\ a.deleting = latest.deleting
  BY <1>1, <1>2, MirrorType, MirrorFields
<1>4. /\ u.build = a.build /\ u.tags = a.tags
      /\ u.late = IF a.late = NIL THEN o.late ELSE a.late
      /\ u.state = a.state /\ u.deleting = a.deleting
  <2> HIDE DEF a, o
  <2>1. QED
    BY <1>3, FilledFields
<1>5. GoTo("patchLate", latest, u)
  BY DEF LateRead
<1> HIDE DEF o, a, u
<1>6. pc' = "patchLate" /\ desired' = latest /\ latest' = u
  BY <1>5 DEF GoTo
<1>7. TagsTracked' /\ CopiesCurrent'
  BY <1>1, <1>3, <1>4, <1>6 DEF TagsTracked, CopiesCurrent, Current, Asking
<1>8. u.tags \cap UserTags = latest.tags \cap UserTags
  BY <1>3, <1>4, ImageAssumption
<1>9. ASSUME u.state \in SyncedStates
      PROVE  /\ image.state \in SyncedStates /\ SameVersion(u)
             /\ u.tags \cap UserTags = image.tags \cap UserTags
  <2>1. /\ image.state \in SyncedStates /\ SameVersion(latest)
        /\ latest.tags \cap UserTags = image.tags \cap UserTags
    BY <1>1, <1>3, <1>4, <1>9 DEF Agrees
  <2>2. latest.late # NIL
    BY <1>1, <2>1, ImageAssumption DEF SameVersion, Version
  <2>3. u.build = latest.build /\ u.late = latest.late
    BY <1>3, <1>4, <2>2
  <2>4. QED
    BY <1>8, <2>1, <2>3 DEF SameVersion
<1>10. StatesTracked'
  BY <1>1, <1>6, <1>9 DEF StatesTracked, Agrees, SameVersion, Asking, Carrying
<1>11. StatusTrue'
  BY <1>1, <1>6 DEF StatusTrue, CaughtUp
<1>12. QED
  BY <1>7, <1>10, <1>11 DEF Synchronized

\* What the report says holds of the spec and the image at the time.
LEMMA PatchStatusSync ==
    ASSUME SyncPre, PatchStatus
    PROVE  Synchronized'
<1> DEFINE r == ensureConditions(latest, err)
<1>1. /\ cr \in Resource /\ latest \in Resource /\ ~latest.deleting
      /\ pc = "status" /\ UNCHANGED <<exists, image, queued>> /\ Reports(latest)
      /\ err = "none" => Current(latest) /\ Agrees(latest) /\ latest.arn
  BY SyncTyped DEF PatchStatus, CopiesCurrent, StatesTracked, aws
<1>2. /\ r.arn = latest.arn /\ r.state = latest.state
      /\ r.synced => err = "none" /\ latest.state \in SyncedStates
  BY <1>1 DEF ensureConditions, IsSynced, Resource
<1>3. /\ cr' = [cr EXCEPT !.arn = r.arn, !.state = r.state,
                          !.terminal = r.terminal, !.synced = r.synced]
      /\ pc' = "idle" /\ desired' = Blank /\ latest' = Blank /\ ~Blank.deleting
  BY DEF PatchStatus, Rest, Blank
<1> HIDE DEF r
<1>4. /\ cr'.arn = latest.arn /\ cr'.state = latest.state /\ cr'.synced = r.synced
      /\ cr'.build = cr.build /\ cr'.late = cr.late /\ cr'.tags = cr.tags
  BY <1>1, <1>2, <1>3 DEF Resource
<1>5. TagsTracked' /\ CopiesCurrent'
  BY <1>3 DEF TagsTracked, CopiesCurrent, Asking
<1>6. StatesTracked'
  BY <1>1, <1>3, <1>4 DEF StatesTracked, Reports, Asking
<1>7. cr'.synced => cr'.arn /\ cr'.state \in SyncedStates
  BY <1>1, <1>2, <1>4
<1>8. ~queued' /\ cr'.synced => Matches'
  BY <1>1, <1>2, <1>4 DEF Current, Agrees, SameVersion, Matches
<1>9. StatusTrue'
  BY <1>7, <1>8 DEF StatusTrue, CaughtUp
<1>10. QED
  BY <1>5, <1>6, <1>9 DEF Synchronized

\* An edit queues the key, and AWS changes no image that is built.
LEMMA AroundSync ==
    ASSUME SyncPre, TimerFires \/ UserEdits \/ Finish \/ Break \/ UNCHANGED vars
    PROVE  Synchronized'
<1>1. /\ cr \in Resource /\ image \in Image
      /\ TagsTracked /\ CopiesCurrent /\ StatesTracked /\ StatusTrue
      /\ pc' = pc /\ desired' = desired /\ latest' = latest /\ err' = err /\ exists' = exists
  BY SyncTyped DEF TimerFires, UserEdits, Finish, Break, MoveImage, worker, vars
<1>2. /\ cr'.arn = cr.arn /\ cr'.state = cr.state /\ cr'.synced = cr.synced
      /\ queued' \/ (queued' = queued /\ cr' = cr)
  BY <1>1 DEF TimerFires, UserEdits, Finish, Break, MoveImage, vars, Resource
<1>3. /\ image'.tags = image.tags
      /\ image.state \in SyncedStates => image' = image
  BY <1>1 DEF TimerFires, UserEdits, Finish, Break, MoveImage, SyncedStates, aws, vars, Image
<1>4. TagsTracked'
  BY <1>1, <1>3 DEF TagsTracked
<1>5. ASSUME NEW r
      PROVE  /\ Current(r) => (~queued' => /\ r.build = cr'.build /\ r.late = cr'.late
                                           /\ r.tags \cap UserTags = cr'.tags)
             /\ Reports(r) => (r.state \in SyncedStates => image'.state \in SyncedStates)
             /\ Agrees(r) => (r.state \in SyncedStates =>
                    /\ image'.state \in SyncedStates
                    /\ r.build = image'.active.build /\ r.late = image'.active.late
                    /\ r.tags \cap UserTags = image'.tags \cap UserTags)
  BY <1>2, <1>3 DEF Current, Reports, Agrees, SameVersion
<1>6. CopiesCurrent'
  BY <1>1, <1>2, <1>5 DEF CopiesCurrent, Current
<1>7. pc \in {"untag", "tag"} /\ desired.state \in SyncedStates => image' = image
  BY <1>1, <1>3 DEF StatesTracked, Reports, Asking
<1>8. StatesTracked'
  BY <1>1, <1>2, <1>5, <1>7 DEF StatesTracked, Reports, Agrees, SameVersion
<1>9. StatusTrue'
  <2>1. CASE cr.synced /\ exists /\ CaughtUp'
    <3>1. image' = image /\ cr' = cr /\ CaughtUp
      BY <1>1, <1>2, <1>3, <2>1 DEF CaughtUp, StatusTrue, StatesTracked, Reports, Carrying
    <3>2. QED
      BY <1>1, <2>1, <3>1 DEF StatusTrue, Matches
  <2>2. CASE ~(cr.synced /\ exists /\ CaughtUp')
    BY <1>1, <1>2, <2>2 DEF StatusTrue
  <2>3. QED
    BY <2>1, <2>2
<1>10. QED
  BY <1>4, <1>6, <1>8, <1>9 DEF Synchronized

LEMMA SyncInit == Init => SyncInv
<1> SUFFICES ASSUME Init PROVE Synchronized
  BY DEF SyncInv
<1>1. /\ pc = "idle" /\ queued /\ image.state = "ABSENT"
      /\ ~desired.deleting /\ ~latest.deleting
  BY DEF Init, Blank
<1>2. ~cr.synced /\ cr.state = NIL
  BY DEF Init, Blank
<1>3. NIL \notin SyncedStates
  BY ImageAssumption DEF ImageStates, Settled, Built, SyncedStates
<1>4. TagsTracked /\ CopiesCurrent
  BY <1>1 DEF TagsTracked, CopiesCurrent, Asking
<1>5. StatesTracked
  BY <1>1, <1>2, <1>3 DEF StatesTracked, Reports, Asking
<1>6. StatusTrue
  BY <1>2 DEF StatusTrue
<1>7. QED
  BY <1>4, <1>5, <1>6 DEF Synchronized

LEMMA SyncStep == IInv /\ VersionsKnown /\ SyncInv /\ [Next]_vars => SyncInv'
<1> SUFFICES ASSUME IInv, VersionsKnown, SyncInv, [Next]_vars, Calm' PROVE Synchronized'
  BY DEF SyncInv
<1>1. SyncPre
  BY CalmStep DEF SyncPre, SyncInv, IInv
<1>2. CASE Sync
  BY <1>1, <1>2, NotCalm, FindNothingSync, FindImageSync, FailuresSync, ManageSync, RequestsSync,
     TagCallsSync, PatchSpecSync, LateReadSync DEF Sync
<1>3. CASE Dequeue \/ Delete \/ PatchStatus \/ PatchStatusFails
  BY <1>1, <1>3, NotCalm, DequeueSync, PatchStatusSync
<1>4. CASE \/ TimerFires \/ Crash \/ UserEdits \/ UserDeletes \/ Finish \/ Break \/ Outside
           \/ UNCHANGED vars
  BY <1>1, <1>4, NotCalm, AroundSync
<1>5. QED
  BY <1>2, <1>3, <1>4 DEF Next, Worker

\* Synced=True, once all edits are processed, means that the image matches the spec.
THEOREM SyncedSafety == Spec => []SyncedMatchesSpec
<1>1. SyncInv => SyncedMatchesSpec
  BY DEF SyncInv, Calm, Synchronized, StatusTrue, SyncedMatchesSpec
<1>2. IInv /\ RebuildInv /\ SyncInv /\ [Next]_vars => SyncInv'
  BY SyncStep DEF RebuildInv
<1>3. IInv /\ RebuildInv /\ [Next]_vars => RebuildInv'
  BY RebuildStep DEF IInv
<1>4. QED
  BY <1>1, <1>2, <1>3, Invariance, RebuildInit, SyncInit, PTL DEF Spec

=============================================================================
