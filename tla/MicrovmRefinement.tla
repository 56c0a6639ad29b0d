------------------------- MODULE MicrovmRefinement -------------------------
(***************************************************************************)
(* Microvm implements Managed: every step of the worker, of AWS and of the *)
(* user is a step that module Managed allows, or leaves what it speaks of  *)
(* alone.                                                                  *)
(*                                                                         *)
(* The invariant of MicrovmProofs says where the worker's identifier and   *)
(* the recorded one may differ.  Two facts are missing from it: the steps  *)
(* of a deletion are taken only for a CR that its user deleted, and what   *)
(* the worker reports never lacks the identifier that is recorded.         *)
(***************************************************************************)
EXTENDS MicrovmProofs

Tracking ==
    /\ pc \in {"delFind", "terminate", "unmanage"} => cr.deleting
    /\ pc \in {"terminate"} \cup Carrying /\ latest.id = NIL => cr.id = NIL

Strong == IInv /\ Tracking

-----------------------------------------------------------------------------
(* Tracking is an invariant.                                               *)

LEMMA Typed ==
    ASSUME IInv
    PROVE  /\ TypeInv /\ Protocol
           /\ cr \in Resource /\ desired \in Resource /\ latest \in Resource
           /\ vms \in [VMs -> VM]
BY DEF IInv, TypeInv, Protocol, TypeOK

\* A worker that settles reports the identifier it holds.
LEMMA SettleTracking ==
    ASSUME NEW r, NEW e, Settle(r, e), cr' = cr, r.id = NIL => cr.id = NIL
    PROVE  Tracking'
BY DEF Settle, Tracking

LEMMA RestTracking == ASSUME NEW b, Rest(b) PROVE Tracking'
BY DEF Rest, Tracking, Carrying

LEMMA FindTracking == Strong /\ (FindNothing \/ FindVM \/ FindFails) => Tracking'
<1> SUFFICES ASSUME Strong, FindNothing \/ FindVM \/ FindFails PROVE Tracking'
  OBVIOUS
<1>1. IInv /\ TypeInv /\ desired \in Resource
  BY Typed DEF Strong
<1>2. CASE FindNothing
  BY <1>2 DEF FindNothing, GoTo, Tracking, Carrying
<1>3. CASE FindVM
  <2> DEFINE r == Observed(desired, desired.id, vms[desired.id])
             ok == updateConditions(r, "none")
  <2>1. desired.id # NIL /\ vms[desired.id].state # "ABSENT"
    BY <1>1, <1>3 DEF FindVM, NotFound, requiredFieldsMissingFromReadOneInput, IInv, KnownIds
  <2>2. r \in Resource /\ r.id = desired.id
    BY <1>1, <1>3, <2>1, KnownVM, ObservedType DEF FindVM
  <2>3. \A s \in {r, ok} : \A e : updateConditions(s, e).id = desired.id
    BY <2>2, ConditionsType
  <2>4. /\ cr' = cr
        /\ \/ Settle(updateConditions(r, "terminal"), "terminal")
           \/ Settle(updateConditions(ok, "terminal"), "terminal")
           \/ GoTo("lateRead", Blank, ok)
    BY <1>3 DEF FindVM
  <2> HIDE DEF r, ok
  <2>5. CASE GoTo("lateRead", Blank, ok)
    <3>1. ok.id = desired.id
      BY <2>2, ConditionsType DEF ok
    <3>2. QED
      BY <2>1, <2>5, <3>1 DEF GoTo, Tracking
  <2>6. QED
    BY <2>1, <2>3, <2>4, <2>5, SettleTracking
<1>4. CASE FindFails
  BY <1>1, <1>4, ConditionsType, SettleTracking
     DEF FindFails, requiredFieldsMissingFromReadOneInput
<1>5. QED
  BY <1>2, <1>3, <1>4

LEMMA RunTracking == Strong /\ (Manage \/ Run \/ RunFails \/ RunAnswerLost) => Tracking'
<1> SUFFICES ASSUME Strong, Manage \/ Run \/ RunFails \/ RunAnswerLost PROVE Tracking'
  OBVIOUS
<1>1. TypeInv /\ desired \in Resource
  BY Typed DEF Strong
<1>2. CASE Manage
  BY <1>2, RestTracking DEF Manage, GoTo, Tracking, Carrying
<1>3. CASE Run
  <2>1. PICK v \in Unused :
           GoTo("patchRun", desired, updateConditions(Observed(desired, v, NewVM(desired)), "none"))
    BY <1>3 DEF Run
  <2> DEFINE o == Observed(desired, v, NewVM(desired))
  <2>2. o \in Resource /\ o.id = v
    BY <1>1, NewVMType, ObservedType DEF Unused, VMStates
  <2>3. updateConditions(o, "none").id = v /\ v # NIL
    BY <2>2, ConditionsType, MicrovmAssumption DEF Unused
  <2>4. QED
    BY <2>1, <2>3 DEF GoTo, Tracking
<1>4. CASE RunFails \/ RunAnswerLost
  <2>1. desired.id = cr.id
    BY <1>4 DEF RunFails, RunAnswerLost, Strong, IInv, IdTracking
  <2>2. QED
    BY <1>1, <1>4, <2>1, ConditionsType, SettleTracking DEF RunFails, RunAnswerLost
<1>5. QED
  BY <1>2, <1>3, <1>4

LEMMA LateTracking ==
    Strong /\ (PatchSpec \/ PatchSpecFails \/ LateRead \/ LateReadFails) => Tracking'
<1> SUFFICES ASSUME Strong, PatchSpec \/ PatchSpecFails \/ LateRead \/ LateReadFails
             PROVE  Tracking'
  OBVIOUS
<1>1. TypeInv /\ cr \in Resource /\ desired \in Resource /\ latest \in Resource
  BY Typed DEF Strong
<1>2. pc \in Carrying /\ (latest.id = NIL => cr.id = NIL)
  BY DEF Strong, Tracking, Carrying, PatchSpec, PatchSpecFails, LateRead, LateReadFails
<1>3. CASE PatchSpec
  <2>1. cr'.id = cr.id /\ pc' \in Carrying /\ latest' = latest
    BY <1>1, <1>3, MergeType DEF PatchSpec, GoTo, Settle, Carrying
  <2>2. QED
    BY <1>2, <2>1 DEF Tracking, Carrying
<1>4. CASE PatchSpecFails \/ LateReadFails
  BY <1>2, <1>4, SettleTracking DEF PatchSpecFails, LateReadFails
<1>5. CASE LateRead
  <2> DEFINE observed == Observed(latest, latest.id, vms[latest.id])
             filled == lateInitializeFromReadOneOutput(observed, latest)
  <2>1. observed \in Resource
    BY <1>1, <1>5, KnownVM, ObservedType
       DEF LateRead, NotFound, requiredFieldsMissingFromReadOneInput, TypeInv, KnownIds
  <2>2. filled.id = latest.id
    BY <1>1, <2>1, FilledType
  <2>3. cr' = cr /\ (Settle(latest, "terminal") \/ (pc' = "patchLate" /\ latest' = filled))
    BY <1>5 DEF LateRead
  <2> HIDE DEF observed, filled
  <2>4. QED
    BY <1>2, <2>2, <2>3, SettleTracking DEF Tracking
<1>6. QED
  BY <1>3, <1>4, <1>5

LEMMA DeleteTracking == Strong /\ Delete => Tracking'
<1> SUFFICES ASSUME Strong, Delete PROVE Tracking'
  OBVIOUS
<1>1. IInv /\ TypeInv /\ desired \in Resource /\ latest \in Resource
  BY Typed DEF Strong
<1>2. CASE DelFindNothing
  BY <1>2 DEF DelFindNothing, GoTo, Strong, Tracking, Carrying
<1>3. CASE DelFindVM
  <2> DEFINE o == Observed(desired, desired.id, vms[desired.id])
             r == updateConditions(o, "none")
  <2>1. desired.id # NIL /\ vms[desired.id].state # "ABSENT"
    BY <1>1, <1>3 DEF DelFindVM, NotFound, requiredFieldsMissingFromReadOneInput, IInv, KnownIds
  <2>2. o \in Resource /\ o.id = desired.id
    BY <1>1, <1>3, <2>1, KnownVM, ObservedType DEF DelFindVM
  <2>3. r.id = desired.id /\ updateConditions(r, "retry").id = desired.id
    BY <2>2, ConditionsType
  <2>4. /\ cr' = cr /\ cr.deleting
        /\ \/ GoTo("unmanage", Blank, Blank)
           \/ Settle(updateConditions(r, "retry"), "retry")
           \/ GoTo("terminate", Blank, r)
    BY <1>3 DEF DelFindVM, Strong, Tracking
  <2> HIDE DEF o, r
  <2>5. QED
    BY <2>1, <2>3, <2>4, SettleTracking DEF GoTo, Tracking, Carrying
<1>4. CASE Terminate \/ TerminateFails
  <2>1. latest.id # NIL
    BY <1>1, <1>4 DEF Terminate, TerminateFails, IInv, IdTracking
  <2>2. QED
    BY <1>1, <1>4, <2>1, ConditionsType, SettleTracking DEF Terminate, TerminateFails
<1>5. CASE DelFindFails \/ Unmanage \/ UnmanageFails
  BY <1>5, RestTracking DEF DelFindFails, Unmanage, UnmanageFails
<1>6. QED
  BY <1>2, <1>3, <1>4, <1>5 DEF Delete

LEMMA TrackingStep == Strong /\ [Next]_vars => Tracking'
<1> SUFFICES ASSUME Strong, [Next]_vars PROVE Tracking'
  OBVIOUS
<1>1. TypeInv /\ cr \in Resource
  BY Typed DEF Strong
<1>2. CASE Dequeue
  BY <1>2 DEF Dequeue, GoTo, worker, Strong, Tracking, Carrying
<1>3. CASE PatchStatus \/ PatchStatusFails \/ ManageFails \/ Crash
  BY <1>3 DEF PatchStatus, PatchStatusFails, ManageFails, Crash, Rest, Tracking, Carrying
<1>4. CASE TimerFires \/ Cloud \/ UNCHANGED vars
  BY <1>4 DEF TimerFires, Cloud, Progress, Suspend, Resume, SelfTerminate, Purge, MoveVM,
     vars, Strong, Tracking
<1>5. CASE UserEdits \/ UserDeletes
  <2>1. cr'.id = cr.id /\ (cr.deleting => cr'.deleting) /\ UNCHANGED <<pc, latest>>
    BY <1>1, <1>5 DEF UserEdits, UserDeletes, Resource
  <2>2. QED
    BY <2>1 DEF Strong, Tracking
<1>6. QED
  BY <1>2, <1>3, <1>4, <1>5, FindTracking, RunTracking, LateTracking, DeleteTracking
     DEF Next, Worker, Sync

LEMMA StrongInvariance == Spec => []Strong
<1>1. Init => Tracking
  BY DEF Init, Tracking, Carrying
<1>2. IInv /\ Tracking /\ [Next]_vars => Tracking'
  BY TrackingStep DEF Strong
<1>3. QED
  BY <1>1, <1>2, Invariance, PTL DEF Spec, Strong

-----------------------------------------------------------------------------
(* Every step is one of module Managed.                                    *)

Abstract == [Promise!Next]_(Promise!vars)

\* A step that touches neither the VMs nor what Managed reads of the CR.
LEMMA Silent ==
    ASSUME UNCHANGED <<exists, vms>>,
           cr'.id = cr.id, cr'.finalizer = cr.finalizer, cr'.deleting = cr.deleting
    PROVE  Abstract
BY DEF Abstract, Promise!vars

LEMMA SilentSteps ==
    Strong /\ (Dequeue \/ FindNothing \/ FindVM \/ FindFails \/ Failures
               \/ PatchSpec \/ LateRead \/ DelFindNothing \/ DelFindVM
               \/ TimerFires \/ Crash \/ UserEdits \/ UNCHANGED vars) => Abstract
<1>1. ASSUME UNCHANGED <<cr, exists, vms>> PROVE Abstract
  BY <1>1, Silent
<1>2. ASSUME Strong, PatchSpec \/ UserEdits PROVE Abstract
  <2>1. cr \in Resource /\ desired \in Resource /\ latest \in Resource
    BY <1>2, Typed DEF Strong
  <2>2. /\ cr'.id = cr.id /\ cr'.finalizer = cr.finalizer /\ cr'.deleting = cr.deleting
        /\ UNCHANGED <<exists, vms>>
    BY <1>2, <2>1, MergeType DEF PatchSpec, UserEdits, Resource
  <2>3. QED
    BY <2>2, Silent
<1>3. QED
  BY <1>1, <1>2 DEF Dequeue, FindNothing, FindVM, FindFails, Failures, ManageFails, RunFails,
     PatchSpecFails, LateReadFails, PatchStatusFails, DelFindFails, TerminateFails,
     UnmanageFails, LateRead, DelFindNothing, DelFindVM, TimerFires, Crash, vars

\* A VM that changes state either advances or stays what it was to Managed.
LEMMA MoveAdvances ==
    ASSUME TypeInv, UNCHANGED <<cr, exists>>, NEW v \in VMs, NEW s \in VMStates \cup {"PURGED"},
           vms' = [vms EXCEPT ![v].state = s],
           Life(s) = Life(vms[v].state) \/ <<Life(vms[v].state), Life(s)>> \in Promise!Later
    PROVE  Abstract
<1> DEFINE life == [w \in VMs |-> Life(vms[w].state)]
<1>1. vms'[v].state = s /\ \A w \in VMs \ {v} : vms'[w] = vms[w]
  BY StateChange
<1>2. life' = [life EXCEPT ![v] = Life(s)]
  <2>1. \A w \in VMs : Life(vms'[w].state) = IF w = v THEN Life(s) ELSE Life(vms[w].state)
    BY <1>1
  <2> DEFINE L(w) == Life(vms[w].state)
             M(w) == Life(vms'[w].state)
  <2>2. \A w \in VMs : M(w) = IF w = v THEN Life(s) ELSE L(w)
    BY <2>1
  <2> HIDE DEF L, M
  <2>3. [w \in VMs |-> M(w)] = [[w \in VMs |-> L(w)] EXCEPT ![v] = Life(s)]
    BY <2>2
  <2>4. QED
    BY <2>3 DEF L, M
<1>3. life[v] = Life(vms[v].state) /\ life'[v] = Life(s)
  BY <1>1
<1>4. CASE Life(s) = Life(vms[v].state)
  <2>1. life' = life
    BY <1>2, <1>3, <1>4
  <2>2. QED
    BY <2>1 DEF Abstract, Promise!vars
<1>5. CASE <<Life(vms[v].state), Life(s)>> \in Promise!Later
  <2>1. Promise!Advance(v)
    BY <1>2, <1>3, <1>5 DEF Promise!Advance
  <2>2. QED
    BY <2>1 DEF Abstract, Promise!Next
<1>6. QED
  BY <1>4, <1>5

LEMMA CloudAdvances == Strong /\ Cloud => Abstract
<1> SUFFICES ASSUME Strong, Cloud PROVE Abstract
  OBVIOUS
<1>1. TypeInv
  BY Typed DEF Strong
<1>2. PICK v \in VMs : Progress(v) \/ Suspend(v) \/ Resume(v) \/ SelfTerminate(v) \/ Purge(v)
  BY DEF Cloud
<1>3. /\ UNCHANGED <<cr, exists>>
      /\ \E s \in VMStates \cup {"PURGED"} :
           /\ vms' = [vms EXCEPT ![v].state = s]
           /\ \/ Life(s) = Life(vms[v].state)
              \/ <<Life(vms[v].state), Life(s)>> \in Promise!Later
  BY <1>2 DEF Progress, Suspend, Resume, SelfTerminate, Purge, MoveVM, Life, Promise!Later,
     VMStates, SyncedStates
<1>4. QED
  BY <1>1, <1>3, MoveAdvances

\* RunMicrovm, whether its answer arrives or not, begins a VM.
LEMMA RunBegins == Strong /\ (Run \/ RunAnswerLost) => Abstract
<1> SUFFICES ASSUME Strong, Run \/ RunAnswerLost PROVE Abstract
  OBVIOUS
<1> DEFINE life == [w \in VMs |-> Life(vms[w].state)]
<1>1. /\ TypeInv /\ Protocol /\ cr \in Resource /\ desired \in Resource
      /\ vms \in [VMs -> VM]
  BY Typed DEF Strong
<1>2. PICK v \in Unused : vms' = [vms EXCEPT ![v] = NewVM(desired)]
  BY DEF Run, RunAnswerLost
<1>3. v \in VMs /\ Gone(cr.id) /\ exists /\ cr.finalizer
  BY <1>1, <1>2, RunMicrovm DEF Run, RunAnswerLost
<1>4. life' = [life EXCEPT ![v] = "alive"]
  BY <1>1, <1>2, <1>3, NewVMType DEF Life
<1>5. life[v] = "unused" /\ (cr.id # NIL => life[cr.id] = "gone")
  BY <1>1, <1>3 DEF Life, Unused, Gone, Resource
<1>6. Promise!Begin(v)
  BY <1>3, <1>4, <1>5 DEF Promise!Begin, Promise!Replaceable, Run, RunAnswerLost
<1>7. QED
  BY <1>3, <1>6 DEF Abstract, Promise!Next

LEMMA StatusRecords == Strong /\ PatchStatus => Abstract
<1> SUFFICES ASSUME Strong, PatchStatus PROVE Abstract
  OBVIOUS
<1>1. IInv /\ TypeInv /\ cr \in Resource /\ latest \in Resource
  BY Typed DEF Strong
<1>2. /\ pc = "status" /\ cr'.id = latest.id
      /\ cr'.finalizer = cr.finalizer /\ cr'.deleting = cr.deleting
      /\ UNCHANGED <<exists, vms>>
  BY <1>1, PatchStatusEffect
<1>3. CASE latest.id = cr.id
  BY <1>2, <1>3, Silent
<1>4. CASE latest.id # cr.id
  <2>1. Gone(cr.id) /\ latest.id # NIL /\ exists /\ cr.finalizer
    BY <1>1, <1>2, <1>4 DEF Strong, Tracking, IInv, IdTracking, FinalizerHeld, Carrying
  <2>2. latest.id \in VMs /\ Life(vms[latest.id].state) # "unused"
    BY <1>1, <2>1 DEF IInv, KnownIds, Resource, Life
  <2>3. cr.id # NIL => cr.id \in VMs /\ Life(vms[cr.id].state) = "gone"
    BY <1>1, <2>1 DEF Gone, Resource, Life
  <2>4. Promise!Record(latest.id)
    BY <1>2, <2>1, <2>2, <2>3 DEF Promise!Record, Promise!Replaceable
  <2>5. QED
    BY <2>2, <2>4 DEF Abstract, Promise!Next
<1>5. QED
  BY <1>3, <1>4

LEMMA FinalizerManages == Strong /\ Manage => Abstract
<1> SUFFICES ASSUME Strong, Manage PROVE Abstract
  OBVIOUS
<1>1. cr \in Resource
  BY Typed DEF Strong
<1>2. CASE ~exists \/ cr.finalizer
  <2>1. /\ cr'.id = cr.id /\ cr'.finalizer = cr.finalizer /\ cr'.deleting = cr.deleting
        /\ UNCHANGED <<exists, vms>>
    BY <1>1, <1>2 DEF Manage, Resource
  <2>2. QED
    BY <2>1, Silent
<1>3. CASE exists /\ ~cr.finalizer
  <2>1. /\ cr'.id = cr.id /\ cr'.finalizer /\ cr'.deleting = cr.deleting
        /\ UNCHANGED <<exists, vms>>
    BY <1>1, <1>3 DEF Manage, Resource
  <2>2. Promise!Manage
    BY <1>3, <2>1 DEF Promise!Manage
  <2>3. QED
    BY <2>2 DEF Abstract, Promise!Next
<1>4. QED
  BY <1>2, <1>3

LEMMA TerminateAdvances == Strong /\ Terminate => Abstract
<1> SUFFICES ASSUME Strong, Terminate PROVE Abstract
  OBVIOUS
<1>1. IInv /\ TypeInv /\ latest \in Resource /\ vms \in [VMs -> VM]
  BY Typed DEF Strong
<1>2. latest.id \in VMs /\ vms[latest.id].state # "ABSENT" /\ UNCHANGED <<cr, exists>>
  BY <1>1 DEF Terminate, IInv, IdTracking, KnownIds, Resource
<1>3. CASE UNCHANGED vms
  BY <1>2, <1>3, Silent
<1>4. CASE Live(latest.id) /\ vms' = [vms EXCEPT ![latest.id].state = "TERMINATING"]
  <2>1. \/ Life(vms[latest.id].state) = Life("TERMINATING")
        \/ <<Life(vms[latest.id].state), Life("TERMINATING")>> \in Promise!Later
    BY <1>2, <1>4 DEF Live, Life, Promise!Later
  <2>2. QED
    BY <1>1, <1>2, <1>4, <2>1, MoveAdvances DEF VMStates
<1>5. CASE ~Live(latest.id) /\ vms' = [vms EXCEPT ![latest.id].state = @]
  BY <1>1, <1>2, <1>3, <1>5 DEF VM
<1>6. QED
  BY <1>3, <1>4, <1>5 DEF Terminate

LEMMA UserAsks == Strong /\ UserDeletes => Abstract
<1> SUFFICES ASSUME Strong, UserDeletes PROVE Abstract
  OBVIOUS
<1>1. cr \in Resource
  BY Typed DEF Strong
<1>2. /\ exists /\ ~cr.deleting /\ cr'.deleting /\ exists' = cr.finalizer
      /\ cr'.id = cr.id /\ cr'.finalizer = cr.finalizer /\ UNCHANGED vms
  BY <1>1 DEF UserDeletes, Resource
<1>3. Promise!Ask
  BY <1>1, <1>2 DEF Promise!Ask, Resource
<1>4. QED
  BY <1>3 DEF Abstract, Promise!Next

LEMMA UnmanageRemoves == Strong /\ Unmanage => Abstract
<1> SUFFICES ASSUME Strong, Unmanage PROVE Abstract
  OBVIOUS
<1>1. IInv /\ cr \in Resource
  BY Typed DEF Strong
<1>2. exists /\ cr.finalizer /\ cr.deleting /\ Over(cr.id)
  BY <1>1 DEF Unmanage, Strong, Tracking, IInv, FinalizerHeld, IdTracking
<1>3. cr'.id = cr.id /\ cr'.deleting = cr.deleting /\ ~exists' /\ UNCHANGED vms
  BY <1>1 DEF Unmanage, Resource
<1>4. cr.id # NIL => cr.id \in VMs /\ Life(vms[cr.id].state) \in {"over", "gone"}
  BY <1>1, <1>2 DEF Over, Resource, Life
<1>5. Promise!Remove
  BY <1>2, <1>3, <1>4 DEF Promise!Remove
<1>6. QED
  BY <1>5 DEF Abstract, Promise!Next

\* The controller keeps the promise of Managed, for every set of VMs and values and
\* every bound on failures, lost answers and crashes.
THEOREM Refinement == Spec => KeepsPromise
<1>1. Init => Promise!Init
  BY BlankType DEF Init, Promise!Init, Blank, Life
<1>2. Strong /\ [Next]_vars => [Promise!Next]_(Promise!vars)
  BY SilentSteps, CloudAdvances, RunBegins, StatusRecords, FinalizerManages,
     TerminateAdvances, UserAsks, UnmanageRemoves
     DEF Next, Worker, Sync, Delete, Failures, Abstract
<1>3. QED
  BY <1>1, <1>2, StrongInvariance, PTL DEF Spec, KeepsPromise, Promise!Spec

\* What ManagedProofs asks of an instance holds of this one: no VM is left behind
\* that was recorded and not released (PromiseSuffices).
THEOREM PromiseSound == Promise!Sound
BY MicrovmAssumption DEF MicrovmAssumption, Promise!Sound, Promise!States, Promise!Later

=============================================================================
