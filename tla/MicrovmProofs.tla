--------------------------- MODULE MicrovmProofs ---------------------------
(***************************************************************************)
(* What holds of Microvm for every set of VMs, values and payloads, for    *)
(* every set of allowed disturbances and whatever AWS omits while it       *)
(* starts a VM.                                                            *)
(***************************************************************************)
EXTENDS Microvm, TLAPS

-----------------------------------------------------------------------------
(* What the operators on resources return.                                 *)

LEMMA BlankType == Blank \in Resource /\ Blank.id = NIL
BY DEF Blank, Resource

\* sdkFind's merge: a resource that names the VM and carries its state.
LEMMA ObservedType ==
    ASSUME NEW r \in Resource, NEW v \in VMs, NEW m \in VM, m.state \in VMStates
    PROVE  LET o == Observed(r, v, m)
           IN /\ o \in Resource
              /\ o.id = v
              /\ o.state = m.state
              /\ o.finalizer = r.finalizer
              /\ o.late = IF m.state \in LateStates THEN m.late ELSE NIL
BY DEF Observed, Resource, VM

\* updateConditions touches nothing but the conditions.
LEMMA ConditionsType ==
    ASSUME NEW r \in Resource, NEW e
    PROVE  LET u == updateConditions(r, e)
           IN /\ u \in Resource
              /\ u.id = r.id
              /\ u.state = r.state
              /\ u.finalizer = r.finalizer
BY DEF updateConditions, Resource

LEMMA ResetType ==
    ASSUME NEW r \in Resource
    PROVE  /\ ResetConditions(r) \in Resource
           /\ ResetConditions(r).id = r.id
           /\ ResetConditions(r).finalizer = r.finalizer
BY DEF ResetConditions, Resource

LEMMA EnsureType ==
    ASSUME NEW r \in Resource, NEW e
    PROVE  /\ ensureConditions(r, e) \in Resource
           /\ ensureConditions(r, e).id = r.id
BY DEF ensureConditions, IsSynced, Resource

LEMMA MergeType ==
    ASSUME NEW c \in Resource, NEW a \in Resource, NEW b \in Resource
    PROVE  LET m == MergeSpec(c, a, b)
           IN /\ m \in Resource
              /\ m.id = c.id
              /\ m.finalizer = c.finalizer
              /\ m.deleting = c.deleting
<1> DEFINE e == IF a.echo = b.echo THEN c.echo ELSE b.echo
           l == IF a.late = b.late THEN c.late ELSE b.late
<1>1. e \in Vals \cup {NIL} /\ l \in Vals \cup {NIL}
  BY DEF Resource
<1>2. MergeSpec(c, a, b) = [c EXCEPT !.echo = e, !.late = l]
  BY DEF MergeSpec
<1> HIDE DEF e, l
<1>3. QED
  BY <1>1, <1>2 DEF Resource

LEMMA FilledType ==
    ASSUME NEW o \in Resource, NEW r \in Resource
    PROVE  /\ lateInitializeFromReadOneOutput(o, r) \in Resource
           /\ lateInitializeFromReadOneOutput(o, r).id = r.id
BY DEF lateInitializeFromReadOneOutput, Resource

LEMMA NewVMType ==
    ASSUME NEW r \in Resource
    PROVE  NewVM(r) \in VM /\ NewVM(r).state = "PENDING"
BY MicrovmAssumption DEF NewVM, OrDefault, Resource, VM, VMStates

LEMMA SpendType ==
    ASSUME NEW k \in Kinds, used \in [Kinds -> Nat], Spend(k)
    PROVE  /\ used' \in [Kinds -> Nat]
           /\ used'[k] # 0
           /\ \A j \in Kinds : used'[j] = 0 => used[j] = 0
BY DEF Spend

-----------------------------------------------------------------------------
(* Type correctness.  GetMicrovm never answers for an identifier that was  *)
(* not handed out, so the typing of the worker's copies rests on KnownIds. *)

TypeInv == TypeOK /\ KnownIds

LEMMA TypeInit == Init => TypeInv
<1> SUFFICES ASSUME Init PROVE TypeInv
  OBVIOUS
<1>1. PICK e \in Vals \cup {NIL}, l \in Vals \cup {NIL}, h \in Payloads \cup {NIL} :
         cr = [Blank EXCEPT !.echo = e, !.late = l, !.hidden = h]
  BY DEF Init
<1>2. cr \in Resource /\ cr.id = NIL
  BY <1>1 DEF Blank, Resource
<1>3. vms \in [VMs -> VM]
  BY MicrovmAssumption DEF Init, VM
<1>4. used \in [Kinds -> Nat]
  BY DEF Init
<1>5. TypeOK
  BY <1>2, <1>3, <1>4, BlankType DEF Init, TypeOK, PCs
<1>6. KnownIds
  BY <1>2, BlankType DEF Init, KnownIds
<1>7. QED
  BY <1>5, <1>6 DEF TypeInv

\* A VM that AWS knows or knew is one that was handed out.
LEMMA KnownVM ==
    ASSUME TypeInv, NEW r \in Resource, ~NotFound(r), vms[r.id].state # "ABSENT"
    PROVE  /\ r.id \in VMs
           /\ vms[r.id] \in VM
           /\ vms[r.id].state \in VMStates
BY DEF TypeInv, TypeOK, NotFound, requiredFieldsMissingFromReadOneInput, Forgotten, Resource, VM

\* GoTo, Settle and Rest leave the worker with typed copies.
LEMMA GoToType ==
    ASSUME NEW l \in PCs, NEW d \in Resource, NEW r \in Resource, GoTo(l, d, r)
    PROVE  /\ pc' \in PCs
           /\ desired' \in Resource /\ desired'.id = d.id
           /\ latest' \in Resource /\ latest'.id = r.id
           /\ err' \in {"none", "retry", "terminal"}
BY DEF GoTo

LEMMA SettleType ==
    ASSUME NEW r \in Resource, NEW e \in {"none", "retry", "terminal"}, Settle(r, e)
    PROVE  /\ pc' \in PCs
           /\ desired' \in Resource /\ desired'.id = NIL
           /\ latest' \in Resource /\ latest'.id = r.id
           /\ err' \in {"none", "retry", "terminal"}
BY BlankType DEF Settle, PCs

LEMMA RestType ==
    ASSUME NEW b \in BOOLEAN, timer \in BOOLEAN, Rest(b)
    PROVE  /\ pc' \in PCs
           /\ desired' \in Resource /\ desired'.id = NIL
           /\ latest' \in Resource /\ latest'.id = NIL
           /\ err' \in {"none", "retry", "terminal"}
           /\ timer' \in BOOLEAN
BY BlankType DEF Rest, PCs

Ids == {NIL, cr.id, desired.id, latest.id}

WorkerTyped ==
    /\ pc' \in PCs
    /\ desired' \in Resource /\ desired'.id \in Ids
    /\ latest' \in Resource /\ latest'.id \in Ids
    /\ err' \in {"none", "retry", "terminal"}

\* A step of the worker that neither patches the CR nor changes a VM.
LEMMA WorkerStep ==
    ASSUME TypeInv, WorkerTyped, UNCHANGED <<cr, exists, vms>>,
           queued' \in BOOLEAN, timer' \in BOOLEAN, used' \in [Kinds -> Nat]
    PROVE  TypeInv'
BY DEF TypeInv, TypeOK, KnownIds, WorkerTyped, Ids

LEMMA DequeueType == TypeInv /\ Dequeue => TypeInv'
<1> SUFFICES ASSUME TypeInv, Dequeue PROVE TypeInv'
  OBVIOUS
<1>1. cr \in Resource
  BY DEF TypeInv, TypeOK
<1>2. CASE UNCHANGED worker
  BY <1>2, WorkerStep DEF worker, Dequeue, TypeInv, TypeOK, WorkerTyped, Ids
<1>3. CASE GoTo("delFind", cr, Blank)
  <2>1. WorkerTyped
    BY <1>1, <1>3, GoToType, BlankType DEF PCs, WorkerTyped, Ids
  <2>2. QED
    BY <2>1, WorkerStep DEF Dequeue, TypeInv, TypeOK
<1>4. CASE GoTo("find", ResetConditions(cr), Blank)
  <2>1. WorkerTyped
    BY <1>1, <1>4, GoToType, ResetType, BlankType DEF PCs, WorkerTyped, Ids
  <2>2. QED
    BY <2>1, WorkerStep DEF Dequeue, TypeInv, TypeOK
<1>5. QED
  BY <1>2, <1>3, <1>4 DEF Dequeue

\* What sdkFind returns for a VM that is found.
LEMMA FoundType ==
    ASSUME TypeInv, NEW d \in Resource, ~NotFound(d), d.id \in Ids
    PROVE  LET r == Observed(d, d.id, vms[d.id])
           IN /\ d.id \in VMs
              /\ vms[d.id].state \in VMStates
              /\ r \in Resource /\ r.id = d.id /\ r.state = vms[d.id].state
<1>1. d.id \in VMs /\ vms[d.id] \in VM /\ vms[d.id].state \in VMStates
  BY KnownVM DEF TypeInv, TypeOK, KnownIds, Ids, NotFound, requiredFieldsMissingFromReadOneInput
<1>2. QED
  BY <1>1, ObservedType

LEMMA FindVMType == TypeInv /\ FindVM => TypeInv'
<1> SUFFICES ASSUME TypeInv, FindVM PROVE TypeInv'
  OBVIOUS
<1> DEFINE r == Observed(desired, desired.id, vms[desired.id])
           ok == updateConditions(r, "none")
<1>1. desired \in Resource /\ desired.id \in Ids
  BY DEF TypeInv, TypeOK, Ids
<1>2. r \in Resource /\ r.id = desired.id
  BY <1>1, FoundType DEF FindVM
<1>3. \/ Settle(updateConditions(r, "terminal"), "terminal")
      \/ Settle(updateConditions(ok, "terminal"), "terminal")
      \/ GoTo("lateRead", Blank, ok)
  BY DEF FindVM
<1> HIDE DEF r
<1>4. ok \in Resource /\ ok.id = desired.id
  BY <1>2, ConditionsType
<1> HIDE DEF ok
<1>5. \A x \in {r, ok} : /\ updateConditions(x, "terminal") \in Resource
                         /\ updateConditions(x, "terminal").id = desired.id
  BY <1>2, <1>4, ConditionsType
<1>6. "lateRead" \in PCs
  BY DEF PCs
<1>7. WorkerTyped
  BY <1>3, <1>4, <1>5, <1>6, SettleType, GoToType, BlankType DEF WorkerTyped, Ids
<1>8. QED
  BY <1>7, WorkerStep DEF FindVM, TypeInv, TypeOK

LEMMA FindOtherType == TypeInv /\ (FindNothing \/ FindFails) => TypeInv'
<1> SUFFICES ASSUME TypeInv, FindNothing \/ FindFails PROVE TypeInv'
  OBVIOUS
<1>1. desired \in Resource /\ used \in [Kinds -> Nat] /\ queued \in BOOLEAN /\ timer \in BOOLEAN
  BY DEF TypeInv, TypeOK
<1>2. CASE FindNothing
  <2>1. WorkerTyped
    BY <1>1, <1>2, GoToType, BlankType DEF FindNothing, PCs, WorkerTyped, Ids
  <2>2. QED
    BY <1>1, <1>2, <2>1, WorkerStep DEF FindNothing
<1>3. CASE FindFails
  <2>1. used' \in [Kinds -> Nat]
    BY <1>1, <1>3, SpendType DEF FindFails, Kinds
  <2>2. WorkerTyped
    BY <1>1, <1>3, SettleType, ConditionsType DEF FindFails, WorkerTyped, Ids
  <2>3. QED
    BY <1>1, <1>3, <2>1, <2>2, WorkerStep DEF FindFails
<1>4. QED
  BY <1>2, <1>3

\* A step of the worker that only ends or gives up a reconciliation.
LEMMA SettleStep ==
    ASSUME TypeInv, UNCHANGED <<cr, exists, vms, queued, timer>>,
           used' \in [Kinds -> Nat],
           NEW r \in Resource, r.id \in Ids,
           NEW e \in {"none", "retry", "terminal"}, Settle(r, e)
    PROVE  TypeInv'
<1>1. WorkerTyped
  BY SettleType DEF WorkerTyped, Ids
<1>2. QED
  BY <1>1, WorkerStep DEF TypeInv, TypeOK

LEMMA RestStep ==
    ASSUME TypeInv, UNCHANGED <<cr, exists, vms, queued>>,
           used' \in [Kinds -> Nat], NEW b \in BOOLEAN, Rest(b)
    PROVE  TypeInv'
<1>1. WorkerTyped /\ timer' \in BOOLEAN
  BY RestType DEF WorkerTyped, Ids, TypeInv, TypeOK
<1>2. QED
  BY <1>1, WorkerStep DEF TypeInv, TypeOK

\* The actions that end with an error before they changed anything.
Failures ==
    \/ ManageFails \/ RunFails \/ PatchSpecFails \/ LateReadFails
    \/ PatchStatusFails \/ DelFindFails \/ TerminateFails \/ UnmanageFails

LEMMA FailuresType == TypeInv /\ Failures => TypeInv'
<1> SUFFICES ASSUME TypeInv, Failures PROVE TypeInv'
  OBVIOUS
<1>1. /\ desired \in Resource /\ desired.id \in Ids
      /\ latest \in Resource /\ latest.id \in Ids
      /\ used \in [Kinds -> Nat]
  BY DEF TypeInv, TypeOK, Ids
<1>2. \A e : /\ updateConditions(desired, e) \in Resource
             /\ updateConditions(desired, e).id \in Ids
             /\ updateConditions(latest, e) \in Resource
             /\ updateConditions(latest, e).id \in Ids
  BY <1>1, ConditionsType
<1>3. \A k \in Kinds : Spend(k) => used' \in [Kinds -> Nat]
  BY <1>1, SpendType
<1>4. CASE ManageFails
  BY <1>3, <1>4, RestStep DEF ManageFails, Kinds
<1>5. CASE RunFails
  BY <1>1, <1>2, <1>3, <1>5, SettleStep DEF RunFails, Kinds
<1>6. CASE PatchSpecFails
  BY <1>1, <1>3, <1>6, SettleStep DEF PatchSpecFails, Kinds
<1>7. CASE LateReadFails
  BY <1>1, <1>3, <1>7, SettleStep DEF LateReadFails, Kinds
<1>8. CASE PatchStatusFails
  BY <1>3, <1>8, RestStep DEF PatchStatusFails, Requeues, Kinds
<1>9. CASE DelFindFails
  BY <1>3, <1>9, RestStep DEF DelFindFails, Kinds
<1>10. CASE TerminateFails
  BY <1>2, <1>3, <1>10, SettleStep DEF TerminateFails, Kinds
<1>11. CASE UnmanageFails
  BY <1>3, <1>11, RestStep DEF UnmanageFails, Kinds
<1>12. QED
  BY <1>4, <1>5, <1>6, <1>7, <1>8, <1>9, <1>10, <1>11 DEF Failures

\* A step that patches the CR, moves a VM or hands out a new one.
HandedOut == {v \in VMs : vms[v].state # "ABSENT"}

LEMMA AnyStep ==
    ASSUME TypeInv,
           cr' \in Resource, cr'.id \in Ids,
           exists' \in BOOLEAN, queued' \in BOOLEAN, timer' \in BOOLEAN,
           vms' \in [VMs -> VM], HandedOut \subseteq HandedOut',
           pc' \in PCs, err' \in {"none", "retry", "terminal"},
           desired' \in Resource, desired'.id \in Ids \cup HandedOut',
           latest' \in Resource, latest'.id \in Ids \cup HandedOut',
           used' \in [Kinds -> Nat]
    PROVE  TypeInv'
<1>1. Ids \subseteq HandedOut' \cup {NIL}
  BY DEF TypeInv, TypeOK, KnownIds, Ids, HandedOut, Resource
<1>2. \A i \in HandedOut' : vms'[i].state # "ABSENT"
  BY DEF HandedOut
<1>3. KnownIds'
  BY <1>1, <1>2 DEF KnownIds
<1>4. QED
  BY <1>3 DEF TypeInv, TypeOK

LEMMA ManageType == TypeInv /\ Manage => TypeInv'
<1> SUFFICES ASSUME TypeInv, Manage PROVE TypeInv'
  OBVIOUS
<1>1. cr \in Resource /\ desired \in Resource
  BY DEF TypeInv, TypeOK
<1>2. CASE exists
  <2> DEFINE d == [desired EXCEPT !.finalizer = TRUE]
  <2>0. cr' = [cr EXCEPT !.finalizer = TRUE]
    BY <1>2 DEF Manage
  <2>1. d \in Resource /\ d.id = desired.id /\ cr' \in Resource /\ cr'.id = cr.id
    BY <1>1, <2>0 DEF Resource
  <2>2. GoTo("run", d, Blank) /\ "run" \in PCs
    BY <1>2 DEF Manage, PCs
  <2> HIDE DEF d
  <2>3. WorkerTyped
    BY <2>1, <2>2, GoToType, BlankType DEF WorkerTyped, Ids
  <2>4. QED
    BY <1>2, <2>1, <2>3, AnyStep DEF Manage, TypeInv, TypeOK, WorkerTyped, Ids, HandedOut
<1>3. CASE ~exists
  BY <1>3, RestStep DEF Manage, TypeInv, TypeOK
<1>4. QED
  BY <1>2, <1>3

\* RunMicrovm hands out a new identifier; the worker works with it or not.
LEMMA HandOut ==
    ASSUME TypeInv, NEW v \in Unused, vms' = [vms EXCEPT ![v] = NewVM(desired)]
    PROVE  /\ vms' \in [VMs -> VM] /\ v \in VMs /\ v \in HandedOut'
           /\ HandedOut \subseteq HandedOut'
<1>1. NewVM(desired) \in VM /\ NewVM(desired).state = "PENDING"
  BY NewVMType DEF TypeInv, TypeOK
<1>2. QED
  BY <1>1 DEF TypeInv, TypeOK, Unused, HandedOut

LEMMA RunType == TypeInv /\ Run => TypeInv'
<1> SUFFICES ASSUME TypeInv, Run PROVE TypeInv'
  OBVIOUS
<1> DEFINE created(v) == updateConditions(Observed(desired, v, NewVM(desired)), "none")
<1>1. PICK v \in Unused : /\ vms' = [vms EXCEPT ![v] = NewVM(desired)]
                          /\ GoTo("patchRun", desired, created(v))
  BY DEF Run
<1>2. /\ vms' \in [VMs -> VM] /\ v \in VMs /\ v \in HandedOut'
      /\ HandedOut \subseteq HandedOut'
  BY <1>1, HandOut
<1>3. desired \in Resource
  BY DEF TypeInv, TypeOK
<1>4. Observed(desired, v, NewVM(desired)) \in Resource /\ Observed(desired, v, NewVM(desired)).id = v
  BY <1>2, <1>3, NewVMType, ObservedType DEF VMStates
<1>5. created(v) \in Resource /\ created(v).id = v
  BY <1>4, ConditionsType
<1> HIDE DEF created
<1>6. /\ pc' \in PCs /\ err' \in {"none", "retry", "terminal"}
      /\ desired' \in Resource /\ desired'.id = desired.id
      /\ latest' \in Resource /\ latest'.id = v
  BY <1>1, <1>3, <1>5, GoToType DEF PCs
<1>7. QED
  BY <1>2, <1>6, AnyStep DEF Run, TypeInv, TypeOK, Ids

LEMMA RunAnswerLostType == TypeInv /\ RunAnswerLost => TypeInv'
<1> SUFFICES ASSUME TypeInv, RunAnswerLost PROVE TypeInv'
  OBVIOUS
<1>1. PICK v \in Unused : vms' = [vms EXCEPT ![v] = NewVM(desired)]
  BY DEF RunAnswerLost
<1>2. vms' \in [VMs -> VM] /\ HandedOut \subseteq HandedOut'
  BY <1>1, HandOut
<1>3. desired \in Resource /\ used' \in [Kinds -> Nat]
  BY SpendType DEF RunAnswerLost, Kinds, TypeInv, TypeOK
<1>4. WorkerTyped
  BY <1>3, SettleType, ConditionsType DEF RunAnswerLost, WorkerTyped, Ids
<1>5. QED
  BY <1>2, <1>3, <1>4, AnyStep DEF RunAnswerLost, TypeInv, TypeOK, WorkerTyped, Ids

LEMMA PatchSpecType == TypeInv /\ PatchSpec => TypeInv'
<1> SUFFICES ASSUME TypeInv, PatchSpec PROVE TypeInv'
  OBVIOUS
<1>1. cr \in Resource /\ desired \in Resource /\ latest \in Resource /\ err \in {"none", "retry", "terminal"}
  BY DEF TypeInv, TypeOK
<1>2. cr' \in Resource /\ cr'.id = cr.id
  BY <1>1, MergeType DEF PatchSpec
<1>3. WorkerTyped
  <2>1. CASE GoTo("lateRead", Blank, latest)
    BY <1>1, <2>1, GoToType, BlankType DEF WorkerTyped, Ids, PCs
  <2>2. CASE Settle(latest, err)
    BY <1>1, <2>2, SettleType DEF WorkerTyped, Ids
  <2>3. QED
    BY <2>1, <2>2 DEF PatchSpec
<1>4. QED
  BY <1>2, <1>3, AnyStep DEF PatchSpec, TypeInv, TypeOK, WorkerTyped, Ids, HandedOut

LEMMA LateReadType == TypeInv /\ LateRead => TypeInv'
<1> SUFFICES ASSUME TypeInv, LateRead PROVE TypeInv'
  OBVIOUS
<1> DEFINE observed == Observed(latest, latest.id, vms[latest.id])
           filled == lateInitializeFromReadOneOutput(observed, latest)
<1>1. latest \in Resource /\ latest.id \in Ids
  BY DEF TypeInv, TypeOK, Ids
<1>2. observed \in Resource
  BY <1>1, FoundType DEF LateRead
<1>3. filled \in Resource /\ filled.id = latest.id
  BY <1>1, <1>2, FilledType
<1>4. \/ Settle(latest, "terminal")
      \/ /\ pc' = "patchLate" /\ desired' = latest /\ latest' = filled
         /\ err' \in {"none", "retry"}
  BY DEF LateRead
<1> HIDE DEF filled
<1>5. WorkerTyped
  BY <1>1, <1>3, <1>4, SettleType DEF WorkerTyped, Ids, PCs
<1>6. QED
  BY <1>5, WorkerStep DEF LateRead, TypeInv, TypeOK

LEMMA PatchStatusType == TypeInv /\ PatchStatus => TypeInv'
<1> SUFFICES ASSUME TypeInv, PatchStatus PROVE TypeInv'
  OBVIOUS
<1> DEFINE r == ensureConditions(latest, err)
<1>1. cr \in Resource /\ latest \in Resource
  BY DEF TypeInv, TypeOK
<1>2. r \in Resource /\ r.id = latest.id
  BY <1>1, EnsureType
<1>3. cr' = [cr EXCEPT !.id = r.id, !.state = r.state, !.terminal = r.terminal,
                       !.recoverable = r.recoverable, !.synced = r.synced]
  BY DEF PatchStatus
<1> HIDE DEF r
<1>4. cr' \in Resource /\ cr'.id = latest.id
  BY <1>1, <1>2, <1>3 DEF Resource
<1>5. WorkerTyped /\ timer' \in BOOLEAN
  BY RestType DEF PatchStatus, Requeues, TypeInv, TypeOK, WorkerTyped, Ids
<1>6. QED
  BY <1>4, <1>5, AnyStep DEF PatchStatus, TypeInv, TypeOK, WorkerTyped, Ids, HandedOut

LEMMA DelFindType == TypeInv /\ (DelFindNothing \/ DelFindVM) => TypeInv'
<1> SUFFICES ASSUME TypeInv, DelFindNothing \/ DelFindVM PROVE TypeInv'
  OBVIOUS
<1> DEFINE o == Observed(desired, desired.id, vms[desired.id])
           r == updateConditions(o, "none")
<1>1. desired \in Resource /\ desired.id \in Ids
  BY DEF TypeInv, TypeOK, Ids
<1>2. CASE DelFindNothing
  BY <1>2, GoToType, BlankType, WorkerStep DEF DelFindNothing, PCs, WorkerTyped, Ids, TypeInv, TypeOK
<1>3. CASE DelFindVM
  <2>1. o \in Resource /\ o.id = desired.id
    BY <1>1, <1>3, FoundType DEF DelFindVM
  <2>2. \/ GoTo("unmanage", Blank, Blank)
        \/ Settle(updateConditions(r, "retry"), "retry")
        \/ GoTo("terminate", Blank, r)
    BY <1>3 DEF DelFindVM
  <2> HIDE DEF o
  <2>3. r \in Resource /\ r.id = desired.id
    BY <2>1, ConditionsType
  <2> HIDE DEF r
  <2>4. updateConditions(r, "retry") \in Resource /\ updateConditions(r, "retry").id = desired.id
    BY <2>3, ConditionsType
  <2>5. {"unmanage", "terminate"} \subseteq PCs
    BY DEF PCs
  <2>6. WorkerTyped
    BY <2>2, <2>3, <2>4, <2>5, SettleType, GoToType, BlankType DEF WorkerTyped, Ids
  <2>7. QED
    BY <1>3, <2>6, WorkerStep DEF DelFindVM, TypeInv, TypeOK
<1>4. QED
  BY <1>2, <1>3

\* A VM that changes state stays a VM, and stays handed out.
LEMMA StateChange ==
    ASSUME TypeInv, NEW v \in VMs, NEW s \in VMStates \cup {"PURGED"},
           vms' = [vms EXCEPT ![v].state = s]
    PROVE  /\ vms' \in [VMs -> VM]
           /\ HandedOut \subseteq HandedOut'
           /\ vms'[v].state = s
           /\ \A w \in VMs \ {v} : vms'[w] = vms[w]
<1>1. vms \in [VMs -> VM] /\ vms[v] \in VM
  BY DEF TypeInv, TypeOK
<1>2. [vms[v] EXCEPT !.state = s] \in VM /\ [vms[v] EXCEPT !.state = s].state = s
  BY <1>1 DEF VM
<1>3. vms' = [vms EXCEPT ![v] = [vms[v] EXCEPT !.state = s]]
  OBVIOUS
<1>4. QED
  BY <1>1, <1>2, <1>3 DEF HandedOut, VMStates, SyncedStates

LEMMA TerminateType == TypeInv /\ pc = "terminate" /\ latest.id # NIL /\ Terminate => TypeInv'
<1> SUFFICES ASSUME TypeInv, latest.id # NIL, Terminate PROVE TypeInv'
  OBVIOUS
<1>1. latest \in Resource /\ latest.id \in VMs
  BY DEF TypeInv, TypeOK, Resource
<1>2. WorkerTyped
  BY <1>1, SettleType, ConditionsType DEF Terminate, WorkerTyped, Ids
<1>3. vms' \in [VMs -> VM] /\ HandedOut \subseteq HandedOut'
  <2>1. CASE UNCHANGED vms
    BY <2>1 DEF TypeInv, TypeOK, HandedOut
  <2>2. CASE vms' = [vms EXCEPT ![latest.id].state = IF Live(latest.id) THEN "TERMINATING" ELSE @]
    <3>1. CASE Live(latest.id)
      BY <1>1, <2>2, <3>1, StateChange DEF VMStates
    <3>2. CASE ~Live(latest.id)
      <4>1. vms' = vms
        BY <1>1, <2>2, <3>2 DEF TypeInv, TypeOK, VM
      <4>2. QED
        BY <2>1, <4>1
    <3>3. QED
      BY <3>1, <3>2
  <2>3. QED
    BY <2>1, <2>2 DEF Terminate
<1>4. QED
  BY <1>2, <1>3, AnyStep DEF Terminate, TypeInv, TypeOK, WorkerTyped, Ids

LEMMA UnmanageType == TypeInv /\ Unmanage => TypeInv'
<1> SUFFICES ASSUME TypeInv, Unmanage PROVE TypeInv'
  OBVIOUS
<1>1. cr' \in Resource /\ cr'.id = cr.id
  BY DEF Unmanage, TypeInv, TypeOK, Resource
<1>2. WorkerTyped /\ timer' \in BOOLEAN
  BY RestType DEF Unmanage, TypeInv, TypeOK, WorkerTyped, Ids
<1>3. QED
  BY <1>1, <1>2, AnyStep DEF Unmanage, TypeInv, TypeOK, WorkerTyped, Ids, HandedOut

\* Cloud, restated as one move of one VM.
LEMMA CloudMove ==
    ASSUME TypeInv, Cloud
    PROVE  \E v \in VMs, s \in VMStates \cup {"PURGED"} :
              /\ vms[v].state \in VMStates
              /\ s \in {"TERMINATED", "PURGED"} \/ Live(v)
              /\ vms[v].state = "TERMINATED" => s = "PURGED"
              /\ vms' = [vms EXCEPT ![v].state = s]
              /\ UNCHANGED <<cr, exists, pc, desired, latest, err, queued, timer>>
              /\ used' \in [Kinds -> Nat]
              /\ \A k \in Kinds : used'[k] = 0 => used[k] = 0
<1>1. PICK v \in VMs : Progress(v) \/ Suspend(v) \/ Resume(v) \/ SelfTerminate(v) \/ Purge(v)
  BY DEF Cloud
<1>2. used \in [Kinds -> Nat] /\ "suspend" \in Kinds
  BY DEF TypeInv, TypeOK, Kinds
<1>3. used' \in [Kinds -> Nat] /\ \A k \in Kinds : used'[k] = 0 => used[k] = 0
  BY <1>1, <1>2, SpendType DEF Progress, Suspend, Resume, SelfTerminate, Purge
<1> USE DEF MoveVM, Live, VMStates, SyncedStates
<1>4. CASE Progress(v)
  BY <1>3, <1>4 DEF Progress
<1>5. CASE Suspend(v)
  BY <1>3, <1>5 DEF Suspend
<1>6. CASE Resume(v)
  BY <1>3, <1>6 DEF Resume
<1>7. CASE SelfTerminate(v)
  BY <1>3, <1>7 DEF SelfTerminate
<1>8. CASE Purge(v)
  BY <1>3, <1>8 DEF Purge
<1>9. QED
  BY <1>1, <1>4, <1>5, <1>6, <1>7, <1>8

LEMMA CloudType == TypeInv /\ Cloud => TypeInv'
<1> SUFFICES ASSUME TypeInv, Cloud PROVE TypeInv'
  OBVIOUS
<1>1. PICK v \in VMs, s \in VMStates \cup {"PURGED"} :
         /\ vms' = [vms EXCEPT ![v].state = s]
         /\ UNCHANGED <<cr, exists, pc, desired, latest, err, queued, timer>>
         /\ used' \in [Kinds -> Nat]
  BY CloudMove
<1>2. vms' \in [VMs -> VM] /\ HandedOut \subseteq HandedOut'
  BY <1>1, StateChange
<1>3. QED
  BY <1>1, <1>2, AnyStep DEF TypeInv, TypeOK, Ids

LEMMA OutsideType == TypeInv /\ (TimerFires \/ Crash \/ UserEdits \/ UserDeletes) => TypeInv'
<1> SUFFICES ASSUME TypeInv, TimerFires \/ Crash \/ UserEdits \/ UserDeletes PROVE TypeInv'
  OBVIOUS
<1>1. used \in [Kinds -> Nat] /\ cr \in Resource /\ {"crash", "edit"} \subseteq Kinds
  BY DEF TypeInv, TypeOK, Kinds
<1>2. CASE TimerFires
  BY <1>2, WorkerStep DEF TimerFires, TypeInv, TypeOK, WorkerTyped, Ids
<1>3. CASE Crash
  <2>1. used' \in [Kinds -> Nat]
    BY <1>1, <1>3, SpendType DEF Crash
  <2>2. QED
    BY <1>3, <2>1, BlankType, WorkerStep DEF Crash, TypeInv, TypeOK, WorkerTyped, Ids, PCs
<1>4. CASE UserEdits
  <2>1. used' \in [Kinds -> Nat]
    BY <1>1, <1>4, SpendType DEF UserEdits
  <2>2. cr' \in Resource /\ cr'.id = cr.id
    BY <1>1, <1>4 DEF UserEdits, Resource
  <2>3. QED
    BY <1>4, <2>1, <2>2, AnyStep DEF UserEdits, TypeInv, TypeOK, Ids, HandedOut
<1>5. CASE UserDeletes
  <2>1. cr' \in Resource /\ cr'.id = cr.id /\ exists' \in BOOLEAN
    BY <1>1, <1>5 DEF UserDeletes, Resource
  <2>2. QED
    BY <1>5, <2>1, AnyStep DEF UserDeletes, TypeInv, TypeOK, Ids, HandedOut
<1>6. QED
  BY <1>2, <1>3, <1>4, <1>5

-----------------------------------------------------------------------------
(* The invariant.  Every lemma below shows that one group of actions       *)
(* preserves Protocol, the part of IInv that is not typing.                *)

Protocol == FinalizerHeld /\ IdTracking /\ FinalizerGuardsVM /\ LiveVMsOwned

LEMMA ProtocolInit == Init => Protocol
<1> SUFFICES ASSUME Init PROVE Protocol
  OBVIOUS
<1>1. cr.id = NIL /\ ~cr.deleting
  BY DEF Init, Blank
<1>2. \A v \in VMs : ~Live(v)
  BY DEF Init, Live
<1>3. QED
  BY <1>1, <1>2 DEF Init, Protocol, FinalizerHeld, IdTracking, FinalizerGuardsVM, LiveVMsOwned, Carrying

\* No loss so far, if none after the next step.
LEMMA LossKept ==
    ASSUME NEW k \in Kinds, used \in [Kinds -> Nat], Spend(k)
    PROVE  NoDrop' /\ (used["crash"] = 0)' => /\ NoDrop /\ used["crash"] = 0
                                            /\ k \notin {"drop", "crash"}
BY SpendType DEF NoDrop, Kinds

\* A step of the worker that changes neither the CR nor a VM.
LEMMA QuietStep ==
    ASSUME Protocol, UNCHANGED <<cr, exists, vms>>, FinalizerHeld', IdTracking', LiveVMsOwned'
    PROVE  Protocol'
BY DEF Protocol, FinalizerGuardsVM, Live

\* The worker is back in the queue, with nothing lost.
LEMMA RestProtocol ==
    ASSUME Protocol, UNCHANGED <<cr, exists, vms>>, pc' = "idle",
           NoDrop' /\ (used["crash"] = 0)' =>
               NoDrop /\ used["crash"] = 0 /\ pc \notin Carrying
    PROVE  Protocol'
<1>1. FinalizerHeld' /\ IdTracking'
  BY DEF Protocol, FinalizerHeld, IdTracking, Carrying
<1>2. LiveVMsOwned'
  BY DEF Protocol, LiveVMsOwned, Live
<1>3. QED
  BY <1>1, <1>2, QuietStep

\* The worker is about to patch the status of a resource that names the CR's
\* VM, or the VM it carries already.
LEMMA SettleProtocol ==
    ASSUME Protocol, UNCHANGED <<cr, exists, vms>>, pc' = "status",
           exists /\ cr.finalizer,
           latest'.id = cr.id \/ Gone(cr.id),
           pc \in Carrying => latest'.id = latest.id,
           NoDrop' /\ (used["crash"] = 0)' => NoDrop /\ used["crash"] = 0
    PROVE  Protocol'
<1>1. FinalizerHeld' /\ IdTracking'
  BY DEF Protocol, FinalizerHeld, IdTracking, Carrying, Gone
<1>2. LiveVMsOwned'
  BY DEF Protocol, LiveVMsOwned, Live, Carrying
<1>3. QED
  BY <1>1, <1>2, QuietStep

LEMMA DequeueProtocol == TypeInv /\ Protocol /\ Dequeue => Protocol'
<1> SUFFICES ASSUME TypeInv, Protocol, Dequeue PROVE Protocol'
  OBVIOUS
<1>1. cr \in Resource
  BY DEF TypeInv, TypeOK
<1>2. CASE ~exists
  BY <1>2 DEF Dequeue, worker, Protocol, FinalizerHeld, IdTracking, FinalizerGuardsVM,
              LiveVMsOwned, Live, Gone, Over, Carrying, NoDrop
<1>3. CASE exists
  <2>1. /\ (pc' = "delFind" /\ cr.deleting) \/ pc' = "find"
        /\ desired'.id = cr.id /\ desired'.finalizer = cr.finalizer
    BY <1>1, <1>3, ResetType DEF Dequeue, GoTo
  <2>2. FinalizerHeld'
    BY <1>3, <2>1 DEF Dequeue, Protocol, FinalizerHeld, Carrying
  <2>3. IdTracking'
    BY <2>1 DEF Dequeue, IdTracking, Carrying
  <2>4. LiveVMsOwned'
    BY <2>1 DEF Dequeue, Protocol, LiveVMsOwned, Live, Carrying, NoDrop
  <2>5. QED
    BY <2>2, <2>3, <2>4, QuietStep DEF Dequeue
<1>4. QED
  BY <1>2, <1>3

LEMMA FindNothingProtocol == TypeInv /\ Protocol /\ FindNothing => Protocol'
<1> SUFFICES ASSUME TypeInv, Protocol, FindNothing PROVE Protocol'
  OBVIOUS
<1>1. /\ pc = "find"
      /\ (pc' = "run" /\ desired.finalizer) \/ pc' = "manage"
      /\ desired' = desired
      /\ UNCHANGED <<cr, exists, vms, used>>
  BY DEF FindNothing, GoTo
<1>2. desired.id = cr.id /\ Gone(cr.id)
  BY <1>1 DEF Protocol, IdTracking, FindNothing, NotFound, Forgotten, Gone,
              requiredFieldsMissingFromReadOneInput
<1>3. FinalizerHeld'
  BY <1>1 DEF Protocol, FinalizerHeld, Carrying
<1>4. IdTracking'
  BY <1>1, <1>2 DEF IdTracking, Carrying, Gone
<1>5. LiveVMsOwned'
  BY <1>1 DEF Protocol, LiveVMsOwned, Live, Carrying, NoDrop
<1>6. QED
  BY <1>1, <1>3, <1>4, <1>5, QuietStep

LEMMA FindVMProtocol == TypeInv /\ Protocol /\ FindVM => Protocol'
<1> SUFFICES ASSUME TypeInv, Protocol, FindVM PROVE Protocol'
  OBVIOUS
<1> DEFINE r == Observed(desired, desired.id, vms[desired.id])
           ok == updateConditions(r, "none")
<1>1. desired \in Resource /\ desired.id \in Ids /\ pc = "find" /\ UNCHANGED <<cr, exists, vms, used>>
  BY DEF FindVM, TypeInv, TypeOK, Ids
<1>2. desired.id = cr.id /\ desired.id # NIL /\ exists /\ cr.finalizer
  BY <1>1 DEF Protocol, IdTracking, FinalizerHeld, FindVM, NotFound, requiredFieldsMissingFromReadOneInput
<1>3. r \in Resource /\ r.id = cr.id
  BY <1>1, <1>2, FoundType DEF FindVM
<1>4. \/ Settle(updateConditions(r, "terminal"), "terminal")
      \/ Settle(updateConditions(ok, "terminal"), "terminal")
      \/ GoTo("lateRead", Blank, ok)
  BY DEF FindVM
<1> HIDE DEF r
<1>5. ok \in Resource /\ ok.id = cr.id
  BY <1>3, ConditionsType
<1> HIDE DEF ok
<1>6. /\ updateConditions(r, "terminal").id = cr.id
      /\ updateConditions(ok, "terminal").id = cr.id
  BY <1>3, <1>5, ConditionsType
<1>7. latest'.id = cr.id /\ pc' \in {"status", "lateRead"} /\ desired'.id = NIL
  BY <1>4, <1>5, <1>6, BlankType DEF Settle, GoTo
<1>8. FinalizerHeld' /\ IdTracking'
  BY <1>1, <1>2, <1>7 DEF FinalizerHeld, IdTracking, Carrying
<1>9. LiveVMsOwned'
  BY <1>1, <1>7 DEF Protocol, LiveVMsOwned, Live, Carrying, NoDrop
<1>10. QED
  BY <1>1, <1>8, <1>9, QuietStep

\* Every error path of a reconciliation.
LEMMA FailuresProtocol == TypeInv /\ Protocol /\ (FindFails \/ Failures) => Protocol'
<1> SUFFICES ASSUME TypeInv, Protocol, FindFails \/ Failures PROVE Protocol'
  OBVIOUS
<1>1. desired \in Resource /\ latest \in Resource /\ used \in [Kinds -> Nat]
  BY DEF TypeInv, TypeOK
<1>2. \A e : /\ updateConditions(desired, e).id = desired.id
             /\ updateConditions(latest, e).id = latest.id
  BY <1>1, ConditionsType
<1>3. \A k \in Kinds : Spend(k) =>
         (NoDrop' /\ (used["crash"] = 0)' => NoDrop /\ used["crash"] = 0 /\ k # "drop")
  BY <1>1, LossKept
<1>4. UNCHANGED used => (NoDrop' /\ (used["crash"] = 0)' => NoDrop /\ used["crash"] = 0)
  BY DEF NoDrop
<1>5. {"error", "reject", "drop"} \subseteq Kinds
  BY DEF Kinds
<1> USE DEF Settle, Rest
<1>6. CASE FindFails
  <2>1. exists /\ cr.finalizer /\ desired.id = cr.id /\ pc \notin Carrying
    BY <1>6 DEF FindFails, Protocol, FinalizerHeld, IdTracking, Carrying,
                requiredFieldsMissingFromReadOneInput
  <2>2. QED
    BY <1>2, <1>3, <1>5, <1>6, <2>1, SettleProtocol DEF FindFails
<1>7. CASE ManageFails
  BY <1>3, <1>5, <1>7, RestProtocol DEF ManageFails, Carrying
<1>8. CASE RunFails
  <2>1. exists /\ cr.finalizer /\ desired.id = cr.id /\ pc \notin Carrying
    BY <1>8 DEF RunFails, Protocol, FinalizerHeld, IdTracking, Carrying
  <2>2. QED
    BY <1>2, <1>3, <1>4, <1>5, <1>8, <2>1, SettleProtocol DEF RunFails
<1>9. CASE PatchSpecFails \/ LateReadFails
  <2>1. exists /\ cr.finalizer /\ (latest.id = cr.id \/ Gone(cr.id))
    BY <1>9 DEF PatchSpecFails, LateReadFails, Protocol, FinalizerHeld, IdTracking, Carrying
  <2>2. QED
    BY <1>3, <1>4, <1>5, <1>9, <2>1, SettleProtocol DEF PatchSpecFails, LateReadFails
<1>10. CASE PatchStatusFails
  BY <1>3, <1>5, <1>10, RestProtocol DEF PatchStatusFails
<1>11. CASE DelFindFails
  BY <1>3, <1>5, <1>11, RestProtocol DEF DelFindFails, Carrying
<1>12. CASE TerminateFails
  <2>1. exists /\ cr.finalizer /\ (latest.id = cr.id \/ Gone(cr.id)) /\ pc \notin Carrying
    BY <1>12 DEF TerminateFails, Protocol, FinalizerHeld, IdTracking, Carrying
  <2>2. QED
    BY <1>2, <1>3, <1>5, <1>12, <2>1, SettleProtocol DEF TerminateFails
<1>13. CASE UnmanageFails
  BY <1>3, <1>5, <1>13, RestProtocol DEF UnmanageFails, Carrying
<1>14. QED
  BY <1>6, <1>7, <1>8, <1>9, <1>10, <1>11, <1>12, <1>13 DEF Failures

LEMMA ManageProtocol == TypeInv /\ Protocol /\ Manage => Protocol'
<1> SUFFICES ASSUME TypeInv, Protocol, Manage PROVE Protocol'
  OBVIOUS
<1>1. cr \in Resource /\ desired \in Resource
  BY DEF TypeInv, TypeOK
<1>2. CASE exists
  <2>1. /\ pc = "manage" /\ pc' = "run" /\ exists'
        /\ cr'.id = cr.id /\ cr'.finalizer = TRUE
        /\ desired'.id = desired.id
        /\ UNCHANGED <<vms, used>>
    BY <1>1, <1>2 DEF Manage, GoTo, Resource
  <2>2. FinalizerHeld'
    BY <2>1 DEF FinalizerHeld
  <2>3. IdTracking'
    BY <2>1 DEF Protocol, IdTracking, Gone, Carrying
  <2>4. LiveVMsOwned' /\ FinalizerGuardsVM'
    BY <2>1 DEF Protocol, LiveVMsOwned, FinalizerGuardsVM, Live, Carrying, NoDrop
  <2>5. QED
    BY <2>2, <2>3, <2>4 DEF Protocol
<1>3. CASE ~exists
  BY <1>3, RestProtocol DEF Manage, Rest, Carrying, NoDrop
<1>4. QED
  BY <1>2, <1>3

\* RunMicrovm starts a VM under an identifier that nobody knows.
LEMMA RunMicrovm ==
    ASSUME TypeInv, Protocol, pc = "run",
           NEW v \in Unused, vms' = [vms EXCEPT ![v] = NewVM(desired)], cr' = cr
    PROVE  /\ v \in VMs /\ v # cr.id /\ ~Live(v)
           /\ Gone(cr.id) /\ Gone(cr.id)' /\ desired.id = cr.id
           /\ exists /\ cr.finalizer
           /\ \A w \in VMs : w # v => (Live(w)' <=> Live(w))
<1>1. v \in VMs /\ vms[v].state = "ABSENT"
  BY DEF Unused
<1>2. v # cr.id
  BY <1>1, MicrovmAssumption DEF TypeInv, KnownIds
<1>3. Gone(cr.id) /\ desired.id = cr.id /\ exists /\ cr.finalizer
  BY DEF Protocol, IdTracking, FinalizerHeld
<1>4. \A w \in VMs : w # v => vms'[w] = vms[w]
  BY DEF TypeInv, TypeOK
<1>5. Gone(cr.id)'
  BY <1>2, <1>3, <1>4 DEF Gone, TypeInv, TypeOK, Resource
<1>6. QED
  BY <1>1, <1>2, <1>3, <1>4, <1>5 DEF Live

LEMMA RunProtocol == TypeInv /\ Protocol /\ Run => Protocol'
<1> SUFFICES ASSUME TypeInv, Protocol, Run PROVE Protocol'
  OBVIOUS
<1> DEFINE observed(v) == Observed(desired, v, NewVM(desired))
<1>1. PICK v \in Unused : /\ vms' = [vms EXCEPT ![v] = NewVM(desired)]
                          /\ GoTo("patchRun", desired, updateConditions(observed(v), "none"))
  BY DEF Run
<1>2. pc = "run" /\ UNCHANGED <<cr, exists, used>>
  BY DEF Run
<1>3. /\ v \in VMs /\ v # cr.id
      /\ Gone(cr.id) /\ Gone(cr.id)' /\ desired.id = cr.id
      /\ exists /\ cr.finalizer
      /\ \A w \in VMs : w # v => (Live(w)' <=> Live(w))
  BY <1>1, <1>2, RunMicrovm
<1>4. observed(v) \in Resource /\ observed(v).id = v
  BY <1>3, NewVMType, ObservedType DEF TypeInv, TypeOK, VMStates
<1>5. updateConditions(observed(v), "none").id = v
  BY <1>4, ConditionsType
<1> HIDE DEF observed
<1>6. pc' = "patchRun" /\ latest'.id = v /\ desired' = desired
  BY <1>1, <1>5 DEF GoTo
<1>7. FinalizerHeld'
  BY <1>2, <1>3, <1>6 DEF Protocol, FinalizerHeld
<1>8. IdTracking'
  BY <1>2, <1>3, <1>6 DEF IdTracking, Carrying
<1>9. FinalizerGuardsVM'
  BY <1>2, <1>3 DEF FinalizerGuardsVM
<1>10. LiveVMsOwned'
  BY <1>2, <1>3, <1>6 DEF Protocol, LiveVMsOwned, Carrying, NoDrop
<1>11. QED
  BY <1>7, <1>8, <1>9, <1>10 DEF Protocol

LEMMA RunAnswerLostProtocol == TypeInv /\ Protocol /\ RunAnswerLost => Protocol'
<1> SUFFICES ASSUME TypeInv, Protocol, RunAnswerLost PROVE Protocol'
  OBVIOUS
<1>1. PICK v \in Unused : vms' = [vms EXCEPT ![v] = NewVM(desired)]
  BY DEF RunAnswerLost
<1>2. /\ pc = "run" /\ pc' = "status" /\ UNCHANGED <<cr, exists>>
      /\ latest' = updateConditions(desired, "retry")
  BY DEF RunAnswerLost, Settle
<1>3. Gone(cr.id)' /\ exists /\ cr.finalizer
  BY <1>1, <1>2, RunMicrovm
<1>4. ~NoDrop'
  BY LossKept DEF RunAnswerLost, Kinds, TypeInv, TypeOK, Spend, NoDrop
<1>5. FinalizerHeld' /\ IdTracking'
  BY <1>2, <1>3 DEF Protocol, FinalizerHeld, IdTracking, Carrying
<1>6. QED
  BY <1>2, <1>3, <1>4, <1>5 DEF Protocol, FinalizerGuardsVM, LiveVMsOwned

LEMMA PatchSpecProtocol == TypeInv /\ Protocol /\ PatchSpec => Protocol'
<1> SUFFICES ASSUME TypeInv, Protocol, PatchSpec PROVE Protocol'
  OBVIOUS
<1>1. cr'.id = cr.id /\ cr'.finalizer = cr.finalizer /\ cr'.deleting = cr.deleting
  BY MergeType DEF PatchSpec, TypeInv, TypeOK
<1>2. /\ pc \in Carrying /\ pc' \in {"lateRead", "status"} /\ latest' = latest
      /\ UNCHANGED <<exists, vms, used>>
  BY DEF PatchSpec, GoTo, Settle, Carrying
<1>3. FinalizerHeld' /\ IdTracking'
  BY <1>1, <1>2 DEF Protocol, FinalizerHeld, IdTracking, Carrying, Gone
<1>4. LiveVMsOwned' /\ FinalizerGuardsVM'
  BY <1>1, <1>2 DEF Protocol, LiveVMsOwned, FinalizerGuardsVM, Live, Carrying, NoDrop
<1>5. QED
  BY <1>3, <1>4 DEF Protocol

LEMMA LateReadProtocol == TypeInv /\ Protocol /\ LateRead => Protocol'
<1> SUFFICES ASSUME TypeInv, Protocol, LateRead PROVE Protocol'
  OBVIOUS
<1> DEFINE observed == Observed(latest, latest.id, vms[latest.id])
           filled == lateInitializeFromReadOneOutput(observed, latest)
<1>1. latest \in Resource /\ latest.id \in Ids
  BY DEF TypeInv, TypeOK, Ids
<1>2. observed \in Resource
  BY <1>1, FoundType DEF LateRead
<1>3. filled.id = latest.id
  BY <1>1, <1>2, FilledType
<1>4. \/ Settle(latest, "terminal")
      \/ pc' = "patchLate" /\ desired' = latest /\ latest' = filled
  BY DEF LateRead
<1> HIDE DEF filled
<1>5. /\ pc = "lateRead" /\ pc' \in {"status", "patchLate"}
      /\ latest'.id = latest.id /\ UNCHANGED <<cr, exists, vms, used>>
  BY <1>3, <1>4 DEF LateRead, Settle
<1>6. FinalizerHeld' /\ IdTracking'
  BY <1>5 DEF Protocol, FinalizerHeld, IdTracking, Carrying, Gone
<1>7. LiveVMsOwned'
  BY <1>5 DEF Protocol, LiveVMsOwned, Live, Carrying, NoDrop
<1>8. QED
  BY <1>5, <1>6, <1>7, QuietStep

\* The status patch writes the identifier the worker carries.
LEMMA PatchStatusEffect ==
    ASSUME TypeInv, PatchStatus
    PROVE  /\ pc = "status" /\ pc' = "idle"
           /\ cr'.id = latest.id
           /\ cr'.finalizer = cr.finalizer /\ cr'.deleting = cr.deleting
           /\ UNCHANGED <<exists, vms, used>>
<1> DEFINE r == ensureConditions(latest, err)
<1>1. r.id = latest.id
  BY EnsureType DEF TypeInv, TypeOK
<1>2. cr' = [cr EXCEPT !.id = r.id, !.state = r.state, !.terminal = r.terminal,
                       !.recoverable = r.recoverable, !.synced = r.synced]
  BY DEF PatchStatus
<1> HIDE DEF r
<1>3. QED
  BY <1>1, <1>2 DEF PatchStatus, Rest, TypeInv, TypeOK, Resource

LEMMA PatchStatusProtocol == TypeInv /\ Protocol /\ PatchStatus => Protocol'
<1> SUFFICES ASSUME TypeInv, Protocol, PatchStatus PROVE Protocol'
  OBVIOUS
<1>1. /\ pc = "status" /\ pc' = "idle"
      /\ cr'.id = latest.id
      /\ cr'.finalizer = cr.finalizer /\ cr'.deleting = cr.deleting
      /\ UNCHANGED <<exists, vms, used>>
  BY PatchStatusEffect
<1>2. exists /\ cr.finalizer /\ (latest.id = cr.id \/ Gone(cr.id))
  BY <1>1 DEF Protocol, FinalizerHeld, IdTracking, Carrying
<1>3. FinalizerHeld' /\ IdTracking' /\ FinalizerGuardsVM'
  BY <1>1, <1>2 DEF FinalizerHeld, IdTracking, FinalizerGuardsVM, Carrying
<1>4. LiveVMsOwned'
  <2> SUFFICES ASSUME NoDrop, used["crash"] = 0, NEW v \in VMs, Live(v)
               PROVE  latest.id = v
    BY <1>1 DEF LiveVMsOwned, Live, NoDrop
  <2>1. cr.id = v \/ latest.id = v
    BY DEF Protocol, LiveVMsOwned
  <2>2. Gone(cr.id) => cr.id # v
    BY MicrovmAssumption DEF Gone, Live
  <2>3. QED
    BY <1>2, <2>1, <2>2
<1>5. QED
  BY <1>3, <1>4 DEF Protocol

\* The finalizer comes up for removal only for a VM that is over.
LEMMA DelFindProtocol == TypeInv /\ Protocol /\ (DelFindNothing \/ DelFindVM) => Protocol'
<1> SUFFICES ASSUME TypeInv, Protocol, DelFindNothing \/ DelFindVM PROVE Protocol'
  OBVIOUS
<1> DEFINE o == Observed(desired, desired.id, vms[desired.id])
           r == updateConditions(o, "none")
<1>1. /\ pc = "delFind" /\ UNCHANGED <<cr, exists, vms, used>>
      /\ desired \in Resource /\ desired.id \in Ids
  BY DEF DelFindNothing, DelFindVM, TypeInv, TypeOK, Ids
<1>2. desired.id = cr.id /\ exists /\ cr.finalizer /\ pc \notin Carrying
  BY <1>1 DEF Protocol, IdTracking, FinalizerHeld, Carrying
<1>3. \/ pc' = "unmanage" /\ Over(cr.id)
      \/ pc' = "status" /\ latest'.id = cr.id
      \/ pc' = "terminate" /\ latest'.id = cr.id /\ cr.id # NIL
  <2>1. CASE DelFindNothing
    BY <1>2, <2>1 DEF DelFindNothing, GoTo, NotFound, Forgotten, Over,
                      requiredFieldsMissingFromReadOneInput
  <2>2. CASE DelFindVM
    <3>1. o \in Resource /\ o.id = cr.id /\ o.state = vms[cr.id].state /\ cr.id # NIL
      BY <1>1, <1>2, <2>2, FoundType DEF DelFindVM, NotFound, requiredFieldsMissingFromReadOneInput
    <3>2. \/ isTerminated(r) /\ GoTo("unmanage", Blank, Blank)
          \/ Settle(updateConditions(r, "retry"), "retry")
          \/ GoTo("terminate", Blank, r)
      BY <2>2 DEF DelFindVM
    <3> HIDE DEF o
    <3>3. r \in Resource /\ r.id = cr.id /\ r.state = vms[cr.id].state
      BY <3>1, ConditionsType
    <3> HIDE DEF r
    <3>4. updateConditions(r, "retry").id = cr.id
      BY <3>3, ConditionsType
    <3>5. QED
      BY <3>1, <3>2, <3>3, <3>4 DEF isTerminated, Over, GoTo, Settle
  <2>3. QED
    BY <2>1, <2>2
<1>4. FinalizerHeld' /\ IdTracking'
  BY <1>1, <1>2, <1>3 DEF FinalizerHeld, IdTracking, Carrying, Over
<1>5. LiveVMsOwned'
  BY <1>1, <1>2 DEF Protocol, LiveVMsOwned, Live, NoDrop
<1>6. QED
  BY <1>1, <1>4, <1>5, QuietStep

LEMMA TerminateProtocol == TypeInv /\ Protocol /\ Terminate => Protocol'
<1> SUFFICES ASSUME TypeInv, Protocol, Terminate PROVE Protocol'
  OBVIOUS
<1>1. /\ pc = "terminate" /\ pc' = "status" /\ UNCHANGED <<cr, exists, used>>
      /\ latest'.id = latest.id
  BY ConditionsType DEF Terminate, Settle, TypeInv, TypeOK
<1>2. exists /\ cr.finalizer /\ (latest.id = cr.id \/ Gone(cr.id)) /\ latest.id \in VMs
  BY <1>1 DEF Protocol, FinalizerHeld, IdTracking, TypeInv, TypeOK, Resource
<1>3. \A w \in VMs : /\ Live(w)' <=> Live(w)
                     /\ vms[w].state = "PURGED" => vms'[w].state = "PURGED"
  <2>1. CASE UNCHANGED vms
    BY <2>1 DEF Live
  <2>2. CASE vms' = [vms EXCEPT ![latest.id].state = IF Live(latest.id) THEN "TERMINATING" ELSE @]
    <3>1. CASE Live(latest.id)
      <4>1. /\ vms'[latest.id].state = "TERMINATING"
            /\ \A w \in VMs \ {latest.id} : vms'[w] = vms[w]
        BY <1>2, <2>2, <3>1, StateChange DEF VMStates
      <4>2. QED
        BY <3>1, <4>1 DEF Live
    <3>2. CASE ~Live(latest.id)
      BY <1>2, <2>2, <3>2 DEF Live, TypeInv, TypeOK, VM
    <3>3. QED
      BY <3>1, <3>2
  <2>3. QED
    BY <2>1, <2>2 DEF Terminate
<1>4. FinalizerHeld'
  BY <1>1, <1>2 DEF FinalizerHeld
<1>5. IdTracking'
  <2>1. cr.id \in VMs \cup {NIL}
    BY DEF TypeInv, TypeOK, Resource
  <2>2. Gone(cr.id) => Gone(cr.id)'
    BY <1>1, <1>3, <2>1 DEF Gone, Live
  <2>3. QED
    BY <1>1, <1>2, <2>2 DEF IdTracking, Carrying
<1>6. FinalizerGuardsVM'
  BY <1>1, <1>2 DEF FinalizerGuardsVM
<1>7. LiveVMsOwned'
  <2> SUFFICES ASSUME NoDrop, used["crash"] = 0, NEW v \in VMs, Live(v)
               PROVE  cr.id = v
    BY <1>1, <1>3 DEF LiveVMsOwned, NoDrop, Live
  <2>1. QED
    BY <1>1 DEF Protocol, LiveVMsOwned, Carrying
<1>8. QED
  BY <1>4, <1>5, <1>6, <1>7 DEF Protocol

LEMMA UnmanageProtocol == TypeInv /\ Protocol /\ Unmanage => Protocol'
<1> SUFFICES ASSUME TypeInv, Protocol, Unmanage PROVE Protocol'
  OBVIOUS
<1>1. /\ pc = "unmanage" /\ pc' = "idle" /\ ~exists' /\ UNCHANGED <<vms, used>>
      /\ cr'.id = cr.id
  BY DEF Unmanage, Rest, TypeInv, TypeOK, Resource
<1>2. Over(cr.id)
  BY <1>1 DEF Protocol, IdTracking
<1>3. FinalizerHeld' /\ IdTracking'
  BY <1>1 DEF FinalizerHeld, IdTracking, Carrying
<1>4. FinalizerGuardsVM'
  BY <1>1, <1>2 DEF FinalizerGuardsVM, Live, Over
<1>5. LiveVMsOwned'
  BY <1>1 DEF Protocol, LiveVMsOwned, Live, Carrying, NoDrop
<1>6. QED
  BY <1>3, <1>4, <1>5 DEF Protocol

\* A VM that is over stays over, one that AWS forgot stays forgotten, and no
\* VM comes alive.
LEMMA CloudProtocol == TypeInv /\ Protocol /\ Cloud => Protocol'
<1> SUFFICES ASSUME TypeInv, Protocol, Cloud PROVE Protocol'
  OBVIOUS
<1>1. PICK v \in VMs, s \in VMStates \cup {"PURGED"} :
         /\ s \in {"TERMINATED", "PURGED"} \/ Live(v)
         /\ vms[v].state \in VMStates
         /\ vms[v].state = "TERMINATED" => s = "PURGED"
         /\ vms' = [vms EXCEPT ![v].state = s]
         /\ UNCHANGED <<cr, exists, pc, desired, latest, err, queued, timer>>
         /\ \A k \in Kinds : used'[k] = 0 => used[k] = 0
  BY CloudMove
<1>2. /\ vms'[v].state = s
      /\ \A w \in VMs \ {v} : vms'[w] = vms[w]
  BY <1>1, StateChange
<1>3. \A w \in VMs :
         /\ Live(w)' => Live(w)
         /\ vms[w].state = "PURGED" => vms'[w].state = "PURGED"
         /\ vms[w].state \in {"TERMINATED", "PURGED"} => vms'[w].state \in {"TERMINATED", "PURGED"}
  BY <1>1, <1>2 DEF Live, VMStates, SyncedStates
<1>4. cr.id \in VMs \cup {NIL}
  BY DEF TypeInv, TypeOK, Resource
<1>5. (Gone(cr.id) => Gone(cr.id)') /\ (Over(cr.id) => Over(cr.id)')
  BY <1>1, <1>3, <1>4 DEF Gone, Over
<1>6. FinalizerHeld' /\ IdTracking'
  BY <1>1, <1>5 DEF Protocol, FinalizerHeld, IdTracking, Carrying
<1>7. FinalizerGuardsVM'
  BY <1>1, <1>3, <1>4 DEF Protocol, FinalizerGuardsVM
<1>8. LiveVMsOwned'
  BY <1>1, <1>3 DEF Protocol, LiveVMsOwned, NoDrop, Kinds
<1>9. QED
  BY <1>6, <1>7, <1>8 DEF Protocol

LEMMA OutsideProtocol ==
    TypeInv /\ Protocol /\ (TimerFires \/ Crash \/ UserEdits \/ UserDeletes) => Protocol'
<1> SUFFICES ASSUME TypeInv, Protocol, TimerFires \/ Crash \/ UserEdits \/ UserDeletes
             PROVE  Protocol'
  OBVIOUS
<1>1. used \in [Kinds -> Nat] /\ cr \in Resource /\ {"crash", "edit"} \subseteq Kinds
  BY DEF TypeInv, TypeOK, Kinds
<1>2. CASE TimerFires
  BY <1>2 DEF TimerFires, Protocol, FinalizerHeld, IdTracking, FinalizerGuardsVM,
              LiveVMsOwned, Live, Gone, Over, Carrying, NoDrop
<1>3. CASE Crash
  BY <1>1, <1>3, LossKept, RestProtocol DEF Crash
<1>4. CASE UserEdits
  <2>1. /\ cr'.id = cr.id /\ cr'.finalizer = cr.finalizer /\ cr'.deleting = cr.deleting
        /\ UNCHANGED <<exists, vms, pc, desired, latest>>
    BY <1>1, <1>4 DEF UserEdits, Resource
  <2>2. NoDrop' /\ (used["crash"] = 0)' => NoDrop /\ used["crash"] = 0
    BY <1>1, <1>4, LossKept DEF UserEdits
  <2>3. QED
    BY <2>1, <2>2 DEF Protocol, FinalizerHeld, IdTracking, FinalizerGuardsVM,
                      LiveVMsOwned, Live, Gone, Over
<1>5. CASE UserDeletes
  <2>1. /\ cr'.id = cr.id /\ cr'.finalizer = cr.finalizer
        /\ exists /\ exists' = cr.finalizer
        /\ UNCHANGED <<vms, pc, desired, latest, used>>
    BY <1>1, <1>5 DEF UserDeletes, Resource
  <2>2. FinalizerHeld'
    BY <2>1 DEF Protocol, FinalizerHeld
  <2>3. IdTracking'
    BY <2>1 DEF Protocol, IdTracking, Gone, Over
  <2>4. FinalizerGuardsVM'
    BY <2>1 DEF Protocol, FinalizerHeld, FinalizerGuardsVM
  <2>5. LiveVMsOwned'
    BY <2>1 DEF Protocol, LiveVMsOwned, Live, NoDrop
  <2>6. QED
    BY <2>2, <2>3, <2>4, <2>5 DEF Protocol
<1>6. QED
  BY <1>2, <1>3, <1>4, <1>5

-----------------------------------------------------------------------------
(* The theorems.                                                           *)

LEMMA StutterStep == TypeInv /\ Protocol /\ UNCHANGED vars => TypeInv' /\ Protocol'
BY DEF vars, TypeInv, TypeOK, KnownIds, Protocol, FinalizerHeld, IdTracking,
       FinalizerGuardsVM, LiveVMsOwned, Live, Gone, Over, NoDrop

LEMMA NextType == TypeInv /\ Protocol /\ Next => TypeInv'
<1> SUFFICES ASSUME TypeInv, Protocol, Next PROVE TypeInv'
  OBVIOUS
<1>1. Terminate => pc = "terminate" /\ latest.id # NIL
  BY DEF Terminate, Protocol, IdTracking
<1>2. CASE Worker
  BY <1>1, <1>2, DequeueType, FindVMType, FindOtherType, FailuresType, ManageType, RunType,
     RunAnswerLostType, PatchSpecType, LateReadType, PatchStatusType, DelFindType,
     TerminateType, UnmanageType DEF Worker, Sync, Delete, Failures
<1>3. QED
  BY <1>2, CloudType, OutsideType DEF Next

LEMMA NextProtocol == TypeInv /\ Protocol /\ Next => Protocol'
<1> SUFFICES ASSUME TypeInv, Protocol, Next PROVE Protocol'
  OBVIOUS
<1>1. CASE Worker
  BY <1>1, DequeueProtocol, FindNothingProtocol, FindVMProtocol, FailuresProtocol,
     ManageProtocol, RunProtocol, RunAnswerLostProtocol, PatchSpecProtocol, LateReadProtocol,
     PatchStatusProtocol, DelFindProtocol, TerminateProtocol, UnmanageProtocol
     DEF Worker, Sync, Delete, Failures
<1>2. QED
  BY <1>1, CloudProtocol, OutsideProtocol DEF Next

\* The invariant of Microvm, for every number of VMs and disturbances.
THEOREM Invariance == Spec => []IInv
<1>1. Init => TypeInv /\ Protocol
  BY TypeInit, ProtocolInit
<1>2. TypeInv /\ Protocol /\ [Next]_vars => (TypeInv /\ Protocol)'
  BY NextType, NextProtocol, StutterStep
<1>3. TypeInv /\ Protocol => IInv
  BY DEF TypeInv, Protocol, IInv
<1>4. QED
  BY <1>1, <1>2, <1>3, PTL DEF Spec

\* Type correctness: every copy of the CR that the worker makes is well typed.
THEOREM TypeCorrect == Spec => []TypeOK
<1>1. IInv => TypeOK
  BY DEF IInv
<1>2. QED
  BY <1>1, Invariance, PTL

\* The CR disappears only after the VM it names has terminated (sdkDelete,
\* isTerminated), with any crashes, lost patches and failed calls.
THEOREM FinalizerSafety == Spec => []FinalizerGuardsVM
<1>1. IInv => FinalizerGuardsVM
  BY DEF IInv
<1>2. QED
  BY <1>1, Invariance, PTL

\* Without a loss, a Microvm never has two VMs alive, nor one without its CR.
THEOREM SingleVMSafety == Spec => []SingleVM
<1>1. IInv => SingleVM
  <2> SUFFICES ASSUME IInv, NoDrop, used["crash"] = 0, NEW v \in VMs, Live(v)
               PROVE  exists /\ \A w \in VMs : Live(w) => w = v
    BY DEF SingleVM
  <2>1. \A w \in VMs : Live(w) => cr.id = w \/ (pc \in Carrying /\ latest.id = w)
    BY DEF IInv, LiveVMsOwned
  <2>2. v # NIL
    BY MicrovmAssumption
  <2>3. exists
    BY <2>1, <2>2 DEF IInv, FinalizerGuardsVM, FinalizerHeld
  <2>4. ASSUME NEW w \in VMs, Live(w), pc \in Carrying, cr.id \in {v, w}
        PROVE  latest.id = cr.id
    BY <2>4, MicrovmAssumption DEF IInv, IdTracking, Gone, Live
  <2>5. QED
    BY <2>1, <2>3, <2>4
<1>2. QED
  BY <1>1, Invariance, PTL

\* Whatever happens, the CR keeps naming its VM until AWS has forgotten it.
THEOREM RecordedVMSafety == Spec => RecordedVMKept
<1>1. IInv /\ [Next]_vars =>
         [cr.id # NIL /\ cr'.id # cr.id => vms[cr.id].state = "PURGED"]_vars
  <2> SUFFICES ASSUME IInv, Next, cr.id # NIL, cr'.id # cr.id
               PROVE  vms[cr.id].state = "PURGED"
    BY DEF vars
  <2>1. TypeInv
    BY DEF IInv, TypeInv
  <2>2. PatchStatus
    <3>1. CASE Manage \/ Unmanage \/ UserEdits \/ UserDeletes
      BY <3>1, <2>1 DEF Manage, Unmanage, UserEdits, UserDeletes, TypeInv, TypeOK, Resource
    <3>2. CASE PatchSpec
      BY <3>2, <2>1, MergeType DEF PatchSpec, TypeInv, TypeOK
    <3>3. CASE Cloud
      BY <3>3, <2>1, CloudMove
    <3>4. QED
      BY <3>1, <3>2, <3>3 DEF Next, Worker, Sync, Delete, Dequeue, FindNothing, FindVM,
         FindFails, ManageFails, Run, RunFails, RunAnswerLost, PatchSpecFails, LateRead,
         LateReadFails, PatchStatusFails, DelFindNothing, DelFindVM, DelFindFails,
         Terminate, TerminateFails, UnmanageFails, TimerFires, Crash
  <2>3. pc = "status" /\ cr'.id = latest.id
    BY <2>1, <2>2, PatchStatusEffect
  <2>4. QED
    BY <2>3 DEF IInv, IdTracking, Carrying, Gone
<1>2. QED
  BY <1>1, Invariance, PTL DEF Spec, RecordedVMKept

-----------------------------------------------------------------------------
(* The conditions.  updateConditions leaves Recoverable alone on a terminal*)
(* error, so what it is given must carry neither condition: a copy that was*)
(* reset, or one that a successful call has cleared.                       *)

Clear(r) == ~r.terminal /\ ~r.recoverable
Exclusive(r) == ~(r.terminal /\ r.recoverable)

ConditionsInv ==
    /\ Exclusive(cr)
    /\ pc \in {"find", "manage", "run"} => Clear(desired)
    /\ pc \in {"terminate", "patchRun", "lateRead", "patchLate"} => Clear(latest)
    /\ pc = "status" => Exclusive(latest)

LEMMA ConditionsOf ==
    ASSUME NEW r \in Resource
    PROVE  /\ Clear(updateConditions(r, "none"))
           /\ \A e : Clear(r) => Exclusive(updateConditions(r, e))
           /\ Exclusive(updateConditions(r, "retry"))
           /\ Clear(ResetConditions(r))
           /\ \A e : ensureConditions(r, e).terminal = r.terminal
           /\ \A e : ensureConditions(r, e).recoverable = r.recoverable
           /\ Clear(r) => Exclusive(r)
<1>1. \A e \in {"none", "retry"} : updateConditions(r, e).terminal = FALSE
  BY DEF updateConditions, Resource
<1>2. \A e : updateConditions(r, e).recoverable = IF e = "terminal" THEN r.recoverable ELSE e = "retry"
  BY DEF updateConditions, Resource
<1>3. \A e : ensureConditions(r, e).terminal = r.terminal /\ ensureConditions(r, e).recoverable = r.recoverable
  BY DEF ensureConditions, Resource
<1>4. Clear(ResetConditions(r))
  BY DEF ResetConditions, Resource, Clear
<1>5. ASSUME NEW e, Clear(r) PROVE Exclusive(updateConditions(r, e))
  <2>1. CASE e = "terminal"
    BY <1>2, <1>5, <2>1 DEF Clear, Exclusive
  <2>2. CASE e # "terminal"
    BY <2>2 DEF updateConditions, Resource, Exclusive
  <2>3. QED
    BY <2>1, <2>2
<1>6. QED
  BY <1>1, <1>2, <1>3, <1>4, <1>5 DEF Clear, Exclusive

LEMMA ObservedConditions ==
    ASSUME NEW r \in Resource, NEW v, NEW m, Clear(r)
    PROVE  Clear(Observed(r, v, m))
BY DEF Observed, Resource, Clear

LEMMA RestConditions ==
    ASSUME ConditionsInv, UNCHANGED cr, NEW b, Rest(b)
    PROVE  ConditionsInv'
BY DEF Rest, ConditionsInv

LEMMA SettleConditions ==
    ASSUME ConditionsInv, UNCHANGED cr, NEW r, NEW e, Settle(r, e), Exclusive(r)
    PROVE  ConditionsInv'
BY DEF Settle, ConditionsInv

LEMMA SyncConditions == IInv /\ ConditionsInv /\ (Dequeue \/ Sync) => ConditionsInv'
<1> SUFFICES ASSUME IInv, ConditionsInv, Dequeue \/ Sync PROVE ConditionsInv'
  OBVIOUS
<1>1. TypeInv /\ cr \in Resource /\ desired \in Resource /\ latest \in Resource
  BY DEF IInv, TypeInv, TypeOK
<1>2. CASE Dequeue
  <2>1. Clear(ResetConditions(cr)) /\ cr' = cr
    BY <1>1, <1>2, ConditionsOf DEF Dequeue
  <2>2. QED
    BY <1>2, <2>1 DEF Dequeue, GoTo, worker, ConditionsInv
<1>3. CASE FindNothing
  BY <1>3 DEF FindNothing, GoTo, ConditionsInv
<1>4. CASE FindVM
  <2> DEFINE r == Observed(desired, desired.id, vms[desired.id])
             ok == updateConditions(r, "none")
  <2>1. r \in Resource
    BY <1>1, <1>4, FoundType DEF FindVM, Ids
  <2>2. Clear(r)
    BY <1>1, <1>4, ObservedConditions DEF FindVM, ConditionsInv
  <2>3. /\ \/ Settle(updateConditions(r, "terminal"), "terminal")
           \/ Settle(updateConditions(ok, "terminal"), "terminal")
           \/ GoTo("lateRead", Blank, ok)
        /\ cr' = cr
    BY <1>4 DEF FindVM
  <2> HIDE DEF r
  <2>4. ok \in Resource /\ Clear(ok)
    BY <2>1, ConditionsType, ConditionsOf
  <2> HIDE DEF ok
  <2>5. \A s \in {r, ok} : Exclusive(updateConditions(s, "terminal"))
    BY <2>1, <2>2, <2>4, ConditionsOf
  <2>6. CASE GoTo("lateRead", Blank, ok)
    BY <2>3, <2>4, <2>6 DEF GoTo, ConditionsInv
  <2>7. QED
    BY <2>3, <2>5, <2>6, SettleConditions
<1>5. CASE FindFails \/ RunFails \/ RunAnswerLost
  <2>1. \A e : Exclusive(updateConditions(desired, e))
    BY <1>1, <1>5, ConditionsOf DEF FindFails, RunFails, RunAnswerLost, ConditionsInv
  <2>2. cr' = cr /\ \E e : Settle(updateConditions(desired, e), e)
    BY <1>5 DEF FindFails, RunFails, RunAnswerLost
  <2>3. QED
    BY <2>1, <2>2, SettleConditions
<1>6. CASE Manage
  <2>1. CASE exists
    <3>1. /\ cr'.terminal = cr.terminal /\ cr'.recoverable = cr.recoverable
          /\ [desired EXCEPT !.finalizer = TRUE].terminal = desired.terminal
          /\ [desired EXCEPT !.finalizer = TRUE].recoverable = desired.recoverable
      BY <1>1, <1>6, <2>1 DEF Manage, Resource
    <3>2. QED
      BY <1>6, <2>1, <3>1 DEF Manage, GoTo, ConditionsInv, Clear, Exclusive
  <2>2. CASE ~exists
    BY <1>6, <2>2, RestConditions DEF Manage
  <2>3. QED
    BY <2>1, <2>2
<1>7. CASE ManageFails
  BY <1>7, RestConditions DEF ManageFails
<1>8. CASE Run
  <2>1. PICK v \in Unused :
           GoTo("patchRun", desired, updateConditions(Observed(desired, v, NewVM(desired)), "none"))
    BY <1>8 DEF Run
  <2>2. Observed(desired, v, NewVM(desired)) \in Resource
    BY <1>1, NewVMType, ObservedType DEF Unused, VMStates
  <2>3. Clear(updateConditions(Observed(desired, v, NewVM(desired)), "none"))
    BY <2>2, ConditionsOf
  <2>4. QED
    BY <1>8, <2>1, <2>3 DEF Run, GoTo, ConditionsInv
<1>9. CASE PatchSpec
  <2>1. cr'.terminal = cr.terminal /\ cr'.recoverable = cr.recoverable
    BY <1>1, <1>9 DEF PatchSpec, MergeSpec, Resource
  <2>2. Clear(latest) /\ Exclusive(latest) /\ latest' = latest /\ pc' \in {"lateRead", "status"}
    BY <1>1, <1>9, ConditionsOf DEF PatchSpec, GoTo, Settle, ConditionsInv
  <2>3. QED
    BY <2>1, <2>2 DEF ConditionsInv, Exclusive
<1>10. CASE PatchSpecFails \/ LateReadFails
  <2>1. Exclusive(latest) /\ cr' = cr /\ \E e : Settle(latest, e)
    BY <1>1, <1>10, ConditionsOf DEF PatchSpecFails, LateReadFails, ConditionsInv
  <2>2. QED
    BY <2>1, SettleConditions
<1>11. CASE LateRead
  <2> DEFINE observed == Observed(latest, latest.id, vms[latest.id])
             filled == lateInitializeFromReadOneOutput(observed, latest)
  <2>1. Clear(latest) /\ Exclusive(latest)
    BY <1>1, <1>11, ConditionsOf DEF LateRead, ConditionsInv
  <2>2. filled.terminal = latest.terminal /\ filled.recoverable = latest.recoverable
    BY <1>1 DEF lateInitializeFromReadOneOutput, Resource
  <2>3. cr' = cr /\ (Settle(latest, "terminal") \/ (pc' = "patchLate" /\ latest' = filled))
    BY <1>11 DEF LateRead
  <2> HIDE DEF filled
  <2>4. CASE pc' = "patchLate" /\ latest' = filled
    BY <2>1, <2>2, <2>3, <2>4 DEF ConditionsInv, Clear
  <2>5. QED
    BY <2>1, <2>3, <2>4, SettleConditions
<1>12. QED
  BY <1>2, <1>3, <1>4, <1>5, <1>6, <1>7, <1>8, <1>9, <1>10, <1>11 DEF Sync

LEMMA DeleteConditions ==
    IInv /\ ConditionsInv /\ (Delete \/ PatchStatus \/ PatchStatusFails) => ConditionsInv'
<1> SUFFICES ASSUME IInv, ConditionsInv, Delete \/ PatchStatus \/ PatchStatusFails
             PROVE  ConditionsInv'
  OBVIOUS
<1>1. TypeInv /\ cr \in Resource /\ desired \in Resource /\ latest \in Resource
  BY DEF IInv, TypeInv, TypeOK
<1>2. CASE DelFindNothing
  BY <1>2 DEF DelFindNothing, GoTo, ConditionsInv
<1>3. CASE DelFindVM
  <2> DEFINE o == Observed(desired, desired.id, vms[desired.id])
             r == updateConditions(o, "none")
  <2>1. o \in Resource
    BY <1>1, <1>3, FoundType DEF DelFindVM, Ids
  <2>2. /\ \/ GoTo("unmanage", Blank, Blank)
           \/ Settle(updateConditions(r, "retry"), "retry")
           \/ GoTo("terminate", Blank, r)
        /\ cr' = cr
    BY <1>3 DEF DelFindVM
  <2> HIDE DEF o
  <2>3. r \in Resource /\ Clear(r)
    BY <2>1, ConditionsType, ConditionsOf
  <2> HIDE DEF r
  <2>4. Exclusive(updateConditions(r, "retry"))
    BY <2>3, ConditionsOf
  <2>5. CASE \E x \in {Blank, r}, l \in {"unmanage", "terminate"} :
                 GoTo(l, Blank, x) /\ (l = "terminate" => x = r)
    BY <2>2, <2>3, <2>5 DEF GoTo, ConditionsInv
  <2>6. QED
    BY <2>2, <2>4, <2>5, SettleConditions
<1>4. CASE Terminate \/ TerminateFails
  <2>1. \A e : Exclusive(updateConditions(latest, e))
    BY <1>1, <1>4, ConditionsOf DEF Terminate, TerminateFails, ConditionsInv
  <2>2. cr' = cr /\ \E e : Settle(updateConditions(latest, e), e)
    BY <1>4 DEF Terminate, TerminateFails
  <2>3. QED
    BY <2>1, <2>2, SettleConditions
<1>5. CASE DelFindFails \/ UnmanageFails \/ PatchStatusFails
  BY <1>5, RestConditions DEF DelFindFails, UnmanageFails, PatchStatusFails
<1>6. CASE Unmanage
  <2>1. cr'.terminal = cr.terminal /\ cr'.recoverable = cr.recoverable /\ pc' = "idle"
    BY <1>1, <1>6 DEF Unmanage, Rest, Resource
  <2>2. QED
    BY <2>1 DEF ConditionsInv, Exclusive
<1>7. CASE PatchStatus
  <2> DEFINE r == ensureConditions(latest, err)
  <2>1. r.terminal = latest.terminal /\ r.recoverable = latest.recoverable
    BY <1>1, ConditionsOf
  <2>2. cr' = [cr EXCEPT !.id = r.id, !.state = r.state, !.terminal = r.terminal,
                         !.recoverable = r.recoverable, !.synced = r.synced]
    BY <1>7 DEF PatchStatus
  <2> HIDE DEF r
  <2>3. cr'.terminal = r.terminal /\ cr'.recoverable = r.recoverable /\ pc' = "idle"
    BY <1>1, <1>7, <2>2 DEF PatchStatus, Rest, Resource
  <2>4. QED
    BY <1>7, <2>1, <2>3 DEF PatchStatus, ConditionsInv, Exclusive
<1>8. QED
  BY <1>2, <1>3, <1>4, <1>5, <1>6, <1>7 DEF Delete

LEMMA OutsideConditions ==
    IInv /\ ConditionsInv /\ (TimerFires \/ Crash \/ UserEdits \/ UserDeletes \/ Cloud \/ UNCHANGED vars)
        => ConditionsInv'
<1> SUFFICES ASSUME IInv, ConditionsInv,
                    TimerFires \/ Crash \/ UserEdits \/ UserDeletes \/ Cloud \/ UNCHANGED vars
             PROVE  ConditionsInv'
  OBVIOUS
<1>1. cr \in Resource
  BY DEF IInv, TypeOK
<1>2. CASE Crash
  BY <1>2 DEF Crash, ConditionsInv
<1>3. CASE UserEdits \/ UserDeletes
  <2>1. /\ cr'.terminal = cr.terminal /\ cr'.recoverable = cr.recoverable
        /\ UNCHANGED <<pc, desired, latest>>
    BY <1>1, <1>3 DEF UserEdits, UserDeletes, Resource
  <2>2. QED
    BY <2>1 DEF ConditionsInv, Exclusive
<1>4. CASE TimerFires \/ Cloud \/ UNCHANGED vars
  <2>1. UNCHANGED <<cr, pc, desired, latest>>
    BY <1>4 DEF TimerFires, Cloud, Progress, Suspend, Resume, SelfTerminate, Purge, MoveVM, vars
  <2>2. QED
    BY <2>1 DEF ConditionsInv
<1>5. QED
  BY <1>2, <1>3, <1>4

LEMMA ConditionsInvariance == Spec => []ConditionsInv
<1>1. Init => ConditionsInv
  BY DEF Init, Blank, ConditionsInv, Exclusive
<1>2. IInv /\ ConditionsInv /\ [Next]_vars => ConditionsInv'
  BY SyncConditions, DeleteConditions, OutsideConditions DEF Next, Worker
<1>3. QED
  BY <1>1, <1>2, Invariance, PTL DEF Spec

\* A CR never says that it will be retried and that it will not.
THEOREM ConditionsExclude == Spec => []TerminalExcludesRecoverable
<1>1. ConditionsInv => TerminalExcludesRecoverable
  BY DEF ConditionsInv, Exclusive, TerminalExcludesRecoverable
<1>2. QED
  BY <1>1, ConditionsInvariance, PTL

-----------------------------------------------------------------------------
(* What the status says about the spec and the VM.  A spec can differ from *)
(* what the worker read or wrote only after an edit, which queues the key: *)
(* that is what makes a status that no event follows a true one.           *)

\* AWS reports the late field in every state.
AlwaysReported == LateStates = VMStates

\* The spec of r is the CR's, or an edit has queued the key.
Current(r) == ~queued \/ used["edit"] = 0 => r.echo = cr.echo /\ r.late = cr.late

\* r describes its VM, except for a field that AWS has not reported yet.
Fits(r) ==
    /\ r.id \in VMs
    /\ r.echo = vms[r.id].echo
    /\ r.late = vms[r.id].late \/ (~AlwaysReported /\ r.late = NIL)

SpecIs(i) == cr.echo = vms[i].echo /\ cr.late = vms[i].late

\* Without an edit the spec is that of VM i, as long as AWS knows it.
Matches(i) == used["edit"] = 0 /\ NoDrop /\ AlwaysReported /\ ~Gone(i) => SpecIs(i)

CopiesInv ==
    /\ pc \in {"find", "manage", "run", "patchRun", "patchLate"} => Current(desired)
    /\ pc = "lateRead" => Current(latest)
    /\ pc \in {"patchRun", "lateRead", "patchLate"} => Fits(latest)
    /\ pc = "patchLate" => err \in {"none", "retry"} /\ (err = "none" => latest.late # NIL)
    /\ pc = "find" /\ desired.id # NIL => desired.finalizer
    /\ pc = "manage" => cr.id = NIL
    /\ pc \in {"delFind", "terminate", "unmanage"} \/ desired.deleting \/ latest.deleting => cr.deleting
    /\ Matches(cr.id)
    /\ pc \in {"lateRead", "patchLate", "terminate"} => Matches(latest.id)

\* What PatchStatus is about to write.
StatusInv ==
    pc = "status" =>
        /\ err = "none" => Fits(latest) /\ latest.late # NIL /\ Current(latest)
        /\ err = "terminal" /\ NoReject => latest.terminal \/ Over(latest.id)
        /\ latest.terminal /\ NoReject /\ NoDrop /\ AlwaysReported =>
              Over(latest.id) \/ (used["edit"] > 0 /\ (queued \/ ~SpecIs(latest.id)))
        /\ Matches(latest.id)

RestInv ==
    /\ cr.synced /\ ~cr.deleting => cr.id # NIL
    /\ SyncedMatchesSpec /\ NeverAbandons /\ (AlwaysReported => TerminalHasCause)

ReportInv == CopiesInv /\ StatusInv /\ RestInv

\* The VMs that were handed out keep their spec, and what is over stays over.
VMsKept ==
    \A v \in VMs : vms[v].state # "ABSENT" =>
        /\ vms'[v].echo = vms[v].echo /\ vms'[v].late = vms[v].late
        /\ vms[v].state = "PURGED" => vms'[v].state = "PURGED"
        /\ vms[v].state \in {"TERMINATED", "PURGED"} => vms'[v].state \in {"TERMINATED", "PURGED"}
        /\ Live(v)' => Live(v)

Frame == VMsKept /\ used' \in [Kinds -> Nat] /\ \A k \in Kinds : used'[k] = 0 => used[k] = 0

LEMMA FrameStep ==
    ASSUME TypeInv, Protocol, Next
    PROVE  Frame
<1>1. vms \in [VMs -> VM] /\ used \in [Kinds -> Nat]
  BY DEF TypeInv, TypeOK
<1>2. used' \in [Kinds -> Nat] /\ \A k \in Kinds : used'[k] = 0 => used[k] = 0
  <2>1. ASSUME NEW k \in Kinds, Spend(k)
        PROVE  used' \in [Kinds -> Nat] /\ \A j \in Kinds : used'[j] = 0 => used[j] = 0
    BY <1>1, <2>1, SpendType
  <2>2. UNCHANGED used \/ \E k \in Kinds : Spend(k)
    BY DEF Next, Worker, Sync, Delete, Cloud, Dequeue, FindNothing, FindVM, FindFails, Manage,
       ManageFails, Run, RunFails, RunAnswerLost, PatchSpec, PatchSpecFails, LateRead,
       LateReadFails, PatchStatus, PatchStatusFails, DelFindNothing, DelFindVM, DelFindFails,
       Terminate, TerminateFails, Unmanage, UnmanageFails, TimerFires, Crash, UserEdits,
       UserDeletes, Progress, Suspend, Resume, SelfTerminate, Purge, Kinds
  <2>3. QED
    BY <1>1, <2>1, <2>2
<1>3. CASE UNCHANGED vms
  BY <1>2, <1>3 DEF Frame, VMsKept, Live
<1>4. ASSUME NEW v \in VMs, NEW s \in VMStates \cup {"PURGED"},
             s \in {"TERMINATED", "PURGED"} \/ Live(v),
             vms[v].state = "TERMINATED" => s = "PURGED",
             vms[v].state # "PURGED", vms[v].state # "ABSENT",
             vms' = [vms EXCEPT ![v].state = s]
      PROVE  Frame
  <2>1. \A w \in VMs \ {v} : vms'[w] = vms[w]
    BY <1>1, <1>4
  <2>2. vms'[v].state = s /\ vms'[v].echo = vms[v].echo /\ vms'[v].late = vms[v].late
    BY <1>1, <1>4 DEF VM
  <2>3. QED
    BY <1>2, <1>4, <2>1, <2>2 DEF Frame, VMsKept, Live, VMStates, SyncedStates
<1>5. CASE Run \/ RunAnswerLost
  <2>1. PICK v \in Unused : vms' = [vms EXCEPT ![v] = NewVM(desired)]
    BY <1>5 DEF Run, RunAnswerLost
  <2>2. \A w \in VMs : vms[w].state # "ABSENT" => vms'[w] = vms[w]
    BY <1>1, <2>1 DEF Unused
  <2>3. QED
    BY <1>2, <2>2 DEF Frame, VMsKept, Live
<1>6. CASE Terminate
  <2>1. latest.id \in VMs
    BY <1>6 DEF Terminate, Protocol, IdTracking, TypeInv, TypeOK, Resource
  <2>2. CASE Live(latest.id) /\ vms' = [vms EXCEPT ![latest.id].state = "TERMINATING"]
    BY <1>4, <2>1, <2>2 DEF Live, VMStates
  <2>3. CASE ~Live(latest.id)
    BY <1>1, <1>3, <1>6, <2>1, <2>3 DEF Terminate, VM
  <2>4. QED
    BY <1>3, <1>6, <2>2, <2>3 DEF Terminate
<1>7. CASE Cloud
  <2>1. PICK v \in VMs, s \in VMStates \cup {"PURGED"} :
           /\ vms[v].state \in VMStates
           /\ s \in {"TERMINATED", "PURGED"} \/ Live(v)
           /\ vms[v].state = "TERMINATED" => s = "PURGED"
           /\ vms' = [vms EXCEPT ![v].state = s]
    BY <1>7, CloudMove
  <2>2. QED
    BY <1>4, <2>1 DEF VMStates, SyncedStates
<1>8. QED
  BY <1>3, <1>5, <1>6, <1>7 DEF Next, Worker, Sync, Delete, Dequeue, FindNothing, FindVM,
     FindFails, Manage, ManageFails, RunFails, PatchSpec, PatchSpecFails, LateRead,
     LateReadFails, PatchStatus, PatchStatusFails, DelFindNothing, DelFindVM, DelFindFails,
     TerminateFails, Unmanage, UnmanageFails, TimerFires, Crash, UserEdits, UserDeletes

\* An identifier that is known, in the next state.
LEMMA KnownKept ==
    ASSUME TypeInv, Frame, NEW i \in {cr.id, desired.id, latest.id}
    PROVE  /\ i \in VMs \cup {NIL}
           /\ i # NIL => vms[i].state # "ABSENT"
           /\ i \in VMs => vms'[i].echo = vms[i].echo /\ vms'[i].late = vms[i].late
           /\ Gone(i) => Gone(i)'
           /\ Over(i) => Over(i)'
           /\ i \in VMs => (Live(i)' => Live(i))
           /\ NoDrop' => NoDrop
           /\ NoReject' => NoReject
           /\ used'["edit"] = 0 => used["edit"] = 0
<1>1. i \in VMs \cup {NIL} /\ (i # NIL => vms[i].state # "ABSENT")
  BY DEF TypeInv, TypeOK, KnownIds, Resource
<1>2. NIL \notin VMs
  BY MicrovmAssumption
<1>3. QED
  BY <1>1, <1>2 DEF Frame, VMsKept, Gone, Over, NoDrop, NoReject, Kinds

LEMMA MatchesKept ==
    ASSUME TypeInv, Frame, NEW i \in {cr.id, desired.id, latest.id}, Matches(i),
           cr'.echo = cr.echo, cr'.late = cr.late
    PROVE  Matches(i)'
<1>1. i = NIL => Gone(i)'
  BY DEF Gone
<1>2. QED
  BY <1>1, KnownKept DEF Matches, SpecIs

LEMMA FitsKept ==
    ASSUME TypeInv, Frame, NEW r, r.id \in {cr.id, desired.id, latest.id}, Fits(r)
    PROVE  /\ r.id \in VMs /\ r.echo = vms'[r.id].echo
           /\ r.late = vms'[r.id].late \/ (~AlwaysReported /\ r.late = NIL)
BY KnownKept DEF Fits

\* The fields that a comparison and a status depend on.
LEMMA ConditionsFields ==
    ASSUME NEW r \in Resource, NEW e
    PROVE  LET u == updateConditions(r, e)
           IN /\ u.echo = r.echo /\ u.late = r.late /\ u.hidden = r.hidden
              /\ u.deleting = r.deleting /\ u.id = r.id /\ u.state = r.state
              /\ u.terminal = (e = "terminal")
BY DEF updateConditions, Resource

LEMMA ObservedFields ==
    ASSUME NEW r \in Resource, NEW v \in VMs, NEW m
    PROVE  LET o == Observed(r, v, m)
           IN /\ o.echo = m.echo /\ o.hidden = r.hidden /\ o.deleting = r.deleting
              /\ o.id = v /\ o.state = m.state
              /\ o.late = IF m.state \in LateStates THEN m.late ELSE NIL
BY DEF Observed, Resource

\* What the spec patch leaves in the CR, if nothing was edited.
LEMMA MergeFields ==
    ASSUME NEW c \in Resource, NEW a \in Resource, NEW b \in Resource
    PROVE  LET m == MergeSpec(c, a, b)
           IN /\ m.id = c.id /\ m.deleting = c.deleting /\ m.synced = c.synced
              /\ m.terminal = c.terminal
              /\ a.echo = c.echo /\ a.late = c.late => m.echo = b.echo /\ m.late = b.late
<1> DEFINE e == IF a.echo = b.echo THEN c.echo ELSE b.echo
           l == IF a.late = b.late THEN c.late ELSE b.late
<1>1. MergeSpec(c, a, b) = [c EXCEPT !.echo = e, !.late = l]
  BY DEF MergeSpec
<1>2. a.echo = c.echo /\ a.late = c.late => e = b.echo /\ l = b.late
  OBVIOUS
<1> HIDE DEF e, l
<1>3. QED
  BY <1>1, <1>2 DEF Resource

\* A worker that stops without a report had nothing to report, or is due again.
LEMMA RestReport ==
    ASSUME TypeInv, Frame, ReportInv, UNCHANGED <<cr, exists, vms, queued>>,
           NEW b \in BOOLEAN, Rest(b),
           \/ cr.id = NIL \/ ~exists \/ ~NoDrop'
           \/ cr.deleting /\ (b \/ ~NoReject')
    PROVE  ReportInv'
<1>1. pc' = "idle" /\ desired' = Blank /\ latest' = Blank /\ (b => timer')
  BY DEF Rest
<1>2. CopiesInv'
  <2>1. Matches(cr.id)'
    BY MatchesKept DEF ReportInv, CopiesInv
  <2>2. QED
    BY <1>1, <2>1 DEF CopiesInv, Blank
<1>3. StatusInv'
  BY <1>1 DEF StatusInv
<1>4. RestInv'
  <2>1. cr.synced /\ ~cr.deleting => cr.id # NIL
    BY DEF ReportInv, RestInv
  <2>2. SyncedMatchesSpec'
    BY <2>1 DEF SyncedMatchesSpec
  <2>3. NeverAbandons'
    BY <1>1 DEF NeverAbandons, AtRest, HasLiveVM
  <2>4. TerminalHasCause'
    BY DEF TerminalHasCause, HasLiveVM
  <2>5. QED
    BY <2>1, <2>2, <2>3, <2>4 DEF RestInv
<1>5. QED
  BY <1>2, <1>3, <1>4 DEF ReportInv

\* While the worker is busy nothing is reported.
LEMMA BusyRest ==
    ASSUME RestInv, pc' # "idle",
           cr'.synced = cr.synced, cr'.deleting = cr.deleting, cr'.id = cr.id
    PROVE  RestInv'
BY DEF RestInv, SyncedMatchesSpec, NeverAbandons, TerminalHasCause, CaughtUp, AtRest

\* The status of r is due, with error e.
LEMMA SettleReport ==
    ASSUME TypeInv, Frame, ReportInv, UNCHANGED <<cr, exists>>, queued' = queued,
           NEW r, NEW e, Settle(r, e),
           r.deleting => cr.deleting,
           e # "none",
           e = "terminal" /\ NoReject' => r.terminal \/ Over(r.id)',
           r.terminal /\ NoReject' /\ NoDrop' /\ AlwaysReported =>
               Over(r.id)' \/ ((used["edit"] > 0)' /\ (queued \/ ~SpecIs(r.id)')),
           Matches(r.id)'
    PROVE  ReportInv'
<1>1. pc' = "status" /\ desired' = Blank /\ latest' = r /\ err' = e
  BY DEF Settle
<1>2. CopiesInv'
  <2>1. Matches(cr.id)'
    BY MatchesKept DEF ReportInv, CopiesInv
  <2>2. QED
    BY <1>1, <2>1 DEF CopiesInv, Blank
<1>3. StatusInv'
  BY <1>1 DEF StatusInv
<1>4. RestInv'
  BY <1>1, BusyRest DEF ReportInv
<1>5. QED
  BY <1>2, <1>3, <1>4 DEF ReportInv

\* An error that will be retried, or that AWS rejected.
LEMMA FailReport ==
    ASSUME TypeInv, Frame, ReportInv, UNCHANGED <<cr, exists>>, queued' = queued,
           NEW r, NEW e, Settle(r, e),
           r.deleting => cr.deleting,
           (e = "retry" /\ ~r.terminal) \/ (e = "terminal" /\ ~NoReject'),
           r.id \in {cr.id, desired.id, latest.id},
           Matches(r.id) \/ ~NoDrop'
    PROVE  ReportInv'
<1>1. Matches(r.id)'
  <2>1. CASE Matches(r.id)
    BY <2>1, MatchesKept
  <2>2. CASE ~NoDrop'
    BY <2>2 DEF Matches
  <2>3. QED
    BY <2>1, <2>2
<1>2. QED
  BY <1>1, SettleReport

\* The error paths of a reconciliation.
LEMMA FailuresReport ==
    ASSUME IInv, ConditionsInv, Frame, ReportInv, FindFails \/ Failures \/ RunAnswerLost
    PROVE  ReportInv'
<1>1. /\ TypeInv /\ Protocol /\ CopiesInv
      /\ desired \in Resource /\ latest \in Resource /\ used \in [Kinds -> Nat]
  BY DEF IInv, TypeInv, TypeOK, Protocol, ReportInv
<1>2. \A e : /\ updateConditions(desired, e).id = desired.id
             /\ updateConditions(latest, e).id = latest.id
             /\ updateConditions(desired, e).deleting = desired.deleting
             /\ updateConditions(latest, e).deleting = latest.deleting
             /\ updateConditions(desired, e).terminal = (e = "terminal")
             /\ updateConditions(latest, e).terminal = (e = "terminal")
  BY <1>1, ConditionsFields
<1>3. /\ Spend("reject") => ~NoReject'
      /\ Spend("drop") => ~NoDrop'
  BY <1>1, SpendType DEF Kinds, NoReject, NoDrop
<1>4. (desired.deleting => cr.deleting) /\ (latest.deleting => cr.deleting)
  BY <1>1 DEF CopiesInv
<1>5. Matches(cr.id)
  BY <1>1 DEF CopiesInv
\* A failed read or a failed request, reported on the worker's copy.
<1>6. ASSUME NEW d \in {desired, latest}, UNCHANGED <<cr, exists, queued>>,
             Matches(d.id) \/ ~NoDrop',
             \/ Settle(updateConditions(d, "retry"), "retry")
             \/ Spend("reject") /\ Settle(updateConditions(d, "terminal"), "terminal")
      PROVE  ReportInv'
  <2>1. ASSUME NEW e \in {"retry", "terminal"}, Settle(updateConditions(d, e), e),
               e = "retry" \/ ~NoReject'
        PROVE  ReportInv'
    <3> DEFINE r == updateConditions(d, e)
    <3>1. r.id = d.id /\ r.deleting = d.deleting /\ r.terminal = (e = "terminal")
      BY <1>2, <1>6
    <3>2. Settle(r, e)
      BY <2>1
    <3> HIDE DEF r
    <3>3. r.deleting => cr.deleting
      BY <1>4, <1>6, <3>1
    <3>4. r.id \in {cr.id, desired.id, latest.id} /\ (Matches(r.id) \/ ~NoDrop')
      BY <1>6, <3>1
    <3>5. (e = "retry" /\ ~r.terminal) \/ (e = "terminal" /\ ~NoReject')
      BY <2>1, <3>1
    <3>6. QED
      BY <1>1, <1>6, <3>2, <3>3, <3>4, <3>5, FailReport
  <2>2. QED
    BY <1>3, <1>6, <2>1
\* A failure after which the copy is reported as it is.
<1>7. ASSUME UNCHANGED <<cr, exists, queued>>, Matches(latest.id) \/ ~NoDrop',
             ~latest.terminal,
             \/ Settle(latest, "retry")
             \/ Spend("reject") /\ Settle(latest, "terminal")
      PROVE  ReportInv'
  <2>1. CASE Settle(latest, "retry")
    BY <1>1, <1>4, <1>7, <2>1, FailReport
  <2>2. CASE Spend("reject") /\ Settle(latest, "terminal")
    BY <1>1, <1>3, <1>4, <1>7, <2>2, FailReport
  <2>3. QED
    BY <1>7, <2>1, <2>2
<1>8. CASE FindFails \/ RunFails
  <2>1. desired.id = cr.id /\ UNCHANGED <<cr, exists, queued>>
    BY <1>1, <1>8 DEF FindFails, RunFails, Protocol, IdTracking
  <2>2. QED
    BY <1>5, <1>6, <1>8, <2>1 DEF FindFails, RunFails
<1>9. CASE RunAnswerLost
  BY <1>3, <1>6, <1>9 DEF RunAnswerLost
<1>10. CASE PatchSpecFails
  <2>1. ~latest.terminal
    BY <1>10 DEF PatchSpecFails, ConditionsInv, Clear
  <2>2. QED
    BY <1>3, <1>7, <1>10, <2>1 DEF PatchSpecFails
<1>11. CASE LateReadFails
  <2>1. ~latest.terminal /\ Matches(latest.id)
    BY <1>1, <1>11 DEF LateReadFails, ConditionsInv, Clear, CopiesInv
  <2>2. QED
    BY <1>7, <1>11, <2>1 DEF LateReadFails
<1>12. CASE TerminateFails
  <2>1. Matches(latest.id)
    BY <1>1, <1>12 DEF TerminateFails, CopiesInv
  <2>2. QED
    BY <1>6, <1>12, <2>1 DEF TerminateFails
<1>13. CASE ManageFails
  BY <1>1, <1>13, RestReport DEF ManageFails, CopiesInv
<1>14. CASE PatchStatusFails
  BY <1>1, <1>3, <1>14, RestReport DEF PatchStatusFails, Requeues
<1>15. CASE DelFindFails
  BY <1>1, <1>3, <1>15, RestReport DEF DelFindFails, CopiesInv
<1>16. CASE UnmanageFails
  BY <1>1, <1>16, RestReport DEF UnmanageFails, CopiesInv
<1>17. QED
  BY <1>8, <1>9, <1>10, <1>11, <1>12, <1>13, <1>14, <1>15, <1>16 DEF Failures

LEMMA DequeueReport ==
    ASSUME IInv, Frame, ReportInv, Dequeue
    PROVE  ReportInv'
<1>1. /\ TypeInv /\ Protocol /\ CopiesInv /\ RestInv
      /\ cr \in Resource /\ UNCHANGED <<cr, exists, vms, used>> /\ ~queued'
  BY DEF IInv, TypeInv, TypeOK, Protocol, ReportInv, Dequeue
<1>2. Matches(cr.id)'
  BY <1>1, MatchesKept DEF CopiesInv
<1>3. CASE ~exists
  <2>1. CopiesInv'
    BY <1>1, <1>2, <1>3 DEF Dequeue, worker, CopiesInv
  <2>2. StatusInv'
    BY <1>3 DEF Dequeue, worker, StatusInv
  <2>3. RestInv'
    BY <1>1, <1>3 DEF RestInv, SyncedMatchesSpec, NeverAbandons, TerminalHasCause
  <2>4. QED
    BY <2>1, <2>2, <2>3 DEF ReportInv
<1>4. CASE exists
  <2>1. /\ pc' \in {"delFind", "find"} /\ latest' = Blank
        /\ pc' = "delFind" => cr.deleting
        /\ desired'.echo = cr.echo /\ desired'.late = cr.late /\ desired'.id = cr.id
        /\ desired'.finalizer = cr.finalizer /\ desired'.deleting = cr.deleting
    BY <1>1, <1>4 DEF Dequeue, GoTo, ResetConditions, Resource
  <2>2. cr.id # NIL => cr.finalizer
    BY <1>1, <1>4 DEF Protocol, FinalizerHeld
  <2>3. CopiesInv'
    BY <1>1, <1>2, <2>1, <2>2 DEF CopiesInv, Current, Blank
  <2>4. StatusInv' /\ RestInv'
    BY <1>1, <2>1, BusyRest DEF StatusInv
  <2>5. QED
    BY <2>3, <2>4 DEF ReportInv
<1>5. QED
  BY <1>3, <1>4

LEMMA FindNothingReport ==
    ASSUME IInv, Frame, ReportInv, FindNothing
    PROVE  ReportInv'
<1>1. /\ TypeInv /\ Protocol /\ CopiesInv /\ RestInv
      /\ UNCHANGED <<cr, exists, vms, queued, used>> /\ pc = "find"
  BY DEF IInv, TypeInv, Protocol, ReportInv, FindNothing
<1>2. /\ pc' \in {"run", "manage"} /\ desired' = desired /\ latest' = Blank
      /\ pc' = "manage" => ~desired.finalizer
  BY DEF FindNothing, GoTo
<1>3. Matches(cr.id)'
  BY <1>1, MatchesKept DEF CopiesInv
<1>4. desired.id = cr.id
  BY <1>1 DEF Protocol, IdTracking
<1>5. CopiesInv'
  BY <1>1, <1>2, <1>3, <1>4 DEF CopiesInv, Current, Blank
<1>6. StatusInv' /\ RestInv'
  BY <1>1, <1>2, BusyRest DEF StatusInv
<1>7. QED
  BY <1>5, <1>6 DEF ReportInv

\* ReadOne: a VM that is over, a difference, or a copy that fits the VM.
LEMMA FindVMReport ==
    ASSUME IInv, ConditionsInv, Frame, ReportInv, FindVM
    PROVE  ReportInv'
<1> DEFINE v == desired.id
           r == Observed(desired, v, vms[v])
           ok == updateConditions(r, "none")
<1>1. /\ TypeInv /\ Protocol /\ CopiesInv /\ RestInv
      /\ UNCHANGED <<cr, exists, vms, queued, used>> /\ pc = "find"
      /\ desired \in Resource /\ vms \in [VMs -> VM] /\ used \in [Kinds -> Nat]
  BY DEF IInv, TypeInv, TypeOK, Protocol, ReportInv, FindVM
<1>2. v \in VMs /\ v = cr.id /\ v # NIL
  BY <1>1, MicrovmAssumption DEF FindVM, NotFound, requiredFieldsMissingFromReadOneInput, Protocol,
     IdTracking, Resource
<1>6. vms[v] \in VM /\ vms[v].state \in VMStates
  <2>1. vms[v] \in VM /\ v \notin Forgotten
    BY <1>1, <1>2 DEF FindVM, NotFound
  <2>2. vms[v].state # "ABSENT"
    BY <1>1, <1>2 DEF TypeInv, KnownIds
  <2>3. QED
    BY <1>2, <2>1, <2>2 DEF Forgotten, VM
<1>3. r \in Resource /\ ok \in Resource
  <2>1. r \in Resource
    BY <1>1, <1>2, <1>6, ObservedType
  <2>2. QED
    BY <2>1, ConditionsType
<1>4. /\ r.id = v /\ r.deleting = desired.deleting /\ r.hidden = desired.hidden
      /\ r.echo = vms[v].echo /\ r.state = vms[v].state
      /\ r.late = IF vms[v].state \in LateStates THEN vms[v].late ELSE NIL
  BY <1>1, <1>2, ObservedFields
<1>5. /\ ok.id = v /\ ok.deleting = r.deleting /\ ok.hidden = r.hidden
      /\ ok.echo = r.echo /\ ok.late = r.late /\ ~ok.terminal
  <2> HIDE DEF r
  <2>1. ok.terminal = ("none" = "terminal")
    BY <1>3, ConditionsFields
  <2>2. /\ ok.id = r.id /\ ok.deleting = r.deleting /\ ok.hidden = r.hidden
        /\ ok.echo = r.echo /\ ok.late = r.late
    BY <1>3, ConditionsFields
  <2>3. QED
    BY <1>4, <2>1, <2>2
<1>7. /\ Matches(v) /\ Matches(cr.id)' /\ (desired.deleting => cr.deleting)
  <2>1. Matches(cr.id) /\ (desired.deleting => cr.deleting)
    BY <1>1 DEF CopiesInv
  <2>2. Matches(cr.id)'
    BY <1>1, <2>1, MatchesKept
  <2>3. QED
    BY <1>2, <2>1, <2>2
<1>8. \/ Settle(updateConditions(r, "terminal"), "terminal") /\ isTerminated(r)
      \/ Settle(updateConditions(ok, "terminal"), "terminal") /\ Differ(desired, ok)
      \/ GoTo("lateRead", Blank, ok) /\ ~Differ(desired, ok)
  BY <1>1 DEF FindVM
<1> HIDE DEF v, r, ok
\* What a terminal report rests on.
<1>9. ASSUME NEW u, Settle(u, "terminal"), u.id = v, u.deleting = desired.deleting, u.terminal,
             Over(v) \/ (~Over(v) /\ Differ(desired, ok))
      PROVE  ReportInv'
  <2>1. Matches(u.id)'
    BY <1>1, <1>2, <1>9, <1>7
  <2>2. ASSUME NoReject', NoDrop', AlwaysReported
        PROVE  Over(u.id)' \/ ((used["edit"] > 0)' /\ (queued \/ ~SpecIs(u.id)'))
    <3>1. CASE Over(v)
      BY <1>1, <1>9, <3>1 DEF Over
    <3>2. CASE ~Over(v) /\ Differ(desired, ok)
      <4>1. Current(desired) /\ ok.late = vms[v].late
        BY <1>1, <1>4, <1>5, <1>6, <2>2 DEF CopiesInv, AlwaysReported
      <4>2. desired.echo # vms[v].echo \/ desired.late # vms[v].late
        BY <1>4, <1>5, <3>2, <4>1 DEF Differ
      <4>3. queued \/ ~SpecIs(v)
        BY <4>1, <4>2 DEF Current, SpecIs
      <4>4. used["edit"] # 0
        BY <1>1, <1>7, <2>2, <3>2, <4>1, <4>2 DEF Current, SpecIs, Matches, Gone, Over, NoDrop
      <4>5. used["edit"] > 0
        BY <1>1, <4>4 DEF Kinds
      <4>6. QED
        BY <1>1, <1>9, <4>3, <4>5 DEF SpecIs
    <3>3. QED
      BY <1>9, <3>1, <3>2
  <2>3. QED
    BY <1>1, <1>7, <1>9, <2>1, <2>2, SettleReport
<1>10. CASE Settle(updateConditions(r, "terminal"), "terminal") /\ isTerminated(r)
  <2>1. Over(v)
    BY <1>4, <1>10 DEF isTerminated, Over
  <2>2. LET u == updateConditions(r, "terminal")
        IN u.id = v /\ u.deleting = desired.deleting /\ u.terminal
    BY <1>3, <1>4, ConditionsFields
  <2>3. QED
    BY <1>9, <1>10, <2>1, <2>2
<1>11. CASE Settle(updateConditions(ok, "terminal"), "terminal") /\ Differ(desired, ok)
  <2>1. LET u == updateConditions(ok, "terminal")
        IN u.id = v /\ u.deleting = desired.deleting /\ u.terminal
    BY <1>3, <1>4, <1>5, ConditionsFields
  <2>2. QED
    BY <1>9, <1>11, <2>1
<1>12. CASE GoTo("lateRead", Blank, ok) /\ ~Differ(desired, ok)
  <2>1. pc' = "lateRead" /\ desired' = Blank /\ latest' = ok
    BY <1>12 DEF GoTo
  <2>2. ok.echo = desired.echo /\ ok.late = desired.late
    BY <1>12 DEF Differ
  <2>3. Fits(ok)
    BY <1>2, <1>4, <1>5, <1>6 DEF Fits, AlwaysReported
  <2>4. Current(latest)' /\ Fits(latest)'
    BY <1>1, <2>1, <2>2, <2>3 DEF CopiesInv, Current, Fits
  <2>5. CopiesInv'
    BY <1>1, <1>2, <1>4, <1>5, <1>7, <2>1, <2>4 DEF CopiesInv, Blank
  <2>6. StatusInv' /\ RestInv'
    BY <1>1, <2>1, BusyRest DEF StatusInv
  <2>7. QED
    BY <2>5, <2>6 DEF ReportInv
<1>13. QED
  BY <1>8, <1>10, <1>11, <1>12

LEMMA ManageReport ==
    ASSUME IInv, Frame, ReportInv, Manage
    PROVE  ReportInv'
<1>1. /\ TypeInv /\ Protocol /\ CopiesInv /\ RestInv /\ cr \in Resource /\ desired \in Resource
      /\ UNCHANGED <<exists, vms, queued, used>> /\ pc = "manage"
  BY DEF IInv, TypeInv, TypeOK, Protocol, ReportInv, Manage
<1>2. CASE ~exists
  BY <1>1, <1>2, RestReport DEF Manage
<1>3. CASE exists
  <2>1. /\ cr' = [cr EXCEPT !.finalizer = TRUE] /\ pc' = "run" /\ latest' = Blank
        /\ desired' = [desired EXCEPT !.finalizer = TRUE]
    BY <1>3 DEF Manage, GoTo
  <2>2. /\ cr'.echo = cr.echo /\ cr'.late = cr.late /\ cr'.id = cr.id
        /\ cr'.synced = cr.synced /\ cr'.deleting = cr.deleting
        /\ desired'.echo = desired.echo /\ desired'.late = desired.late
        /\ desired'.deleting = desired.deleting
    BY <1>1, <2>1 DEF Resource
  <2>3. Matches(cr.id)'
    <3>1. cr.id = NIL
      BY <1>1 DEF CopiesInv
    <3>2. QED
      BY <2>2, <3>1 DEF Matches, Gone
  <2>4. CopiesInv'
    BY <1>1, <2>1, <2>2, <2>3 DEF CopiesInv, Current, Blank
  <2>5. StatusInv' /\ RestInv'
    BY <1>1, <2>1, <2>2, BusyRest DEF StatusInv
  <2>6. QED
    BY <2>4, <2>5 DEF ReportInv
<1>4. QED
  BY <1>2, <1>3

\* RunMicrovm: the new VM has the spec of the copy, defaults filled in.
LEMMA RunReport ==
    ASSUME IInv, Frame, ReportInv, Run
    PROVE  ReportInv'
<1>1. /\ TypeInv /\ Protocol /\ CopiesInv /\ RestInv
      /\ UNCHANGED <<cr, exists, queued, used>> /\ pc = "run"
      /\ desired \in Resource /\ vms \in [VMs -> VM]
  BY DEF IInv, TypeInv, TypeOK, Protocol, ReportInv, Run
<1>2. PICK v \in Unused :
         /\ vms' = [vms EXCEPT ![v] = NewVM(desired)]
         /\ GoTo("patchRun", desired,
                 updateConditions(Observed(desired, v, NewVM(desired)), "none"))
  BY DEF Run
<1> DEFINE m == NewVM(desired)
           r == Observed(desired, v, m)
           ok == updateConditions(r, "none")
<1>3. v \in VMs /\ NewVM(desired) \in VM
  BY <1>1, <1>2, NewVMType DEF Unused
<1>4. r \in Resource /\ m.state = "PENDING"
  <2>1. m \in VM /\ m.state = "PENDING"
    BY <1>1, NewVMType
  <2>2. QED
    BY <1>1, <1>3, <2>1, ObservedType DEF VMStates
<1>5. /\ r.id = v /\ r.deleting = desired.deleting /\ r.echo = m.echo
      /\ r.late = IF "PENDING" \in LateStates THEN m.late ELSE NIL
  BY <1>1, <1>3, <1>4, ObservedFields
<1>6. /\ ok.id = v /\ ok.deleting = r.deleting /\ ok.echo = r.echo /\ ok.late = r.late
  BY <1>4, <1>5, ConditionsFields
<1>7. pc' = "patchRun" /\ desired' = desired /\ latest' = ok /\ vms'[v] = m
  <2>1. vms'[v] = NewVM(desired)
    BY <1>1, <1>2, <1>3
  <2>2. QED
    BY <1>2, <2>1 DEF GoTo
<1>8. Matches(cr.id)'
  BY <1>1, MatchesKept DEF CopiesInv
<1> HIDE DEF m, r, ok
<1>9. Fits(latest)'
  BY <1>3, <1>5, <1>6, <1>7 DEF Fits, AlwaysReported, VMStates
<1>10. CopiesInv'
  BY <1>1, <1>5, <1>6, <1>7, <1>8, <1>9 DEF CopiesInv, Current
<1>11. StatusInv' /\ RestInv'
  BY <1>1, <1>7, BusyRest DEF StatusInv
<1>12. QED
  BY <1>10, <1>11 DEF ReportInv

\* The spec patches after sdkCreate and after LateInitialize: afterwards the CR
\* has the spec of latest, unless an edit has queued the key.
LEMMA PatchSpecReport ==
    ASSUME IInv, ConditionsInv, Frame, ReportInv, PatchSpec
    PROVE  ReportInv'
<1>1. /\ TypeInv /\ Protocol /\ CopiesInv /\ RestInv
      /\ UNCHANGED <<exists, vms, used>> /\ pc \in {"patchRun", "patchLate"}
      /\ cr \in Resource /\ desired \in Resource /\ latest \in Resource
  BY DEF IInv, TypeInv, TypeOK, Protocol, ReportInv, PatchSpec
<1>2. cr' = MergeSpec(cr, desired, latest) /\ queued' = (queued \/ cr' # cr)
  BY DEF PatchSpec
<1>3. /\ cr'.id = cr.id /\ cr'.deleting = cr.deleting /\ cr'.synced = cr.synced
      /\ desired.echo = cr.echo /\ desired.late = cr.late =>
            cr'.echo = latest.echo /\ cr'.late = latest.late
  BY <1>1, <1>2, MergeFields
<1>4. ~queued' \/ used["edit"] = 0 => cr'.echo = latest.echo /\ cr'.late = latest.late
  BY <1>1, <1>2, <1>3 DEF CopiesInv, Current
<1>5. Fits(latest)
  BY <1>1 DEF CopiesInv
<1>6. used["edit"] = 0 /\ AlwaysReported =>
         cr'.echo = vms[latest.id].echo /\ cr'.late = vms[latest.id].late
  BY <1>4, <1>5 DEF Fits
<1>7. latest' = latest
  BY DEF PatchSpec, GoTo, Settle
<1>8. Matches(latest.id)' /\ Current(latest)' /\ Fits(latest)'
  BY <1>1, <1>4, <1>5, <1>6, <1>7 DEF Matches, SpecIs, Current, Fits
<1>9. Matches(cr.id)'
  <2>1. latest.id = cr.id \/ Gone(cr.id)
    BY <1>1 DEF Protocol, IdTracking, Carrying
  <2>2. QED
    BY <1>1, <1>3, <1>6, <2>1 DEF Matches, SpecIs, Gone
<1>10. latest.deleting => cr'.deleting
  BY <1>1, <1>3 DEF CopiesInv
<1>11. CASE pc = "patchRun" /\ GoTo("lateRead", Blank, latest)
  <2>1. pc' = "lateRead" /\ desired' = Blank
    BY <1>11 DEF GoTo
  <2>2. CopiesInv'
    BY <1>7, <1>8, <1>9, <1>10, <2>1 DEF CopiesInv, Blank
  <2>3. StatusInv' /\ RestInv'
    BY <1>1, <1>3, <2>1, BusyRest DEF StatusInv
  <2>4. QED
    BY <2>2, <2>3 DEF ReportInv
<1>12. CASE pc = "patchLate" /\ Settle(latest, err)
  <2>1. pc' = "status" /\ desired' = Blank /\ err' = err
    BY <1>12 DEF Settle
  <2>2. CopiesInv'
    BY <1>7, <1>9, <1>10, <2>1 DEF CopiesInv, Blank
  <2>3. err \in {"none", "retry"} /\ (err = "none" => latest.late # NIL) /\ ~latest.terminal
    BY <1>1, <1>12 DEF CopiesInv, ConditionsInv, Clear
  <2>4. StatusInv'
    BY <1>7, <1>8, <2>1, <2>3 DEF StatusInv
  <2>5. RestInv'
    BY <1>1, <1>3, <2>1, BusyRest
  <2>6. QED
    BY <2>2, <2>4, <2>5 DEF ReportInv
<1>13. QED
  BY <1>11, <1>12 DEF PatchSpec

\* LateInitialize fills an omitted field with what its VM has.
LEMMA LateReadReport ==
    ASSUME IInv, ConditionsInv, Frame, ReportInv, LateRead
    PROVE  ReportInv'
<1> DEFINE v == latest.id
           observed == Observed(latest, v, vms[v])
           filled == lateInitializeFromReadOneOutput(observed, latest)
<1>1. /\ TypeInv /\ Protocol /\ CopiesInv /\ RestInv
      /\ UNCHANGED <<cr, exists, vms, queued, used>> /\ pc = "lateRead"
      /\ latest \in Resource /\ vms \in [VMs -> VM]
  BY DEF IInv, TypeInv, TypeOK, Protocol, ReportInv, LateRead
<1>2. /\ Fits(latest) /\ Current(latest) /\ Matches(latest.id) /\ Matches(cr.id)
      /\ (latest.deleting => cr.deleting) /\ ~latest.terminal
  BY <1>1 DEF CopiesInv, ConditionsInv, Clear
<1>3. Matches(cr.id)' /\ v \in VMs
  BY <1>1, <1>2, MatchesKept DEF Fits
<1>4. /\ observed.state = vms[v].state
      /\ observed.late = IF vms[v].state \in LateStates THEN vms[v].late ELSE NIL
  BY <1>1, <1>3, ObservedFields
<1>5. \/ Settle(latest, "terminal") /\ isTerminated(observed)
      \/ /\ pc' = "patchLate" /\ desired' = latest /\ latest' = filled
         /\ err' = IF incompleteLateInitialization(filled) THEN "retry" ELSE "none"
  BY DEF LateRead
<1>6. /\ filled.id = v /\ filled.echo = latest.echo /\ filled.deleting = latest.deleting
      /\ filled.late = IF latest.late = NIL THEN observed.late ELSE latest.late
  BY <1>1 DEF lateInitializeFromReadOneOutput, Resource
<1>7. incompleteLateInitialization(filled) <=> filled.late = NIL
  BY DEF incompleteLateInitialization
<1> HIDE DEF v, observed, filled
<1>8. CASE Settle(latest, "terminal") /\ isTerminated(observed)
  <2>1. ASSUME NEW u, u = latest
        PROVE  ReportInv'
    <3>1. Over(u.id)' /\ Matches(u.id)'
      BY <1>1, <1>2, <1>4, <1>8, <2>1 DEF isTerminated, Over, Matches, Gone, SpecIs, NoDrop, v
    <3>2. ~u.terminal /\ (u.deleting => cr.deleting) /\ Settle(u, "terminal")
      BY <1>2, <1>8, <2>1
    <3>3. QED
      BY <1>1, <3>1, <3>2, SettleReport
  <2>2. QED
    BY <2>1
<1>9. CASE /\ pc' = "patchLate" /\ desired' = latest /\ latest' = filled
           /\ err' = IF incompleteLateInitialization(filled) THEN "retry" ELSE "none"
  <2>1. v = latest.id
    BY DEF v
  <2>2. filled.late = vms[v].late \/ (~AlwaysReported /\ filled.late = NIL)
    BY <1>2, <1>4, <1>6, <2>1 DEF Fits
  <2>3. Fits(latest)'
    BY <1>1, <1>2, <1>3, <1>6, <1>9, <2>1, <2>2 DEF Fits
  <2>4. Current(desired)'
    BY <1>1, <1>2, <1>9 DEF Current
  <2>5. Matches(latest.id)'
    BY <1>1, <1>2, <1>6, <1>9, <2>1 DEF Matches, Gone, SpecIs, NoDrop
  <2>6. err' \in {"none", "retry"} /\ (err' = "none" => latest'.late # NIL)
    BY <1>7, <1>9
  <2>7. CopiesInv'
    BY <1>1, <1>2, <1>3, <1>6, <1>9, <2>3, <2>4, <2>5, <2>6 DEF CopiesInv
  <2>8. StatusInv' /\ RestInv'
    BY <1>1, <1>9, BusyRest DEF StatusInv
  <2>9. QED
    BY <2>7, <2>8 DEF ReportInv
<1>10. QED
  BY <1>5, <1>8, <1>9

\* The status patch tells the truth about the spec and the VM.
LEMMA PatchStatusReport ==
    ASSUME IInv, Frame, ReportInv, PatchStatus
    PROVE  ReportInv'
<1> DEFINE r == ensureConditions(latest, err)
<1>1. /\ TypeInv /\ CopiesInv /\ StatusInv /\ cr \in Resource /\ latest \in Resource
      /\ UNCHANGED <<exists, vms, queued, used>> /\ pc = "status"
      /\ err \in {"none", "retry", "terminal"}
  BY DEF IInv, TypeInv, TypeOK, ReportInv, PatchStatus
<1>2. /\ r.id = latest.id /\ r.terminal = latest.terminal
      /\ latest.deleting \/ (r.synced => err = "none")
  BY <1>1 DEF ensureConditions, Resource
<1>3. cr' = [cr EXCEPT !.id = r.id, !.state = r.state, !.terminal = r.terminal,
                       !.recoverable = r.recoverable, !.synced = r.synced]
  BY DEF PatchStatus
<1> HIDE DEF r
<1>4. /\ cr'.echo = cr.echo /\ cr'.late = cr.late /\ cr'.deleting = cr.deleting
      /\ cr'.id = r.id /\ cr'.terminal = r.terminal /\ cr'.synced = r.synced
  BY <1>1, <1>3 DEF Resource
<1>5. /\ pc' = "idle" /\ desired' = Blank /\ latest' = Blank
      /\ ~timer' => err = "terminal"
  BY <1>1 DEF PatchStatus, Rest, Requeues
<1>6. CopiesInv'
  <2>1. Matches(cr.id)'
    BY <1>1, <1>2, <1>4 DEF StatusInv, Matches, Gone, SpecIs, NoDrop
  <2>2. QED
    BY <1>5, <2>1 DEF CopiesInv, Blank
<1>7. StatusInv'
  BY <1>5 DEF StatusInv
<1>8. RestInv'
  <2>1. cr'.synced /\ ~cr'.deleting => err = "none" /\ Fits(latest)
    BY <1>1, <1>2, <1>4 DEF CopiesInv, StatusInv
  <2>2. cr'.synced /\ ~cr'.deleting => cr'.id # NIL
    BY <1>2, <1>4, <2>1, MicrovmAssumption DEF Fits
  <2>3. SyncedMatchesSpec'
    BY <1>1, <1>2, <1>4, <2>1 DEF SyncedMatchesSpec, CaughtUp, Drift, StatusInv, Fits, Current
  <2>4. NeverAbandons'
    BY <1>1, <1>2, <1>4, <1>5 DEF NeverAbandons, AtRest, HasLiveVM, NoReject, StatusInv, Over, Live
  <2>5. AlwaysReported => TerminalHasCause'
    BY <1>1, <1>2, <1>4 DEF TerminalHasCause, CaughtUp, Drift, HasLiveVM, NoReject, NoDrop,
       StatusInv, Over, Live, SpecIs
  <2>6. QED
    BY <2>2, <2>3, <2>4, <2>5 DEF RestInv, AlwaysReported
<1>9. QED
  BY <1>6, <1>7, <1>8 DEF ReportInv

\* Deletion reads the VM before it terminates it; what it reports is retried.
LEMMA DeleteReport ==
    ASSUME IInv, ConditionsInv, Frame, ReportInv,
           DelFindNothing \/ DelFindVM \/ Terminate \/ Unmanage
    PROVE  ReportInv'
<1>1. /\ TypeInv /\ Protocol /\ CopiesInv /\ RestInv /\ cr \in Resource
      /\ desired \in Resource /\ latest \in Resource /\ vms \in [VMs -> VM]
      /\ UNCHANGED <<queued, used>> /\ cr.deleting
  BY DEF IInv, TypeInv, TypeOK, Protocol, ReportInv, CopiesInv, DelFindNothing, DelFindVM,
     Terminate, Unmanage
<1>2. UNCHANGED cr => Matches(cr.id)'
  BY <1>1, MatchesKept DEF CopiesInv
\* The deletion goes on, with or without a resource to terminate.
<1>3. ASSUME UNCHANGED <<cr, exists, vms>>, NEW l \in {"unmanage", "terminate"}, NEW r,
             GoTo(l, Blank, r), l = "terminate" => r.id = cr.id
      PROVE  ReportInv'
  <2>1. pc' = l /\ desired' = Blank /\ latest' = r
    BY <1>3 DEF GoTo
  <2>2. Matches(cr.id)' /\ (l = "terminate" => Matches(latest.id)')
    BY <1>1, <1>2, <1>3, <2>1 DEF Matches, Gone, SpecIs, NoDrop
  <2>3. CopiesInv'
    BY <1>1, <1>3, <2>1, <2>2 DEF CopiesInv, Blank
  <2>4. StatusInv' /\ RestInv'
    BY <1>1, <1>3, <2>1, BusyRest DEF StatusInv
  <2>5. QED
    BY <2>3, <2>4 DEF ReportInv
<1>4. CASE DelFindNothing
  BY <1>1, <1>3, <1>4 DEF DelFindNothing
<1>5. CASE DelFindVM
  <2> DEFINE v == desired.id
             o == Observed(desired, v, vms[v])
             r == updateConditions(o, "none")
  <2>1. v \in VMs /\ v = cr.id /\ UNCHANGED <<cr, exists, vms>>
    BY <1>1, <1>5, MicrovmAssumption DEF DelFindVM, NotFound,
       requiredFieldsMissingFromReadOneInput, Protocol, IdTracking, Resource
  <2>2. vms[v] \in VM /\ vms[v].state \in VMStates
    <3>1. vms[v] \in VM /\ v \notin Forgotten /\ v # NIL
      BY <1>1, <1>5, <2>1, MicrovmAssumption DEF DelFindVM, NotFound
    <3>2. vms[v].state # "ABSENT"
      BY <1>1, <3>1 DEF TypeInv, KnownIds
    <3>3. QED
      BY <2>1, <3>1, <3>2 DEF Forgotten, VM
  <2>3. o \in Resource /\ o.id = v
    BY <1>1, <2>1, <2>2, ObservedType
  <2>4. r \in Resource /\ r.id = v
    BY <2>3, ConditionsType
  <2>5. \/ GoTo("unmanage", Blank, Blank)
        \/ Settle(updateConditions(r, "retry"), "retry")
        \/ GoTo("terminate", Blank, r)
    BY <1>5 DEF DelFindVM
  <2> HIDE DEF v, o, r
  <2>6. CASE Settle(updateConditions(r, "retry"), "retry")
    <3>1. LET u == updateConditions(r, "retry")
          IN u.id = r.id /\ u.terminal = ("retry" = "terminal")
      BY <2>4, ConditionsFields
    <3>2. updateConditions(r, "retry").id = cr.id /\ ~updateConditions(r, "retry").terminal
      BY <2>1, <2>4, <3>1
    <3>3. Matches(updateConditions(r, "retry").id)
      BY <1>1, <3>2 DEF CopiesInv
    <3>4. QED
      BY <1>1, <2>1, <2>6, <3>2, <3>3, FailReport
  <2>7. QED
    BY <1>3, <2>1, <2>4, <2>5, <2>6
<1>6. CASE Terminate
  <2>1. /\ UNCHANGED <<cr, exists>> /\ Matches(latest.id)
        /\ Settle(updateConditions(latest, "retry"), "retry")
    BY <1>1, <1>6 DEF Terminate, CopiesInv
  <2>2. LET u == updateConditions(latest, "retry")
        IN u.id = latest.id /\ u.terminal = ("retry" = "terminal")
    BY <1>1, ConditionsFields
  <2>3. Matches(updateConditions(latest, "retry").id)
    BY <2>1, <2>2
  <2>4. QED
    BY <1>1, <2>1, <2>2, <2>3, FailReport
<1>7. CASE Unmanage
  <2>1. /\ pc' = "idle" /\ desired' = Blank /\ latest' = Blank /\ exists' = FALSE
        /\ cr' = [cr EXCEPT !.finalizer = FALSE]
    BY <1>7 DEF Unmanage, Rest
  <2>2. /\ cr'.echo = cr.echo /\ cr'.late = cr.late /\ cr'.deleting = cr.deleting
        /\ cr'.id = cr.id
    BY <1>1, <2>1 DEF Resource
  <2>3. Matches(cr.id) => Matches(cr.id)'
    BY <1>7, <2>2 DEF Unmanage, Matches, Gone, SpecIs, NoDrop
  <2>4. CopiesInv'
    BY <1>1, <2>1, <2>2, <2>3 DEF CopiesInv, Blank
  <2>5. StatusInv' /\ RestInv'
    BY <1>1, <2>1, <2>2 DEF StatusInv, RestInv, SyncedMatchesSpec, NeverAbandons, TerminalHasCause
  <2>6. QED
    BY <2>4, <2>5 DEF ReportInv
<1>8. QED
  BY <1>4, <1>5, <1>6, <1>7

\* Around the worker: AWS moves a VM, or an event queues the key.
LEMMA AroundReport ==
    ASSUME TypeInv, Frame, ReportInv, UNCHANGED <<pc, desired, latest, err>>,
           cr'.id = cr.id, cr'.synced = cr.synced, cr.deleting => cr'.deleting,
           used'["edit"] = 0 => cr'.echo = cr.echo /\ cr'.late = cr.late,
           queued' \/ UNCHANGED <<cr, exists, queued, timer>>
    PROVE  ReportInv'
<1>1. CopiesInv /\ StatusInv /\ RestInv /\ used \in [Kinds -> Nat] /\ used' \in [Kinds -> Nat]
  BY DEF ReportInv, TypeInv, TypeOK, Frame
<1>2. used'["edit"] = 0 => used["edit"] = 0
  BY DEF Frame, Kinds
<1>3. ASSUME NEW i \in {cr.id, latest.id}, Matches(i)
      PROVE  Matches(i)'
  <2>1. CASE used'["edit"] = 0
    BY <1>3, <2>1, MatchesKept
  <2>2. CASE used'["edit"] # 0
    BY <2>2 DEF Matches
  <2>3. QED
    BY <2>1, <2>2
<1>4. ASSUME NEW r, Current(r)
      PROVE  Current(r)'
  BY <1>2, <1>4 DEF Current
<1>5. Fits(latest) => Fits(latest)'
  BY FitsKept DEF Fits
<1>6. CopiesInv'
  <2>1. Matches(cr.id)'
    BY <1>1, <1>3 DEF CopiesInv
  <2>2. pc \in {"lateRead", "patchLate", "terminate"} => Matches(latest.id)'
    BY <1>1, <1>3 DEF CopiesInv
  <2>3. /\ pc \in {"find", "manage", "run", "patchRun", "patchLate"} => Current(desired)'
        /\ pc = "lateRead" => Current(latest)'
    BY <1>1, <1>4 DEF CopiesInv
  <2>4. QED
    BY <1>1, <1>5, <2>1, <2>2, <2>3 DEF CopiesInv
<1>7. StatusInv'
  <2>1. CASE pc = "status"
    <3>1. Matches(latest.id)'
      BY <1>1, <1>3, <2>1 DEF StatusInv
    <3>2. err = "none" => Fits(latest)' /\ latest.late # NIL /\ Current(latest)'
      BY <1>1, <1>4, <1>5, <2>1 DEF StatusInv
    <3>3. (Over(latest.id) => Over(latest.id)') /\ (NoReject' => NoReject) /\ (NoDrop' => NoDrop)
      BY KnownKept
    <3>4. err = "terminal" /\ NoReject' => latest.terminal \/ Over(latest.id)'
      BY <1>1, <2>1, <3>3 DEF StatusInv
    <3>5. ASSUME latest.terminal, NoReject', NoDrop', AlwaysReported, ~Over(latest.id)'
          PROVE  (used["edit"] > 0)' /\ (queued' \/ ~SpecIs(latest.id)')
      <4>1. used["edit"] > 0 /\ (queued \/ ~SpecIs(latest.id)) /\ ~Over(latest.id)
        BY <1>1, <2>1, <3>3, <3>5 DEF StatusInv
      <4>2. used'["edit"] > 0
        BY <1>1, <1>2, <4>1 DEF Kinds
      <4>3. vms'[latest.id].echo = vms[latest.id].echo /\ vms'[latest.id].late = vms[latest.id].late
        BY <4>1, KnownKept DEF Over
      <4>4. queued' \/ ~SpecIs(latest.id)'
        BY <4>1, <4>3 DEF SpecIs
      <4>5. QED
        BY <4>2, <4>4
    <3>6. QED
      BY <3>1, <3>2, <3>4, <3>5 DEF StatusInv, AlwaysReported
  <2>2. QED
    BY <2>1 DEF StatusInv
<1>8. RestInv'
  <2>1. cr'.synced /\ ~cr'.deleting => cr'.id # NIL
    BY <1>1 DEF RestInv
  <2>2. CASE queued'
    BY <2>1, <2>2 DEF RestInv, SyncedMatchesSpec, NeverAbandons, TerminalHasCause, CaughtUp, AtRest
  <2>3. CASE UNCHANGED <<cr, exists, queued, timer>>
    <3>1. /\ (NoReject' => NoReject) /\ (NoDrop' => NoDrop)
          /\ HasLiveVM' => HasLiveVM
          /\ cr.id # NIL => (Drift' <=> Drift)
      BY <2>3, KnownKept DEF HasLiveVM, Drift
    <3>2. used["edit"] > 0 => used'["edit"] > 0
      BY <1>1, <1>2 DEF Kinds
    <3>3. SyncedMatchesSpec'
      BY <1>1, <2>1, <2>3, <3>1 DEF RestInv, SyncedMatchesSpec, CaughtUp
    <3>4. NeverAbandons'
      BY <1>1, <2>3, <3>1 DEF RestInv, NeverAbandons, AtRest
    <3>5. AlwaysReported => TerminalHasCause'
      <4>1. HasLiveVM' => cr.id # NIL
        BY <2>3 DEF HasLiveVM
      <4>2. QED
        BY <1>1, <2>3, <3>1, <3>2, <4>1 DEF RestInv, TerminalHasCause, CaughtUp
    <3>6. QED
      BY <2>1, <3>3, <3>4, <3>5 DEF RestInv, AlwaysReported
  <2>4. QED
    BY <2>2, <2>3
<1>9. QED
  BY <1>6, <1>7, <1>8 DEF ReportInv

LEMMA OutsideReport ==
    ASSUME IInv, Frame, ReportInv,
           TimerFires \/ Crash \/ UserEdits \/ UserDeletes \/ Cloud \/ UNCHANGED vars
    PROVE  ReportInv'
<1>1. TypeInv /\ cr \in Resource /\ used \in [Kinds -> Nat]
  BY DEF IInv, TypeInv, TypeOK
<1>2. CASE TimerFires
  BY <1>1, <1>2, AroundReport DEF TimerFires
<1>3. CASE Crash
  <2>1. /\ pc' = "idle" /\ desired' = Blank /\ latest' = Blank /\ queued' = exists
        /\ UNCHANGED <<cr, exists, vms>>
    BY <1>3 DEF Crash
  <2>2. Matches(cr.id)'
    BY <1>1, <2>1, MatchesKept DEF ReportInv, CopiesInv
  <2>3. CopiesInv' /\ StatusInv'
    BY <2>1, <2>2 DEF CopiesInv, StatusInv, Blank
  <2>4. RestInv'
    BY <2>1 DEF ReportInv, RestInv, SyncedMatchesSpec, NeverAbandons, TerminalHasCause, CaughtUp,
       AtRest
  <2>5. QED
    BY <2>3, <2>4 DEF ReportInv
<1>4. CASE UserEdits
  <2>1. used'["edit"] # 0
    BY <1>1, <1>4, SpendType DEF UserEdits, Kinds
  <2>2. cr'.id = cr.id /\ cr'.synced = cr.synced /\ cr'.deleting = cr.deleting
    BY <1>1, <1>4 DEF UserEdits, Resource
  <2>3. QED
    BY <1>1, <1>4, <2>1, <2>2, AroundReport DEF UserEdits
<1>5. CASE UserDeletes
  <2>1. /\ cr'.id = cr.id /\ cr'.synced = cr.synced /\ cr'.deleting
        /\ cr'.echo = cr.echo /\ cr'.late = cr.late
    BY <1>1, <1>5 DEF UserDeletes, Resource
  <2>2. QED
    BY <1>1, <1>5, <2>1, AroundReport DEF UserDeletes
<1>6. CASE Cloud
  <2>1. UNCHANGED <<cr, exists, pc, desired, latest, err, queued, timer>>
    BY <1>6 DEF Cloud, Progress, Suspend, Resume, SelfTerminate, Purge, MoveVM
  <2>2. QED
    BY <1>1, <2>1, AroundReport
<1>7. CASE UNCHANGED vars
  BY <1>1, <1>7, AroundReport DEF vars
<1>8. QED
  BY <1>2, <1>3, <1>4, <1>5, <1>6, <1>7

LEMMA ReportInit == Init => ReportInv
<1> SUFFICES ASSUME Init PROVE ReportInv
  OBVIOUS
<1>1. /\ pc = "idle" /\ queued = TRUE /\ desired = Blank /\ latest = Blank
      /\ cr.id = NIL /\ ~cr.synced
  BY DEF Init, Blank
<1>2. CopiesInv
  BY <1>1 DEF CopiesInv, Matches, Gone, Blank
<1>3. StatusInv /\ RestInv
  BY <1>1 DEF StatusInv, RestInv, SyncedMatchesSpec, NeverAbandons, TerminalHasCause, CaughtUp, AtRest
<1>4. QED
  BY <1>2, <1>3 DEF ReportInv

LEMMA ReportStep == IInv /\ ConditionsInv /\ ReportInv /\ [Next]_vars => ReportInv'
<1> SUFFICES ASSUME IInv, ConditionsInv, ReportInv, [Next]_vars PROVE ReportInv'
  OBVIOUS
<1>1. Frame
  <2>1. CASE Next
    BY <2>1, FrameStep DEF IInv, TypeInv, Protocol
  <2>2. CASE UNCHANGED vars
    BY <2>2 DEF vars, Frame, VMsKept, Live, IInv, TypeOK
  <2>3. QED
    BY <2>1, <2>2
<1>2. CASE Worker
  BY <1>1, <1>2, DequeueReport, FailuresReport, FindNothingReport, FindVMReport, ManageReport,
     RunReport, PatchSpecReport, LateReadReport, PatchStatusReport, DeleteReport
  DEF Worker, Sync, Delete, Failures
<1>3. CASE TimerFires \/ Crash \/ UserEdits \/ UserDeletes \/ Cloud \/ UNCHANGED vars
  BY <1>1, <1>3, OutsideReport
<1>4. QED
  BY <1>2, <1>3 DEF Next

LEMMA ReportInvariance == Spec => []ReportInv
BY ReportInit, ReportStep, Invariance, ConditionsInvariance, PTL DEF Spec

\* SyncedMatchesSpec: whatever fails, crashes or moves, as long as no request is
\* lost a Microvm that nothing is due for and that says Synced=True has the spec
\* of its VM (newResourceDelta, sdkUpdate, the spec patches, IsSynced).
THEOREM SyncedSafety == Spec => []SyncedMatchesSpec
<1>1. ReportInv => SyncedMatchesSpec
  BY DEF ReportInv, RestInv
<1>2. QED
  BY <1>1, ReportInvariance, PTL

\* NeverAbandons: the worker comes to rest beside a live VM only after it has
\* reported Terminal=True (onError, updateConditions, the requeue decision).
THEOREM AbandonSafety == Spec => []NeverAbandons
<1>1. ReportInv => NeverAbandons
  BY DEF ReportInv, RestInv
<1>2. QED
  BY <1>1, ReportInvariance, PTL

\* TerminalHasCause: a Terminal=True that the worker leaves behind is due to an
\* edit that still differs from the VM, or to a VM that is over.  It is false when
\* AWS reports the late field only later: a value that the user set then reads as
\* a difference (newResourceDelta).
THEOREM TerminalSafety == ASSUME AlwaysReported PROVE Spec => []TerminalHasCause
<1>1. ReportInv => TerminalHasCause
  BY DEF ReportInv, RestInv
<1>2. QED
  BY <1>1, ReportInvariance, PTL

=============================================================================
