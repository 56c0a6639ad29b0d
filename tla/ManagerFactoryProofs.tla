------------------------ MODULE ManagerFactoryProofs ------------------------
(***************************************************************************)
(* Proofs about the cache of resource managers, for every set of workers   *)
(* and keys and every number of calls.  IInv (ManagerFactory.tla) is       *)
(* inductive: LockInv says who is inside which section of the lock,        *)
(* CacheInv that what was created stays cached, and MissInv that a worker  *)
(* on its way to create a manager has not created one for that key before. *)
(***************************************************************************)
EXTENDS ManagerFactory, TLAPS

USE FactoryAssumption

\* The nil result of a lookup is no manager.
LEMMA NilIsNoManager == NoManager \notin Managers
BY DEF NoManager, Managers

\* What newResourceManager returns is a manager for the key it was given.
LEMMA MakeEffect ==
    ASSUME TypeOK, CacheInv, NEW w \in Workers, Make(w)
    PROVE  \E m \in Managers :
              /\ m.key = rmId[w] /\ rmId[w] \in Keys
              /\ pc[w] = "make" /\ pc' = [pc EXCEPT ![w] = "unlock"]
              /\ rm' = [rm EXCEPT ![w] = m]
              /\ rmCache' = [rmCache EXCEPT ![rmId[w]] = m]
              /\ created' \in [Workers -> [Keys -> Nat]]
              /\ created'[w][rmId[w]] = created[w][rmId[w]] + 1
              /\ \A v \in Workers, k \in Keys :
                    v # w \/ k # rmId[w] => created'[v][k] = created[v][k]
              /\ UNCHANGED <<readers, writer, rmId, calls>>
<1> DEFINE k == rmId[w]
           m == [key |-> k, by |-> w, n |-> created[w][k] + 1]
<1>1. pc[w] = "make" /\ pc' = [pc EXCEPT ![w] = "unlock"]
  BY DEF Make, Goto
<1>2. k \in Keys
  BY <1>1 DEF CacheInv
<1>3. created[w] \in [Keys -> Nat] /\ created[w][k] \in Nat
  BY <1>2 DEF TypeOK
<1>4. m \in Managers /\ m.key = k
  BY <1>2, <1>3 DEF Managers
<1>5. created' = [created EXCEPT ![w] = [created[w] EXCEPT ![k] = created[w][k] + 1]]
  BY DEF Make
<1>6. created' \in [Workers -> [Keys -> Nat]]
  BY <1>2, <1>3, <1>5 DEF TypeOK
<1>7. /\ created'[w][k] = created[w][k] + 1
      /\ \A v \in Workers, j \in Keys :
            v # w \/ j # k => created'[v][j] = created[v][j]
  BY <1>2, <1>3, <1>5 DEF TypeOK
<1>8. /\ rm' = [rm EXCEPT ![w] = m]
      /\ rmCache' = [rmCache EXCEPT ![k] = m]
      /\ UNCHANGED <<readers, writer, rmId, calls>>
  BY DEF Make
<1>9. QED
  BY <1>1, <1>2, <1>4, <1>6, <1>7, <1>8

-----------------------------------------------------------------------------
LEMMA InitInvariant == Init => IInv
<1> SUFFICES ASSUME Init PROVE IInv
  OBVIOUS
<1>1. TypeOK
  BY DEF Init, TypeOK, PCs
<1>2. LockInv
  BY DEF Init, LockInv
<1>3. CacheInv
  BY DEF Init, CacheInv
<1>4. MissInv /\ DuplicatesBounded
  BY DEF Init, MissInv, DuplicatesBounded
<1>5. QED
  BY <1>1, <1>2, <1>3, <1>4 DEF IInv

LEMMA CallInvariant == ASSUME IInv, NEW w \in Workers, Call(w) PROVE IInv'
<1>1. PICK k \in Keys : rmId' = [rmId EXCEPT ![w] = k]
  BY DEF Call
<1>2. TypeOK'
  BY <1>1 DEF IInv, TypeOK, Call, Goto, PCs
<1>3. LockInv'
  BY DEF IInv, TypeOK, LockInv, Call, Goto
<1>4. CacheInv'
  BY <1>1 DEF IInv, TypeOK, CacheInv, Call, Goto
<1>5. MissInv' /\ DuplicatesBounded'
  BY <1>1 DEF IInv, TypeOK, MissInv, DuplicatesBounded, Call, Goto
<1>6. QED
  BY <1>2, <1>3, <1>4, <1>5 DEF IInv

\* The steps under the read lock and the branch after it.
LEMMA RLockInvariant == ASSUME IInv, NEW w \in Workers, RLock(w) PROVE IInv'
<1>1. TypeOK'
  BY DEF IInv, TypeOK, RLock, Goto, PCs
<1>2. LockInv'
  BY DEF IInv, TypeOK, LockInv, RLock, Goto
<1>3. CacheInv' /\ MissInv' /\ DuplicatesBounded'
  BY DEF IInv, TypeOK, CacheInv, MissInv, DuplicatesBounded, RLock, Goto
<1>4. QED
  BY <1>1, <1>2, <1>3 DEF IInv

LEMMA LookupInvariant == ASSUME IInv, NEW w \in Workers, Lookup(w) PROVE IInv'
<1>1. rmId[w] \in Keys /\ rmCache[rmId[w]] \in Managers \cup {NoManager}
  BY DEF IInv, TypeOK, CacheInv, Lookup, Goto
<1>2. TypeOK'
  BY <1>1 DEF IInv, TypeOK, Lookup, Goto, PCs
<1>3. LockInv'
  BY DEF IInv, TypeOK, LockInv, Lookup, Goto
<1>4. CacheInv' /\ DuplicatesBounded'
  BY DEF IInv, TypeOK, CacheInv, DuplicatesBounded, Lookup, Goto
<1>5. MissInv'
  <2>1. rmCache[rmId[w]] = NoManager => created[w][rmId[w]] = 0
    BY <1>1 DEF IInv, TypeOK, CacheInv
  <2>2. rm' = [rm EXCEPT ![w] = rmCache[rmId[w]]] /\ pc' = [pc EXCEPT ![w] = "runlock"]
    BY DEF Lookup, Goto
  <2>3. QED
    BY <1>1, <2>1, <2>2 DEF IInv, TypeOK, CacheInv, MissInv, Lookup
<1>6. QED
  BY <1>2, <1>3, <1>4, <1>5 DEF IInv

LEMMA RUnlockInvariant == ASSUME IInv, NEW w \in Workers, RUnlock(w) PROVE IInv'
<1>1. TypeOK'
  BY DEF IInv, TypeOK, RUnlock, Goto, PCs
<1>2. LockInv'
  BY DEF IInv, TypeOK, LockInv, RUnlock, Goto
<1>3. CacheInv' /\ MissInv' /\ DuplicatesBounded'
  BY DEF IInv, TypeOK, CacheInv, MissInv, DuplicatesBounded, RUnlock, Goto
<1>4. QED
  BY <1>1, <1>2, <1>3 DEF IInv

LEMMA CheckInvariant == ASSUME IInv, NEW w \in Workers, Check(w) PROVE IInv'
<1>1. TypeOK'
  BY DEF IInv, TypeOK, Check, Goto, PCs
<1>2. LockInv'
  BY DEF IInv, TypeOK, LockInv, Check, Goto
<1>3. CacheInv' /\ DuplicatesBounded'
  BY DEF IInv, TypeOK, CacheInv, DuplicatesBounded, Check, Goto
<1>4. MissInv'
  BY DEF IInv, TypeOK, MissInv, Check, Goto, Found
<1>5. QED
  BY <1>1, <1>2, <1>3, <1>4 DEF IInv

\* The steps under the write lock.
LEMMA LockInvariant == ASSUME IInv, NEW w \in Workers, Lock(w) PROVE IInv'
<1>1. TypeOK'
  BY DEF IInv, TypeOK, Lock, Goto, PCs
<1>2. LockInv'
  BY DEF IInv, TypeOK, LockInv, Lock, Goto
<1>3. CacheInv' /\ MissInv' /\ DuplicatesBounded'
  BY DEF IInv, TypeOK, CacheInv, MissInv, DuplicatesBounded, Lock, Goto
<1>4. QED
  BY <1>1, <1>2, <1>3 DEF IInv

LEMMA MakeInvariant == ASSUME IInv, NEW w \in Workers, Make(w) PROVE IInv'
<1>1. PICK m \in Managers :
         /\ m.key = rmId[w] /\ rmId[w] \in Keys
         /\ pc[w] = "make" /\ pc' = [pc EXCEPT ![w] = "unlock"]
         /\ rm' = [rm EXCEPT ![w] = m]
         /\ rmCache' = [rmCache EXCEPT ![rmId[w]] = m]
         /\ created' \in [Workers -> [Keys -> Nat]]
         /\ created'[w][rmId[w]] = created[w][rmId[w]] + 1
         /\ \A v \in Workers, k \in Keys :
               v # w \/ k # rmId[w] => created'[v][k] = created[v][k]
         /\ UNCHANGED <<readers, writer, rmId, calls>>
  BY MakeEffect DEF IInv
<1>2. m # NoManager
  BY NilIsNoManager
<1>3. created[w][rmId[w]] = 0
  BY <1>1 DEF IInv, MissInv
<1>4. TypeOK'
  BY <1>1 DEF IInv, TypeOK, PCs
<1>5. LockInv'
  BY <1>1 DEF IInv, TypeOK, LockInv
<1>6. CacheInv'
  BY <1>1, <1>2 DEF IInv, TypeOK, CacheInv
<1>7. MissInv'
  <2>1. \A v \in Workers : v # w =>
           /\ pc'[v] = pc[v] /\ rm'[v] = rm[v] /\ rmId'[v] = rmId[v]
           /\ \A k \in Keys : created'[v][k] = created[v][k]
    BY <1>1 DEF IInv, TypeOK
  <2>2. pc'[w] = "unlock" /\ rm'[w] = m /\ rmId'[w] = rmId[w]
    BY <1>1 DEF IInv, TypeOK
  <2>3. \A v \in Workers : pc[v] # "idle" => rmId[v] \in Keys
    BY DEF IInv, CacheInv
  <2>4. QED
    BY <1>1, <1>2, <2>1, <2>2, <2>3 DEF IInv, MissInv
<1>8. DuplicatesBounded'
  BY <1>1, <1>3 DEF IInv, TypeOK, DuplicatesBounded
<1>9. QED
  BY <1>4, <1>5, <1>6, <1>7, <1>8 DEF IInv

LEMMA UnlockInvariant == ASSUME IInv, NEW w \in Workers, Unlock(w) PROVE IInv'
<1>1. TypeOK'
  BY DEF IInv, TypeOK, Unlock, Goto, PCs
<1>2. LockInv'
  BY DEF IInv, TypeOK, LockInv, Unlock, Goto
<1>3. CacheInv' /\ DuplicatesBounded'
  BY DEF IInv, TypeOK, CacheInv, DuplicatesBounded, Unlock, Goto
<1>4. MissInv'
  BY DEF IInv, TypeOK, MissInv, Unlock, Goto
<1>5. QED
  BY <1>1, <1>2, <1>3, <1>4 DEF IInv

LEMMA ReturnInvariant == ASSUME IInv, NEW w \in Workers, Return(w) PROVE IInv'
<1>1. TypeOK'
  BY DEF IInv, TypeOK, Return, Goto, PCs
<1>2. LockInv'
  BY DEF IInv, TypeOK, LockInv, Return, Goto
<1>3. CacheInv' /\ DuplicatesBounded'
  BY DEF IInv, TypeOK, CacheInv, DuplicatesBounded, Return, Goto
<1>4. MissInv'
  BY DEF IInv, TypeOK, MissInv, Return, Goto
<1>5. QED
  BY <1>1, <1>2, <1>3, <1>4 DEF IInv

-----------------------------------------------------------------------------
\* IInv holds in every state of ManagerFor under any interleaving.
THEOREM FactoryInvariance == Spec => []IInv
<1>1. IInv /\ [Next]_vars => IInv'
  <2> SUFFICES ASSUME IInv, [Next]_vars PROVE IInv'
    OBVIOUS
  <2>1. CASE UNCHANGED vars
    BY <2>1 DEF vars, IInv, TypeOK, LockInv, CacheInv, MissInv, DuplicatesBounded
  <2>2. CASE Next
    <3>1. PICK w \in Workers : Call(w) \/ Inside(w)
      BY <2>2 DEF Next
    <3>2. QED
      BY <3>1, CallInvariant, RLockInvariant, LookupInvariant, RUnlockInvariant,
         CheckInvariant, LockInvariant, MakeInvariant, UnlockInvariant, ReturnInvariant
      DEF Inside
  <2>3. QED
    BY <2>1, <2>2
<1>2. QED
  BY InitInvariant, <1>1, PTL DEF Spec

\* Whatever the interleaving of the reconcile workers, ManagerFor returns a
\* manager, and one made for the account, region and role it was asked for.
THEOREM ReturnsOwnManager == Spec => []ManagerMatchesKey
<1>1. IInv => ManagerMatchesKey
  BY NilIsNoManager DEF IInv, TypeOK, MissInv, ManagerMatchesKey
<1>2. QED
  BY <1>1, FactoryInvariance, PTL

\* The duplicates that the unchecked creation lets through do not accumulate:
\* one per worker and key over the life of the controller.
THEOREM DuplicatesAreBounded == Spec => []DuplicatesBounded
<1>1. IInv => DuplicatesBounded
  BY DEF IInv
<1>2. QED
  BY <1>1, FactoryInvariance, PTL

\* The cache's map is never read or written while another worker writes it.
THEOREM MapIsGuarded == Spec => []NoMapRace
<1>1. IInv => NoMapRace
  BY DEF IInv, TypeOK, LockInv, NoMapRace
<1>2. QED
  BY <1>1, FactoryInvariance, PTL

\* The workers, the lock and the cache stay in their domains; in particular the
\* lock has a writer that is a worker, and readers that are.
THEOREM FactoryTypeCorrect == Spec => []TypeOK
<1>1. IInv => TypeOK
  BY DEF IInv
<1>2. QED
  BY <1>1, FactoryInvariance, PTL

=============================================================================
