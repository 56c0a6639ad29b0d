--------------------------- MODULE ManagerFactory ---------------------------
(***************************************************************************)
(* resourceManagerFactory.ManagerFor: the cache of resource managers, one  *)
(* per account/region/roleARN, behind a sync.RWMutex.  The reconcile       *)
(* workers of a controller call it concurrently (the factories of the two  *)
(* kinds are the same code over two caches).                               *)
(*                                                                         *)
(* The lookup runs under the read lock, the creation under the write lock, *)
(* and the cache is not looked at again in between.                        *)
(*                                                                         *)
(* FoundAlways, RUnlockForgotten, LockAmongReaders, MakeUncached and       *)
(* MakeAnonymous are faulty forms of the definitions they precede; nothing *)
(* uses them but the mutation of a run.                                    *)
(***************************************************************************)
EXTENDS Naturals, FiniteSets

CONSTANTS
    Workers,   \* reconcile workers
    Keys,      \* rmId: account/region/roleARN
    None,      \* no manager, no key, no lock holder
    MaxCalls   \* bound on the calls of one worker, for TLC

ASSUME FactoryAssumption ==
    /\ None \notin Workers \cup Keys
    /\ MaxCalls \in Nat

VARIABLES
    rmCache,   \* key -> cached manager
    readers,   \* workers holding the read lock
    writer,    \* worker holding the write lock
    pc,        \* where each worker is in ManagerFor
    rmId,      \* the key each worker asks for
    rm,        \* the manager each worker has in hand
    calls,     \* calls each worker has made
    created    \* how many managers each worker created for each key

vars == <<rmCache, readers, writer, pc, rmId, rm, calls, created>>

\* A manager is the key it was made for and the worker that made it, the n-th
\* one that this worker made for this key.
Managers == [key : Keys, by : Workers, n : Nat]
NoManager == [key |-> None, by |-> None, n |-> 0]

PCs == {"idle", "rlock", "read", "runlock", "check", "lock", "make", "unlock", "return"}

-----------------------------------------------------------------------------
Goto(w, from, to) ==
    /\ pc[w] = from
    /\ pc' = [pc EXCEPT ![w] = to]

\* Workers that wait for the write lock: a pending Lock keeps new readers out.
Waiting == {w \in Workers : pc[w] = "lock"}

Call(w) ==
    /\ Goto(w, "idle", "rlock")
    /\ calls[w] < MaxCalls
    /\ \E k \in Keys : rmId' = [rmId EXCEPT ![w] = k]
    /\ calls' = [calls EXCEPT ![w] = @ + 1]
    /\ UNCHANGED <<rmCache, readers, writer, rm, created>>

RLock(w) ==
    /\ Goto(w, "rlock", "read")
    /\ writer = None
    /\ Waiting = {}
    /\ readers' = readers \cup {w}
    /\ UNCHANGED <<rmCache, writer, rmId, rm, calls, created>>

Lookup(w) ==
    /\ Goto(w, "read", "runlock")
    /\ rm' = [rm EXCEPT ![w] = rmCache[rmId[w]]]
    /\ UNCHANGED <<rmCache, readers, writer, rmId, calls, created>>

RUnlockForgotten(w) ==
    /\ Goto(w, "runlock", "check")
    /\ UNCHANGED <<rmCache, readers, writer, rmId, rm, calls, created>>

RUnlock(w) ==
    /\ Goto(w, "runlock", "check")
    /\ readers' = readers \ {w}
    /\ UNCHANGED <<rmCache, writer, rmId, rm, calls, created>>

FoundAlways(m) == TRUE

\* if found { return rm, nil } -- the branch taken after the read lock is gone.
Found(m) == m # NoManager

Check(w) ==
    /\ Goto(w, "check", IF Found(rm[w]) THEN "return" ELSE "lock")
    /\ UNCHANGED <<rmCache, readers, writer, rmId, rm, calls, created>>

LockAmongReaders(w) ==
    /\ Goto(w, "lock", "make")
    /\ writer = None
    /\ writer' = w
    /\ UNCHANGED <<rmCache, readers, rmId, rm, calls, created>>

Lock(w) ==
    /\ Goto(w, "lock", "make")
    /\ writer = None
    /\ readers = {}
    /\ writer' = w
    /\ UNCHANGED <<rmCache, readers, rmId, rm, calls, created>>

MakeUncached(w) ==
    /\ Goto(w, "make", "unlock")
    /\ rm' = [rm EXCEPT ![w] = [key |-> rmId[w], by |-> w, n |-> created[w][rmId[w]] + 1]]
    /\ created' = [created EXCEPT ![w][rmId[w]] = @ + 1]
    /\ UNCHANGED <<rmCache, readers, writer, rmId, calls>>

MakeAnonymous(w) ==
    /\ Goto(w, "make", "unlock")
    /\ rm' = [rm EXCEPT ![w] = [key |-> None, by |-> w, n |-> created[w][rmId[w]] + 1]]
    /\ created' = [created EXCEPT ![w][rmId[w]] = @ + 1]
    /\ UNCHANGED <<rmCache, readers, writer, rmId, calls>>

\* newResourceManager, whose error result is always nil, and the store.
Make(w) ==
    /\ Goto(w, "make", "unlock")
    /\ LET m == [key |-> rmId[w], by |-> w, n |-> created[w][rmId[w]] + 1]
       IN /\ rm' = [rm EXCEPT ![w] = m]
          /\ rmCache' = [rmCache EXCEPT ![rmId[w]] = m]
    /\ created' = [created EXCEPT ![w][rmId[w]] = @ + 1]
    /\ UNCHANGED <<readers, writer, rmId, calls>>

\* The deferred Unlock.
Unlock(w) ==
    /\ Goto(w, "unlock", "return")
    /\ writer' = None
    /\ UNCHANGED <<rmCache, readers, rmId, rm, calls, created>>

Return(w) ==
    /\ Goto(w, "return", "idle")
    /\ rm' = [rm EXCEPT ![w] = NoManager]
    /\ UNCHANGED <<rmCache, readers, writer, rmId, calls, created>>

Init ==
    /\ rmCache = [k \in Keys |-> NoManager]
    /\ readers = {}
    /\ writer = None
    /\ pc = [w \in Workers |-> "idle"]
    /\ rmId = [w \in Workers |-> None]
    /\ rm = [w \in Workers |-> NoManager]
    /\ calls = [w \in Workers |-> 0]
    /\ created = [w \in Workers |-> [k \in Keys |-> 0]]

\* What a worker does once it has called ManagerFor.
Inside(w) ==
    \/ RLock(w) \/ Lookup(w) \/ RUnlock(w) \/ Check(w)
    \/ Lock(w) \/ Make(w) \/ Unlock(w) \/ Return(w)

Next == \E w \in Workers : Call(w) \/ Inside(w)

Spec == Init /\ [][Next]_vars

\* Go schedules every runnable goroutine, and a mutex is granted in the end to
\* a goroutine that waits while others take and release it (starvation mode).
FairSpec == Spec /\ \A w \in Workers : SF_vars(Inside(w))

-----------------------------------------------------------------------------
\* Type invariant: the fields of resourceManagerFactory and the locals of
\* ManagerFor stay in their domains.
TypeOK ==
    /\ rmCache \in [Keys -> Managers \cup {NoManager}]
    /\ readers \subseteq Workers
    /\ writer \in Workers \cup {None}
    /\ pc \in [Workers -> PCs]
    /\ rmId \in [Workers -> Keys \cup {None}]
    /\ rm \in [Workers -> Managers \cup {NoManager}]
    /\ calls \in [Workers -> Nat]
    /\ created \in [Workers -> [Keys -> Nat]]

\* ManagerFor hands out a manager made for the key it was asked for, never one
\* of another account, region or role, and never nil (the lookup and the store
\* use one rmId; found and the nil result of the lookup agree).
ManagerMatchesKey ==
    \A w \in Workers : pc[w] = "return" => rm[w] \in Managers /\ rm[w].key = rmId[w]

\* A worker makes at most one manager per key in its life: once stored, a key
\* stays cached, so the duplicates of a key are bounded by the workers that
\* raced for it and do not grow with the reconciliations.
DuplicatesBounded ==
    \A w \in Workers, k \in Keys : created[w][k] <= 1

\* The map is never read while it is written: a Go map would crash.
NoMapRace ==
    \A v, w \in Workers : v # w /\ pc[v] = "make" => pc[w] \notin {"read", "make"}

\* Every call returns: no path leaves a lock behind or waits for its own.
CallsReturn == \A w \in Workers : pc[w] = "rlock" ~> pc[w] = "idle"

-----------------------------------------------------------------------------
(* The invariant behind the three safety properties.                       *)

\* The lock bookkeeping agrees with where the workers are.
LockInv ==
    /\ \A w \in Workers : pc[w] \in {"read", "runlock"} => w \in readers
    /\ \A w \in Workers : pc[w] \in {"make", "unlock"} <=> writer = w
    /\ writer # None => readers = {}

\* A key some worker created for is cached, under that key.
CacheInv ==
    /\ \A w \in Workers : pc[w] # "idle" => rmId[w] \in Keys
    /\ \A k \in Keys : rmCache[k] # NoManager => rmCache[k].key = k
    /\ \A w \in Workers, k \in Keys : created[w][k] > 0 => rmCache[k] # NoManager

\* A worker that is about to create one found nothing, so it never did before.
MissInv ==
    \A w \in Workers :
        /\ pc[w] \in {"runlock", "check", "return"} /\ rm[w] # NoManager =>
              rm[w] \in Managers /\ rm[w].key = rmId[w]
        /\ pc[w] \in {"runlock", "check"} /\ rm[w] = NoManager => created[w][rmId[w]] = 0
        /\ pc[w] \in {"lock", "make"} => created[w][rmId[w]] = 0
        /\ pc[w] \in {"unlock", "return"} => rm[w] # NoManager /\ rm[w].key = rmId[w]

IInv == TypeOK /\ LockInv /\ CacheInv /\ MissInv /\ DuplicatesBounded
=============================================================================
