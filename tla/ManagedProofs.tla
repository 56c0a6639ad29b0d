--------------------------- MODULE ManagedProofs ---------------------------
(***************************************************************************)
(* What follows from the promise of module Managed, and therefore holds of *)
(* every kind of resource whose controller keeps it.                       *)
(***************************************************************************)
EXTENDS Managed, TLAPS

\* A CR without the finalizer has nothing to leave behind.
NewOwnsNothing == phase = "new" => record = NIL

Inv ==
    /\ record \in Ids \cup {NIL}
    /\ cloud \in [Ids -> States]
    /\ NewOwnsNothing
    /\ NothingAbandoned

LEMMA InvInit == Sound /\ Init => Inv
BY DEF Sound, Init, Inv, NewOwnsNothing, NothingAbandoned

LEMMA InvStep == Sound /\ Inv /\ [Next]_vars => Inv'
<1> SUFFICES ASSUME Sound, Inv, [Next]_vars PROVE Inv'
  OBVIOUS
<1> USE DEF Sound, Inv, NewOwnsNothing, NothingAbandoned
<1>1. CASE Manage \/ Ask \/ Remove
  BY <1>1 DEF Manage, Ask, Remove
<1>2. CASE \E i \in Ids : Begin(i)
  BY <1>2 DEF Begin, States
<1>3. CASE \E i \in Ids : Record(i)
  BY <1>3 DEF Record
<1>4. CASE \E i \in Ids : Advance(i)
  <2>1. PICK i \in Ids : Advance(i)
    BY <1>4
  <2>2. cloud'[i] \in States /\ cloud' = [cloud EXCEPT ![i] = cloud'[i]]
    BY <2>1 DEF Advance, Later, States
  <2>3. cloud[i] \in Released => cloud'[i] \in Released
    <3>1. <<cloud[i], cloud'[i]>> \in Later
      BY <2>1 DEF Advance
    <3>2. QED
      BY <3>1
  <2>4. UNCHANGED <<phase, record>>
    BY <2>1 DEF Advance
  <2>5. \A j \in Ids : cloud[j] \in Released => cloud'[j] \in Released
    BY <2>2, <2>3
  <2>6. QED
    BY <2>2, <2>4, <2>5
<1>5. CASE UNCHANGED vars
  BY <1>5 DEF vars
<1>6. QED
  BY <1>1, <1>2, <1>3, <1>4, <1>5 DEF Next

\* The promise is enough: a CR that is gone has left no recorded resource behind
\* that was not released, whether it went through the finalizer or was deleted
\* before it had one, and nothing that happens later changes that.
THEOREM PromiseSuffices == ASSUME Sound PROVE Spec => []NothingAbandoned
<1>1. Init => Inv
  BY InvInit
<1>2. Inv /\ [Next]_vars => Inv'
  BY InvStep
<1>3. Inv => NothingAbandoned
  BY DEF Inv
<1>4. QED
  BY <1>1, <1>2, <1>3, PTL DEF Spec

=============================================================================
