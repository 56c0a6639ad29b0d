------------------------------ MODULE MCMicrovm ------------------------------
(***************************************************************************)
(* TLC instances of Microvm.  The bound of a run is the set of counts of   *)
(* disturbances it allows: at most so many of each kind, and at most so    *)
(* many altogether.                                                        *)
(***************************************************************************)
EXTENDS Microvm, TLC, FiniteSetsExt

AtMost(limit, total) ==
    {u \in [Kinds -> 0..2] :
        /\ \A k \in Kinds : u[k] <= (limit @@ [j \in Kinds |-> 0])[k]
        /\ MapThenSumSet(LAMBDA k : u[k], Kinds) <= total}

\* Any two disturbances of different kinds.
AnyTwo == AtMost([k \in Kinds |-> 1], 2)

\* The disturbances after which the liveness properties are still owed: an
\* edit and its revert, a failed call, a suspension.
Survivable == AtMost([edit |-> 2, error |-> 1, suspend |-> 1], 2)

OneEdit == AtMost([edit |-> 1], 1)

\* AWS reports the late field in every state.
AllStates == VMStates

VMSymmetry == Permutations(VMs)
=============================================================================
