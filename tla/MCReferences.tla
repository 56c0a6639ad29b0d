---------------------------- MODULE MCReferences ----------------------------
(***************************************************************************)
(* TLC instances of References, bounded by the disturbances a run allows.  *)
(***************************************************************************)
EXTENDS References, FiniteSetsExt, TLC

AtMost(limit, total) ==
    {u \in [Disturbances -> 0..2] :
        /\ \A d \in Disturbances : u[d] <= (limit @@ [e \in Disturbances |-> 0])[d]
        /\ MapThenSumSet(LAMBDA d : u[d], Disturbances) <= total}

\* The role becomes ready; it changes again or one disturbance occurs; one
\* deletion besides, or two if the role does not change again.
RoleAndTwo ==
    {u \in AtMost([d \in Disturbances |-> IF d \in {"role", "delete"} THEN 2 ELSE 1], 3) :
        MapThenSumSet(LAMBDA d : u[d], Disturbances \ {"role", "delete"}) <=
            IF u["role"] = 1 THEN 1 ELSE 0}

\* Disturbances after which the Microvm is still owed to start.
Survivable == AtMost([role |-> 2, delete |-> 2, crash |-> 1], 3)

ARNSymmetry == Permutations(RoleARNs) \cup Permutations(ImageARNs)
=============================================================================
