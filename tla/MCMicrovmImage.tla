--------------------------- MODULE MCMicrovmImage ---------------------------
(***************************************************************************)
(* TLC instances of MicrovmImage, bounded like those of MCMicrovm by the   *)
(* disturbances a run allows.                                              *)
(***************************************************************************)
EXTENDS MicrovmImage, FiniteSetsExt, TLC

AtMost(limit, total) ==
    {u \in [Kinds -> 0..2] :
        /\ \A k \in Kinds : u[k] <= (limit @@ [j \in Kinds |-> 0])[k]
        /\ MapThenSumSet(LAMBDA k : u[k], Kinds) <= total}

\* Any two disturbances, two edits and two failed builds included.
AnyTwo == AtMost([k \in Kinds |-> IF k \in {"edit", "tag", "fail"} THEN 2 ELSE 1], 2)

\* The disturbances after which drift is still owed to be corrected.
Survivable == AtMost([edit |-> 1, tag |-> 1, error |-> 1, fail |-> 2, outside |-> 1], 3)

OneFailure == AtMost([edit |-> 1, fail |-> 1], 2)
=============================================================================
