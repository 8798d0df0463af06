----------------------------- MODULE MCReporting -----------------------------
(***************************************************************************)
(* Reporting for TLC: the applications are interchangeable, and what the   *)
(* last snapshot left on the screen does not change what comes next.       *)
(***************************************************************************)
EXTENDS Reporting, TLC

MCView == <<topCount, step, rate, appOf, listed, doc,
            IF step \in {"shown", "lost"} THEN <<hidden, shown>> ELSE <<>>>>

AppSymmetry == Permutations(Apps)
=============================================================================
