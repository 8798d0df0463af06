------------------------------- MODULE Meter -------------------------------
(***************************************************************************)
(* What per-process accounting promises, without saying how: processes     *)
(* transfer bytes, each byte is due to be shown under one pid, and from    *)
(* time to time some of the bytes that are due and were not shown before   *)
(* are shown.  A byte is due under the pid that transferred it, but may be *)
(* put down to another before it is shown: then it is not shown under the  *)
(* first any more, so that never more bytes are shown than were            *)
(* transferred.                                                            *)
(***************************************************************************)
EXTENDS Integers

CONSTANT Pids

VARIABLES
    due,    \* due[p]: bytes to be shown under p, those that have been included
    shown   \* shown[p]: bytes that have been shown under p

meterVars == <<due, shown>>

Init ==
    /\ due = [p \in Pids |-> 0]
    /\ shown = [p \in Pids |-> 0]

Transfer ==
    /\ \E p \in Pids : due' = [due EXCEPT ![p] = @ + 1]
    /\ UNCHANGED shown

Misbook ==
    /\ \E p, q \in Pids :
         /\ p # q /\ shown[p] < due[p]
         /\ due' = [due EXCEPT ![p] = @ - 1, ![q] = @ + 1]
    /\ UNCHANGED shown

\* Nothing is shown that is not due, and nothing is taken back.
Show ==
    /\ shown' \in [Pids -> Nat]
    /\ \A p \in Pids : shown[p] <= shown'[p] /\ shown'[p] <= due[p]
    /\ UNCHANGED due

Next == Transfer \/ Misbook \/ Show

Spec == Init /\ [][Next]_meterVars
=============================================================================
