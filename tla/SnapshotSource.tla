--------------------------- MODULE SnapshotSource ---------------------------
(***************************************************************************)
(* What main.qml may rely on of StateWatcher, without saying how: updates  *)
(* come while the status is "ok" and with their spacing announced, and     *)
(* when the source is lost everything is withdrawn at once.                *)
(***************************************************************************)
EXTENDS Integers

CONSTANTS Texts, Empty

VARIABLES
    status, interval,
    text    \* snapshotJson

sourceVars == <<status, interval, text>>

Init ==
    /\ status = "unavailable"
    /\ interval = 0
    /\ text = Empty

HandOver ==
    /\ status' = "ok"
    /\ interval' \in Nat \ {0}
    /\ text' \in Texts

Lose ==
    /\ status' \in {"unavailable", "stale"}
    /\ interval' = 0
    /\ text' = Empty

\* Another path: nothing is known of the spacing there.
Repoint ==
    /\ interval' = 0
    /\ UNCHANGED <<status, text>>

Next == HandOver \/ Lose \/ Repoint

Spec == Init /\ [][Next]_sourceVars
=============================================================================
