---------------------------- MODULE WidgetHistory ----------------------------
(***************************************************************************)
(* The widget with a record of what it was told, against which its windows *)
(* and its rows are checked.                                               *)
(***************************************************************************)
EXTENDS Widget

VARIABLES
    log,     \* log[k]: the last MaxWindow readings of k, newest last
    reach    \* how many of them the windows have had room for all along

vars == <<widgetVars, log, reach>>

Smallest(a, b) == IF a <= b THEN a ELSE b

\* What a snapshot says of k, as far as the user wants to see it.
Reading(snapshot, k) ==
    LET seen == {i \in DOMAIN snapshot : snapshot[i].key = k /\ ~IsExcluded(snapshot[i])}
    IN  IF seen = {} THEN 0 ELSE snapshot[CHOOSE i \in seen : TRUE].rate

TypeOK ==
    /\ span \in Spans /\ linger \in Lingers
    /\ topCount \in TopCounts /\ excluded \in Exclusions
    /\ ok \in BOOLEAN
    /\ interval \in Intervals \cup {0}
    /\ DOMAIN history \subseteq Keys
    /\ \A k \in DOMAIN history :
          /\ Len(history[k]) \in MinWindow..MaxWindow
          /\ history[k] \in Seq(0..PeakRate)
    /\ DOMAIN lingering \subseteq Keys
    /\ \A k \in DOMAIN lingering :
          lingering[k] \in [name : Names, age : 0..LongestLinger + 1]
    /\ model \in Seq([key : Keys, name : Names, idle : BOOLEAN, fresh : BOOLEAN])

Init ==
    /\ WidgetInit
    /\ log = [k \in Keys |-> Zeroes(MaxWindow)]
    /\ reach = 0

Shown(snapshot) ==
    /\ Ingest(snapshot)
    /\ log' = [k \in Keys |-> Append(Tail(log[k]), Reading(snapshot, k))]
    /\ reach' = Smallest(reach + 1, HistoryLength)

Kept == UNCHANGED <<log, reach>>

\* history has been emptied.
Cleared == history' = NoEntries /\ reach' = 0 /\ UNCHANGED log

Next ==
    \/ \E s \in Snapshots : Shown(s)
    \/ \E n \in Intervals \cup {0} : IntervalChanges(n) /\ Cleared
    \/ StatusChanges /\ ok /\ Cleared
    \/ StatusChanges /\ ~ok /\ Kept
    \/ \E n \in Spans : SetSpan(n) /\ Kept
    \/ \E n \in TopCounts : SetTopCount(n) /\ Kept
    \/ \E n \in Lingers : SetLinger(n) /\ Kept
    \/ \E e \in Exclusions : SetExcluded(e) /\ Kept
    \/ Tick /\ Kept

Spec == Init /\ [][Next]_vars

-----------------------------------------------------------------------------
\* The last n readings of a window or a log.
Latest(s, n) == SubSeq(s, Len(s) - n + 1, Len(s))

\* Every window shows the same stretch of time, and shows it as it was: the latest
\* readings, newest at the right, zero before them and where the application was
\* quiet or hidden; and a key without a window had nothing to show.  This is what
\* has to survive windows created late, dropped when quiet, cut, padded and cleared
\* (main.qml:191-200, 239-266).
WindowsAreTheLog ==
    \A k \in Keys :
        IF k \in DOMAIN history
        THEN LET w == history[k] IN
             /\ Len(w) >= reach
             /\ Latest(w, reach) = Latest(log[k], reach)
             /\ Quiet(SubSeq(w, 1, Len(w) - reach))
        ELSE Quiet(Latest(log[k], reach))

\* All windows have the same number of samples (main.qml:249).
WindowsAreAligned ==
    \A j, k \in DOMAIN history : Len(history[j]) = Len(history[k])

\* No row the user asked to hide is put in the list again, also when it is still
\* lingering from before the setting was changed (main.qml:151-161, 163-170).
HiddenIsNotShown ==
    [][ model' # model => \A i \in DOMAIN model' : model'[i].name \notin excluded ]_vars

\* Reconciling the list leaves each row once, keeps the delegate of every row that
\* was there before and makes a new one for every other (main.qml:293-337).
DelegatesSurvive ==
    [][ model' # model /\ model' # <<>> =>
            /\ \A i, j \in DOMAIN model' : i # j => model'[i].key # model'[j].key
            /\ \A i \in DOMAIN model' : model'[i].fresh <=> model'[i].key \notin KeysOf(model) ]_vars
=============================================================================
