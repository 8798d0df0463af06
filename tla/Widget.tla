------------------------------- MODULE Widget -------------------------------
(***************************************************************************)
(* plasmoid/package/contents/ui/main.qml: what the widget makes of the     *)
(* snapshots it is handed -- the sparkline windows, the rows that linger   *)
(* after an application went quiet, and the list model that is reconciled  *)
(* in place so that every row keeps its delegate.                          *)
(*                                                                         *)
(* An application is a key, the name it goes by in one snapshot (a group   *)
(* is named after its lowest pid, so that may change) and a total rate.    *)
(* A name stands for label and executable together, and a value of         *)
(* excludeProcesses for the names it matches by one or the other.          *)
(* The two totals and the texts shown are left out.                        *)
(***************************************************************************)
EXTENDS Integers, Sequences, SequencesExt, FiniteSets

CONSTANTS
    Apps,         \* applications: pairs of a key and a name it may go by
    PeakRate,     \* bound: rates are 0..PeakRate
    Spans,        \* values of historySeconds, in ticks
    Intervals,    \* spacings a watcher may announce, in ticks
    Lingers,      \* values of lingerSeconds, in ticks
    TopCounts,    \* values of topCount
    Exclusions,   \* values of excludeProcesses: the names each matches
    Refresh,      \* refreshInterval, in ticks
    MinWindow, MaxWindow  \* the clamps of historyLength (2 and 1200)

ASSUME WidgetAssumption ==
    /\ PeakRate \in Nat
    /\ Spans \cup Lingers \cup TopCounts \subseteq Nat
    /\ Intervals \cup {Refresh} \subseteq Nat \ {0}
    /\ Exclusions \subseteq SUBSET {a[2] : a \in Apps}
    /\ MinWindow \in Nat /\ MaxWindow \in Nat /\ 0 < MinWindow /\ MinWindow <= MaxWindow
ASSUME AppsAssumption == IsFiniteSet(Apps)
ASSUME LingersAssumption == \E n \in Lingers : \A m \in Lingers : m <= n

VARIABLES
    span, linger, topCount, excluded,  \* the configuration
    ok,         \* source.status is "ok"
    interval,   \* source.intervalMs
    history,    \* history: a window of rates for each key in it
    lingering,  \* lingering: the name last seen for a key, and how long ago
    model       \* appsModel: the rows, and whether the delegate is a new one

config == <<span, linger, topCount, excluded>>
widgetVars == <<config, ok, interval, history, lingering, model>>

Keys == {a[1] : a \in Apps}
Names == {a[2] : a \in Apps}

App == {[key |-> a[1], name |-> a[2], rate |-> r] : a \in Apps, r \in 0..PeakRate}

\* The daemon publishes each key once, in an order that is up to it.  A published
\* rate may be 0: it has been rounded.
Snapshots ==
    {s \in UNION {[1..n -> App] : n \in 0..Cardinality(Keys)} :
        \A i, j \in DOMAIN s : i < j => s[i].key # s[j].key}

KeysOf(s) == {s[i].key : i \in DOMAIN s}

NoEntries == [k \in {} |-> 0]

HistoryLength ==
    LET spacing == IF interval > 0 THEN interval ELSE Refresh
        samples == (2 * span + spacing) \div (2 * spacing)
    IN  IF samples < MinWindow THEN MinWindow
        ELSE IF samples > MaxWindow THEN MaxWindow ELSE samples

-----------------------------------------------------------------------------
Zeroes(n) == [i \in 1..n |-> 0]

\* Faulty windows: never cut; padded on the right; growing from empty.
PushedUncut(k, value) ==
    Append(IF k \in DOMAIN history THEN history[k] ELSE Zeroes(HistoryLength), value)

PushedLeft(k, value) ==
    LET new == Append(IF k \in DOMAIN history THEN history[k] ELSE <<>>, value)
        n   == Len(new)
    IN  IF n >= HistoryLength
        THEN SubSeq(new, n - HistoryLength + 1, n)
        ELSE new \o Zeroes(HistoryLength - n)

PushedGrowing(k, value) ==
    LET new == Append(IF k \in DOMAIN history THEN history[k] ELSE <<>>, value)
        n   == Len(new)
    IN  IF n >= HistoryLength THEN SubSeq(new, n - HistoryLength + 1, n) ELSE new

\* pushSample(key, value): the window is created full length, takes the value at
\* its right end, and is cut or padded at its left end to the length in force.
Pushed(k, value) ==
    LET old == IF k \in DOMAIN history THEN history[k] ELSE Zeroes(HistoryLength)
        new == Append(old, value)
        n   == Len(new)
    IN  IF n >= HistoryLength
        THEN SubSeq(new, n - HistoryLength + 1, n)
        ELSE Zeroes(HistoryLength - n) \o new

Quiet(window) == \A i \in DOMAIN window : window[i] = 0

-----------------------------------------------------------------------------
\* The elements of s at the positions in D, in their order.
Selected(s, D) ==
    LET sel[i \in 0..Len(s)] ==
            IF i = 0 THEN <<>>
            ELSE IF i \in D THEN Append(sel[i - 1], s[i]) ELSE sel[i - 1]
    IN  sel[Len(s)]

-----------------------------------------------------------------------------
\* syncModel(rows)

RowOf(key, name, idle) == [key |-> key, name |-> name, idle |-> idle]

\* Faulty: the model is cleared and filled again.
SurvivingNone(rows) == <<>>

\* Departing rows go first.
Surviving(rows) == Selected(model, {i \in DOMAIN model : model[i].key \in KeysOf(rows)})

\* The i-th pass: the row is put in its place, moved there if it is further on.
Placed(m, i, row) ==
    LET further == {j \in i..Len(m) : m[j].key = row.key}
        from    == CHOOSE j \in further : \A n \in further : j <= n
        entry(new) == [key |-> row.key, name |-> row.name, idle |-> row.idle, fresh |-> new]
    IN  IF further = {} THEN InsertAt(m, i, entry(TRUE))
        ELSE InsertAt(RemoveAt(m, from), i, entry(FALSE))

Synced(rows) ==
    LET pass[i \in 0..Len(rows)] ==
            IF i = 0 THEN Surviving(rows) ELSE Placed(pass[i - 1], i, rows[i])
    IN  pass[Len(rows)]

-----------------------------------------------------------------------------
\* ingest(snapshot)

\* By its label or by the base name of its executable: the name is both.
IsExcluded(app) == app.name \in excluded

Expired(k) == lingering[k].age > linger

Ingest(snapshot) ==
    LET shown    == {i \in DOMAIN snapshot : ~IsExcluded(snapshot[i])}
        active   == Selected(snapshot, shown)
        isActive == {snapshot[i].key : i \in shown}
        appOf(k) == snapshot[CHOOSE i \in shown : snapshot[i].key = k]
        waiting  == {k \in DOMAIN lingering \ isActive : ~Expired(k)}
        fading   == {k \in DOMAIN history \ isActive : ~Quiet(Pushed(k, 0))}
    IN
    /\ ok
    /\ interval > 0
    /\ history' = [k \in isActive \cup fading |->
           IF k \in isActive THEN Pushed(k, appOf(k).rate) ELSE Pushed(k, 0)]
    /\ lingering' = [k \in isActive \cup waiting |->
           IF k \in isActive THEN [name |-> appOf(k).name, age |-> 0] ELSE lingering[k]]
    \* Most recently active first; the order of equals is the engine's.
    /\ \E idle \in SetToSeqs(waiting) :
         /\ \A i, j \in DOMAIN idle : i < j => lingering[idle[i]].age <= lingering[idle[j]].age
         /\ LET busy == [i \in DOMAIN active |-> RowOf(active[i].key, active[i].name, FALSE)]
                rest == [i \in DOMAIN idle |-> RowOf(idle[i], lingering[idle[i]].name, TRUE)]
                rows == busy \o rest
            IN  model' = Synced(SubSeq(rows, 1, IF Len(rows) < topCount THEN Len(rows)
                                                ELSE topCount))
    /\ UNCHANGED <<config, ok, interval>>

-----------------------------------------------------------------------------
\* Signals of the watcher.

\* onIntervalMsChanged
IntervalChanges(n) ==
    /\ interval # n
    /\ interval' = n
    /\ history' = NoEntries
    /\ UNCHANGED <<config, ok, lingering, model>>

\* onDaemonStatusChanged
StatusChanges ==
    /\ ok' = ~ok
    /\ \/ /\ ok'
          /\ UNCHANGED <<history, lingering, model>>
       \/ /\ ~ok'
          /\ history' = NoEntries
          /\ lingering' = NoEntries
          /\ model' = <<>>
    /\ UNCHANGED <<config, interval>>

\* The configuration dialogue.
SetSpan(n) ==
    /\ span # n
    /\ span' = n
    /\ UNCHANGED <<linger, topCount, excluded, ok, interval, history, lingering, model>>

SetTopCount(n) ==
    /\ topCount # n
    /\ topCount' = n
    /\ UNCHANGED <<span, linger, excluded, ok, interval, history, lingering, model>>

SetLinger(n) ==
    /\ linger # n
    /\ linger' = n
    /\ lingering' = NoEntries
    /\ UNCHANGED <<span, topCount, excluded, ok, interval, history, model>>

\* Faulty: what lingers is kept.
SetExcludedOnly(names) ==
    /\ excluded # names
    /\ excluded' = names
    /\ UNCHANGED <<span, linger, topCount, ok, interval, history, lingering, model>>

SetExcluded(names) ==
    /\ excluded # names
    /\ excluded' = names
    /\ lingering' = NoEntries
    /\ UNCHANGED <<span, linger, topCount, ok, interval, history, model>>

\* Time passes; ages beyond every setting of linger are all the same.
LongestLinger == CHOOSE n \in Lingers : \A m \in Lingers : m <= n

Tick ==
    /\ \E k \in DOMAIN lingering : lingering[k].age <= LongestLinger
    /\ lingering' = [k \in DOMAIN lingering |->
           IF lingering[k].age <= LongestLinger THEN [lingering[k] EXCEPT !.age = @ + 1]
           ELSE lingering[k]]
    /\ UNCHANGED <<config, ok, interval, history, model>>

WidgetInit ==
    /\ span \in Spans
    /\ linger \in Lingers
    /\ topCount \in TopCounts
    /\ excluded \in Exclusions
    /\ ok = FALSE
    /\ interval = 0
    /\ history = NoEntries
    /\ lingering = NoEntries
    /\ model = <<>>
=============================================================================
