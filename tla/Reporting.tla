----------------------------- MODULE Reporting -----------------------------
(***************************************************************************)
(* The numbers of one snapshot on their way to the panel: the end of       *)
(* Aggregator::update() ranks and cuts the applications, JsonWriter::write *)
(* makes whole bytes of the rates, and main.qml subtracts what the user    *)
(* asked to hide and picks the application for the tooltip.                *)
(*                                                                         *)
(* Rates are whole numbers of parts of a byte per second.  Each snapshot   *)
(* replaces all of what these steps keep of the one before.                *)
(***************************************************************************)
EXTENDS Integers, FiniteSets, Sequences, FiniteSetsExt

CONSTANTS
    Pids, Apps,
    NoApp,      \* topApp is null
    Parts,      \* parts of a byte
    Rates,      \* rates a process can have, in parts
    TopCounts   \* values of --top

ASSUME PidsAssumption == IsFiniteSet(Pids)
ASSUME PartsAssumption == Parts \in Nat \ {0} /\ Rates \subseteq Nat
ASSUME TopAssumption == TopCounts \subseteq Nat \ {0} /\ NoApp \notin Apps

VARIABLES
    topCount, \* m_topCount
    step,     \* where the snapshot is
    rate,     \* rate[d][p]: rate of process p in direction d
    appOf,    \* the application each process belongs to
    listed,   \* apps: those published, the busiest first
    doc,      \* the document: the total and a row for each application listed
    hidden,   \* the applications isExcluded() matches
    shown     \* totalRx, totalTx and topApp

vars == <<topCount, step, rate, appOf, listed, doc, hidden, shown>>

Directions == {"rx", "tx"}

Quiet == [d \in Directions |-> [p \in Pids |-> 0]]

NoDoc == [total |-> [d \in Directions |-> 0], rows |-> [a \in {} |-> 0]]

NothingShown == [rx |-> 0, tx |-> 0, top |-> NoApp]

Listed == {listed[i] : i \in 1..Len(listed)}

TypeOK ==
    /\ topCount \in TopCounts
    /\ step \in {"idle", "sampled", "updated", "written", "shown", "lost"}
    /\ rate \in [Directions -> [Pids -> Rates \cup {0}]]
    /\ appOf \in [Pids -> Apps]
    /\ Listed \subseteq Apps /\ Len(listed) = Cardinality(Listed)
    /\ Len(listed) <= topCount
    /\ DOMAIN doc.rows \subseteq Listed
    /\ hidden \subseteq Apps
    /\ shown \in [rx : Nat, tx : Nat, top : Apps \cup {NoApp}]

Init ==
    /\ topCount \in TopCounts
    /\ appOf \in [Pids -> Apps]
    /\ step = "idle"
    /\ rate = Quiet
    /\ listed = <<>>
    /\ doc = NoDoc
    /\ hidden = {}
    /\ shown = NothingShown

-----------------------------------------------------------------------------
\* Aggregator::update()

\* The sum of the values of f in S.
SumOf(f, S) == MapThenSumSet(LAMBDA x : f[x], S)

RateOf(S, d) == SumOf(rate[d], S)

Total(S) == RateOf(S, "rx") + RateOf(S, "tx")

Active == {p \in Pids : Total({p}) > 0}

\* entry.pids: processes that were quiet are left out of their group.
Members(a) == {p \in Active : appOf[p] = a}

Groups == {appOf[p] : p \in Active}

\* The samples of a tick, and what they amount to in bytes per second.
Sample ==
    /\ step = "idle"
    /\ step' = "sampled"
    /\ rate' \in [Directions -> [Pids -> Rates]]
    /\ UNCHANGED <<topCount, appOf, listed, doc, hidden, shown>>

\* Faulty: the busiest come last.
RankedBackwards(s) ==
    \A i \in 1..Len(s) - 1 : Total(Members(s[i])) <= Total(Members(s[i + 1]))

\* std::sort by total(); applications that tie come in any order.
Ranked(s) ==
    \A i \in 1..Len(s) - 1 : Total(Members(s[i])) >= Total(Members(s[i + 1]))

\* apps.resize(m_topCount)
Cut(s) == SubSeq(s, 1, IF Len(s) > topCount THEN topCount ELSE Len(s))

Update ==
    /\ step = "sampled"
    /\ step' = "updated"
    /\ \E s \in [1..Cardinality(Groups) -> Groups] :
         /\ {s[i] : i \in DOMAIN s} = Groups
         /\ Ranked(s)
         /\ listed' = Cut(s)
    /\ UNCHANGED <<topCount, rate, appOf, doc, hidden, shown>>

-----------------------------------------------------------------------------
\* JsonWriter::write()

\* qRound64() of a rate that is not negative.
Rounded(r) == (2 * r + Parts) \div (2 * Parts)

\* Faulty: the directions are mixed up.
RowSwapped(S, d) ==
    SumOf([p \in Pids |-> Rounded(rate[IF d = "rx" THEN "tx" ELSE "rx"][p])], S)

\* The rounded rates of the members are summed.
Row(S, d) == SumOf([p \in Pids |-> Rounded(rate[d][p])], S)

Write ==
    /\ step = "updated"
    /\ step' = "written"
    /\ doc' = [total |-> [d \in Directions |-> Rounded(RateOf(Pids, d))],
               rows |-> [a \in Listed |-> [d \in Directions |-> Row(Members(a), d)]]]
    /\ UNCHANGED <<topCount, rate, appOf, listed, hidden, shown>>

-----------------------------------------------------------------------------
\* main.qml, ingest()

RowsOf(S, d) == SumOf([a \in Listed |-> doc.rows[a][d]], S)

\* Faulty: what is hidden stays in the total.
RemainderWithHidden(H, d) == doc.total[d]

\* Faulty: the difference is not kept from falling below 0.
RemainderUnclamped(H, d) == doc.total[d] - RowsOf(H \cap Listed, d)

\* The total without the hidden applications that are listed.
Remainder(H, d) ==
    LET rest == doc.total[d] - RowsOf(H \cap Listed, d)
    IN  IF rest < 0 THEN 0 ELSE rest

\* active[0] ?? null: the first in the list that is not hidden.  What was cut off the
\* list is not known here.
FirstActive(H) ==
    IF Listed \subseteq H THEN NoApp
    ELSE listed[CHOOSE i \in 1..Len(listed) :
                  listed[i] \notin H /\ \A j \in 1..i - 1 : listed[j] \in H]

Ingest ==
    /\ step = "written"
    /\ step' = "shown"
    /\ hidden' \in SUBSET Apps
    /\ shown' = [rx |-> Remainder(hidden', "rx"), tx |-> Remainder(hidden', "tx"),
                  top |-> FirstActive(hidden')]
    /\ UNCHANGED <<topCount, rate, appOf, listed, doc>>

\* onDaemonStatusChanged: the numbers are withdrawn with the status.
StatusLost ==
    /\ step = "shown"
    /\ step' = "lost"
    /\ shown' = NothingShown
    /\ UNCHANGED <<topCount, rate, appOf, listed, doc, hidden>>

\* The tick is over; the next one starts from what the processes do then.  What is
\* shown stays until the next snapshot.
TickEnds ==
    /\ step \in {"shown", "lost"}
    /\ step' = "idle"
    /\ rate' = Quiet
    /\ listed' = <<>>
    /\ doc' = NoDoc
    /\ UNCHANGED <<topCount, appOf, hidden, shown>>

Next == Sample \/ Update \/ Write \/ Ingest \/ StatusLost \/ TickEnds

Spec == Init /\ [][Next]_vars

-----------------------------------------------------------------------------
\* The processes whose traffic the total shown is to cover: those of applications
\* that are not hidden, and of hidden ones the daemon did not list.
Covered == {p \in Pids : appOf[p] \notin hidden \cap Listed}

HiddenMembers == UNION {Members(a) : a \in hidden \cap Listed}

\* The total shown is what the applications not hidden transfer, but for half a
\* byte for its own rounding and for each process hidden: rounding the total once
\* and each process alone never adds up to more, and never shows less than
\* nothing (main.qml:163-184, JsonWriter.cpp:38-42).
TotalIsTheRest ==
    step = "shown" =>
        \A d \in Directions :
            LET off == 2 * (Parts * shown[d] - RateOf(Covered, d))
                bound == Parts * (1 + Cardinality(HiddenMembers))
            IN  -bound <= off /\ off <= bound

\* The rows under a total may add up to more than it, but by no more than half a
\* byte for each process they list and half for the total
\* (JsonWriter.cpp:38-42: "invisible on screen").
RowsFitTheTotal ==
    step = "shown" =>
        \A d \in Directions :
            LET rows == Listed \ hidden
                processes == UNION {Members(a) : a \in Listed}
            IN  2 * RowsOf(rows, d) <= 2 * shown[d] + 1 + Cardinality(processes)

\* The tooltip names an active application that is not hidden and is as busy as any
\* that is not, listed or not.  Where it names none, "nothing is transferring" is not
\* quite what that means, as main.qml:53-54 has it: nothing that is not hidden is, or
\* the user hides as many active applications as the daemon lists, and then what
\* transfers beyond the list goes unnamed (main.qml:203-236, Aggregator.cpp:126-131).
TopIsBusiest ==
    step = "shown" =>
        IF shown.top = NoApp
        THEN Groups \subseteq hidden \/ Cardinality(hidden \cap Groups) >= topCount
        ELSE /\ shown.top \in Groups \ hidden
             /\ \A a \in Groups \ hidden : Total(Members(a)) <= Total(Members(shown.top))
=============================================================================
