----------------------------- MODULE FeedHistory -----------------------------
(***************************************************************************)
(* SnapshotFeed with a memory of what the widget was given: how old the    *)
(* last sign of life and the last snapshot handed over have become.        *)
(* Nothing here is read by the system; it is there to state what the       *)
(* documentation promises about freshness and spacing.                     *)
(***************************************************************************)
EXTENDS SnapshotFeed

VARIABLES
    proofAge,  \* age of the document last taken as evidence of a daemon
    shownAge,  \* age of the snapshot last handed to QML
    repointed, \* the path was assigned since the status last became "ok"
    reset      \* staleAfterMs was assigned since the last evidence

hvars == <<vars, proofAge, shownAge, repointed, reset>>

\* read() took a document as evidence; it handed it over to QML.
TookEvidence == pc = "open" /\ lastSeq' \notin {NoSeq, lastSeq}

HandedOver == TookEvidence /\ skipped' = 0

Aged(a) == IF a < AgeCap THEN a + 1 ELSE a

HInit == Init /\ proofAge = 0 /\ shownAge = 0 /\ repointed = FALSE /\ reset = FALSE

HTick ==
    /\ Tick
    /\ proofAge' = Aged(proofAge)
    /\ shownAge' = Aged(shownAge)
    /\ UNCHANGED <<repointed, reset>>

HStep ==
    /\ ClockActs \/ DaemonActs \/ WatcherActs \/ UserActs
    /\ proofAge' = IF TookEvidence THEN docs[path].age ELSE proofAge
    /\ shownAge' = IF HandedOver THEN docs[path].age ELSE shownAge
    /\ repointed' = (status = "ok" /\ (repointed \/ path' # path))
    /\ reset' = (status = "ok" /\ ~TookEvidence /\ (reset \/ staleAfter' # staleAfter))

HNext == HTick \/ HStep

HSpec == HInit /\ [][HNext]_hvars

-----------------------------------------------------------------------------
MaxOf(S) == CHOOSE n \in S : \A m \in S : m <= n

\* How long a watcher whose path and staleAfterMs are left alone can go on
\* trusting a daemon.
\* The first document is at most staleAfterMs old, and the watchdog then waits
\* for three publishing intervals if that is more; the event loop may be late
\* in noticing that it fired.
TrustBound ==
    MaxOf(StaleSettings)
        + Largest(MaxOf(StaleSettings), 3 * MaxOf(Periods)) + MaxLag

\* "ok" rests on a document that was published recently, whatever the daemon and
\* the timing of notifications did: a snapshot left behind by a daemon that was
\* killed is never presented as current for longer.  Every assignment of
\* staleAfterMs restarts the watchdog and is granted another wait
\* (StateWatcher.cpp:100, 170-195, tst_statewatcher.cpp:252).
OkIsRecent == status = "ok" /\ ~repointed /\ ~reset => proofAge <= TrustBound

\* The same without a condition on the path: "A daemon killed with SIGKILL leaves
\* its last snapshot behind, and the widget must not present it as current"
\* (tst_statewatcher.cpp:252).  setPath() leaves the watchdog running, and with
\* the watchdog running read() does not look at the age.
LeftoverIsNotCurrent == status = "ok" => proofAge <= TrustBound

\* Two snapshots handed over in a row, while the spacing claimed did not change,
\* were published no closer together than claimed: coalescing never lets one
\* through early (StateWatcher.h:39, StateWatcher.cpp:198-213).
NeverTooSoon ==
    [][ HandedOver /\ interval > 0 /\ interval' = interval
        => shownAge - docs[path].age >= interval ]_hvars

\* A status of "ok" is only given up for "stale" after three publishing intervals
\* without a sign of life, whatever staleAfterMs is, unless it was assigned
\* meanwhile: setStaleAfterMs() restarts the watchdog with the bare setting
\* (StateWatcher.cpp:191-194, 100).
NeverHasty ==
    [][ status = "ok" /\ status' = "stale" /\ path # NoPath /\ ~reset
        => proofAge >= 3 * docs[path].period ]_hvars
=============================================================================
