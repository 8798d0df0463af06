---------------------------- MODULE StateWatcher ----------------------------
(***************************************************************************)
(* plasmoid/plugin/StateWatcher.cpp: the reader of the snapshot inside     *)
(* plasmashell.  It is woken by file notifications, takes one snapshot out *)
(* of every few, and decides whether the daemon is alive.                  *)
(*                                                                         *)
(* Everything runs on one event loop: a callback or a property assignment  *)
(* starts when no other runs (pc = "idle").  read() is not atomic with     *)
(* respect to the daemon, so it is three steps: the two checks of rearm(), *)
(* and the open that fixes which document is read together with what is    *)
(* made of it.                                                             *)
(***************************************************************************)
EXTENDS RuntimeDir

CONSTANTS
    CoalesceSettings,  \* values of coalesceMs, in ticks
    StaleSettings,     \* values of staleAfterMs, in ticks
    DefaultStale,      \* the value the constructor gives staleAfterMs
    RetryTicks,        \* kRetryMs, in ticks
    Grain              \* 100 ms, in ticks

ASSUME CoalesceAssumption == CoalesceSettings \subseteq Nat /\ 0 \in CoalesceSettings
ASSUME StaleAssumption ==
    StaleSettings \subseteq Nat \ {0} /\ DefaultStale \in StaleSettings
ASSUME RetryAssumption == RetryTicks \in Nat \ {0}
ASSUME GrainAssumption == Grain \in Nat \ {0}

VARIABLES
    path, coalesce, staleAfter,  \* the properties QML assigns
    status,    \* m_status
    json,      \* m_snapshotJson: the seq of the snapshot shown, or Empty
    interval,  \* m_intervalMs, in ticks
    lastSeq,   \* m_lastSeq
    skipped,   \* m_skipped
    firstRead, \* m_firstRead is armed (and due at once)
    retry,     \* m_retry: ticks until it fires, or Off
    watchdog,  \* m_watchdog: ticks until it fires, or Off
    pc         \* how far read() has come

settings == <<path, coalesce, staleAfter>>
view == <<status, json, interval>>
timers == <<firstRead, retry, watchdog>>
watcherVars == <<settings, view, lastSeq, skipped, timers, pc>>

Off == -1     \* a timer that is not active
NoSeq == -1   \* the value m_lastSeq starts with
Empty == 0    \* no snapshot text

Largest(a, b) == IF a >= b THEN a ELSE b

WatcherTypeOK ==
    /\ path \in Paths \cup {NoPath}
    /\ coalesce \in CoalesceSettings
    /\ staleAfter \in StaleSettings
    /\ status \in {"ok", "unavailable", "stale"}
    /\ json \in Seqs \cup {Empty}
    /\ interval \in Nat
    /\ lastSeq \in Seqs \cup {NoSeq}
    /\ skipped \in Nat
    /\ firstRead \in BOOLEAN
    /\ retry \in 0..RetryTicks \cup {Off}
    /\ watchdog \in Nat \cup {Off}
    /\ pc \in {"idle", "dir", "file", "open"}

WatcherInit ==
    /\ path = NoPath
    /\ coalesce = 0
    /\ staleAfter = DefaultStale
    /\ status = "unavailable"
    /\ json = Empty
    /\ interval = 0
    /\ lastSeq = NoSeq
    /\ skipped = 0
    /\ firstRead = FALSE
    /\ retry = Off
    /\ watchdog = Off
    /\ pc = "idle"

-----------------------------------------------------------------------------
\* The properties.  QML assigns them one at a time and in any order.

\* setPath() forgets the watches and with them whatever they had to report, and
\* asks for a read on the next turn of the event loop.
SetPath(p) ==
    /\ pc = "idle"
    /\ path # p
    /\ path' = p
    /\ watch' = Unwatched(p)
    /\ lastSeq' = NoSeq
    /\ skipped' = 0
    /\ interval' = 0
    /\ firstRead' = TRUE
    /\ UNCHANGED <<dirs, docs, coalesce, staleAfter, status, json, retry, watchdog, pc>>

SetCoalesce(c) ==
    /\ pc = "idle"
    /\ coalesce # c
    /\ coalesce' = c
    /\ skipped' = 0
    /\ UNCHANGED <<dirVars, path, staleAfter, view, lastSeq, timers, pc>>

SetStaleAfter(s) ==
    /\ pc = "idle"
    /\ staleAfter # s
    /\ staleAfter' = s
    /\ watchdog' = IF watchdog = Off THEN Off ELSE s
    /\ UNCHANGED <<dirVars, path, coalesce, view, lastSeq, skipped, firstRead, retry, pc>>

-----------------------------------------------------------------------------
\* Faulty variants of fail(), which properties have to tell from it: the watchdog
\* is left running; the retry timer is not started; a seq of 0 stands for none; the spacing stays announced.
FailLeavingWatchdog(s) ==
    /\ watchdog' = watchdog
    /\ lastSeq' = NoSeq
    /\ skipped' = 0
    /\ interval' = 0
    /\ json' = Empty
    /\ status' = s
    /\ retry' = IF retry = Off THEN RetryTicks ELSE retry

FailWithoutRetry(s) ==
    /\ watchdog' = Off
    /\ lastSeq' = NoSeq
    /\ skipped' = 0
    /\ interval' = 0
    /\ json' = Empty
    /\ status' = s
    /\ retry' = retry

FailKeepingInterval(s) ==
    /\ watchdog' = Off
    /\ lastSeq' = NoSeq
    /\ skipped' = 0
    /\ interval' = interval
    /\ json' = Empty
    /\ status' = s
    /\ retry' = IF retry = Off THEN RetryTicks ELSE retry

FailToSeqZero(s) ==
    /\ watchdog' = Off
    /\ lastSeq' = 0
    /\ skipped' = 0
    /\ interval' = 0
    /\ json' = Empty
    /\ status' = s
    /\ retry' = IF retry = Off THEN RetryTicks ELSE retry

\* fail(s): nothing is shown, and the retry timer runs.
Fail(s) ==
    /\ watchdog' = Off
    /\ lastSeq' = NoSeq
    /\ skipped' = 0
    /\ interval' = 0
    /\ json' = Empty
    /\ status' = s
    /\ retry' = IF retry = Off THEN RetryTicks ELSE retry

\* What wakes the watcher.  All but the watchdog lead to read().
StartRead ==
    /\ pc = "idle"
    /\ pc' = "dir"
    /\ UNCHANGED <<dirs, docs, settings, view, lastSeq, skipped, watchdog>>

\* QFileSystemWatcher reports; a path whose inode is gone leaves its list.
Notify(w) ==
    /\ w \in watch.pending
    /\ watch' = [watch EXCEPT
           !.pending = @ \ {w},
           !.dir = IF w = "dir" /\ @ = "gone" THEN "none" ELSE @,
           !.file = IF w = "file" /\ @ = "gone" THEN "none" ELSE @]
    /\ StartRead
    /\ UNCHANGED <<firstRead, retry>>

FirstRead ==
    /\ firstRead
    /\ firstRead' = FALSE
    /\ StartRead
    /\ UNCHANGED <<watch, retry>>

RetryFires ==
    /\ retry = 0
    /\ retry' = RetryTicks
    /\ StartRead
    /\ UNCHANGED <<watch, firstRead>>

WatchdogFires ==
    /\ pc = "idle"
    /\ watchdog = 0
    /\ Fail("stale")
    /\ UNCHANGED <<dirVars, settings, firstRead, pc>>

-----------------------------------------------------------------------------
\* rearm()

\* Faulty: only the file is watched.
DirNeverWatched == FALSE

DirToWatch == path # NoPath /\ watch.dir = "none" /\ dirs[path]

FileToWatch == path # NoPath /\ watch.file = "none" /\ docs[path].kind # "none"

RearmDir ==
    /\ pc = "dir"
    /\ pc' = "file"
    /\ watch' = IF DirToWatch THEN [watch EXCEPT !.dir = "live"] ELSE watch
    /\ UNCHANGED <<dirs, docs, settings, view, lastSeq, skipped, timers>>

RearmFile ==
    /\ pc = "file"
    /\ pc' = "open"
    /\ watch' = IF FileToWatch THEN [watch EXCEPT !.file = "live"] ELSE watch
    /\ UNCHANGED <<dirs, docs, settings, view, lastSeq, skipped, timers>>

-----------------------------------------------------------------------------
\* The rest of read()

Readable == path # NoPath /\ docs[path].kind = "snapshot"

\* Faulty: the age of a document is not looked at.
NeverTooOld(d) == FALSE

\* Faulty: age always counts.
TooOldEver(d) == d.age > staleAfter

\* Age only counts until the daemon has been seen publishing.
TooOld(d) == watchdog = Off /\ d.age > staleAfter

\* A document without a "seq" would count as -1; see RuntimeDir, Documents.
SeqIsNew(d) == d.seq # lastSeq

\* A document read now would be taken as evidence of a running daemon.
Evidence == Readable /\ ~TooOld(docs[path]) /\ SeqIsNew(docs[path])

\* quantizedPublishMs(): the daemon reports the interval it measured, a little off
\* the n it was started with, and that is rounded to a multiple of Grain.  Halfway
\* between two multiples the jitter decides.
Quantized(n) ==
    {Largest(Grain, m) : m \in {Grain * k : k \in {i \in 0..n : 2 * (Grain * i - n) \in -Grain..Grain}}}

\* Publications per accepted snapshot, for a publishing interval read as n:
\* coalesceMs over n, rounded to the nearest.
Factor(n) == Largest(1, (2 * coalesce + n) \div (2 * n))

\* Faulty: one publication too few is withheld.
WithheldOneLess(n) == interval > 0 /\ skipped + 2 < Factor(n)

Withheld(n) == interval > 0 /\ skipped + 1 < Factor(n)

\* Faulty: the setting alone decides.
PatienceOfSetting(n) == staleAfter

Patience(n) == Largest(staleAfter, 3 * n)

EndRead ==
    /\ pc = "open"
    /\ pc' = "idle"
    /\ UNCHANGED <<dirVars, settings, firstRead>>

ReadNothing ==
    /\ EndRead
    /\ ~Readable
    /\ Fail("unavailable")

ReadLeftover ==
    /\ EndRead
    /\ Readable
    /\ TooOld(docs[path])
    /\ Fail("stale")

ReadAgain ==
    /\ EndRead
    /\ Readable
    /\ ~TooOld(docs[path])
    /\ ~SeqIsNew(docs[path])
    /\ UNCHANGED <<view, lastSeq, skipped, retry, watchdog>>

ReadNew ==
    /\ EndRead
    /\ Evidence
    /\ lastSeq' = docs[path].seq
    /\ retry' = Off
    /\ status' = "ok"
    /\ \E n \in Quantized(docs[path].period) :
         /\ watchdog' = Patience(n)
         /\ \/ /\ Withheld(n)
               /\ skipped' = skipped + 1
               /\ UNCHANGED <<json, interval>>
            \/ /\ ~Withheld(n)
               /\ skipped' = 0
               /\ interval' = Factor(n) * n
               /\ json' = docs[path].seq

-----------------------------------------------------------------------------
\* The event loop has something to do.
Due == pc # "idle" \/ watch.pending # {} \/ firstRead \/ retry = 0 \/ watchdog = 0

CountDown(t) == IF t > 0 THEN t - 1 ELSE t

WatcherTick ==
    /\ retry' = CountDown(retry)
    /\ watchdog' = CountDown(watchdog)
    /\ UNCHANGED <<settings, view, lastSeq, skipped, firstRead, pc>>
=============================================================================
