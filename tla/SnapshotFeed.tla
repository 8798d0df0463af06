---------------------------- MODULE SnapshotFeed ----------------------------
(***************************************************************************)
(* The daemons and one watcher, joined by the runtime directory: every     *)
(* step of one may come between two steps of the other.  Time passes in    *)
(* ticks that advance all clocks together.                                 *)
(***************************************************************************)
EXTENDS Daemon, StateWatcher

CONSTANT
    MaxLag    \* bound: ticks plasmashell's event loop may be late by

ASSUME MaxLagAssumption == MaxLag \in Nat

VARIABLE
    lag       \* ticks the event loop has had something to do and has not done

vars == <<dirVars, daemon, watcherVars, lag>>

TypeOK ==
    /\ DirTypeOK
    /\ DaemonTypeOK
    /\ WatcherTypeOK
    /\ lag \in 0..MaxLag

Init ==
    /\ DirInit
    /\ DaemonInit
    /\ WatcherInit
    /\ lag = 0

Tick ==
    /\ Due => lag < MaxLag
    /\ lag' = IF Due THEN lag + 1 ELSE 0
    /\ DaemonTick
    /\ WatcherTick

\* What a step of one side leaves alone.
DaemonFrame == UNCHANGED <<watcherVars, lag>>

WatcherFrame == UNCHANGED <<daemon, lag>>

DaemonActs ==
    \E p \in Paths :
        \/ \E n \in Periods : Start(p, n) /\ DaemonFrame
        \/ LoadFails(p) /\ DaemonFrame
        \/ Baseline(p) /\ DaemonFrame
        \/ Publish(p) /\ DaemonFrame
        \/ WriteFails(p) /\ DaemonFrame
        \/ Stop(p) /\ DaemonFrame
        \/ Kill(p) /\ DaemonFrame
        \/ TearDown(p) /\ DaemonFrame
        \/ Overwrite(p) /\ DaemonFrame

ClockActs == ClockStep /\ DaemonFrame

WatcherActs ==
    \/ \E w \in {"dir", "file"} : Notify(w) /\ WatcherFrame
    \/ FirstRead /\ WatcherFrame
    \/ RetryFires /\ WatcherFrame
    \/ WatchdogFires /\ WatcherFrame
    \/ RearmDir /\ WatcherFrame
    \/ RearmFile /\ WatcherFrame
    \/ ReadNothing /\ WatcherFrame
    \/ ReadLeftover /\ WatcherFrame
    \/ ReadAgain /\ WatcherFrame
    \/ ReadNew /\ WatcherFrame

UserActs ==
    \/ \E p \in Paths \cup {NoPath} : SetPath(p) /\ WatcherFrame
    \/ \E c \in CoalesceSettings : SetCoalesce(c) /\ WatcherFrame
    \/ \E s \in StaleSettings : SetStaleAfter(s) /\ WatcherFrame

Next == Tick \/ ClockActs \/ DaemonActs \/ WatcherActs \/ UserActs

Spec == Init /\ [][Next]_vars

(***************************************************************************)
(* Fairness.  Time goes on; a running daemon's timer fires (it is a        *)
(* precise QTimer on an idle process); plasmashell's event loop gets to    *)
(* every callback.  Nobody is obliged to start a daemon or stop one.       *)
(***************************************************************************)
Sample ==
    \E p \in Paths : (Baseline(p) \/ Publish(p) \/ WriteFails(p)) /\ DaemonFrame

Fairness ==
    /\ WF_vars(Tick)
    /\ WF_vars(WatcherActs)
    /\ WF_vars(Sample)

FairSpec == Spec /\ Fairness

-----------------------------------------------------------------------------
\* "ok" is never shown without the means to withdraw it: the watchdog runs, the
\* retry timer is spare, and the document handed over is there; in any other
\* status nothing is shown and no spacing is claimed (StateWatcher.h:47,
\* fail() and the ends of read()).
OkIsGuarded ==
    /\ status = "ok" <=> watchdog # Off
    /\ status = "ok" <=> json # Empty
    /\ interval > 0 => status = "ok"
    /\ status = "ok" => retry = Off

\* A configured watcher that shows nothing always looks again by itself: the
\* retry timer runs, or the read that will start it has yet to come
\* (StateWatcher.cpp:232, "Recovery cannot depend on a watch").
RecoveryIsArmed ==
    path # NoPath /\ status # "ok" => retry # Off \/ firstRead \/ pc # "idle"

\* No update is missed between the drop of a watch and its return: when the
\* watcher rests on "ok" with nothing left to be told, it has the number of the
\* document on disk, and a live watch on the directory will tell it of the next
\* (StateWatcher.cpp:117-122).
NothingUnseen ==
    ~Due /\ status = "ok" =>
        /\ watch.dir = "live"
        /\ docs[path].kind = "snapshot"
        /\ docs[path].seq = lastSeq

\* Once the daemon has been seen publishing, only silence makes it "stale", never a
\* comparison between two wall clocks that the user can step
\* (StateWatcher.cpp:170-173).
ClockIsIgnored ==
    [][ status = "ok" /\ status' = "stale" => watchdog = 0 ]_vars

Source == INSTANCE SnapshotSource WITH Texts <- Seqs, text <- json

\* The watcher keeps what main.qml takes for granted: no update without "ok" and a
\* spacing, nothing left on show once the source is lost, whatever handler found
\* out (SnapshotSource.tla; StateWatcher.h:46-62, main.qml:123-145).
SourceIsKept == Source!Spec

\* "Anything keyed off it -- the coalescing factor, the sparkline time axis -- has
\* to see a stable number or it churns on that jitter alone" (StateWatcher.cpp:24):
\* while one publication follows the other, the spacing stays as announced.  For
\* runs with one publishing interval and one coalesceMs.
IntervalIsStable ==
    [][ interval > 0 /\ interval' > 0 => interval' = interval ]_vars

-----------------------------------------------------------------------------
SettingsSettle == <>[][FALSE]_settings

\* At last writes succeed, nobody else writes to the file or sets the clock.
MishapsEnd == <>[][~ClockActs /\ \A p \in Paths : ~WriteFails(p) /\ ~Overwrite(p)]_vars

\* A widget whose daemon keeps publishing ends up showing it and goes on doing
\* so, however it was configured and whatever happened before
\* (StateWatcher.cpp:191-194: a healthy daemon is not reported as stopped).
HealthyIsShown ==
    /\ SettingsSettle
    /\ MishapsEnd
    /\ <>[](path # NoPath /\ daemon[path].phase = "up")
    => <>[](status = "ok")

\* A daemon that is gone for good ends up being reported as gone, also when its
\* last snapshot is still there (tst_statewatcher.cpp:252).
DeadIsReported ==
    /\ SettingsSettle
    /\ MishapsEnd
    /\ <>[](path # NoPath /\ daemon[path].phase = "down")
    => <>[](status # "ok")
=============================================================================
