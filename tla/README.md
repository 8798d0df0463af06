# plasma-nethogs in TLA+

This directory holds a verification development of plasma-nethogs, the
per-process network monitor made of a root daemon (`plasma-nethogsd`) and a
Plasma widget. It contains TLA+ modules translated from the source, TLC
configurations that check them on small instances, and TLAPS proofs.

Run it from this directory:

    tlc -workers 2 -config feed_liveness.cfg SnapshotFeed.tla
    tlapm FeedProofs.tla

`PROJECT.json` lists every run with its module, the source lines every
definition stands for, a faulty variant that breaks each checked property, and
the hazards the properties are aimed at. Operators whose comment starts with
"Faulty" are those variants; no specification uses them.

## The system

```
kernel            fexit probes                             Probes
                        | account()
                  LRU map `traffic`                        TrafficMap
                        | poll (key by key), forget
daemon            BpfCollector -> Aggregator               Probes, Accounting, Meter
                        | resolve (/proc)
                  ProcessResolver, grouping                ProcessResolver, Grouping
                        | Snapshot
                  rates: rank, cut, round                  Reporting
                  timer, JsonWriter, signals               Daemon
                        | rename onto state.json
file system       directory, document, inotify             RuntimeDir
                        | notifications, open
plasmashell       StateWatcher (C++)                       StateWatcher, SnapshotFeed, FeedHistory
                        | updated(json), status, intervalMs  (SnapshotSource)
                  main.qml: windows, lingering, list       Widget, WidgetHistory
                  main.qml: totals, tooltip                Reporting
```

| Component | State | Operations | What makes it correct |
| --- | --- | --- | --- |
| BPF probes (`plasma-nethogs.bpf.c`) | the LRU map | four hooks, the filters; `account()` on any CPU: look up, then add or insert | a call counts once, or not at all; bytes are lost, or counted for another process, only through refused inserts, evictions and deletions |
| `BpfCollector` | skeleton, map descriptor | `load`, the destructor, `poll`, `forget` | a failed load leaves nothing attached; a walk over a map that changes under it |
| `Aggregator` | `m_previous`, `m_deadPids`, `m_seq`, clock | `update` | every byte is reported once; counters of the dead are released |
| `ProcessResolver` | identity cache, icon cache | `resolve`, `prune` | no identity is inherited through a reused pid; the cache keeps what the last tick found and nothing else |
| grouping in `Aggregator::update` | the groups of one tick | merge, sort, cut | a row depends on its members, not on the order of the walk |
| ranking in `Aggregator::update` | the snapshot's list | sort by total, cut to `--top` | the busiest are listed |
| `JsonWriter` | the file | `write` (rounding, atomic rename), `remove` | readers see whole documents; rows fit their total |
| daemon process (`main.cpp`, unit file) | timer, event loop | start, tick, stop; killed by others | no stale snapshot is left by an orderly stop |
| `StateWatcher` | path and settings, status, last seq, skip count, interval, three timers, watches | property setters, `read`, `fail`, timers, notifications | "ok" exactly while a daemon publishes; no update missed; even spacing |
| widget logic (`main.qml`) | `history`, `lingering`, list model, totals, `topApp` | `ingest`, `pushSample`, `syncModel`, signal handlers | windows that tell the truth on one time axis; hidden rows stay hidden, and out of the total |
| `Rates.js`, representations, dialogue | none, or layout | pure functions, bindings | |

The parts meet in four places: the map (shared memory between kernel and
daemon), `/proc` (read file by file while processes come and go), the runtime
directory (the only channel between daemon and widget, with inotify as a lossy
doorbell), and the signals from `StateWatcher` to QML, which are synchronous
and in program order.

What is hard about it: counting goes on during every step of the walk; a pid can
change hands between any two reads; publications land between the steps of
`read()`; watches follow inodes that are replaced; a daemon may stop in five
ways and come back with its sequence numbers starting over; settings change at
any time and three timers race with the notifications; the two ends compare the
wall clock, which can be stepped; probes appear and disappear under system calls
in progress; and rounding happens at three places that must still add up.

## The modules

**RuntimeDir** is the file system, inotify and QFileSystemWatcher, external to
the repository and modelled from what the code relies on. A document is a kind,
a `seq`, a publishing interval and an age. A watch is live, gone (the inode is
gone but the path is still in the watcher's list), or absent; undelivered events
on one path are merged. A step of the wall clock (`Stepped`) makes the documents
older or younger, by any amount in steps of one, between as young as one written
now and `AgeCap`. How long a document from the future stays young is not followed.

**Daemon** is the life of one daemon per path: start, failing to load, the
baseline tick that publishes nothing, publishing, a write that fails after the
sequence number has been spent, SIGTERM (removes the file), SIGKILL (leaves it),
systemd tearing down the directory. What may go wrong in a run is chosen by the
constant `Mishaps`.

**StateWatcher** has one action per property setter, timer and notification.
`read()` is three steps, because the daemon can publish between the directory
check, the file check and the open: `RearmDir`, `RearmFile`, and one of
`ReadNothing`, `ReadLeftover`, `ReadAgain`, `ReadNew`. The open fixes which
document is read (a rename leaves the old inode intact), so everything after it
is one step.

Time is counted in ticks; `Grain` is what 100 ms are in ticks. A document's
interval is read as the nearest multiple of `Grain` (`Quantized`), and a
publication lying between two multiples, whose `publishMs` comes out a little
over or a little under, as either of the two.

**SnapshotFeed** composes the three with a common clock. `lag` bounds how late
the event loop of plasmashell may be. **SnapshotSource** is the abstract
specification `main.qml` relies on: updates come with "ok" and a spacing, and
when the source is lost everything is withdrawn. `SourceIsKept` says that
SnapshotFeed implements it with `text <- json`. **FeedHistory** adds variables
that remember how old the evidence and the shown snapshot are, and whether the
path (`repointed`) or `staleAfterMs` (`reset`) was assigned since.

**Probes** is `load()` attachment by attachment, the end of the daemon at any
point, and one socket call at a time that may last across any of it. A call is
a record (operation, protocol, family, mapped peer, connected, peer, bytes);
which functions the kernel passes it through is external, which of those calls
`account()` counts is the code's. The calls are sorted into `OrdinaryCalls` and
two kinds the probes get wrong.

**TrafficMap** is the map and `account()`, one direction, one byte per call; the
lookup and the add or insert are separate steps on each CPU. The map is a set of
preallocated elements (`value`) and the keys that lead to them (`at`). An element
taken from a key by an eviction or a deletion is free at once and may be given to
another key, while a CPU that looked it up before still has a pointer to it: what
that CPU adds is lost in a free element, and counts as another process's in one
that has been given away. An insert takes an element, for which the kernel may
evict any number of keys, before it looks for the key and may then still fail.
`sent` is what each pid really transferred and `due` what is to be reported under
it: the same but for bytes lost in a free element or added to another pid's
(`Booked`). A key that is evicted and inserted again keeps its place in the order
of iteration: the order within a bucket of the hash is not modelled.
**Accounting** adds `poll` (one step per system call, and two for the lookup,
which finds the element and then copies it without a lock), `update` (one step per
sample, since a process may exit between two) and `forget`. `disturbed` remembers
that an eviction sent the walk back to its start or changed what was being copied.
**Meter** is the abstract specification: bytes are transferred, some are put down
to another pid before they are shown, and bytes that are due and were not shown
before are shown. `MeterIsKept` says that Accounting implements it with
`shown <- settled`.

**ProcessResolver** reads `stat`, `comm`, `exe` and `cgroup` of a pid as four
steps, with processes starting, changing (`exec()`, a move to another cgroup)
and exiting in between. `lives` remembers every identity each process has had.
**Grouping** is the loop of `Aggregator::update` around it. Counters are evicted
at any time; since only a poll can tell, each tick starts with a choice of those
the map has kept (`StartTick`; all of them where `Crowded` is FALSE), and every one
of these is sampled once: what can go wrong in the walk is Accounting's.
**MCGrouping** supplies the processes the source's comments describe.

**Reporting** follows the numbers of one snapshot: rates of processes in parts
of a byte, ranked and cut by `Aggregator::update`, rounded process by process
and in total by `JsonWriter::write`, reduced by the hidden applications in
`ingest()`. Applications that tie are ranked either way. **MCReporting** and
**MCAccounting** add symmetry for the applications, the CPUs and the elements.

**Widget** is `main.qml`: `Ingest` is the whole of `ingest()`, with
`pushSample`, the expiry of lingering rows, the cut to `topCount` and
`syncModel` as operators. `isExcluded()` compares the label and the base name of
the executable; a name in the model is both, and a value of `excludeProcesses` is
the set of names it matches. **WidgetHistory** adds the log of readings against
which the windows are checked; **MCWidget** supplies two applications.

The proofs are in modules of their own: **FeedProofs** for SnapshotFeed,
**HistoryProofs** for FeedHistory, **AccountingProofs**, **ProbesProofs**,
**GroupingProofs**, **ReportingProofs**, and **WidgetProofs** for WidgetHistory.
**Induction** holds what the last two have in common: a set that has 0 and with
each number the next has them all, and the same for finite sets.

## The runs

Passing runs:

| Run | Module | Bounds | What it shows |
| --- | --- | --- | --- |
| `feed_liveness` | SnapshotFeed | 1 path in a directory systemd manages, interval 1.5 Grain, staleAfter 1 or 2, coalesce 0 or 4 ticks, lag 1; loads and writes that fail, stops, kills, clock steps, foreign files | `TypeOK`, `OkIsGuarded`, `RecoveryIsArmed`, `NothingUnseen`, `SourceIsKept`, `ClockIsIgnored`; `HealthyIsShown` and `DeadIsReported` under fairness |
| `feed_history` | FeedHistory | interval 2, staleAfter 1 or 2, ages up to 10, coalescing over 2 publications, kills, writes that fail | `OkIsRecent`, `NeverTooSoon`, `NeverHasty` |
| `accounting` | MCAccounting | 3 pids, 2 CPUs, map of 2 elements, 3 bytes, 1 reused pid | `ExactUnlessCounterLost`, `NoGarbage`, `MeterIsKept` with evictions, races, and elements and pids used again |
| `grouping` | MCGrouping | 2 pids, 4 images, 2 changes, counters evicted | `IdentityIsOwn`, `CacheFollowsTick`, `GroupIsItsMembers` |
| `probes` | Probes | every kind of call but two, 3 bytes counted per load | `NothingLeftBehind`, `TallyIsExact` with kernels without BTF or IPv6 and any step failing |
| `reporting` | MCReporting | 3 processes, 3 applications, lists of 1 or 2, rates of 0, 1/4, 1/2 and 7/4 bytes/s | `TotalIsTheRest`, `RowsFitTheTotal`, `TopIsBusiest` |
| `widget` | MCWidget | 2 applications (one with two names), windows of 1 and 2, linger 0 and 1, topCount 1 and 2 | `WindowsAreTheLog`, `WindowsAreAligned`, `HiddenIsNotShown`, `DelegatesSurvive` |

Why the bounds are enough for these questions: sequence numbers are only
compared with the last one seen, so reuse of 2..SeqCap keeps every case apart
(equal, different, "first of a new daemon"); ages are compared with one limit
each, and `AgeCap` lies above it; one path and the empty one show a path that
changes away and back, and the safety proofs hold for any number of paths; an
interval half-way between two multiples of `Grain` is the one for which rounding
decides; two CPUs are what a race needs; three pids in a map of two evict
whatever the walk stands on, and three bytes are what it takes for an element to
be looked up for one pid, given to another and added to; two changes let a pid change hands in the middle
of a read; rates on either side of and at half a byte are where rounding goes
either way, and three of them add up to a whole byte of difference; a window of
two is the least that can be cut, padded and shifted.
Deadlock is checked in every run: time, polls or signals always go on. Two runs
have a VIEW. In `grouping` it leaves out `published`, in `reporting` `hidden` and
`shown` outside the step that shows them and the one that withdraws them: no step
reads these variables and no property of the run says more of them there than where
they were set, so states that differ in nothing else are the same to the run.

Runs that show where the code and what is written about it disagree:

| Run | The text | What happens |
| --- | --- | --- |
| `leftover_after_setpath` | `tst_statewatcher.cpp:252` | a path assigned while the watchdog runs skips the age check, so a killed daemon's snapshot is shown as current |
| `interval_churn` | `StateWatcher.cpp:22-25` | a daemon publishing every 150 ms is read as 100 ms or 200 ms from one snapshot to the next, and the widget drops its windows each time |
| `dual_stack` | `README.en.md:47`, `plasma-nethogs.bpf.c:18` | a datagram for an IPv4 peer on an IPv6 socket passes both UDP probes and is counted twice |
| `exit_bytes` | `README.en.md:77-79` | bytes between the poll and the exit of a process are deleted with its counter |
| `label_flips` | `Aggregator.cpp:15-19` | the lowest pid *active in the tick* names the row, so desktop id and icon flip |

## Fairness

`feed_liveness` assumes weak fairness of the clock, of the sampling timer of a
running daemon, and of the event loop of the watcher. A `QTimer` on an event
loop that is otherwise idle fires; `plasmashell` gets to its callbacks. Nothing
obliges anyone to start or stop a daemon: `HealthyIsShown` is conditional on one
that runs for good, on settings that are left alone at last, and on mishaps that
end (`MishapsEnd`: writes succeed, nobody else writes to the file or sets the
clock; a daemon that can never write cannot be shown). `DeadIsReported` makes
the same assumptions, because a foreign writer can keep a dead daemon's
document alive. The settings are not assumed to be favourable ones.

## The proofs

All theorems hold for arbitrary values of the constants, as far as the
`ASSUME`s of the modules allow (TLC evaluates these on every run): any paths,
intervals, settings and mishaps, any number of processes and CPUs, any capacity
of the map, any calls, images, applications and window sizes, and every bound.
Where a theorem needs more, it says so in an ASSUME of its own. Most properties
are not inductive; each entry names the invariant that is.

**The feed** (FeedProofs)

- `TypeCorrect`: `Spec => []TypeOK`, action by action.
- `StatusIsGuarded` (`OkIsGuarded`) and `RecoveryAlwaysArmed`
  (`RecoveryIsArmed`): both are inductive together with `TypeOK`. `Fail` and
  `ReadNew` are the only steps that change the status, and each changes the
  timers with it; the setters have to be shown harmless.
- `ClockNeverEndsOk` (`ClockIsIgnored`): with "ok" the watchdog runs
  (`OkIsGuarded`), and a `read()` with the watchdog running cannot end in
  "stale"; what is left is the watchdog firing, at 0.
- `WatcherIsASource` (`SourceIsKept`): SnapshotFeed implements SnapshotSource.
  Each handler is a hand-over, a loss, a change of path or a stutter; `TypeOK`
  and `QuantizedType` give the spacing that is announced.
- `NothingGoesUnseen` (`NothingUnseen`), under `PromptEnough`:
  `MaxLag < 2 * n` for every publishing interval `n`. The invariant `Watched`
  adds what holds while `read()` is under way and while the directory is gone: a
  live watch on the directory of the path unless a read that will place one is
  still to come; the number of the document is known or a notification or read
  is outstanding; and a daemon younger than its first publication while a hole
  in the watches is open. The hole between `rearm()` and the open when the
  directory itself was replaced is closed only by time: a restarted daemon
  spends its first tick on the baseline, so it cannot publish for two intervals,
  and by then a loop that is not later than that has run. The assumption is
  needed: with `MaxLag = 2` and an interval of 1 TLC finds `NothingUnseen`
  violated.

**Age and spacing** (HistoryProofs). The variables FeedHistory adds do not change
the behaviour of SnapshotFeed, so what is proved there holds here. The
hypotheses, all of which the run `feed_history` satisfies, are: nobody sets the
wall clock (`ClockIsLeftAlone`), `PromptEnough`, and publishing intervals that
are multiples of `Grain` (`OnGrain`; off the grid `interval_churn` shows what
happens). Where intervals differ from daemon to daemon a restarted daemon may
publish sooner than the watcher believes, so two of the three assume one
interval (`OneInterval`).

- `OkStaysRecent` (`OkIsRecent`): "ok" rests on evidence no older than
  `TrustBound`. The invariant `Trusted` bounds the *sum* of that age and what the
  watchdog has left; it grows only while the loop is late, and each step that
  winds the watchdog up renews the evidence. That this evidence is itself fresh
  is `UnseenIsFresh`: a document not yet read is no older than the loop is late,
  by `NothingUnseen`. `StaleSettings` and `Periods` have a largest member, and
  the lag does not exceed the largest setting.
- `SilenceIsWaitedOut` (`NeverHasty`): a silence is called stale only after three
  intervals. `Patient` is the mirror image, a lower bound of the same sum, and
  needs neither a prompt loop nor a clock left alone, since nothing a document
  claims about its age winds the watchdog down.
- `SpacingIsKept` (`NeverTooSoon`): snapshots are handed over no closer together
  than announced. `PublishedInStep` relates the age of a document to the timer
  of the daemon that wrote it; `TakenInStep` says that every document withheld
  (`skipped`) puts an interval between the one shown and the next.

**Accounting** (AccountingProofs)

- `TypeCorrect`, with the sequences of samples.
- `CountersOfTheDeadGo` (`NoGarbage`). `GarbageIsInSight` follows each counter
  left by the dead through the walk: the cursor has yet to reach it, or it has
  been sampled, or is among the dead to forget. Starting over after an eviction
  only moves counters back to the first case. `CallersLive` is what keeps such a
  counter from being inserted again.
- `Exact` (`ExactUnlessCounterLost`) and `Metered` (`MeterIsKept`: Accounting
  implements Meter). The invariant `LedgerInv` is a ledger. The property relates
  reported, counted and due bytes between ticks; within one, a counter has been
  read and has gone on counting, so the same bytes are in up to four places:
  reported, in a sample not yet reported, in the counter beyond what was read, on
  their way to the counter. `SampledBalance` and `UnsampledBalance` say that they
  add up for pids with and without a sample, `InOrder` that the walk meets every
  pid once unless it was disturbed. A byte added through a pointer to an element
  that has been given away moves from the account of one pid to that of another
  (`Misbook` of Meter), and only a pid that lost its counter can lose it so. For a
  pid that lost a counter the ledger bounds the sum instead, which is why nothing
  is ever reported that was not transferred.

**Probes** (ProbesProofs)

- `TypeCorrect`, `NoProbeStays` (`NothingLeftBehind`): `ProbesInv` ties what is
  attached to the stage of `load()`.
- `OrdinaryCallsAreExact` and `Tally` (`TallyIsExact`): a call made while the
  daemon is loaded is traced by exactly the probes attached now, and every
  required one is (`AttachedSoFar`). `Tally` has the hypothesis that all calls are
  ordinary, as the run does; without it `dual_stack` is the counterexample.
  `OrdinaryCallsAreExact` has no hypothesis: other calls do no harm to ordinary
  ones.

**Grouping** (GroupingProofs)

- `TypeCorrect` and `CacheIsLastTick` (`CacheFollowsTick`): `TickInv` adds the order
  of a tick, in which a pid is still to be looked at, live or dead, and never two
  of these. The cache cannot be bounded by the map: a counter evicted after it was
  sampled leaves its identity behind until the next tick.
- `IdentityStaysOwn` (`IdentityIsOwn`): `IdentityInv` says of the cache *and of
  the read in progress* that what was read belongs to the process there now,
  unless the start time has changed since it was read. That start times only
  grow is what makes the comparison in `resolve()` sound.
- `RowsAreTheirMembers` (`GroupIsItsMembers`): `RowsInv` describes the rows after
  any prefix of the samples, with the lowest pid so far; a sample that joins has
  a pid of its own, so minima and sums advance by one member. `KeysInv` is
  needed for the group key: a key falls back to the comm only where there is no
  executable, for what is cached as well as for what has just been read.

**Reporting** (ReportingProofs). `RepInv` is the invariant: the list is in order
with nothing busier left out (`Order`), what is left out there is no room for
(`Filled`), nothing of the snapshot before is left (`Fresh`), the document says what the processes did (`Documented`), and what is
shown was worked out from it (`Displayed`).

- `TypeCorrect`: that an application is listed once follows from the sort being
  a surjection between sets of one size (`CutIsInOrder`).
- `BusiestIsOnTop` (`TopIsBusiest`): `Order` speaks of all pairs, not of
  neighbours, and of what was cut; the first entry not hidden is then a maximum.
  Where there is none, `Filled` leaves two cases: all active applications are
  listed and hidden, or the list is full of hidden ones.
- `TotalsAreTheRest` (`TotalIsTheRest`) and `RowsDoFitTheTotal`
  (`RowsFitTheTotal`): rows are sums of rounded rates, the total is a rounded
  sum. `SumOfRounded` bounds the difference by half a byte for each process,
  `SumOfGroups` makes one sum of the rows, and `CoveredIsTheRest` splits the total
  into what is hidden and what is not; processes that were quiet add nothing.
  Where the hidden rows exceed the total, what is shown is 0, which is within the
  same bound (`ShownIs`). Sums over sets are choices of an element after another;
  `SumOfRest` shows that the order does not matter.

**Widget** (WidgetProofs)

- `AllWindowsAligned` (`WindowsAreAligned`) and `WindowsShowTheLog`
  (`WindowsAreTheLog`): `WindowInv` says that each window ends in the last `reach`
  readings of its application with zeroes before, that all are equally long, and
  that an application *without* a window had nothing to show in that stretch.
  The last part is what makes a late window, padded with zeroes, right.
- `TypeCorrect`, `HiddenStaysHidden` (`HiddenIsNotShown`) and `DelegatesAreKept`
  (`DelegatesSurvive`). `SyncedIsRows` says what `syncModel` leaves: the rows it
  was given, one for one, fresh exactly where the key was not in the list.
  `InShape` is its loop invariant: after `i` passes the first `i` rows are in
  place, what follows is rows that stay, none of them is missing and no key is
  there twice (`PlacedIsInShape`, by the two cases of a pass, insert and move).
  The loops of the model are recursive functions; `Recursion` and `Reaches` (in
  Induction) show that such a function exists and stays in shape from a least
  counterexample, which stands in for induction. `ListInv` adds that the list has no key twice
  and that nothing lingers under a name that is hidden *now*, which is why
  changing what is hidden has to clear `lingering`. That rows have no duplicate
  keys, on which `main.qml:313` relies, is `IngestSyncs`.

Only model-checked:

- `HealthyIsShown` and `DeadIsReported`: liveness under fairness.
- The properties of the runs that expect a violation.

## Not modelled

- The division of bytes by the elapsed time: Accounting shows which bytes a
  tick reports, Reporting starts from rates.
- `Rates.format` and `Rates.compact`, parsing of `/proc` and `.desktop` texts,
  the JSON text: conversions no property is about. The four-digit rates of
  `Rates.js:15` are listed as a hazard and visible by reading.
- `MSG_PEEK`, `MSG_TRUNC`, raw sockets and io_uring: what the kernel passes to
  `sock_recvmsg` for them is not in the repository.
- The configuration dialogue, representations and translations: bindings and
  layout without a behaviour of their own; the settings they change are inputs
  of StateWatcher and Widget, changed at any time.
- Two snapshot files in one directory: each path has a directory of its own.
- The tests, which are sources of the properties, not of the model.

- What isExcluded() makes of a label and an executable one by one, see Widget.
- A version 1 document without a `seq`, which no daemon writes: `read()` would take
  its number to be -1 (`StateWatcher.cpp:185`) and, after a failure, return without
  arming the retry timer, so `RecoveryIsArmed` holds for documents that have one.
- The directory event that QSaveFile's temporary file draws before it is renamed
  (`JsonWriter.cpp:81-95`): delivered on its own it adds a `read()` of the document
  that is there already.

`topApp` is not what the comment at `main.qml:53-54` says, "null when nothing is
transferring": where the user hides as many active applications as the daemon lists,
it is null and the tooltip says "No network activity", whatever else transfers. TLC
finds this at once with two applications of which the one listed is hidden.
`TopIsBusiest` is therefore stated with that case in it, as what the code does keep
to; it is not to be read as the comment's promise.

Hazards that stay visible without a violation run of their own, besides that one: a
walk that an eviction sends back to its start reports bytes twice, and one that
changes what is being copied reports another process's (`disturbed` in
`MeterIsKept` and `ExactUnlessCounterLost`); a pid that is used again takes over the
counter of the process before, whose last bytes are reported as its own (`sent` is
kept by pid); a restarted daemon's first publication may have the number seen last
and is then passed over, the next one is not; a datagram of an
unconnected UDP socket to a loopback address is counted, since the probe only
knows the socket's peer (`UnconnectedLoopbackCalls`); libbpf refuses the object
on a kernel without IPv6 before the optional attachment is tried; assigning
`staleAfterMs` restarts the watchdog without the floor of three intervals
(`NeverHasty` excludes it); a failed write is a publication nobody counts, so
snapshots handed over may lie further apart than the spacing announced
(`NeverTooSoon` is about too close).

## Plan

1. Core, done: RuntimeDir, Daemon, StateWatcher, SnapshotFeed with FeedProofs;
   FeedHistory; SnapshotSource and its refinement.
2. Accounting with Meter, ProcessResolver and Grouping, Widget, Probes and
   Reporting: done, model-checked.
3. Proofs of every invariant, action property and refinement of the passing
   runs: done.
4. Next models: the widget composed with SnapshotSource, so that windows are
   checked against publications instead of an arbitrary feed.
