----------------------------- MODULE FeedProofs -----------------------------
(***************************************************************************)
(* Proofs about SnapshotFeed, for every set of paths, every choice of      *)
(* intervals and settings, and every bound: its types, the guards of the   *)
(* status, the refinement of SnapshotSource, and that no update is missed. *)
(***************************************************************************)
EXTENDS SnapshotFeed, TLAPS

-----------------------------------------------------------------------------
(***************************************************************************)
(* The operators of RuntimeDir and Daemon stay within their types.         *)
(***************************************************************************)

\* A missing file and a foreign one are documents.
LEMMA AbsentType == Absent \in Documents /\ Foreign \in Documents
<1>1. (CHOOSE n \in Periods : TRUE) \in Periods
  BY PeriodsAssumption
<1>2. Absent \in Documents
  BY <1>1, SeqCapAssumption, AgeCapAssumption DEF Absent, Documents, Seqs
<1>3. Foreign \in Documents
  BY <1>2 DEF Foreign, Documents
<1>4. QED
  BY <1>2, <1>3

\* What JsonWriter publishes is a document.
LEMMA SnapshotType ==
  ASSUME NEW s \in Seqs, NEW n \in Periods
  PROVE  Snapshot(s, n) \in Documents
BY AgeCapAssumption DEF Snapshot, Documents

\* Ageing keeps a document a document, and the same one.
LEMMA OlderType ==
  ASSUME NEW d \in Documents
  PROVE  /\ Older(d) \in Documents
         /\ Older(d).kind = d.kind
         /\ Older(d).seq = d.seq
         /\ Older(d).period = d.period
BY AgeCapAssumption DEF Older, Documents

\* A step of the wall clock keeps a document a document, and the same one.
LEMMA SteppedType ==
  ASSUME NEW d \in Documents, NEW by \in Int
  PROVE  /\ Stepped(d, by) \in Documents
         /\ Stepped(d, by).kind = d.kind
         /\ Stepped(d, by).seq = d.seq
BY AgeCapAssumption DEF Stepped, Documents

\* Numbering stays within 1..SeqCap.
LEMMA NextSeqType == ASSUME NEW s \in 0..SeqCap PROVE NextSeq(s) \in Seqs
BY SeqCapAssumption DEF NextSeq, Seqs

\* A notification leaves the watches well formed.
LEMMA NotifiedType ==
  ASSUME watch \in Watches, NEW p \in Paths,
         NEW dirGone \in BOOLEAN, NEW fileGone \in BOOLEAN
  PROVE  Notified(p, dirGone, fileGone) \in Watches
<1>1. CASE watch.path # p
  BY <1>1 DEF Notified
<1>2. CASE watch.path = p
  <2>1. watch.pending \cup {w \in {"dir"} : watch.dir = "live"}
            \cup {w \in {"file"} : watch.file = "live" /\ fileGone}
          \in SUBSET {"dir", "file"}
    BY DEF Watches
  <2>2. QED
    BY <1>2, <2>1 DEF Notified, Watches
<1>3. QED
  BY <1>1, <1>2

\* A freshly started daemon and a dead one are well formed, and so is one that
\* has taken a sample.
LEMMA DaemonsType ==
  /\ Down \in Daemons
  /\ \A n \in Periods : Started(n) \in Daemons
  /\ \A d \in Daemons : Sampled(d) \in Daemons
<1>1. Down \in Daemons
  BY AbsentType, SeqCapAssumption DEF Down, Daemons, Documents
<1>2. ASSUME NEW n \in Periods PROVE Started(n) \in Daemons
  BY PeriodsAssumption, SeqCapAssumption DEF Started, Daemons
<1>3. ASSUME NEW d \in Daemons PROVE Sampled(d) \in Daemons
  <2>0. d.seq \in 0..SeqCap /\ d.period \in Nat
    BY PeriodsAssumption DEF Daemons
  <2>1. NextSeq(d.seq) \in 0..SeqCap
    BY <2>0, SeqCapAssumption DEF NextSeq
  <2>2. CASE d.phase = "baseline"
    BY <2>0, <2>2 DEF Sampled, Daemons
  <2>3. CASE d.phase # "baseline"
    BY <2>0, <2>1, <2>3 DEF Sampled, Daemons
  <2>4. QED
    BY <2>2, <2>3
<1>4. QED
  BY <1>1, <1>2, <1>3

-----------------------------------------------------------------------------
(***************************************************************************)
(* Type correctness.                                                       *)
(***************************************************************************)

LEMMA TypeInit == Init => TypeOK
<1> SUFFICES ASSUME Init PROVE TypeOK
  OBVIOUS
<1>1. DirTypeOK
  BY AbsentType DEF Init, DirInit, DirTypeOK, Unwatched, Watches
<1>2. DaemonTypeOK
  BY DaemonsType DEF Init, DaemonInit, DaemonTypeOK
<1>3. WatcherTypeOK
  BY CoalesceAssumption, StaleAssumption
  DEF Init, WatcherInit, WatcherTypeOK, Off, NoSeq, Empty
<1>4. QED
  BY <1>1, <1>2, <1>3, MaxLagAssumption DEF Init, TypeOK

LEMMA TypeDaemonActs == TypeOK /\ DaemonActs => TypeOK'
<1> SUFFICES ASSUME TypeOK, DaemonActs PROVE TypeOK'
  OBVIOUS
<1> USE DEF TypeOK, DirTypeOK, DaemonTypeOK
<1>1. PICK p \in Paths :
        \/ \E n \in Periods : Start(p, n) /\ DaemonFrame
        \/ LoadFails(p) /\ DaemonFrame
        \/ Baseline(p) /\ DaemonFrame
        \/ Publish(p) /\ DaemonFrame
        \/ WriteFails(p) /\ DaemonFrame
        \/ Stop(p) /\ DaemonFrame
        \/ Kill(p) /\ DaemonFrame
        \/ TearDown(p) /\ DaemonFrame
        \/ Overwrite(p) /\ DaemonFrame
  BY DEF DaemonActs
<1>2. DaemonFrame
  BY <1>1
<1>3. WatcherTypeOK' /\ lag' \in 0..MaxLag
  BY <1>2 DEF DaemonFrame, watcherVars, settings, view, timers, WatcherTypeOK
<1>4. \A a, b \in BOOLEAN : Notified(p, a, b) \in Watches
  BY NotifiedType
<1>5. daemon[p] \in Daemons
  OBVIOUS
<1>6. DirTypeOK' /\ DaemonTypeOK'
  <2>1. CASE \E n \in Periods : Start(p, n)
    BY <2>1, DaemonsType DEF Start, MakeDir
  <2>2. CASE LoadFails(p)
    BY <2>2 DEF LoadFails, MakeDir
  <2>3. CASE Baseline(p)
    BY <2>3, <1>5, DaemonsType DEF Baseline, dirVars
  <2>4. CASE Publish(p)
    <3>1. Snapshot(NextSeq(daemon[p].seq), daemon[p].period) \in Documents
      BY <1>5, SnapshotType, NextSeqType DEF Daemons
    <3>2. QED
      BY <2>4, <3>1, <1>4, <1>5, DaemonsType DEF Publish, RenameOnto
  <2>5. CASE WriteFails(p)
    BY <2>5, <1>4, <1>5, DaemonsType DEF WriteFails
  <2>6. CASE Stop(p)
    BY <2>6, <1>4, AbsentType, DaemonsType DEF Stop, RemoveFile, dirVars
  <2>7. CASE Kill(p)
    BY <2>7, DaemonsType DEF Kill, dirVars
  <2>8. CASE TearDown(p)
    BY <2>8, <1>4, AbsentType DEF TearDown, RemoveDir
  <2>9. CASE Overwrite(p)
    <3>1. watch.pending \cup {"file"} \in SUBSET {"dir", "file"}
      BY DEF Watches
    <3>2. watch' \in Watches
      BY <2>9, <3>1 DEF Overwrite, OverwriteInPlace, Watches
    <3>3. QED
      BY <2>9, <3>2, AbsentType DEF Overwrite, OverwriteInPlace
  <2>10. QED
    BY <1>1, <2>1, <2>2, <2>3, <2>4, <2>5, <2>6, <2>7, <2>8, <2>9
<1>7. QED
  BY <1>3, <1>6

LEMMA TypeClockActs == TypeOK /\ ClockActs => TypeOK'
<1> SUFFICES ASSUME TypeOK, ClockActs PROVE TypeOK'
  OBVIOUS
<1>1. docs' \in [Paths -> Documents]
  <2>1. PICK by \in {-1, 1} : docs' = [p \in Paths |-> Stepped(docs[p], by)]
    BY DEF ClockActs, ClockStep
  <2>2. by \in Int
    OBVIOUS
  <2>3. QED
    BY <2>1, <2>2, SteppedType DEF TypeOK, DirTypeOK
<1>2. QED
  BY <1>1
  DEF ClockActs, ClockStep, DaemonFrame, watcherVars, settings, view, timers,
      TypeOK, DirTypeOK, DaemonTypeOK, WatcherTypeOK

\* A publishing interval is rounded to a positive duration.
LEMMA QuantizedType ==
  ASSUME NEW n \in Nat, NEW q \in Quantized(n)
  PROVE  q \in Nat \ {0}
<1>1. PICK k \in 0..n : q = Largest(Grain, Grain * k)
  BY DEF Quantized
<1>2. Grain * k \in Nat
  BY GrainAssumption
<1>3. QED
  BY <1>1, <1>2, GrainAssumption DEF Largest

\* The spacing a read announces and the patience it arms are durations.
LEMMA ReadType ==
  ASSUME WatcherTypeOK, NEW d \in Documents, NEW n \in Quantized(d.period)
  PROVE  /\ Factor(n) * n \in Nat \ {0}
         /\ Patience(n) \in Nat \ {0}
<1>1. d.period \in Nat /\ coalesce \in Nat /\ staleAfter \in Nat \ {0}
  BY PeriodsAssumption, CoalesceAssumption, StaleAssumption DEF WatcherTypeOK, Documents
<1>2. n \in Nat \ {0}
  BY <1>1, QuantizedType
<1>3. (2 * coalesce + n) \div (2 * n) \in Nat
  BY <1>1, <1>2, Z3
<1>4. Factor(n) \in Nat \ {0}
  BY <1>3 DEF Factor, Largest
<1>5. Factor(n) * n \in Nat \ {0}
  BY <1>2, <1>4
<1>6. Patience(n) \in Nat \ {0}
  BY <1>1, <1>2 DEF Patience, Largest
<1>7. QED
  BY <1>5, <1>6

LEMMA FailType ==
  ASSUME WatcherTypeOK, NEW s \in {"unavailable", "stale"}, Fail(s)
  PROVE  /\ status' \in {"ok", "unavailable", "stale"}
         /\ json' \in Seqs \cup {Empty}
         /\ interval' \in Nat
         /\ lastSeq' \in Seqs \cup {NoSeq}
         /\ skipped' \in Nat
         /\ retry' \in 0..RetryTicks \cup {Off}
         /\ watchdog' \in Nat \cup {Off}
BY RetryAssumption DEF WatcherTypeOK, Fail

LEMMA TypeWatcherActs == TypeOK /\ WatcherActs => TypeOK'
<1> SUFFICES ASSUME TypeOK, WatcherActs PROVE TypeOK'
  OBVIOUS
<1> USE DEF TypeOK, DirTypeOK, DaemonTypeOK
<1>1. WatcherFrame
  BY DEF WatcherActs
<1>2. DaemonTypeOK' /\ lag' \in 0..MaxLag
  BY <1>1 DEF WatcherFrame
<1>3. DirTypeOK' /\ WatcherTypeOK'
  <2>1. ASSUME NEW w \in {"dir", "file"}, Notify(w) PROVE DirTypeOK' /\ WatcherTypeOK'
    <3>1. watch' \in Watches
      BY <2>1 DEF Notify, Watches
    <3>2. QED
      BY <2>1, <3>1 DEF Notify, StartRead, WatcherTypeOK, settings, view
  <2>2. CASE FirstRead
    BY <2>2 DEF FirstRead, StartRead, WatcherTypeOK, settings, view
  <2>3. CASE RetryFires
    BY <2>3, RetryAssumption DEF RetryFires, StartRead, WatcherTypeOK, settings, view
  <2>4. CASE WatchdogFires
    BY <2>4, FailType DEF WatchdogFires, WatcherTypeOK, settings, dirVars
  <2>5. CASE RearmDir
    <3>1. watch' \in Watches
      BY <2>5 DEF RearmDir, Watches
    <3>2. QED
      BY <2>5, <3>1 DEF RearmDir, WatcherTypeOK, settings, view, timers
  <2>6. CASE RearmFile
    <3>1. watch' \in Watches
      BY <2>6 DEF RearmFile, Watches
    <3>2. QED
      BY <2>6, <3>1 DEF RearmFile, WatcherTypeOK, settings, view, timers
  <2>7. CASE ReadNothing
    BY <2>7, FailType DEF ReadNothing, EndRead, WatcherTypeOK, settings, dirVars
  <2>8. CASE ReadLeftover
    BY <2>8, FailType DEF ReadLeftover, EndRead, WatcherTypeOK, settings, dirVars
  <2>9. CASE ReadAgain
    BY <2>9 DEF ReadAgain, EndRead, WatcherTypeOK, settings, view, dirVars
  <2>10. CASE ReadNew
    <3>1. docs[path] \in Documents
      BY <2>10 DEF ReadNew, Evidence, Readable, WatcherTypeOK
    <3>2. docs[path].seq \in Seqs
      BY <3>1 DEF Documents
    <3>3. UNCHANGED <<dirs, docs, watch, path, coalesce, staleAfter, firstRead>> /\ pc' = "idle"
      BY <2>10 DEF ReadNew, EndRead, dirVars, settings
    <3>4. PICK n \in Quantized(docs[path].period) :
            /\ watchdog' = Patience(n)
            /\ \/ skipped' = skipped + 1 /\ UNCHANGED <<json, interval>>
               \/ skipped' = 0 /\ interval' = Factor(n) * n /\ json' = docs[path].seq
      BY <2>10 DEF ReadNew
    <3>5. Factor(n) * n \in Nat /\ watchdog' \in Nat
      BY <3>1, <3>4, ReadType
    <3>6. skipped' \in Nat /\ interval' \in Nat /\ json' \in Seqs \cup {Empty}
      BY <3>2, <3>4, <3>5 DEF WatcherTypeOK
    <3>7. lastSeq' = docs[path].seq /\ retry' = Off /\ status' = "ok"
      BY <2>10 DEF ReadNew
    <3>8. QED
      BY <3>2, <3>3, <3>5, <3>6, <3>7 DEF WatcherTypeOK
  <2>11. QED
    BY <2>1, <2>2, <2>3, <2>4, <2>5, <2>6, <2>7, <2>8, <2>9, <2>10 DEF WatcherActs
<1>4. QED
  BY <1>2, <1>3

LEMMA TypeUserActs == TypeOK /\ UserActs => TypeOK'
<1> SUFFICES ASSUME TypeOK, UserActs PROVE TypeOK'
  OBVIOUS
<1> USE DEF TypeOK, DirTypeOK, DaemonTypeOK
<1>1. DaemonTypeOK' /\ lag' \in 0..MaxLag
  BY DEF UserActs, WatcherFrame
<1>2. DirTypeOK' /\ WatcherTypeOK'
  <2>1. ASSUME NEW p \in Paths \cup {NoPath}, SetPath(p)
        PROVE  DirTypeOK' /\ WatcherTypeOK'
    BY <2>1 DEF SetPath, Unwatched, Watches, WatcherTypeOK
  <2>2. ASSUME NEW c \in CoalesceSettings, SetCoalesce(c)
        PROVE  DirTypeOK' /\ WatcherTypeOK'
    BY <2>2 DEF SetCoalesce, WatcherTypeOK, dirVars, view, timers
  <2>3. ASSUME NEW s \in StaleSettings, SetStaleAfter(s)
        PROVE  DirTypeOK' /\ WatcherTypeOK'
    BY <2>3, StaleAssumption DEF SetStaleAfter, WatcherTypeOK, dirVars, view
  <2>4. QED
    BY <2>1, <2>2, <2>3 DEF UserActs
<1>3. QED
  BY <1>1, <1>2

LEMMA TypeTick == TypeOK /\ Tick => TypeOK'
<1> SUFFICES ASSUME TypeOK, Tick PROVE TypeOK'
  OBVIOUS
<1> USE DEF TypeOK, DirTypeOK, DaemonTypeOK
<1>1. DirTypeOK'
  BY OlderType DEF Tick, DaemonTick
<1>2. DaemonTypeOK'
  <2>1. ASSUME NEW p \in Paths, Running(p)
        PROVE  [daemon[p] EXCEPT !.timer = @ - 1] \in Daemons
    <3>1. daemon[p] \in Daemons /\ daemon[p].timer # 0
      BY <2>1 DEF Tick, DaemonTick, TimerDue
    <3>2. daemon[p].timer - 1 \in Nat
      BY <3>1 DEF Daemons
    <3>3. QED
      BY <3>1, <3>2 DEF Daemons
  <2>2. QED
    BY <2>1 DEF Tick, DaemonTick
<1>3. WatcherTypeOK'
  <2>1. retry' \in 0..RetryTicks \cup {Off} /\ watchdog' \in Nat \cup {Off}
    BY RetryAssumption DEF Tick, WatcherTick, WatcherTypeOK, CountDown, Off
  <2>2. QED
    BY <2>1 DEF Tick, WatcherTick, WatcherTypeOK, settings, view
<1>4. lag' \in 0..MaxLag
  BY MaxLagAssumption DEF Tick
<1>5. QED
  BY <1>1, <1>2, <1>3, <1>4

LEMMA TypeStutter == TypeOK /\ UNCHANGED vars => TypeOK'
BY DEF TypeOK, DirTypeOK, DaemonTypeOK, WatcherTypeOK, vars, dirVars, watcherVars,
       settings, view, timers

\* Every variable keeps its type in every behaviour, for every choice of the
\* constants: no timer, counter or document of StateWatcher and the daemons
\* leaves the range the code gives it.
THEOREM TypeCorrect == Spec => []TypeOK
<1>1. TypeOK /\ [Next]_vars => TypeOK'
  BY TypeDaemonActs, TypeClockActs, TypeWatcherActs, TypeUserActs, TypeTick, TypeStutter DEF Next
<1>2. QED
  BY <1>1, TypeInit, PTL DEF Spec

-----------------------------------------------------------------------------
(***************************************************************************)
(* The status is guarded, and recovery is armed.  Neither is inductive: a  *)
(* read that finds the number it already has leaves everything alone, and  *)
(* what makes that harmless is that a watcher not showing "ok" holds no    *)
(* number at all.                                                          *)
(***************************************************************************)
Guarded ==
    /\ TypeOK
    /\ OkIsGuarded
    /\ RecoveryIsArmed
    /\ status # "ok" => lastSeq = NoSeq

LEMMA GuardedInit == Init => Guarded
<1> SUFFICES ASSUME Init PROVE Guarded
  OBVIOUS
<1>1. TypeOK
  BY TypeInit
<1>2. QED
  BY <1>1 DEF Init, WatcherInit, Guarded, OkIsGuarded, RecoveryIsArmed, Off, Empty

\* What fail() leaves behind is guarded.
LEMMA FailGuarded ==
  ASSUME TypeOK, NEW s \in {"unavailable", "stale"}, Fail(s)
  PROVE  OkIsGuarded' /\ RecoveryIsArmed' /\ lastSeq' = NoSeq
BY RetryAssumption DEF Fail, OkIsGuarded, RecoveryIsArmed, TypeOK, WatcherTypeOK, Off, Empty

LEMMA GuardedWatcherActs == Guarded /\ WatcherActs => Guarded'
<1> SUFFICES ASSUME Guarded, WatcherActs PROVE Guarded'
  OBVIOUS
<1>1. TypeOK /\ TypeOK'
  BY TypeWatcherActs DEF Guarded
<1>2. WatcherTypeOK /\ DirTypeOK
  BY <1>1 DEF TypeOK
<1> DEFINE G == OkIsGuarded /\ RecoveryIsArmed /\ (status # "ok" => lastSeq = NoSeq)
<1>3. G
  BY DEF Guarded
<1>4. G'
  <2>1. ASSUME NEW w \in {"dir", "file"}, Notify(w) PROVE G'
    BY <1>3, <2>1 DEF Notify, StartRead, OkIsGuarded, RecoveryIsArmed, view, settings
  <2>2. CASE FirstRead
    BY <1>3, <2>2 DEF FirstRead, StartRead, OkIsGuarded, RecoveryIsArmed, view, settings
  <2>3. CASE RetryFires
    BY <1>3, <2>3 DEF RetryFires, StartRead, OkIsGuarded, RecoveryIsArmed, view, settings, Off
  <2>4. CASE WatchdogFires
    BY <1>1, <2>4, FailGuarded DEF WatchdogFires
  <2>5. CASE RearmDir
    BY <1>3, <2>5 DEF RearmDir, OkIsGuarded, RecoveryIsArmed, view, timers, settings
  <2>6. CASE RearmFile
    BY <1>3, <2>6 DEF RearmFile, OkIsGuarded, RecoveryIsArmed, view, timers, settings
  <2>7. CASE ReadNothing
    BY <1>1, <2>7, FailGuarded DEF ReadNothing
  <2>8. CASE ReadLeftover
    BY <1>1, <2>8, FailGuarded DEF ReadLeftover
  <2>9. CASE ReadAgain
    <3>1. docs[path].seq \in Seqs /\ docs[path].seq = lastSeq
      BY <1>2, <2>9 DEF ReadAgain, Readable, SeqIsNew, DirTypeOK, Documents, WatcherTypeOK
    <3>2. status = "ok"
      BY <1>3, <3>1, SeqCapAssumption DEF Seqs, NoSeq
    <3>3. QED
      BY <1>3, <2>9, <3>2 DEF ReadAgain, OkIsGuarded, RecoveryIsArmed, view
  <2>10. CASE ReadNew
    <3>1. docs[path] \in Documents
      BY <1>2, <2>10 DEF ReadNew, Evidence, Readable, DirTypeOK, WatcherTypeOK
    <3>2. PICK n \in Quantized(docs[path].period) :
            /\ watchdog' = Patience(n)
            /\ \/ Withheld(n) /\ UNCHANGED json
               \/ json' = docs[path].seq
      BY <2>10 DEF ReadNew
    <3>3. watchdog' # Off /\ status' = "ok" /\ retry' = Off
      BY <1>2, <2>10, <3>1, <3>2, ReadType DEF ReadNew, Off
    <3>4. json' # Empty
      <4>1. CASE Withheld(n) /\ UNCHANGED json
        BY <1>3, <4>1 DEF Withheld, OkIsGuarded
      <4>2. CASE json' = docs[path].seq
        BY <3>1, <4>2 DEF Documents, Seqs, Empty
      <4>3. QED
        BY <3>2, <4>1, <4>2
    <3>5. QED
      BY <3>3, <3>4 DEF OkIsGuarded, RecoveryIsArmed
  <2>11. QED
    BY <2>1, <2>2, <2>3, <2>4, <2>5, <2>6, <2>7, <2>8, <2>9, <2>10 DEF WatcherActs
<1>5. QED
  BY <1>1, <1>4 DEF Guarded

LEMMA GuardedUserActs == Guarded /\ UserActs => Guarded'
<1> SUFFICES ASSUME Guarded, UserActs PROVE Guarded'
  OBVIOUS
<1>1. TypeOK'
  BY TypeUserActs DEF Guarded
<1> DEFINE G == OkIsGuarded /\ RecoveryIsArmed /\ (status # "ok" => lastSeq = NoSeq)
<1>2. G
  BY DEF Guarded
<1>3. ASSUME NEW p \in Paths \cup {NoPath}, SetPath(p) PROVE G'
  BY <1>2, <1>3 DEF SetPath, OkIsGuarded, RecoveryIsArmed
<1>4. ASSUME NEW c \in CoalesceSettings, SetCoalesce(c) PROVE G'
  BY <1>2, <1>4 DEF SetCoalesce, OkIsGuarded, RecoveryIsArmed, view, timers
<1>5. ASSUME NEW s \in StaleSettings, SetStaleAfter(s) PROVE G'
  BY <1>2, <1>5, StaleAssumption DEF SetStaleAfter, OkIsGuarded, RecoveryIsArmed, view, Off
<1>6. G'
  BY <1>3, <1>4, <1>5 DEF UserActs
<1>7. QED
  BY <1>1, <1>6 DEF Guarded

LEMMA GuardedTick == Guarded /\ Tick => Guarded'
<1> SUFFICES ASSUME Guarded, Tick PROVE Guarded'
  OBVIOUS
<1>1. TypeOK /\ TypeOK'
  BY TypeTick DEF Guarded
<1>2. (watchdog' = Off <=> watchdog = Off) /\ (retry' = Off <=> retry = Off)
  BY <1>1, RetryAssumption DEF Tick, WatcherTick, CountDown, TypeOK, WatcherTypeOK, Off
<1>3. QED
  BY <1>1, <1>2
  DEF Guarded, OkIsGuarded, RecoveryIsArmed, Tick, WatcherTick, settings, view

\* The four guarantees of the status, in every behaviour: see OkIsGuarded and
\* RecoveryIsArmed.
LEMMA GuardedAlways == Spec => []Guarded
<1>1. Guarded /\ (DaemonActs \/ ClockActs) => Guarded'
  BY TypeDaemonActs, TypeClockActs
  DEF Guarded, OkIsGuarded, RecoveryIsArmed, DaemonActs, ClockActs, DaemonFrame,
      watcherVars, settings, view, timers
<1>2. Guarded /\ UNCHANGED vars => Guarded'
  BY TypeStutter
  DEF Guarded, OkIsGuarded, RecoveryIsArmed, vars, watcherVars, settings, view, timers
<1>3. Guarded /\ [Next]_vars => Guarded'
  BY <1>1, <1>2, GuardedWatcherActs, GuardedUserActs, GuardedTick DEF Next
<1>4. QED
  BY <1>3, GuardedInit, PTL DEF Spec

\* "ok" is shown exactly while the watchdog runs and a snapshot is there, a
\* spacing is claimed only then, and the retry timer is off.
THEOREM StatusIsGuarded == Spec => []OkIsGuarded
<1>1. Guarded => OkIsGuarded
  BY DEF Guarded
<1>2. QED
  BY <1>1, GuardedAlways, PTL

\* A configured watcher that shows nothing always has a read ahead of it that
\* needs no notification.
THEOREM RecoveryAlwaysArmed == Spec => []RecoveryIsArmed
<1>1. Guarded => RecoveryIsArmed
  BY DEF Guarded
<1>2. QED
  BY <1>1, GuardedAlways, PTL

-----------------------------------------------------------------------------
(***************************************************************************)
(* What a step of the watcher may do.  Both facts lean on the invariant:   *)
(* read() compares clocks only while no watchdog runs, which is only so    *)
(* while the status is not "ok"; and it withholds a snapshot only while a  *)
(* spacing is claimed, which is only so while the status is "ok".          *)
(***************************************************************************)

\* A status of "ok" gives way to "stale" only when the watchdog fires: a step of
\* the wall clock never ends it, whatever it does to the age of a document.
THEOREM ClockNeverEndsOk == Spec => ClockIsIgnored
<1> DEFINE A == status = "ok" /\ status' = "stale" => watchdog = 0
<1>1. ASSUME OkIsGuarded, Next PROVE A
  <2>1. CASE Tick \/ ClockActs \/ DaemonActs \/ UserActs
    <3>1. status' = status
      BY <2>1
      DEF Tick, WatcherTick, ClockActs, DaemonActs, DaemonFrame, watcherVars, view,
          UserActs, SetPath, SetCoalesce, SetStaleAfter
    <3>2. QED
      BY <3>1
  <2>2. CASE WatcherActs
    <3>1. CASE WatchdogFires
      BY <3>1 DEF WatchdogFires
    <3>2. CASE ReadLeftover
      BY <1>1, <3>2 DEF ReadLeftover, TooOld, OkIsGuarded
    <3>3. CASE ~WatchdogFires /\ ~ReadLeftover
      BY <2>2, <3>3
      DEF WatcherActs, Notify, FirstRead, RetryFires, StartRead, RearmDir, RearmFile,
          ReadNothing, ReadAgain, ReadNew, Fail, view
    <3>4. QED
      BY <3>1, <3>2, <3>3
  <2>3. QED
    BY <1>1, <2>1, <2>2 DEF Next
<1>2. OkIsGuarded /\ [Next]_vars => [A]_vars
  BY <1>1
<1>3. QED
  BY <1>2, StatusIsGuarded, PTL DEF Spec, ClockIsIgnored

\* Every step of the system is, for main.qml, an update with a spacing, the loss
\* of everything, a new path or nothing: the watcher implements SnapshotSource.
THEOREM WatcherIsASource == Spec => SourceIsKept
<1>1. Init => Source!Init
  BY DEF Init, WatcherInit, Source!Init
<1>2. ASSUME Guarded, Next PROVE [Source!Next]_(Source!sourceVars)
  <2> USE DEF Source!Next, Source!sourceVars
  <2>1. CASE Tick \/ ClockActs \/ DaemonActs
    BY <2>1
    DEF Tick, WatcherTick, ClockActs, DaemonActs, DaemonFrame, watcherVars, view
  <2>2. CASE UserActs
    BY <2>2
    DEF UserActs, SetPath, SetCoalesce, SetStaleAfter, view, Source!Repoint
  <2>3. CASE WatcherActs
    <3>1. ASSUME NEW s \in {"unavailable", "stale"}, Fail(s) PROVE Source!Lose
      BY <3>1 DEF Fail, Source!Lose
    <3>2. CASE WatchdogFires \/ ReadNothing \/ ReadLeftover
      BY <3>1, <3>2 DEF WatchdogFires, ReadNothing, ReadLeftover
    <3>3. CASE ReadNew
      <4>1. docs[path] \in Documents /\ WatcherTypeOK
        BY <1>2, <3>3
        DEF ReadNew, Evidence, Readable, Guarded, TypeOK, DirTypeOK, WatcherTypeOK
      <4>2. PICK n \in Quantized(docs[path].period) :
              \/ Withheld(n) /\ UNCHANGED <<json, interval>>
              \/ interval' = Factor(n) * n /\ json' = docs[path].seq
        BY <3>3 DEF ReadNew
      <4>3. status' = "ok"
        BY <3>3 DEF ReadNew
      <4>4. CASE Withheld(n) /\ UNCHANGED <<json, interval>>
        BY <1>2, <4>3, <4>4 DEF Withheld, Guarded, OkIsGuarded
      <4>5. CASE interval' = Factor(n) * n /\ json' = docs[path].seq
        BY <4>1, <4>3, <4>5, ReadType DEF Source!HandOver, Documents
      <4>6. QED
        BY <4>2, <4>4, <4>5
    <3>4. CASE ~(WatchdogFires \/ ReadNothing \/ ReadLeftover \/ ReadNew)
      BY <2>3, <3>4
      DEF WatcherActs, Notify, FirstRead, RetryFires, StartRead, RearmDir, RearmFile,
          ReadAgain, view
    <3>5. QED
      BY <3>2, <3>3, <3>4
  <2>4. QED
    BY <1>2, <2>1, <2>2, <2>3 DEF Next
<1>3. Guarded /\ [Next]_vars => [Source!Next]_(Source!sourceVars)
  BY <1>2 DEF vars, watcherVars, view, Source!sourceVars
<1>4. QED
  BY <1>1, <1>3, GuardedAlways, PTL DEF Spec, SourceIsKept, Source!Spec

-----------------------------------------------------------------------------
(***************************************************************************)
(* Proof that the watcher misses no update, as long as plasmashell's event *)
(* loop is never late by two publishing intervals.                         *)
(*                                                                         *)
(* The hole to close is in read(): rearm() may find no directory to watch, *)
(* and if the daemon then made the directory and published before the open *)
(* a few lines below, the read would succeed, the retry timer would stop,  *)
(* and nothing would be watched.  It takes the daemon two intervals to do  *)
(* so, because its first sample only establishes the baseline.             *)
(***************************************************************************)

\* The event loop is never as late as two publishing intervals.
PromptEnough == \A n \in Periods : MaxLag < 2 * n

-----------------------------------------------------------------------------
\* A daemon works in, and documents are found in, a directory that exists.
InDirectory ==
    \A p \in Paths : Running(p) \/ docs[p].kind # "none" => dirs[p]

\* The watches are on the path the reader reads, and one whose inode is gone is
\* about to be reported.
WatchesReport ==
    /\ watch.path = path
    /\ watch.dir = "gone" => "dir" \in watch.pending
    /\ watch.file = "gone" => "file" \in watch.pending

\* A daemon that has been running for no longer than the event loop is late.
Young(p) ==
    /\ daemon[p].phase = "baseline" => daemon[p].timer + lag >= daemon[p].period
    /\ daemon[p].phase = "up" => daemon[p].timer + lag >= 2 * daemon[p].period

\* A read that found no directory to watch finds no document either.
DirHole ==
    pc \in {"file", "open"} /\ watch.dir = "none" /\ path # NoPath
    => docs[path].kind = "none" /\ Young(path)

\* A read that found no file to watch finds none, or will be told.
FileHole ==
    pc = "open" /\ watch.file = "none" /\ path # NoPath
    => docs[path].kind = "none" \/ watch.pending # {}

\* The watcher has seen what there is and will hear of what comes.
Rest ==
    /\ path # NoPath
    /\ watch.dir = "live"
    /\ watch.file = "live"
    /\ docs[path].kind = "snapshot"
    /\ docs[path].seq = lastSeq

RestsOrIsTold ==
    status = "ok" /\ pc = "idle" /\ ~firstRead => Rest \/ watch.pending # {}

Watched ==
    /\ TypeOK
    /\ InDirectory
    /\ WatchesReport
    /\ DirHole
    /\ FileHole
    /\ RestsOrIsTold

-----------------------------------------------------------------------------
LEMMA WatchedInit == Init => Watched
<1> SUFFICES ASSUME Init PROVE Watched
  OBVIOUS
<1>1. TypeOK
  BY TypeInit
<1>2. InDirectory
  BY DEF Init, DirInit, DaemonInit, Down, Running, Absent, InDirectory
<1>3. QED
  BY <1>1, <1>2
  DEF Init, DirInit, WatcherInit, Unwatched, Watched, WatchesReport, DirHole, FileHole,
      RestsOrIsTold

\* A notification never hides a watch, keeps what was to be reported, and tells
\* a watcher of a live directory.
LEMMA NotifiedTells ==
  ASSUME watch \in Watches, WatchesReport, NEW p \in Paths,
         NEW dirGone \in BOOLEAN, NEW fileGone \in BOOLEAN, NEW w,
         w = Notified(p, dirGone, fileGone)
  PROVE  /\ w.path = path
         /\ w.dir = "none" <=> watch.dir = "none"
         /\ w.file = "none" <=> watch.file = "none"
         /\ w.dir = "gone" => "dir" \in w.pending
         /\ w.file = "gone" => "file" \in w.pending
         /\ watch.pending # {} => w.pending # {}
         /\ p = path /\ watch.dir # "none" => w.pending # {}
         /\ p # path => w = watch
<1>1. CASE watch.path # p
  BY <1>1 DEF Notified, WatchesReport
<1>2. CASE watch.path = p
  <2>1. /\ w.path = p
        /\ w.dir = IF watch.dir = "live" /\ dirGone THEN "gone" ELSE watch.dir
        /\ w.file = IF watch.file = "live" /\ fileGone THEN "gone" ELSE watch.file
        /\ watch.dir = "live" => "dir" \in w.pending
        /\ watch.file = "live" /\ fileGone => "file" \in w.pending
        /\ watch.pending \subseteq w.pending
    BY <1>2 DEF Notified
  <2>2. QED
    BY <1>2, <2>1 DEF WatchesReport, Watches
<1>3. QED
  BY <1>1, <1>2

-----------------------------------------------------------------------------
(***************************************************************************)
(* The daemon's steps.  DaemonKeeps gathers what each of them does to the  *)
(* watcher's path; the invariant follows from that alone.                  *)
(***************************************************************************)

\* Seen from the watcher: its watches stay, nothing it was to be told is lost,
\* and it will be told of a change if it watches the directory, unless a file it
\* does not watch is overwritten in place.
DaemonKeeps ==
    /\ WatchesReport'
    /\ watch'.dir = "none" <=> watch.dir = "none"
    /\ watch'.file = "none" <=> watch.file = "none"
    /\ watch.pending # {} => watch'.pending # {}
    /\ path # NoPath /\ watch.dir # "none" =>
          \/ watch'.pending # {}
          \/ docs'[path] = docs[path]
          \/ watch.file = "none" /\ docs[path].kind # "none"

LEMMA WatchedFromKeeps ==
  ASSUME Watched, DaemonFrame, TypeOK', InDirectory', DaemonKeeps, DirHole'
  PROVE  Watched'
<1>1. UNCHANGED <<path, status, lastSeq, firstRead, pc>>
  BY DEF DaemonFrame, watcherVars, settings, view, timers
<1>2. FileHole'
  BY <1>1 DEF Watched, DaemonKeeps, FileHole, DirHole
<1>3. RestsOrIsTold'
  <2>1. watch' \in Watches
    BY DEF TypeOK, DirTypeOK
  <2>2. Rest /\ watch'.pending = {} => Rest'
    BY <1>1, <2>1 DEF DaemonKeeps, WatchesReport, Rest, Watches
  <2>3. QED
    BY <1>1, <2>2 DEF Watched, DaemonKeeps, RestsOrIsTold
<1>4. QED
  BY <1>2, <1>3 DEF Watched, DaemonKeeps

LEMMA WatchedDaemonActs ==
  ASSUME PromptEnough
  PROVE  Watched /\ DaemonActs => Watched'
<1> SUFFICES ASSUME Watched, DaemonActs PROVE Watched'
  OBVIOUS
<1>1. TypeOK /\ TypeOK'
  BY TypeDaemonActs DEF Watched
<1>2. PICK p \in Paths :
        \/ \E n \in Periods : Start(p, n) /\ DaemonFrame
        \/ LoadFails(p) /\ DaemonFrame
        \/ Baseline(p) /\ DaemonFrame
        \/ Publish(p) /\ DaemonFrame
        \/ WriteFails(p) /\ DaemonFrame
        \/ Stop(p) /\ DaemonFrame
        \/ Kill(p) /\ DaemonFrame
        \/ TearDown(p) /\ DaemonFrame
        \/ Overwrite(p) /\ DaemonFrame
  BY DEF DaemonActs
<1>3. DaemonFrame
  BY <1>2
<1>4. UNCHANGED <<path, pc, lag>>
  BY <1>3 DEF DaemonFrame, watcherVars, settings
<1>5. /\ watch \in Watches /\ dirs \in [Paths -> BOOLEAN]
      /\ docs \in [Paths -> Documents] /\ daemon \in [Paths -> Daemons]
      /\ path \in Paths \cup {NoPath} /\ lag \in 0..MaxLag
  BY <1>1 DEF TypeOK, DirTypeOK, DaemonTypeOK, WatcherTypeOK
<1>6. InDirectory /\ WatchesReport /\ DirHole
  BY DEF Watched
<1>7. ASSUME UNCHANGED <<watch, docs>> PROVE DaemonKeeps
  BY <1>4, <1>6, <1>7 DEF DaemonKeeps, WatchesReport
<1>8. ASSUME NEW a \in BOOLEAN, NEW b \in BOOLEAN, watch' = Notified(p, a, b),
             \A q \in Paths \ {p} : docs'[q] = docs[q]
      PROVE  DaemonKeeps
  BY <1>4, <1>5, <1>6, <1>8, NotifiedTells DEF DaemonKeeps, WatchesReport
<1>9. ASSUME NEW q \in Paths, Young(q), daemon'[q].phase = "down" \/ daemon'[q] = daemon[q]
      PROVE  Young(q)'
  BY <1>4, <1>9 DEF Young
\* A daemon no older than the lag cannot have reached its second sample.
<1>10. ASSUME NEW q \in Paths, Young(q), TimerDue(q)
       PROVE  daemon[q].phase = "baseline"
  <2>1. daemon[q] \in Daemons
    BY <1>5
  <2>2. /\ daemon[q].timer = 0 /\ daemon[q].period \in Nat \ {0}
        /\ MaxLag < 2 * daemon[q].period
        /\ daemon[q].phase \in {"baseline", "up"}
    BY <1>10, <2>1, PeriodsAssumption DEF TimerDue, Running, Daemons, PromptEnough
  <2>3. ~(daemon[q].timer + lag >= 2 * daemon[q].period)
    BY <1>5, <2>2, MaxLagAssumption
  <2>4. QED
    BY <1>10, <2>2, <2>3 DEF Young
<1>11. InDirectory' /\ DaemonKeeps /\ DirHole'
  <2>1. ASSUME NEW n \in Periods, Start(p, n)
        PROVE  InDirectory' /\ DaemonKeeps /\ DirHole'
    <3>1. DaemonKeeps
      BY <2>1, <1>7 DEF Start, MakeDir
    <3>2. InDirectory'
      BY <2>1, <1>5, <1>6 DEF Start, MakeDir, InDirectory, Running
    <3>3. Young(p)'
      BY <2>1, <1>4, <1>5, PeriodsAssumption, MaxLagAssumption DEF Start, Started, Young
    <3>4. \A q \in Paths : Young(q) => Young(q)'
      BY <2>1, <1>5, <1>9, <3>3 DEF Start
    <3>5. QED
      BY <2>1, <1>4, <1>5, <1>6, <3>1, <3>2, <3>4 DEF Start, MakeDir, DirHole
  <2>2. CASE LoadFails(p)
    <3>1. DaemonKeeps
      BY <2>2, <1>7 DEF LoadFails, MakeDir
    <3>2. InDirectory'
      BY <2>2, <1>5, <1>6 DEF LoadFails, MakeDir, InDirectory, Running
    <3>3. QED
      BY <2>2, <1>4, <1>6, <3>1, <3>2 DEF LoadFails, MakeDir, DirHole, Young
  <2>3. CASE Baseline(p)
    <3>1. DaemonKeeps
      BY <2>3, <1>7 DEF Baseline, dirVars
    <3>2. InDirectory'
      BY <2>3, <1>5, <1>6 DEF Baseline, dirVars, InDirectory, Running, TimerDue
    <3>3. Young(p) => Young(p)'
      <4>1. /\ daemon'[p].phase = "up" /\ daemon'[p].timer = daemon[p].period
            /\ daemon'[p].period = daemon[p].period /\ daemon[p].timer = 0
            /\ daemon[p].phase = "baseline" /\ daemon[p].period \in Nat
        BY <2>3, <1>5, PeriodsAssumption DEF Baseline, Sampled, TimerDue, Daemons
      <4>2. QED
        BY <4>1, <1>4, <1>5, MaxLagAssumption DEF Young
    <3>4. \A q \in Paths : Young(q) => Young(q)'
      BY <2>3, <1>5, <1>9, <3>3 DEF Baseline
    <3>5. QED
      BY <2>3, <1>4, <1>5, <1>6, <3>1, <3>2, <3>4 DEF Baseline, dirVars, DirHole
  <2>4. CASE Publish(p)
    <3>1. DaemonKeeps
      BY <2>4, <1>5, <1>8 DEF Publish, RenameOnto
    <3>2. InDirectory'
      BY <2>4, <1>5, <1>6 DEF Publish, RenameOnto, InDirectory, Running, TimerDue
    <3>3. Young(p) => FALSE
      BY <2>4, <1>10 DEF Publish
    <3>4. \A q \in Paths \ {p} : daemon'[q] = daemon[q] /\ docs'[q] = docs[q]
      BY <2>4, <1>5 DEF Publish, RenameOnto
    <3>5. DirHole'
      BY <1>4, <1>5, <1>6, <1>9, <3>1, <3>3, <3>4 DEF DirHole, DaemonKeeps
    <3>6. QED
      BY <3>1, <3>2, <3>5
  <2>5. CASE WriteFails(p)
    <3>1. DaemonKeeps
      <4>1. CASE watch' = watch
        BY <2>5, <1>7, <4>1 DEF WriteFails
      <4>2. CASE watch' = Notified(p, FALSE, FALSE)
        BY <2>5, <1>8, <4>2 DEF WriteFails
      <4>3. QED
        BY <2>5, <4>1, <4>2 DEF WriteFails
    <3>2. InDirectory'
      BY <2>5, <1>5, <1>6 DEF WriteFails, InDirectory, Running, TimerDue
    <3>3. Young(p) => FALSE
      BY <2>5, <1>10 DEF WriteFails
    <3>4. \A q \in Paths \ {p} : daemon'[q] = daemon[q] /\ docs'[q] = docs[q]
      BY <2>5, <1>5 DEF WriteFails
    <3>5. DirHole'
      BY <1>4, <1>5, <1>6, <1>9, <3>1, <3>3, <3>4 DEF DirHole, DaemonKeeps
    <3>6. QED
      BY <3>1, <3>2, <3>5
  <2>6. CASE Stop(p)
    <3>1. DaemonKeeps
      <4>1. CASE docs[p].kind = "none"
        BY <2>6, <1>7, <4>1 DEF Stop, RemoveFile, dirVars
      <4>2. CASE docs[p].kind # "none"
        BY <2>6, <1>5, <1>8, <4>2 DEF Stop, RemoveFile
      <4>3. QED
        BY <4>1, <4>2
    <3>2. InDirectory'
      BY <2>6, <1>5, <1>6 DEF Stop, RemoveFile, dirVars, InDirectory, Running, Down, Absent
    <3>3. \A q \in Paths : Young(q) => Young(q)'
      BY <2>6, <1>5, <1>9 DEF Stop, Down
    <3>4. \A q \in Paths : docs[q].kind = "none" => docs'[q].kind = "none"
      BY <2>6, <1>5 DEF Stop, RemoveFile, dirVars, Absent
    <3>5. DirHole'
      BY <1>4, <1>5, <1>6, <3>1, <3>3, <3>4 DEF DirHole, DaemonKeeps
    <3>6. QED
      BY <3>1, <3>2, <3>5
  <2>7. CASE Kill(p)
    <3>1. DaemonKeeps
      BY <2>7, <1>7 DEF Kill, dirVars
    <3>2. InDirectory'
      BY <2>7, <1>5, <1>6 DEF Kill, dirVars, InDirectory, Running, Down
    <3>3. \A q \in Paths : Young(q) => Young(q)'
      BY <2>7, <1>5, <1>9 DEF Kill, Down
    <3>4. QED
      BY <2>7, <1>4, <1>5, <1>6, <3>1, <3>2, <3>3 DEF Kill, dirVars, DirHole
  <2>8. CASE TearDown(p)
    <3>1. DaemonKeeps
      BY <2>8, <1>5, <1>8 DEF TearDown, RemoveDir
    <3>2. InDirectory'
      BY <2>8, <1>5, <1>6 DEF TearDown, RemoveDir, InDirectory, Running, Absent
    <3>3. \A q \in Paths : Young(q) => Young(q)'
      BY <2>8, <1>9 DEF TearDown
    <3>4. \A q \in Paths : docs[q].kind = "none" => docs'[q].kind = "none"
      BY <2>8, <1>5 DEF TearDown, RemoveDir, Absent
    <3>5. DirHole'
      BY <1>4, <1>5, <1>6, <3>1, <3>3, <3>4 DEF DirHole, DaemonKeeps
    <3>6. QED
      BY <3>1, <3>2, <3>5
  <2>9. CASE Overwrite(p)
    <3>1. DaemonKeeps
      BY <2>9, <1>4, <1>5, <1>6
      DEF Overwrite, OverwriteInPlace, DaemonKeeps, WatchesReport, Watches
    <3>2. InDirectory'
      BY <2>9, <1>5, <1>6 DEF Overwrite, OverwriteInPlace, InDirectory, Running
    <3>3. \A q \in Paths : docs[q].kind = "none" => docs'[q] = docs[q]
      BY <2>9, <1>5 DEF Overwrite, OverwriteInPlace
    <3>4. daemon' = daemon
      BY <2>9 DEF Overwrite
    <3>5. DirHole'
      BY <1>4, <1>5, <1>6, <3>1, <3>3, <3>4 DEF DirHole, DaemonKeeps, Young
    <3>6. QED
      BY <3>1, <3>2, <3>5
  <2>10. QED
    BY <1>2, <2>1, <2>2, <2>3, <2>4, <2>5, <2>6, <2>7, <2>8, <2>9
<1>12. QED
  BY <1>1, <1>3, <1>11, WatchedFromKeeps

-----------------------------------------------------------------------------
(***************************************************************************)
(* The watcher's steps, the user's, and time.                              *)
(***************************************************************************)

LEMMA WatchedWatcherActs == Watched /\ WatcherActs => Watched'
<1> SUFFICES ASSUME Watched, WatcherActs PROVE Watched'
  OBVIOUS
<1>1. TypeOK /\ TypeOK'
  BY TypeWatcherActs DEF Watched
<1>2. UNCHANGED <<daemon, lag>>
  BY DEF WatcherActs, WatcherFrame
<1>3. watch \in Watches /\ docs \in [Paths -> Documents] /\ path \in Paths \cup {NoPath}
  BY <1>1 DEF TypeOK, DirTypeOK, WatcherTypeOK
<1>4. UNCHANGED <<dirs, docs, path>>
  BY DEF WatcherActs, Notify, FirstRead, RetryFires, WatchdogFires, StartRead, RearmDir,
         RearmFile, ReadNothing, ReadLeftover, ReadAgain, ReadNew, EndRead, dirVars, settings
<1>5. InDirectory'
  BY <1>2, <1>4 DEF Watched, InDirectory, Running
<1>6. \A q \in Paths : Young(q) => Young(q)'
  BY <1>2 DEF Young
<1> DEFINE Goal == WatchesReport /\ DirHole /\ FileHole /\ RestsOrIsTold
<1>7. InDirectory /\ Goal
  BY DEF Watched
<1>8. Goal'
  <2>1. ASSUME NEW w \in {"dir", "file"}, Notify(w) PROVE Goal'
    <3>1. /\ watch'.path = watch.path
          /\ watch'.pending = watch.pending \ {w}
          /\ watch'.dir = IF w = "dir" /\ watch.dir = "gone" THEN "none" ELSE watch.dir
          /\ watch'.file = IF w = "file" /\ watch.file = "gone" THEN "none" ELSE watch.file
          /\ pc' = "dir"
      BY <2>1, <1>3 DEF Notify, StartRead, Watches
    <3>2. QED
      BY <1>4, <1>7, <2>1, <3>1
      DEF WatchesReport, DirHole, FileHole, RestsOrIsTold
  <2>2. CASE FirstRead
    BY <1>4, <1>7, <2>2
    DEF FirstRead, StartRead, WatchesReport, DirHole, FileHole, RestsOrIsTold
  <2>3. CASE RetryFires
    BY <1>4, <1>7, <2>3
    DEF RetryFires, StartRead, WatchesReport, DirHole, FileHole, RestsOrIsTold
  <2>4. CASE WatchdogFires
    BY <1>4, <1>7, <2>4
    DEF WatchdogFires, Fail, dirVars, WatchesReport, DirHole, FileHole, RestsOrIsTold
  <2>5. CASE RearmDir
    <3>1. /\ pc' = "file" /\ watch'.path = watch.path /\ watch'.pending = watch.pending
          /\ watch'.file = watch.file
          /\ watch'.dir = IF DirToWatch THEN "live" ELSE watch.dir
      BY <2>5, <1>3 DEF RearmDir, Watches
    <3>2. watch'.dir = "none" /\ path # NoPath => ~dirs[path]
      BY <3>1 DEF DirToWatch
    <3>3. watch'.dir = "none" /\ path # NoPath => docs[path].kind = "none" /\ Young(path)
      BY <1>3, <1>7, <3>2 DEF InDirectory, Running, Young
    <3>4. QED
      BY <1>3, <1>4, <1>6, <1>7, <3>1, <3>3
      DEF WatchesReport, DirHole, FileHole, RestsOrIsTold
  <2>6. CASE RearmFile
    <3>1. /\ pc = "file" /\ pc' = "open"
          /\ watch'.path = watch.path /\ watch'.pending = watch.pending
          /\ watch'.dir = watch.dir
          /\ watch'.file = IF FileToWatch THEN "live" ELSE watch.file
      BY <2>6, <1>3 DEF RearmFile, Watches
    <3>2. QED
      BY <1>3, <1>4, <1>6, <1>7, <3>1
      DEF FileToWatch, WatchesReport, DirHole, FileHole, RestsOrIsTold
  <2>7. CASE ReadNothing
    BY <1>4, <1>7, <2>7
    DEF ReadNothing, EndRead, Fail, dirVars, WatchesReport, DirHole, FileHole, RestsOrIsTold
  <2>8. CASE ReadLeftover
    BY <1>4, <1>7, <2>8
    DEF ReadLeftover, EndRead, Fail, dirVars, WatchesReport, DirHole, FileHole, RestsOrIsTold
  <2>9. CASE ReadAgain \/ ReadNew
    <3>1. /\ pc = "open" /\ pc' = "idle" /\ watch' = watch
          /\ path # NoPath /\ docs[path].kind = "snapshot" /\ docs[path].seq = lastSeq'
      BY <2>9 DEF ReadAgain, ReadNew, EndRead, Evidence, Readable, SeqIsNew, dirVars
    <3>2. watch.dir # "none" /\ (watch.file # "none" \/ watch.pending # {})
      BY <1>7, <3>1 DEF DirHole, FileHole
    <3>3. Rest' \/ watch'.pending # {}
      BY <1>3, <1>4, <1>7, <3>1, <3>2 DEF Rest, WatchesReport, Watches
    <3>4. QED
      BY <1>4, <1>7, <3>1, <3>3
      DEF WatchesReport, DirHole, FileHole, RestsOrIsTold
  <2>10. QED
    BY <2>1, <2>2, <2>3, <2>4, <2>5, <2>6, <2>7, <2>8, <2>9 DEF WatcherActs
<1>9. QED
  BY <1>1, <1>5, <1>8 DEF Watched

\* A step of the wall clock changes nothing that the watches are about.
LEMMA WatchedClockActs == Watched /\ ClockActs => Watched'
<1> SUFFICES ASSUME Watched, ClockActs PROVE Watched'
  OBVIOUS
<1>1. TypeOK /\ TypeOK'
  BY TypeClockActs DEF Watched
<1>2. UNCHANGED <<dirs, watch, daemon, lag, path, status, lastSeq, firstRead, pc>>
  BY DEF ClockActs, ClockStep, DaemonFrame, watcherVars, settings, view, timers
<1>3. docs \in [Paths -> Documents] /\ path \in Paths \cup {NoPath}
  BY <1>1 DEF TypeOK, DirTypeOK, WatcherTypeOK
<1>4. \A p \in Paths : docs'[p].kind = docs[p].kind /\ docs'[p].seq = docs[p].seq
  <2>1. PICK by \in {-1, 1} : docs' = [p \in Paths |-> Stepped(docs[p], by)]
    BY DEF ClockActs, ClockStep
  <2>2. by \in Int
    OBVIOUS
  <2>3. QED
    BY <1>3, <2>1, <2>2, SteppedType
<1>5. InDirectory' /\ DirHole'
  BY <1>2, <1>3, <1>4 DEF Watched, InDirectory, DirHole, Running, Young
<1>6. QED
  BY <1>1, <1>2, <1>3, <1>4, <1>5
  DEF Watched, WatchesReport, FileHole, RestsOrIsTold, Rest

LEMMA WatchedUserActs == Watched /\ UserActs => Watched'
<1> SUFFICES ASSUME Watched, UserActs PROVE Watched'
  OBVIOUS
<1>1. TypeOK'
  BY TypeUserActs DEF Watched
<1> DEFINE Goal == WatchesReport /\ DirHole /\ FileHole /\ RestsOrIsTold /\ InDirectory
<1>2. Goal /\ UNCHANGED <<daemon, lag>>
  BY DEF Watched, UserActs, WatcherFrame
<1>3. ASSUME NEW p \in Paths \cup {NoPath}, SetPath(p) PROVE Goal'
  BY <1>2, <1>3
  DEF SetPath, Unwatched, WatchesReport, DirHole, FileHole, RestsOrIsTold, InDirectory, Running
<1>4. ASSUME NEW c \in CoalesceSettings, SetCoalesce(c) PROVE Goal'
  BY <1>2, <1>4
  DEF SetCoalesce, dirVars, view, timers, WatchesReport, DirHole, FileHole, RestsOrIsTold,
      Rest, InDirectory, Running, Young
<1>5. ASSUME NEW s \in StaleSettings, SetStaleAfter(s) PROVE Goal'
  BY <1>2, <1>5
  DEF SetStaleAfter, dirVars, view, WatchesReport, DirHole, FileHole, RestsOrIsTold,
      Rest, InDirectory, Running, Young
<1>6. QED
  BY <1>1, <1>3, <1>4, <1>5 DEF UserActs, Watched

LEMMA WatchedTick == Watched /\ Tick => Watched'
<1> SUFFICES ASSUME Watched, Tick PROVE Watched'
  OBVIOUS
<1>1. TypeOK /\ TypeOK'
  BY TypeTick DEF Watched
<1>2. UNCHANGED <<dirs, watch, path, status, lastSeq, firstRead, pc>>
  BY DEF Tick, DaemonTick, WatcherTick, settings, view
<1>3. /\ docs \in [Paths -> Documents] /\ daemon \in [Paths -> Daemons]
      /\ path \in Paths \cup {NoPath} /\ lag \in Nat
  BY <1>1, MaxLagAssumption DEF TypeOK, DirTypeOK, DaemonTypeOK, WatcherTypeOK
<1>4. \A p \in Paths : docs'[p].kind = docs[p].kind /\ docs'[p].seq = docs[p].seq
  BY <1>3, OlderType DEF Tick, DaemonTick
<1>5. \A p \in Paths : Running(p)' <=> Running(p)
  BY <1>3 DEF Tick, DaemonTick, Running, Daemons
<1>6. InDirectory'
  BY <1>2, <1>4, <1>5 DEF Watched, InDirectory
<1>7. ASSUME NEW p \in Paths, Young(p), pc # "idle" PROVE Young(p)'
  <2>1. lag' = lag + 1
    BY <1>7 DEF Tick, Due
  <2>2. CASE Running(p)
    <3>1. /\ daemon'[p].phase = daemon[p].phase /\ daemon'[p].period = daemon[p].period
          /\ daemon'[p].timer = daemon[p].timer - 1
          /\ daemon[p].timer \in Nat /\ daemon[p].period \in Nat
      BY <1>3, <2>2, PeriodsAssumption DEF Tick, DaemonTick, Daemons
    <3>2. QED
      BY <1>3, <1>7, <2>1, <3>1 DEF Young
  <2>3. CASE ~Running(p)
    BY <1>3, <2>3 DEF Tick, DaemonTick, Running, Young
  <2>4. QED
    BY <2>2, <2>3
<1>8. DirHole'
  BY <1>2, <1>3, <1>4, <1>7 DEF Watched, DirHole
<1>9. QED
  BY <1>1, <1>2, <1>3, <1>4, <1>6, <1>8
  DEF Watched, WatchesReport, FileHole, RestsOrIsTold, Rest

-----------------------------------------------------------------------------
\* As long as the event loop is never late by two publishing intervals, a watcher
\* that rests on "ok" has seen the document on disk and hears of the next one:
\* no update falls between the drop of a watch and its return.
THEOREM NothingGoesUnseen ==
  ASSUME PromptEnough
  PROVE  Spec => []NothingUnseen
<1>1. Watched /\ UNCHANGED vars => Watched'
  BY TypeStutter
  DEF Watched, InDirectory, WatchesReport, DirHole, FileHole, RestsOrIsTold, Rest, Young,
      Running, vars, dirVars, watcherVars, settings, view, timers
<1>2. Watched /\ [Next]_vars => Watched'
  BY <1>1, WatchedDaemonActs, WatchedClockActs, WatchedWatcherActs, WatchedUserActs, WatchedTick DEF Next
<1>3. Watched => NothingUnseen
  BY DEF Watched, RestsOrIsTold, Rest, NothingUnseen, Due
<1>4. QED
  BY <1>2, <1>3, WatchedInit, PTL DEF Spec
=============================================================================
