--------------------------- MODULE HistoryProofs ----------------------------
(***************************************************************************)
(* Proofs about FeedHistory: how old the evidence behind "ok" may become,  *)
(* how long a silence has to be before it is called stale, and how close   *)
(* together two snapshots are handed over.                                 *)
(*                                                                         *)
(* All three need a wall clock that nobody sets, since ages are read off   *)
(* it, and an event loop that is not later than PromptEnough allows.       *)
(***************************************************************************)
EXTENDS FeedHistory, FeedProofs

ClockIsLeftAlone == "clock_step" \notin Mishaps

\* A publishing interval is read as what it is.
OnGrain == \A n \in Periods : \E k \in Nat : n = Grain * k

\* Every daemon publishes at the same interval.
Only == CHOOSE n \in Periods : TRUE
OneInterval == \A n \in Periods : n = Only

HasLargest(S) == \E n \in S : \A m \in S : m <= n

-----------------------------------------------------------------------------
\* The memory adds no behaviour to the system.
LEMMA HistoryIsASpec == HSpec => Spec
<1>1. HInit => Init
  BY DEF HInit
<1>2. [HNext]_hvars => [Next]_vars
  BY DEF HNext, HTick, HStep, Next, hvars
<1>3. QED
  BY <1>1, <1>2, PTL DEF HSpec, Spec

\* An interval on the grid is not rounded.
LEMMA QuantizedOnGrain ==
  ASSUME OnGrain, NEW n \in Periods
  PROVE  Quantized(n) = {n}
<1>1. PICK k \in Nat : n = Grain * k
  BY DEF OnGrain
<1>2. Grain \in Nat /\ Grain >= 1 /\ n \in Nat /\ n >= 1
  BY GrainAssumption, PeriodsAssumption
<1>3. k >= 1 /\ n >= Grain /\ k <= n
  <2>1. \A g, j \in Nat : g >= 1 /\ g * j >= 1 => j >= 1 /\ g * j >= g /\ j <= g * j
    <3>1. ASSUME NEW g \in Nat, NEW j \in Nat, g >= 1, g * j >= 1
          PROVE  j >= 1 /\ g * j >= g /\ j <= g * j
      <4>1. j # 0
        BY <3>1
      <4>2. g * j = g + g * (j - 1) /\ g * j = j + (g - 1) * j
        OBVIOUS
      <4>3. g * (j - 1) >= 0 /\ (g - 1) * j >= 0
        BY <3>1, <4>1
      <4>4. QED
        BY <4>1, <4>2, <4>3
    <3>2. QED
      BY <3>1
  <2>2. QED
    BY <1>1, <1>2, <2>1
<1>4. ASSUME NEW i \in 0..n PROVE 2 * (Grain * i - n) \in -Grain..Grain <=> i = k
  <2>1. CASE i = k
    BY <1>1, <1>2, <2>1
  <2>2. CASE i > k
    <3>1. PICK d \in Nat : i = k + 1 + d
      <4>1. i - k - 1 \in Nat /\ i = k + 1 + (i - k - 1)
        BY <2>2
      <4>2. QED
        BY <4>1
    <3>2. Grain * i = Grain * k + Grain + Grain * d /\ Grain * d \in Nat
      BY <1>2, <3>1
    <3>3. QED
      BY <1>1, <1>2, <2>2, <3>2
  <2>3. CASE i < k
    <3>1. PICK d \in Nat : k = i + 1 + d
      <4>1. k - i - 1 \in Nat /\ k = i + 1 + (k - i - 1)
        BY <2>3
      <4>2. QED
        BY <4>1
    <3>2. Grain * k = Grain * i + Grain + Grain * d /\ Grain * d \in Nat /\ Grain * i \in Nat
      BY <1>2, <3>1
    <3>3. QED
      BY <1>1, <1>2, <2>3, <3>2
  <2>4. QED
    BY <2>1, <2>2, <2>3
<1>5. {i \in 0..n : 2 * (Grain * i - n) \in -Grain..Grain} = {k}
  BY <1>2, <1>3, <1>4
<1>6. Quantized(n) = {Largest(Grain, n)}
  BY <1>1, <1>5 DEF Quantized
<1>7. QED
  BY <1>2, <1>3, <1>6 DEF Largest

-----------------------------------------------------------------------------
(* What a step does to what the history is about. *)

\* A step of the daemons, at one path.
DaemonEffect(p) ==
    \/ docs'[p] = docs[p] /\ (daemon'[p] = daemon[p] \/ daemon'[p].phase # "up")
    \/ docs'[p].kind # "snapshot" /\ (daemon'[p] = daemon[p] \/ daemon'[p].phase # "up")
    \/ /\ docs'[p] = docs[p] /\ daemon'[p].phase = "up"
       /\ daemon'[p].timer = daemon[p].period
    \/ /\ daemon[p].phase = "up" /\ daemon[p].timer = 0 /\ docs'[p].age = 0
       /\ daemon'[p].phase = "up" /\ daemon'[p].timer = daemon[p].period

LEMMA DaemonEffects ==
  ASSUME TypeOK, DaemonActs
  PROVE  /\ \A p \in Paths : DaemonEffect(p)
         /\ UNCHANGED <<watcherVars, lag>>
<1>1. PICK p \in Paths :
        \/ \E n \in Periods : Start(p, n) /\ DaemonFrame
        \/ LoadFails(p) /\ DaemonFrame
        \/ Baseline(p) /\ DaemonFrame
        \/ Publish(p) /\ DaemonFrame
        \/ WriteFails(p) /\ DaemonFrame
        \/ Stop(p) /\ DaemonFrame
        \/ Kill(p) /\ DaemonFrame
        \/ TearDown(p) /\ DaemonFrame
        \/ Overwrite(p) /\ DaemonFrame
  BY DEF DaemonActs
<1>2. daemon \in [Paths -> Daemons] /\ docs \in [Paths -> Documents]
  BY DEF TypeOK, DaemonTypeOK, DirTypeOK
<1>3. Down.phase # "up" /\ Absent.kind # "snapshot" /\ Foreign.kind # "snapshot"
  BY DEF Down, Absent, Foreign
<1>4. daemon[p] \in Daemons
  BY <1>2
<1>5. ASSUME NEW q \in Paths PROVE DaemonEffect(q)
  <2>1. CASE \E n \in Periods : Start(p, n)
    BY <1>2, <2>1 DEF Start, MakeDir, Started, DaemonEffect
  <2>2. CASE LoadFails(p)
    BY <2>2 DEF LoadFails, MakeDir, DaemonEffect
  <2>3. CASE Baseline(p)
    BY <1>2, <1>4, <2>3 DEF Baseline, dirVars, Sampled, Daemons, DaemonEffect
  <2>4. CASE Publish(p)
    BY <1>2, <1>4, <2>4 DEF Publish, RenameOnto, Sampled, Daemons, TimerDue, Snapshot, DaemonEffect
  <2>5. CASE WriteFails(p)
    BY <1>2, <1>4, <2>5 DEF WriteFails, Sampled, Daemons, DaemonEffect
  <2>6. CASE Stop(p)
    BY <1>2, <1>3, <2>6 DEF Stop, RemoveFile, dirVars, DaemonEffect
  <2>7. CASE Kill(p)
    BY <1>2, <1>3, <2>7 DEF Kill, dirVars, DaemonEffect
  <2>8. CASE TearDown(p)
    BY <1>2, <1>3, <2>8 DEF TearDown, RemoveDir, DaemonEffect
  <2>9. CASE Overwrite(p)
    BY <1>2, <1>3, <2>9 DEF Overwrite, OverwriteInPlace, DaemonEffect
  <2>10. QED
    BY <1>1, <2>1, <2>2, <2>3, <2>4, <2>5, <2>6, <2>7, <2>8, <2>9
<1>6. UNCHANGED <<watcherVars, lag>>
  BY <1>1 DEF DaemonFrame
<1>7. QED
  BY <1>5, <1>6

\* A step of the watcher or the user that takes no document as evidence.
LEMMA QuietEffects ==
  ASSUME TypeOK, WatcherActs \/ UserActs, ~ReadNew
  PROVE  /\ UNCHANGED <<docs, daemon, lag>>
         /\ ~TookEvidence
         /\ \/ status' # "ok"
            \/ /\ interval' = 0 /\ path' # path
               /\ UNCHANGED <<status, watchdog, staleAfter>>
            \/ /\ UNCHANGED <<path, interval, status, lastSeq>>
               /\ skipped' \in {0, skipped}
               /\ UNCHANGED <<watchdog>> \/ staleAfter' # staleAfter
<1> USE DEF TookEvidence
<1>1. ASSUME NEW w \in {"dir", "file"}, Notify(w) /\ WatcherFrame
      PROVE  /\ UNCHANGED <<docs, daemon, lag, path, interval, status, lastSeq, skipped, watchdog>>
             /\ ~TookEvidence
  BY <1>1 DEF Notify, StartRead, WatcherFrame, settings, view
<1>2. CASE (FirstRead \/ RetryFires) /\ WatcherFrame
  BY <1>2 DEF FirstRead, RetryFires, StartRead, WatcherFrame, settings, view
<1>3. CASE (RearmDir \/ RearmFile) /\ WatcherFrame
  BY <1>3 DEF RearmDir, RearmFile, WatcherFrame, settings, view, timers
<1>4. CASE (WatchdogFires \/ ReadNothing \/ ReadLeftover) /\ WatcherFrame
  BY <1>4 DEF WatchdogFires, ReadNothing, ReadLeftover, EndRead, Fail, WatcherFrame, dirVars
<1>5. CASE ReadAgain /\ WatcherFrame
  BY <1>5 DEF ReadAgain, EndRead, WatcherFrame, dirVars, settings, view
<1>6. ASSUME NEW p \in Paths \cup {NoPath}, SetPath(p) /\ WatcherFrame
      PROVE  /\ UNCHANGED <<docs, daemon, lag, status, watchdog, staleAfter>>
             /\ ~TookEvidence /\ interval' = 0 /\ path' # path
  BY <1>6 DEF SetPath, WatcherFrame
<1>7. ASSUME NEW c \in CoalesceSettings, SetCoalesce(c) /\ WatcherFrame
      PROVE  /\ UNCHANGED <<docs, daemon, lag, path, interval, status, lastSeq, watchdog>>
             /\ ~TookEvidence /\ skipped' = 0
  BY <1>7 DEF SetCoalesce, WatcherFrame, dirVars, view, timers
<1>8. ASSUME NEW s \in StaleSettings, SetStaleAfter(s) /\ WatcherFrame
      PROVE  /\ UNCHANGED <<docs, daemon, lag, path, interval, status, lastSeq, skipped>>
             /\ ~TookEvidence /\ staleAfter' # staleAfter
  BY <1>8 DEF SetStaleAfter, WatcherFrame, dirVars, view
<1> USE DEF TookEvidence
<1>9. CASE WatcherActs
  BY <1>1, <1>2, <1>3, <1>4, <1>5, <1>9 DEF WatcherActs
<1>10. CASE UserActs
  BY <1>6, <1>7, <1>8, <1>10 DEF UserActs
<1>11. QED
  BY <1>9, <1>10

\* A document taken as evidence.
LEMMA EvidenceEffects ==
  ASSUME TypeOK, ReadNew, WatcherActs \/ UserActs
  PROVE  /\ UNCHANGED <<docs, daemon, lag, path, staleAfter, coalesce>>
         /\ TookEvidence
         /\ path \in Paths /\ docs[path] \in Documents /\ docs[path].kind = "snapshot"
         /\ docs[path].seq # lastSeq /\ lastSeq' = docs[path].seq
         /\ watchdog = Off => docs[path].age <= staleAfter
         /\ status' = "ok"
         /\ \E n \in Quantized(docs[path].period) :
              /\ n \in Nat \ {0} /\ watchdog' = Patience(n) /\ Factor(n) \in Nat \ {0}
              /\ \/ Withheld(n) /\ skipped' = skipped + 1 /\ interval' = interval
                 \/ ~Withheld(n) /\ skipped' = 0 /\ interval' = Factor(n) * n
<1>1. WatcherTypeOK /\ docs \in [Paths -> Documents]
  BY DEF TypeOK, DirTypeOK
<1>2. path \in Paths /\ docs[path] \in Documents
  BY <1>1 DEF ReadNew, Evidence, Readable, WatcherTypeOK
<1>3. docs[path].seq \in Seqs /\ docs[path].seq # NoSeq /\ docs[path].period \in Periods
      /\ docs[path].age \in Nat
  BY <1>2, AgeCapAssumption DEF Documents, Seqs, NoSeq
<1>4. /\ UNCHANGED <<docs, path, staleAfter, coalesce>>
      /\ pc = "open" /\ docs[path].kind = "snapshot"
      /\ docs[path].seq # lastSeq /\ lastSeq' = docs[path].seq
      /\ status' = "ok" /\ ~TooOld(docs[path])
  BY DEF ReadNew, EndRead, Evidence, Readable, SeqIsNew, dirVars, settings
<1>5. UNCHANGED <<daemon, lag>>
  BY <1>4 DEF WatcherActs, UserActs, WatcherFrame
<1>6. TookEvidence
  BY <1>3, <1>4 DEF TookEvidence
<1>7. watchdog = Off => docs[path].age <= staleAfter
  BY <1>1, <1>3, <1>4, StaleAssumption DEF TooOld, WatcherTypeOK
<1>8. PICK n \in Quantized(docs[path].period) :
        /\ watchdog' = Patience(n)
        /\ \/ Withheld(n) /\ skipped' = skipped + 1 /\ UNCHANGED <<json, interval>>
           \/ ~Withheld(n) /\ skipped' = 0 /\ interval' = Factor(n) * n
  BY DEF ReadNew
<1>9. n \in Nat \ {0} /\ Factor(n) \in Nat \ {0}
  <2>1. coalesce \in Nat /\ docs[path].period \in Nat
    BY <1>1, <1>3, CoalesceAssumption, PeriodsAssumption DEF WatcherTypeOK
  <2>2. n \in Nat \ {0}
    BY <1>8, <2>1, QuantizedType
  <2>3. (2 * coalesce + n) \div (2 * n) \in Nat
    BY <2>1, <2>2, Z3
  <2>4. QED
    BY <2>2, <2>3 DEF Factor, Largest
<1>10. QED
  BY <1>2, <1>4, <1>5, <1>6, <1>7, <1>8, <1>9

\* A tick, at one path and for the watcher.
LEMMA TickEffects ==
  ASSUME TypeOK, Tick
  PROVE  /\ UNCHANGED <<path, coalesce, staleAfter, status, interval, lastSeq, skipped>>
         /\ lag' = IF Due THEN lag + 1 ELSE 0
         /\ watchdog' = CountDown(watchdog)
         /\ \A p \in Paths :
              /\ docs'[p].kind = docs[p].kind /\ docs'[p].seq = docs[p].seq
              /\ docs'[p].age = IF docs[p].kind = "snapshot" /\ docs[p].age < AgeCap
                                THEN docs[p].age + 1 ELSE docs[p].age
              /\ daemon'[p].phase = daemon[p].phase
              /\ daemon[p].phase = "up" =>
                   daemon[p].timer \in Nat \ {0} /\ daemon'[p].timer = daemon[p].timer - 1
<1>1. UNCHANGED <<path, coalesce, staleAfter, status, interval, lastSeq, skipped>>
  BY DEF Tick, WatcherTick, settings, view
<1>2. lag' = (IF Due THEN lag + 1 ELSE 0) /\ watchdog' = CountDown(watchdog)
  BY DEF Tick, WatcherTick
<1>3. ASSUME NEW p \in Paths
      PROVE  /\ docs'[p].kind = docs[p].kind /\ docs'[p].seq = docs[p].seq
             /\ docs'[p].age = IF docs[p].kind = "snapshot" /\ docs[p].age < AgeCap
                               THEN docs[p].age + 1 ELSE docs[p].age
             /\ daemon'[p].phase = daemon[p].phase
             /\ daemon[p].phase = "up" =>
                  daemon[p].timer \in Nat \ {0} /\ daemon'[p].timer = daemon[p].timer - 1
  <2>1. docs[p] \in Documents /\ daemon[p] \in Daemons
    BY DEF TypeOK, DirTypeOK, DaemonTypeOK
  <2>2. docs'[p] = Older(docs[p])
    BY DEF Tick, DaemonTick
  <2>3. /\ docs'[p].kind = docs[p].kind /\ docs'[p].seq = docs[p].seq
        /\ docs'[p].age = IF docs[p].kind = "snapshot" /\ docs[p].age < AgeCap
                          THEN docs[p].age + 1 ELSE docs[p].age
    BY <2>1, <2>2 DEF Older, Documents
  <2>4. /\ daemon'[p] = IF Running(p) THEN [daemon[p] EXCEPT !.timer = @ - 1] ELSE daemon[p]
        /\ ~TimerDue(p)
    BY DEF Tick, DaemonTick
  <2>5. daemon'[p].phase = daemon[p].phase
    BY <2>1, <2>4 DEF Daemons
  <2>6. daemon[p].phase = "up" =>
          daemon[p].timer \in Nat \ {0} /\ daemon'[p].timer = daemon[p].timer - 1
    BY <2>1, <2>4 DEF Daemons, Running, TimerDue
  <2>7. QED
    BY <2>3, <2>5, <2>6
<1>4. QED
  BY <1>1, <1>2, <1>3

\* The wall clock is only set where that is among the mishaps.
LEMMA NoClockActs == ASSUME ClockIsLeftAlone PROVE ~ClockActs
BY DEF ClockIsLeftAlone, ClockActs, ClockStep

-----------------------------------------------------------------------------
(***************************************************************************)
(* What is on disk and has not been seen is no older than the event loop   *)
(* is late, because NothingUnseen keeps the loop busy until it is read.    *)
(***************************************************************************)
Ages == proofAge \in 0..AgeCap /\ shownAge \in 0..AgeCap

Unseen == docs[path].kind = "snapshot" /\ docs[path].seq # lastSeq

UnseenIsFresh ==
    /\ Ages
    /\ interval > 0 => path \in Paths /\ (Unseen => docs[path].age <= lag)
    /\ status = "ok" /\ ~repointed => interval > 0

\* What is remembered stays an age.
LEMMA AgesStep == TypeOK /\ Ages /\ HNext => Ages'
<1> SUFFICES ASSUME TypeOK, Ages, HNext PROVE Ages'
  OBVIOUS
<1>1. CASE HTick
  BY <1>1, AgeCapAssumption DEF HTick, Aged, Ages
<1>2. CASE HStep
  <2>1. TookEvidence => docs[path].age \in 0..AgeCap
    <3> SUFFICES ASSUME TookEvidence PROVE docs[path].age \in 0..AgeCap
      OBVIOUS
    <3>1. lastSeq' \notin {NoSeq, lastSeq}
      BY DEF TookEvidence
    <3>2. CASE WatcherActs \/ UserActs
      <4>1. ReadNew
        BY <3>2, QuietEffects
      <4>2. docs[path] \in Documents
        BY <3>2, <4>1, EvidenceEffects
      <4>3. QED
        BY <4>2 DEF Documents
    <3>3. CASE DaemonActs \/ ClockActs
      BY <3>1, <3>3 DEF DaemonActs, ClockActs, DaemonFrame, watcherVars
    <3>4. QED
      BY <1>2, <3>2, <3>3 DEF HStep
  <2>2. QED
    BY <1>2, <2>1 DEF HStep, HandedOver, Ages
<1>3. QED
  BY <1>1, <1>2 DEF HNext

LEMMA FreshStep ==
  ASSUME ClockIsLeftAlone
  PROVE  Guarded /\ NothingUnseen /\ UnseenIsFresh /\ [HNext]_hvars => UnseenIsFresh'
<1> SUFFICES ASSUME Guarded, NothingUnseen, UnseenIsFresh, [HNext]_hvars
             PROVE  UnseenIsFresh'
  OBVIOUS
<1>1. TypeOK /\ OkIsGuarded /\ Ages
  BY DEF Guarded, UnseenIsFresh
<1>2. /\ docs \in [Paths -> Documents] /\ lag \in Nat /\ interval \in Nat
      /\ \A p \in Paths : docs[p].age \in Nat
  BY <1>1, MaxLagAssumption, AgeCapAssumption
  DEF TypeOK, DirTypeOK, WatcherTypeOK, Documents
<1>3. CASE HTick
  <2>1. Tick /\ Ages' /\ repointed' = repointed
    BY <1>1, <1>3, AgesStep DEF HNext, HTick
  <2>2. ASSUME interval > 0 PROVE path \in Paths /\ (Unseen' => docs'[path].age <= lag')
    <3>1. path \in Paths /\ status = "ok"
      BY <1>1, <2>2 DEF UnseenIsFresh, OkIsGuarded
    <3>2. Unseen' => Unseen
      BY <1>1, <2>1, <3>1, TickEffects DEF Unseen
    <3>3. Unseen => Due /\ docs[path].age <= lag
      BY <2>2, <3>1 DEF NothingUnseen, UnseenIsFresh, Unseen
    <3>4. Unseen => lag' = lag + 1
      BY <1>1, <2>1, <3>3, TickEffects
    <3>5. docs'[path].age \in {docs[path].age, docs[path].age + 1}
      BY <1>1, <1>2, <2>1, <3>1, TickEffects
    <3>6. \A a, l \in Nat : \A b \in {a, a + 1} : a <= l => b <= l + 1
      OBVIOUS
    <3>7. docs[path].age \in Nat
      BY <1>2, <3>1
    <3>8. Unseen => docs'[path].age <= lag + 1
      BY <1>2, <3>3, <3>5, <3>6, <3>7
    <3>9. QED
      BY <3>1, <3>2, <3>4, <3>8
  <2>3. UNCHANGED <<path, interval, status>>
    BY <1>1, <2>1, TickEffects
  <2>4. QED
    BY <2>1, <2>2, <2>3 DEF UnseenIsFresh
<1>4. CASE HStep
  <2>1. Ages' /\ repointed' = (status = "ok" /\ (repointed \/ path' # path))
    BY <1>1, <1>4, AgesStep DEF HNext, HStep
  <2>2. CASE DaemonActs
    <3>1. UNCHANGED <<path, interval, status, lastSeq, lag>>
      BY <1>1, <2>2, DaemonEffects DEF watcherVars, settings, view
    <3>2. ASSUME interval > 0 PROVE path \in Paths /\ (Unseen' => docs'[path].age <= lag')
      <4>1. path \in Paths /\ (Unseen => docs[path].age <= lag)
        BY <3>2 DEF UnseenIsFresh
      <4>2. DaemonEffect(path)
        BY <1>1, <2>2, <4>1, DaemonEffects
      <4>3. docs'[path] = docs[path] \/ docs'[path].kind # "snapshot" \/ docs'[path].age = 0
        BY <4>2 DEF DaemonEffect
      <4>4. QED
        BY <1>2, <3>1, <4>1, <4>3 DEF Unseen
    <3>3. QED
      BY <2>1, <3>1, <3>2 DEF UnseenIsFresh
  <2>3. CASE (WatcherActs \/ UserActs) /\ ReadNew
    <3>1. /\ UNCHANGED <<docs, path>> /\ path \in Paths /\ lastSeq' = docs[path].seq
      BY <1>1, <2>3, EvidenceEffects
    <3>2. interval' > 0
      <4>1. PICK n \in Quantized(docs[path].period) :
              /\ n \in Nat \ {0} /\ Factor(n) \in Nat \ {0}
              /\ (Withheld(n) /\ interval' = interval) \/ interval' = Factor(n) * n
        BY <1>1, <2>3, EvidenceEffects
      <4>2. CASE Withheld(n) /\ interval' = interval
        BY <4>2 DEF Withheld
      <4>3. CASE interval' = Factor(n) * n
        <5>1. \A a, b \in Nat \ {0} : a * b > 0
          OBVIOUS
        <5>2. QED
          BY <4>1, <4>3, <5>1
      <4>4. QED
        BY <4>1, <4>2, <4>3
    <3>3. QED
      BY <2>1, <3>1, <3>2 DEF UnseenIsFresh, Unseen
  <2>4. CASE (WatcherActs \/ UserActs) /\ ~ReadNew
    <3>1. UNCHANGED <<docs, lag>>
      BY <1>1, <2>4, QuietEffects
    <3>2. CASE status' # "ok"
      <4>1. interval' = 0
        <5>1. Guarded'
          <6>1. HNext
            BY <1>4 DEF HNext
          <6>2. QED
            BY <2>4, GuardedWatcherActs, GuardedUserActs
        <5>2. QED
          BY <3>2, <5>1 DEF Guarded, OkIsGuarded, TypeOK, WatcherTypeOK
      <4>2. QED
        BY <2>1, <3>2, <4>1 DEF UnseenIsFresh
    <3>3. CASE interval' = 0 /\ path' # path /\ UNCHANGED status
      <4>1. ~(interval' > 0)
        BY <3>3
      <4>2. status' = "ok" => repointed'
        BY <2>1, <3>3
      <4>3. QED
        BY <2>1, <4>1, <4>2 DEF UnseenIsFresh
    <3>4. CASE UNCHANGED <<path, interval, status, lastSeq>>
      BY <2>1, <3>1, <3>4 DEF UnseenIsFresh, Unseen
    <3>5. QED
      BY <1>1, <2>4, <3>2, <3>3, <3>4, QuietEffects
  <2>5. QED
    BY <1>4, <2>2, <2>3, <2>4, NoClockActs DEF HStep
<1>5. CASE UNCHANGED hvars
  BY <1>5
  DEF hvars, vars, dirVars, watcherVars, settings, view, UnseenIsFresh, Ages, Unseen
<1>6. QED
  BY <1>3, <1>4, <1>5 DEF HNext

\* What the theorems below lean on, in every behaviour.
LEMMA AlwaysFresh ==
  ASSUME ClockIsLeftAlone, PromptEnough
  PROVE  HSpec => [](Guarded /\ NothingUnseen /\ UnseenIsFresh)
<1>1. HInit => UnseenIsFresh
  BY AgeCapAssumption DEF HInit, Init, WatcherInit, UnseenIsFresh, Ages
<1>2. QED
  BY <1>1, FreshStep, HistoryIsASpec, GuardedAlways, NothingGoesUnseen, PTL DEF HSpec

-----------------------------------------------------------------------------
(***************************************************************************)
(* How long "ok" can outlive the daemon.  What the watchdog has left and   *)
(* how old the evidence has become add up to no more than a bound, because *)
(* every assignment of one comes with an assignment of the other.          *)
(***************************************************************************)
Wait == Largest(MaxOf(StaleSettings), 3 * MaxOf(Periods))

Late == IF watchdog = 0 THEN lag ELSE 0

Trusted ==
    status = "ok" /\ ~repointed /\ ~reset
    => proofAge + watchdog <= MaxOf(StaleSettings) + Wait + Late

\* The largest of a set that has one.
LEMMA MaxOfIsLargest ==
  ASSUME NEW S, HasLargest(S)
  PROVE  MaxOf(S) \in S /\ \A m \in S : m <= MaxOf(S)
BY DEF HasLargest, MaxOf

\* The watchdog is never started with more than Wait.
LEMMA WaitIsEnough ==
  ASSUME TypeOK, HasLargest(Periods), HasLargest(StaleSettings), NEW n \in Periods
  PROVE  /\ MaxOf(StaleSettings) \in Nat /\ Wait \in Nat
         /\ staleAfter \in Nat /\ staleAfter <= MaxOf(StaleSettings)
         /\ Patience(n) \in Nat /\ Patience(n) <= Wait
<1>1. /\ MaxOf(StaleSettings) \in Nat /\ staleAfter \in Nat
      /\ staleAfter <= MaxOf(StaleSettings)
  BY MaxOfIsLargest, StaleAssumption DEF TypeOK, WatcherTypeOK
<1>2. MaxOf(Periods) \in Nat /\ n \in Nat /\ n <= MaxOf(Periods)
  BY MaxOfIsLargest, PeriodsAssumption
<1>3. QED
  BY <1>1, <1>2 DEF Wait, Patience, Largest

LEMMA TrustedStep ==
  ASSUME ClockIsLeftAlone, OnGrain, HasLargest(Periods), HasLargest(StaleSettings),
         MaxLag <= MaxOf(StaleSettings)
  PROVE  Guarded /\ UnseenIsFresh /\ Trusted /\ [HNext]_hvars => Trusted'
<1> SUFFICES ASSUME Guarded, UnseenIsFresh, Trusted, [HNext]_hvars
             PROVE  Trusted'
  OBVIOUS
<1>1. TypeOK /\ OkIsGuarded
  BY DEF Guarded
<1>2. /\ lag \in 0..MaxLag /\ watchdog \in Nat \cup {Off} /\ proofAge \in Nat
      /\ status = "ok" => watchdog \in Nat
  BY <1>1, AgeCapAssumption
  DEF TypeOK, WatcherTypeOK, UnseenIsFresh, Ages, OkIsGuarded
<1>3. MaxOf(StaleSettings) \in Nat /\ Wait \in Nat
  <2>1. PICK n \in Periods : TRUE
    BY PeriodsAssumption
  <2>2. QED
    BY <1>1, <2>1, WaitIsEnough
<1>4. CASE HTick
  <2>1. Tick /\ UNCHANGED <<repointed, reset>> /\ proofAge' \in {proofAge, proofAge + 1}
    BY <1>4 DEF HTick, Aged
  <2>2. UNCHANGED status /\ watchdog' = CountDown(watchdog)
    BY <1>1, <2>1, TickEffects
  <2>3. CASE watchdog = 0
    <3>1. lag' = lag + 1 /\ watchdog' = 0
      BY <1>1, <2>1, <2>2, <2>3, TickEffects DEF Due, CountDown
    <3>2. QED
      BY <1>2, <1>3, <2>1, <2>2, <2>3, <3>1 DEF Trusted, Late
  <2>4. CASE watchdog # 0
    <3>1. status = "ok" => watchdog' = watchdog - 1
      BY <1>2, <2>2, <2>4 DEF CountDown
    <3>2. Late = 0 /\ Late' \in Nat
      <4>1. lag' \in Nat
        BY <1>1, <1>2, <2>1, MaxLagAssumption, TickEffects
      <4>2. QED
        BY <2>4, <4>1 DEF Late
    <3>3. QED
      BY <1>2, <1>3, <2>1, <2>2, <3>1, <3>2 DEF Trusted
  <2>5. QED
    BY <2>3, <2>4
<1>5. CASE HStep
  <2>1. /\ proofAge' = IF TookEvidence THEN docs[path].age ELSE proofAge
        /\ repointed' <=> (status = "ok" /\ (repointed \/ path' # path))
        /\ reset' <=> (status = "ok" /\ ~TookEvidence /\ (reset \/ staleAfter' # staleAfter))
    BY <1>5 DEF HStep
  <2>2. CASE DaemonActs
    <3>1. UNCHANGED <<path, status, lastSeq, staleAfter, watchdog, lag>>
      BY <1>1, <2>2, DaemonEffects DEF watcherVars, settings, view, timers
    <3>2. ~TookEvidence
      BY <3>1 DEF TookEvidence
    <3>3. QED
      BY <2>1, <3>1, <3>2 DEF Trusted, Late
  <2>3. CASE (WatcherActs \/ UserActs) /\ ReadNew
    <3>1. /\ TookEvidence /\ UNCHANGED <<lag, path>>
          /\ docs[path] \in Documents /\ path \in Paths
          /\ Unseen /\ (watchdog = Off => docs[path].age <= staleAfter)
      BY <1>1, <2>3, EvidenceEffects DEF Unseen
    <3>2. docs[path].period \in Periods /\ docs[path].age \in Nat
      BY <3>1, AgeCapAssumption DEF Documents
    <3>3. watchdog' = Patience(docs[path].period)
      BY <1>1, <2>3, <3>2, EvidenceEffects, QuantizedOnGrain
    <3>4. /\ staleAfter \in Nat /\ staleAfter <= MaxOf(StaleSettings)
          /\ watchdog' \in Nat /\ watchdog' <= Wait
      BY <1>1, <3>2, <3>3, WaitIsEnough
    <3>5. SUFFICES ASSUME ~repointed'
                   PROVE  proofAge' + watchdog' <= MaxOf(StaleSettings) + Wait + Late'
      BY DEF Trusted
    <3>6. docs[path].age <= MaxOf(StaleSettings)
      <4>1. CASE status = "ok"
        <5>1. docs[path].age <= lag
          BY <2>1, <3>1, <3>5, <4>1 DEF UnseenIsFresh
        <5>2. QED
          BY <1>2, <1>3, <3>2, <5>1, MaxLagAssumption
      <4>2. CASE status # "ok"
        <5>1. docs[path].age <= staleAfter
          BY <1>1, <3>1, <4>2 DEF OkIsGuarded
        <5>2. QED
          BY <1>3, <3>2, <3>4, <5>1
      <4>3. QED
        BY <4>1, <4>2
    <3>7. proofAge' = docs[path].age /\ Late' \in Nat
      BY <1>2, <2>1, <3>1, MaxLagAssumption DEF Late
    <3>8. QED
      BY <1>3, <3>2, <3>4, <3>6, <3>7
  <2>4. CASE (WatcherActs \/ UserActs) /\ ~ReadNew
    <3>1. /\ ~TookEvidence /\ lag' = lag
          /\ \/ status' # "ok"
             \/ path' # path /\ UNCHANGED status
             \/ staleAfter' # staleAfter /\ UNCHANGED status
             \/ UNCHANGED <<path, status, watchdog>>
      BY <1>1, <2>4, QuietEffects
    <3>2. QED
      BY <2>1, <3>1 DEF Trusted, Late
  <2>5. QED
    BY <1>5, <2>2, <2>3, <2>4, NoClockActs DEF HStep
<1>6. CASE UNCHANGED hvars
  BY <1>6 DEF hvars, vars, watcherVars, view, timers, Trusted, Late
<1>7. QED
  BY <1>4, <1>5, <1>6 DEF HNext

\* In every behaviour, for every set of intervals and settings, the evidence
\* behind "ok" is no older than TrustBound: see OkIsRecent.  The event loop may
\* be late by less than two publishing intervals and by no more than the largest
\* staleAfterMs, nobody sets the wall clock, and the intervals lie on the grid
\* that quantizedPublishMs() rounds to.
THEOREM OkStaysRecent ==
  ASSUME ClockIsLeftAlone, PromptEnough, OnGrain, HasLargest(Periods),
         HasLargest(StaleSettings), MaxLag <= MaxOf(StaleSettings)
  PROVE  HSpec => []OkIsRecent
<1>1. HInit => Trusted
  BY DEF HInit, Init, WatcherInit, Trusted
<1>2. Guarded /\ UnseenIsFresh /\ Trusted => OkIsRecent
  <2> SUFFICES ASSUME Guarded, UnseenIsFresh, Trusted, status = "ok", ~repointed, ~reset
               PROVE  proofAge <= TrustBound
    BY DEF OkIsRecent
  <2>1. TypeOK /\ OkIsGuarded
    BY DEF Guarded
  <2>2. /\ lag \in 0..MaxLag /\ watchdog \in Nat /\ proofAge \in Nat
        /\ MaxOf(StaleSettings) \in Nat /\ Wait \in Nat
    <3>1. PICK n \in Periods : TRUE
      BY PeriodsAssumption
    <3>2. QED
      BY <2>1, <3>1, WaitIsEnough, AgeCapAssumption
      DEF TypeOK, WatcherTypeOK, UnseenIsFresh, Ages, OkIsGuarded
  <2>3. proofAge <= MaxOf(StaleSettings) + Wait + MaxLag
    BY <2>2, MaxLagAssumption DEF Trusted, Late
  <2>4. QED
    BY <2>3 DEF TrustBound, Wait
<1>3. QED
  BY <1>1, <1>2, TrustedStep, AlwaysFresh, PTL DEF HSpec

-----------------------------------------------------------------------------
(***************************************************************************)
(* How long a silence has to be.  The other way about: what the watchdog   *)
(* has left and the age of the evidence never add up to less than three    *)
(* intervals.                                                              *)
(***************************************************************************)
Patient == status = "ok" /\ ~reset => proofAge + watchdog >= 3 * Only

\* The one interval there is.
LEMMA OnlyIsPeriod ==
  ASSUME OneInterval
  PROVE  Only \in Periods /\ Only \in Nat \ {0} /\ Periods = {Only}
<1>1. Only \in Periods
  BY PeriodsAssumption DEF Only
<1>2. QED
  BY <1>1, PeriodsAssumption DEF OneInterval

LEMMA PatientStep ==
  ASSUME OnGrain, OneInterval, 3 * Only <= AgeCap
  PROVE  Guarded /\ Ages /\ Patient /\ [HNext]_hvars => Patient'
<1> SUFFICES ASSUME Guarded, Ages, Patient, [HNext]_hvars
             PROVE  Patient'
  OBVIOUS
<1>1. TypeOK /\ OkIsGuarded
  BY DEF Guarded
<1>2. /\ proofAge \in 0..AgeCap /\ AgeCap \in Nat
      /\ Only \in Nat \ {0}
      /\ status = "ok" => watchdog \in Nat
  BY <1>1, OnlyIsPeriod, AgeCapAssumption DEF TypeOK, WatcherTypeOK, Ages, OkIsGuarded
<1>3. CASE HTick
  <2>1. /\ Tick /\ UNCHANGED reset
        /\ proofAge' = IF proofAge < AgeCap THEN proofAge + 1 ELSE proofAge
    BY <1>3 DEF HTick, Aged
  <2>2. /\ UNCHANGED status
        /\ watchdog' = IF watchdog > 0 THEN watchdog - 1 ELSE watchdog
    BY <1>1, <2>1, TickEffects DEF CountDown
  <2>3. QED
    BY <1>2, <2>1, <2>2 DEF Patient
<1>4. CASE HStep
  <2>1. /\ proofAge' = IF TookEvidence THEN docs[path].age ELSE proofAge
        /\ reset' <=> (status = "ok" /\ ~TookEvidence /\ (reset \/ staleAfter' # staleAfter))
    BY <1>4 DEF HStep
  <2>2. CASE DaemonActs \/ ClockActs
    <3>1. UNCHANGED <<status, lastSeq, staleAfter, watchdog>>
      BY <2>2 DEF DaemonActs, ClockActs, DaemonFrame, watcherVars, settings, view, timers
    <3>2. QED
      BY <2>1, <3>1 DEF Patient, TookEvidence
  <2>3. CASE (WatcherActs \/ UserActs) /\ ReadNew
    <3>1. TookEvidence /\ docs[path] \in Documents
      BY <1>1, <2>3, EvidenceEffects
    <3>2. docs[path].period = Only /\ docs[path].age \in Nat
      BY <3>1, AgeCapAssumption, OnlyIsPeriod DEF Documents
    <3>3. watchdog' = Patience(Only)
      BY <1>1, <2>3, <3>2, EvidenceEffects, QuantizedOnGrain, OnlyIsPeriod
    <3>4. watchdog' \in Nat /\ watchdog' >= 3 * Only
      BY <1>1, <1>2, <3>3, StaleAssumption DEF Patience, Largest, TypeOK, WatcherTypeOK
    <3>5. proofAge' = docs[path].age
      BY <2>1, <3>1
    <3>6. QED
      BY <1>2, <3>2, <3>4, <3>5 DEF Patient
  <2>4. CASE (WatcherActs \/ UserActs) /\ ~ReadNew
    <3>1. /\ ~TookEvidence
          /\ \/ status' # "ok"
             \/ staleAfter' # staleAfter /\ UNCHANGED status
             \/ UNCHANGED <<status, watchdog, staleAfter>>
             \/ UNCHANGED <<status, watchdog>>
      BY <1>1, <2>4, QuietEffects
    <3>2. QED
      BY <2>1, <3>1 DEF Patient
  <2>5. QED
    BY <1>4, <2>2, <2>3, <2>4 DEF HStep
<1>5. CASE UNCHANGED hvars
  BY <1>5 DEF hvars, vars, watcherVars, view, timers, Patient
<1>6. QED
  BY <1>3, <1>4, <1>5 DEF HNext

\* In every behaviour with one publishing interval on the grid, a silence is
\* only called stale after three of those intervals, whatever is done to the wall
\* clock: see NeverHasty.
THEOREM SilenceIsWaitedOut ==
  ASSUME OnGrain, OneInterval, 3 * Only <= AgeCap
  PROVE  HSpec => NeverHasty
<1> DEFINE Expired == status = "ok" /\ status' = "stale" => watchdog = 0
           Waited == status = "ok" /\ status' = "stale" /\ path # NoPath /\ ~reset
                     => proofAge >= 3 * docs[path].period
<1>1. HInit => Patient /\ Ages
  BY AgeCapAssumption DEF HInit, Init, WatcherInit, Patient, Ages
<1>2. Guarded /\ Ages /\ [HNext]_hvars => Ages'
  <2>1. Ages /\ UNCHANGED hvars => Ages'
    BY DEF hvars, Ages
  <2>2. QED
    BY <2>1, AgesStep DEF Guarded
<1>3. Guarded /\ Patient /\ Ages /\ [Expired]_vars => [Waited]_hvars
  <2> SUFFICES ASSUME Guarded, Patient, Ages, [Expired]_vars,
                      status = "ok", status' = "stale", path # NoPath, ~reset
               PROVE  proofAge >= 3 * docs[path].period
    OBVIOUS
  <2>1. watchdog = 0
    BY DEF vars, watcherVars, view
  <2>2. docs[path].period = Only /\ Only \in Nat /\ proofAge \in Nat
    BY OnlyIsPeriod, AgeCapAssumption
    DEF Guarded, TypeOK, DirTypeOK, WatcherTypeOK, Documents, Ages
  <2>3. QED
    BY <2>1, <2>2 DEF Patient
<1>4. HSpec => [](Guarded /\ Patient /\ Ages) /\ [][Expired]_vars
  BY <1>1, <1>2, PatientStep, HistoryIsASpec, GuardedAlways, ClockNeverEndsOk, PTL
  DEF HSpec, ClockIsIgnored
<1>5. QED
  BY <1>3, <1>4, PTL DEF NeverHasty

-----------------------------------------------------------------------------
(***************************************************************************)
(* How close together two snapshots are handed over.  A daemon publishes a *)
(* full interval after it last did, so each document that is withheld puts *)
(* another interval between the last one handed over and the next.         *)
(***************************************************************************)

\* As long ago as the model can tell, or at least t.
Past(age, t) == age = AgeCap \/ age >= t

\* An up daemon last published, or sampled its baseline, when its timer was set.
PublishedInStep ==
    \A p \in Paths :
        docs[p].kind = "snapshot" /\ daemon[p].phase = "up"
        => Past(docs[p].age, Only - daemon[p].timer)

TakenInStep ==
    interval > 0 =>
        /\ Past(shownAge, proofAge + skipped * Only)
        /\ daemon[path].phase = "up" => Past(proofAge, Only - daemon[path].timer)
        /\ Unseen => Past(proofAge, docs[path].age + Only)

\* Coalescing never needs an age beyond what the model tells apart.
AgeCapIsLarge == \A c \in CoalesceSettings : c + Only + MaxLag <= AgeCap

\* Ageing keeps what lies in the past there, and a moment at a fixed distance.
LEMMA PastAged ==
  ASSUME NEW a \in 0..AgeCap, NEW t \in Int, NEW u \in Int, Past(a, t), u <= t + 1
  PROVE  Past(Aged(a), u)
BY AgeCapAssumption DEF Past, Aged

LEMMA PublishedStep ==
  ASSUME ClockIsLeftAlone, OneInterval
  PROVE  TypeOK /\ PublishedInStep /\ [HNext]_hvars => PublishedInStep'
<1> SUFFICES ASSUME TypeOK, PublishedInStep, [HNext]_hvars,
                    NEW p \in Paths, docs'[p].kind = "snapshot", daemon'[p].phase = "up"
             PROVE  Past(docs'[p].age, Only - daemon'[p].timer)
  BY DEF PublishedInStep, Past
<1>1. Only \in Nat \ {0}
  BY OnlyIsPeriod
<1>2. /\ docs[p].age \in 0..AgeCap
      /\ daemon[p].timer \in Nat /\ daemon[p].period = Only
  BY OnlyIsPeriod DEF TypeOK, DirTypeOK, DaemonTypeOK, Documents, Daemons
<1>3. docs[p].kind = "snapshot" /\ daemon[p].phase = "up"
      => Past(docs[p].age, Only - daemon[p].timer)
  BY DEF PublishedInStep
<1>4. CASE Tick
  <2>1. /\ docs'[p].age = Aged(docs[p].age) /\ daemon'[p].timer = daemon[p].timer - 1
        /\ docs[p].kind = "snapshot" /\ daemon[p].phase = "up"
    BY <1>4, TickEffects DEF Aged
  <2>2. Only - daemon'[p].timer = (Only - daemon[p].timer) + 1
    BY <1>1, <1>2, <2>1
  <2>3. QED
    BY <1>1, <1>2, <1>3, <2>1, <2>2, PastAged
<1>5. CASE DaemonActs
  <2>1. DaemonEffect(p)
    BY <1>5, DaemonEffects
  <2>2. CASE docs'[p] = docs[p] /\ daemon'[p] = daemon[p]
    BY <1>3, <2>2
  <2>3. CASE daemon'[p].timer = daemon[p].period
    <3>1. docs'[p].age \in Nat
      BY <1>5, TypeDaemonActs, AgeCapAssumption DEF TypeOK, DirTypeOK, Documents
    <3>2. QED
      BY <1>1, <1>2, <2>3, <3>1 DEF Past
  <2>4. QED
    BY <2>1, <2>2, <2>3 DEF DaemonEffect
<1>6. CASE WatcherActs \/ UserActs
  <2>1. UNCHANGED <<docs, daemon>>
    BY <1>6, QuietEffects, EvidenceEffects
  <2>2. QED
    BY <1>3, <2>1
<1>7. CASE UNCHANGED hvars
  BY <1>3, <1>7 DEF hvars, vars, dirVars
<1>8. QED
  BY <1>4, <1>5, <1>6, <1>7, NoClockActs DEF HNext, HTick, HStep

LEMMA TakenTick ==
  ASSUME OneInterval
  PROVE  Guarded /\ UnseenIsFresh /\ TakenInStep /\ HTick => TakenInStep'
<1> SUFFICES ASSUME Guarded, UnseenIsFresh, TakenInStep, HTick, interval' > 0
             PROVE  /\ Past(shownAge', proofAge' + skipped' * Only)
                    /\ daemon'[path'].phase = "up" => Past(proofAge', Only - daemon'[path'].timer)
                    /\ Unseen' => Past(proofAge', docs'[path'].age + Only)
  BY DEF TakenInStep, Past
<1>1. TypeOK /\ Ages /\ Only \in Nat \ {0}
  BY OnlyIsPeriod DEF Guarded, UnseenIsFresh
<1>2. Tick /\ proofAge' = Aged(proofAge) /\ shownAge' = Aged(shownAge)
  BY DEF HTick
<1>3. UNCHANGED <<path, interval, lastSeq, skipped>>
  BY <1>1, <1>2, TickEffects
<1>4. path \in Paths /\ interval > 0
  BY <1>3 DEF UnseenIsFresh
<1>5. /\ proofAge \in 0..AgeCap /\ shownAge \in 0..AgeCap /\ skipped * Only \in Nat
      /\ docs[path].age \in 0..AgeCap /\ daemon[path].timer \in Nat /\ AgeCap \in Nat
  BY <1>1, <1>4, AgeCapAssumption
  DEF Ages, TypeOK, DirTypeOK, DaemonTypeOK, WatcherTypeOK, Documents, Daemons
<1>6. Past(shownAge', proofAge' + skipped' * Only)
  <2>1. proofAge + skipped * Only \in Int /\ proofAge' \in {proofAge, proofAge + 1}
    BY <1>2, <1>5 DEF Aged
  <2>2. /\ proofAge' + skipped * Only \in Int
        /\ proofAge' + skipped * Only <= (proofAge + skipped * Only) + 1
    BY <1>5, <2>1
  <2>3. Past(shownAge, proofAge + skipped * Only)
    BY <1>4 DEF TakenInStep
  <2>4. QED
    BY <1>2, <1>3, <1>5, <2>1, <2>2, <2>3, PastAged
<1>7. ASSUME daemon'[path'].phase = "up"
      PROVE  Past(proofAge', Only - daemon'[path'].timer)
  <2>1. daemon[path].phase = "up" /\ daemon'[path'].timer = daemon[path].timer - 1
    BY <1>1, <1>2, <1>3, <1>4, <1>7, TickEffects
  <2>2. Past(proofAge, Only - daemon[path].timer)
    BY <1>4, <2>1 DEF TakenInStep
  <2>3. /\ Only - daemon[path].timer \in Int /\ Only - daemon'[path'].timer \in Int
        /\ Only - daemon'[path'].timer <= (Only - daemon[path].timer) + 1
    BY <1>1, <1>5, <2>1
  <2>4. QED
    BY <1>2, <1>5, <2>2, <2>3, PastAged
<1>8. ASSUME Unseen' PROVE Past(proofAge', docs'[path'].age + Only)
  <2>1. Unseen /\ docs'[path'].age \in {docs[path].age, docs[path].age + 1}
    BY <1>1, <1>2, <1>3, <1>4, <1>8, TickEffects DEF Unseen
  <2>2. Past(proofAge, docs[path].age + Only)
    BY <1>4, <2>1 DEF TakenInStep
  <2>3. /\ docs[path].age + Only \in Int /\ docs'[path'].age + Only \in Int
        /\ docs'[path'].age + Only <= (docs[path].age + Only) + 1
    BY <1>1, <1>5, <2>1
  <2>4. QED
    BY <1>2, <1>5, <2>2, <2>3, PastAged
<1>9. QED
  BY <1>6, <1>7, <1>8

LEMMA TakenDaemonActs ==
  ASSUME OneInterval
  PROVE  Guarded /\ UnseenIsFresh /\ TakenInStep /\ HStep /\ DaemonActs => TakenInStep'
<1> SUFFICES ASSUME Guarded, UnseenIsFresh, TakenInStep, HStep, DaemonActs, interval' > 0
             PROVE  /\ Past(shownAge', proofAge' + skipped' * Only)
                    /\ daemon'[path'].phase = "up" => Past(proofAge', Only - daemon'[path'].timer)
                    /\ Unseen' => Past(proofAge', docs'[path'].age + Only)
  BY DEF TakenInStep, Past
<1>1. TypeOK /\ Ages /\ Only \in Nat \ {0}
  BY OnlyIsPeriod DEF Guarded, UnseenIsFresh
<1>2. UNCHANGED <<path, interval, lastSeq, skipped, proofAge, shownAge>>
  <2>1. UNCHANGED <<path, interval, lastSeq, skipped>>
    BY <1>1, DaemonEffects DEF watcherVars, settings, view
  <2>2. ~TookEvidence
    BY <2>1 DEF TookEvidence
  <2>3. QED
    BY <2>1, <2>2 DEF HStep, HandedOver
<1>3. /\ path \in Paths
      /\ Past(shownAge, proofAge + skipped * Only)
      /\ daemon[path].phase = "up" => Past(proofAge, Only - daemon[path].timer)
      /\ Unseen => Past(proofAge, docs[path].age + Only)
  BY <1>2 DEF UnseenIsFresh, TakenInStep
<1>4. proofAge \in Nat /\ daemon[path].period = Only
  BY <1>1, <1>3, OnlyIsPeriod, AgeCapAssumption DEF Ages, TypeOK, DaemonTypeOK, Daemons
<1>5. DaemonEffect(path)
  BY <1>1, <1>3, DaemonEffects
<1>6. ASSUME daemon'[path'].phase = "up"
      PROVE  Past(proofAge', Only - daemon'[path'].timer)
  <2>1. CASE daemon'[path] = daemon[path]
    BY <1>2, <1>3, <1>6, <2>1
  <2>2. CASE daemon'[path].timer = daemon[path].period
    BY <1>1, <1>2, <1>4, <2>2 DEF Past
  <2>3. QED
    BY <1>2, <1>5, <1>6, <2>1, <2>2 DEF DaemonEffect
<1>7. ASSUME Unseen' PROVE Past(proofAge', docs'[path'].age + Only)
  <2>1. CASE docs'[path] = docs[path]
    BY <1>2, <1>3, <1>7, <2>1 DEF Unseen
  <2>2. CASE daemon[path].phase = "up" /\ daemon[path].timer = 0 /\ docs'[path].age = 0
    <3>1. Past(proofAge, Only)
      BY <1>1, <1>3, <2>2
    <3>2. QED
      BY <1>1, <1>2, <2>2, <3>1
  <2>3. QED
    BY <1>2, <1>5, <1>7, <2>1, <2>2 DEF DaemonEffect, Unseen
<1>8. QED
  BY <1>2, <1>3, <1>6, <1>7

\* One more document is taken as evidence, and another interval has passed.
LEMMA AnotherInterval ==
  ASSUME NEW shown \in 0..AgeCap, NEW proof \in 0..AgeCap, NEW age \in 0..AgeCap,
         NEW k \in Nat, NEW n \in Nat,
         Past(shown, proof + k * n), Past(proof, age + n)
  PROVE  Past(shown, age + (k + 1) * n)
<1>1. (k + 1) * n = k * n + n /\ k * n \in Nat
  OBVIOUS
<1>2. QED
  BY <1>1, AgeCapAssumption DEF Past

LEMMA TakenReadNew ==
  ASSUME OneInterval, OnGrain
  PROVE  Guarded /\ UnseenIsFresh /\ PublishedInStep /\ TakenInStep /\ HStep
           /\ (WatcherActs \/ UserActs) /\ ReadNew => TakenInStep'
<1> SUFFICES ASSUME Guarded, UnseenIsFresh, PublishedInStep, TakenInStep, HStep,
                    WatcherActs \/ UserActs, ReadNew, interval' > 0
             PROVE  /\ Past(shownAge', proofAge' + skipped' * Only)
                    /\ daemon'[path'].phase = "up" => Past(proofAge', Only - daemon'[path'].timer)
                    /\ ~Unseen'
  BY DEF TakenInStep, Past
<1>1. TypeOK /\ Ages /\ Only \in Nat \ {0}
  BY OnlyIsPeriod DEF Guarded, UnseenIsFresh
<1>2. /\ UNCHANGED <<docs, daemon, path>> /\ path \in Paths /\ TookEvidence
      /\ docs[path] \in Documents /\ docs[path].kind = "snapshot"
      /\ docs[path].seq # lastSeq /\ lastSeq' = docs[path].seq
  BY <1>1, EvidenceEffects
<1>3. docs[path].age \in 0..AgeCap /\ docs[path].period = Only
  BY <1>2, OnlyIsPeriod DEF Documents
<1>4. /\ proofAge' = docs[path].age
      /\ shownAge' = IF skipped' = 0 THEN docs[path].age ELSE shownAge
  BY <1>2 DEF HStep, HandedOver
<1>5. ~Unseen'
  BY <1>2 DEF Unseen
<1>6. daemon'[path'].phase = "up" => Past(proofAge', Only - daemon'[path'].timer)
  BY <1>2, <1>4 DEF PublishedInStep
<1>7. Past(shownAge', proofAge' + skipped' * Only)
  <2>1. \/ Withheld(Only) /\ skipped' = skipped + 1
        \/ skipped' = 0
    BY <1>1, <1>3, EvidenceEffects, QuantizedOnGrain, OnlyIsPeriod
  <2>2. CASE skipped' = 0
    BY <1>1, <1>3, <1>4, <2>2 DEF Past
  <2>3. CASE Withheld(Only) /\ skipped' = skipped + 1
    <3>1. interval > 0 /\ skipped \in Nat
      BY <1>1, <2>3 DEF Withheld, TypeOK, WatcherTypeOK
    <3>2. Past(shownAge, proofAge + skipped * Only) /\ Past(proofAge, docs[path].age + Only)
      BY <1>2, <3>1 DEF TakenInStep, Unseen
    <3>3. Past(shownAge, docs[path].age + (skipped + 1) * Only)
      BY <1>1, <1>3, <3>1, <3>2, AnotherInterval DEF Ages
    <3>4. shownAge' = shownAge
      BY <1>4, <2>3, <3>1
    <3>5. QED
      BY <1>4, <2>3, <3>3, <3>4
  <2>4. QED
    BY <2>1, <2>2, <2>3
<1>8. QED
  BY <1>5, <1>6, <1>7

LEMMA TakenQuiet ==
  ASSUME OneInterval
  PROVE  Guarded /\ UnseenIsFresh /\ TakenInStep /\ HStep
           /\ (WatcherActs \/ UserActs) /\ ~ReadNew => TakenInStep'
<1> SUFFICES ASSUME Guarded, UnseenIsFresh, TakenInStep, HStep,
                    WatcherActs \/ UserActs, ~ReadNew, interval' > 0
             PROVE  /\ Past(shownAge', proofAge' + skipped' * Only)
                    /\ daemon'[path'].phase = "up" => Past(proofAge', Only - daemon'[path'].timer)
                    /\ Unseen' => Past(proofAge', docs'[path'].age + Only)
  BY DEF TakenInStep, Past
<1>1. TypeOK /\ Ages /\ Only \in Nat \ {0}
  BY OnlyIsPeriod DEF Guarded, UnseenIsFresh
<1>2. UNCHANGED <<docs, daemon>> /\ ~TookEvidence
  BY <1>1, QuietEffects
<1>3. UNCHANGED <<proofAge, shownAge>>
  BY <1>2 DEF HStep, HandedOver
<1>4. status' = "ok"
  <2>1. Guarded'
    BY GuardedWatcherActs, GuardedUserActs
  <2>2. QED
    BY <2>1 DEF Guarded, OkIsGuarded
<1>5. UNCHANGED <<path, interval, lastSeq>> /\ skipped' \in {0, skipped}
  BY <1>1, <1>4, QuietEffects
<1>6. /\ Past(shownAge, proofAge + skipped * Only)
      /\ daemon[path].phase = "up" => Past(proofAge, Only - daemon[path].timer)
      /\ Unseen => Past(proofAge, docs[path].age + Only)
  BY <1>5 DEF TakenInStep
<1>7. Past(shownAge', proofAge' + skipped' * Only)
  <2>1. /\ shownAge \in Nat /\ proofAge \in Nat /\ skipped \in Nat
        /\ skipped * Only \in Nat
    BY <1>1, AgeCapAssumption DEF Ages, TypeOK, WatcherTypeOK
  <2>2. Past(shownAge, proofAge)
    BY <1>6, <2>1, AgeCapAssumption DEF Past
  <2>3. 0 * Only = 0
    BY <1>1
  <2>4. QED
    BY <1>3, <1>5, <1>6, <2>1, <2>2, <2>3
<1>8. QED
  BY <1>2, <1>3, <1>5, <1>6, <1>7 DEF Unseen

\* As close as it gets: the intervals withheld, and the one before the next.
LEMMA FactorTimes ==
  ASSUME TypeOK, NEW n \in Nat \ {0}
  PROVE  Factor(n) \in Nat \ {0} /\ Factor(n) * n \in Nat /\ Factor(n) * n <= coalesce + n
<1>1. coalesce \in Nat
  BY CoalesceAssumption DEF TypeOK, WatcherTypeOK
<1> DEFINE q == (2 * coalesce + n) \div (2 * n)
<1>2. q \in Nat /\ (2 * n) * q <= 2 * coalesce + n
  BY <1>1, Z3
<1>3. CASE q >= 1
  <2>1. Factor(n) = q
    BY <1>2, <1>3 DEF Factor, Largest
  <2>2. (2 * n) * q = 2 * (q * n) /\ q * n \in Nat
    BY <1>2
  <2>3. 2 * (q * n) <= 2 * coalesce + n
    BY <1>2, <2>2
  <2>4. QED
    BY <1>1, <1>2, <1>3, <2>1, <2>2, <2>3
<1>4. CASE ~(q >= 1)
  <2>1. Factor(n) = 1
    BY <1>2, <1>4 DEF Factor, Largest
  <2>2. QED
    BY <1>1, <2>1
<1>5. QED
  BY <1>3, <1>4

\* In every behaviour with one publishing interval on the grid, a wall clock
\* nobody sets and an event loop late by less than two intervals, snapshots are
\* handed over no closer together than claimed: see NeverTooSoon.
THEOREM SpacingIsKept ==
  ASSUME ClockIsLeftAlone, PromptEnough, OnGrain, OneInterval, AgeCapIsLarge
  PROVE  HSpec => NeverTooSoon
<1> DEFINE Inv == Guarded /\ UnseenIsFresh /\ PublishedInStep /\ TakenInStep
           Spaced == HandedOver /\ interval > 0 /\ interval' = interval
                     => shownAge - docs[path].age >= interval
<1>1. HInit => PublishedInStep /\ TakenInStep
  BY DEF HInit, Init, WatcherInit, DaemonInit, Down, PublishedInStep, TakenInStep
<1>2. Guarded /\ UnseenIsFresh /\ PublishedInStep /\ TakenInStep /\ [HNext]_hvars
      => PublishedInStep' /\ TakenInStep'
  <2> SUFFICES ASSUME Guarded, UnseenIsFresh, PublishedInStep, TakenInStep, [HNext]_hvars
               PROVE  PublishedInStep' /\ TakenInStep'
    OBVIOUS
  <2>1. PublishedInStep'
    BY PublishedStep DEF Guarded
  <2>2. CASE HTick
    BY <2>1, <2>2, TakenTick
  <2>3. CASE HStep
    BY <2>1, <2>3, TakenDaemonActs, TakenReadNew, TakenQuiet, NoClockActs DEF HStep
  <2>4. CASE UNCHANGED hvars
    BY <2>1, <2>4 DEF hvars, vars, dirVars, watcherVars, settings, view, TakenInStep, Unseen
  <2>5. QED
    BY <2>2, <2>3, <2>4 DEF HNext
<1>3. Inv /\ [HNext]_hvars => [Spaced]_hvars
  <2> SUFFICES ASSUME Inv, HNext, HandedOver, interval > 0, interval' = interval
               PROVE  shownAge - docs[path].age >= interval
    OBVIOUS
  <2>1. TypeOK /\ Ages /\ Only \in Nat \ {0}
    BY OnlyIsPeriod DEF Guarded, UnseenIsFresh
  <2>2. lastSeq' \notin {NoSeq, lastSeq}
    BY DEF HandedOver, TookEvidence
  <2>3. HStep /\ (WatcherActs \/ UserActs)
    <3>1. ~HTick
      BY <2>1, <2>2, TickEffects DEF HTick
    <3>2. ~DaemonActs
      BY <2>2 DEF DaemonActs, DaemonFrame, watcherVars
    <3>3. QED
      BY <3>1, <3>2, NoClockActs DEF HNext, HStep
  <2>4. ReadNew
    BY <2>1, <2>3, QuietEffects DEF HandedOver
  <2>5. /\ path \in Paths /\ docs[path] \in Documents /\ Unseen
    BY <2>1, <2>3, <2>4, EvidenceEffects DEF Unseen
  <2>6. docs[path].age \in 0..AgeCap /\ docs[path].period = Only
    BY <2>5, OnlyIsPeriod DEF Documents
  <2>7. \/ Withheld(Only) /\ skipped' = skipped + 1
        \/ ~Withheld(Only) /\ interval' = Factor(Only) * Only
    BY <2>1, <2>3, <2>4, <2>6, EvidenceEffects, QuantizedOnGrain, OnlyIsPeriod
  <2>8. skipped \in Nat /\ skipped' = 0 /\ lag \in 0..MaxLag /\ coalesce \in CoalesceSettings
    BY <2>1 DEF TypeOK, WatcherTypeOK, HandedOver
  <2>9. ~Withheld(Only) /\ interval' = Factor(Only) * Only
    BY <2>7, <2>8
  <2>10. /\ Factor(Only) \in Nat \ {0} /\ Factor(Only) * Only \in Nat
         /\ Factor(Only) * Only <= coalesce + Only
    BY <2>1, FactorTimes
  <2>11. Factor(Only) <= skipped + 1
    BY <2>8, <2>9, <2>10 DEF Withheld
  <2>12. Past(shownAge, docs[path].age + (skipped + 1) * Only)
    <3>1. Past(shownAge, proofAge + skipped * Only) /\ Past(proofAge, docs[path].age + Only)
      BY <2>5 DEF TakenInStep
    <3>2. QED
      BY <2>1, <2>6, <2>8, <3>1, AnotherInterval DEF Ages
  <2>13. CASE shownAge = AgeCap
    <3>1. docs[path].age <= lag
      BY <2>5 DEF UnseenIsFresh
    <3>2. coalesce + Only + MaxLag <= AgeCap /\ coalesce \in Nat
      BY <2>8, CoalesceAssumption DEF AgeCapIsLarge
    <3>3. QED
      BY <2>1, <2>6, <2>8, <2>9, <2>10, <2>13, <3>1, <3>2, MaxLagAssumption, AgeCapAssumption
  <2>14. CASE shownAge >= docs[path].age + (skipped + 1) * Only
    <3>1. \A f, k, n \in Nat : f <= k => f * n <= k * n /\ k * n \in Nat
      <4>1. ASSUME NEW f \in Nat, NEW k \in Nat, NEW n \in Nat, f <= k
            PROVE  f * n <= k * n /\ k * n \in Nat
        <5>1. k * n = f * n + (k - f) * n /\ (k - f) * n \in Nat /\ f * n \in Nat
          BY <4>1
        <5>2. QED
          BY <5>1
      <4>2. QED
        BY <4>1
    <3>2. Factor(Only) * Only <= (skipped + 1) * Only /\ (skipped + 1) * Only \in Nat
      BY <2>1, <2>8, <2>10, <2>11, <3>1
    <3>3. shownAge \in Nat
      BY <2>1, AgeCapAssumption DEF Ages
    <3>4. QED
      BY <2>6, <2>9, <2>10, <2>14, <3>2, <3>3
  <2>15. QED
    BY <2>12, <2>13, <2>14 DEF Past
<1>4. QED
  BY <1>1, <1>2, <1>3, AlwaysFresh, PTL DEF HSpec, NeverTooSoon
=============================================================================
