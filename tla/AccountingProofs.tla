-------------------------- MODULE AccountingProofs --------------------------
(***************************************************************************)
(* Proofs about the walk over the map, the tick and the deletion of        *)
(* counters: type correctness, that a full tick leaves no counter of a     *)
(* process that was gone before it began, and that what is reported is     *)
(* what was transferred.                                                   *)
(***************************************************************************)
EXTENDS Accounting, TLAPS, SequenceTheorems, FiniteSetTheorems, WellFoundedInduction

Samples == [pid : Pids, count : Nat]

-----------------------------------------------------------------------------
(* Sequences of samples. *)

\* A pid that was sampled was sampled a last time.
LEMMA LastOccurs ==
  ASSUME NEW s \in Seq(Samples), NEW p \in {s[n].pid : n \in 1..Len(s)}
  PROVE  \E n \in 1..Len(s) :
            /\ s[n].pid = p
            /\ \A m \in n + 1..Len(s) : s[m].pid # p
<1> DEFINE T == {d \in 0..Len(s) : d < Len(s) /\ s[Len(s) - d].pid = p}
<1>1. Len(s) \in Nat
  BY LenProperties
<1>2. T \subseteq Nat
  BY <1>1
<1>3. T # {}
  <2>1. PICK n \in 1..Len(s) : s[n].pid = p
    OBVIOUS
  <2>2. Len(s) - n \in T
    BY <1>1, <2>1
  <2>3. QED
    BY <2>2
<1>4. PICK d \in T : \A e \in T : ~(<<e, d>> \in OpToRel(<, Nat))
  BY <1>2, <1>3, NatLessThanWellFounded, WFMin
<1>5. \A e \in T : ~(e < d)
  BY <1>2, <1>4 DEF OpToRel
<1>6. Len(s) - d \in 1..Len(s) /\ s[Len(s) - d].pid = p
  BY <1>1
<1>7. ASSUME NEW m \in (Len(s) - d) + 1..Len(s), s[m].pid = p
      PROVE  FALSE
  <2>1. Len(s) - m \in T /\ Len(s) - m < d
    BY <1>1, <1>7
  <2>2. QED
    BY <2>1, <1>5
<1>8. QED
  BY <1>6, <1>7

\* What the baseline takes of a pid is the count of one of its samples.
LEMMA LastCountOccurs ==
  ASSUME samples \in Seq(Samples), NEW p \in SampledPids
  PROVE  \E n \in 1..Len(samples) : samples[n].pid = p /\ LastCount(p) = samples[n].count
<1>1. \E n \in 1..Len(samples) :
        /\ samples[n].pid = p
        /\ \A m \in n + 1..Len(samples) : samples[m].pid # p
  BY LastOccurs DEF SampledPids
<1> DEFINE i == CHOOSE n \in 1..Len(samples) :
                    /\ samples[n].pid = p
                    /\ \A m \in n + 1..Len(samples) : samples[m].pid # p
<1>2. i \in 1..Len(samples) /\ samples[i].pid = p
  BY <1>1
<1>3. LastCount(p) = samples[i].count
  BY DEF LastCount
<1>4. QED
  BY <1>2, <1>3

LEMMA SampledAreTyped ==
  ASSUME samples \in Seq(Samples)
  PROVE  /\ SampledPids \subseteq Pids
         /\ \A p \in SampledPids : LastCount(p) \in Nat
<1>1. \A n \in 1..Len(samples) : samples[n] \in Samples
  BY ElementOfSeq
<1>2. SampledPids \subseteq Pids
  BY <1>1 DEF SampledPids, Samples
<1>3. ASSUME NEW p \in SampledPids PROVE LastCount(p) \in Nat
  <2>1. PICK n \in 1..Len(samples) : LastCount(p) = samples[n].count
    BY LastCountOccurs
  <2>2. QED
    BY <1>1, <2>1 DEF Samples
<1>4. QED
  BY <1>2, <1>3

\* Appending a sample adds its pid; taking the first leaves the others.
LEMMA AppendedSamples ==
  ASSUME NEW s \in Seq(Samples), NEW x \in Samples
  PROVE  /\ Append(s, x) \in Seq(Samples)
         /\ Len(Append(s, x)) = Len(s) + 1
         /\ \A n \in 1..Len(s) : Append(s, x)[n] = s[n]
         /\ Append(s, x)[Len(s) + 1] = x
  OBVIOUS

LEMMA RemainingSamples ==
  ASSUME NEW s \in Seq(Samples), s # <<>>
  PROVE  /\ Tail(s) \in Seq(Samples)
         /\ Head(s) \in Samples
         /\ Head(s) = s[1]
         /\ Len(s) \in Nat \ {0}
         /\ Len(Tail(s)) = Len(s) - 1
         /\ \A n \in 1..Len(s) - 1 : Tail(s)[n] = s[n + 1]
<1>1. Len(s) \in Nat \ {0}
  BY EmptySeq
<1>2. Head(s) = s[1]
  BY <1>1
<1>3. QED
  BY <1>1, <1>2, HeadTailProperties

-----------------------------------------------------------------------------
(* Type correctness. *)

LEMMA DeltaType ==
  ASSUME NEW m \in Nat, NEW n \in Nat PROVE Delta(m, n) \in Nat
  BY DEF Delta

LEMMA BookedType ==
  ASSUME due \in [Pids -> Int], NEW p, NEW S
  PROVE  Booked(p, S) \in [Pids -> Int]
  BY DEF Booked

\* A call that found a counter holds an element.
LEMMA FoundElement ==
  ASSUME MapTypeOK, NEW c \in Cpus, cpu[c].step = "found"
  PROVE  cpu[c].pid \in Pids /\ cpu[c].elem \in Elements
<1>1. cpu[c] \in [step : {"found"}, pid : Pids, elem : Elements]
  BY DEF MapTypeOK, Calls, Idle
<1>2. QED
  BY <1>1

LEMMA MissedPid ==
  ASSUME MapTypeOK, NEW c \in Cpus, cpu[c].step = "missed"
  PROVE  cpu[c].pid \in Pids
<1>1. cpu[c] \in [step : {"missed"}, pid : Pids]
  BY DEF MapTypeOK, Calls, Idle
<1>2. QED
  BY <1>1

LEMMA TypeInit == Init => TypeOK
<1> SUFFICES ASSUME Init PROVE TypeOK
  OBVIOUS
<1>1. MapTypeOK
  <2>1. Keys = {} /\ spawns \in 0..MaxSpawns
    BY TrafficBoundsAssumption DEF Init, MapInit, Keys
  <2>2. cpu \in [Cpus -> Calls]
    BY DEF Init, MapInit, Calls
  <2>3. QED
    BY <2>1, <2>2 DEF Init, MapInit, MapTypeOK, Keys
<1>2. samples \in Seq(Samples)
  BY EmptySeq DEF Init
<1>3. QED
  BY <1>1, <1>2 DEF Init, TypeOK, NoCounters, Samples

\* The kernel's and the processes' steps.
LEMMA TypeSpawn ==
  ASSUME TypeOK, NEW p \in Pids, Spawn(p), goneAtPoll' = goneAtPoll \ {p},
         UNCHANGED <<tickVars, settled, disturbed>>
  PROVE  TypeOK'
<1>1. spawns' \in 0..MaxSpawns
  BY TrafficBoundsAssumption DEF TypeOK, MapTypeOK, Spawn
<1>2. MapTypeOK'
  BY <1>1 DEF TypeOK, MapTypeOK, Spawn, Keys
<1>3. QED
  BY <1>2 DEF TypeOK, Spawn, tickVars

LEMMA TypeExit ==
  ASSUME TypeOK, NEW p \in Pids, Exit(p), KernelFrame
  PROVE  TypeOK'
  BY DEF TypeOK, MapTypeOK, Exit, KernelFrame, tickVars, ghosts, Keys

LEMMA TypeLookup ==
  ASSUME TypeOK, NEW c \in Cpus, NEW p \in Pids, Lookup(c, p), KernelFrame
  PROVE  TypeOK'
<1>1. sent' \in [Pids -> Nat] /\ due' \in [Pids -> Int]
  BY DEF TypeOK, MapTypeOK, Lookup
<1>2. cpu' \in [Cpus -> Calls]
  <2> DEFINE call == IF p \in Keys THEN [step |-> "found", pid |-> p, elem |-> at[p]]
                     ELSE [step |-> "missed", pid |-> p]
  <2>1. call \in Calls
    BY DEF TypeOK, MapTypeOK, Calls
  <2>2. cpu' = [cpu EXCEPT ![c] = call]
    BY DEF Lookup
  <2>3. QED
    BY <2>1, <2>2 DEF TypeOK, MapTypeOK
<1>3. MapTypeOK'
  BY <1>1, <1>2 DEF TypeOK, MapTypeOK, Lookup, Keys
<1>4. QED
  BY <1>3 DEF TypeOK, KernelFrame, tickVars, ghosts

LEMMA TypeAdd ==
  ASSUME TypeOK, NEW c \in Cpus, Add(c), KernelFrame
  PROVE  TypeOK'
<1>1. cpu[c].elem \in Elements
  BY FoundElement DEF TypeOK, Add
<1>2. value' \in [Elements -> Nat]
  BY <1>1 DEF TypeOK, MapTypeOK, Add
<1>3. due' \in [Pids -> Int]
  BY BookedType DEF TypeOK, MapTypeOK, Add
<1>4. cpu' \in [Cpus -> Calls]
  BY DEF TypeOK, MapTypeOK, Add, Calls
<1>5. MapTypeOK'
  BY <1>2, <1>3, <1>4 DEF TypeOK, MapTypeOK, Add, Keys
<1>6. QED
  BY <1>5 DEF TypeOK, KernelFrame, tickVars, ghosts

LEMMA TypeInsert ==
  ASSUME TypeOK, NEW c \in Cpus, Insert(c), KernelFrame
  PROVE  TypeOK'
<1> DEFINE p == cpu[c].pid
<1>1. p \in Pids
  BY MissedPid DEF TypeOK, Insert
<1>2. cpu' \in [Cpus -> Calls]
  BY DEF TypeOK, MapTypeOK, Insert, Calls
<1>3. PICK S \in SUBSET Keys :
        /\ removed' = removed \cup S
        /\ \/ /\ at' = Without(S)
              /\ refused' = refused \cup {p}
              /\ UNCHANGED value
           \/ /\ p \notin Keys \ S
              /\ \E e \in Elements \ {at[k] : k \in Keys \ S} :
                   /\ at' = [k \in (Keys \ S) \cup {p} |-> IF k = p THEN e ELSE at[k]]
                   /\ value' = [value EXCEPT ![e] = 1]
              /\ UNCHANGED refused
  BY DEF Insert
<1>4. removed' \subseteq Pids /\ refused' \subseteq Pids
  BY <1>1, <1>3 DEF TypeOK, MapTypeOK
<1>5. Keys' \subseteq Pids /\ at' \in [Keys' -> Elements] /\ value' \in [Elements -> Nat]
  <2>1. CASE at' = Without(S) /\ UNCHANGED value
    BY <2>1 DEF TypeOK, MapTypeOK, Without, Keys
  <2>2. ASSUME NEW e \in Elements,
               at' = [k \in (Keys \ S) \cup {p} |-> IF k = p THEN e ELSE at[k]],
               value' = [value EXCEPT ![e] = 1]
        PROVE  Keys' \subseteq Pids /\ at' \in [Keys' -> Elements] /\ value' \in [Elements -> Nat]
    BY <1>1, <2>2 DEF TypeOK, MapTypeOK, Keys
  <2>3. QED
    BY <1>3, <2>1, <2>2
<1>6. MapTypeOK'
  BY <1>2, <1>4, <1>5 DEF TypeOK, MapTypeOK, Insert
<1>7. QED
  BY <1>6 DEF TypeOK, KernelFrame, tickVars, ghosts

\* The daemon's steps.
LEMMA TypeWalk ==
  ASSUME TypeOK, PollStarts \/ NextKey \/ FindValue \/ CopyValue \/ PollEnds
  PROVE  TypeOK'
<1>1. CASE PollStarts
  BY <1>1, EmptySeq DEF TypeOK, PollStarts, mapVars, MapTypeOK, Keys
<1>2. CASE NextKey
  <2>1. KeysAhead \subseteq Keys
    BY DEF KeysAhead
  <2>2. QED
    BY <1>2, <2>1 DEF TypeOK, NextKey, mapVars, MapTypeOK, Keys
<1>3. CASE FindValue
  <2>1. cursor \in Keys => at[cursor] \in Elements /\ cursor # 0
    BY PidsAssumption DEF TypeOK, MapTypeOK
  <2>2. QED
    BY <1>3, <2>1, NoElementAssumption
    DEF TypeOK, FindValue, mapVars, ghosts, MapTypeOK, Keys
<1>6. CASE CopyValue
  <2> DEFINE x == [pid |-> cursor, count |-> value[slot]]
  <2>1. x \in Samples /\ samples \in Seq(Samples)
    BY <1>6 DEF TypeOK, MapTypeOK, CopyValue, Samples
  <2>2. samples' \in Seq(Samples)
    BY <1>6, <2>1, AppendedSamples DEF CopyValue
  <2>3. QED
    BY <1>6, <2>2 DEF TypeOK, CopyValue, mapVars, ghosts, MapTypeOK, Keys, Samples
<1>4. CASE PollEnds
  BY <1>4 DEF TypeOK, PollEnds, mapVars, ghosts, MapTypeOK, Keys, NoCounters
<1>5. QED
  BY <1>1, <1>2, <1>3, <1>4, <1>6

LEMMA TypeBaseline ==
  ASSUME TypeOK, Baseline
  PROVE  TypeOK'
<1>1. SampledPids \subseteq Pids /\ \A p \in SampledPids : LastCount(p) \in Nat
  BY SampledAreTyped DEF TypeOK, Samples
<1>2. previous' = [p \in SampledPids |-> LastCount(p)]
  BY DEF Baseline
<1>3. DOMAIN previous' \subseteq Pids /\ previous' \in [DOMAIN previous' -> Nat]
  BY <1>1, <1>2
<1>4. settled' \in [Pids -> Nat]
  BY <1>3 DEF Baseline, Counter
<1>5. QED
  BY <1>3, <1>4 DEF TypeOK, Baseline, mapVars, MapTypeOK, Keys

LEMMA TypeTakeSample ==
  ASSUME TypeOK, TakeSample
  PROVE  TypeOK'
<1> DEFINE s == Head(samples)
<1>1. s \in Samples /\ samples' \in Seq(Samples)
  BY RemainingSamples DEF TypeOK, TakeSample, Samples
<1>2. s.pid \in Pids /\ s.count \in Nat
  BY <1>1 DEF Samples
<1>3. DOMAIN current' \subseteq Pids /\ current' \in [DOMAIN current' -> Nat]
  BY <1>2 DEF TypeOK, TakeSample, With
<1>4. settled' \in [Pids -> Nat]
  <2>1. Counter(previous, s.pid) \in Nat
    BY DEF Counter, TypeOK
  <2>2. Delta(s.count, Counter(previous, s.pid)) \in Nat
    BY <1>2, <2>1, DeltaType
  <2>3. QED
    BY <1>2, <2>2 DEF TypeOK, TakeSample
<1>5. dead' \subseteq Pids
  BY <1>2 DEF TypeOK, TakeSample
<1>6. QED
  BY <1>1, <1>3, <1>4, <1>5 DEF TypeOK, TakeSample, mapVars, MapTypeOK, Keys, Samples

LEMMA TypeForget ==
  ASSUME TypeOK, NEW p \in Pids, Forget(p)
  PROVE  TypeOK'
<1>1. Keys' \subseteq Pids /\ at' \in [Keys' -> Elements] /\ removed' \subseteq Pids
  BY DEF TypeOK, MapTypeOK, Forget, Without, Keys
<1>2. MapTypeOK'
  BY <1>1 DEF TypeOK, MapTypeOK, Forget
<1>3. QED
  BY <1>2 DEF TypeOK, Forget, ghosts

LEMMA TypeTickRest ==
  ASSUME TypeOK, TooSoon \/ UpdateEnds \/ TickEnds
  PROVE  TypeOK'
  BY DEF TypeOK, MapTypeOK, TooSoon, UpdateEnds, TickEnds, mapVars, ghosts, Keys

LEMMA TypeNext == TypeOK /\ [Next]_vars => TypeOK'
<1> SUFFICES ASSUME TypeOK, [Next]_vars PROVE TypeOK'
  OBVIOUS
<1>1. CASE UNCHANGED vars
  BY <1>1 DEF TypeOK, MapTypeOK, vars, mapVars, tickVars, ghosts, Keys
<1>2. QED
  BY <1>1, TypeSpawn, TypeExit, TypeLookup, TypeAdd, TypeInsert, TypeWalk, TypeBaseline,
     TypeTakeSample, TypeForget, TypeTickRest
  DEF Next

\* Whatever the map holds, whoever evicts from it and however often a pid is used
\* again, the state keeps its types (TypeOK).
THEOREM TypeCorrect == Spec => []TypeOK
  BY TypeInit, TypeNext, PTL DEF Spec

-----------------------------------------------------------------------------
(* No counter outlives its process by a full tick. *)

\* A call in progress belongs to a process that exists: it cannot end inside it.
CallersLive == \A c \in Cpus : cpu[c] # Idle => cpu[c].pid \in alive

GoneAreGone == goneAtPoll \cap alive = {}

\* A counter of a process that is gone is yet to be walked to, sampled, or found
\* to be dead; walking starts over when the key under the cursor is evicted.
GarbageIsInSight ==
    \A p \in goneAtPoll \cap Keys :
        /\ phase # "idle"
        /\ phase = "key" /\ p <= cursor => p \in SampledPids
        /\ phase \in {"value", "copy"} /\ p < cursor => p \in SampledPids
        /\ phase = "update" => p \in SampledPids \cup dead
        /\ phase = "forget" => p \in dead

GarbageInv ==
    /\ TypeOK
    /\ CallersLive
    /\ GoneAreGone
    /\ GarbageIsInSight

LEMMA GarbageInit == Init => GarbageInv
<1> SUFFICES ASSUME Init PROVE GarbageInv
  OBVIOUS
<1>1. QED
  BY TypeInit DEF Init, MapInit, GarbageInv, CallersLive, GoneAreGone, GarbageIsInSight

\* Keys only appear for processes that exist.
LEMMA GarbageKernel ==
  ASSUME GarbageInv, TypeOK', UNCHANGED <<tickVars, settled, disturbed>>,
         CallersLive', GoneAreGone',
         goneAtPoll' \subseteq goneAtPoll, Keys' \subseteq Keys \cup alive
  PROVE  GarbageInv'
<1>1. goneAtPoll' \cap Keys' \subseteq goneAtPoll \cap Keys
  BY DEF GarbageInv, GoneAreGone
<1>2. SampledPids' = SampledPids
  BY DEF tickVars, SampledPids
<1>3. GarbageIsInSight'
  BY <1>1, <1>2 DEF GarbageInv, GarbageIsInSight, tickVars
<1>4. QED
  BY <1>3 DEF GarbageInv

LEMMA GarbageSpawn ==
  ASSUME GarbageInv, NEW p \in Pids, Spawn(p), goneAtPoll' = goneAtPoll \ {p},
         UNCHANGED <<tickVars, settled, disturbed>>
  PROVE  GarbageInv'
<1>1. TypeOK'
  BY TypeSpawn DEF GarbageInv
<1>2. CallersLive' /\ GoneAreGone'
  BY DEF GarbageInv, Spawn, CallersLive, GoneAreGone
<1>3. Keys' = Keys
  BY DEF Spawn, Keys
<1>4. QED
  BY <1>1, <1>2, <1>3, GarbageKernel

LEMMA GarbageExit ==
  ASSUME GarbageInv, NEW p \in Pids, Exit(p), KernelFrame
  PROVE  GarbageInv'
<1>1. TypeOK'
  BY TypeExit DEF GarbageInv
<1>2. CallersLive' /\ GoneAreGone'
  BY DEF GarbageInv, Exit, KernelFrame, ghosts, CallersLive, GoneAreGone
<1>3. Keys' = Keys
  BY DEF Exit, Keys
<1>4. QED
  BY <1>1, <1>2, <1>3, GarbageKernel DEF KernelFrame, ghosts

LEMMA GarbageLookup ==
  ASSUME GarbageInv, NEW c \in Cpus, NEW p \in Pids, Lookup(c, p), KernelFrame
  PROVE  GarbageInv'
<1>1. TypeOK'
  BY TypeLookup DEF GarbageInv
<1>2. cpu'[c].pid = p /\ \A d \in Cpus \ {c} : cpu'[d] = cpu[d]
  BY DEF Lookup, GarbageInv, TypeOK, MapTypeOK
<1>3. p \in alive /\ UNCHANGED <<alive, at>>
  BY DEF Lookup
<1>4. CallersLive'
  BY <1>2, <1>3 DEF GarbageInv, CallersLive
<1>5. GoneAreGone' /\ Keys' = Keys
  BY <1>3 DEF GarbageInv, GoneAreGone, KernelFrame, ghosts, Keys
<1>6. QED
  BY <1>1, <1>4, <1>5, GarbageKernel DEF KernelFrame, ghosts

LEMMA GarbageAdd ==
  ASSUME GarbageInv, NEW c \in Cpus, Add(c), KernelFrame
  PROVE  GarbageInv'
<1>1. TypeOK'
  BY TypeAdd DEF GarbageInv
<1>2. CallersLive'
  BY DEF GarbageInv, TypeOK, MapTypeOK, Add, CallersLive
<1>3. GoneAreGone' /\ Keys' = Keys
  BY DEF GarbageInv, GoneAreGone, Add, KernelFrame, ghosts, Keys
<1>4. QED
  BY <1>1, <1>2, <1>3, GarbageKernel DEF KernelFrame, ghosts

LEMMA GarbageInsert ==
  ASSUME GarbageInv, NEW c \in Cpus, Insert(c), KernelFrame
  PROVE  GarbageInv'
<1> DEFINE p == cpu[c].pid
<1>1. TypeOK'
  BY TypeInsert DEF GarbageInv
<1>2. p \in alive
  BY DEF GarbageInv, Insert, CallersLive, Idle
<1>3. GoneAreGone'
  BY DEF GarbageInv, GoneAreGone, Insert, KernelFrame, ghosts
<1>4. CallersLive'
  BY DEF GarbageInv, TypeOK, MapTypeOK, Insert, CallersLive
<1>5. Keys' \subseteq Keys \cup alive
  BY <1>2 DEF Insert, Without, Keys
<1>6. QED
  BY <1>1, <1>3, <1>4, <1>5, GarbageKernel DEF KernelFrame, ghosts

LEMMA GarbagePollStarts ==
  ASSUME GarbageInv, PollStarts
  PROVE  GarbageInv'
<1>1. TypeOK'
  BY TypeWalk DEF GarbageInv
<1>2. CallersLive' /\ GoneAreGone'
  BY DEF GarbageInv, PollStarts, mapVars, CallersLive, GoneAreGone
<1>3. GarbageIsInSight'
  BY PidsAssumption DEF GarbageInv, TypeOK, PollStarts, GarbageIsInSight
<1>4. QED
  BY <1>1, <1>2, <1>3 DEF GarbageInv

\* Whatever the cursor jumps over has been sampled.
LEMMA GarbageNextKey ==
  ASSUME GarbageInv, NextKey
  PROVE  GarbageInv'
<1>1. TypeOK'
  BY TypeWalk DEF GarbageInv
<1>2. CallersLive' /\ GoneAreGone' /\ SampledPids' = SampledPids /\ Keys' = Keys
  BY DEF GarbageInv, NextKey, mapVars, CallersLive, GoneAreGone, SampledPids, Keys
<1>3. ASSUME NEW p \in goneAtPoll \cap Keys, p < cursor'
      PROVE  p \in SampledPids
  <2>4. goneAtPoll \subseteq Pids /\ cursor \in Pids \cup {0} /\ cursor' \in Pids \cup {0}
    BY <1>1 DEF GarbageInv, TypeOK
  <2>1. p \in Nat /\ cursor \in Nat /\ cursor' \in Nat
    BY <2>4, PidsAssumption
  <2>2. p \notin KeysAhead
    BY <1>3, <2>1 DEF NextKey
  <2>3. p <= cursor
    BY <2>1, <2>2 DEF KeysAhead
  <2>5. QED
    BY <2>3 DEF GarbageInv, GarbageIsInSight, NextKey
<1>4. GarbageIsInSight'
  BY <1>2, <1>3 DEF NextKey, GarbageIsInSight
<1>5. QED
  BY <1>1, <1>2, <1>4 DEF GarbageInv

LEMMA GarbageFindValue ==
  ASSUME GarbageInv, FindValue
  PROVE  GarbageInv'
<1>1. TypeOK'
  BY TypeWalk DEF GarbageInv
<1>2. CallersLive' /\ GoneAreGone' /\ Keys' = Keys /\ SampledPids' = SampledPids
  BY DEF GarbageInv, FindValue, mapVars, ghosts, CallersLive, GoneAreGone, Keys, SampledPids
<1>3. cursor \in Nat /\ goneAtPoll \subseteq Nat
  BY PidsAssumption DEF GarbageInv, TypeOK
<1>4. GarbageIsInSight'
  BY <1>2, <1>3 DEF GarbageInv, FindValue, ghosts, GarbageIsInSight
<1>5. QED
  BY <1>1, <1>2, <1>4 DEF GarbageInv

LEMMA GarbageCopyValue ==
  ASSUME GarbageInv, CopyValue
  PROVE  GarbageInv'
<1>1. TypeOK'
  BY TypeWalk DEF GarbageInv
<1>2. CallersLive' /\ GoneAreGone' /\ Keys' = Keys /\ UNCHANGED cursor
  BY DEF GarbageInv, CopyValue, mapVars, CallersLive, GoneAreGone, Keys
<1>3. SampledPids \subseteq SampledPids' /\ cursor \in SampledPids'
  <2> DEFINE x == [pid |-> cursor, count |-> value[slot]]
  <2>1. x \in Samples /\ samples \in Seq(Samples)
    BY DEF GarbageInv, TypeOK, MapTypeOK, CopyValue, Samples
  <2>2. samples' = Append(samples, x)
    BY DEF CopyValue
  <2>3. /\ Len(samples') = Len(samples) + 1
        /\ \A n \in 1..Len(samples) : samples'[n] = samples[n]
        /\ samples'[Len(samples) + 1] = x
        /\ Len(samples) \in Nat
    BY <2>1, <2>2, AppendedSamples, LenProperties
  <2>4. QED
    BY <2>3 DEF SampledPids
<1>4. cursor \in Nat /\ goneAtPoll \subseteq Nat
  BY PidsAssumption DEF GarbageInv, TypeOK
<1>5. GarbageIsInSight'
  BY <1>2, <1>3, <1>4 DEF GarbageInv, CopyValue, GarbageIsInSight
<1>6. QED
  BY <1>1, <1>2, <1>5 DEF GarbageInv

LEMMA GarbagePollEnds ==
  ASSUME GarbageInv, PollEnds
  PROVE  GarbageInv'
<1>1. TypeOK'
  BY TypeWalk DEF GarbageInv
<1>2. CallersLive' /\ GoneAreGone' /\ SampledPids' = SampledPids /\ Keys' = Keys
  BY DEF GarbageInv, PollEnds, mapVars, ghosts, CallersLive, GoneAreGone, SampledPids, Keys
<1>3. ASSUME NEW p \in goneAtPoll \cap Keys PROVE p \in SampledPids
  <2>1. p \in Nat /\ cursor \in Nat
    BY PidsAssumption DEF GarbageInv, TypeOK
  <2>2. p <= cursor
    BY <2>1 DEF PollEnds, KeysAhead
  <2>3. QED
    BY <2>2 DEF GarbageInv, GarbageIsInSight, PollEnds
<1>4. GarbageIsInSight'
  BY <1>2, <1>3 DEF PollEnds, ghosts, GarbageIsInSight
<1>5. QED
  BY <1>1, <1>2, <1>4 DEF GarbageInv

LEMMA GarbageTakeSample ==
  ASSUME GarbageInv, TakeSample
  PROVE  GarbageInv'
<1> DEFINE s == Head(samples)
<1>1. TypeOK'
  BY TypeTakeSample DEF GarbageInv
<1>2. CallersLive' /\ GoneAreGone' /\ Keys' = Keys
  BY DEF GarbageInv, TakeSample, mapVars, CallersLive, GoneAreGone, Keys
<1>3. SampledPids \subseteq SampledPids' \cup {s.pid}
  <2>1. samples \in Seq(Samples) /\ samples # <<>> /\ samples' = Tail(samples)
    BY DEF GarbageInv, TypeOK, TakeSample, Samples
  <2>2. /\ s = samples[1] /\ Len(samples) \in Nat \ {0}
        /\ Len(samples') = Len(samples) - 1
        /\ \A n \in 1..Len(samples) - 1 : samples'[n] = samples[n + 1]
    BY <2>1, RemainingSamples
  <2>3. ASSUME NEW n \in 1..Len(samples), n # 1 PROVE samples[n].pid \in SampledPids'
    <3>1. n - 1 \in 1..Len(samples') /\ samples'[n - 1] = samples[n]
      BY <2>2, <2>3
    <3>2. QED
      BY <3>1 DEF SampledPids
  <2>4. QED
    BY <2>2, <2>3 DEF SampledPids
<1>4. s.pid \in goneAtPoll => s.pid \in dead'
  BY DEF GarbageInv, GoneAreGone, TakeSample
<1>5. dead \subseteq dead'
  BY DEF TakeSample
<1>6. GarbageIsInSight'
  BY <1>2, <1>3, <1>4, <1>5 DEF GarbageInv, TakeSample, GarbageIsInSight
<1>7. QED
  BY <1>1, <1>2, <1>6 DEF GarbageInv

LEMMA GarbageForget ==
  ASSUME GarbageInv, NEW p \in Pids, Forget(p)
  PROVE  GarbageInv'
<1>1. TypeOK'
  BY TypeForget DEF GarbageInv
<1>2. GoneAreGone' /\ Keys' = Keys \ {p}
  BY DEF GarbageInv, Forget, ghosts, GoneAreGone, Keys, Without
<1>3. CallersLive'
  BY DEF GarbageInv, Forget, CallersLive
<1>4. GarbageIsInSight'
  BY <1>2 DEF GarbageInv, Forget, ghosts, GarbageIsInSight
<1>5. QED
  BY <1>1, <1>2, <1>3, <1>4 DEF GarbageInv

LEMMA GarbageTickRest ==
  ASSUME GarbageInv, Baseline \/ TooSoon \/ UpdateEnds \/ TickEnds
  PROVE  GarbageInv'
<1>1. TypeOK'
  BY TypeBaseline, TypeTickRest DEF GarbageInv
<1>2. CallersLive' /\ GoneAreGone'
  BY DEF GarbageInv, CallersLive, GoneAreGone, Baseline, TooSoon, UpdateEnds, TickEnds,
         mapVars, ghosts
<1>3. CASE Baseline \/ TooSoon
  BY <1>1, <1>2, <1>3 DEF GarbageInv, GarbageIsInSight, Baseline, TooSoon
<1>4. CASE UpdateEnds
  <2>1. SampledPids = {}
    BY <1>4 DEF UpdateEnds, SampledPids
  <2>2. GarbageIsInSight'
    BY <1>4, <2>1 DEF GarbageInv, GarbageIsInSight, UpdateEnds, mapVars, ghosts, Keys
  <2>3. QED
    BY <1>1, <1>2, <2>2 DEF GarbageInv
<1>5. CASE TickEnds
  <2>1. GarbageIsInSight'
    BY <1>5 DEF GarbageInv, GarbageIsInSight, TickEnds, mapVars, ghosts, Keys
  <2>2. QED
    BY <1>1, <1>2, <2>1 DEF GarbageInv
<1>6. QED
  BY <1>3, <1>4, <1>5

LEMMA GarbageNext == GarbageInv /\ [Next]_vars => GarbageInv'
<1> SUFFICES ASSUME GarbageInv, [Next]_vars PROVE GarbageInv'
  OBVIOUS
<1>1. CASE UNCHANGED vars
  <2>1. TypeOK'
    BY TypeNext DEF GarbageInv
  <2>2. QED
    BY <1>1, <2>1
    DEF GarbageInv, CallersLive, GoneAreGone, GarbageIsInSight, vars, mapVars, tickVars,
        ghosts, Keys, SampledPids
<1>2. QED
  BY <1>1, GarbageSpawn, GarbageExit, GarbageLookup, GarbageAdd, GarbageInsert,
     GarbagePollStarts, GarbageNextKey, GarbageFindValue, GarbageCopyValue, GarbagePollEnds,
     GarbageTakeSample, GarbageForget, GarbageTickRest
  DEF Next

LEMMA GarbageAlways == Spec => []GarbageInv
  BY GarbageInit, GarbageNext, PTL DEF Spec

\* Every full tick deletes the counters of all processes that were gone before it
\* began, for any number of processes and CPUs and any capacity of the map: also
\* those the walk has to come back for when the key it stands on is evicted
\* (NoGarbage).
THEOREM CountersOfTheDeadGo == Spec => []NoGarbage
<1>1. GarbageInv => NoGarbage
  BY DEF GarbageInv, GarbageIsInSight, NoGarbage
<1>2. QED
  BY <1>1, GarbageAlways, PTL

-----------------------------------------------------------------------------
(***************************************************************************)
(* Proofs that what is reported is what was transferred: no byte is        *)
(* reported twice, none is lost but with the counter it was in, and        *)
(* Accounting implements Meter, until an eviction disturbs the walk over   *)
(* the map.                                                                *)
(*                                                                         *)
(* The invariant is a ledger.  While the map is walked, bytes of a process *)
(* are in one of four places: reported, in a sample that is not reported   *)
(* yet, in the counter beyond what was read of it, or on their way to the  *)
(* counter.                                                                *)
(***************************************************************************)

Held(p) == Counter(traffic, p)
Before(p) == Counter(previous, p)
Lost == refused \cup removed
Walking == phase \in {"key", "value", "copy", "update"}

\* The walk has left p behind, with a sample of it or without.
Passed(p) ==
    \/ phase = "key" /\ p <= cursor
    \/ phase \in {"value", "copy"} /\ p < cursor
    \/ phase = "update"

\* What the counter of p will be compared with next, if no sample of it is waiting.
Base(p) ==
    IF ~Passed(p) THEN Before(p) ELSE IF phase = "update" THEN Counter(current, p) ELSE 0

\* The four places.  As long as the counter of p was never lost it has not gone
\* back, and the sum is exact.
Balances(p, waiting, base) ==
    LET sum == settled[p] + waiting + Delta(Held(p), base) + InFlight(p)
    IN  /\ sum <= due[p]
        /\ p \notin Lost => base <= Held(p) /\ sum = due[p]

SampleBalances(i) ==
    LET p == samples[i].pid
        n == samples[i].count
    IN  /\ Balances(p, Delta(n, Before(p)), n)
        /\ p \notin Lost => Before(p) <= n

SampledBalance == Walking => \A i \in 1..Len(samples) : SampleBalances(i)

\* A pid the walk has left behind without a sample had no counter then, and so
\* had none in the tick before unless it was lost.
UnsampledBalance ==
    \A p \in Pids :
        ~Walking \/ p \notin SampledPids =>
            /\ Balances(p, 0, Base(p))
            /\ Passed(p) /\ p \notin Lost /\ ~(phase = "update" /\ p \in DOMAIN current)
               => Before(p) = 0

\* Without going back the walk meets every pid once.
InOrder ==
    Walking =>
        /\ \A i, j \in 1..Len(samples) : i < j => samples[i].pid < samples[j].pid
        /\ \A i \in 1..Len(samples) : Passed(samples[i].pid)

\* An element leads to one key.
OneKeyEach == \A p, q \in Keys : at[p] = at[q] => p = q

\* A call that found a counter holds its element until that is taken away.
FoundIsHeld ==
    \A c \in Cpus :
        cpu[c].step = "found" /\ cpu[c].pid \notin removed =>
            cpu[c].pid \in Keys /\ at[cpu[c].pid] = cpu[c].elem

\* Only calls of a process whose counter was taken away put its bytes elsewhere.
DueIsSent ==
    /\ \A p \in Pids \ removed : sent[p] <= due[p]
    /\ removed = {} => due = sent

ElementsInv == OneKeyEach /\ FoundIsHeld /\ DueIsSent

NothingBeforeBaseline ==
    ~ticked =>
        /\ previous = NoCounters
        /\ settled = [p \in Pids |-> 0]
        /\ phase = "update" => current = NoCounters

LedgerInv ==
    /\ TypeOK
    /\ ElementsInv
    /\ NothingBeforeBaseline
    /\ ~disturbed => InOrder /\ SampledBalance /\ UnsampledBalance

-----------------------------------------------------------------------------
(* Differences of counters. *)

LEMMA DeltaFacts ==
  ASSUME NEW m \in Nat, NEW n \in Nat, NEW b \in Nat
  PROVE  /\ Delta(0, b) = 0 /\ Delta(n, n) = 0 /\ Delta(n, 0) = n
         /\ Delta(n + 1, b) <= Delta(n, b) + 1
         /\ b <= n => Delta(n + 1, b) = Delta(n, b) + 1
         /\ Delta(m, b) <= Delta(n, b) + Delta(m, n)
         /\ b <= n /\ n <= m => Delta(m, b) = Delta(n, b) + Delta(m, n)
  BY DEF Delta

\* A counter is what is in the element of the key.
LEMMA HeldIs ==
  ASSUME NEW p
  PROVE  /\ Held(p) = IF p \in Keys THEN value[at[p]] ELSE 0
         /\ Held(p)' = IF p \in Keys' THEN value'[at'[p]] ELSE 0
  BY DEF Held, Counter, traffic

LEMMA LedgerTypes ==
  ASSUME TypeOK, NEW p \in Pids
  PROVE  /\ Held(p) \in Nat /\ Before(p) \in Nat /\ Counter(current, p) \in Nat
         /\ Base(p) \in Nat /\ settled[p] \in Nat /\ due[p] \in Int
<1>1. \A k \in Keys : value[at[k]] \in Nat
  BY DEF TypeOK, MapTypeOK
<1>2. Held(p) \in Nat
  BY <1>1, HeldIs
<1>3. QED
  BY <1>2 DEF TypeOK, MapTypeOK, Before, Base, Counter

-----------------------------------------------------------------------------
(* Calls on their way to a counter. *)

Flying(p) == {c \in Cpus : cpu[c].pid = p}

LEMMA InFlightType ==
  ASSUME NEW p
  PROVE  /\ InFlight(p) = Cardinality(Flying(p)) /\ IsFiniteSet(Flying(p))
         /\ InFlight(p) \in Nat
         /\ InFlight(p)' = Cardinality(Flying(p)') /\ IsFiniteSet(Flying(p)')
         /\ InFlight(p)' \in Nat
<1>1. Flying(p) \in SUBSET Cpus /\ Flying(p)' \in SUBSET Cpus
  BY DEF Flying
<1>2. IsFiniteSet(Flying(p)) /\ IsFiniteSet(Flying(p)')
  BY <1>1, CpusAssumption, FS_Subset
<1>3. QED
  BY <1>2, FS_CardinalityType DEF InFlight, Flying

LEMMA FlyingSame ==
  ASSUME NEW p, Flying(p)' = Flying(p) PROVE InFlight(p)' = InFlight(p)
  BY InFlightType

LEMMA FlyingTakesOff ==
  ASSUME NEW p, NEW c, c \notin Flying(p), Flying(p)' = Flying(p) \cup {c}
  PROVE  InFlight(p)' = InFlight(p) + 1
  BY InFlightType, FS_AddElement

LEMMA FlyingLands ==
  ASSUME NEW p, NEW c \in Flying(p), Flying(p)' = Flying(p) \ {c}
  PROVE  InFlight(p)' = InFlight(p) - 1
  BY InFlightType, FS_RemoveElement

-----------------------------------------------------------------------------
(* What a step of the kernel can do to a process. *)

Moves(p) ==
    /\ settled'[p] = settled[p]
    /\ p \in Lost => p \in Lost'
    /\ \/ /\ Held(p)' = Held(p) /\ InFlight(p)' = InFlight(p) /\ due'[p] = due[p]
       \/ /\ Held(p)' = Held(p) /\ InFlight(p)' = InFlight(p) + 1 /\ due'[p] = due[p] + 1
       \/ /\ Held(p)' = Held(p) + 1 /\ InFlight(p)' = InFlight(p) - 1 /\ due'[p] = due[p]
       \/ /\ Held(p)' = Held(p) + 1 /\ InFlight(p)' = InFlight(p) /\ due'[p] = due[p] + 1
       \/ /\ Held(p)' = Held(p) /\ InFlight(p)' = InFlight(p) - 1 /\ due'[p] = due[p] - 1
          /\ p \in Lost'
       \/ /\ Held(p)' \in {0, Held(p)} /\ InFlight(p)' <= InFlight(p) /\ due'[p] = due[p]
          /\ p \in Lost'
       \/ /\ Held(p)' = 1 /\ InFlight(p)' = InFlight(p) - 1 /\ due'[p] = due[p]
          /\ p \in Lost'

LEMMA MoveKeepsBalance ==
  ASSUME TypeOK, NEW p \in Pids, Moves(p), NEW w \in Nat, NEW b \in Nat, Balances(p, w, b)
  PROVE  Balances(p, w, b)'
<1>1. /\ Held(p) \in Nat /\ settled[p] \in Nat /\ due[p] \in Int
      /\ InFlight(p) \in Nat /\ InFlight(p)' \in Nat
  BY LedgerTypes, InFlightType
<1>2. Delta(Held(p), b) \in Nat
  BY <1>1, DeltaType
<1>3. /\ Delta(0, b) = 0
      /\ Delta(1, b) \in 0..1
      /\ Delta(Held(p) + 1, b) <= Delta(Held(p), b) + 1
      /\ b <= Held(p) => Delta(Held(p) + 1, b) = Delta(Held(p), b) + 1
  BY <1>1, DeltaFacts DEF Delta
<1>4. Delta(Held(p), b)' = Delta(Held(p)', b)
  BY DEF Delta
<1>5. Delta(Held(p) + 1, b) \in Nat
  BY <1>1 DEF Delta
<1>6. QED
  BY <1>1, <1>2, <1>3, <1>4, <1>5 DEF Moves, Balances

LEMMA MovesKeepLedger ==
  ASSUME LedgerInv, TypeOK', ElementsInv', \A p \in Pids : Moves(p),
         UNCHANGED <<phase, cursor, samples, ticked, previous, current, settled, disturbed>>
  PROVE  LedgerInv'
<1>1. NothingBeforeBaseline'
  BY DEF LedgerInv, NothingBeforeBaseline
<1>2. SUFFICES ASSUME ~disturbed
               PROVE  InOrder' /\ SampledBalance' /\ UnsampledBalance'
  BY <1>1 DEF LedgerInv
<1>3. InOrder /\ SampledBalance /\ UnsampledBalance
  BY <1>2 DEF LedgerInv
<1>4. SampledPids' = SampledPids /\ \A p : Passed(p)' = Passed(p) /\ Before(p)' = Before(p)
                                     /\ Base(p)' = Base(p)
  BY DEF SampledPids, Passed, Before, Base
<1>5. InOrder'
  BY <1>3, <1>4 DEF InOrder, Walking
<1>6. SampledBalance'
  <2>1. SUFFICES ASSUME Walking, NEW i \in 1..Len(samples)
                 PROVE  SampleBalances(i)'
    BY <1>4 DEF SampledBalance, Walking
  <2> DEFINE p == samples[i].pid
             n == samples[i].count
  <2>2. p \in Pids /\ n \in Nat
    <3>1. samples[i] \in Samples
      BY ElementOfSeq DEF LedgerInv, TypeOK, Samples
    <3>2. QED
      BY <3>1 DEF Samples
  <2>3. Delta(n, Before(p)) \in Nat
    BY <2>2, LedgerTypes, DeltaType DEF LedgerInv
  <2>4. Balances(p, Delta(n, Before(p)), n) /\ (p \notin Lost => Before(p) <= n)
    BY <1>3, <2>1 DEF SampledBalance, SampleBalances
  <2>5. \A w, b \in Nat : Balances(p, w, b) =>
           /\ settled'[p] + w + Delta(Held(p)', b) + InFlight(p)' <= due'[p]
           /\ p \notin Lost' => /\ b <= Held(p)'
                                /\ settled'[p] + w + Delta(Held(p)', b) + InFlight(p)' = due'[p]
    BY <2>2, MoveKeepsBalance DEF LedgerInv, Balances, Delta
  <2>6. samples'[i].pid = p /\ samples'[i].count = n /\ Before(p)' = Before(p)
    BY <1>4
  <2>7. QED
    BY <2>2, <2>3, <2>4, <2>5, <2>6 DEF SampleBalances, Balances, Moves, Delta
<1>7. UnsampledBalance'
  BY <1>3, <1>4, LedgerTypes, MoveKeepsBalance
  DEF LedgerInv, UnsampledBalance, Walking, Moves, Balances, Delta
<1>8. QED
  BY <1>5, <1>6, <1>7

-----------------------------------------------------------------------------
(* The kernel's steps. *)

LEMMA LedgerSpawnExit ==
  ASSUME LedgerInv, NEW q \in Pids, TypeOK', Spawn(q) \/ Exit(q),
         UNCHANGED <<tickVars, settled, disturbed>>
  PROVE  LedgerInv'
<1>1. UNCHANGED <<at, value, cpu, sent, due, refused, removed>>
  BY DEF Spawn, Exit
<1>2. \A p \in Pids : Moves(p)
  BY <1>1 DEF Moves, Held, Counter, traffic, Keys, InFlight, Lost
<1>3. ElementsInv'
  BY <1>1 DEF LedgerInv, ElementsInv, OneKeyEach, FoundIsHeld, DueIsSent, Keys
<1>4. QED
  BY <1>2, <1>3, MovesKeepLedger DEF tickVars

LEMMA LedgerLookup ==
  ASSUME LedgerInv, NEW c \in Cpus, NEW q \in Pids, Lookup(c, q), KernelFrame
  PROVE  LedgerInv'
<1>1. TypeOK'
  BY TypeLookup DEF LedgerInv
<1>2. cpu \in [Cpus -> Calls] /\ sent \in [Pids -> Nat] /\ due \in [Pids -> Int]
  BY DEF LedgerInv, TypeOK, MapTypeOK
<1>3. /\ cpu[c] = Idle
      /\ sent' = [sent EXCEPT ![q] = @ + 1]
      /\ due' = [due EXCEPT ![q] = @ + 1]
      /\ UNCHANGED <<at, value, refused, removed>>
  BY DEF Lookup
<1>4. /\ cpu'[c].pid = q
      /\ cpu'[c].step = "found" => q \in Keys /\ cpu'[c].elem = at[q]
      /\ \A d \in Cpus \ {c} : cpu'[d] = cpu[d]
  BY <1>2 DEF Lookup
<1>5. FoundIsHeld'
  BY <1>3, <1>4 DEF LedgerInv, ElementsInv, FoundIsHeld, Keys
<1>6. OneKeyEach'
  BY <1>3 DEF LedgerInv, ElementsInv, OneKeyEach, Keys
<1>7. DueIsSent'
  <2>1. \A p \in Pids : /\ sent[p] \in Nat /\ due[p] \in Int
                        /\ sent'[p] = IF p = q THEN sent[p] + 1 ELSE sent[p]
                        /\ due'[p] = IF p = q THEN due[p] + 1 ELSE due[p]
    BY <1>2, <1>3
  <2>2. due = sent => due' = sent'
    BY <1>3
  <2>3. \A m \in Nat, n \in Int : m <= n => m + 1 <= n + 1
    OBVIOUS
  <2>4. QED
    BY <1>3, <2>1, <2>2, <2>3 DEF LedgerInv, ElementsInv, DueIsSent
<1>8. ASSUME NEW p \in Pids PROVE Moves(p)
  <2>1. Held(p)' = Held(p) /\ settled'[p] = settled[p] /\ (p \in Lost => p \in Lost')
    BY <1>3, HeldIs DEF Keys, Lost, KernelFrame, ghosts
  <2>2. p # 0
    BY PidsAssumption
  <2>3. CASE p = q
    <3>1. c \notin Flying(p) /\ Flying(p)' = Flying(p) \cup {c}
      BY <1>3, <1>4, <2>2, <2>3 DEF Flying, Idle
    <3>2. InFlight(p)' = InFlight(p) + 1
      BY <3>1, FlyingTakesOff
    <3>3. QED
      BY <1>2, <1>3, <2>1, <2>3, <3>2 DEF Moves
  <2>4. CASE p # q
    <3>1. Flying(p)' = Flying(p)
      BY <1>3, <1>4, <2>2, <2>4 DEF Flying, Idle
    <3>2. InFlight(p)' = InFlight(p)
      BY <3>1, FlyingSame
    <3>3. QED
      BY <1>2, <1>3, <2>1, <2>4, <3>2 DEF Moves
  <2>5. QED
    BY <2>3, <2>4
<1>9. QED
  BY <1>1, <1>5, <1>6, <1>7, <1>8, MovesKeepLedger DEF ElementsInv, KernelFrame, tickVars, ghosts

\* The call of c is over: one less of its process, the others as before.
LEMMA CallEnds ==
  ASSUME TypeOK, NEW c \in Cpus, cpu[c] # Idle, cpu' = [cpu EXCEPT ![c] = Idle], NEW p \in Pids
  PROVE  InFlight(p)' = IF p = cpu[c].pid THEN InFlight(p) - 1 ELSE InFlight(p)
<1>1. p # 0
  BY PidsAssumption
<1>2. cpu'[c] = Idle /\ \A d \in Cpus \ {c} : cpu'[d] = cpu[d]
  BY DEF TypeOK, MapTypeOK
<1>3. CASE p = cpu[c].pid
  <2>1. c \in Flying(p) /\ Flying(p)' = Flying(p) \ {c}
    BY <1>1, <1>2, <1>3 DEF Flying, Idle
  <2>2. QED
    BY <1>3, <2>1, FlyingLands
<1>4. CASE p # cpu[c].pid
  <2>1. Flying(p)' = Flying(p)
    BY <1>1, <1>2, <1>4 DEF Flying, Idle
  <2>2. QED
    BY <1>4, <2>1, FlyingSame
<1>5. QED
  BY <1>3, <1>4

\* A byte may reach the counter it was meant for, that of another pid, or none.
LEMMA LedgerAdd ==
  ASSUME LedgerInv, NEW c \in Cpus, Add(c), KernelFrame
  PROVE  LedgerInv'
<1> DEFINE q == cpu[c].pid
           e == cpu[c].elem
           H == Holders(e)
<1>1. TypeOK'
  BY TypeAdd DEF LedgerInv
<1>2. q \in Pids /\ e \in Elements /\ cpu[c] # Idle
  BY FoundElement DEF LedgerInv, TypeOK, Add, Idle
<1>3. /\ cpu' = [cpu EXCEPT ![c] = Idle]
      /\ value' = [value EXCEPT ![e] = @ + 1]
      /\ due' = Booked(q, H)
      /\ UNCHANGED <<at, sent, refused, removed>>
  BY DEF Add
<1>4. /\ cpu \in [Cpus -> Calls] /\ value \in [Elements -> Nat] /\ at \in [Keys -> Elements]
      /\ sent \in [Pids -> Nat] /\ due \in [Pids -> Int]
  BY DEF LedgerInv, TypeOK, MapTypeOK
<1>5. Keys' = Keys
  BY <1>3 DEF Keys
<1>6. \A p \in H : p \in Keys /\ at[p] = e
  BY DEF Holders
<1>7. \A p \in H : \A r \in H : p = r
  BY <1>6 DEF LedgerInv, ElementsInv, OneKeyEach
<1>8. q \notin removed => q \in H
  BY DEF LedgerInv, ElementsInv, FoundIsHeld, Add, Holders
<1> HIDE DEF H
<1>9. \A p \in Pids : due'[p] = IF H \subseteq {q} THEN due[p]
                                ELSE IF p = q THEN due[p] - 1
                                ELSE IF p \in H THEN due[p] + 1 ELSE due[p]
  BY <1>3 DEF Booked
<1>10. q \in H => H \subseteq {q}
  BY <1>7
<1>11. FoundIsHeld'
  BY <1>3, <1>4, <1>5 DEF LedgerInv, ElementsInv, FoundIsHeld, Idle
<1>12. OneKeyEach'
  BY <1>3, <1>5 DEF LedgerInv, ElementsInv, OneKeyEach
<1>13. DueIsSent'
  <2>1. ASSUME NEW p \in Pids \ removed PROVE sent[p] <= due'[p]
    <3>1. sent[p] <= due[p] /\ sent[p] \in Nat /\ due[p] \in Int
      BY <1>4 DEF LedgerInv, ElementsInv, DueIsSent
    <3>2. due'[p] = due[p] \/ due'[p] = due[p] + 1
      BY <1>8, <1>9, <1>10
    <3>3. QED
      BY <3>1, <3>2
  <2>2. ASSUME removed = {} PROVE due' = sent
    BY <1>3, <1>8, <1>10, <2>2 DEF LedgerInv, ElementsInv, DueIsSent, Booked
  <2>3. QED
    BY <1>3, <2>1, <2>2 DEF DueIsSent
<1>14. ASSUME NEW p \in Pids PROVE Moves(p)
  <2>1. settled'[p] = settled[p] /\ Lost' = Lost
    BY <1>3 DEF Lost, KernelFrame, ghosts
  <2>2. InFlight(p)' = IF p = q THEN InFlight(p) - 1 ELSE InFlight(p)
    BY <1>2, <1>3, CallEnds DEF LedgerInv
  <2>3. Held(p)' = IF p \in H THEN Held(p) + 1 ELSE Held(p)
    <3>1. CASE p \in H
      BY <1>2, <1>3, <1>4, <1>5, <1>6, <3>1, HeldIs
    <3>2. CASE p \in Keys /\ p \notin H
      <4>1. at[p] # e /\ at[p] \in Elements
        BY <1>4, <3>2 DEF H, Holders
      <4>2. value'[at[p]] = value[at[p]]
        BY <1>3, <1>4, <4>1
      <4>3. QED
        BY <1>3, <1>5, <3>2, <4>2, HeldIs
    <3>3. CASE p \notin Keys
      BY <1>5, <1>6, <3>3, HeldIs
    <3>4. QED
      BY <3>1, <3>2, <3>3
  <2>4. p = q /\ p \notin H => p \in Lost'
    BY <1>8, <2>1 DEF Lost
  <2>5. CASE p = q /\ H \subseteq {q}
    <3>1. Held(p) \in Nat /\ InFlight(p) \in Nat
      BY LedgerTypes, InFlightType DEF LedgerInv
    <3>2. InFlight(p) - 1 <= InFlight(p)
      BY <3>1
    <3>3. QED
      BY <1>9, <2>1, <2>2, <2>3, <2>4, <2>5, <3>2 DEF Moves
  <2>6. CASE p = q /\ ~(H \subseteq {q})
    BY <1>9, <1>10, <2>1, <2>2, <2>3, <2>4, <2>6 DEF Moves
  <2>7. CASE p # q
    BY <1>9, <2>1, <2>2, <2>3, <2>7 DEF Moves
  <2>8. QED
    BY <2>5, <2>6, <2>7
<1>15. QED
  BY <1>1, <1>11, <1>12, <1>13, <1>14, MovesKeepLedger
  DEF ElementsInv, KernelFrame, tickVars, ghosts

\* What taking keys out of the map does to the others.
LEMMA TakenOut ==
  ASSUME NEW S \in SUBSET Keys, at' = Without(S), UNCHANGED value
  PROVE  /\ Keys' = Keys \ S
         /\ \A k \in Keys' : at'[k] = at[k]
         /\ \A p : Held(p)' = IF p \in S THEN 0 ELSE Held(p)
<1>1. Keys' = Keys \ S /\ \A k \in Keys' : at'[k] = at[k]
  BY DEF Without, Keys
<1>2. ASSUME NEW p PROVE Held(p)' = IF p \in S THEN 0 ELSE Held(p)
  BY <1>1, HeldIs
<1>3. QED
  BY <1>1, <1>2

LEMMA LedgerInsert ==
  ASSUME LedgerInv, NEW c \in Cpus, Insert(c), KernelFrame
  PROVE  LedgerInv'
<1> DEFINE q == cpu[c].pid
<1>1. TypeOK'
  BY TypeInsert DEF LedgerInv
<1>2. q \in Pids /\ cpu[c] # Idle
  BY MissedPid DEF LedgerInv, TypeOK, Insert, Idle
<1>3. /\ cpu' = [cpu EXCEPT ![c] = Idle]
      /\ UNCHANGED <<sent, due, settled>>
  BY DEF Insert, KernelFrame, ghosts
<1>4. cpu'[c] = Idle /\ \A d \in Cpus \ {c} : cpu'[d] = cpu[d]
  BY <1>3 DEF LedgerInv, TypeOK, MapTypeOK
<1>5. \A p \in Pids : InFlight(p)' = IF p = q THEN InFlight(p) - 1 ELSE InFlight(p)
  BY <1>2, <1>3, CallEnds DEF LedgerInv
<1>6. PICK S \in SUBSET Keys :
        /\ removed' = removed \cup S
        /\ \/ /\ at' = Without(S)
              /\ refused' = refused \cup {q}
              /\ UNCHANGED value
           \/ /\ q \notin Keys \ S
              /\ \E e \in Elements \ {at[k] : k \in Keys \ S} :
                   /\ at' = [k \in (Keys \ S) \cup {q} |-> IF k = q THEN e ELSE at[k]]
                   /\ value' = [value EXCEPT ![e] = 1]
              /\ UNCHANGED refused
  BY DEF Insert
<1>7. DueIsSent'
  BY <1>3, <1>6 DEF LedgerInv, ElementsInv, DueIsSent
<1>8. \A p \in Pids : InFlight(p) \in Nat /\ InFlight(p) - 1 <= InFlight(p)
  BY InFlightType
<1>9. \A p : /\ p \in Lost => p \in Lost'
             /\ p \in S => p \in Lost'
  BY <1>6 DEF Lost
<1>10. CASE at' = Without(S) /\ refused' = refused \cup {q} /\ UNCHANGED value
  <2>1. /\ Keys' = Keys \ S
        /\ \A k \in Keys' : at'[k] = at[k]
        /\ \A p : Held(p)' = IF p \in S THEN 0 ELSE Held(p)
    BY <1>10, TakenOut
  <2>2. OneKeyEach'
    BY <2>1 DEF LedgerInv, ElementsInv, OneKeyEach
  <2>3. FoundIsHeld'
    BY <1>4, <1>6, <2>1 DEF LedgerInv, ElementsInv, FoundIsHeld, Idle
  <2>4. q \in Lost'
    BY <1>10 DEF Lost
  <2>5. ASSUME NEW p \in Pids PROVE Moves(p)
    <3>1. CASE p = q \/ p \in S
      BY <1>3, <1>5, <1>8, <1>9, <2>1, <2>4, <3>1 DEF Moves
    <3>2. CASE p # q /\ p \notin S
      BY <1>3, <1>5, <1>9, <2>1, <3>2 DEF Moves
    <3>3. QED
      BY <3>1, <3>2
  <2>6. QED
    BY <1>1, <1>7, <2>2, <2>3, <2>5, MovesKeepLedger DEF ElementsInv, KernelFrame, tickVars, ghosts
<1>11. ASSUME q \notin Keys \ S,
              NEW e \in Elements \ {at[k] : k \in Keys \ S},
              at' = [k \in (Keys \ S) \cup {q} |-> IF k = q THEN e ELSE at[k]],
              value' = [value EXCEPT ![e] = 1],
              UNCHANGED refused
       PROVE  LedgerInv'
  <2>1. /\ Keys' = (Keys \ S) \cup {q}
        /\ at'[q] = e
        /\ \A k \in Keys \ S : at'[k] = at[k] /\ at[k] # e /\ at[k] \in Elements
    BY <1>11 DEF LedgerInv, TypeOK, MapTypeOK, Keys
  <2>2. value'[e] = 1 /\ \A f \in Elements \ {e} : value'[f] = value[f]
    BY <1>11 DEF LedgerInv, TypeOK, MapTypeOK
  <2>3. OneKeyEach'
    BY <1>11, <2>1 DEF LedgerInv, ElementsInv, OneKeyEach
  <2>4. FoundIsHeld'
    BY <1>4, <1>6, <1>11, <2>1 DEF LedgerInv, ElementsInv, FoundIsHeld, Idle
  <2>5. ASSUME NEW p \in Pids PROVE Moves(p)
    <3>1. CASE p = q
      <4>1. Held(p)' = 1
        BY <2>1, <2>2, <3>1, HeldIs
      <4>2. CASE q \in Keys
        BY <1>3, <1>5, <1>9, <1>11, <3>1, <4>1, <4>2 DEF Moves
      <4>3. CASE q \notin Keys
        <5>1. Held(p) = 0
          BY <3>1, <4>3, HeldIs
        <5>2. QED
          BY <1>3, <1>5, <1>9, <3>1, <4>1, <5>1 DEF Moves
      <4>4. QED
        BY <4>2, <4>3
    <3>2. CASE p # q /\ p \in S
      <4>1. Held(p)' = 0
        BY <2>1, <3>2, HeldIs
      <4>2. QED
        BY <1>3, <1>5, <1>8, <1>9, <3>2, <4>1 DEF Moves
    <3>3. CASE p # q /\ p \notin S
      <4>1. p \in Keys' <=> p \in Keys
        BY <2>1, <3>3
      <4>2. p \in Keys => at'[p] = at[p] /\ value'[at[p]] = value[at[p]]
        BY <2>1, <2>2, <3>3
      <4>3. Held(p)' = Held(p)
        BY <4>1, <4>2, HeldIs
      <4>4. QED
        BY <1>3, <1>5, <1>9, <3>3, <4>3 DEF Moves
    <3>4. QED
      BY <3>1, <3>2, <3>3
  <2>6. QED
    BY <1>1, <1>7, <2>3, <2>4, <2>5, MovesKeepLedger DEF ElementsInv, KernelFrame, tickVars, ghosts
<1>12. QED
  BY <1>6, <1>10, <1>11

\* forget() is an eviction the daemon asks for.
LEMMA LedgerForget ==
  ASSUME LedgerInv, NEW q \in Pids, Forget(q)
  PROVE  LedgerInv'
<1>1. TypeOK'
  BY TypeForget DEF LedgerInv
<1> DEFINE S == Keys \cap {q}
<1>2. /\ at' = Without({q})
      /\ removed' = removed \cup S
      /\ UNCHANGED <<value, cpu, sent, due, refused, settled>>
  BY DEF Forget, ghosts
<1>3. Without({q}) = Without(S)
  BY DEF Without
<1>4. S \in SUBSET Keys
  OBVIOUS
<1> HIDE DEF S
<1>5. /\ Keys' = Keys \ S
      /\ \A k \in Keys' : at'[k] = at[k]
      /\ \A p : Held(p)' = IF p \in S THEN 0 ELSE Held(p)
  BY <1>2, <1>3, <1>4, TakenOut
<1>6. ElementsInv'
  <2>1. OneKeyEach'
    BY <1>5 DEF LedgerInv, ElementsInv, OneKeyEach
  <2>2. FoundIsHeld'
    BY <1>2, <1>5 DEF LedgerInv, ElementsInv, FoundIsHeld
  <2>3. DueIsSent'
    BY <1>2 DEF LedgerInv, ElementsInv, DueIsSent
  <2>4. QED
    BY <2>1, <2>2, <2>3 DEF ElementsInv
<1>7. ASSUME NEW p \in Pids PROVE Moves(p)
  <2>1. InFlight(p)' = InFlight(p) /\ InFlight(p) \in Nat
    BY <1>2, InFlightType DEF InFlight
  <2>2. (p \in Lost => p \in Lost') /\ (p \in S => p \in Lost')
    BY <1>2 DEF Lost
  <2>3. QED
    BY <1>2, <1>5, <2>1, <2>2 DEF Moves
<1>8. QED
  BY <1>1, <1>6, <1>7, MovesKeepLedger DEF Forget, ghosts

-----------------------------------------------------------------------------
(* The daemon's steps. *)

\* The map stays as it is: what balanced with some waiting bytes and base still does.
LEMMA StillBalances ==
  ASSUME UNCHANGED mapVars, NEW p, settled'[p] = settled[p]
  PROVE  /\ Held(p)' = Held(p) /\ InFlight(p)' = InFlight(p) /\ due'[p] = due[p]
         /\ Lost' = Lost /\ Keys' = Keys
  BY DEF mapVars, Held, Counter, traffic, InFlight, Lost, Keys

LEMMA ElementsSame ==
  ASSUME LedgerInv, UNCHANGED mapVars
  PROVE  ElementsInv'
  BY DEF LedgerInv, mapVars, ElementsInv, OneKeyEach, FoundIsHeld, DueIsSent, Keys

\* What the walk leaves behind without a sample had no counter.
LEMMA PassedWithout ==
  ASSUME TypeOK, NEW p \in Pids, p \notin Keys, Balances(p, 0, Before(p))
  PROVE  Balances(p, 0, 0) /\ (p \notin Lost => Before(p) = 0)
<1>1. Held(p) = 0
  BY HeldIs
<1>2. Delta(0, Before(p)) = 0 /\ Delta(0, 0) = 0 /\ Before(p) \in Nat
  BY LedgerTypes, DeltaFacts
<1>3. QED
  BY <1>1, <1>2 DEF Balances

LEMMA SampleTypes ==
  ASSUME TypeOK, NEW i \in 1..Len(samples)
  PROVE  samples[i].pid \in Pids /\ samples[i].count \in Nat /\ samples[i].pid \in SampledPids
<1>1. samples[i] \in Samples
  BY ElementOfSeq DEF TypeOK, Samples
<1>2. QED
  BY <1>1 DEF Samples, SampledPids

\* The bytes in a sample and those counted after it are the ones outstanding.
LEMMA SampleAndRest ==
  ASSUME TypeOK, NEW i \in 1..Len(samples), SampleBalances(i)
  PROVE  Balances(samples[i].pid, 0, Before(samples[i].pid))
<1>1. SUFFICES ASSUME NEW p \in Pids, NEW n \in Nat,
                      Balances(p, Delta(n, Before(p)), n), p \notin Lost => Before(p) <= n
               PROVE  Balances(p, 0, Before(p))
  BY SampleTypes DEF SampleBalances
<1>2. /\ Held(p) \in Nat /\ Before(p) \in Nat /\ settled[p] \in Nat /\ due[p] \in Int
      /\ InFlight(p) \in Nat
  BY LedgerTypes, InFlightType
<1>3. /\ Delta(n, Before(p)) \in Nat /\ Delta(Held(p), n) \in Nat
      /\ Delta(Held(p), Before(p)) \in Nat
  BY <1>2, DeltaType
<1>4. Delta(Held(p), Before(p)) <= Delta(n, Before(p)) + Delta(Held(p), n)
  BY <1>2, DeltaFacts
<1>5. Before(p) <= n /\ n <= Held(p) =>
        Delta(Held(p), Before(p)) = Delta(n, Before(p)) + Delta(Held(p), n)
  BY <1>2, DeltaFacts
<1>6. settled[p] + 0 + Delta(Held(p), Before(p)) + InFlight(p) <= due[p]
  <2>1. settled[p] + Delta(n, Before(p)) + Delta(Held(p), n) + InFlight(p) <= due[p]
    BY <1>1 DEF Balances
  <2>2. \A s, x, y, z, f \in Nat, t \in Int : s + x + y + f <= t /\ z <= x + y => s + 0 + z + f <= t
    OBVIOUS
  <2>3. QED
    BY <1>2, <1>3, <1>4, <2>1, <2>2
<1>7. ASSUME p \notin Lost
      PROVE  /\ Before(p) <= Held(p)
             /\ settled[p] + 0 + Delta(Held(p), Before(p)) + InFlight(p) = due[p]
  BY <1>1, <1>2, <1>3, <1>5, <1>7 DEF Balances
<1>8. QED
  BY <1>6, <1>7 DEF Balances

LEMMA LedgerPollStarts ==
  ASSUME LedgerInv, PollStarts
  PROVE  LedgerInv'
<1>1. TypeOK'
  BY TypeWalk DEF LedgerInv
<1>2. ElementsInv' /\ NothingBeforeBaseline'
  BY ElementsSame DEF LedgerInv, NothingBeforeBaseline, PollStarts, mapVars
<1>3. SUFFICES ASSUME ~disturbed
               PROVE  InOrder' /\ SampledBalance' /\ UnsampledBalance'
  BY <1>1, <1>2 DEF LedgerInv, PollStarts
<1>4. Len(samples') = 0 /\ 1..Len(samples') = {}
  BY DEF PollStarts
<1>5. InOrder' /\ SampledBalance'
  BY <1>4 DEF InOrder, SampledBalance
<1>6. ASSUME NEW p \in Pids PROVE ~Passed(p)' /\ ~Passed(p)
  BY PidsAssumption DEF PollStarts, Passed
<1>7. ASSUME NEW p \in Pids PROVE Balances(p, 0, Base(p))'
  <2>1. Balances(p, 0, Base(p))
    BY <1>3 DEF LedgerInv, UnsampledBalance, Walking, PollStarts
  <2>2. Base(p) = Before(p) /\ Base(p)' = Before(p)
    BY <1>6 DEF Base, Before, PollStarts
  <2>3. QED
    BY <2>1, <2>2, StillBalances DEF Balances, Delta, PollStarts
<1>8. UnsampledBalance'
  BY <1>6, <1>7 DEF UnsampledBalance
<1>9. QED
  BY <1>5, <1>8

LEMMA LedgerNextKey ==
  ASSUME LedgerInv, NextKey
  PROVE  LedgerInv'
<1>1. TypeOK'
  BY TypeWalk DEF LedgerInv
<1>2. ElementsInv' /\ NothingBeforeBaseline'
  BY ElementsSame DEF LedgerInv, NothingBeforeBaseline, NextKey, mapVars
<1>3. SUFFICES ASSUME ~disturbed'
               PROVE  InOrder' /\ SampledBalance' /\ UnsampledBalance'
  BY <1>1, <1>2 DEF LedgerInv
<1>4. /\ phase = "key" /\ phase' = "value" /\ ~disturbed /\ cursor \in Keys \cup {0}
      /\ UNCHANGED <<mapVars, samples, previous, current, settled>>
  BY <1>3 DEF NextKey
<1>5. /\ cursor \in Nat /\ cursor' \in Keys /\ cursor' \in Nat /\ cursor < cursor'
      /\ \A p \in Keys : p <= cursor \/ cursor' <= p
  <2>1. cursor' \in KeysAhead /\ \A k \in KeysAhead : cursor' <= k
    BY DEF NextKey
  <2>2. Keys \subseteq Nat \ {0} /\ cursor \in Nat
    BY PidsAssumption DEF LedgerInv, TypeOK, MapTypeOK
  <2>3. KeysAhead = {k \in Keys : k > cursor}
    <3>1. CASE cursor \in Keys
      BY <3>1 DEF KeysAhead
    <3>2. CASE cursor = 0
      <4>1. 0 \notin Keys /\ \A k \in Keys : k > 0
        BY <2>2
      <4>2. KeysAhead = Keys
        BY <3>2, <4>1 DEF KeysAhead
      <4>3. QED
        BY <3>2, <4>1, <4>2
    <3>3. QED
      BY <1>4, <3>1, <3>2
  <2>4. QED
    BY <2>1, <2>2, <2>3
<1>6. InOrder /\ SampledBalance /\ UnsampledBalance
  BY <1>4 DEF LedgerInv
<1>7. ASSUME NEW p \in Pids
      PROVE  /\ Passed(p) => Passed(p)'
             /\ Passed(p) <=> p <= cursor
             /\ Passed(p)' <=> p < cursor'
             /\ Passed(p)' /\ ~Passed(p) => p \notin Keys
  BY <1>4, <1>5, PidsAssumption DEF Passed
<1>8. Len(samples') = Len(samples) /\ SampledPids' = SampledPids
  BY <1>4 DEF SampledPids
<1>9. InOrder'
  BY <1>4, <1>6, <1>7, SampleTypes DEF LedgerInv, InOrder, Walking
<1>10. \A p : Before(p)' = Before(p)
  BY <1>4 DEF Before
<1>11. SampledBalance'
  BY <1>4, <1>6, <1>10, StillBalances
  DEF SampledBalance, SampleBalances, Walking, Balances, Delta
<1>12. ASSUME NEW p \in Pids, p \notin SampledPids
       PROVE  /\ Balances(p, 0, Base(p))'
              /\ Passed(p)' /\ p \notin Lost => Before(p) = 0
  <2>1. /\ Balances(p, 0, Base(p))
        /\ Passed(p) /\ p \notin Lost => Before(p) = 0
    BY <1>4, <1>6, <1>12 DEF UnsampledBalance
  <2>2. /\ Base(p) = IF Passed(p) THEN 0 ELSE Before(p)
        /\ Base(p)' = IF Passed(p)' THEN 0 ELSE Before(p)
    BY <1>4, <1>10 DEF Base
  <2>3. CASE Passed(p) \/ ~Passed(p)'
    <3>1. Base(p)' = Base(p)
      BY <1>7, <2>2, <2>3
    <3>2. QED
      BY <1>4, <1>7, <2>1, <2>3, <3>1, StillBalances DEF Balances, Delta
  <2>4. CASE ~Passed(p) /\ Passed(p)'
    <3>1. Balances(p, 0, 0) /\ (p \notin Lost => Before(p) = 0)
      BY <1>7, <2>1, <2>2, <2>4, PassedWithout DEF LedgerInv
    <3>2. QED
      BY <1>4, <2>2, <2>4, <3>1, StillBalances DEF Balances, Delta
  <2>5. QED
    BY <2>3, <2>4
<1>13. UnsampledBalance'
  BY <1>4, <1>8, <1>10, <1>12 DEF UnsampledBalance, Walking, mapVars, Lost
<1>14. QED
  BY <1>9, <1>11, <1>13

LEMMA LedgerFindValue ==
  ASSUME LedgerInv, FindValue
  PROVE  LedgerInv'
<1>1. TypeOK'
  BY TypeWalk DEF LedgerInv
<1>2. ElementsInv' /\ NothingBeforeBaseline'
  BY ElementsSame DEF LedgerInv, NothingBeforeBaseline, FindValue, ghosts
<1>3. SUFFICES ASSUME ~disturbed
               PROVE  InOrder' /\ SampledBalance' /\ UnsampledBalance'
  BY <1>1, <1>2 DEF LedgerInv, FindValue, ghosts
<1>4. /\ phase = "value"
      /\ phase' = IF cursor \in Keys THEN "copy" ELSE "key"
      /\ UNCHANGED <<mapVars, cursor, samples, previous, current, settled>>
  BY DEF FindValue, ghosts
<1>5. InOrder /\ SampledBalance /\ UnsampledBalance
  BY <1>3 DEF LedgerInv
<1>6. cursor \in Nat
  BY PidsAssumption DEF LedgerInv, TypeOK
<1>7. ASSUME NEW p \in Pids
      PROVE  /\ Passed(p) <=> p < cursor
             /\ Passed(p)' <=> p < cursor \/ (cursor \notin Keys /\ p = cursor)
             /\ Base(p) = IF Passed(p) THEN 0 ELSE Before(p)
             /\ Base(p)' = IF Passed(p)' THEN 0 ELSE Before(p)
             /\ Before(p)' = Before(p)
  BY <1>4, <1>6, PidsAssumption DEF Passed, Base, Before
<1>8. SampledPids' = SampledPids /\ Lost' = Lost /\ \A p : Before(p)' = Before(p)
  BY <1>4 DEF SampledPids, Before, mapVars, Lost
<1>9. InOrder'
  BY <1>4, <1>5, <1>7, SampleTypes DEF LedgerInv, InOrder, Walking
<1>10. SampledBalance'
  BY <1>4, <1>5, <1>8, StillBalances
  DEF SampledBalance, SampleBalances, Walking, Balances, Delta
<1>11. ASSUME NEW p \in Pids, p \notin SampledPids
       PROVE  /\ Balances(p, 0, Base(p))'
              /\ Passed(p)' /\ p \notin Lost => Before(p) = 0
  <2>1. /\ Balances(p, 0, Base(p))
        /\ Passed(p) /\ p \notin Lost => Before(p) = 0
    BY <1>4, <1>5, <1>11 DEF UnsampledBalance
  <2>2. CASE Passed(p)' <=> Passed(p)
    <3>1. Base(p)' = Base(p)
      BY <1>7, <2>2
    <3>2. QED
      BY <1>4, <2>1, <2>2, <3>1, StillBalances DEF Balances, Delta
  <2>3. CASE p = cursor /\ p \notin Keys
    <3>1. ~Passed(p) /\ Passed(p)'
      BY <1>6, <1>7, <2>3
    <3>2. Balances(p, 0, 0) /\ (p \notin Lost => Before(p) = 0)
      BY <1>7, <2>1, <2>3, <3>1, PassedWithout DEF LedgerInv
    <3>3. Base(p)' = 0
      BY <1>7, <3>1
    <3>4. QED
      BY <1>4, <3>2, <3>3, StillBalances DEF Balances, Delta
  <2>4. QED
    BY <1>7, <2>2, <2>3
<1>12. UnsampledBalance'
  BY <1>4, <1>8, <1>11 DEF UnsampledBalance, Walking
<1>13. QED
  BY <1>9, <1>10, <1>12

LEMMA LedgerCopyValue ==
  ASSUME LedgerInv, CopyValue
  PROVE  LedgerInv'
<1>1. TypeOK'
  BY TypeWalk DEF LedgerInv
<1>2. ElementsInv' /\ NothingBeforeBaseline'
  BY ElementsSame DEF LedgerInv, NothingBeforeBaseline, CopyValue
<1>3. SUFFICES ASSUME ~disturbed'
               PROVE  InOrder' /\ SampledBalance' /\ UnsampledBalance'
  BY <1>1, <1>2 DEF LedgerInv, CopyValue
<1>4. /\ phase = "copy" /\ phase' = "key" /\ ~disturbed
      /\ cursor \in Keys /\ at[cursor] = slot
      /\ UNCHANGED <<mapVars, cursor, previous, current, settled>>
  BY <1>3 DEF CopyValue, Holders
<1>5. InOrder /\ SampledBalance /\ UnsampledBalance
  BY <1>4 DEF LedgerInv
<1>6. cursor \in Nat
  BY PidsAssumption DEF LedgerInv, TypeOK
<1>7. ASSUME NEW p \in Pids
      PROVE  /\ Passed(p) <=> p < cursor
             /\ Passed(p)' <=> p <= cursor
             /\ Base(p) = IF Passed(p) THEN 0 ELSE Before(p)
             /\ Base(p)' = IF Passed(p)' THEN 0 ELSE Before(p)
             /\ Before(p)' = Before(p)
  BY <1>4 DEF Passed, Base, Before
<1>8. \A i \in 1..Len(samples) : samples[i].pid \in Nat /\ samples[i].pid < cursor
  BY <1>4, <1>5, <1>7, SampleTypes, PidsAssumption DEF LedgerInv, InOrder, Walking
<1>9. cursor \notin SampledPids
  BY <1>6, <1>8 DEF SampledPids
\* A pid without a sample that is not under the cursor.
<1>10. ASSUME NEW p \in Pids, p \notin SampledPids, p # cursor
       PROVE  /\ Balances(p, 0, Base(p))'
              /\ Passed(p)' /\ p \notin Lost => Before(p) = 0
  <2>1. Passed(p)' <=> Passed(p)
    BY <1>6, <1>7, <1>10, PidsAssumption
  <2>2. /\ Balances(p, 0, Base(p))
        /\ Passed(p) /\ p \notin Lost => Before(p) = 0
    BY <1>4, <1>5, <1>10 DEF UnsampledBalance
  <2>3. Base(p)' = Base(p)
    BY <1>7, <2>1
  <2>4. QED
    BY <1>4, <2>1, <2>2, <2>3, StillBalances DEF Balances, Delta
<1> DEFINE x == [pid |-> cursor, count |-> value[slot]]
<1>12. x \in Samples /\ samples \in Seq(Samples) /\ cursor \in Pids
  BY <1>4 DEF LedgerInv, TypeOK, MapTypeOK, Samples
<1>13. samples' = Append(samples, x)
  BY DEF CopyValue
<1>14. /\ Len(samples) \in Nat /\ Len(samples') = Len(samples) + 1
       /\ \A n \in 1..Len(samples) : samples'[n] = samples[n]
       /\ samples'[Len(samples) + 1] = x
  BY <1>12, <1>13, AppendedSamples, LenProperties
<1>15. SampledPids' = SampledPids \cup {cursor}
  <2>1. 1..Len(samples') = 1..Len(samples) \cup {Len(samples) + 1}
    BY <1>14
  <2>2. /\ \A n \in 1..Len(samples) : samples'[n].pid = samples[n].pid
        /\ samples'[Len(samples) + 1].pid = cursor
    BY <1>14
  <2>3. SampledPids' = {samples'[n].pid : n \in 1..Len(samples')}
    BY DEF SampledPids
  <2>4. SampledPids = {samples[n].pid : n \in 1..Len(samples)}
    BY DEF SampledPids
  <2>5. QED
    BY <2>1, <2>2, <2>3, <2>4
<1>16. InOrder'
  <2>1. ASSUME NEW i \in 1..Len(samples'), NEW j \in 1..Len(samples'), i < j
        PROVE  samples'[i].pid < samples'[j].pid
    <3>1. CASE j \in 1..Len(samples)
      <4>1. i \in 1..Len(samples)
        BY <1>14, <2>1, <3>1
      <4>2. QED
        BY <1>4, <1>5, <1>14, <2>1, <3>1, <4>1 DEF InOrder, Walking
    <3>2. CASE j = Len(samples) + 1
      <4>1. i \in 1..Len(samples)
        BY <1>14, <2>1, <3>2
      <4>2. QED
        BY <1>8, <1>14, <3>2, <4>1
    <3>3. QED
      BY <1>14, <3>1, <3>2
  <2>2. ASSUME NEW i \in 1..Len(samples') PROVE Passed(samples[i].pid)'
    <3>1. CASE i \in 1..Len(samples)
      BY <1>4, <1>6, <1>8, <1>14, <3>1 DEF Passed
    <3>2. CASE i = Len(samples) + 1
      <4>1. samples'[i].pid = cursor
        BY <1>14, <3>2
      <4>2. QED
        BY <1>4, <1>6, <4>1 DEF Passed
    <3>3. QED
      BY <1>14, <3>1, <3>2
  <2>3. QED
    BY <2>1, <2>2 DEF InOrder
<1>17. ASSUME NEW i \in 1..Len(samples') PROVE SampleBalances(i)'
  <2>1. CASE i \in 1..Len(samples)
    <3>1. SampleBalances(i)
      BY <1>4, <1>5, <2>1 DEF SampledBalance, Walking
    <3>2. samples'[i] = samples[i] /\ Before(samples[i].pid)' = Before(samples[i].pid)
      BY <1>4, <1>14, <2>1 DEF Before
    <3>3. QED
      BY <1>4, <3>1, <3>2, StillBalances DEF SampleBalances, Balances, Delta
  <2>2. CASE i = Len(samples) + 1
    <3>11. samples'[i] = x
      BY <1>14, <2>2
    <3>12. Held(cursor) = value[slot]
      BY <1>4, HeldIs
    <3>1. samples'[i].pid = cursor /\ samples'[i].count = Held(cursor)
      BY <3>11, <3>12
    <3>2. Balances(cursor, 0, Before(cursor))
      BY <1>4, <1>5, <1>6, <1>7, <1>9, <1>12 DEF UnsampledBalance
    <3>3. Held(cursor) \in Nat /\ Before(cursor) \in Nat
      BY <1>12, LedgerTypes DEF LedgerInv
    <3>4. Delta(Held(cursor), Held(cursor)) = 0
      BY <3>3, DeltaFacts
    <3>5. Delta(Held(cursor), Before(cursor)) \in Nat
      BY <3>3, DeltaType
    <3>6. settled[cursor] \in Nat /\ InFlight(cursor) \in Nat /\ due[cursor] \in Int
      BY <1>12, LedgerTypes, InFlightType DEF LedgerInv
    <3>7. /\ Balances(cursor, Delta(Held(cursor), Before(cursor)), Held(cursor))
          /\ cursor \notin Lost => Before(cursor) <= Held(cursor)
      BY <3>2, <3>3, <3>4, <3>5, <3>6 DEF Balances
    <3>8. Before(samples[i].pid)' = Before(cursor) /\ Held(samples[i].pid)' = Held(cursor)
      BY <1>4, <3>1, StillBalances DEF Before
    <3>9. InFlight(samples[i].pid)' = InFlight(cursor) /\ Lost' = Lost /\ UNCHANGED <<due, settled>>
      BY <1>4, <3>1 DEF mapVars, InFlight, Lost
    <3>10. QED
      BY <3>1, <3>7, <3>8, <3>9 DEF SampleBalances, Balances, Delta
  <2>3. QED
    BY <1>14, <2>1, <2>2
<1>18. SampledBalance'
  BY <1>17 DEF SampledBalance
<1>19. UnsampledBalance'
  <2>1. Lost' = Lost
    BY <1>4 DEF mapVars, Lost
  <2>2. QED
    BY <1>4, <1>7, <1>10, <1>15, <2>1 DEF UnsampledBalance, Walking
<1>20. QED
  BY <1>16, <1>18, <1>19

LEMMA LedgerPollEnds ==
  ASSUME LedgerInv, PollEnds
  PROVE  LedgerInv'
<1>1. TypeOK'
  BY TypeWalk DEF LedgerInv
<1>2. ElementsInv' /\ NothingBeforeBaseline'
  BY ElementsSame DEF LedgerInv, NothingBeforeBaseline, PollEnds, mapVars, ghosts
<1>3. SUFFICES ASSUME ~disturbed
               PROVE  InOrder' /\ SampledBalance' /\ UnsampledBalance'
  BY <1>1, <1>2 DEF LedgerInv, PollEnds, ghosts
<1>4. /\ phase = "key" /\ phase' = "update" /\ current' = NoCounters
      /\ UNCHANGED <<mapVars, cursor, samples, previous, settled>>
  BY DEF PollEnds, ghosts
<1>5. InOrder /\ SampledBalance /\ UnsampledBalance
  BY <1>3 DEF LedgerInv
<1>6. SampledPids' = SampledPids /\ Lost' = Lost /\ \A p : Before(p)' = Before(p)
  BY <1>4 DEF SampledPids, Before, mapVars, Lost
<1>7. ASSUME NEW p
      PROVE  /\ Base(p) = IF Passed(p) THEN 0 ELSE Before(p)
             /\ Base(p)' = 0 /\ Passed(p)'
  BY <1>4 DEF Base, Passed, Counter, NoCounters
<1>8. ASSUME NEW p \in Keys PROVE Passed(p)
  <2>1. p \in Nat /\ cursor \in Nat
    BY PidsAssumption DEF LedgerInv, TypeOK, MapTypeOK
  <2>2. ~(p > cursor)
    BY <1>4 DEF PollEnds, KeysAhead
  <2>3. QED
    BY <1>4, <2>1, <2>2 DEF Passed
<1>9. InOrder'
  BY <1>4, <1>5, <1>7 DEF InOrder, Walking
<1>10. SampledBalance'
  BY <1>4, <1>5, <1>6, StillBalances
  DEF SampledBalance, SampleBalances, Walking, Balances, Delta
<1>11. ASSUME NEW p \in Pids, p \notin SampledPids
       PROVE  Balances(p, 0, Base(p))' /\ (p \notin Lost => Before(p) = 0)
  <2>1. /\ Balances(p, 0, Base(p))
        /\ Passed(p) /\ p \notin Lost => Before(p) = 0
    BY <1>4, <1>5, <1>11 DEF UnsampledBalance
  <2>2. Balances(p, 0, 0) /\ (p \notin Lost => Before(p) = 0)
    <3>1. CASE Passed(p)
      BY <1>7, <2>1, <3>1
    <3>2. CASE ~Passed(p)
      BY <1>7, <1>8, <2>1, <3>2, PassedWithout DEF LedgerInv
    <3>3. QED
      BY <3>1, <3>2
  <2>3. QED
    BY <1>4, <1>7, <2>2, StillBalances DEF Balances, Delta
<1>12. UnsampledBalance'
  BY <1>4, <1>6, <1>11 DEF UnsampledBalance, Walking
<1>13. QED
  BY <1>9, <1>10, <1>12

\* Outside the walk the ledger is that every counter balances with the one before.
LEMMA LedgerAtRest ==
  ASSUME TypeOK', ElementsInv', NothingBeforeBaseline', ~Walking',
         ~disturbed' => \A p \in Pids : Balances(p, 0, Before(p))'
  PROVE  LedgerInv'
<1>1. \A p : ~Passed(p)' /\ Base(p)' = Before(p)'
  BY DEF Walking, Passed, Base
<1>2. ~disturbed' => UnsampledBalance'
  BY <1>1 DEF UnsampledBalance, Balances, Delta
<1>3. QED
  BY <1>2 DEF LedgerInv, InOrder, SampledBalance

LEMMA LedgerInit == Init => LedgerInv
<1> SUFFICES ASSUME Init PROVE LedgerInv
  OBVIOUS
<1>1. TypeOK
  BY TypeInit
<1>2. ElementsInv /\ NothingBeforeBaseline /\ ~Walking
  BY DEF Init, MapInit, Idle, ElementsInv, OneKeyEach, FoundIsHeld, DueIsSent, Keys,
         NothingBeforeBaseline, Walking
<1>3. ASSUME NEW p \in Pids PROVE Balances(p, 0, Base(p)) /\ ~Passed(p)
  <2>1. Flying(p) = {}
    BY PidsAssumption DEF Init, MapInit, Idle, Flying
  <2>2. InFlight(p) = 0
    BY <2>1, InFlightType, FS_EmptySet
  <2>3. /\ Held(p) = 0 /\ Base(p) = 0 /\ ~Passed(p)
        /\ settled[p] = 0 /\ due[p] = 0
    BY HeldIs DEF Init, MapInit, Keys, Base, Before, Passed, Counter, NoCounters
  <2>4. QED
    BY <2>2, <2>3 DEF Balances, Delta
<1>4. QED
  BY <1>1, <1>2, <1>3 DEF LedgerInv, InOrder, SampledBalance, UnsampledBalance

\* The samples are dropped: what was waiting in one is in the counter again.
LEMMA LedgerTooSoon ==
  ASSUME LedgerInv, TooSoon
  PROVE  LedgerInv'
<1>1. TypeOK'
  BY TypeTickRest DEF LedgerInv
<1>2. ElementsInv' /\ NothingBeforeBaseline' /\ ~Walking'
  BY ElementsSame DEF LedgerInv, NothingBeforeBaseline, TooSoon, mapVars, Walking
<1>3. ASSUME ~disturbed, NEW p \in Pids PROVE Balances(p, 0, Before(p))'
  <2>1. /\ phase = "update" /\ current = NoCounters
        /\ UNCHANGED <<mapVars, previous, settled>>
    BY DEF TooSoon
  <2>2. SampledBalance /\ UnsampledBalance
    BY <1>3 DEF LedgerInv
  <2>3. /\ Held(p) \in Nat /\ Before(p) \in Nat /\ settled[p] \in Nat /\ due[p] \in Int
        /\ InFlight(p) \in Nat
    BY LedgerTypes, InFlightType DEF LedgerInv
  <2>4. Delta(Held(p), Before(p)) \in Nat
    BY <2>3, DeltaType
  <2>5. Balances(p, 0, Before(p))
    <3>1. CASE p \notin SampledPids
      <4>1. Base(p) = 0 /\ Passed(p) /\ p \notin DOMAIN current
        BY <2>1 DEF Base, Passed, Counter, NoCounters
      <4>2. Balances(p, 0, 0) /\ (p \notin Lost => Before(p) = 0)
        BY <2>2, <3>1, <4>1 DEF UnsampledBalance
      <4>3. Delta(Held(p), 0) = Held(p) /\ Delta(Held(p), Before(p)) <= Held(p)
        BY <2>3 DEF Delta
      <4>4. QED
        BY <2>3, <2>4, <4>2, <4>3 DEF Balances
    <3>2. CASE p \in SampledPids
      <4>1. PICK i \in 1..Len(samples) : samples[i].pid = p
        BY <3>2 DEF SampledPids
      <4>2. SampleBalances(i)
        BY <2>1, <2>2 DEF SampledBalance, Walking
      <4>3. QED
        BY <4>1, <4>2, SampleAndRest DEF LedgerInv
    <3>3. QED
      BY <3>1, <3>2
  <2>6. Before(p)' = Before(p)
    BY <2>1 DEF Before
  <2>7. QED
    BY <2>1, <2>5, <2>6, StillBalances DEF Balances, Delta
<1>4. QED
  BY <1>1, <1>2, <1>3, LedgerAtRest DEF TooSoon

\* Before the baseline nothing was settled, so what the samples hold is settled now.
LEMMA LedgerBaseline ==
  ASSUME LedgerInv, Baseline
  PROVE  LedgerInv'
<1>1. TypeOK'
  BY TypeBaseline DEF LedgerInv
<1>2. ElementsInv' /\ NothingBeforeBaseline' /\ ~Walking'
  BY ElementsSame DEF LedgerInv, NothingBeforeBaseline, Baseline, mapVars, Walking
<1>3. ASSUME ~disturbed, NEW p \in Pids PROVE Balances(p, 0, Before(p))'
  <2>1. /\ phase = "update" /\ ~ticked /\ UNCHANGED mapVars
        /\ previous' = [q \in SampledPids |-> LastCount(q)]
        /\ settled' = [q \in Pids |-> Counter(previous', q)]
    BY DEF Baseline
  <2>2. /\ SampledBalance /\ UnsampledBalance
        /\ previous = NoCounters /\ current = NoCounters /\ settled[p] = 0
    BY <1>3, <2>1 DEF LedgerInv, NothingBeforeBaseline
  <2>3. /\ Held(p)' = Held(p) /\ InFlight(p)' = InFlight(p) /\ due'[p] = due[p]
        /\ Lost' = Lost
    BY <2>1 DEF mapVars, Held, Counter, traffic, Keys, InFlight, Lost
  <2>4. Held(p) \in Nat /\ due[p] \in Int /\ InFlight(p) \in Nat
    BY LedgerTypes, InFlightType DEF LedgerInv
  <2>5. Before(p) = 0 /\ settled'[p] = Before(p)'
    BY <2>1, <2>2 DEF Before, Counter, NoCounters
  <2>6. CASE p \notin SampledPids
    <3>1. Base(p) = 0 /\ Before(p)' = 0
      BY <2>1, <2>2, <2>6 DEF Base, Passed, Before, Counter, NoCounters
    <3>2. Balances(p, 0, 0)
      BY <2>2, <2>6, <3>1 DEF UnsampledBalance
    <3>3. QED
      BY <2>2, <2>3, <2>5, <3>1, <3>2 DEF Balances, Delta
  <2>7. CASE p \in SampledPids
    <3>1. PICK i \in 1..Len(samples) : samples[i].pid = p /\ LastCount(p) = samples[i].count
      BY <2>7, LastCountOccurs DEF LedgerInv, TypeOK, Samples
    <3> DEFINE n == samples[i].count
    <3>2. n \in Nat /\ Before(p)' = n
      BY <2>1, <2>7, <3>1, SampleTypes DEF LedgerInv, Before, Counter
    <3>3. Balances(p, Delta(n, 0), n)
      BY <2>1, <2>2, <2>5, <3>1 DEF SampledBalance, SampleBalances, Walking
    <3>4. Delta(n, 0) = n /\ Delta(Held(p), n) \in Nat
      BY <2>4, <3>2, DeltaFacts, DeltaType
    <3> HIDE DEF n
    <3>5. Balances(p, n, n)
      BY <3>3, <3>4
    <3>6. QED
      BY <2>2, <2>3, <2>4, <2>5, <3>2, <3>4, <3>5 DEF Balances, Delta
  <2>8. QED
    BY <2>6, <2>7
<1>4. QED
  BY <1>1, <1>2, <1>3, LedgerAtRest DEF Baseline

LEMMA LedgerTakeSample ==
  ASSUME LedgerInv, TakeSample
  PROVE  LedgerInv'
<1> DEFINE q == samples[1].pid
           n == samples[1].count
<1>1. TypeOK'
  BY TypeTakeSample DEF LedgerInv
<1>2. ElementsInv' /\ NothingBeforeBaseline'
  BY ElementsSame DEF LedgerInv, NothingBeforeBaseline, TakeSample
<1>3. SUFFICES ASSUME ~disturbed
               PROVE  InOrder' /\ SampledBalance' /\ UnsampledBalance'
  BY <1>1, <1>2 DEF LedgerInv, TakeSample
<1>4. /\ samples \in Seq(Samples) /\ samples # <<>>
      /\ settled \in [Pids -> Nat]
  BY DEF LedgerInv, TypeOK, Samples, TakeSample
<1>5. /\ Head(samples) = samples[1] /\ Len(samples) \in Nat \ {0}
      /\ Len(samples') = Len(samples) - 1
      /\ \A i \in 1..Len(samples') : samples'[i] = samples[i + 1]
  BY <1>4, RemainingSamples DEF TakeSample
<1>6. 1 \in 1..Len(samples) /\ \A i \in 1..Len(samples') : i + 1 \in 1..Len(samples)
  BY <1>5
<1>7. q \in Pids /\ n \in Nat /\ q \in SampledPids
  BY <1>6, SampleTypes DEF LedgerInv
<1>8. /\ phase = "update" /\ phase' = "update"
      /\ current' = With(current, samples[1])
      /\ settled' = [settled EXCEPT ![q] = @ + Delta(n, Before(q))]
      /\ UNCHANGED <<mapVars, previous>>
  BY <1>5 DEF TakeSample, Before
<1>9. InOrder /\ SampledBalance /\ UnsampledBalance
  BY <1>3 DEF LedgerInv
<1>10. /\ \A p : Passed(p) /\ Passed(p)' /\ Before(p)' = Before(p)
       /\ Lost' = Lost /\ Walking /\ Walking'
  BY <1>8 DEF Passed, Before, mapVars, Lost, Walking
<1>11. \A i \in 1..Len(samples') : samples[i + 1].pid \in Pids /\ samples[i + 1].pid # q
  <2>1. SUFFICES ASSUME NEW i \in 1..Len(samples')
                 PROVE  samples[i + 1].pid \in Pids /\ samples[i + 1].pid # q
    OBVIOUS
  <2>2. 1 < i + 1 /\ i + 1 \in 1..Len(samples)
    BY <1>6
  <2>3. q < samples[i + 1].pid
    BY <1>6, <1>9, <1>10, <2>2 DEF InOrder
  <2>4. samples[i + 1].pid \in Pids
    BY <2>2, SampleTypes DEF LedgerInv
  <2>5. q \in Nat /\ samples[i + 1].pid \in Nat
    BY <1>7, <2>4, PidsAssumption
  <2>6. QED
    BY <2>3, <2>4, <2>5
<1>12. InOrder'
  <2>1. ASSUME NEW i \in 1..Len(samples'), NEW j \in 1..Len(samples'), i < j
        PROVE  samples'[i].pid < samples'[j].pid
    <3>1. i + 1 < j + 1
      BY <1>5, <2>1
    <3>2. QED
      BY <1>5, <1>6, <1>9, <1>10, <3>1 DEF InOrder
  <2>2. QED
    BY <1>10, <2>1 DEF InOrder
<1>13. ASSUME NEW i \in 1..Len(samples') PROVE SampleBalances(i)'
  <2>1. SampleBalances(i + 1)
    BY <1>6, <1>9, <1>10 DEF SampledBalance
  <2>2. /\ samples'[i] = samples[i + 1]
        /\ settled'[samples[i + 1].pid] = settled[samples[i + 1].pid]
    BY <1>4, <1>5, <1>8, <1>11
  <2>3. QED
    BY <1>8, <1>10, <2>1, <2>2, StillBalances DEF SampleBalances, Balances, Delta
<1>14. SampledBalance'
  BY <1>13 DEF SampledBalance
<1>15. ASSUME NEW p \in SampledPids, p # q PROVE p \in SampledPids'
  <2>1. PICK j \in 1..Len(samples) : samples[j].pid = p
    BY DEF SampledPids
  <2>2. j - 1 \in 1..Len(samples') /\ samples'[j - 1] = samples[j]
    BY <1>5, <1>15, <2>1
  <2>3. QED
    BY <2>1, <2>2 DEF SampledPids
<1>16. ASSUME NEW p \in Pids, p \notin SampledPids'
       PROVE  /\ Balances(p, 0, Base(p))'
              /\ p \notin Lost /\ p \notin DOMAIN current' => Before(p) = 0
  <2>1. Base(p)' = IF p = q THEN n ELSE Counter(current, p)
    BY <1>8 DEF Base, Passed, Counter, With
  <2>2. DOMAIN current' = DOMAIN current \cup {q}
    BY <1>8 DEF With
  <2>3. CASE p = q
    <3>1. Balances(p, Delta(n, Before(p)), n)
      BY <1>6, <1>9, <1>10, <2>3 DEF SampledBalance, SampleBalances
    <3>2. /\ Held(p) \in Nat /\ Before(p) \in Nat /\ settled[p] \in Nat /\ due[p] \in Int
          /\ InFlight(p) \in Nat
      BY LedgerTypes, InFlightType DEF LedgerInv
    <3>3. Delta(n, Before(p)) \in Nat /\ Delta(Held(p), n) \in Nat
      BY <1>7, <3>2, DeltaType
    <3>4. settled'[p] = settled[p] + Delta(n, Before(p)) /\ Base(p)' = n
      BY <1>4, <1>8, <2>1, <2>3
    <3>5. Held(p)' = Held(p) /\ InFlight(p)' = InFlight(p) /\ due'[p] = due[p]
      BY <1>8 DEF mapVars, Held, Counter, traffic, Keys, InFlight
    <3> HIDE DEF n
    <3>6. Balances(p, 0, Base(p))'
      BY <1>10, <3>1, <3>2, <3>3, <3>4, <3>5 DEF Balances, Delta
    <3>7. QED
      BY <2>2, <2>3, <3>6
  <2>4. CASE p # q
    <3>1. p \notin SampledPids /\ settled'[p] = settled[p]
      BY <1>4, <1>8, <1>15, <1>16, <2>4
    <3>2. Base(p) = Base(p)' /\ (p \in DOMAIN current' <=> p \in DOMAIN current)
      BY <1>8, <1>10, <2>1, <2>2, <2>4 DEF Base
    <3>3. /\ Balances(p, 0, Base(p))
          /\ p \notin Lost /\ p \notin DOMAIN current => Before(p) = 0
      BY <1>9, <1>10, <3>1 DEF UnsampledBalance
    <3>4. QED
      BY <1>8, <3>1, <3>2, <3>3, StillBalances DEF Balances, Delta
  <2>5. QED
    BY <2>3, <2>4
<1>17. UnsampledBalance'
  BY <1>8, <1>10, <1>16 DEF UnsampledBalance
<1>18. QED
  BY <1>12, <1>14, <1>17

LEMMA LedgerUpdateEnds ==
  ASSUME LedgerInv, UpdateEnds
  PROVE  LedgerInv'
<1>1. TypeOK'
  BY TypeTickRest DEF LedgerInv
<1>2. ElementsInv' /\ NothingBeforeBaseline' /\ ~Walking'
  BY ElementsSame DEF LedgerInv, NothingBeforeBaseline, UpdateEnds, mapVars, Walking
<1>3. ASSUME ~disturbed, NEW p \in Pids PROVE Balances(p, 0, Before(p))'
  <2>1. phase = "update" /\ previous' = current /\ UNCHANGED <<mapVars, settled>>
    BY DEF UpdateEnds, ghosts
  <2>2. p \notin SampledPids
    BY DEF UpdateEnds, SampledPids
  <2>3. Balances(p, 0, Base(p))
    BY <1>3, <2>2 DEF LedgerInv, UnsampledBalance
  <2>4. Before(p)' = Base(p)
    BY <2>1 DEF Before, Base, Passed
  <2>5. QED
    BY <2>1, <2>3, <2>4, StillBalances DEF Balances, Delta
<1>4. QED
  BY <1>1, <1>2, <1>3, LedgerAtRest DEF UpdateEnds, ghosts

LEMMA LedgerTickEnds ==
  ASSUME LedgerInv, TickEnds
  PROVE  LedgerInv'
<1>1. TypeOK'
  BY TypeTickRest DEF LedgerInv
<1>2. ElementsInv' /\ NothingBeforeBaseline' /\ ~Walking'
  BY ElementsSame DEF LedgerInv, NothingBeforeBaseline, TickEnds, mapVars, ghosts, Walking
<1>3. ASSUME ~disturbed, NEW p \in Pids PROVE Balances(p, 0, Before(p))'
  <2>1. phase = "forget" /\ UNCHANGED <<mapVars, previous, settled>>
    BY DEF TickEnds, ghosts
  <2>2. Balances(p, 0, Base(p))
    BY <1>3, <2>1 DEF LedgerInv, UnsampledBalance, Walking
  <2>3. Base(p) = Before(p) /\ Before(p)' = Before(p)
    BY <2>1 DEF Before, Base, Passed
  <2>4. QED
    BY <2>1, <2>2, <2>3, StillBalances DEF Balances, Delta
<1>4. QED
  BY <1>1, <1>2, <1>3, LedgerAtRest DEF TickEnds, ghosts

LEMMA LedgerNext == LedgerInv /\ [Next]_vars => LedgerInv'
<1> SUFFICES ASSUME LedgerInv, [Next]_vars PROVE LedgerInv'
  OBVIOUS
<1>1. CASE UNCHANGED vars
  <2>1. TypeOK'
    BY TypeNext DEF LedgerInv
  <2>2. ElementsInv'
    BY <1>1, ElementsSame DEF vars
  <2>3. \A p \in Pids : Moves(p)
    BY <1>1 DEF Moves, vars, mapVars, ghosts, Held, Counter, traffic, Keys, InFlight, Lost
  <2>4. QED
    BY <1>1, <2>1, <2>2, <2>3, MovesKeepLedger DEF vars, tickVars, ghosts
<1>2. ASSUME NEW p \in Pids, Spawn(p) \/ Exit(p), UNCHANGED <<tickVars, settled, disturbed>>, Next
      PROVE  LedgerInv'
  <2>1. TypeOK'
    BY <1>2, TypeNext DEF LedgerInv
  <2>2. QED
    BY <1>2, <2>1, LedgerSpawnExit
<1>3. QED
  BY <1>1, <1>2, LedgerLookup, LedgerAdd, LedgerInsert, LedgerPollStarts, LedgerNextKey,
     LedgerFindValue, LedgerCopyValue, LedgerPollEnds, LedgerBaseline, LedgerTooSoon, LedgerTakeSample,
     LedgerUpdateEnds, LedgerForget, LedgerTickEnds
  DEF Next, KernelFrame, ghosts

LEMMA LedgerAlways == Spec => []LedgerInv
  BY LedgerInit, LedgerNext, PTL DEF Spec

-----------------------------------------------------------------------------
\* Every byte due under a pid is reported exactly once or still to be reported, and
\* what its processes transferred is due, unless a counter of it was lost or an
\* eviction disturbed the walk, for any number of processes, CPUs and elements and
\* runs of any length (ExactUnlessCounterLost).
THEOREM Exact == Spec => []ExactUnlessCounterLost
<1>1. ASSUME LedgerInv PROVE ExactUnlessCounterLost
  <2>1. SUFFICES ASSUME ~disturbed, phase # "update", NEW p \in Pids, p \notin Lost
                 PROVE  settled[p] + Outstanding(p) + InFlight(p) = due[p]
    BY <1>1 DEF LedgerInv, ElementsInv, DueIsSent, ExactUnlessCounterLost, Lost
  <2>2. SampledBalance /\ UnsampledBalance
    BY <1>1, <2>1 DEF LedgerInv
  <2>3. /\ Held(p) \in Nat /\ Before(p) \in Nat /\ settled[p] \in Nat /\ due[p] \in Int
        /\ InFlight(p) \in Nat /\ Outstanding(p) = Delta(Held(p), Before(p))
    BY <1>1, LedgerTypes, InFlightType DEF LedgerInv, Outstanding, Held, Before
  <2>4. CASE Walking /\ p \in SampledPids
    <3>1. PICK i \in 1..Len(samples) : samples[i].pid = p
      BY <2>4 DEF SampledPids
    <3>2. SampleBalances(i)
      BY <2>2, <2>4 DEF SampledBalance
    <3>3. Balances(p, 0, Before(p))
      BY <1>1, <3>1, <3>2, SampleAndRest DEF LedgerInv
    <3>4. Delta(Held(p), Before(p)) \in Nat
      BY <2>3, DeltaType
    <3>5. QED
      BY <2>1, <2>3, <3>3, <3>4 DEF Balances
  <2>5. CASE ~(Walking /\ p \in SampledPids)
    <3>1. /\ Balances(p, 0, Base(p))
          /\ Passed(p) /\ ~(phase = "update" /\ p \in DOMAIN current) => Before(p) = 0
      BY <2>1, <2>2, <2>5 DEF UnsampledBalance
    <3>2. Base(p) = Before(p)
      BY <2>1, <3>1 DEF Base
    <3>3. Delta(Held(p), Before(p)) \in Nat
      BY <2>3, DeltaType
    <3>4. QED
      BY <2>1, <2>3, <3>1, <3>2, <3>3 DEF Balances
  <2>6. QED
    BY <2>4, <2>5
<1>2. QED
  BY <1>1, LedgerAlways, PTL

\* Nothing is reported that is not due.
SettledIsDue == ~disturbed => \A p \in Pids : settled[p] <= due[p]

\* Without a condition on p, the ledger is a bound.
LEMMA LedgerBound ==
  ASSUME LedgerInv, ~disturbed, NEW p \in Pids
  PROVE  \E b \in Nat : settled[p] + Delta(Held(p), b) + InFlight(p) <= due[p]
<1>1. settled[p] \in Nat /\ Before(p) \in Nat /\ Base(p) \in Nat
  BY LedgerTypes DEF LedgerInv
<1>2. PICK b \in Nat : Balances(p, 0, b)
  <2>1. CASE Walking /\ p \in SampledPids
    <3>1. PICK i \in 1..Len(samples) : samples[i].pid = p
      BY <2>1 DEF SampledPids
    <3>2. SampleBalances(i)
      BY <2>1 DEF LedgerInv, SampledBalance
    <3>3. Balances(p, 0, Before(p))
      BY <3>1, <3>2, SampleAndRest DEF LedgerInv
    <3>4. QED
      BY <1>1, <3>3
  <2>2. CASE ~(Walking /\ p \in SampledPids)
    BY <1>1, <2>2 DEF LedgerInv, UnsampledBalance
  <2>3. QED
    BY <2>1, <2>2
<1>3. settled[p] + 0 = settled[p]
  BY <1>1
<1>4. QED
  BY <1>2, <1>3 DEF Balances

LEMMA LedgerCovers == LedgerInv => SettledIsDue
<1> SUFFICES ASSUME LedgerInv, ~disturbed, NEW p \in Pids
             PROVE  settled[p] <= due[p]
  BY DEF SettledIsDue
<1>1. settled[p] \in Nat /\ due[p] \in Int /\ InFlight(p) \in Nat /\ Held(p) \in Nat
  BY LedgerTypes, InFlightType DEF LedgerInv
<1>2. PICK b \in Nat : settled[p] + Delta(Held(p), b) + InFlight(p) <= due[p]
  BY LedgerBound
<1>3. Delta(Held(p), b) \in Nat
  BY <1>1, DeltaType
<1>4. QED
  BY <1>1, <1>2, <1>3

LEMMA SettledGrows ==
  ASSUME LedgerInv, Baseline \/ TakeSample, NEW p \in Pids
  PROVE  settled[p] <= settled'[p]
<1>1. settled \in [Pids -> Nat] /\ settled[p] \in Nat
  BY DEF LedgerInv, TypeOK
<1>2. CASE Baseline
  <2>1. settled'[p] \in Nat
    BY <1>2, TypeBaseline DEF LedgerInv, TypeOK
  <2>2. settled[p] = 0
    BY <1>2 DEF LedgerInv, NothingBeforeBaseline, Baseline
  <2>3. QED
    BY <2>1, <2>2
<1>3. CASE TakeSample
  <2> DEFINE s == Head(samples)
  <2>1. s \in Samples
    BY <1>3, RemainingSamples DEF LedgerInv, TypeOK, TakeSample, Samples
  <2>2. s.pid \in Pids /\ s.count \in Nat
    BY <2>1 DEF Samples
  <2>3. Counter(previous, s.pid) \in Nat
    BY <2>2, LedgerTypes DEF LedgerInv, Before
  <2>4. Delta(s.count, Counter(previous, s.pid)) \in Nat
    BY <2>2, <2>3, DeltaType
  <2>5. settled' = [settled EXCEPT ![s.pid] = @ + Delta(s.count, Counter(previous, s.pid))]
    BY <1>3 DEF TakeSample
  <2>6. QED
    BY <1>1, <2>2, <2>4, <2>5
<1>4. QED
  BY <1>2, <1>3

\* A byte that goes to another pid was on its way, and so not reported yet.
LEMMA CallIsUnsettled ==
  ASSUME LedgerInv, ~disturbed, NEW c \in Cpus, cpu[c].pid \in Pids
  PROVE  settled[cpu[c].pid] < due[cpu[c].pid]
<1> DEFINE p == cpu[c].pid
<1>1. /\ settled[p] \in Nat /\ due[p] \in Int /\ InFlight(p) \in Nat
  BY LedgerTypes, InFlightType DEF LedgerInv
<1>2. PICK b \in Nat : settled[p] + Delta(Held(p), b) + InFlight(p) <= due[p]
  BY LedgerBound
<1>3. Delta(Held(p), b) \in Nat
  BY LedgerTypes, DeltaType DEF LedgerInv
<1>4. InFlight(p) # 0
  <2>1. Flying(p) # {}
    BY DEF Flying
  <2>2. QED
    BY <2>1, InFlightType, FS_EmptySet
<1>5. QED
  BY <1>1, <1>2, <1>3, <1>4

LEMMA StepsMeter ==
  ASSUME LedgerInv, SettledIsDue', [Next]_vars
  PROVE  [disturbed' \/ Promise!Next]_(Promise!meterVars)
<1>1. CASE UNCHANGED <<due, settled>>
  BY <1>1 DEF Promise!meterVars
<1>2. CASE \E c \in Cpus, p \in Pids : Lookup(c, p) /\ KernelFrame
  <2>1. PICK c \in Cpus, p \in Pids : Lookup(c, p) /\ KernelFrame
    BY <1>2
  <2>2. due' = [due EXCEPT ![p] = @ + 1] /\ UNCHANGED settled
    BY <2>1 DEF Lookup, KernelFrame, ghosts
  <2>3. QED
    BY <2>2 DEF Promise!Next, Promise!Transfer
<1>3. CASE \E c \in Cpus : Add(c) /\ KernelFrame
  <2>1. PICK c \in Cpus : Add(c) /\ KernelFrame
    BY <1>3
  <2> DEFINE p == cpu[c].pid
             H == Holders(cpu[c].elem)
  <2>2. due' = Booked(p, H) /\ UNCHANGED <<settled, disturbed>>
    BY <2>1 DEF Add, KernelFrame, ghosts
  <2>3. CASE H \subseteq {p}
    BY <1>1, <2>2, <2>3 DEF Booked
  <2>4. CASE ~(H \subseteq {p})
    <3>1. PICK q \in H : q # p
      BY <2>4
    <3>2. H = {q}
      BY <3>1 DEF Holders, LedgerInv, ElementsInv, OneKeyEach
    <3>3. q \in Pids /\ p \in Pids /\ due \in [Pids -> Int]
      BY <2>1, <3>1, FoundElement DEF LedgerInv, TypeOK, MapTypeOK, Add, Holders
    <3> HIDE DEF H
    <3>4. due' = [due EXCEPT ![p] = @ - 1, ![q] = @ + 1]
      BY <2>2, <2>4, <3>1, <3>2, <3>3 DEF Booked
    <3>5. ASSUME ~disturbed PROVE settled[p] < due[p]
      BY <3>3, <3>5, CallIsUnsettled
    <3>6. ASSUME ~disturbed PROVE Promise!Misbook
      BY <2>2, <3>1, <3>3, <3>4, <3>5, <3>6 DEF Promise!Misbook
    <3>7. QED
      BY <2>2, <3>6 DEF Promise!Next
  <2>5. QED
    BY <2>3, <2>4
<1>4. CASE Baseline \/ TakeSample
  <2>1. UNCHANGED due /\ settled' \in [Pids -> Nat]
    BY <1>4, TypeBaseline, TypeTakeSample DEF Baseline, TakeSample, mapVars, LedgerInv, TypeOK
  <2>2. ASSUME ~disturbed' PROVE Promise!Show
    <3>1. \A p \in Pids : settled'[p] <= due[p]
      BY <2>1, <2>2 DEF SettledIsDue
    <3>2. QED
      BY <1>4, <2>1, <3>1, SettledGrows DEF Promise!Show
  <2>3. QED
    BY <2>2 DEF Promise!Next
<1>5. QED
  BY <1>1, <1>2, <1>3, <1>4
  DEF Next, vars, mapVars, ghosts, KernelFrame, Spawn, Exit, Insert, PollStarts, NextKey,
      FindValue, CopyValue, PollEnds, TooSoon, UpdateEnds, Forget, TickEnds

\* The daemon implements the abstract meter step by step until an eviction disturbs
\* the walk: it reports only what was transferred and takes nothing back, whatever
\* is evicted, refused, put down to another pid or used again (MeterIsKept).
THEOREM Metered == Spec => MeterIsKept
<1>1. Init => Promise!Init
  BY DEF Init, MapInit, Promise!Init
<1>2. LedgerInv /\ SettledIsDue' /\ [Next]_vars =>
        [disturbed' \/ Promise!Next]_(Promise!meterVars)
  BY StepsMeter
<1>3. QED
  BY <1>1, <1>2, LedgerAlways, LedgerCovers, PTL DEF Spec, MeterIsKept
=============================================================================
