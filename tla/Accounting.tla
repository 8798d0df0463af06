----------------------------- MODULE Accounting -----------------------------
(***************************************************************************)
(* From counters to rates: BpfCollector::poll walks the map key by key     *)
(* while the probes go on counting, Aggregator::update turns the samples   *)
(* into what was transferred since the tick before, and main() then        *)
(* forgets the counters of processes that are gone                         *)
(* (daemon/src/BpfCollector.cpp, Aggregator.cpp, main.cpp:130-138).        *)
(***************************************************************************)
EXTENDS TrafficMap, Sequences

CONSTANT NoElement

ASSUME NoElementAssumption == NoElement \notin Elements

VARIABLES
    phase,     \* where the tick is
    cursor,    \* the key poll() got last, 0 before the first
    slot,      \* the element bpf_map_lookup_elem is copying
    samples,   \* the samples poll() has collected; update() takes them in turn
    ticked,    \* m_clock.isValid()
    previous,  \* m_previous
    current,   \* the counters that will become m_previous
    dead,      \* m_deadPids
    settled,   \* settled[p]: bytes of p reported, or taken as the baseline
    disturbed, \* an eviction sent poll() back, or changed what it was copying
    goneAtPoll \* pids without a process since before the poll, for a full tick

tickVars == <<phase, cursor, slot, samples, ticked, previous, current, dead>>
ghosts == <<settled, disturbed, goneAtPoll>>
vars == <<mapVars, tickVars, ghosts>>

Counters == UNION {[S -> Nat] : S \in SUBSET Pids}

NoCounters == [p \in {} |-> 0]

TypeOK ==
    /\ MapTypeOK
    /\ phase \in {"idle", "key", "value", "copy", "update", "forget"}
    /\ cursor \in Pids \cup {0}
    /\ slot \in Elements \cup {NoElement}
    /\ phase = "copy" => cursor \in Pids /\ slot \in Elements
    /\ samples \in Seq([pid : Pids, count : Nat])
    /\ ticked \in BOOLEAN
    /\ DOMAIN previous \subseteq Pids /\ previous \in [DOMAIN previous -> Nat]
    /\ DOMAIN current \subseteq Pids /\ current \in [DOMAIN current -> Nat]
    /\ dead \subseteq Pids
    /\ settled \in [Pids -> Nat]
    /\ disturbed \in BOOLEAN
    /\ goneAtPoll \subseteq Pids

Init ==
    /\ MapInit
    /\ phase = "idle"
    /\ cursor = 0
    /\ slot = NoElement
    /\ samples = <<>>
    /\ ticked = FALSE
    /\ previous = NoCounters
    /\ current = NoCounters
    /\ dead = {}
    /\ settled = [p \in Pids |-> 0]
    /\ disturbed = FALSE
    /\ goneAtPoll = {}

-----------------------------------------------------------------------------
\* BpfCollector::poll()

\* bpf_map_get_next_key: the keys after the cursor; all of them if the cursor is
\* no longer in the map.
KeysAhead == IF cursor \in Keys THEN {k \in Keys : k > cursor} ELSE Keys

PollStarts ==
    /\ phase = "idle"
    /\ phase' = "key"
    /\ cursor' = 0
    /\ samples' = <<>>
    /\ goneAtPoll' = Pids \ alive
    /\ UNCHANGED <<mapVars, slot, ticked, previous, current, dead, settled, disturbed>>

NextKey ==
    /\ phase = "key"
    /\ KeysAhead # {}
    /\ cursor' \in KeysAhead
    /\ \A k \in KeysAhead : cursor' <= k
    /\ phase' = "value"
    /\ disturbed' = (disturbed \/ cursor \notin Keys \cup {0})
    /\ UNCHANGED <<mapVars, slot, samples, ticked, previous, current, dead, settled, goneAtPoll>>

\* bpf_map_lookup_elem finds the element of the key and then copies what is in it,
\* without a lock.  A key that has gone since gives no sample; one that goes before
\* the copy gives what is in the element then, even if that is another key's.
FindValue ==
    /\ phase = "value"
    /\ IF cursor \in Keys
       THEN phase' = "copy" /\ slot' = at[cursor]
       ELSE phase' = "key" /\ slot' = NoElement
    /\ UNCHANGED <<mapVars, cursor, samples, ticked, previous, current, dead, ghosts>>

CopyValue ==
    /\ phase = "copy"
    /\ phase' = "key"
    /\ slot' = NoElement
    /\ samples' = Append(samples, [pid |-> cursor, count |-> value[slot]])
    /\ disturbed' = (disturbed \/ cursor \notin Holders(slot))
    /\ UNCHANGED <<mapVars, cursor, ticked, previous, current, dead, settled, goneAtPoll>>

PollEnds ==
    /\ phase = "key"
    /\ KeysAhead = {}
    /\ phase' = "update"
    /\ current' = NoCounters
    /\ dead' = {}
    /\ UNCHANGED <<mapVars, cursor, slot, samples, ticked, previous, ghosts>>

-----------------------------------------------------------------------------
\* Aggregator::update()

Counter(f, p) == IF p \in DOMAIN f THEN f[p] ELSE 0

With(f, s) == [p \in DOMAIN f \cup {s.pid} |-> IF p = s.pid THEN s.count ELSE f[p]]

\* Faulty differences: operands swapped; no regard for a counter that went
\* backwards, in arithmetic modulo 2^w; no regard for the tick before.
DeltaSwapped(now, before) == IF now >= before THEN before - now ELSE now
DeltaWrapped(now, before) == (now - before) % 256
DeltaOfNothing(now, before) == now

\* A counter that went backwards was evicted and made again.
Delta(now, before) == IF now >= before THEN now - before ELSE now

\* What inserting all samples leaves: the last one of each pid.
LastCount(p) ==
    LET i == CHOOSE n \in 1..Len(samples) :
                 /\ samples[n].pid = p
                 /\ \A m \in n + 1..Len(samples) : samples[m].pid # p
    IN  samples[i].count

SampledPids == {samples[n].pid : n \in 1..Len(samples)}

\* The samples of the first tick become the baseline and nothing is reported.
Baseline ==
    /\ phase = "update"
    /\ ~ticked
    /\ ticked' = TRUE
    /\ previous' = [p \in SampledPids |-> LastCount(p)]
    /\ settled' = [p \in Pids |-> Counter(previous', p)]
    /\ phase' = "idle"
    /\ goneAtPoll' = {}
    /\ UNCHANGED <<mapVars, cursor, slot, samples, current, dead, disturbed>>

\* No time has passed on the clock: the samples are dropped, m_previous is kept.
TooSoon ==
    /\ phase = "update"
    /\ ticked
    /\ current = NoCounters
    /\ dead = {}
    /\ phase' = "idle"
    /\ goneAtPoll' = {}
    /\ UNCHANGED <<mapVars, cursor, slot, samples, ticked, previous, current, dead, settled, disturbed>>

\* One turn of the loop over the samples.  The process is looked for in /proc now.
TakeSample ==
    /\ phase = "update"
    /\ ticked
    /\ samples # <<>>
    /\ LET s == Head(samples) IN
         /\ current' = With(current, s)
         /\ settled' = [settled EXCEPT ![s.pid] = @ + Delta(s.count, Counter(previous, s.pid))]
         /\ dead' = IF s.pid \in alive THEN dead ELSE dead \cup {s.pid}
    /\ samples' = Tail(samples)
    /\ UNCHANGED <<mapVars, phase, cursor, slot, ticked, previous, disturbed, goneAtPoll>>

UpdateEnds ==
    /\ phase = "update"
    /\ ticked
    /\ samples = <<>>
    /\ previous' = current
    /\ phase' = "forget"
    /\ UNCHANGED <<mapVars, cursor, slot, samples, ticked, current, dead, ghosts>>

\* main(): collector.forget(pid) for every pid in deadPids(), then the snapshot is
\* written and the tick is over.
Forget(p) ==
    /\ phase = "forget"
    /\ p \in dead
    /\ dead' = dead \ {p}
    /\ at' = Without({p})
    /\ removed' = removed \cup (Keys \cap {p})
    /\ UNCHANGED <<alive, spawns, value, cpu, sent, due, refused, phase, cursor, slot,
                   samples, ticked, previous, current, ghosts>>

TickEnds ==
    /\ phase = "forget"
    /\ dead = {}
    /\ phase' = "idle"
    /\ UNCHANGED <<mapVars, cursor, slot, samples, ticked, previous, current, dead, ghosts>>

-----------------------------------------------------------------------------
KernelFrame == UNCHANGED <<tickVars, ghosts>>

Next ==
    \/ \E p \in Pids : Spawn(p) /\ goneAtPoll' = goneAtPoll \ {p}
                       /\ UNCHANGED <<tickVars, settled, disturbed>>
    \/ \E p \in Pids : Exit(p) /\ KernelFrame
    \/ \E c \in Cpus, p \in Pids : Lookup(c, p) /\ KernelFrame
    \/ \E c \in Cpus : Add(c) /\ KernelFrame
    \/ \E c \in Cpus : Insert(c) /\ KernelFrame
    \/ PollStarts
    \/ NextKey
    \/ FindValue
    \/ CopyValue
    \/ PollEnds
    \/ Baseline
    \/ TooSoon
    \/ TakeSample
    \/ UpdateEnds
    \/ \E p \in Pids : Forget(p)
    \/ TickEnds

Spec == Init /\ [][Next]_vars

-----------------------------------------------------------------------------
\* Calls on their way to a counter, and bytes in the counter of p that have not
\* been reported.
InFlight(p) == Cardinality({c \in Cpus : cpu[c].pid = p})

Outstanding(p) == Delta(Counter(traffic, p), Counter(previous, p))

\* Unless its counter was refused, evicted or deleted, or poll() was disturbed,
\* every byte that is due under a pid is reported exactly once or still to be
\* reported: nothing else in the walk, the deltas and the baseline loses or repeats
\* one, whatever is counted meanwhile.  What is due is all that its processes
\* transferred, and more only by what others added to its counter through pointers
\* to the element it is in now, which takes the eviction or deletion of theirs
\* (bpf.c:86-92, Aggregator.cpp:50-60, 113; README.en.md:51).
ExactUnlessCounterLost ==
    ~disturbed /\ phase # "update" =>
        \A p \in Pids \ (refused \cup removed) :
            /\ settled[p] + Outstanding(p) + InFlight(p) = due[p]
            /\ sent[p] <= due[p]
            /\ removed = {} => due[p] = sent[p]

\* Once a full tick is over, no process that was gone before it began still has a
\* counter: main() forgets exactly what the map holds of the dead
\* (Aggregator.cpp:68-75, main.cpp:136-138).
NoGarbage == phase = "idle" => goneAtPoll \cap Keys = {}

\* "A process that exits loses its row. Its bytes are still counted for the tick in
\* which it died" (README.en.md:77): once its counter has been deleted, everything
\* it transferred has been reported.
ExitIsCounted ==
    phase = "idle" =>
        \A p \in (Pids \ alive) \ (Keys \cup refused) : settled[p] = sent[p]

Promise == INSTANCE Meter WITH shown <- settled

\* Until an eviction disturbs poll(), the daemon is a meter: what it reports step by
\* step was transferred and not reported before, under the same pid or another, also
\* when inserts fail, counters are evicted, their elements given to other pids with
\* calls still writing to them, processes exit and pids are used again
\* (Meter.tla; Aggregator.cpp:50-60).
MeterIsKept == Promise!Init /\ [][disturbed' \/ Promise!Next]_(Promise!meterVars)
=============================================================================
