----------------------------- MODULE TrafficMap -----------------------------
(***************************************************************************)
(* daemon/bpf/plasma-nethogs.bpf.c: the fexit programs that add the bytes  *)
(* of each socket call to a per-process counter, and the LRU hash map the  *)
(* counters live in.                                                       *)
(*                                                                         *)
(* account() looks the counter up and then, in a separate step, adds to it *)
(* or inserts one; other CPUs and the daemon run in between.  The elements *)
(* of the map are preallocated: one that is taken from a key is free at    *)
(* once, and who holds a pointer to it goes on writing to it, whichever    *)
(* key it is given to next.  One direction is modelled, the two differ in  *)
(* nothing; a call moves one byte.  Calls that account() filters out       *)
(* change nothing and are left out.                                        *)
(***************************************************************************)
EXTENDS Integers, FiniteSets, FiniteSetsExt

CONSTANTS
    Pids,        \* thread group ids, in the order the map iterates over keys
    Cpus,        \* CPUs a socket call can return on
    Elements,    \* the elements of the map (8192 in the code)
    MaxBytes,    \* bound: bytes transferred in a run
    MaxSpawns    \* bound: times a pid is used again

ASSUME PidsAssumption == Pids \subseteq Nat \ {0} /\ IsFiniteSet(Pids)
ASSUME CpusAssumption == IsFiniteSet(Cpus)
ASSUME TrafficBoundsAssumption == MaxBytes \in Nat /\ MaxSpawns \in Nat

VARIABLES
    alive,    \* the processes that exist
    spawns,   \* pids used again so far
    at,       \* the map: the element of each key present
    value,    \* the counter in each element, free or not
    cpu,      \* cpu[c]: the call of account() in progress on c
    sent,     \* sent[p]: bytes processes with pid p really transferred
    due,      \* due[p]: those, less what went to another pid, plus what came from one
    refused,  \* pids one of whose inserts failed
    removed   \* pids whose counter was deleted or evicted

mapVars == <<alive, spawns, at, value, cpu, sent, due, refused, removed>>

Idle == [step |-> "idle", pid |-> 0]

Calls ==
    {Idle} \cup [step : {"missed"}, pid : Pids]
           \cup [step : {"found"}, pid : Pids, elem : Elements]

Keys == DOMAIN at

\* The counter of each key, and the keys that lead to an element: one or none.
traffic == [p \in Keys |-> value[at[p]]]

Holders(e) == {p \in Keys : at[p] = e}

MapTypeOK ==
    /\ alive \subseteq Pids
    /\ spawns \in 0..MaxSpawns
    /\ Keys \subseteq Pids
    /\ at \in [Keys -> Elements]
    /\ value \in [Elements -> Nat]
    /\ cpu \in [Cpus -> Calls]
    /\ sent \in [Pids -> Nat]
    /\ due \in [Pids -> Int]
    /\ refused \subseteq Pids
    /\ removed \subseteq Pids

MapInit ==
    /\ alive = Pids
    /\ spawns = 0
    /\ at = [p \in {} |-> 0]
    /\ value = [e \in Elements |-> 0]
    /\ cpu = [c \in Cpus |-> Idle]
    /\ sent = [p \in Pids |-> 0]
    /\ due = [p \in Pids |-> 0]
    /\ refused = {}
    /\ removed = {}

-----------------------------------------------------------------------------
\* Faulty: nothing is deleted or evicted.
NothingDeleted(S) == at

\* The map with the keys S taken out.  Their elements are free; what they count
\* stays in them until they are given away.
Without(S) == [k \in Keys \ S |-> at[k]]

-----------------------------------------------------------------------------
\* A process with a pid that was used before, and the end of one.  It cannot end
\* inside a socket call.
Spawn(p) ==
    /\ p \notin alive
    /\ spawns < MaxSpawns
    /\ spawns' = spawns + 1
    /\ alive' = alive \cup {p}
    /\ UNCHANGED <<at, value, cpu, sent, due, refused, removed>>

Exit(p) ==
    /\ p \in alive
    /\ \A c \in Cpus : cpu[c].pid # p
    /\ alive' = alive \ {p}
    /\ UNCHANGED <<spawns, at, value, cpu, sent, due, refused, removed>>

\* The call returns with a byte transferred, and account() looks for the counter.
Lookup(c, p) ==
    /\ cpu[c] = Idle
    /\ p \in alive
    /\ MapThenSumSet(LAMBDA q : sent[q], Pids) < MaxBytes
    /\ sent' = [sent EXCEPT ![p] = @ + 1]
    /\ due' = [due EXCEPT ![p] = @ + 1]
    /\ cpu' = [cpu EXCEPT ![c] =
           IF p \in Keys THEN [step |-> "found", pid |-> p, elem |-> at[p]]
           ELSE [step |-> "missed", pid |-> p]]
    /\ UNCHANGED <<alive, spawns, at, value, refused, removed>>

\* What is due when a byte of p is added to an element that leads to none but S:
\* in a free element it is lost, in that of another key it counts as that key's.
Booked(p, S) ==
    IF S \subseteq {p} THEN due
    ELSE [q \in Pids |-> IF q = p THEN due[q] - 1
                         ELSE IF q \in S THEN due[q] + 1 ELSE due[q]]

\* __sync_fetch_and_add: to the element the lookup found, whoever has it now.
Add(c) ==
    /\ cpu[c].step = "found"
    /\ value' = [value EXCEPT ![cpu[c].elem] = @ + 1]
    /\ due' = Booked(cpu[c].pid, Holders(cpu[c].elem))
    /\ cpu' = [cpu EXCEPT ![c] = Idle]
    /\ UNCHANGED <<alive, spawns, at, sent, refused, removed>>

\* bpf_map_update_elem: the result is not looked at.  The kernel takes an element
\* before it looks for the key, and makes room for that by evicting keys: how many
\* and which is up to it.  Then the insert may fail, because of BPF_NOEXIST if
\* there is such a key now, or for want of an element or a lock.
Insert(c) ==
    LET p == cpu[c].pid IN
    /\ cpu[c].step = "missed"
    /\ \E S \in SUBSET Keys :
         /\ removed' = removed \cup S
         /\ \/ /\ at' = Without(S)
               /\ refused' = refused \cup {p}
               /\ UNCHANGED value
            \/ /\ p \notin Keys \ S
               /\ \E e \in Elements \ {at[k] : k \in Keys \ S} :
                    /\ at' = [k \in (Keys \ S) \cup {p} |-> IF k = p THEN e ELSE at[k]]
                    /\ value' = [value EXCEPT ![e] = 1]
               /\ UNCHANGED refused
    /\ cpu' = [cpu EXCEPT ![c] = Idle]
    /\ UNCHANGED <<alive, spawns, sent, due>>
=============================================================================
