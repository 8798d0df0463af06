------------------------------ MODULE Grouping ------------------------------
(***************************************************************************)
(* The other half of Aggregator::update(): every sample is resolved to the *)
(* process it belongs to and processes are merged into the applications    *)
(* that are published, while processes come, change and go                 *)
(* (daemon/src/Aggregator.cpp:46-141, main.cpp:130-138).                   *)
(*                                                                         *)
(* What is counted, the walk over the map and the ticks that report        *)
(* nothing are Accounting's; here a process with a counter has transferred *)
(* a byte since the last tick or has not, and poll() gives each of them    *)
(* once.                                                                   *)
(* The order of the list and of the pids in a row is left out, which       *)
(* applications make it into the list is not.                              *)
(***************************************************************************)
EXTENDS ProcessResolver, Sequences, SequencesExt, FiniteSetsExt

CONSTANTS
    TopCount,    \* m_topCount
    Crowded,     \* whether the map ever has to make room
    ThreadName   \* the comm a sample carries

ASSUME TopCountAssumption == TopCount \in Nat \ {0}
ASSUME CrowdedAssumption == Crowded \in BOOLEAN
ASSUME ThreadNameAssumption == ThreadName \in Texts

VARIABLES
    moved,      \* the pids given a counter, not all still have it: bytes since the last tick
    phase,      \* "idle" between two ticks, "update" in update()
    samples,    \* the samples not looked at yet
    livePids,
    deadPids,   \* m_deadPids
    groups,
    published   \* the applications in the last snapshot

\* For stating properties only.
VARIABLES
    lives,      \* lives[p]: the images the process with pid p has had so far
    resolved    \* what the samples of this tick were resolved to

tickVars == <<moved, phase, samples, livePids, deadPids, groups, published>>
vars == <<systemVars, resolverVars, tickVars, lives, resolved>>

-----------------------------------------------------------------------------
\* GroupState
NoGroup == [name |-> None, namePid |-> 0, exePath |-> None,
            desktopId |-> None, icon |-> None, desktopPid |-> 0, bytes |-> 0]

NoGroups == [k \in {} |-> NoGroup]

KeyOf(sample, info) == IF info = None THEN <<"comm", sample.comm>> ELSE info.appKey

\* Faulty: named after whichever process comes first.
NamedByFirst(g, sample, info) ==
    IF g.namePid # 0 THEN g
    ELSE [g EXCEPT !.namePid = sample.pid,
                   !.name = IF info = None THEN sample.comm ELSE info.name,
                   !.exePath = IF info = None THEN @ ELSE info.exePath]

\* The row is named after the lowest pid in it; its desktop id and icon come from
\* the lowest pid that has a desktop id.
Named(g, sample, info) ==
    IF g.namePid # 0 /\ sample.pid >= g.namePid THEN g
    ELSE [g EXCEPT !.namePid = sample.pid,
                   !.name = IF info = None THEN sample.comm ELSE info.name,
                   !.exePath = IF info = None THEN @ ELSE info.exePath]

WithDesktop(g, sample, info) ==
    IF \/ info = None
       \/ info # None /\ info.desktopId = None
       \/ g.desktopPid # 0 /\ sample.pid >= g.desktopPid
    THEN g
    ELSE [g EXCEPT !.desktopPid = sample.pid, !.desktopId = info.desktopId,
                   !.icon = info.icon]

Merged(g, sample, info) ==
    [WithDesktop(Named(g, sample, info), sample, info) EXCEPT !.bytes = @ + sample.bytes]

Grouped(sample, info) ==
    LET key == KeyOf(sample, info)
        old == IF key \in DOMAIN groups THEN groups[key] ELSE NoGroup
    IN  [k \in DOMAIN groups \cup {key} |->
            IF k = key THEN Merged(old, sample, info) ELSE groups[k]]

\* The busiest groups: sorted and cut off, equals in any order.
Busiest ==
    {S \in SUBSET DOMAIN groups :
        /\ Cardinality(S) = (IF Cardinality(DOMAIN groups) < TopCount
                             THEN Cardinality(DOMAIN groups) ELSE TopCount)
        /\ \A k \in S, l \in DOMAIN groups \ S : groups[k].bytes >= groups[l].bytes}

AppEntry(k) == [key |-> k, name |-> groups[k].name, exePath |-> groups[k].exePath,
                desktopId |-> groups[k].desktopId, icon |-> groups[k].icon]

-----------------------------------------------------------------------------
\* A process transfers something.
Transfer(p) ==
    /\ proc[p] # None
    /\ p \in DOMAIN moved => moved[p] = 0
    /\ moved' = [q \in DOMAIN moved \cup {p} |-> IF q = p THEN 1 ELSE moved[q]]
    /\ UNCHANGED <<phase, samples, livePids, deadPids, groups, published, resolved>>

\* The samples come in the order of the map.  Counters are evicted at any time; a
\* counter that is gone and not made again by another transfer is missed only here,
\* so here it is decided which of them the map has kept: all, unless it is crowded.
StartTick ==
    /\ phase = "idle"
    /\ phase' = "update"
    /\ \E kept \in IF Crowded THEN SUBSET DOMAIN moved ELSE {DOMAIN moved} :
         /\ moved' = [p \in kept |-> 0]
         /\ \E order \in SetToSeqs(kept) :
              samples' = [i \in DOMAIN order |->
                  [pid |-> order[i], bytes |-> moved[order[i]], comm |-> ThreadName]]
    /\ livePids' = {}
    /\ deadPids' = {}
    /\ groups' = NoGroups
    /\ resolved' = <<>>
    /\ UNCHANGED published

\* resolve() has returned info for the sample at hand.
Take(info) ==
    LET s == Head(samples) IN
    /\ samples' = Tail(samples)
    /\ livePids' = IF info = None THEN livePids ELSE livePids \cup {s.pid}
    /\ deadPids' = IF info = None THEN deadPids \cup {s.pid} ELSE deadPids
    /\ groups' = IF s.bytes = 0 THEN groups ELSE Grouped(s, info)
    /\ resolved' = Append(resolved, [sample |-> s, info |-> info])
    /\ UNCHANGED <<moved, phase, published>>

Resolving(p) == phase = "update" /\ samples # <<>> /\ p = Head(samples).pid

TakeGone(p) ==
    /\ Resolving(p) /\ reading = NotReading /\ Gone(p)
    /\ Take(None)
    /\ UNCHANGED resolverVars

TakeHit(p) ==
    /\ Resolving(p) /\ reading = NotReading /\ Hit(p)
    /\ Take(cache[p].info)
    /\ UNCHANGED resolverVars

TakeRead == ReadCgroup /\ Take(ReadInfo)

\* The cache is pruned, the snapshot made, the dead are forgotten.
EndTick ==
    /\ phase = "update"
    /\ samples = <<>>
    /\ phase' = "idle"
    /\ cache' = Pruned(livePids)
    /\ \E S \in Busiest : published' = {AppEntry(k) : k \in S}
    /\ moved' = [p \in DOMAIN moved \ deadPids |-> moved[p]]
    /\ livePids' = {} /\ deadPids' = {} /\ groups' = NoGroups /\ resolved' = <<>>
    /\ UNCHANGED <<iconCache, reading, samples>>

-----------------------------------------------------------------------------
Init ==
    /\ ResolverInit
    /\ proc \in [Pids -> Images \cup {None}]
    /\ moved = [p \in {} |-> 0]
    /\ phase = "idle"
    /\ samples = <<>>
    /\ livePids = {} /\ deadPids = {}
    /\ groups = NoGroups
    /\ published = {}
    /\ lives = [p \in Pids |-> {proc[p]} \ {None}]
    /\ resolved = <<>>

DaemonFrame == UNCHANGED <<resolverVars, tickVars, resolved>>
SystemFrame == UNCHANGED <<systemVars, lives>>

Next ==
    \/ \E p \in Pids, i \in Images : Spawn(p, i) /\ lives' = [lives EXCEPT ![p] = {i}] /\ DaemonFrame
    \/ \E p \in Pids, i \in Images : Becomes(p, i) /\ lives' = [lives EXCEPT ![p] = @ \cup {i}] /\ DaemonFrame
    \/ \E p \in Pids : Exit(p) /\ UNCHANGED lives /\ DaemonFrame
    \/ \E f \in Icons : Install(f) /\ UNCHANGED lives /\ DaemonFrame
    \/ \E p \in Pids : Transfer(p) /\ SystemFrame /\ UNCHANGED resolverVars
    \/ StartTick /\ SystemFrame /\ UNCHANGED resolverVars
    \/ \E p \in Pids : TakeGone(p) /\ SystemFrame
    \/ \E p \in Pids : TakeHit(p) /\ SystemFrame
    \/ \E p \in Pids : Resolving(p) /\ ReadStat(p, ThreadName) /\ SystemFrame
                       /\ UNCHANGED <<tickVars, resolved>>
    \/ ReadComm /\ SystemFrame /\ UNCHANGED <<tickVars, resolved>>
    \/ ReadExe /\ SystemFrame /\ UNCHANGED <<tickVars, resolved>>
    \/ TakeRead /\ SystemFrame
    \/ EndTick /\ SystemFrame

Spec == Init /\ [][Next]_vars

-----------------------------------------------------------------------------
TypeOK ==
    /\ proc \in [Pids -> Images \cup {None}]
    /\ started \in [Pids -> 1..MaxChanges + 1]
    /\ changes \in 0..MaxChanges
    /\ installed \subseteq Icons
    /\ DOMAIN cache \subseteq Pids
    /\ \A p \in DOMAIN cache : cache[p].start \in Nat /\ cache[p].info \in Info
    /\ \A d \in DOMAIN iconCache : iconCache[d] \in {f.icon : f \in Icons} \cup {None}
    /\ reading.step \in {"none", "comm", "exe", "cgroup"}
    /\ DOMAIN moved \subseteq Pids /\ moved \in [DOMAIN moved -> {0, 1}]
    /\ phase \in {"idle", "update"}
    /\ livePids \cap deadPids = {} /\ livePids \cup deadPids \subseteq Pids
    /\ lives \in [Pids -> SUBSET Images]

\* A recycled pid never inherits the identity of the process before it, although
\* the files of /proc are read one by one: whatever the cache holds for a process,
\* that very process showed at some time, before or after it called exec() or was
\* moved to another cgroup, and the key goes with what is held
\* (ProcessResolver.h:32-35, ProcessResolver.cpp:252-259).
IdentityIsOwn ==
    \A p \in DOMAIN cache :
        proc[p] # None /\ Valid(p) =>
            LET info == cache[p].info IN
            /\ info.comm \in {i.comm : i \in lives[p]}
            /\ info.exePath \in {i.exe : i \in lives[p]}
            /\ \E i \in lives[p] :
                 /\ info.desktopId = DesktopId(i.leaf)
                 /\ info.appKey = AppKey(info.comm, info.exePath, i.leaf)

\* The pids of the samples resolved so far that had a process.
Found == {resolved[i].sample.pid : i \in {j \in DOMAIN resolved : resolved[j].info # None}}

\* When a tick ends, and until the next one begins, the cache holds exactly the pids
\* that were found alive when their sample was resolved.  It cannot outgrow what one
\* poll returns, however many processes come and go and whichever counters are
\* evicted: an evicted pid that was sampled stays for that tick only.  And a process
\* that is sampled tick after tick is never dropped and read from /proc again
\* (Aggregator.cpp:68-75, 114, ProcessResolver.cpp:307-312).
CacheFollowsTick ==
    [][ phase' = "idle" =>
            DOMAIN cache' = IF phase = "idle" THEN DOMAIN cache ELSE Found ]_vars

\* What a row says of a group depends on who is in it, not on the order the map is
\* walked in: the name and the executable are those of the lowest pid, the desktop
\* id and the icon those of the lowest pid that has one, and every byte counted in
\* the tick is in exactly one row (Aggregator.cpp:15-19, 81-110).
GroupIsItsMembers ==
    LET active == {i \in DOMAIN resolved : resolved[i].sample.bytes > 0}
        key(i) == KeyOf(resolved[i].sample, resolved[i].info)
        pid(i) == resolved[i].sample.pid
        lowest(S) == CHOOSE i \in S : \A j \in S : pid(i) <= pid(j)
    IN
    /\ DOMAIN groups = {key(i) : i \in active}
    /\ \A k \in DOMAIN groups :
         LET members == {i \in active : key(i) = k}
             first   == resolved[lowest(members)]
             apps    == {i \in members :
                            resolved[i].info # None /\ resolved[i].info.desktopId # None}
         IN
         /\ groups[k].name = (IF first.info = None THEN first.sample.comm ELSE first.info.name)
         /\ groups[k].exePath = (IF first.info = None THEN None ELSE first.info.exePath)
         /\ groups[k].bytes = Cardinality(members)
         /\ IF apps = {}
            THEN groups[k].desktopId = None /\ groups[k].icon = None
            ELSE /\ groups[k].desktopId = resolved[lowest(apps)].info.desktopId
                 /\ groups[k].icon = resolved[lowest(apps)].info.icon

\* "the group's displayed identity is pinned to the lowest pid [...] Otherwise the
\* label and icon would flip between ticks" (Aggregator.cpp:17-19): as long as no
\* process starts, ends or changes, a row keeps its name and desktop id.  For runs
\* with MaxChanges = 0.
LabelIsSteady ==
    [][ \A a \in published, b \in published' :
            a.key = b.key => a.name = b.name /\ a.desktopId = b.desktopId ]_vars
=============================================================================
