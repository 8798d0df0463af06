--------------------------- MODULE ProcessResolver ---------------------------
(***************************************************************************)
(* daemon/src/ProcessResolver.cpp: who a pid is, read out of /proc file by *)
(* file and cached under the pid and the start time of the process.        *)
(*                                                                         *)
(* The files of /proc/<pid> are read one after the other; the process may  *)
(* exit, call exec(), be moved to another cgroup, or make room for another *)
(* process with its pid between any two reads.  What a process shows in    *)
(* /proc is an image: its comm, exe and cgroup.  Texts are atoms: that an  *)
(* executable is a generic interpreter and what a cgroup leaf says are     *)
(* part of the image, the parsing of "stat" and the unescaping of unit     *)
(* names are left out.                                                     *)
(***************************************************************************)
EXTENDS Integers, FiniteSets

CONSTANTS
    Pids,
    Images,      \* [comm, exe, leaf] records a process may show; exe may be None
    Generic,     \* the executables that are generic interpreters
    Icons,       \* [dir, id, icon]: .desktop files that may get installed
    None,        \* the empty string, a null pointer
    MaxChanges   \* bound: processes started, changed or gone in a run

ASSUME ResolverAssumption ==
    /\ Pids \subseteq Nat \ {0} /\ IsFiniteSet(Pids)
    /\ MaxChanges \in Nat

\* A process has a name; only the file of one that has gone is empty.
ASSUME ImagesAssumption == None \notin Images /\ \A i \in Images : i.comm # None
ASSUME IconsAssumption == \A f \in Icons : f.dir \in Nat

VARIABLES
    proc,       \* proc[p]: the image of the process with pid p, None if there is none
    started,    \* started[p]: its start time, or that of the last one
    changes,    \* changes made to the processes so far
    installed,  \* the .desktop files there are
    cache,      \* m_cache
    iconCache,  \* m_iconCache
    reading     \* the call of resolve() in progress

systemVars == <<proc, started, changes, installed>>
resolverVars == <<cache, iconCache, reading>>

Texts == {None} \cup UNION {{i.comm, i.exe, i.leaf.id} : i \in Images}

Info == [appKey : {"exe", "app", "unit", "comm"} \X Texts, name : Texts, comm : Texts,
         exePath : Texts, desktopId : Texts, icon : {f.icon : f \in Icons} \cup {None}]

NotReading == [step |-> "none"]

-----------------------------------------------------------------------------
\* The system.
Spawn(p, image) ==
    /\ proc[p] = None
    /\ changes < MaxChanges
    /\ changes' = changes + 1
    /\ proc' = [proc EXCEPT ![p] = image]
    /\ started' = [started EXCEPT ![p] = @ + 1]
    /\ UNCHANGED installed

\* exec(), or a move to another cgroup.  The start time stays.
Becomes(p, image) ==
    /\ proc[p] \notin {None, image}
    /\ changes < MaxChanges
    /\ changes' = changes + 1
    /\ proc' = [proc EXCEPT ![p] = image]
    /\ UNCHANGED <<started, installed>>

Exit(p) ==
    /\ proc[p] # None
    /\ changes < MaxChanges
    /\ changes' = changes + 1
    /\ proc' = [proc EXCEPT ![p] = None]
    /\ UNCHANGED <<started, installed>>

Install(file) ==
    /\ file \notin installed
    /\ changes < MaxChanges
    /\ changes' = changes + 1
    /\ installed' = installed \cup {file}
    /\ UNCHANGED <<proc, started>>

-----------------------------------------------------------------------------
\* parseCgroupIdentity(): a leaf has a suffix, a prefix and the id between them.
\* Only the unit of a container keeps its meaning as a scope.
DesktopId(leaf) ==
    IF leaf.suffix \in {"scope", "service"} /\ leaf.prefix = "app" THEN leaf.id ELSE None

Unit(leaf) ==
    IF \/ leaf.suffix = "scope" /\ leaf.prefix = "container"
       \/ leaf.suffix = "service" /\ leaf.prefix # "app"
    THEN leaf.id ELSE None

\* Faulty: no last resort.
AppKeyWithoutComm(comm, exe, leaf) ==
    IF exe # None /\ exe \notin Generic THEN <<"exe", exe>>
    ELSE IF DesktopId(leaf) # None THEN <<"app", DesktopId(leaf)>>
    ELSE IF Unit(leaf) # None THEN <<"unit", Unit(leaf)>>
    ELSE IF exe # None THEN <<"exe", exe>>
    ELSE None

\* The grouping key: the first of these that says something.
AppKey(comm, exe, leaf) ==
    IF exe # None /\ exe \notin Generic THEN <<"exe", exe>>
    ELSE IF DesktopId(leaf) # None THEN <<"app", DesktopId(leaf)>>
    ELSE IF Unit(leaf) # None THEN <<"unit", Unit(leaf)>>
    ELSE IF exe # None THEN <<"exe", exe>>
    ELSE <<"comm", comm>>

\* parseIconKey() over kApplicationDirs, in their order.
IconOnDisk(id) ==
    LET files == {f \in installed : f.id = id}
    IN  IF files = {} THEN None
        ELSE (CHOOSE f \in files : \A g \in files : f.dir <= g.dir).icon

\* iconFor(): misses are cached as well as hits.
IconFor(id) ==
    IF id = None THEN None
    ELSE IF id \in DOMAIN iconCache THEN iconCache[id] ELSE IconOnDisk(id)

IconCached(id) ==
    IF id = None \/ id \in DOMAIN iconCache THEN iconCache
    ELSE [d \in DOMAIN iconCache \cup {id} |->
              IF d = id THEN IconOnDisk(id) ELSE iconCache[d]]

InfoOf(comm, exe, leaf) ==
    [appKey |-> AppKey(comm, exe, leaf), name |-> IF exe = None THEN comm ELSE exe,
     comm |-> comm, exePath |-> exe, desktopId |-> DesktopId(leaf),
     icon |-> IconFor(DesktopId(leaf))]

NoLeaf == [suffix |-> "none", prefix |-> "none", id |-> None]

\* A file of /proc/<pid>, empty when the process has gone.
Field(p, f) ==
    IF proc[p] = None THEN (IF f = "leaf" THEN NoLeaf ELSE None) ELSE proc[p][f]

-----------------------------------------------------------------------------
\* resolve(pid, bpfComm): each step reads one file; the last one returns.
\* Faulty: the start time is not compared.
ValidByPid(p) == p \in DOMAIN cache

Valid(p) == p \in DOMAIN cache /\ cache[p].start = started[p]

\* The process has gone, or it is in the cache.
Gone(p) == proc[p] = None
Hit(p) == proc[p] # None /\ Valid(p)

ReadStat(p, bpfComm) ==
    /\ reading = NotReading
    /\ ~Gone(p) /\ ~Hit(p)
    /\ reading' = [step |-> "comm", pid |-> p, bpfComm |-> bpfComm, start |-> started[p]]
    /\ UNCHANGED <<cache, iconCache>>

ReadComm ==
    /\ reading.step = "comm"
    /\ LET read == Field(reading.pid, "comm") IN
         reading' = [step |-> "exe", pid |-> reading.pid, start |-> reading.start,
                     comm |-> IF read = None THEN reading.bpfComm ELSE read]
    /\ UNCHANGED <<cache, iconCache>>

ReadExe ==
    /\ reading.step = "exe"
    /\ reading' = [step |-> "cgroup", pid |-> reading.pid, start |-> reading.start,
                   comm |-> reading.comm, exe |-> Field(reading.pid, "exe")]
    /\ UNCHANGED <<cache, iconCache>>

\* What resolve() returns once the cgroup has been read.
ReadInfo == InfoOf(reading.comm, reading.exe, Field(reading.pid, "leaf"))

ReadCgroup ==
    /\ reading.step = "cgroup"
    /\ cache' = [p \in DOMAIN cache \cup {reading.pid} |->
           IF p = reading.pid THEN [start |-> reading.start, info |-> ReadInfo] ELSE cache[p]]
    /\ iconCache' = IconCached(DesktopId(Field(reading.pid, "leaf")))
    /\ reading' = NotReading

\* Faulty: nothing is ever dropped.
NeverPruned(livePids) == cache

Pruned(livePids) == [p \in DOMAIN cache \cap livePids |-> cache[p]]

ResolverInit ==
    /\ started = [p \in Pids |-> 1]
    /\ changes = 0
    /\ installed = {}
    /\ cache = [p \in {} |-> None]
    /\ iconCache = [d \in {} |-> None]
    /\ reading = NotReading
=============================================================================
