--------------------------- MODULE GroupingProofs ---------------------------
(***************************************************************************)
(* Proofs about Grouping, for any processes and images: a process is never *)
(* given the identity of another one that had its pid, the cache does not  *)
(* outgrow a tick, and what a row says is settled by who is in it.         *)
(***************************************************************************)
EXTENDS Grouping, TLAPS, SequenceTheorems, FiniteSetTheorems, WellFoundedInduction

-----------------------------------------------------------------------------
(* Types. *)

Samples == [pid : Pids, bytes : {0, 1}, comm : {ThreadName}]

Readings ==
    {NotReading}
        \cup [step : {"comm"}, pid : Pids, bpfComm : {ThreadName}, start : Nat]
        \cup [step : {"exe"}, pid : Pids, start : Nat, comm : Texts]
        \cup [step : {"cgroup"}, pid : Pids, start : Nat, comm : Texts, exe : Texts]

Resolutions == [sample : Samples, info : Info \cup {None}]

Typed ==
    /\ TypeOK
    /\ \A p \in Pids : started[p] <= changes + 1
    /\ reading \in Readings
    /\ samples \in Seq(Samples)
    /\ resolved \in Seq(Resolutions)

(* The tick: a sample is still to be looked at, live or dead. *)

SampledPids == {samples[i].pid : i \in 1..Len(samples)}

TickInOrder ==
    /\ \A i, j \in 1..Len(samples) : i # j => samples[i].pid # samples[j].pid
    /\ SampledPids \cap (livePids \cup deadPids) = {}
    /\ livePids \cap deadPids = {}
    /\ livePids = Found /\ livePids \subseteq DOMAIN cache
    /\ reading # NotReading => samples # <<>> /\ reading.pid = Head(samples).pid
    /\ phase = "idle" => samples = <<>> /\ livePids = {} /\ deadPids = {}

(* Identities: what is cached or read so far belongs to the process there is now, *)
(* unless that one is not the one whose start time was read.                      *)

OwnComm(p, comm) == comm \in {i.comm : i \in lives[p]}
OwnExe(p, exe) == exe \in {i.exe : i \in lives[p]}

OwnInfo(p, info) ==
    /\ OwnComm(p, info.comm) /\ OwnExe(p, info.exePath)
    /\ \E i \in lives[p] :
         /\ info.desktopId = DesktopId(i.leaf)
         /\ info.appKey = AppKey(info.comm, info.exePath, i.leaf)

StillThere(p, start) == proc[p] # None /\ start = started[p]

IdentityInv ==
    /\ \A p \in Pids : proc[p] # None => proc[p] \in lives[p]
    /\ \A p \in DOMAIN cache :
         /\ cache[p].start <= started[p]
         /\ StillThere(p, cache[p].start) => OwnInfo(p, cache[p].info)
    /\ reading # NotReading =>
         /\ reading.start <= started[reading.pid]
         /\ StillThere(reading.pid, reading.start) =>
              /\ reading.step \in {"exe", "cgroup"} => OwnComm(reading.pid, reading.comm)
              /\ reading.step = "cgroup" => OwnExe(reading.pid, reading.exe)

-----------------------------------------------------------------------------
(* Groups. *)

Members(r, k) == {i \in 1..Len(r) : r[i].sample.bytes > 0 /\ KeyOf(r[i].sample, r[i].info) = k}

Apps(r, k) == {i \in Members(r, k) : r[i].info # None /\ r[i].info.desktopId # None}

Lowest(r, S, i) == i \in S /\ \A j \in S : r[i].sample.pid <= r[j].sample.pid

Rows == [name : Texts, namePid : Pids, exePath : Texts, desktopId : Texts,
         icon : {f.icon : f \in Icons} \cup {None}, desktopPid : Pids \cup {0}, bytes : Nat]

\* A row and those in it.
Describes(g, r, k) ==
    /\ g \in Rows
    /\ \E i \in Members(r, k) :
         /\ Lowest(r, Members(r, k), i)
         /\ g.namePid = r[i].sample.pid
         /\ g.name = (IF r[i].info = None THEN r[i].sample.comm ELSE r[i].info.name)
         /\ g.exePath = (IF r[i].info = None THEN None ELSE r[i].info.exePath)
    /\ g.bytes = Cardinality(Members(r, k))
    /\ IF Apps(r, k) = {}
       THEN g.desktopPid = 0 /\ g.desktopId = None /\ g.icon = None
       ELSE \E i \in Apps(r, k) :
              /\ Lowest(r, Apps(r, k), i)
              /\ g.desktopPid = r[i].sample.pid
              /\ g.desktopId = r[i].info.desktopId
              /\ g.icon = r[i].info.icon

\* A group named by its comm has no executable: the key falls back to comm only then.
CommHasNoExe(info) == info.appKey[1] = "comm" => info.exePath = None

\* What is cached is named that way.
KeysInv == \A p \in DOMAIN cache : CommHasNoExe(cache[p].info)

\* The rows gs after the samples in r, whose pids are those in seen.
RowsRight(gs, r, seen) ==
    /\ \A i \in 1..Len(r) : r[i].info # None => CommHasNoExe(r[i].info)
    /\ {r[i].sample.pid : i \in 1..Len(r)} = seen
    /\ \A i, j \in 1..Len(r) : i # j => r[i].sample.pid # r[j].sample.pid
    /\ \A k : k \in DOMAIN gs <=> Members(r, k) # {}
    /\ \A k \in DOMAIN gs : Describes(gs[k], r, k)

RowsInv == RowsRight(groups, resolved, livePids \cup deadPids)

-----------------------------------------------------------------------------
(* Sequences. *)

LEMMA Shortened ==
  ASSUME NEW S, NEW s \in Seq(S), s # <<>>
  PROVE  /\ Tail(s) \in Seq(S) /\ Head(s) \in S /\ Head(s) = s[1]
         /\ Len(s) \in Nat \ {0} /\ Len(Tail(s)) = Len(s) - 1
         /\ \A n \in 1..Len(Tail(s)) : Tail(s)[n] = s[n + 1]
<1>1. Len(s) \in Nat \ {0}
  BY EmptySeq
<1>2. Head(s) = s[1]
  BY <1>1
<1>3. QED
  BY <1>1, <1>2, HeadTailProperties

LEMMA Lengthened ==
  ASSUME NEW S, NEW s \in Seq(S), NEW x \in S
  PROVE  /\ Append(s, x) \in Seq(S)
         /\ Len(s) \in Nat /\ Len(Append(s, x)) = Len(s) + 1
         /\ 1..Len(Append(s, x)) = 1..Len(s) \cup {Len(s) + 1}
         /\ \A n \in 1..Len(s) : Append(s, x)[n] = s[n]
         /\ Append(s, x)[Len(s) + 1] = x
<1>1. Len(s) \in Nat /\ Len(Append(s, x)) = Len(s) + 1
  BY LenProperties
<1>2. 1..Len(s) + 1 = 1..Len(s) \cup {Len(s) + 1}
  BY <1>1
<1>3. QED
  BY <1>1, <1>2

-----------------------------------------------------------------------------
(* What is read of a process are texts. *)

IconNames == {f.icon : f \in Icons} \cup {None}

LEMMA TextsOfImages ==
  /\ None \in Texts
  /\ \A i \in Images : i.comm \in Texts /\ i.exe \in Texts /\ i.leaf.id \in Texts
<1>1. None \in Texts
  BY DEF Texts
<1>2. ASSUME NEW i \in Images PROVE {i.comm, i.exe, i.leaf.id} \subseteq Texts
  <2>1. {i.comm, i.exe, i.leaf.id} \in {{j.comm, j.exe, j.leaf.id} : j \in Images}
    OBVIOUS
  <2>2. QED
    BY <2>1 DEF Texts
<1>3. QED
  BY <1>1, <1>2

LEMMA FieldTypes ==
  ASSUME proc \in [Pids -> Images \cup {None}], NEW p \in Pids
  PROVE  /\ Field(p, "comm") \in Texts /\ Field(p, "exe") \in Texts
         /\ Field(p, "leaf").id \in Texts
<1>1. CASE proc[p] = None
  BY <1>1, TextsOfImages DEF Field, NoLeaf
<1>2. CASE proc[p] # None
  <2>1. proc[p] \in Images
    BY <1>2
  <2>2. QED
    BY <1>2, <2>1, TextsOfImages DEF Field
<1>3. QED
  BY <1>1, <1>2

LEMMA KeyTypes ==
  ASSUME NEW comm \in Texts, NEW exe \in Texts, NEW leaf, leaf.id \in Texts
  PROVE  /\ DesktopId(leaf) \in Texts
         /\ AppKey(comm, exe, leaf) \in {"exe", "app", "unit", "comm"} \X Texts
         /\ AppKey(comm, exe, leaf)[1] = "comm" => exe = None
<1>1. DesktopId(leaf) \in Texts /\ Unit(leaf) \in Texts
  BY TextsOfImages DEF DesktopId, Unit
<1>2. QED
  BY <1>1 DEF AppKey

\* Of the .desktop files for an id one comes first.
LEMMA IconOnDiskType ==
  ASSUME TypeOK, NEW id
  PROVE  IconOnDisk(id) \in IconNames
<1> DEFINE files == {f \in installed : f.id = id}
           dirs == {f.dir : f \in files}
<1>1. CASE files = {}
  BY <1>1 DEF IconOnDisk, IconNames
<1>2. CASE files # {}
  <2>1. dirs \subseteq Nat /\ dirs # {}
    BY <1>2, IconsAssumption DEF TypeOK
  <2>2. PICK d \in dirs : \A e \in dirs : ~(<<e, d>> \in OpToRel(<, Nat))
    BY <2>1, NatLessThanWellFounded, WFMin
  <2> HIDE DEF dirs
  <2>3. \A e \in dirs : d <= e
    <3>1. \A e \in dirs : ~(e < d)
      BY <2>1, <2>2 DEF OpToRel
    <3>2. QED
      BY <2>1, <3>1
  <2> USE DEF dirs
  <2>4. \E f \in files : \A g \in files : f.dir <= g.dir
    BY <2>3
  <2>5. (CHOOSE f \in files : \A g \in files : f.dir <= g.dir) \in files
    BY <2>4
  <2>6. files \subseteq Icons
    BY DEF TypeOK
  <2>7. QED
    BY <1>2, <2>5, <2>6 DEF IconOnDisk, IconNames
<1>3. QED
  BY <1>1, <1>2

LEMMA IconTypes ==
  ASSUME TypeOK, NEW id
  PROVE  /\ IconFor(id) \in IconNames
         /\ \A d \in DOMAIN IconCached(id) : IconCached(id)[d] \in IconNames
<1>1. \A d \in DOMAIN iconCache : iconCache[d] \in IconNames
  BY DEF TypeOK, IconNames
<1>2. IconFor(id) \in IconNames
  BY <1>1, IconOnDiskType DEF IconFor, IconNames
<1>3. \A d \in DOMAIN IconCached(id) : IconCached(id)[d] \in IconNames
  BY <1>1, IconOnDiskType DEF IconCached
<1>4. QED
  BY <1>2, <1>3

LEMMA InfoType ==
  ASSUME TypeOK, NEW comm \in Texts, NEW exe \in Texts, NEW leaf, leaf.id \in Texts
  PROVE  InfoOf(comm, exe, leaf) \in Info /\ CommHasNoExe(InfoOf(comm, exe, leaf))
<1>1. IconFor(DesktopId(leaf)) \in IconNames
  BY IconTypes
<1>2. QED
  BY <1>1, KeyTypes DEF InfoOf, Info, IconNames, CommHasNoExe

LEMMA ReadInfoType ==
  ASSUME Typed, reading.step = "cgroup"
  PROVE  /\ ReadInfo \in Info /\ CommHasNoExe(ReadInfo)
         /\ reading.pid \in Pids /\ reading.start \in Nat /\ reading # NotReading
<1>1. reading \in [step : {"cgroup"}, pid : Pids, start : Nat, comm : Texts, exe : Texts]
  BY DEF Typed, Readings, NotReading
<1>2. QED
  BY <1>1, FieldTypes, InfoType DEF ReadInfo, NotReading, Typed, TypeOK

-----------------------------------------------------------------------------
(* Types and the order of a tick. *)

TickInv == Typed /\ TickInOrder

LEMMA TickInit == Init => TickInv
<1> SUFFICES ASSUME Init PROVE TickInv
  OBVIOUS
<1>1. proc \in [Pids -> Images \cup {None}] /\ lives \in [Pids -> SUBSET Images]
  BY DEF Init
<1>2. samples = <<>> /\ resolved = <<>> /\ samples \in Seq(Samples) /\ resolved \in Seq(Resolutions)
  BY EmptySeq DEF Init
<1>3. Typed
  BY <1>1, <1>2, ResolverAssumption DEF Init, ResolverInit, Typed, TypeOK, Readings, NotReading
<1>4. SampledPids = {} /\ 1..Len(samples) = {}
  BY <1>2 DEF SampledPids
<1>5. TickInOrder
  BY <1>2, <1>4 DEF Init, ResolverInit, TickInOrder, Found
<1>6. QED
  BY <1>3, <1>5 DEF TickInv

\* Processes come, change and go.
LEMMA TickSystem ==
  ASSUME TickInv, DaemonFrame, lives' \in [Pids -> SUBSET Images],
         \/ \E p \in Pids, i \in Images : Spawn(p, i) \/ Becomes(p, i)
         \/ \E p \in Pids : Exit(p)
         \/ \E f \in Icons : Install(f)
  PROVE  TickInv'
<1>1. /\ proc \in [Pids -> Images \cup {None}]
      /\ started \in [Pids -> 1..MaxChanges + 1] /\ changes \in 0..MaxChanges
      /\ \A p \in Pids : started[p] <= changes + 1
      /\ installed \subseteq Icons
  BY DEF TickInv, Typed, TypeOK
<1>2. /\ proc' \in [Pids -> Images \cup {None}]
      /\ started' \in [Pids -> 1..MaxChanges + 1] /\ changes' \in 0..MaxChanges
      /\ \A p \in Pids : started'[p] <= changes' + 1
      /\ installed' \subseteq Icons
  <2>1. CASE \E p \in Pids, i \in Images : Spawn(p, i)
    BY <1>1, <2>1, ResolverAssumption DEF Spawn
  <2>2. CASE \E p \in Pids, i \in Images : Becomes(p, i)
    BY <1>1, <2>2, ResolverAssumption DEF Becomes
  <2>3. CASE \E p \in Pids : Exit(p)
    BY <1>1, <2>3, ResolverAssumption DEF Exit
  <2>4. CASE \E f \in Icons : Install(f)
    BY <1>1, <2>4, ResolverAssumption DEF Install
  <2>5. QED
    BY <2>1, <2>2, <2>3, <2>4
<1>3. Typed'
  <2>1. UNCHANGED <<cache, iconCache, reading, moved, phase, samples, livePids, deadPids, resolved>>
    BY DEF DaemonFrame, resolverVars, tickVars
  <2>2. TypeOK'
    BY <1>2, <2>1 DEF TickInv, Typed, TypeOK
  <2>3. QED
    BY <1>2, <2>1, <2>2 DEF TickInv, Typed
<1>4. TickInOrder'
  BY DEF TickInv, TickInOrder, DaemonFrame, resolverVars, tickVars, SampledPids, Found
<1>5. QED
  BY <1>3, <1>4 DEF TickInv

LEMMA TickTransfer ==
  ASSUME TickInv, NEW p \in Pids, Transfer(p), SystemFrame, UNCHANGED resolverVars
  PROVE  TickInv'
<1>1. moved' \in [DOMAIN moved' -> {0, 1}] /\ DOMAIN moved' \subseteq Pids
  BY DEF TickInv, Typed, TypeOK, Transfer
<1>2. /\ UNCHANGED <<proc, started, changes, installed, lives, cache, iconCache, reading>>
      /\ UNCHANGED <<phase, samples, livePids, deadPids, resolved>>
  BY DEF Transfer, SystemFrame, systemVars, resolverVars
<1>3. TypeOK'
  BY <1>1, <1>2 DEF TickInv, Typed, TypeOK
<1>4. Typed'
  BY <1>2, <1>3 DEF TickInv, Typed
<1>5. SampledPids' = SampledPids
  BY <1>2 DEF SampledPids
<1>6. TickInOrder'
  BY <1>2, <1>5 DEF TickInv, TickInOrder, Found
<1>7. QED
  BY <1>4, <1>6 DEF TickInv

\* What the walk over the map gives: every pid whose counter was kept, once.
LEMMA MapOrder ==
  ASSUME TypeOK, NEW kept \in SUBSET DOMAIN moved, NEW order \in SetToSeqs(kept)
  PROVE  /\ order \in Seq(kept) /\ Len(order) \in Nat /\ DOMAIN order = 1..Len(order)
         /\ \A i, j \in 1..Len(order) : i # j => order[i] # order[j]
<1> DEFINE N == Cardinality(kept)
<1>1. IsFiniteSet(kept)
  BY ResolverAssumption, FS_Subset DEF TypeOK
<1>2. N \in Nat
  BY <1>1, FS_CardinalityType
<1>3. order \in [1..N -> kept] /\ \A i, j \in 1..N : i # j => order[i] # order[j]
  BY DEF SetToSeqs
<1> HIDE DEF N
<1>4. order \in Seq(kept) /\ Len(order) = N
  BY <1>2, <1>3, IsASeq, LenProperties
<1>5. QED
  BY <1>2, <1>3, <1>4

LEMMA TickStart ==
  ASSUME TickInv, StartTick, SystemFrame, UNCHANGED resolverVars
  PROVE  TickInv'
<1>0. PICK kept \in SUBSET DOMAIN moved :
        /\ moved' = [p \in kept |-> 0]
        /\ \E order \in SetToSeqs(kept) :
             samples' = [i \in DOMAIN order |->
                 [pid |-> order[i], bytes |-> moved[order[i]], comm |-> ThreadName]]
  BY DEF StartTick
<1>1. PICK order \in SetToSeqs(kept) :
        samples' = [i \in DOMAIN order |->
            [pid |-> order[i], bytes |-> moved[order[i]], comm |-> ThreadName]]
  BY <1>0
<1>2. /\ order \in Seq(kept) /\ Len(order) \in Nat /\ DOMAIN order = 1..Len(order)
      /\ \A i, j \in 1..Len(order) : i # j => order[i] # order[j]
      /\ \A i \in 1..Len(order) : order[i] \in DOMAIN moved
  BY MapOrder, ElementOfSeq DEF TickInv, Typed
<1>3. /\ samples' \in [1..Len(order) -> Samples]
      /\ \A i \in 1..Len(order) : samples'[i].pid = order[i]
  BY <1>1, <1>2 DEF TickInv, Typed, TypeOK, Samples
<1>4. samples' \in Seq(Samples) /\ Len(samples') = Len(order)
  BY <1>2, <1>3, IsASeq, LenProperties
<1>5. /\ UNCHANGED <<proc, started, changes, installed, lives, cache, iconCache, reading>>
      /\ phase = "idle" /\ phase' = "update" /\ livePids' = {} /\ deadPids' = {}
      /\ resolved' = <<>>
  BY DEF StartTick, SystemFrame, systemVars, resolverVars
<1>6. TypeOK'
  BY <1>0, <1>5 DEF TickInv, Typed, TypeOK
<1>7. Typed'
  BY <1>4, <1>5, <1>6, EmptySeq DEF TickInv, Typed
<1>8. reading = NotReading
  BY <1>5 DEF TickInv, TickInOrder
<1>10. TickInOrder'
  BY <1>2, <1>3, <1>4, <1>5, <1>8 DEF TickInOrder, Found
<1>11. QED
  BY <1>7, <1>10 DEF TickInv

LEMMA TickRead ==
  ASSUME TickInv, SystemFrame, UNCHANGED <<tickVars, resolved>>,
         (\E p \in Pids : Resolving(p) /\ ReadStat(p, ThreadName)) \/ ReadComm \/ ReadExe
  PROVE  TickInv'
<1>1. /\ proc \in [Pids -> Images \cup {None}] /\ started \in [Pids -> 1..MaxChanges + 1]
      /\ MaxChanges \in Nat /\ reading \in Readings
  BY ResolverAssumption DEF TickInv, Typed, TypeOK
<1>2. UNCHANGED <<cache, iconCache>>
  BY DEF ReadStat, ReadComm, ReadExe
<1>3. /\ reading' \in Readings /\ reading' # NotReading
      /\ samples # <<>> /\ reading'.pid = Head(samples).pid
  <2>1. CASE \E p \in Pids : Resolving(p) /\ ReadStat(p, ThreadName)
    BY <1>1, <2>1 DEF Resolving, ReadStat, Readings, NotReading
  <2>2. CASE ReadComm
    <3>1. reading \in [step : {"comm"}, pid : Pids, bpfComm : {ThreadName}, start : Nat]
      BY <1>1, <2>2 DEF ReadComm, Readings, NotReading
    <3>2. Field(reading.pid, "comm") \in Texts
      BY <1>1, <3>1, FieldTypes
    <3>3. /\ reading' = [step |-> "exe", pid |-> reading.pid, start |-> reading.start,
                         comm |-> reading'.comm]
          /\ reading'.comm \in Texts
      BY <2>2, <3>1, <3>2, ThreadNameAssumption DEF ReadComm
    <3>4. reading # NotReading
      BY <2>2 DEF ReadComm, NotReading
    <3>5. reading' \in [step : {"exe"}, pid : Pids, start : Nat, comm : Texts]
      BY <3>1, <3>3
    <3>6. QED
      BY <3>3, <3>4, <3>5 DEF TickInv, TickInOrder, Readings, NotReading
  <2>3. CASE ReadExe
    <3>1. reading \in [step : {"exe"}, pid : Pids, start : Nat, comm : Texts]
      BY <1>1, <2>3 DEF ReadExe, Readings, NotReading
    <3>2. Field(reading.pid, "exe") \in Texts
      BY <1>1, <3>1, FieldTypes
    <3>3. reading # NotReading
      BY <2>3 DEF ReadExe, NotReading
    <3>4. reading' \in [step : {"cgroup"}, pid : Pids, start : Nat, comm : Texts, exe : Texts]
      BY <2>3, <3>1, <3>2 DEF ReadExe
    <3>5. QED
      BY <2>3, <3>3, <3>4 DEF TickInv, TickInOrder, Readings, NotReading, ReadExe
  <2>4. QED
    BY <2>1, <2>2, <2>3
<1>4. reading'.step \in {"none", "comm", "exe", "cgroup"}
  BY <1>3 DEF Readings, NotReading
<1>5. UNCHANGED <<proc, started, changes, installed, lives, moved, phase, samples,
                  livePids, deadPids, resolved>>
  BY DEF SystemFrame, systemVars, tickVars
<1>6. TypeOK'
  BY <1>2, <1>4, <1>5 DEF TickInv, Typed, TypeOK
<1>7. Typed'
  BY <1>3, <1>5, <1>6 DEF TickInv, Typed
<1>8. SampledPids' = SampledPids
  BY <1>5 DEF SampledPids
<1>9. TickInOrder'
  BY <1>2, <1>3, <1>5, <1>8 DEF TickInv, TickInOrder, Found
<1>10. QED
  BY <1>7, <1>9 DEF TickInv

\* A sample is taken from the walk to the live or to the dead.
LEMMA TickTake ==
  ASSUME TickInv, SystemFrame, samples # <<>>, NEW info \in Info \cup {None}, Take(info),
         reading' = NotReading,
         DOMAIN cache \subseteq DOMAIN cache', DOMAIN cache' \subseteq Pids,
         info # None => Head(samples).pid \in DOMAIN cache',
         \A p \in DOMAIN cache' : cache'[p].start \in Nat /\ cache'[p].info \in Info,
         \A d \in DOMAIN iconCache' : iconCache'[d] \in IconNames
  PROVE  TickInv'
<1> DEFINE s == Head(samples)
<1>1. samples \in Seq(Samples) /\ resolved \in Seq(Resolutions)
  BY DEF TickInv, Typed
<1>2. /\ samples' = Tail(samples) /\ samples' \in Seq(Samples) /\ s \in Samples
      /\ s = samples[1] /\ Len(samples) \in Nat \ {0} /\ Len(samples') = Len(samples) - 1
      /\ \A n \in 1..Len(samples') : samples'[n] = samples[n + 1]
  BY <1>1, Shortened DEF Take
<1>3. s.pid \in Pids
  BY <1>2 DEF Samples
<1>4. /\ livePids' = IF info = None THEN livePids ELSE livePids \cup {s.pid}
      /\ deadPids' = IF info = None THEN deadPids \cup {s.pid} ELSE deadPids
      /\ resolved' = Append(resolved, [sample |-> s, info |-> info])
      /\ UNCHANGED <<proc, started, changes, installed, lives, moved, phase>>
  BY DEF Take, SystemFrame, systemVars
<1>5. s.pid \in SampledPids
  BY <1>2 DEF SampledPids
<1>6. ASSUME NEW n \in 1..Len(samples')
      PROVE  samples'[n].pid # s.pid /\ samples'[n].pid \in SampledPids
  <2>1. n + 1 \in 1..Len(samples) /\ 1 \in 1..Len(samples) /\ n + 1 # 1
    BY <1>2
  <2>2. samples[n + 1].pid # samples[1].pid /\ samples[n + 1].pid \in SampledPids
    BY <2>1 DEF TickInv, TickInOrder, SampledPids
  <2>3. QED
    BY <1>2, <2>2
<1>7. s.pid \notin SampledPids' /\ SampledPids' \subseteq SampledPids
  BY <1>6 DEF SampledPids
<1>8. livePids' \cap deadPids' = {} /\ livePids' \cup deadPids' = livePids \cup deadPids \cup {s.pid}
  BY <1>4, <1>5 DEF TickInv, TickInOrder
<1>9. TypeOK'
  BY <1>3, <1>4, <1>8 DEF TickInv, Typed, TypeOK, NotReading, IconNames
<1>10. resolved' \in Seq(Resolutions)
  BY <1>1, <1>2, <1>4, Lengthened DEF Resolutions
<1>11. Typed'
  BY <1>2, <1>4, <1>9, <1>10 DEF TickInv, Typed, Readings
<1>12. ASSUME NEW i \in 1..Len(samples'), NEW j \in 1..Len(samples'), i # j
       PROVE  samples'[i].pid # samples'[j].pid
  <2>1. i + 1 \in 1..Len(samples) /\ j + 1 \in 1..Len(samples) /\ i + 1 # j + 1
    BY <1>2, <1>12
  <2>2. QED
    BY <1>2, <2>1 DEF TickInv, TickInOrder
<1>13. phase # "idle"
  BY DEF TickInv, TickInOrder
<1>14. Found' = IF info = None THEN Found ELSE Found \cup {s.pid}
  <2> DEFINE r == [sample |-> s, info |-> info]
  <2>1. /\ DOMAIN resolved' = DOMAIN resolved \cup {Len(resolved) + 1}
        /\ \A n \in DOMAIN resolved : resolved'[n] = resolved[n]
        /\ resolved'[Len(resolved) + 1] = r
    BY <1>1, <1>2, <1>4, <1>10, Lengthened, LenProperties DEF Resolutions
  <2>2. Found' = {resolved'[i].sample.pid : i \in {j \in DOMAIN resolved' : resolved'[j].info # None}}
    BY DEF Found
  <2>3. QED
    BY <2>1, <2>2 DEF Found
<1>15. livePids' = Found' /\ livePids' \subseteq DOMAIN cache'
  BY <1>4, <1>14 DEF TickInv, TickInOrder
<1>16. TickInOrder'
  BY <1>4, <1>5, <1>7, <1>8, <1>12, <1>13, <1>15 DEF TickInv, TickInOrder
<1>17. QED
  BY <1>11, <1>16 DEF TickInv

LEMMA TickTakes ==
  ASSUME TickInv, SystemFrame, (\E p \in Pids : TakeGone(p) \/ TakeHit(p)) \/ TakeRead
  PROVE  TickInv'
<1>1. /\ DOMAIN cache \subseteq Pids
      /\ \A p \in DOMAIN cache : cache[p].start \in Nat /\ cache[p].info \in Info
      /\ \A d \in DOMAIN iconCache : iconCache[d] \in IconNames
  BY DEF TickInv, Typed, TypeOK, IconNames
<1>2. CASE \E p \in Pids : TakeGone(p)
  BY <1>1, <1>2, TickTake DEF TakeGone, Resolving, resolverVars
<1>3. CASE \E p \in Pids : TakeHit(p)
  <2>1. PICK p \in Pids : TakeHit(p)
    BY <1>3
  <2>2. cache[p].info \in Info /\ p \in DOMAIN cache
    BY <1>1, <2>1 DEF TakeHit, Hit, Valid
  <2>3. QED
    BY <1>1, <2>1, <2>2, TickTake DEF TakeHit, Resolving, resolverVars
<1>4. CASE TakeRead
  <2>1. /\ ReadInfo \in Info /\ reading.pid \in Pids /\ reading.start \in Nat
        /\ reading # NotReading
    BY <1>4, ReadInfoType DEF TickInv, TakeRead, ReadCgroup
  <2>2. samples # <<>> /\ reading.pid = Head(samples).pid
    BY <2>1 DEF TickInv, TickInOrder
  <2>3. /\ DOMAIN cache' = DOMAIN cache \cup {reading.pid} /\ DOMAIN cache' \subseteq Pids
        /\ \A p \in DOMAIN cache' : cache'[p].start \in Nat /\ cache'[p].info \in Info
    BY <1>1, <1>4, <2>1 DEF TakeRead, ReadCgroup
  <2>4. \A d \in DOMAIN iconCache' : iconCache'[d] \in IconNames
    BY <1>4, IconTypes DEF TickInv, Typed, TakeRead, ReadCgroup
  <2>5. QED
    BY <1>4, <2>1, <2>2, <2>3, <2>4, TickTake DEF TakeRead, ReadCgroup
<1>5. QED
  BY <1>2, <1>3, <1>4

LEMMA TickEnd ==
  ASSUME TickInv, EndTick, SystemFrame
  PROVE  TickInv'
<1>1. /\ UNCHANGED <<proc, started, changes, installed, lives, iconCache, reading, samples>>
      /\ samples = <<>> /\ phase' = "idle" /\ livePids' = {} /\ deadPids' = {}
      /\ resolved' = <<>> /\ moved' = [p \in DOMAIN moved \ deadPids |-> moved[p]]
      /\ cache' = [p \in DOMAIN cache \cap livePids |-> cache[p]]
  BY DEF EndTick, SystemFrame, systemVars, Pruned
<1>2. TypeOK'
  BY <1>1 DEF TickInv, Typed, TypeOK
<1>3. Typed'
  BY <1>1, <1>2, EmptySeq DEF TickInv, Typed
<1>4. SampledPids' = {} /\ 1..Len(samples') = {}
  BY <1>1 DEF SampledPids
<1>5. TickInOrder'
  BY <1>1, <1>4 DEF TickInv, TickInOrder, Found
<1>6. QED
  BY <1>3, <1>5 DEF TickInv

LEMMA LivesType ==
  ASSUME TickInv, [Next]_vars
  PROVE  lives' \in [Pids -> SUBSET Images]
  BY DEF TickInv, Typed, TypeOK, Next, vars, SystemFrame

LEMMA TickNext == TickInv /\ [Next]_vars => TickInv'
<1> SUFFICES ASSUME TickInv, [Next]_vars PROVE TickInv'
  OBVIOUS
<1>1. CASE UNCHANGED vars
  <2>1. Typed'
    BY <1>1 DEF TickInv, Typed, TypeOK, vars, systemVars, resolverVars, tickVars
  <2>2. TickInOrder'
    BY <1>1 DEF TickInv, TickInOrder, SampledPids, Found, vars, resolverVars, tickVars
  <2>3. QED
    BY <2>1, <2>2 DEF TickInv
<1>2. QED
  BY <1>1, LivesType, TickSystem, TickTransfer, TickStart, TickRead, TickTakes, TickEnd
  DEF Next

LEMMA TickAlways == Spec => []TickInv
  BY TickInit, TickNext, PTL DEF Spec

\* Every variable keeps its type, whatever happens to processes while their files
\* are read; in particular no pid is both live and dead in a tick.
THEOREM TypeCorrect == Spec => []TypeOK
<1>1. TickInv => TypeOK
  BY DEF TickInv, Typed
<1>2. QED
  BY <1>1, TickAlways, PTL

\* When a tick ends the cache holds the pids its samples were resolved to, all of
\* them and no others, and until the next tick begins it does not change, whichever
\* counters are evicted meanwhile (CacheFollowsTick).
THEOREM CacheIsLastTick == Spec => CacheFollowsTick
<1>1. ASSUME TickInv, [Next]_vars, phase' = "idle"
      PROVE  DOMAIN cache' = IF phase = "idle" THEN DOMAIN cache ELSE Found
  <2>1. CASE UNCHANGED vars
    BY <1>1, <2>1 DEF vars, resolverVars, tickVars
  <2>2. CASE EndTick
    BY <1>1, <2>2 DEF TickInv, TickInOrder, EndTick, Pruned
  <2>3. CASE (\E p \in Pids : TakeGone(p) \/ TakeHit(p)) \/ TakeRead
    <3>1. phase' = phase
      BY <2>3 DEF TakeGone, TakeHit, TakeRead, Take
    <3>2. samples # <<>>
      BY <1>1, <2>3
      DEF TakeGone, TakeHit, TakeRead, Resolving, ReadCgroup, NotReading, TickInv, TickInOrder
    <3>3. QED
      BY <1>1, <3>1, <3>2 DEF TickInv, TickInOrder
  <2>4. CASE StartTick
    BY <1>1, <2>4 DEF StartTick
  <2>5. CASE UNCHANGED <<phase, cache>>
    BY <1>1, <2>5
  <2>6. CASE DaemonFrame
    BY <2>5, <2>6 DEF DaemonFrame, tickVars, resolverVars
  <2>7. CASE UNCHANGED <<tickVars, resolved>> /\ (ReadComm \/ ReadExe)
    BY <2>5, <2>7 DEF tickVars, ReadComm, ReadExe
  <2>8. CASE \E p \in Pids : Transfer(p) /\ SystemFrame /\ UNCHANGED resolverVars
    BY <2>5, <2>8 DEF Transfer, resolverVars
  <2>9. CASE \E p \in Pids : Resolving(p) /\ ReadStat(p, ThreadName) /\ SystemFrame
                          /\ UNCHANGED <<tickVars, resolved>>
    BY <2>5, <2>9 DEF ReadStat, tickVars
  <2>10. QED
    BY <1>1, <2>1, <2>2, <2>3, <2>4, <2>6, <2>7, <2>8, <2>9, Zenon DEF Next
<1>2. TickInv /\ [Next]_vars =>
        [phase' = "idle" =>
            DOMAIN cache' = IF phase = "idle" THEN DOMAIN cache ELSE Found]_vars
  BY <1>1
<1>3. QED
  BY <1>2, TickAlways, PTL DEF Spec, CacheFollowsTick

-----------------------------------------------------------------------------
(* Identities. *)

OwnInv == TickInv /\ IdentityInv

LEMMA OwnInit == Init => OwnInv
<1> SUFFICES ASSUME Init PROVE OwnInv
  OBVIOUS
<1>1. TickInv
  BY TickInit
<1>2. \A p \in Pids : proc[p] # None => proc[p] \in lives[p]
  BY DEF Init
<1>3. DOMAIN cache = {} /\ reading = NotReading
  BY DEF Init, ResolverInit
<1>4. QED
  BY <1>1, <1>2, <1>3 DEF OwnInv, IdentityInv

\* What a process has shown once stays its own.
LEMMA OwnGrows ==
  ASSUME NEW p, lives[p] \subseteq lives'[p]
  PROVE  /\ \A info : OwnInfo(p, info) => OwnInfo(p, info)'
         /\ \A comm : OwnComm(p, comm) => OwnComm(p, comm)'
         /\ \A exe : OwnExe(p, exe) => OwnExe(p, exe)'
<1>1. \A comm : OwnComm(p, comm) => OwnComm(p, comm)'
  BY DEF OwnComm
<1>2. \A exe : OwnExe(p, exe) => OwnExe(p, exe)'
  BY DEF OwnExe
<1>3. \A info : OwnInfo(p, info) => OwnInfo(p, info)'
  BY <1>1, <1>2 DEF OwnInfo, OwnComm, OwnExe
<1>4. QED
  BY <1>1, <1>2, <1>3

\* A step of the system that leaves everything as it is with the process with pid p
\* that was there when its start time was read.
Keeps(p) ==
    /\ started[p] <= started'[p]
    /\ \A start \in Nat : start <= started[p] /\ StillThere(p, start)' =>
           StillThere(p, start) /\ lives[p] \subseteq lives'[p]
    /\ proc'[p] # None => proc'[p] \in lives'[p]

LEMMA OwnSystem ==
  ASSUME OwnInv, TickInv', UNCHANGED resolverVars, \A p \in Pids : Keeps(p)
  PROVE  OwnInv'
<1>1. ASSUME NEW p \in DOMAIN cache
      PROVE  /\ cache[p].start <= started'[p]
             /\ StillThere(p, cache[p].start)' => OwnInfo(p, cache[p].info)'
  <2>1. p \in Pids /\ cache[p].start \in Nat /\ started[p] \in Nat /\ started'[p] \in Nat
    BY ResolverAssumption DEF OwnInv, TickInv, Typed, TypeOK, resolverVars
  <2>2. /\ cache[p].start <= started[p]
        /\ StillThere(p, cache[p].start) => OwnInfo(p, cache[p].info)
    BY DEF OwnInv, IdentityInv
  <2>3. cache'[p] = cache[p]
    BY DEF resolverVars
  <2>4. ASSUME StillThere(p, cache[p].start)' PROVE OwnInfo(p, cache[p].info)'
    <3>1. StillThere(p, cache[p].start) /\ lives[p] \subseteq lives'[p]
      BY <2>1, <2>2, <2>3, <2>4 DEF Keeps, StillThere
    <3>2. QED
      BY <2>2, <2>3, <3>1 DEF OwnInfo, OwnComm, OwnExe
  <2>5. QED
    BY <2>1, <2>2, <2>4 DEF Keeps
<1>2. ASSUME reading # NotReading
      PROVE  /\ reading.start <= started'[reading.pid]
             /\ StillThere(reading.pid, reading.start)' =>
                  /\ reading.step \in {"exe", "cgroup"} => OwnComm(reading.pid, reading.comm)'
                  /\ reading.step = "cgroup" => OwnExe(reading.pid, reading.exe)'
  <2> DEFINE p == reading.pid
  <2>1. p \in Pids /\ reading.start \in Nat
    BY <1>2 DEF OwnInv, TickInv, Typed, Readings
  <2>2. started[p] \in Nat /\ started'[p] \in Nat
    BY <2>1, ResolverAssumption DEF OwnInv, TickInv, Typed, TypeOK, resolverVars
  <2>3. /\ reading.start <= started[p]
        /\ StillThere(p, reading.start) =>
             /\ reading.step \in {"exe", "cgroup"} => OwnComm(p, reading.comm)
             /\ reading.step = "cgroup" => OwnExe(p, reading.exe)
    BY <1>2 DEF OwnInv, IdentityInv
  <2>4. reading' = reading
    BY DEF resolverVars
  <2>5. ASSUME StillThere(reading.pid, reading.start)'
        PROVE  StillThere(p, reading.start) /\ lives[p] \subseteq lives'[p]
    BY <2>1, <2>3, <2>4, <2>5 DEF Keeps, StillThere
  <2>6. QED
    BY <2>1, <2>2, <2>3, <2>4, <2>5 DEF Keeps, OwnComm, OwnExe
<1>3. IdentityInv'
  BY <1>1, <1>2 DEF IdentityInv, Keeps, resolverVars
<1>4. QED
  BY <1>3 DEF OwnInv

LEMMA OwnSystemSteps ==
  ASSUME OwnInv, TickInv', DaemonFrame, NEW p \in Pids, NEW i \in Images,
         \/ Spawn(p, i) /\ lives' = [lives EXCEPT ![p] = {i}]
         \/ Becomes(p, i) /\ lives' = [lives EXCEPT ![p] = @ \cup {i}]
         \/ Exit(p) /\ UNCHANGED lives
  PROVE  OwnInv'
<1>1. /\ proc \in [Pids -> Images \cup {None}] /\ started \in [Pids -> 1..MaxChanges + 1]
      /\ lives \in [Pids -> SUBSET Images] /\ MaxChanges \in Nat
      /\ \A q \in Pids : started[q] \in Nat /\ (proc[q] # None => proc[q] \in lives[q])
  BY ResolverAssumption DEF OwnInv, IdentityInv, TickInv, Typed, TypeOK
<1>2. ASSUME NEW q \in Pids PROVE Keeps(q)
  <2>1. CASE Spawn(p, i) /\ lives' = [lives EXCEPT ![p] = {i}]
    BY <1>1, <2>1 DEF Keeps, Spawn, StillThere
  <2>2. CASE Becomes(p, i) /\ lives' = [lives EXCEPT ![p] = @ \cup {i}]
    BY <1>1, <2>2 DEF Keeps, Becomes, StillThere
  <2>3. CASE Exit(p) /\ UNCHANGED lives
    BY <1>1, <2>3 DEF Keeps, Exit, StillThere
  <2>4. QED
    BY <2>1, <2>2, <2>3
<1>3. QED
  BY <1>2, OwnSystem DEF DaemonFrame

LEMMA OwnFrame ==
  ASSUME OwnInv, TickInv', UNCHANGED <<proc, started, lives, cache, iconCache, reading>>
  PROVE  OwnInv'
<1>1. IdentityInv'
  BY DEF OwnInv, IdentityInv, StillThere, OwnInfo, OwnComm, OwnExe
<1>2. QED
  BY <1>1 DEF OwnInv

\* The files are read one by one; a name is only made up for a process that has gone.
LEMMA OwnRead ==
  ASSUME OwnInv, TickInv', SystemFrame,
         (\E p \in Pids : ReadStat(p, ThreadName)) \/ ReadComm \/ ReadExe
  PROVE  OwnInv'
<1>1. UNCHANGED <<proc, started, lives, cache>>
  BY DEF SystemFrame, systemVars, ReadStat, ReadComm, ReadExe
<1>2. /\ \A p \in Pids : proc[p] # None => proc[p] \in lives[p] /\ proc[p] \in Images
      /\ reading \in Readings
  BY DEF OwnInv, IdentityInv, TickInv, Typed, TypeOK
<1>3. /\ reading' # NotReading => reading'.start <= started[reading'.pid]
      /\ StillThere(reading'.pid, reading'.start) =>
           /\ reading'.step \in {"exe", "cgroup"} => OwnComm(reading'.pid, reading'.comm)
           /\ reading'.step = "cgroup" => OwnExe(reading'.pid, reading'.exe)
  <2>1. CASE \E p \in Pids : ReadStat(p, ThreadName)
    <3>1. PICK p \in Pids : ReadStat(p, ThreadName)
      BY <2>1
    <3>2. started[p] \in Nat
      BY ResolverAssumption DEF OwnInv, TickInv, Typed, TypeOK
    <3>3. QED
      BY <3>1, <3>2 DEF ReadStat
  <2>2. CASE ReadComm
    <3>1. reading.pid \in Pids /\ reading # NotReading
      BY <1>2, <2>2 DEF ReadComm, Readings, NotReading
    <3>2. reading.start <= started[reading.pid]
      BY <3>1 DEF OwnInv, IdentityInv
    <3>3. reading' = [step |-> "exe", pid |-> reading.pid, start |-> reading.start,
                      comm |-> IF Field(reading.pid, "comm") = None THEN reading.bpfComm
                               ELSE Field(reading.pid, "comm")]
      BY <2>2 DEF ReadComm
    <3>4. ASSUME proc[reading.pid] # None PROVE OwnComm(reading.pid, reading'.comm)
      <4>1. proc[reading.pid] \in lives[reading.pid] /\ proc[reading.pid].comm # None
        BY <1>2, <3>1, <3>4, ImagesAssumption
      <4>2. reading'.comm = proc[reading.pid].comm
        BY <3>3, <3>4, <4>1 DEF Field
      <4>3. QED
        BY <4>1, <4>2 DEF OwnComm
    <3>5. QED
      BY <3>2, <3>3, <3>4 DEF StillThere
  <2>3. CASE ReadExe
    <3>1. reading.pid \in Pids /\ reading # NotReading
      BY <1>2, <2>3 DEF ReadExe, Readings, NotReading
    <3>2. /\ reading.start <= started[reading.pid]
          /\ StillThere(reading.pid, reading.start) => OwnComm(reading.pid, reading.comm)
      BY <2>3, <3>1 DEF OwnInv, IdentityInv, ReadExe
    <3>3. reading' = [step |-> "cgroup", pid |-> reading.pid, start |-> reading.start,
                      comm |-> reading.comm, exe |-> Field(reading.pid, "exe")]
      BY <2>3 DEF ReadExe
    <3>4. ASSUME proc[reading.pid] # None PROVE OwnExe(reading.pid, reading'.exe)
      <4>1. proc[reading.pid] \in lives[reading.pid]
        BY <1>2, <3>1, <3>4
      <4>2. reading'.exe = proc[reading.pid].exe
        BY <3>3, <3>4 DEF Field
      <4>3. QED
        BY <4>1, <4>2 DEF OwnExe
    <3>5. QED
      BY <3>2, <3>3, <3>4 DEF StillThere
  <2>4. QED
    BY <2>1, <2>2, <2>3
<1>4. IdentityInv'
  BY <1>1, <1>3 DEF OwnInv, IdentityInv, StillThere, OwnInfo, OwnComm, OwnExe
<1>5. QED
  BY <1>4 DEF OwnInv

LEMMA OwnTakeRead ==
  ASSUME OwnInv, TickInv', SystemFrame, TakeRead
  PROVE  OwnInv'
<1> DEFINE p == reading.pid
<1>1. UNCHANGED <<proc, started, lives>>
  BY DEF SystemFrame, systemVars
<1>2. p \in Pids /\ reading.start \in Nat /\ reading # NotReading /\ reading.step = "cgroup"
  BY ReadInfoType DEF OwnInv, TickInv, TakeRead, ReadCgroup
<1>3. /\ cache' = [q \in DOMAIN cache \cup {p} |->
             IF q = p THEN [start |-> reading.start, info |-> ReadInfo] ELSE cache[q]]
      /\ reading' = NotReading
  BY DEF TakeRead, ReadCgroup
<1>4. /\ reading.start <= started[p]
      /\ StillThere(p, reading.start) => OwnComm(p, reading.comm) /\ OwnExe(p, reading.exe)
  BY <1>2 DEF OwnInv, IdentityInv
<1>5. ASSUME StillThere(p, reading.start) PROVE OwnInfo(p, ReadInfo)
  <2>1. proc[p] # None /\ proc[p] \in lives[p]
    BY <1>2, <1>5 DEF OwnInv, IdentityInv, StillThere
  <2>2. Field(p, "leaf") = proc[p].leaf
    BY <2>1 DEF Field
  <2>3. QED
    BY <1>4, <1>5, <2>1, <2>2 DEF OwnInfo, ReadInfo, InfoOf
<1>6. ASSUME NEW q \in DOMAIN cache'
      PROVE  /\ cache'[q].start <= started[q]
             /\ StillThere(q, cache'[q].start) => OwnInfo(q, cache'[q].info)
  BY <1>3, <1>4, <1>5 DEF OwnInv, IdentityInv
<1>7. IdentityInv'
  BY <1>1, <1>3, <1>6 DEF OwnInv, IdentityInv, StillThere, OwnInfo, OwnComm, OwnExe
<1>8. QED
  BY <1>7 DEF OwnInv

LEMMA OwnEnd ==
  ASSUME OwnInv, TickInv', SystemFrame, EndTick
  PROVE  OwnInv'
<1>1. UNCHANGED <<proc, started, lives, reading>>
  BY DEF SystemFrame, systemVars, EndTick
<1>2. \A q \in DOMAIN cache' : q \in DOMAIN cache /\ cache'[q] = cache[q]
  BY DEF EndTick, Pruned
<1>3. IdentityInv'
  BY <1>1, <1>2 DEF OwnInv, IdentityInv, StillThere, OwnInfo, OwnComm, OwnExe
<1>4. QED
  BY <1>3 DEF OwnInv

LEMMA OwnNext == OwnInv /\ [Next]_vars => OwnInv'
<1> SUFFICES ASSUME OwnInv, [Next]_vars PROVE OwnInv'
  OBVIOUS
<1>1. TickInv'
  BY TickNext DEF OwnInv
<1>2. CASE UNCHANGED vars
  BY <1>1, <1>2, OwnFrame DEF vars, systemVars, resolverVars
<1>3. CASE \E f \in Icons : Install(f) /\ UNCHANGED lives /\ DaemonFrame
  BY <1>1, <1>3, OwnFrame DEF Install, DaemonFrame, resolverVars
<1>4. CASE \/ \E p \in Pids : Transfer(p) /\ SystemFrame /\ UNCHANGED resolverVars
           \/ StartTick /\ SystemFrame /\ UNCHANGED resolverVars
           \/ \E p \in Pids : (TakeGone(p) \/ TakeHit(p)) /\ SystemFrame
  BY <1>1, <1>4, OwnFrame DEF TakeGone, TakeHit, SystemFrame, systemVars, resolverVars
<1>5. CASE \/ \E p \in Pids, i \in Images :
                 Spawn(p, i) /\ lives' = [lives EXCEPT ![p] = {i}] /\ DaemonFrame
           \/ \E p \in Pids, i \in Images :
                 Becomes(p, i) /\ lives' = [lives EXCEPT ![p] = @ \cup {i}] /\ DaemonFrame
  BY <1>1, <1>5, OwnSystemSteps
<1>6. CASE \E p \in Pids : Exit(p) /\ UNCHANGED lives /\ DaemonFrame
  <2>1. PICK p \in Pids : Exit(p) /\ UNCHANGED lives /\ DaemonFrame
    BY <1>6
  <2>2. proc[p] \in Images
    BY <2>1 DEF OwnInv, TickInv, Typed, TypeOK, Exit
  <2>3. QED
    BY <1>1, <2>1, <2>2, OwnSystemSteps
<1>7. QED
  BY <1>1, <1>2, <1>3, <1>4, <1>5, <1>6, OwnRead, OwnTakeRead, OwnEnd DEF Next

LEMMA OwnAlways == Spec => []OwnInv
  BY OwnInit, OwnNext, PTL DEF Spec

\* A process that is there is never given a name, an executable, a desktop id or a
\* key that only another process with its pid has shown, whenever it came, called
\* exec() or went between two reads (IdentityIsOwn).
THEOREM IdentityStaysOwn == Spec => []IdentityIsOwn
<1>1. OwnInv => IdentityIsOwn
  BY DEF OwnInv, IdentityInv, IdentityIsOwn, StillThere, Valid, OwnInfo, OwnComm, OwnExe
<1>2. QED
  BY <1>1, OwnAlways, PTL

-----------------------------------------------------------------------------
(* Groups: one more member. *)

IsApp(info) == info # None /\ info.desktopId # None

LEMMA Joined ==
  ASSUME NEW r \in Seq(Resolutions), NEW x \in Resolutions
  PROVE  /\ \A k : /\ Members(r, k) \subseteq 1..Len(r)
                   /\ Apps(r, k) \subseteq Members(r, k)
                   /\ \A i \in Members(r, k) : Append(r, x)[i] = r[i]
                   /\ Len(r) + 1 \notin Members(r, k)
         /\ \A k : Members(Append(r, x), k) =
                     Members(r, k) \cup
                       (IF x.sample.bytes > 0 /\ KeyOf(x.sample, x.info) = k
                        THEN {Len(r) + 1} ELSE {})
         /\ \A k : Apps(Append(r, x), k) =
                     Apps(r, k) \cup
                       (IF x.sample.bytes > 0 /\ KeyOf(x.sample, x.info) = k /\ IsApp(x.info)
                        THEN {Len(r) + 1} ELSE {})
<1> DEFINE q == Append(r, x)
           n == Len(r) + 1
<1>1. /\ Len(r) \in Nat /\ n \notin 1..Len(r) /\ 1..Len(q) = 1..Len(r) \cup {n}
      /\ \A i \in 1..Len(r) : q[i] = r[i]
      /\ q[n] = x
  BY Lengthened
<1> HIDE DEF q, n
<1>2. ASSUME NEW k
      PROVE  Members(q, k) = Members(r, k) \cup
               (IF x.sample.bytes > 0 /\ KeyOf(x.sample, x.info) = k THEN {n} ELSE {})
  BY <1>1 DEF Members
<1>3. ASSUME NEW k
      PROVE  Apps(q, k) = Apps(r, k) \cup
               (IF x.sample.bytes > 0 /\ KeyOf(x.sample, x.info) = k /\ IsApp(x.info)
                THEN {n} ELSE {})
  <2>1. \A i \in Members(r, k) : q[i] = r[i]
    BY <1>1 DEF Members
  <2>2. QED
    BY <1>1, <1>2, <2>1 DEF Apps, IsApp
<1>4. ASSUME NEW k
      PROVE  /\ Members(r, k) \subseteq 1..Len(r) /\ Apps(r, k) \subseteq Members(r, k)
             /\ \A i \in Members(r, k) : q[i] = r[i]
             /\ n \notin Members(r, k)
  BY <1>1 DEF Members, Apps
<1>5. QED
  BY <1>2, <1>3, <1>4 DEF q, n

\* A row nobody joins stays right.
LEMMA DescribesStays ==
  ASSUME NEW r \in Seq(Resolutions), NEW x \in Resolutions, NEW k, NEW g,
         Describes(g, r, k), Members(Append(r, x), k) = Members(r, k)
  PROVE  Describes(g, Append(r, x), k)
<1> DEFINE q == Append(r, x)
<1>1. /\ \A i \in Members(r, k) : q[i] = r[i]
      /\ Apps(r, k) \subseteq Members(r, k)
  BY Joined
<1>2. Members(q, k) = Members(r, k)
  OBVIOUS
<1> HIDE DEF q
<1>3. Apps(q, k) = Apps(r, k)
  BY <1>1, <1>2 DEF Apps
<1>4. QED
  BY <1>1, <1>2, <1>3 DEF Describes, Lowest, q

\* The name in the row of the key that is joined, old being the row before.
LEMMA NameOfLowest ==
  ASSUME NEW r \in Seq(Resolutions), NEW s \in Samples, NEW info \in Info \cup {None},
         s.bytes > 0, NEW old,
         LET k == KeyOf(s, info) IN
           IF Members(r, k) = {} THEN old = NoGroup ELSE Describes(old, r, k),
         \A i \in 1..Len(r) : r[i].info # None => CommHasNoExe(r[i].info)
  PROVE  LET k == KeyOf(s, info)
             q == Append(r, [sample |-> s, info |-> info])
             g == Named(old, s, info)
         IN  /\ \E i \in Members(q, k) :
                  /\ Lowest(q, Members(q, k), i)
                  /\ g.namePid = q[i].sample.pid
                  /\ g.name = (IF q[i].info = None THEN q[i].sample.comm ELSE q[i].info.name)
                  /\ g.exePath = (IF q[i].info = None THEN None ELSE q[i].info.exePath)
             /\ g = [old EXCEPT !.namePid = g.namePid, !.name = g.name, !.exePath = g.exePath]
             /\ g.namePid \in Pids /\ g.name \in Texts /\ g.exePath \in Texts
<1> DEFINE k == KeyOf(s, info)
           x == [sample |-> s, info |-> info]
           q == Append(r, x)
           n == Len(r) + 1
           g == Named(old, s, info)
           M == Members(r, k)
<1>1. x \in Resolutions /\ s.pid \in Pids /\ s.pid \in Nat \ {0} /\ s.comm = ThreadName
  BY ResolverAssumption DEF Resolutions, Samples
<1>2. /\ \A i \in M : q[i] = r[i] /\ r[i] \in Resolutions /\ r[i].sample.pid \in Nat \ {0}
      /\ M \subseteq 1..Len(r)
      /\ Members(q, k) = M \cup {n} /\ n \notin M /\ q[n] = x
  <2>1. \A i \in 1..Len(r) : r[i] \in Resolutions
    BY ElementOfSeq
  <2>2. /\ M \subseteq 1..Len(r) /\ \A i \in M : q[i] = r[i]
        /\ n \notin M /\ Members(q, k) = M \cup {n}
    BY <1>1, Joined
  <2>3. q[n] = x
    BY <1>1, Lengthened
  <2>4. \A i \in M : r[i] \in Resolutions
    BY <2>1, <2>2
  <2>5. \A y \in Resolutions : y.sample.pid \in Nat \ {0}
    BY ResolverAssumption DEF Resolutions, Samples
  <2>6. QED
    BY <2>2, <2>3, <2>4, <2>5
<1>3. /\ M = {} => old = NoGroup
      /\ M # {} => Describes(old, r, k)
  OBVIOUS
<1>4. \A i \in M : KeyOf(r[i].sample, r[i].info) = k
  BY DEF Members
<1>5. \A i \in M : r[i].info # None => CommHasNoExe(r[i].info)
  BY <1>2
<1>6. /\ info # None => info.name \in Texts /\ info.exePath \in Texts
      /\ ThreadName \in Texts /\ None \in Texts
  BY ThreadNameAssumption, TextsOfImages DEF Info
<1> HIDE DEF q, n, M, x
<1>7. CASE old.namePid # 0 /\ s.pid >= old.namePid
  <2>1. M # {} /\ g = old
    BY <1>3, <1>7 DEF NoGroup, Named
  <2>2. PICK i \in M :
          /\ Lowest(r, M, i) /\ old.namePid = r[i].sample.pid
          /\ old.name = (IF r[i].info = None THEN r[i].sample.comm ELSE r[i].info.name)
          /\ old.exePath = (IF r[i].info = None THEN None ELSE r[i].info.exePath)
    BY <1>3, <2>1 DEF Describes, M
  <2>3. Lowest(q, Members(q, k), i)
    <3>1. q[n].sample.pid = s.pid /\ \A j \in M : q[j] = r[j]
      BY <1>2 DEF x
    <3>2. r[i].sample.pid <= s.pid
      BY <1>1, <1>2, <1>7, <2>2
    <3>3. \A j \in M : r[i].sample.pid <= r[j].sample.pid
      BY <2>2 DEF Lowest
    <3>4. \A j \in M \cup {n} : q[i].sample.pid <= q[j].sample.pid
      BY <3>1, <3>2, <3>3
    <3>5. QED
      BY <1>2, <3>4 DEF Lowest
  <2>4. old \in Rows
    BY <1>3, <2>1 DEF Describes
  <2>5. old = [old EXCEPT !.namePid = old.namePid, !.name = old.name, !.exePath = old.exePath]
    BY <2>4 DEF Rows
  <2>6. QED
    BY <1>2, <2>1, <2>2, <2>3, <2>4, <2>5 DEF Rows, q, x
<1>8. CASE ~(old.namePid # 0 /\ s.pid >= old.namePid)
  <2>1. g = [old EXCEPT !.namePid = s.pid,
                        !.name = IF info = None THEN s.comm ELSE info.name,
                        !.exePath = IF info = None THEN @ ELSE info.exePath]
    BY <1>8 DEF Named
  <2>2. old = NoGroup \/ old \in Rows
    BY <1>3 DEF Describes
  <2>3. /\ g.namePid = s.pid
        /\ g.name = (IF info = None THEN s.comm ELSE info.name)
        /\ g.exePath = (IF info = None THEN old.exePath ELSE info.exePath)
        /\ g = [old EXCEPT !.namePid = g.namePid, !.name = g.name, !.exePath = g.exePath]
    BY <2>1, <2>2 DEF NoGroup, Rows
  <2>4. info = None => old.exePath = None
    <3>1. CASE M = {}
      BY <1>3, <3>1 DEF NoGroup
    <3>2. CASE info = None /\ M # {}
      <4>1. PICK i \in M : old.exePath = (IF r[i].info = None THEN None ELSE r[i].info.exePath)
        BY <1>3, <3>2 DEF Describes, M
      <4>2. r[i].info # None => r[i].info.appKey[1] = "comm"
        <5>1. KeyOf(r[i].sample, r[i].info) = k /\ k = <<"comm", s.comm>>
          BY <1>4, <3>2 DEF KeyOf
        <5>2. k[1] = "comm"
          BY <5>1
        <5>3. r[i].info # None => r[i].info.appKey = k
          BY <5>1 DEF KeyOf
        <5>4. QED
          BY <5>2, <5>3
      <4>3. QED
        BY <1>5, <4>1, <4>2 DEF CommHasNoExe
    <3>3. QED
      BY <3>1, <3>2
  <2>5. \A i \in M : s.pid <= r[i].sample.pid
    <3>1. CASE M # {}
      <4>1. PICK i \in M : Lowest(r, M, i) /\ old.namePid = r[i].sample.pid
        BY <1>3, <3>1 DEF Describes, M
      <4>2. old.namePid \in Nat \ {0} /\ s.pid < old.namePid
        BY <1>1, <1>2, <1>8, <4>1
      <4>3. ASSUME NEW j \in M PROVE s.pid <= r[j].sample.pid
        <5>1. old.namePid <= r[j].sample.pid /\ r[j].sample.pid \in Nat
          BY <1>2, <4>1 DEF Lowest
        <5>2. QED
          BY <1>1, <4>2, <5>1
      <4>4. QED
        BY <4>3
    <3>2. QED
      BY <3>1
  <2>6. Lowest(q, Members(q, k), n)
    <3>1. q[n].sample.pid = s.pid /\ \A j \in M : q[j] = r[j]
      BY <1>2 DEF x
    <3>2. \A j \in M \cup {n} : s.pid <= q[j].sample.pid
      BY <1>1, <2>5, <3>1
    <3>3. QED
      BY <1>2, <3>1, <3>2 DEF Lowest
  <2>7. n \in Members(q, k) /\ q[n].sample = s /\ q[n].info = info
    BY <1>2 DEF x
  <2>8. /\ g.name = (IF q[n].info = None THEN q[n].sample.comm ELSE q[n].info.name)
        /\ g.exePath = (IF q[n].info = None THEN None ELSE q[n].info.exePath)
        /\ g.namePid = q[n].sample.pid
    BY <2>3, <2>4, <2>7
  <2>9. g.namePid \in Pids /\ g.name \in Texts /\ g.exePath \in Texts
    BY <1>1, <1>6, <2>3, <2>4
  <2>10. QED
    BY <2>3, <2>6, <2>7, <2>8, <2>9 DEF q, x
<1>9. QED
  BY <1>7, <1>8

\* Its desktop id and icon, g being the row after it has got its name.
LEMMA DesktopOfLowest ==
  ASSUME NEW r \in Seq(Resolutions), NEW s \in Samples, NEW info \in Info \cup {None},
         s.bytes > 0, NEW g \in Rows,
         LET k == KeyOf(s, info) IN
           IF Apps(r, k) = {}
           THEN g.desktopPid = 0 /\ g.desktopId = None /\ g.icon = None
           ELSE \E i \in Apps(r, k) :
                  /\ Lowest(r, Apps(r, k), i)
                  /\ g.desktopPid = r[i].sample.pid
                  /\ g.desktopId = r[i].info.desktopId
                  /\ g.icon = r[i].info.icon
  PROVE  LET k == KeyOf(s, info)
             q == Append(r, [sample |-> s, info |-> info])
             h == WithDesktop(g, s, info)
         IN  /\ IF Apps(q, k) = {}
                THEN h.desktopPid = 0 /\ h.desktopId = None /\ h.icon = None
                ELSE \E i \in Apps(q, k) :
                       /\ Lowest(q, Apps(q, k), i)
                       /\ h.desktopPid = q[i].sample.pid
                       /\ h.desktopId = q[i].info.desktopId
                       /\ h.icon = q[i].info.icon
             /\ h = [g EXCEPT !.desktopPid = h.desktopPid, !.desktopId = h.desktopId,
                              !.icon = h.icon]
             /\ h.desktopPid \in Pids \cup {0} /\ h.desktopId \in Texts
             /\ h.icon \in IconNames
<1> DEFINE k == KeyOf(s, info)
           x == [sample |-> s, info |-> info]
           q == Append(r, x)
           n == Len(r) + 1
           h == WithDesktop(g, s, info)
           A == Apps(r, k)
<1>1. x \in Resolutions /\ s.pid \in Pids /\ s.pid \in Nat \ {0}
  BY ResolverAssumption DEF Resolutions, Samples
<1>2. /\ \A i \in A : q[i] = r[i] /\ r[i] \in Resolutions /\ r[i].info \in Info
      /\ \A i \in A : r[i].sample.pid \in Nat \ {0} /\ r[i].sample.pid \in Pids
      /\ Apps(q, k) = A \cup (IF IsApp(info) THEN {n} ELSE {})
      /\ q[n].sample = s /\ q[n].info = info
  <2>1. \A i \in 1..Len(r) : r[i] \in Resolutions
    BY ElementOfSeq
  <2>2. /\ A \subseteq 1..Len(r) /\ \A i \in A : q[i] = r[i]
        /\ Apps(q, k) = A \cup (IF IsApp(info) THEN {n} ELSE {})
    BY <1>1, Joined
  <2>3. q[n] = x
    BY <1>1, Lengthened
  <2>4. \A i \in A : r[i] \in Resolutions
    BY <2>1, <2>2
  <2>5. \A y \in Resolutions : /\ y.sample.pid \in Nat \ {0} /\ y.sample.pid \in Pids
                               /\ y.info # None => y.info \in Info
    BY ResolverAssumption DEF Resolutions, Samples
  <2>6. \A i \in A : r[i].info # None
    BY DEF Apps
  <2>7. QED
    BY <2>2, <2>3, <2>4, <2>5, <2>6
<1>3. /\ A = {} => g.desktopPid = 0 /\ g.desktopId = None /\ g.icon = None
      /\ A # {} => \E i \in A :
                     /\ Lowest(r, A, i) /\ g.desktopPid = r[i].sample.pid
                     /\ g.desktopId = r[i].info.desktopId /\ g.icon = r[i].info.icon
  OBVIOUS
<1>4. /\ \A i \in Info : i.desktopId \in Texts /\ i.icon \in IconNames
      /\ None \in Texts /\ None \in IconNames
  BY TextsOfImages DEF Info, IconNames
<1>5. /\ g.desktopPid \in Pids \cup {0} /\ g.desktopId \in Texts /\ g.icon \in IconNames
  BY <1>2, <1>3, <1>4
<1>6. g = [g EXCEPT !.desktopPid = g.desktopPid, !.desktopId = g.desktopId, !.icon = g.icon]
  BY DEF Rows
<1> HIDE DEF q, n, A, x
<1>7. CASE ~IsApp(info)
  <2>1. h = g
    BY <1>7 DEF WithDesktop, IsApp
  <2>2. Apps(q, k) = A
    BY <1>2, <1>7
  <2>3. CASE A = {}
    BY <1>3, <1>5, <1>6, <2>1, <2>2, <2>3 DEF q, x
  <2>4. CASE A # {}
    <3>1. PICK i \in A :
            /\ Lowest(r, A, i) /\ g.desktopPid = r[i].sample.pid
            /\ g.desktopId = r[i].info.desktopId /\ g.icon = r[i].info.icon
      BY <1>3, <2>4
    <3>2. Lowest(q, A, i)
      BY <1>2, <3>1 DEF Lowest
    <3>3. QED
      BY <1>2, <1>5, <1>6, <2>1, <2>2, <2>4, <3>1, <3>2 DEF q, x
  <2>5. QED
    BY <2>3, <2>4
<1>8. CASE IsApp(info) /\ g.desktopPid # 0 /\ s.pid >= g.desktopPid
  <2>1. h = g
    BY <1>8 DEF WithDesktop, IsApp
  <2>2. A # {}
    BY <1>3, <1>8
  <2>3. PICK i \in A :
          /\ Lowest(r, A, i) /\ g.desktopPid = r[i].sample.pid
          /\ g.desktopId = r[i].info.desktopId /\ g.icon = r[i].info.icon
    BY <1>3, <2>2
  <2>4. Lowest(q, Apps(q, k), i)
    <3>1. r[i].sample.pid <= s.pid
      BY <1>1, <1>2, <1>8, <2>3
    <3>2. \A j \in A : r[i].sample.pid <= r[j].sample.pid
      BY <2>3 DEF Lowest
    <3>3. \A j \in A \cup {n} : q[i].sample.pid <= q[j].sample.pid
      BY <1>2, <3>1, <3>2
    <3>4. QED
      BY <1>2, <3>3, <1>8 DEF Lowest
  <2>5. i \in Apps(q, k) /\ q[i] = r[i]
    BY <1>2
  <2>6. QED
    BY <1>5, <1>6, <2>1, <2>3, <2>4, <2>5 DEF q, x
<1>9. CASE IsApp(info) /\ ~(g.desktopPid # 0 /\ s.pid >= g.desktopPid)
  <2>1. h = [g EXCEPT !.desktopPid = s.pid, !.desktopId = info.desktopId, !.icon = info.icon]
    BY <1>9 DEF WithDesktop, IsApp
  <2>2. /\ h.desktopPid = s.pid /\ h.desktopId = info.desktopId /\ h.icon = info.icon
        /\ h = [g EXCEPT !.desktopPid = h.desktopPid, !.desktopId = h.desktopId,
                         !.icon = h.icon]
    BY <2>1 DEF Rows
  <2>3. \A j \in A : s.pid <= r[j].sample.pid
    <3>1. CASE A # {}
      <4>1. PICK i \in A : Lowest(r, A, i) /\ g.desktopPid = r[i].sample.pid
        BY <1>3, <3>1
      <4>2. g.desktopPid \in Nat \ {0} /\ s.pid < g.desktopPid
        BY <1>1, <1>2, <1>9, <4>1
      <4>3. ASSUME NEW j \in A PROVE s.pid <= r[j].sample.pid
        <5>1. g.desktopPid <= r[j].sample.pid /\ r[j].sample.pid \in Nat
          BY <1>2, <4>1 DEF Lowest
        <5>2. QED
          BY <1>1, <4>2, <5>1
      <4>4. QED
        BY <4>3
    <3>2. QED
      BY <3>1
  <2>4. Apps(q, k) = A \cup {n}
    BY <1>2, <1>9
  <2>5. Lowest(q, Apps(q, k), n)
    <3>1. s.pid <= s.pid
      BY <1>1
    <3>2. \A j \in A \cup {n} : q[n].sample.pid <= q[j].sample.pid
      BY <1>2, <2>3, <3>1
    <3>3. QED
      BY <2>4, <3>2 DEF Lowest
  <2>6. info \in Info
    BY <1>9 DEF IsApp
  <2>7. h.desktopPid \in Pids \cup {0} /\ h.desktopId \in Texts /\ h.icon \in IconNames
    BY <1>1, <1>4, <2>2, <2>6
  <2>8. QED
    BY <1>2, <2>2, <2>4, <2>5, <2>7 DEF q, x
<1>10. QED
  BY <1>7, <1>8, <1>9

\* The row that is joined is described by its members, the new one among them.
LEMMA MergedIsRight ==
  ASSUME NEW r \in Seq(Resolutions), NEW s \in Samples, NEW info \in Info \cup {None},
         s.bytes > 0, NEW old,
         LET k == KeyOf(s, info) IN
           IF Members(r, k) = {} THEN old = NoGroup ELSE Describes(old, r, k),
         \A i \in 1..Len(r) : r[i].info # None => CommHasNoExe(r[i].info)
  PROVE  Describes(Merged(old, s, info), Append(r, [sample |-> s, info |-> info]),
                   KeyOf(s, info))
<1> DEFINE k == KeyOf(s, info)
           x == [sample |-> s, info |-> info]
           q == Append(r, x)
           g == Named(old, s, info)
           h == WithDesktop(g, s, info)
           new == Merged(old, s, info)
<1>1. x \in Resolutions /\ s.bytes = 1 /\ Len(r) \in Nat
  BY LenProperties DEF Resolutions, Samples
<1>2. old = NoGroup \/ old \in Rows
  BY DEF Describes
<1>3. /\ \E i \in Members(q, k) :
           /\ Lowest(q, Members(q, k), i)
           /\ g.namePid = q[i].sample.pid
           /\ g.name = (IF q[i].info = None THEN q[i].sample.comm ELSE q[i].info.name)
           /\ g.exePath = (IF q[i].info = None THEN None ELSE q[i].info.exePath)
      /\ g = [old EXCEPT !.namePid = g.namePid, !.name = g.name, !.exePath = g.exePath]
      /\ g.namePid \in Pids /\ g.name \in Texts /\ g.exePath \in Texts
  BY NameOfLowest
<1>4. /\ g \in Rows
      /\ g.desktopPid = old.desktopPid /\ g.desktopId = old.desktopId
      /\ g.icon = old.icon /\ g.bytes = old.bytes
  <2> HIDE DEF g
  <2>1. None \in Texts
    BY TextsOfImages
  <2>2. CASE old = NoGroup
    <3>1. g = [name |-> g.name, namePid |-> g.namePid, exePath |-> g.exePath,
               desktopId |-> None, icon |-> None, desktopPid |-> 0, bytes |-> 0]
      BY <1>3, <2>2 DEF NoGroup
    <3>2. \A a, b \in Texts, p \in Pids :
            [name |-> a, namePid |-> p, exePath |-> b, desktopId |-> None, icon |-> None,
             desktopPid |-> 0, bytes |-> 0] \in Rows
      BY <2>1 DEF Rows
    <3>3. g \in Rows
      <4>1. g.name \in Texts /\ g.namePid \in Pids /\ g.exePath \in Texts
        BY <1>3
      <4>2. [name |-> g.name, namePid |-> g.namePid, exePath |-> g.exePath,
             desktopId |-> None, icon |-> None, desktopPid |-> 0, bytes |-> 0] \in Rows
        BY <3>2, <4>1
      <4>3. QED
        BY <3>1, <4>2, Zenon
    <3>4. QED
      BY <2>2, <3>1, <3>3 DEF NoGroup
  <2>3. CASE old \in Rows
    BY <1>3, <2>3 DEF Rows
  <2>4. QED
    BY <1>2, <2>2, <2>3
<1>5. IF Apps(r, k) = {}
      THEN g.desktopPid = 0 /\ g.desktopId = None /\ g.icon = None
      ELSE \E i \in Apps(r, k) :
             /\ Lowest(r, Apps(r, k), i)
             /\ g.desktopPid = r[i].sample.pid
             /\ g.desktopId = r[i].info.desktopId
             /\ g.icon = r[i].info.icon
  <2> HIDE DEF g, k
  <2>1. CASE Members(r, k) = {}
    BY <1>4, <2>1 DEF Apps, NoGroup, k
  <2>2. CASE Members(r, k) # {}
    BY <1>4, <2>2 DEF Describes, k
  <2>3. QED
    BY <2>1, <2>2
<1>6. /\ IF Apps(q, k) = {}
         THEN h.desktopPid = 0 /\ h.desktopId = None /\ h.icon = None
         ELSE \E i \in Apps(q, k) :
                /\ Lowest(q, Apps(q, k), i)
                /\ h.desktopPid = q[i].sample.pid
                /\ h.desktopId = q[i].info.desktopId
                /\ h.icon = q[i].info.icon
      /\ h = [g EXCEPT !.desktopPid = h.desktopPid, !.desktopId = h.desktopId,
                       !.icon = h.icon]
      /\ h.desktopPid \in Pids \cup {0} /\ h.desktopId \in Texts /\ h.icon \in IconNames
  <2> HIDE DEF g
  <2>1. QED
    BY <1>4, <1>5, DesktopOfLowest
<1>7. old.bytes = Cardinality(Members(r, k)) /\ IsFiniteSet(Members(r, k))
  <2>1. IsFiniteSet(1..Len(r))
    BY <1>1, FS_Interval
  <2>2. IsFiniteSet(Members(r, k))
    BY <1>1, <2>1, Joined, FS_Subset
  <2>3. CASE Members(r, k) = {}
    BY <2>3, FS_EmptySet DEF NoGroup
  <2>4. CASE Members(r, k) # {}
    <3>1. Describes(old, r, k)
      BY <2>4
    <3> HIDE DEF k
    <3>2. old.bytes = Cardinality(Members(r, k))
      BY <3>1 DEF Describes
    <3>3. QED
      BY <2>2, <3>2 DEF k
  <2>5. QED
    BY <2>2, <2>3, <2>4
<1>8. Cardinality(Members(q, k)) = old.bytes + 1 /\ old.bytes \in Nat
  <2>1. Members(q, k) = Members(r, k) \cup {Len(r) + 1} /\ Len(r) + 1 \notin Members(r, k)
    BY <1>1, Joined
  <2>2. QED
    BY <1>7, <2>1, FS_AddElement, FS_CardinalityType
<1>9. new = [h EXCEPT !.bytes = @ + s.bytes]
  BY DEF Merged
<1> HIDE DEF g, h, new, q, k
<1>10. /\ new \in Rows /\ new.bytes = old.bytes + 1
       /\ new.namePid = g.namePid /\ new.name = g.name /\ new.exePath = g.exePath
       /\ new.desktopPid = h.desktopPid /\ new.desktopId = h.desktopId /\ new.icon = h.icon
  <2>1. /\ h \in Rows /\ h.bytes = old.bytes
        /\ h.namePid = g.namePid /\ h.name = g.name /\ h.exePath = g.exePath
    BY <1>4, <1>6 DEF Rows, IconNames
  <2>2. QED
    BY <1>1, <1>8, <1>9, <2>1 DEF Rows
<1>11. Describes(new, q, k)
  BY <1>3, <1>6, <1>8, <1>10 DEF Describes
<1>12. QED
  BY <1>11 DEF new, q, k

-----------------------------------------------------------------------------
(* Groups: the tick. *)

LEMMA RowsPrimed == RowsRight(groups', resolved', livePids' \cup deadPids') => RowsInv'
  BY DEF RowsInv, RowsRight, Members, Apps, Describes, Lowest, CommHasNoExe, KeyOf, Rows

LEMMA NoRows ==
  ASSUME NEW gs, gs = NoGroups
  PROVE  RowsRight(gs, <<>>, {})
<1>1. 1..Len(<<>>) = {} /\ DOMAIN gs = {}
  BY DEF NoGroups
<1>2. \A k : Members(<<>>, k) = {}
  BY <1>1 DEF Members
<1>3. QED
  BY <1>1, <1>2 DEF RowsRight

LEMMA RowsTake ==
  ASSUME TickInv, RowsInv, samples # <<>>, NEW info \in Info \cup {None}, Take(info),
         info # None => CommHasNoExe(info)
  PROVE  RowsInv'
<1> DEFINE s == Head(samples)
           r == resolved
           x == [sample |-> s, info |-> info]
           q == Append(r, x)
           key == KeyOf(s, info)
           n == Len(r) + 1
<1>1. /\ r \in Seq(Resolutions) /\ s \in Samples /\ x \in Resolutions
      /\ s.bytes = 0 \/ (s.bytes > 0 /\ s.bytes # 0)
      /\ s.pid \in SampledPids
  <2>1. samples \in Seq(Samples) /\ r \in Seq(Resolutions)
    BY DEF TickInv, Typed
  <2>2. s \in Samples /\ s = samples[1] /\ Len(samples) \in Nat \ {0}
    BY <2>1, Shortened
  <2>3. QED
    BY <2>1, <2>2 DEF Samples, Resolutions, SampledPids
<1>2. /\ \A i \in 1..Len(r) : r[i].info # None => CommHasNoExe(r[i].info)
      /\ {r[i].sample.pid : i \in 1..Len(r)} = livePids \cup deadPids
      /\ \A i, j \in 1..Len(r) : i # j => r[i].sample.pid # r[j].sample.pid
      /\ \A k : k \in DOMAIN groups <=> Members(r, k) # {}
      /\ \A k \in DOMAIN groups : Describes(groups[k], r, k)
  BY DEF RowsInv, RowsRight
<1>3. \A i \in 1..Len(r) : r[i].sample.pid # s.pid
  BY <1>1, <1>2 DEF TickInv, TickInOrder
<1>4. /\ resolved' = q
      /\ livePids' \cup deadPids' = livePids \cup deadPids \cup {s.pid}
      /\ groups' = IF s.bytes = 0 THEN groups ELSE Grouped(s, info)
  BY DEF Take
<1>5. /\ 1..Len(q) = 1..Len(r) \cup {n}
      /\ \A i \in 1..Len(r) : q[i] = r[i]
      /\ q[n] = x
  BY <1>1, Lengthened
<1>6. \A k : Members(q, k) = Members(r, k) \cup
               (IF s.bytes > 0 /\ key = k THEN {n} ELSE {})
  <2>1. x.sample = s /\ x.info = info
    OBVIOUS
  <2> HIDE DEF x
  <2>2. QED
    BY <1>1, <2>1, Joined
<1> HIDE DEF s, r, q, key, n
<1>7. /\ \A i \in 1..Len(q) : q[i].info # None => CommHasNoExe(q[i].info)
      /\ {q[i].sample.pid : i \in 1..Len(q)} = livePids' \cup deadPids'
      /\ \A i, j \in 1..Len(q) : i # j => q[i].sample.pid # q[j].sample.pid
  <2>1. q[n].sample = s /\ q[n].info = info
    BY <1>5
  <2>2. \A i \in 1..Len(q) : q[i].info # None => CommHasNoExe(q[i].info)
    BY <1>2, <1>5, <2>1
  <2>3. {q[i].sample.pid : i \in 1..Len(q)} =
          {r[i].sample.pid : i \in 1..Len(r)} \cup {s.pid}
    BY <1>5, <2>1
  <2>4. \A i, j \in 1..Len(q) : i # j => q[i].sample.pid # q[j].sample.pid
    BY <1>2, <1>3, <1>5, <2>1
  <2>5. QED
    BY <1>2, <1>4, <2>2, <2>3, <2>4
<1>8. CASE s.bytes = 0
  <2>1. groups' = groups /\ ~(s.bytes > 0)
    BY <1>4, <1>8
  <2>2. \A k : Members(q, k) = Members(r, k)
    BY <1>6, <2>1
  <2>3. \A k \in DOMAIN groups : Describes(groups[k], q, k)
    BY <1>1, <1>2, <2>2, DescribesStays DEF q
  <2>4. RowsRight(groups', q, livePids' \cup deadPids')
    BY <1>2, <1>7, <2>1, <2>2, <2>3 DEF RowsRight
  <2>5. QED
    BY <1>4, <2>4, RowsPrimed
<1>9. CASE s.bytes > 0 /\ s.bytes # 0
  <2> DEFINE old == IF key \in DOMAIN groups THEN groups[key] ELSE NoGroup
  <2>1. /\ DOMAIN groups' = DOMAIN groups \cup {key}
        /\ groups'[key] = Merged(old, s, info)
        /\ \A k \in DOMAIN groups : k # key => groups'[k] = groups[k]
    BY <1>4, <1>9 DEF Grouped, key
  <2>2. IF Members(r, key) = {} THEN old = NoGroup ELSE Describes(old, r, key)
    BY <1>2
  <2>3. Describes(groups'[key], q, key)
    <3> HIDE DEF old
    <3>1. Describes(Merged(old, s, info), q, key)
      BY <1>1, <1>2, <1>9, <2>2, MergedIsRight DEF q, key
    <3>2. QED
      BY <2>1, <3>1
  <2>4. ASSUME NEW k \in DOMAIN groups, k # key PROVE Describes(groups'[k], q, k)
    <3>1. Members(q, k) = Members(r, k)
      BY <1>6, <2>4
    <3>2. Describes(groups[k], q, k)
      BY <1>1, <1>2, <3>1, DescribesStays DEF q
    <3>3. QED
      BY <2>1, <2>4, <3>2
  <2>5. \A k \in DOMAIN groups' : Describes(groups'[k], q, k)
    BY <2>1, <2>3, <2>4
  <2>6. \A k : k \in DOMAIN groups' <=> Members(q, k) # {}
    BY <1>2, <1>6, <1>9, <2>1
  <2>7. RowsRight(groups', q, livePids' \cup deadPids')
    BY <1>7, <2>5, <2>6 DEF RowsRight
  <2>8. QED
    BY <1>4, <2>7, RowsPrimed
<1>10. QED
  BY <1>1, <1>8, <1>9

RowInv == TickInv /\ KeysInv /\ RowsInv

LEMMA RowInit == Init => RowInv
<1> SUFFICES ASSUME Init PROVE RowInv
  OBVIOUS
<1>1. groups = NoGroups /\ resolved = <<>> /\ livePids \cup deadPids = {} /\ DOMAIN cache = {}
  BY DEF Init, ResolverInit
<1>2. RowsInv
  BY <1>1, NoRows DEF RowsInv
<1>3. QED
  BY <1>1, <1>2, TickInit DEF RowInv, KeysInv

LEMMA RowFrame ==
  ASSUME RowInv, TickInv', UNCHANGED <<cache, groups, resolved, livePids, deadPids>>
  PROVE  RowInv'
<1>1. KeysInv'
  BY DEF RowInv, KeysInv, CommHasNoExe
<1>2. RowsInv'
  BY RowsPrimed DEF RowInv, RowsInv
<1>3. QED
  BY <1>1, <1>2 DEF RowInv

LEMMA RowTakes ==
  ASSUME RowInv, TickInv', (\E p \in Pids : TakeGone(p) \/ TakeHit(p)) \/ TakeRead
  PROVE  RowInv'
<1>1. CASE \E p \in Pids : TakeGone(p)
  <2>1. samples # <<>> /\ Take(None) /\ cache' = cache
    BY <1>1 DEF TakeGone, Resolving, resolverVars
  <2>2. KeysInv'
    BY <2>1 DEF RowInv, KeysInv, CommHasNoExe
  <2>3. QED
    BY <2>1, <2>2, RowsTake DEF RowInv
<1>2. CASE \E p \in Pids : TakeHit(p)
  <2>1. PICK p \in Pids : TakeHit(p)
    BY <1>2
  <2>2. samples # <<>> /\ Take(cache[p].info) /\ cache' = cache /\ p \in DOMAIN cache
    BY <2>1 DEF TakeHit, Resolving, Hit, Valid, resolverVars
  <2>3. cache[p].info \in Info /\ CommHasNoExe(cache[p].info)
    BY <2>2 DEF RowInv, KeysInv, TickInv, Typed, TypeOK
  <2>4. KeysInv'
    BY <2>2 DEF RowInv, KeysInv, CommHasNoExe
  <2>5. QED
    BY <2>2, <2>3, <2>4, RowsTake DEF RowInv
<1>3. CASE TakeRead
  <2>1. ReadInfo \in Info /\ CommHasNoExe(ReadInfo) /\ reading # NotReading
    BY <1>3, ReadInfoType DEF RowInv, TickInv, TakeRead, ReadCgroup
  <2>2. samples # <<>>
    BY <2>1 DEF RowInv, TickInv, TickInOrder
  <2>3. \A p \in DOMAIN cache' :
          \/ cache'[p].info = ReadInfo
          \/ p \in DOMAIN cache /\ cache'[p] = cache[p]
    BY <1>3 DEF TakeRead, ReadCgroup
  <2>4. \A p \in DOMAIN cache' : CommHasNoExe(cache'[p].info)
    BY <2>1, <2>3 DEF RowInv, KeysInv
  <2>5. KeysInv'
    BY <2>4 DEF KeysInv, CommHasNoExe
  <2>6. QED
    BY <1>3, <2>1, <2>2, <2>5, RowsTake DEF RowInv, TakeRead
<1>4. QED
  BY <1>1, <1>2, <1>3

LEMMA RowNext == RowInv /\ [Next]_vars => RowInv'
<1> SUFFICES ASSUME RowInv, [Next]_vars PROVE RowInv'
  OBVIOUS
<1>1. TickInv'
  BY TickNext DEF RowInv
<1>2. CASE UNCHANGED vars
  BY <1>1, <1>2, RowFrame DEF vars, resolverVars, tickVars
<1>3. CASE DaemonFrame
  BY <1>1, <1>3, RowFrame DEF DaemonFrame, resolverVars, tickVars
<1>4. CASE \E p \in Pids : Transfer(p) /\ UNCHANGED resolverVars
  BY <1>1, <1>4, RowFrame DEF Transfer, resolverVars
<1>5. CASE StartTick /\ UNCHANGED resolverVars
  <2>1. groups' = NoGroups /\ resolved' = <<>> /\ livePids' \cup deadPids' = {} /\ cache' = cache
    BY <1>5 DEF StartTick, resolverVars
  <2>2. RowsInv'
    BY <2>1, NoRows, RowsPrimed
  <2>3. KeysInv'
    BY <2>1 DEF RowInv, KeysInv, CommHasNoExe
  <2>4. QED
    BY <1>1, <2>2, <2>3 DEF RowInv
<1>6. CASE UNCHANGED <<tickVars, resolved, cache>>
  BY <1>1, <1>6, RowFrame DEF tickVars
<1>7. CASE (\E p \in Pids : TakeGone(p) \/ TakeHit(p)) \/ TakeRead
  BY <1>1, <1>7, RowTakes
<1>8. CASE EndTick
  <2>1. groups' = NoGroups /\ resolved' = <<>> /\ livePids' \cup deadPids' = {}
    BY <1>8 DEF EndTick
  <2>2. \A p \in DOMAIN cache' : p \in DOMAIN cache /\ cache'[p] = cache[p]
    BY <1>8 DEF EndTick, Pruned
  <2>3. RowsInv'
    BY <2>1, NoRows, RowsPrimed
  <2>4. KeysInv'
    BY <2>2 DEF RowInv, KeysInv, CommHasNoExe
  <2>5. QED
    BY <1>1, <2>3, <2>4 DEF RowInv
<1>9. QED
  BY <1>2, <1>3, <1>4, <1>5, <1>6, <1>7, <1>8
  DEF Next, ReadStat, ReadComm, ReadExe

LEMMA RowAlways == Spec => []RowInv
  BY RowInit, RowNext, PTL DEF Spec

LEMMA LowestIsChosen ==
  ASSUME NEW r, NEW S, S \subseteq 1..Len(r), NEW i, Lowest(r, S, i),
         \A a \in 1..Len(r) : r[a].sample.pid \in Nat,
         \A a, b \in 1..Len(r) : a # b => r[a].sample.pid # r[b].sample.pid
  PROVE  (CHOOSE a \in S : \A b \in S : r[a].sample.pid <= r[b].sample.pid) = i
<1> DEFINE c == CHOOSE a \in S : \A b \in S : r[a].sample.pid <= r[b].sample.pid
<1>1. i \in S /\ \A b \in S : r[i].sample.pid <= r[b].sample.pid
  BY DEF Lowest
<1>2. c \in S /\ \A b \in S : r[c].sample.pid <= r[b].sample.pid
  BY <1>1
<1> HIDE DEF c
<1>3. r[c].sample.pid <= r[i].sample.pid /\ r[i].sample.pid <= r[c].sample.pid
  BY <1>1, <1>2
<1>4. r[c].sample.pid \in Nat /\ r[i].sample.pid \in Nat
  BY <1>1, <1>2
<1>5. r[c].sample.pid = r[i].sample.pid
  BY <1>3, <1>4
<1>6. c = i
  BY <1>1, <1>2, <1>5
<1>7. QED
  BY <1>6 DEF c

LEMMA RowsAreMembers == RowInv => GroupIsItsMembers
<1> SUFFICES ASSUME RowInv PROVE GroupIsItsMembers
  OBVIOUS
<1> DEFINE r == resolved
           lowest(S) == CHOOSE i \in S : \A j \in S : r[i].sample.pid <= r[j].sample.pid
<1>1. r \in Seq(Resolutions) /\ DOMAIN r = 1..Len(r)
  BY DEF RowInv, TickInv, Typed
<1>2. \A i \in 1..Len(r) : r[i].sample.pid \in Nat
  <2>1. \A i \in 1..Len(r) : r[i] \in Resolutions
    BY <1>1, ElementOfSeq
  <2>2. \A y \in Resolutions : y.sample.pid \in Nat
    BY ResolverAssumption DEF Resolutions, Samples
  <2>3. QED
    BY <2>1, <2>2
<1>3. /\ \A i, j \in 1..Len(r) : i # j => r[i].sample.pid # r[j].sample.pid
      /\ \A k : k \in DOMAIN groups <=> Members(r, k) # {}
      /\ \A k \in DOMAIN groups : Describes(groups[k], r, k)
  BY DEF RowInv, RowsInv, RowsRight
<1>4. DOMAIN groups = {KeyOf(r[i].sample, r[i].info) :
                          i \in {j \in DOMAIN r : r[j].sample.bytes > 0}}
  BY <1>1, <1>3 DEF Members
<1>5. ASSUME NEW k \in DOMAIN groups
      PROVE  LET first == r[lowest(Members(r, k))] IN
             /\ groups[k].name = (IF first.info = None THEN first.sample.comm
                                  ELSE first.info.name)
             /\ groups[k].exePath = (IF first.info = None THEN None ELSE first.info.exePath)
             /\ groups[k].bytes = Cardinality(Members(r, k))
             /\ IF Apps(r, k) = {}
                THEN groups[k].desktopId = None /\ groups[k].icon = None
                ELSE /\ groups[k].desktopId = r[lowest(Apps(r, k))].info.desktopId
                     /\ groups[k].icon = r[lowest(Apps(r, k))].info.icon
  <2>1. Members(r, k) \subseteq 1..Len(r) /\ Apps(r, k) \subseteq 1..Len(r)
    BY DEF Members, Apps
  <2>2. Describes(groups[k], r, k)
    BY <1>3
  <2>3. \A i : Lowest(r, Members(r, k), i) => lowest(Members(r, k)) = i
    BY <1>2, <1>3, <2>1, LowestIsChosen
  <2>4. \A i : Lowest(r, Apps(r, k), i) => lowest(Apps(r, k)) = i
    BY <1>2, <1>3, <2>1, LowestIsChosen
  <2> HIDE DEF lowest, r
  <2>5. QED
    BY <2>2, <2>3, <2>4 DEF Describes
<1>6. \A k : /\ Members(r, k) = {i \in {j \in DOMAIN r : r[j].sample.bytes > 0} :
                                   KeyOf(r[i].sample, r[i].info) = k}
             /\ Apps(r, k) = {i \in Members(r, k) :
                                r[i].info # None /\ r[i].info.desktopId # None}
  BY <1>1 DEF Members, Apps
<1> DEFINE active == {i \in DOMAIN r : r[i].sample.bytes > 0}
           members(k) == {i \in active : KeyOf(r[i].sample, r[i].info) = k}
           apps(k) == {i \in members(k) : r[i].info # None /\ r[i].info.desktopId # None}
           first(k) == r[lowest(members(k))]
<1>7. ASSUME NEW k \in DOMAIN groups
      PROVE  /\ groups[k].name = (IF first(k).info = None THEN first(k).sample.comm
                                  ELSE first(k).info.name)
             /\ groups[k].exePath = (IF first(k).info = None THEN None
                                     ELSE first(k).info.exePath)
             /\ groups[k].bytes = Cardinality(members(k))
             /\ IF apps(k) = {}
                THEN groups[k].desktopId = None /\ groups[k].icon = None
                ELSE /\ groups[k].desktopId = r[lowest(apps(k))].info.desktopId
                     /\ groups[k].icon = r[lowest(apps(k))].info.icon
  <2>1. members(k) = Members(r, k)
    BY <1>6
  <2> HIDE DEF members, lowest
  <2>2. apps(k) = Apps(r, k)
    BY <1>6, <2>1
  <2>3. QED
    BY <1>5, <2>1, <2>2
<1>8. QED
  BY <1>4, <1>7, Zenon DEF GroupIsItsMembers

\* In the middle of any tick a row says what its members say, in whatever order the
\* map has been walked so far: the lowest pid names it, the lowest pid with a desktop
\* id gives that and the icon, and each member is counted once (GroupIsItsMembers).
THEOREM RowsAreTheirMembers == Spec => []GroupIsItsMembers
  BY RowAlways, RowsAreMembers, PTL
=============================================================================
