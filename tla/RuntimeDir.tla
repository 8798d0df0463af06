----------------------------- MODULE RuntimeDir -----------------------------
(***************************************************************************)
(* The file system the daemon and the widget share, and the notifications  *)
(* the kernel and QFileSystemWatcher draw from it.                         *)
(*                                                                         *)
(* None of this is code of the repository: it is what                      *)
(* daemon/src/JsonWriter.cpp and plasmoid/plugin/StateWatcher.cpp rely on  *)
(* (QSaveFile's rename, inotify, QFileSystemWatcher's list of paths).      *)
(* There is one snapshot file per directory, so one name stands for both.  *)
(***************************************************************************)
EXTENDS Integers, FiniteSets

CONSTANTS
    Paths,    \* the snapshot paths a daemon may be told to publish to
    NoPath,   \* the empty string: the path of a watcher nobody configured
    Periods,  \* publishing intervals a daemon may be started with, in ticks
    SeqCap,   \* bound: sequence numbers above it are reused, see NextSeq
    AgeCap    \* bound: documents older than this are all equally old

ASSUME PathsAssumption == NoPath \notin Paths
ASSUME PeriodsAssumption == Periods \subseteq Nat \ {0} /\ Periods # {}
ASSUME SeqCapAssumption == SeqCap \in Nat /\ SeqCap >= 3
ASSUME AgeCapAssumption == AgeCap \in Nat

VARIABLES
    dirs,     \* dirs[p]: the directory of p exists
    docs,     \* docs[p]: the document found at p
    watch     \* what QFileSystemWatcher watches, and what it has yet to report

dirVars == <<dirs, docs, watch>>

-----------------------------------------------------------------------------
(***************************************************************************)
(* Documents.  A snapshot is the "seq" the daemon gave it, the publishing  *)
(* interval it reports and its age, the difference between the reader's    *)
(* clock and "ts".  A foreign document is any file that is not a version 1 *)
(* snapshot.  The age only matters for a snapshot.  Every snapshot has a   *)
(* "seq": JsonWriter writes one, and a version 1 document made by anybody  *)
(* else that has none is not among the documents.                          *)
(***************************************************************************)
Seqs == 1..SeqCap

Documents ==
    [kind : {"none", "foreign", "snapshot"},
     seq : Seqs, period : Periods, age : 0..AgeCap]

Absent == [kind |-> "none", seq |-> 1, period |-> CHOOSE n \in Periods : TRUE,
           age |-> 0]

Foreign == [Absent EXCEPT !.kind = "foreign"]

Snapshot(s, n) == [kind |-> "snapshot", seq |-> s, period |-> n, age |-> 0]

Older(d) ==
    IF d.kind = "snapshot" /\ d.age < AgeCap THEN [d EXCEPT !.age = @ + 1] ELSE d

\* The wall clock is set forward (by > 0) or back.  A document from the future is
\* as young as one written now: how long it stays that is not followed.
Stepped(d, by) ==
    LET age == d.age + by
    IN  IF d.kind # "snapshot" THEN d
        ELSE [d EXCEPT !.age = IF age < 0 THEN 0 ELSE IF age > AgeCap THEN AgeCap ELSE age]

-----------------------------------------------------------------------------
(***************************************************************************)
(* Watches.  A watched path is in the watcher's list, and either the       *)
(* kernel still watches it ("live") or the watched inode is gone and the   *)
(* path stays in the list until that is reported ("gone").                 *)
(* Events on one path that have not been delivered yet are merged.         *)
(***************************************************************************)
Watches ==
    [path : Paths \cup {NoPath}, dir : {"none", "live", "gone"},
     file : {"none", "live", "gone"}, pending : SUBSET {"dir", "file"}]

Unwatched(p) == [path |-> p, dir |-> "none", file |-> "none", pending |-> {}]

\* What becomes of the watches when something changes in the directory of p.
\* inotify reports every creation, rename and removal to a watch on the
\* directory; a watch on the file hears of the inode it was placed on only.
Notified(p, dirGone, fileGone) ==
    IF watch.path # p THEN watch
    ELSE [path |-> p,
          dir |-> IF watch.dir = "live" /\ dirGone THEN "gone" ELSE watch.dir,
          file |-> IF watch.file = "live" /\ fileGone THEN "gone" ELSE watch.file,
          pending |-> watch.pending
              \cup {w \in {"dir"} : watch.dir = "live"}
              \cup {w \in {"file"} : watch.file = "live" /\ fileGone}]

\* QSaveFile::commit() renames a finished document over p.
RenameOnto(p, d) ==
    /\ docs' = [docs EXCEPT ![p] = d]
    /\ watch' = Notified(p, FALSE, TRUE)
    /\ UNCHANGED dirs

\* QFile::remove(p); nothing happens if there is no such file.
RemoveFile(p) ==
    \/ /\ docs[p].kind = "none"
       /\ UNCHANGED dirVars
    \/ /\ docs[p].kind # "none"
       /\ docs' = [docs EXCEPT ![p] = Absent]
       /\ watch' = Notified(p, FALSE, TRUE)
       /\ UNCHANGED dirs

\* The directory goes away with everything in it.
RemoveDir(p) ==
    /\ dirs' = [dirs EXCEPT ![p] = FALSE]
    /\ docs' = [docs EXCEPT ![p] = Absent]
    /\ watch' = Notified(p, TRUE, TRUE)

\* QDir::mkpath, or systemd's RuntimeDirectory=; the parent is not watched.
MakeDir(p) ==
    /\ dirs' = [dirs EXCEPT ![p] = TRUE]
    /\ UNCHANGED <<docs, watch>>

\* Something else writes over the file in place: the same inode, so the watch
\* on the file survives and the one on the directory hears nothing.
OverwriteInPlace(p) ==
    /\ docs[p].kind # "none"
    /\ docs' = [docs EXCEPT ![p] = Foreign]
    /\ watch' = IF watch.path = p /\ watch.file = "live"
                THEN [watch EXCEPT !.pending = @ \cup {"file"}] ELSE watch
    /\ UNCHANGED dirs

-----------------------------------------------------------------------------
DirTypeOK ==
    /\ dirs \in [Paths -> BOOLEAN]
    /\ docs \in [Paths -> Documents]
    /\ watch \in Watches

DirInit ==
    /\ dirs \in [Paths -> BOOLEAN]
    /\ docs = [p \in Paths |-> Absent]
    /\ watch = Unwatched(NoPath)
=============================================================================
