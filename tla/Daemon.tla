------------------------------- MODULE Daemon -------------------------------
(***************************************************************************)
(* The life of plasma-nethogsd as the rest of the system sees it: start,   *)
(* the timer that samples and publishes, the write that may fail, and the  *)
(* ways a daemon ends (daemon/src/main.cpp, daemon/src/JsonWriter.cpp,     *)
(* systemd/plasma-nethogsd.service.in).  One daemon per path.              *)
(*                                                                         *)
(* Durations are whole numbers of ticks, a tick being some fraction of the *)
(* publishing interval.                                                    *)
(***************************************************************************)
EXTENDS RuntimeDir

CONSTANTS
    Managed,  \* paths whose directory systemd makes and tears down
    Mishaps   \* what may go wrong in a run

ASSUME ManagedAssumption == Managed \subseteq Paths
ASSUME MishapsAssumption ==
    Mishaps \subseteq {"load_fails", "write_fails", "overwrite", "stop", "kill", "clock_step"}

VARIABLE
    daemon    \* daemon[p]: the process that publishes to p

Daemons ==
    [phase : {"down", "baseline", "up"}, timer : Nat, period : Periods,
     seq : 0..SeqCap]

Down == [phase |-> "down", timer |-> 0, period |-> Absent.period, seq |-> 0]

DaemonTypeOK == daemon \in [Paths -> Daemons]

DaemonInit == daemon = [p \in Paths |-> Down]

-----------------------------------------------------------------------------
\* m_seq counts from 1 and never wraps; a reader only compares it with the one
\* it saw last.  The model reuses the numbers 2..SeqCap, so 1 is still the
\* number of the first publication only.
NextSeq(s) == IF s < SeqCap THEN s + 1 ELSE 2

Running(p) == daemon[p].phase # "down"

TimerDue(p) == Running(p) /\ daemon[p].timer = 0

\* What a freshly started process begins with: the timer is armed, nothing has
\* been sampled yet, and m_seq starts over.
Started(n) == [phase |-> "baseline", timer |-> n, period |-> n, seq |-> 0]

\* The next sample; the first one only establishes the baseline.
Sampled(d) ==
    IF d.phase = "baseline"
    THEN [d EXCEPT !.phase = "up", !.timer = d.period]
    ELSE [d EXCEPT !.timer = d.period, !.seq = NextSeq(@)]

-----------------------------------------------------------------------------
\* Start with --interval n; the directory is made if it is missing, and a
\* document somebody left in it stays.  systemd has torn the directory down
\* before it starts the daemon again.
Start(p, n) ==
    /\ ~Running(p)
    /\ p \in Managed => ~dirs[p]
    /\ daemon' = [daemon EXCEPT ![p] = Started(n)]
    /\ MakeDir(p)

\* The programs cannot be loaded: the process exits without removing anything.
LoadFails(p) ==
    /\ "load_fails" \in Mishaps
    /\ ~Running(p)
    /\ p \in Managed => ~dirs[p]
    /\ MakeDir(p)
    /\ UNCHANGED daemon

\* First timeout: Aggregator::update returns false.
Baseline(p) ==
    /\ TimerDue(p)
    /\ daemon[p].phase = "baseline"
    /\ daemon' = [daemon EXCEPT ![p] = Sampled(@)]
    /\ UNCHANGED dirVars

\* The temporary file is in the directory for a moment before it is renamed.  Its
\* creation is one more event for a watch on the directory and is merged with the
\* rename: reported before that, it leads to a read() of the document as it was.
Publish(p) ==
    /\ TimerDue(p)
    /\ daemon[p].phase = "up"
    /\ daemon' = [daemon EXCEPT ![p] = Sampled(@)]
    /\ RenameOnto(p, Snapshot(NextSeq(daemon[p].seq), daemon[p].period))

\* QSaveFile cannot be opened (nothing happens in the directory) or cannot be
\* committed (a temporary file came and went).  The sequence number is spent.
WriteFails(p) ==
    /\ "write_fails" \in Mishaps
    /\ TimerDue(p)
    /\ daemon[p].phase = "up"
    /\ daemon' = [daemon EXCEPT ![p] = Sampled(@)]
    /\ watch' \in {watch, Notified(p, FALSE, FALSE)}
    /\ UNCHANGED <<dirs, docs>>

\* SIGTERM: the event loop is left and the snapshot removed.
Stop(p) ==
    /\ "stop" \in Mishaps
    /\ Running(p)
    /\ daemon' = [daemon EXCEPT ![p] = Down]
    /\ RemoveFile(p)

\* SIGKILL or a crash: the snapshot stays behind.
Kill(p) ==
    /\ "kill" \in Mishaps
    /\ Running(p)
    /\ daemon' = [daemon EXCEPT ![p] = Down]
    /\ UNCHANGED dirVars

\* systemd removes the runtime directory of a service that ended.
TearDown(p) ==
    /\ p \in Managed
    /\ ~Running(p)
    /\ dirs[p]
    /\ RemoveDir(p)
    /\ UNCHANGED daemon

Overwrite(p) ==
    /\ "overwrite" \in Mishaps
    /\ OverwriteInPlace(p)
    /\ UNCHANGED daemon

\* Somebody sets the wall clock: all documents look older, or newer.  A larger
\* step is several of these.
ClockStep ==
    /\ "clock_step" \in Mishaps
    /\ \E by \in {-1, 1} : docs' = [p \in Paths |-> Stepped(docs[p], by)]
    /\ UNCHANGED <<dirs, watch, daemon>>

-----------------------------------------------------------------------------
\* One tick of every timer and every clock.  The daemon is never late.
DaemonTick ==
    /\ \A p \in Paths : ~TimerDue(p)
    /\ daemon' = [p \in Paths |->
           IF Running(p) THEN [daemon[p] EXCEPT !.timer = @ - 1] ELSE daemon[p]]
    /\ docs' = [p \in Paths |-> Older(docs[p])]
    /\ UNCHANGED <<dirs, watch>>
=============================================================================
