------------------------------- MODULE Probes -------------------------------
(***************************************************************************)
(* How the probes get into the kernel and what they see there:             *)
(* BpfCollector::load() and its destructor step by step                    *)
(* (daemon/src/BpfCollector.cpp), and the filters of account()             *)
(* (daemon/bpf/plasma-nethogs.bpf.c), while some process makes socket      *)
(* calls that may outlast any of these steps.                              *)
(*                                                                         *)
(* What becomes of a counted byte is the subject of TrafficMap; here a     *)
(* call moves one byte or none, and counted says how often it was added.   *)
(***************************************************************************)
EXTENDS Integers, FiniteSets, Sequences

CONSTANTS
    Calls,      \* the socket calls made
    MaxCounted  \* bound: bytes counted by one load of the probes

VARIABLES
    kernel,   \* what the kernel was built with
    stage,    \* how far the collector has come
    attached, \* how many of Attachments the loop in load() is done with
    skel,     \* m_skel # nullptr
    links,    \* the functions a probe is attached to
    call,     \* the socket call in progress
    counted   \* bytes added to the counter of the calling process

collectorVars == <<kernel, stage, attached, skel, links>>
vars == <<collectorVars, call, counted>>

-----------------------------------------------------------------------------
(***************************************************************************)
(* Socket calls.  A call is made on a socket of some protocol, "six" if    *)
(* its family is AF_INET6, "mapped" if the peer is an IPv4 address on such *)
(* a socket; "peer" is who the bytes go to or come from, and "connected"   *)
(* says that the socket itself has that address.                           *)
(***************************************************************************)
SocketCalls ==
    {k \in [op : {"send", "recv", "splice"}, proto : {"tcp", "udp", "unix"},
            six : BOOLEAN, mapped : BOOLEAN, connected : BOOLEAN,
            peer : {"loopback", "other"}, bytes : {0, 1}] :
        /\ k.mapped => k.six
        /\ k.proto = "tcp" => k.connected
        /\ k.proto = "unix" => ~k.six /\ k.peer = "other"}

ASSUME CallsAssumption == Calls \subseteq SocketCalls
ASSUME MaxCountedAssumption == MaxCounted \in Nat

\* The hooked functions the kernel goes through.  A datagram for an IPv4 peer on
\* an IPv6 socket is passed from udpv6_sendmsg to udp_sendmsg.
Hooks(k) ==
    CASE k.op = "recv" -> {"sock_recvmsg"}
      [] k.op = "send" /\ k.proto = "tcp" -> {"tcp_sendmsg"}
      [] k.op = "send" /\ k.proto = "udp" ->
            {h \in {"udp_sendmsg"} : ~k.six \/ k.mapped}
                \cup {h \in {"udpv6_sendmsg"} : k.six}
      [] OTHER -> {}

\* skc_daddr: an unconnected socket has no peer of its own.
SocketPeer(k) == IF k.connected THEN k.peer ELSE "none"

\* Faulty: an IPv4 address on an IPv6 socket is not recognized.
IsLoopbackUnmapped(k) == SocketPeer(k) = "loopback" /\ ~k.mapped

IsLoopback(k) == SocketPeer(k) = "loopback"

\* What account() lets through.
Accounted(k) == k.bytes > 0 /\ k.proto # "unix" /\ ~IsLoopback(k)

-----------------------------------------------------------------------------
\* The functions to attach to, in order, and those load() insists on.
Attachments == <<"tcp_sendmsg", "udp_sendmsg", "udpv6_sendmsg", "sock_recvmsg">>

HookNames == {Attachments[i] : i \in 1..Len(Attachments)}

\* Faulty: every attachment may fail.
NotRequired(h) == FALSE

Required(h) == h # "udpv6_sendmsg"

NoCall == [of |-> "none"]

\* A call, the probes that were there when it entered, and whether load() had
\* returned by then.
Entered(k) == [of |-> k, traced |-> Hooks(k) \cap links, timely |-> stage = "ready"]

\* The last conjunct: m_skel points to a skeleton only while there is one.
TypeOK ==
    /\ kernel \in [btf : BOOLEAN, six : BOOLEAN]
    /\ stage \in {"down", "open", "load", "attach", "fd", "ready", "failed"}
    /\ attached \in 0..Len(Attachments)
    /\ links \subseteq HookNames
    /\ call \in {NoCall} \cup [of : Calls, traced : SUBSET HookNames, timely : BOOLEAN]
    /\ counted \in 0..MaxCounted
    /\ skel \in BOOLEAN /\ (skel => stage \in {"load", "attach", "fd", "ready"})

Init ==
    /\ kernel \in [btf : BOOLEAN, six : BOOLEAN]
    /\ stage = "down"
    /\ attached = 0
    /\ skel = FALSE
    /\ links = {}
    /\ call = NoCall
    /\ counted = 0

-----------------------------------------------------------------------------
\* The daemon starts and load() looks for the kernel's type information.
Start ==
    /\ stage = "down"
    /\ stage' = IF kernel.btf THEN "open" ELSE "failed"
    /\ attached' = 0
    /\ UNCHANGED <<kernel, skel, links, call, counted>>

\* The probes and the map go away with the skeleton.  A call in progress ends
\* in probes nobody reads any more.
Detached ==
    /\ links' = {}
    /\ counted' = 0
    /\ call' = IF call = NoCall THEN NoCall
               ELSE [call EXCEPT !.traced = {}, !.timely = FALSE]

\* Faulty: the pointer to the destroyed skeleton is kept.
GiveUpKeepingPointer ==
    /\ stage' = "failed"
    /\ skel' = skel
    /\ Detached

\* Faulty: the skeleton is forgotten without being destroyed.
LeaveBehind ==
    /\ stage' = "failed"
    /\ skel' = FALSE
    /\ UNCHANGED <<links, call, counted>>

\* load() gives up: plasma_nethogs_bpf__destroy().
GiveUp ==
    /\ stage' = "failed"
    /\ skel' = FALSE
    /\ Detached

Open ==
    /\ stage = "open"
    /\ \/ /\ stage' = "load"
          /\ skel' = TRUE
       \/ /\ stage' = "failed"
          /\ UNCHANGED skel
    /\ UNCHANGED <<kernel, attached, links, call, counted>>

\* libbpf looks all functions up here and refuses the object if one is missing.
Load ==
    /\ stage = "load"
    /\ \/ /\ kernel.six
          /\ stage' = "attach"
          /\ UNCHANGED <<skel, links, call, counted>>
       \/ GiveUp
    /\ UNCHANGED <<kernel, attached>>

NextHook == Attachments[attached + 1]

Attach ==
    /\ stage = "attach"
    /\ attached < Len(Attachments)
    /\ attached' = attached + 1
    /\ links' = links \cup {NextHook}
    /\ UNCHANGED <<kernel, stage, skel, call, counted>>

AttachFails ==
    /\ stage = "attach"
    /\ attached < Len(Attachments)
    /\ \/ /\ Required(NextHook)
          /\ GiveUp
          /\ UNCHANGED attached
       \/ /\ ~Required(NextHook)
          /\ attached' = attached + 1
          /\ UNCHANGED <<stage, skel, links, call, counted>>
    /\ UNCHANGED kernel

AttachEnds ==
    /\ stage = "attach"
    /\ attached = Len(Attachments)
    /\ stage' = "fd"
    /\ UNCHANGED <<kernel, attached, skel, links, call, counted>>

MapFd ==
    /\ stage = "fd"
    /\ \/ /\ stage' = "ready"
          /\ UNCHANGED <<skel, links, call, counted>>
       \/ GiveUp
    /\ UNCHANGED <<kernel, attached>>

\* The destructor, or the kernel closing what a killed process had open.
End ==
    /\ stage # "down"
    /\ stage' = "down"
    /\ skel' = FALSE
    /\ Detached
    /\ UNCHANGED <<kernel, attached>>

-----------------------------------------------------------------------------
\* A probe at the end of a function only runs for calls that entered the function
\* after it was attached.
Enter(k) ==
    /\ call = NoCall
    /\ k.six => kernel.six
    /\ call' = Entered(k)
    /\ UNCHANGED <<collectorVars, counted>>

Return ==
    /\ call # NoCall
    /\ call' = NoCall
    /\ counted' = counted + (IF Accounted(call.of) THEN Cardinality(call.traced) ELSE 0)
    /\ counted' <= MaxCounted
    /\ UNCHANGED collectorVars

Next ==
    \/ Start
    \/ Open
    \/ Load
    \/ Attach
    \/ AttachFails
    \/ AttachEnds
    \/ MapFd
    \/ End
    \/ \E k \in Calls : Enter(k)
    \/ Return

Spec == Init /\ [][Next]_vars

-----------------------------------------------------------------------------
\* "Loads and attaches.  On failure returns false" (BpfCollector.h:31): whichever
\* step gave up, and however the process ended, no probe is left in the kernel.
NothingLeftBehind == stage \in {"failed", "down"} => links = {}

\* What the documentation counts: bytes over TCP and UDP with a peer that is not
\* a loopback address; splice() from a socket is the gap it admits
\* (README.en.md:44-63).
Documented(k) ==
    k.bytes > 0 /\ k.proto # "unix" /\ k.peer # "loopback" /\ k.op # "splice"

\* Two kinds of calls the probes get wrong: a datagram to an IPv4 peer on an IPv6
\* socket passes two of them, and an unconnected socket does not know that its peer
\* is a loopback address.
DualStackCalls ==
    {k \in SocketCalls : k.op = "send" /\ k.proto = "udp" /\ k.mapped}

UnconnectedLoopbackCalls ==
    {k \in SocketCalls : k.peer = "loopback" /\ ~k.connected /\ k.op # "splice"}

OrdinaryCalls == SocketCalls \ (DualStackCalls \cup UnconnectedLoopbackCalls)

\* The probe the code can do without is missing.
WithoutOptional(k) == \E h \in Hooks(k) \ links : h = "udpv6_sendmsg"

\* "Against an application's own byte tally it is exact" (README.en.md:47): a call
\* made under a loaded daemon is counted once if it is one that is to be counted,
\* and otherwise not at all, whatever load() had to do without and whichever
\* daemon came and went before; only for the IPv6 half of UDP does load() return
\* with no probe in place.
TallyIsExact ==
    [][ call # NoCall /\ call' = NoCall /\ call.timely /\ ~WithoutOptional(call.of)
        => counted' - counted = IF Documented(call.of) THEN 1 ELSE 0 ]_vars
=============================================================================
