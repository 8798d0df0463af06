---------------------------- MODULE ProbesProofs ----------------------------
(***************************************************************************)
(* Proofs about Probes, for any set of socket calls: no probe is left in   *)
(* the kernel by a load that failed or a daemon that ended, and a call of  *)
(* an ordinary kind is counted once or not at all, as documented.          *)
(***************************************************************************)
EXTENDS Probes, FiniteSetTheorems, TLAPS

\* Nothing is attached but by the loop of load(), and only End leaves "ready".
LinksFollowStage == stage \in {"down", "open", "load", "failed"} => links = {}

AttachedSoFar ==
    /\ stage \in {"open", "load"} => attached = 0
    /\ stage \in {"attach", "fd", "ready"} =>
         \A i \in 1..attached : Required(Attachments[i]) => Attachments[i] \in links
    /\ stage \in {"fd", "ready"} => attached = Len(Attachments)

\* A timely call is traced by the probes there are now: they have not changed.
TimelyCallIsTraced ==
    call # NoCall /\ call.timely =>
        stage = "ready" /\ call.traced = Hooks(call.of) \cap links

ProbesInv == TypeOK /\ LinksFollowStage /\ AttachedSoFar /\ TimelyCallIsTraced

-----------------------------------------------------------------------------
LEMMA FourAttachments ==
  /\ Len(Attachments) = 4
  /\ Attachments[1] = "tcp_sendmsg" /\ Attachments[2] = "udp_sendmsg"
  /\ Attachments[3] = "udpv6_sendmsg" /\ Attachments[4] = "sock_recvmsg"
  /\ HookNames = {"tcp_sendmsg", "udp_sendmsg", "udpv6_sendmsg", "sock_recvmsg"}
<1>1. Len(Attachments) = 4
  BY DEF Attachments
<1>2. /\ Attachments[1] = "tcp_sendmsg" /\ Attachments[2] = "udp_sendmsg"
      /\ Attachments[3] = "udpv6_sendmsg" /\ Attachments[4] = "sock_recvmsg"
  BY DEF Attachments
<1>3. \A i \in 1..4 : i = 1 \/ i = 2 \/ i = 3 \/ i = 4
  OBVIOUS
<1>4. HookNames = {"tcp_sendmsg", "udp_sendmsg", "udpv6_sendmsg", "sock_recvmsg"}
  BY <1>1, <1>2, <1>3 DEF HookNames
<1>5. QED
  BY <1>1, <1>2, <1>4

LEMMA HooksAreNames ==
  ASSUME NEW k PROVE Hooks(k) \subseteq HookNames
  BY FourAttachments DEF Hooks

LEMMA CallFields ==
  ASSUME TypeOK, call # NoCall
  PROVE  call \in [of : Calls, traced : SUBSET HookNames, timely : BOOLEAN]
  BY DEF TypeOK

LEMMA DetachedType ==
  ASSUME TypeOK, Detached
  PROVE  /\ links' = {} /\ counted' \in 0..MaxCounted
         /\ call' \in {NoCall} \cup [of : Calls, traced : SUBSET HookNames, timely : BOOLEAN]
         /\ call' # NoCall => ~call'.timely
<1>1. CASE call = NoCall
  BY <1>1, MaxCountedAssumption DEF Detached
<1>2. CASE call # NoCall
  <2>1. call \in [of : Calls, traced : SUBSET HookNames, timely : BOOLEAN]
    BY <1>2, CallFields
  <2>2. call' = [call EXCEPT !.traced = {}, !.timely = FALSE]
    BY <1>2 DEF Detached
  <2>3. /\ call' \in [of : Calls, traced : SUBSET HookNames, timely : BOOLEAN]
        /\ ~call'.timely
    BY <2>1, <2>2
  <2>4. QED
    BY <2>3, MaxCountedAssumption DEF Detached
<1>3. QED
  BY <1>1, <1>2

\* The end of the probes is not the end of the call.
LEMMA DetachedGoesOn ==
  ASSUME TypeOK, Detached, call # NoCall
  PROVE  call' # NoCall
<1>1. call \in [of : Calls, traced : SUBSET HookNames, timely : BOOLEAN]
  BY CallFields
<1>2. DOMAIN call' = {"of", "traced", "timely"}
  BY <1>1 DEF Detached
<1>3. DOMAIN NoCall = {"of"}
  BY DEF NoCall
<1>4. QED
  BY <1>2, <1>3

LEMMA NextHookIsName ==
  ASSUME TypeOK, attached < Len(Attachments)
  PROVE  attached + 1 \in 1..Len(Attachments) /\ NextHook \in HookNames
<1>1. attached + 1 \in 1..Len(Attachments)
  BY FourAttachments DEF TypeOK
<1>2. QED
  BY <1>1 DEF NextHook, HookNames

-----------------------------------------------------------------------------
LEMMA ProbesInit == Init => ProbesInv
<1> SUFFICES ASSUME Init PROVE ProbesInv
  OBVIOUS
<1>1. TypeOK
  <2>1. skel \in BOOLEAN /\ (skel => stage \in {"load", "attach", "fd", "ready"})
    BY Zenon DEF Init
  <2>2. attached \in 0..Len(Attachments) /\ counted \in 0..MaxCounted
    BY FourAttachments, MaxCountedAssumption DEF Init
  <2>3. QED
    BY <2>1, <2>2 DEF Init, TypeOK
<1>2. LinksFollowStage /\ AttachedSoFar /\ TimelyCallIsTraced
  BY DEF Init, LinksFollowStage, AttachedSoFar, TimelyCallIsTraced
<1>3. QED
  BY <1>1, <1>2 DEF ProbesInv

\* All that becomes of the call is that its probes are gone.
LEMMA ProbesDetached ==
  ASSUME ProbesInv, Detached, stage' \in {"failed", "down"}, skel' = FALSE,
         attached' = attached, kernel' = kernel
  PROVE  ProbesInv'
<1>1. TypeOK'
  BY DetachedType DEF ProbesInv, TypeOK
<1>2. LinksFollowStage' /\ AttachedSoFar' /\ TimelyCallIsTraced'
  BY DetachedType DEF ProbesInv, LinksFollowStage, AttachedSoFar, TimelyCallIsTraced
<1>3. QED
  BY <1>1, <1>2 DEF ProbesInv

LEMMA ProbesLoad ==
  ASSUME ProbesInv, Start \/ Open \/ Load \/ AttachEnds \/ MapFd \/ End
  PROVE  ProbesInv'
<1>1. CASE Start
  BY <1>1, FourAttachments
  DEF ProbesInv, Start, TypeOK, LinksFollowStage, AttachedSoFar, TimelyCallIsTraced
<1>2. CASE Open
  <2>1. TypeOK'
    <3>1. ~skel
      BY <1>2 DEF ProbesInv, TypeOK, Open
    <3>2. skel' \in BOOLEAN /\ (skel' => stage' \in {"load", "attach", "fd", "ready"})
      <4>1. CASE stage' = "load" /\ skel' = TRUE
        BY Zenon, <4>1
      <4>2. CASE stage' = "failed" /\ UNCHANGED skel
        BY <3>1, <4>2 DEF ProbesInv, TypeOK
      <4>3. QED
        BY <1>2, <4>1, <4>2 DEF Open
    <3>3. QED
      BY <1>2, <3>2 DEF ProbesInv, Open, TypeOK
  <2>2. LinksFollowStage' /\ AttachedSoFar' /\ TimelyCallIsTraced'
    BY <1>2 DEF ProbesInv, Open, LinksFollowStage, AttachedSoFar, TimelyCallIsTraced
  <2>3. QED
    BY <2>1, <2>2 DEF ProbesInv
<1>3. CASE Load
  <2>1. CASE GiveUp
    BY <1>3, <2>1, ProbesDetached DEF Load, GiveUp
  <2>2. CASE ~GiveUp
    BY <1>3, <2>2
    DEF ProbesInv, Load, TypeOK, LinksFollowStage, AttachedSoFar, TimelyCallIsTraced
  <2>3. QED
    BY <2>1, <2>2
<1>4. CASE AttachEnds
  BY <1>4 DEF ProbesInv, AttachEnds, TypeOK, LinksFollowStage, AttachedSoFar, TimelyCallIsTraced
<1>5. CASE MapFd
  <2>1. CASE GiveUp
    BY <1>5, <2>1, ProbesDetached DEF MapFd, GiveUp
  <2>2. CASE ~GiveUp
    BY <1>5, <2>2
    DEF ProbesInv, MapFd, TypeOK, LinksFollowStage, AttachedSoFar, TimelyCallIsTraced
  <2>3. QED
    BY <2>1, <2>2
<1>6. CASE End
  BY <1>6, ProbesDetached DEF End
<1>7. QED
  BY <1>1, <1>2, <1>3, <1>4, <1>5, <1>6

LEMMA ProbesAttach ==
  ASSUME ProbesInv, Attach \/ AttachFails
  PROVE  ProbesInv'
<1>1. CASE AttachFails /\ Required(NextHook)
  BY <1>1, ProbesDetached DEF AttachFails, GiveUp
<1>2. CASE Attach \/ (AttachFails /\ ~Required(NextHook))
  <2>1. /\ stage = "attach" /\ stage' = "attach"
        /\ attached < Len(Attachments) /\ attached' = attached + 1
        /\ links \subseteq links' /\ links' \subseteq links \cup {NextHook}
        /\ Required(NextHook) => NextHook \in links'
        /\ UNCHANGED <<kernel, skel, call, counted>>
    BY <1>2 DEF Attach, AttachFails
  <2>2. TypeOK'
    BY <2>1, NextHookIsName, FourAttachments DEF ProbesInv, TypeOK
  <2>3. LinksFollowStage' /\ TimelyCallIsTraced'
    BY <2>1 DEF ProbesInv, LinksFollowStage, TimelyCallIsTraced
  <2>4. ASSUME NEW i \in 1..attached', Required(Attachments[i])
        PROVE  Attachments[i] \in links'
    <3>1. i \in 1..attached \/ i = attached + 1
      BY <2>1 DEF ProbesInv, TypeOK
    <3>2. QED
      BY <2>1, <2>4, <3>1 DEF ProbesInv, AttachedSoFar, NextHook
  <2>5. AttachedSoFar'
    BY <2>1, <2>4 DEF AttachedSoFar
  <2>6. QED
    BY <2>2, <2>3, <2>5 DEF ProbesInv
<1>3. QED
  BY <1>1, <1>2

LEMMA ProbesEnter ==
  ASSUME ProbesInv, NEW k \in Calls, Enter(k)
  PROVE  ProbesInv'
<1>1. Entered(k) \in [of : Calls, traced : SUBSET HookNames, timely : BOOLEAN]
  BY HooksAreNames DEF Entered
<1>2. QED
  BY <1>1
  DEF ProbesInv, Enter, Entered, collectorVars, TypeOK, LinksFollowStage, AttachedSoFar,
      TimelyCallIsTraced

LEMMA ProbesReturn ==
  ASSUME ProbesInv, Return
  PROVE  ProbesInv'
<1>1. IsFiniteSet(HookNames)
  <2>1. IsFiniteSet({"tcp_sendmsg"})
    BY FS_Singleton
  <2>2. IsFiniteSet({"tcp_sendmsg"} \cup {"udp_sendmsg"})
    BY <2>1, FS_AddElement
  <2>3. IsFiniteSet(({"tcp_sendmsg"} \cup {"udp_sendmsg"}) \cup {"udpv6_sendmsg"})
    BY <2>2, FS_AddElement
  <2>4. IsFiniteSet((({"tcp_sendmsg"} \cup {"udp_sendmsg"}) \cup {"udpv6_sendmsg"})
                      \cup {"sock_recvmsg"})
    BY <2>3, FS_AddElement
  <2>5. QED
    BY <2>4, FourAttachments
<1>2. Cardinality(call.traced) \in Nat
  BY <1>1, CallFields, FS_Subset, FS_CardinalityType DEF ProbesInv, Return
<1>3. counted' \in 0..MaxCounted
  BY <1>2, MaxCountedAssumption DEF ProbesInv, TypeOK, Return
<1>4. QED
  BY <1>3
  DEF ProbesInv, Return, collectorVars, TypeOK, LinksFollowStage, AttachedSoFar,
      TimelyCallIsTraced

LEMMA ProbesNext == ProbesInv /\ [Next]_vars => ProbesInv'
<1> SUFFICES ASSUME ProbesInv, [Next]_vars PROVE ProbesInv'
  OBVIOUS
<1>1. CASE UNCHANGED vars
  BY <1>1
  DEF ProbesInv, vars, collectorVars, TypeOK, LinksFollowStage, AttachedSoFar, TimelyCallIsTraced
<1>2. QED
  BY <1>1, ProbesLoad, ProbesAttach, ProbesEnter, ProbesReturn DEF Next

LEMMA ProbesAlways == Spec => []ProbesInv
  BY ProbesInit, ProbesNext, PTL DEF Spec

-----------------------------------------------------------------------------
\* Every variable keeps its type: in particular m_skel never points to a skeleton
\* that has been destroyed.
THEOREM TypeCorrect == Spec => []TypeOK
<1>1. ProbesInv => TypeOK
  BY DEF ProbesInv
<1>2. QED
  BY <1>1, ProbesAlways, PTL

\* Whichever step of load() gives up, and however a daemon ends, no probe of it is
\* left in the kernel (NothingLeftBehind).
THEOREM NoProbeStays == Spec => []NothingLeftBehind
<1>1. ProbesInv => NothingLeftBehind
  BY DEF ProbesInv, LinksFollowStage, NothingLeftBehind
<1>2. QED
  BY <1>1, ProbesAlways, PTL

-----------------------------------------------------------------------------
(* The tally. *)

LEMMA OneHook ==
  ASSUME NEW k \in OrdinaryCalls
  PROVE  (IF Accounted(k) THEN Cardinality(Hooks(k)) ELSE 0) = IF Documented(k) THEN 1 ELSE 0
<1>1. /\ k \in SocketCalls
      /\ k.op \in {"send", "recv", "splice"} /\ k.proto \in {"tcp", "udp", "unix"}
      /\ k.connected \in BOOLEAN /\ k.six \in BOOLEAN /\ k.mapped \in BOOLEAN
      /\ k.peer \in {"loopback", "other"}
      /\ k.mapped => k.six
      /\ k.proto = "tcp" => k.connected
      /\ ~(k.op = "send" /\ k.proto = "udp" /\ k.mapped)
      /\ ~(k.peer = "loopback" /\ ~k.connected /\ k.op # "splice")
  BY DEF OrdinaryCalls, SocketCalls, DualStackCalls, UnconnectedLoopbackCalls
<1>2. Cardinality({}) = 0 /\ \A h : Cardinality({h}) = 1
  BY FS_EmptySet, FS_Singleton
<1>3. CASE k.op = "splice"
  <2>1. Hooks(k) = {}
    BY <1>3 DEF Hooks
  <2>2. QED
    BY <1>2, <1>3, <2>1 DEF Documented
<1>4. CASE k.op # "splice" /\ k.proto = "unix"
  BY <1>4 DEF Accounted, Documented
<1>5. CASE k.op # "splice" /\ k.proto # "unix"
  <2>1. PICK h : Hooks(k) = {h}
    <3>1. CASE k.op = "recv"
      BY <3>1 DEF Hooks
    <3>2. CASE k.op = "send" /\ k.proto = "tcp"
      BY <3>2 DEF Hooks
    <3>3. CASE k.op = "send" /\ k.proto = "udp"
      <4>1. Hooks(k) = {g \in {"udp_sendmsg"} : ~k.six \/ k.mapped}
                         \cup {g \in {"udpv6_sendmsg"} : k.six}
        BY <3>3 DEF Hooks
      <4>2. CASE k.six
        <5>1. Hooks(k) = {"udpv6_sendmsg"}
          BY <1>1, <3>3, <4>1, <4>2
        <5>2. QED
          BY <5>1
      <4>3. CASE ~k.six
        <5>1. Hooks(k) = {"udp_sendmsg"}
          BY <4>1, <4>3
        <5>2. QED
          BY <5>1
      <4>4. QED
        BY <4>2, <4>3
    <3>4. QED
      BY <1>1, <1>5, <3>1, <3>2, <3>3
  <2>2. Cardinality(Hooks(k)) = 1
    BY <1>2, <2>1
  <2>3. Accounted(k) <=> Documented(k)
    BY <1>1, <1>5 DEF Accounted, Documented, IsLoopback, SocketPeer
  <2>4. QED
    BY <2>2, <2>3
<1>6. QED
  BY <1>3, <1>4, <1>5

LEMMA TimelyIsWhole ==
  ASSUME ProbesInv, call # NoCall, call.timely, ~WithoutOptional(call.of)
  PROVE  call.traced = Hooks(call.of)
<1>1. /\ stage = "ready" /\ call.traced = Hooks(call.of) \cap links
      /\ \A i \in 1..Len(Attachments) : Required(Attachments[i]) => Attachments[i] \in links
  BY DEF ProbesInv, TimelyCallIsTraced, AttachedSoFar
<1>2. ASSUME NEW h \in Hooks(call.of) PROVE h \in links
  <2>1. PICK i \in 1..Len(Attachments) : h = Attachments[i]
    BY HooksAreNames DEF HookNames
  <2>2. CASE h = "udpv6_sendmsg"
    BY <2>2 DEF WithoutOptional
  <2>3. CASE h # "udpv6_sendmsg"
    BY <1>1, <2>1, <2>3 DEF Required
  <2>4. QED
    BY <2>2, <2>3
<1>3. QED
  BY <1>1, <1>2

\* A call of an ordinary kind.
OrdinaryIsExact ==
    [][ call # NoCall /\ call' = NoCall /\ call.timely /\ ~WithoutOptional(call.of)
            /\ call.of \in OrdinaryCalls
        => counted' - counted = IF Documented(call.of) THEN 1 ELSE 0 ]_vars

LEMMA OrdinaryReturn ==
  ASSUME ProbesInv, [Next]_vars, call # NoCall, call' = NoCall, call.timely,
         ~WithoutOptional(call.of), call.of \in OrdinaryCalls
  PROVE  counted' - counted = IF Documented(call.of) THEN 1 ELSE 0
<1>1. CASE Return
  <2>1. call.traced = Hooks(call.of)
    BY TimelyIsWhole
  <2>2. counted' = counted + (IF Accounted(call.of) THEN Cardinality(Hooks(call.of)) ELSE 0)
    BY <1>1, <2>1 DEF Return
  <2>3. counted' = counted + (IF Documented(call.of) THEN 1 ELSE 0)
    BY <2>2, OneHook
  <2>4. counted \in Int
    BY DEF ProbesInv, TypeOK
  <2>5. QED
    BY <2>3, <2>4
<1>2. CASE ~Return
  <2>1. CASE UNCHANGED call
    BY <2>1
  <2>2. CASE Detached
    BY <2>2, DetachedGoesOn DEF ProbesInv
  <2>3. QED
    BY <1>2, <2>1, <2>2
    DEF Next, vars, Start, Open, Load, Attach, AttachFails, AttachEnds, MapFd, End, GiveUp,
        Enter
<1>3. QED
  BY <1>1, <1>2

\* Whatever other calls are made, a call of an ordinary kind that is made while the
\* daemon is loaded is counted as documented.
THEOREM OrdinaryCallsAreExact == Spec => OrdinaryIsExact
<1>1. ProbesInv /\ [Next]_vars =>
        [call # NoCall /\ call' = NoCall /\ call.timely /\ ~WithoutOptional(call.of)
            /\ call.of \in OrdinaryCalls
         => counted' - counted = IF Documented(call.of) THEN 1 ELSE 0]_vars
  BY OrdinaryReturn
<1>2. QED
  BY <1>1, ProbesAlways, PTL DEF Spec, OrdinaryIsExact

\* Under a load of ordinary calls the tally is exact, whatever load() had to do
\* without and whichever daemons came and went (TallyIsExact).  The hypothesis
\* leaves out the two kinds of calls the code gets wrong.
THEOREM Tally == ASSUME Calls \subseteq OrdinaryCalls PROVE Spec => TallyIsExact
<1>1. ProbesInv /\ [Next]_vars =>
        [call # NoCall /\ call' = NoCall /\ call.timely /\ ~WithoutOptional(call.of)
         => counted' - counted = IF Documented(call.of) THEN 1 ELSE 0]_vars
  BY CallFields, OrdinaryReturn DEF ProbesInv
<1>2. QED
  BY <1>1, ProbesAlways, PTL DEF Spec, TallyIsExact
=============================================================================
