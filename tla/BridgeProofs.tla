---------------------------- MODULE BridgeProofs ----------------------------
(* Theorems about Bridge, for every set of commands and packets and every     *)
(* capacity, timeout and batch size: its types, what its queues hold, and     *)
(* that it implements Shared and Delivery.                                    *)
EXTENDS Bridge, SharedProofs

(* What is inductive.  BridgeTypeOK leaves out three variables, whose types   *)
(* the steps need; the rest says where a command can be on its way, and that  *)
(* the queues together keep the order in which the command channel took them. *)

FilterNames == {"portal", "state", "setpoint_override"}

SenderType ==
  {<<"idle">>, <<"keepalive">>} \cup {<<"subscribe", i>> : i \in 1 .. 3}
    \cup {<<"publish", c>> : c \in Commands}

PacketOf(f) == [type : {f}, arg : Payloads[f], session : 0 .. MaxGeneration]
PacketType ==
  PacketOf("portal") \cup PacketOf("state") \cup PacketOf("setpoint_override")
    \cup [type : {"disconnect"}, arg : {Null}, session : 0 .. MaxGeneration]

LoopTypes ==
  /\ network \in BOOLEAN /\ running \in BOOLEAN /\ asleep \in BOOLEAN /\ wake \in BOOLEAN
  /\ events \in Seq(PacketType)
  /\ sender \in SenderType
  /\ requests \in Seq(RequestType) /\ Len(requests) <= QueueCap
  /\ pending \subseteq RequestType
  /\ inflight \in Seq(Commands) /\ Len(inflight) <= MaxInflight
  /\ subscribed \subseteq FilterNames

CommandTypes ==
  /\ commands \in Seq(Commands)
  /\ phase \in [Commands -> {"new", "accepted", "sent", "failed"}]
  /\ guardGen \in [Commands -> 0 .. MaxGeneration]
  /\ guardAge \in [Commands -> Ages(CommandTTL)]
  /\ wire \in Seq([cmd : Commands, session : 0 .. MaxGeneration])
  /\ arrivals \in Seq(Commands)

(* The four places of a command on its way, and the places in the line.      *)
Replays(c) == Publish(c) \in pending
Requested(c) == Publish(c) \in Elements(requests)
Sending(c) == sender = <<"publish", c>>
Queued(c) == c \in Elements(commands)
Arrived(c) == \E n \in DOMAIN arrivals : arrivals[n] = c

\* c is ahead of d in the line.
Precedes(c, d) == \A m, n \in DOMAIN arrivals : arrivals[m] = c /\ arrivals[n] = d => m < n

\* A command joins the line once, when the command channel takes it.
ArrivesOnce ==
  /\ \A m, n \in DOMAIN arrivals : arrivals[m] = arrivals[n] => m = n
  /\ \A n \in DOMAIN arrivals : phase[arrivals[n]] = "sent"

\* Whatever is on its way, unacknowledged or delivered has joined the line.
AllArrived ==
  /\ \A c \in Commands : Replays(c) \/ Requested(c) \/ Sending(c) \/ Queued(c) => Arrived(c)
  /\ \A c \in OnWire : Arrived(c)

\* What has reached the broker is in no queue but, perhaps, that for replay.
NotBefore ==
  /\ \A c \in Commands : Requested(c) \/ Sending(c) \/ Queued(c) => c \notin OnWire /\ ~Replays(c)
  /\ \A i \in DOMAIN inflight : inflight[i] \in OnWire

\* The queues hold the commands in the order of the line.
QueuesInOrder ==
  /\ \A i, j \in DOMAIN commands : i < j => Precedes(commands[i], commands[j])
  /\ \A i, j \in DOMAIN requests :
       i < j /\ requests[i].type = "publish" /\ requests[j].type = "publish"
         => Precedes(requests[i].arg, requests[j].arg)
  /\ \A c, d \in Commands : (Requested(c) \/ Sending(c)) /\ Queued(d) => Precedes(c, d)
  /\ \A c, d \in Commands : Requested(c) /\ Sending(d) => Precedes(c, d)

\* Guards are of this session or an earlier one; a replay's session is over.
GuardsArePast ==
  /\ \A c \in Commands : guardGen[c] <= generation
  /\ \A c \in Commands : Replays(c) => guardGen[c] < generation
  /\ \A c \in Commands : Sending(c) => ~Guarded(c)

BridgeInv ==
  /\ TypeInv /\ LoopTypes /\ CommandTypes
  /\ ConnectedMirrorsNetwork /\ NoStaleController /\ GuardsArePast
  /\ ArrivesOnce /\ AllArrived /\ NotBefore /\ QueuesInOrder

-----------------------------------------------------------------------------
(* Facts about the operators *)

\* What a queue holds after an item joined it or its first one left.
LEMMA ElementsOfQueues ==
  ASSUME NEW S, NEW q \in Seq(S)
  PROVE  /\ Elements(<<>>) = {}
         /\ Elements(q) \subseteq S
         /\ \A x \in S : Elements(Append(q, x)) = Elements(q) \cup {x}
         /\ q # <<>> => Elements(q) = {Head(q)} \cup Elements(Tail(q))
<1>1. Elements(<<>>) = {} /\ Elements(q) \subseteq S
  BY DEF Elements
<1>2. ASSUME NEW x \in S PROVE Elements(Append(q, x)) = Elements(q) \cup {x}
  <2> DEFINE a == Append(q, x)
             k == Len(q) + 1
  <2>1. /\ DOMAIN a = DOMAIN q \cup {k} /\ a[k] = x
        /\ \A i \in DOMAIN q : a[i] = q[i]
    OBVIOUS
  <2> HIDE DEF a, k
  <2>2. Elements(a) = Elements(q) \cup {x}
    BY <2>1 DEF Elements
  <2> QED
    BY <2>2 DEF a
<1>3. ASSUME q # <<>> PROVE Elements(q) = {Head(q)} \cup Elements(Tail(q))
  <2> DEFINE t == Tail(q)
  <2>1. /\ Len(q) \in Nat \ {0} /\ DOMAIN q = 1 .. Len(q) /\ DOMAIN t = 1 .. Len(q) - 1
        /\ Head(q) = q[1] /\ \A i \in DOMAIN t : t[i] = q[i + 1]
    BY <1>3, HeadTailProperties
  <2> HIDE DEF t
  <2>2. Elements(q) \subseteq {Head(q)} \cup Elements(t)
    <3> SUFFICES ASSUME NEW i \in DOMAIN q, i # 1 PROVE q[i] \in Elements(t)
      BY <2>1 DEF Elements
    <3>1. i - 1 \in DOMAIN t /\ t[i - 1] = q[i]
      BY <2>1
    <3> QED
      BY <3>1 DEF Elements
  <2>3. {Head(q)} \cup Elements(t) \subseteq Elements(q)
    <3>1. Head(q) \in Elements(q)
      BY <2>1 DEF Elements
    <3>2. ASSUME NEW i \in DOMAIN t PROVE t[i] \in Elements(q)
      <4>1. i + 1 \in DOMAIN q /\ t[i] = q[i + 1]
        BY <2>1
      <4> QED
        BY <4>1 DEF Elements
    <3> QED
      BY <3>1, <3>2 DEF Elements
  <2> QED
    BY <2>2, <2>3 DEF t
<1> QED
  BY <1>1, <1>2, <1>3

\* The requests are typed, and a publish is told by its type and its command.
LEMMA RequestTypes ==
  /\ \A c \in Commands : Publish(c) \in RequestType
  /\ \A f \in FilterNames : SubscribeTo(f) \in RequestType
  /\ Keepalive \in RequestType
  /\ \A r \in RequestType : r.type = "publish" => r.arg \in Commands /\ r = Publish(r.arg)
  /\ \A r \in RequestType : r.type = "subscribe" => r.arg \in FilterNames
  /\ \A c : Publish(c).type = "publish" /\ Publish(c).arg = c
  /\ \A c, f : Publish(c) # SubscribeTo(f) /\ Publish(c) # Keepalive
BY DEF RequestType, FilterNames, Publish, SubscribeTo, Keepalive

\* What send_requests may be doing, by the tag of its state.
LEMMA SenderCases ==
  ASSUME sender \in SenderType
  PROVE  /\ sender[1] = "publish" => sender[2] \in Commands /\ Sending(sender[2])
         /\ sender[1] = "subscribe" => sender[2] \in 1 .. 3
         /\ \A c : Sending(c) => sender[1] = "publish" /\ sender[2] = c
BY DEF SenderType, Sending

\* The filters are the three that a packet may carry.
LEMMA FilterTypes ==
  /\ Len(Filters) = 3 /\ DOMAIN Filters = 1 .. 3
  /\ \A i \in 1 .. 3 : Filters[i] \in FilterNames
  /\ {Filters[i] : i \in DOMAIN Filters} = FilterNames
<1>1. Len(Filters) = 3 /\ DOMAIN Filters = 1 .. 3
  BY DEF Filters
<1>2. Filters[1] = "portal" /\ Filters[2] = "state" /\ Filters[3] = "setpoint_override"
  BY DEF Filters
<1> HIDE DEF Filters
<1>3. \A i \in 1 .. 3 : i = 1 \/ i = 2 \/ i = 3
  OBVIOUS
<1> QED
  BY <1>1, <1>2, <1>3 DEF FilterNames

\* A batch is a sequence of packets of the session that is up.
LEMMA BatchTypes ==
  ASSUME TypeInv, LoopTypes, NEW n \in Nat, NEW b \in Batches(n)
  PROVE  /\ b \in Seq(PacketType)
         /\ \A i \in DOMAIN b : b[i].session = generation
         /\ BrokerDisconnect \in PacketType /\ BrokerDisconnect.session = generation
<1>1. generation \in 0 .. MaxGeneration
  BY DEF TypeInv, SharedTypeOK, FlagsTypeOK
<1>2. ASSUME NEW p \in Packets PROVE p \in PacketType /\ p.session = generation
  <2>1. PICK f \in subscribed : p \in [type : {f}, arg : Payloads[f], session : {generation}]
    BY DEF Packets
  <2>2. f \in FilterNames
    BY DEF LoopTypes
  <2>3. p \in PacketOf(f) /\ p.session = generation
    BY <1>1, <2>1 DEF PacketOf
  <2> QED
    BY <2>2, <2>3 DEF FilterNames, PacketType
<1>3. PICK k \in 0 .. n : b \in [1 .. k -> Packets]
  BY DEF Batches
<1>4. b \in Seq(PacketType)
  BY <1>2, <1>3
<1>5. \A i \in DOMAIN b : b[i].session = generation
  BY <1>2, <1>3
<1>6. BrokerDisconnect \in PacketType /\ BrokerDisconnect.session = generation
  <2>1. BrokerDisconnect \in [type : {"disconnect"}, arg : {Null}, session : 0 .. MaxGeneration]
    BY <1>1 DEF BrokerDisconnect
  <2> QED
    BY <2>1 DEF PacketType, BrokerDisconnect
<1> QED
  BY <1>4, <1>5, <1>6

-----------------------------------------------------------------------------
(* Bridge implements Shared *)

\* What poll_events applies is an operation of Shared on typed arguments.
LEMMA YieldIsShared ==
  ASSUME BridgeInv, Yield
  PROVE  /\ [SharedNext]_sharedVars
         /\ Head(events).type # "disconnect" => UNCHANGED <<connected, generation>>
<1> DEFINE packet == Head(events)
<1>1. packet \in PacketType
  BY DEF Yield, BridgeInv, LoopTypes
<1>2. /\ packet.type = "portal" => packet.arg \in Payloads.portal
      /\ packet.type = "state" => packet.arg \in Payloads.state
      /\ packet.type = "setpoint_override" => packet.arg \in Payloads.setpoint_override
  BY <1>1 DEF PacketType, PacketOf
<1> HIDE DEF packet
<1>3. ASSUME packet.type = "portal", Len(packet.arg) = 2, Update(packet.arg[1], packet.arg[2])
      PROVE  SharedNext /\ UNCHANGED <<connected, generation>>
  <2>1. packet.arg \in Leaves \X (Values \cup {Null})
    BY <1>2, <1>3 DEF Payloads
  <2> QED
    BY <1>3, <2>1 DEF SharedNext, Update
<1>4. ASSUME packet.type = "portal", Len(packet.arg) = 1, RemoveDevice(packet.arg[1])
      PROVE  SharedNext /\ UNCHANGED <<connected, generation>>
  <2>1. \E l \in Leaves : packet.arg = <<Device(l)>>
    BY <1>2, <1>4 DEF Payloads
  <2>2. packet.arg[1] \in {Device(l) : l \in Leaves}
    BY <2>1
  <2> QED
    BY <1>4, <2>2 DEF SharedNext, RemoveDevice
<1>5. ASSUME packet.type = "state", packet.arg # Garbage, UpdateInverter(packet.arg)
      PROVE  SharedNext /\ UNCHANGED <<connected, generation>>
  <2>1. packet.arg \in States \cup {Null}
    BY <1>2, <1>5 DEF Payloads
  <2> QED
    BY <1>5, <2>1 DEF SharedNext, UpdateInverter
<1>6. ASSUME packet.type = "setpoint_override",
             UpdateOverride(IF packet.arg = Garbage THEN Null ELSE packet.arg)
      PROVE  SharedNext /\ UNCHANGED <<connected, generation>>
  <2>1. (IF packet.arg = Garbage THEN Null ELSE packet.arg) \in Acks \cup {Null}
    BY <1>2, <1>6 DEF Payloads
  <2> QED
    BY <1>6, <2>1 DEF SharedNext, UpdateOverride
<1>7. ASSUME packet.type = "disconnect", HandleDisconnect(inflight, requests)
      PROVE  SharedNext
  BY <1>7 DEF HandleDisconnect, SharedNext
<1>8. ASSUME UNCHANGED sharedVars
      PROVE  UNCHANGED <<connected, generation>>
  BY <1>8 DEF sharedVars, telemetryVars
<1> QED
  BY <1>3, <1>4, <1>5, <1>6, <1>7, <1>8 DEF Yield, packet

\* Every step of the bridge is a step of Shared, or leaves it alone.
LEMMA SharedStep ==
  ASSUME BridgeInv, [BridgeNext]_bridgeVars
  PROVE  [SharedNext]_sharedVars
<1>1. CASE \E c \in Commands : Accept(c) \/ Enqueue(c)
  BY <1>1 DEF Accept, Enqueue
<1>2. CASE SenderNext
  BY <1>2 DEF SenderNext, SeeConnAck, KeepaliveTick, TakeGuarded, TakeLegacy, SenderEnqueues
<1>3. CASE LoopNext
  <2>1. CASE Break \/ WriteFails
    BY <2>1 DEF Break, WriteFails, HandleDisconnect, SharedNext
  <2>2. CASE Yield
    BY <2>2, YieldIsShared
  <2> QED
    BY <1>3, <2>1, <2>2 DEF LoopNext, ConnAck, ConnectFails, WakeUp, Read, Write, PubAck, SharedNext
<1>4. CASE Stop
  BY <1>4 DEF Stop, SharedNext
<1>5. CASE BridgeTick
  BY <1>5 DEF BridgeTick, SharedNext
<1>6. CASE Others
  BY <1>6 DEF Others, SharedNext
<1>7. CASE UNCHANGED bridgeVars
  BY <1>7 DEF bridgeVars
<1> QED
  BY <1>1, <1>2, <1>3, <1>4, <1>5, <1>6, <1>7 DEF BridgeNext

\* The coalescing task and the streams neither open nor end a session.
LEMMA OthersKeepTheSession == Others => UNCHANGED <<connected, generation>>
<1>1. BroadcastSnapshot => UNCHANGED <<connected, generation>>
  BY DEF BroadcastSnapshot
<1>2. \A c \in Clients : StreamNext(c) => UNCHANGED telemetryVars
  BY Zenon DEF StreamNext, Subscribe, Recv, Check, Deliver, Close
<1> QED
  BY <1>1, <1>2 DEF Others, telemetryVars

\* The connection flag follows the connection in every step.
LEMMA MirrorStep ==
  ASSUME BridgeInv, [BridgeNext]_bridgeVars
  PROVE  ConnectedMirrorsNetwork'
<1> USE DEF ConnectedMirrorsNetwork
<1>0. ASSUME UNCHANGED sharedVars, UNCHANGED network PROVE ConnectedMirrorsNetwork'
  BY <1>0 DEF BridgeInv, sharedVars, telemetryVars
<1>1. CASE \E c \in Commands : Accept(c) \/ Enqueue(c)
  BY <1>0, <1>1 DEF Accept, Enqueue, loopVars
<1>2. CASE SenderNext
  BY <1>0, <1>2 DEF SenderNext, SeeConnAck, KeepaliveTick, TakeGuarded, TakeLegacy,
     SenderEnqueues, loopVars
<1>3. CASE LoopNext
  <2>1. CASE Break \/ WriteFails
    BY <2>1 DEF Break, WriteFails, HandleDisconnect, Disconnect
  <2>2. CASE Yield
    <3>1. CASE Head(events).type = "disconnect"
      <4>1. HandleDisconnect(inflight, requests)
        BY <2>2, <3>1 DEF Yield
      <4> QED
        BY <4>1 DEF HandleDisconnect, Disconnect
    <3>2. CASE Head(events).type # "disconnect"
      BY <2>2, <3>2, YieldIsShared DEF Yield, BridgeInv
    <3> QED
      BY <3>1, <3>2
  <2>3. CASE ConnAck
    BY <2>3 DEF ConnAck, Connect
  <2> QED
    BY <1>0, <1>3, <2>1, <2>2, <2>3 DEF LoopNext, ConnectFails, WakeUp, Read, Write, PubAck, loopVars
<1>4. CASE Stop
  <2>1. connected \in BOOLEAN
    BY DEF BridgeInv, TypeInv, SharedTypeOK, FlagsTypeOK
  <2> QED
    BY <1>4, <2>1 DEF Stop, Disconnect, sharedVars, telemetryVars
<1>5. CASE BridgeTick
  BY <1>5 DEF BridgeTick, Tick, BridgeInv, loopVars
<1>6. CASE Others
  <2>1. UNCHANGED <<connected, generation>>
    BY <1>6, OthersKeepTheSession
  <2>2. UNCHANGED network
    BY <1>6 DEF Others, loopVars
  <2> QED
    BY <2>1, <2>2 DEF BridgeInv
<1>7. CASE UNCHANGED bridgeVars
  BY <1>0, <1>7 DEF bridgeVars, loopVars
<1> QED
  BY <1>1, <1>2, <1>3, <1>4, <1>5, <1>6, <1>7 DEF BridgeNext

-----------------------------------------------------------------------------
(* The inductive steps: the ones that leave the path of commands alone first. *)

pathVars == <<requests, pending, inflight, commands, phase, guardGen, wire, arrivals>>

\* A step that moves no command, and neither opens nor ends a session.
LEMMA QuietStep ==
  ASSUME BridgeInv, UNCHANGED <<pathVars, connected, generation>>,
         \A c : Sending(c)' <=> Sending(c)
  PROVE  /\ NoStaleController' /\ GuardsArePast'
         /\ ArrivesOnce' /\ AllArrived' /\ NotBefore' /\ QueuesInOrder'
<1> USE DEF pathVars
<1>1. NoStaleController'
  BY DEF BridgeInv, NoStaleController
<1>2. \A c : /\ Replays(c)' <=> Replays(c)
             /\ Requested(c)' <=> Requested(c)
             /\ Queued(c)' <=> Queued(c)
             /\ Arrived(c)' <=> Arrived(c)
  BY DEF Replays, Requested, Queued, Arrived
<1>3. OnWire' = OnWire /\ \A c, d : Precedes(c, d)' <=> Precedes(c, d)
  BY DEF OnWire, Precedes
<1>4. GuardsArePast'
  BY <1>2 DEF BridgeInv, GuardsArePast
<1>5. ArrivesOnce'
  BY DEF BridgeInv, ArrivesOnce
<1>6. AllArrived' /\ NotBefore'
  BY <1>2, <1>3 DEF BridgeInv, AllArrived, NotBefore
<1>7. QueuesInOrder'
  BY <1>2, <1>3 DEF BridgeInv, QueuesInOrder
<1> QED
  BY <1>1, <1>4, <1>5, <1>6, <1>7

\* The commands that are requested are the publishes in the channel.
LEMMA RequestedAt ==
  ASSUME BridgeInv, NEW c
  PROVE  /\ Requested(c) <=> \E i \in DOMAIN requests : requests[i] = Publish(c)
         /\ \A i \in DOMAIN requests :
              requests[i].type = "publish" => /\ requests[i].arg \in Commands
                                              /\ requests[i] = Publish(requests[i].arg)
                                              /\ Requested(requests[i].arg)
<1>1. \A i \in DOMAIN requests : requests[i] \in RequestType
  BY DEF BridgeInv, LoopTypes
<1>2. \A d : Requested(d) <=> \E i \in DOMAIN requests : requests[i] = Publish(d)
  BY DEF Requested, Elements
<1> QED
  BY <1>1, <1>2, RequestTypes

\* What is on the wire is a command.
LEMMA WireTypes == BridgeInv => OnWire \subseteq Commands
<1> SUFFICES ASSUME BridgeInv, NEW i \in DOMAIN wire PROVE wire[i].cmd \in Commands
  BY DEF OnWire
<1> DEFINE D == [cmd : Commands, session : 0 .. MaxGeneration]
<1>1. wire \in Seq(D)
  BY DEF BridgeInv, CommandTypes
<1> HIDE DEF D
<1>2. wire[i] \in D
  BY <1>1
<1> QED
  BY <1>2 DEF D

\* Two commands in order that have both arrived are different.
LEMMA OrderIsStrict ==
  ASSUME BridgeInv, NEW c, NEW d, Arrived(c), Precedes(c, d)
  PROVE  c # d
<1>1. PICK n \in DOMAIN arrivals : arrivals[n] = c
  BY DEF Arrived
<1>2. c = d => n < n
  BY <1>1 DEF Precedes
<1>3. n \in Nat
  BY DEF BridgeInv, CommandTypes
<1> QED
  BY <1>2, <1>3

\* The session ends: what send_requests handed over is cleared away.  The
\* channel may have lost its first request to the write that failed.
LEMMA CleanStep ==
  ASSUME BridgeInv, TypeInv', NEW u \in Seq(Commands), NEW w \in Seq(RequestType),
         HandleDisconnect(u, w), UNCHANGED <<sender, arrivals>>,
         Elements(w) \subseteq Elements(requests),
         \A c \in Elements(u) : c \in OnWire \/ Requested(c),
         OnWire \subseteq OnWire',
         \A c \in OnWire' : c \in OnWire \/ Requested(c)
  PROVE  /\ NoStaleController' /\ GuardsArePast'
         /\ ArrivesOnce' /\ AllArrived' /\ NotBefore' /\ QueuesInOrder'
<1>0. /\ connected /\ ~connected' /\ generation' = generation + 1 /\ generation \in Nat
      /\ requests' = <<>> /\ inflight' = <<>> /\ UNCHANGED <<commands, phase, guardGen>>
      /\ pending = {} /\ sender \in SenderType /\ guardGen \in [Commands -> 0 .. MaxGeneration]
  BY SharedAssumption DEF HandleDisconnect, Disconnect, commandVars, BridgeInv, NoStaleController,
     TypeInv, SharedTypeOK, FlagsTypeOK, LoopTypes, CommandTypes
<1>1. \A c : ~Requested(c)'
  BY <1>0 DEF Requested, Elements
<1>2. ASSUME NEW c, Replays(c)'
      PROVE  c \in Commands /\ ~Guarded(c) /\ (c \in OnWire \/ Requested(c))
  <2>1. Publish(c) \in {Publish(d) : d \in Elements(u)} \cup Elements(w)
    BY <1>0, <1>2 DEF HandleDisconnect, Replays
  <2>2. c \in Elements(u) \/ Requested(c)
    BY <2>1, RequestTypes DEF Requested
  <2>3. c \in OnWire \/ Requested(c)
    BY <2>2
  <2>4. c \in Commands
    <3>1. Requested(c) => c \in Commands
      BY RequestedAt, RequestTypes
    <3>2. c \in OnWire => c \in Commands
      BY WireTypes
    <3> QED
      BY <2>3, <3>1, <3>2
  <2>5. Replayable(Publish(c))
    BY <1>2 DEF HandleDisconnect, Replays
  <2> QED
    BY <2>3, <2>4, <2>5, RequestTypes DEF Replayable
<1>3. \A c : /\ Sending(c)' <=> Sending(c)
             /\ Queued(c)' <=> Queued(c)
             /\ Arrived(c)' <=> Arrived(c)
  BY <1>0 DEF Sending, Queued, Arrived
<1>4. \A c, d : Precedes(c, d)' <=> Precedes(c, d)
  BY DEF Precedes
<1>5. NoStaleController'
  <2>1. \A r \in pending' : r.type = "publish" => ~Guarded(r.arg)
    BY DEF HandleDisconnect, Replayable
  <2> QED
    BY <1>0, <2>1 DEF NoStaleController
<1>6. GuardsArePast'
  <2>1. \A c \in Commands : guardGen'[c] <= generation
    BY <1>0 DEF BridgeInv, GuardsArePast
  <2>2. \A c \in Commands : guardGen'[c] < generation'
    BY <1>0, <2>1
  <2> QED
    BY <1>0, <1>3, <2>2 DEF BridgeInv, GuardsArePast
<1>7. ArrivesOnce'
  BY <1>0 DEF BridgeInv, ArrivesOnce
<1>8. AllArrived'
  <2>1. \A c : c \in OnWire \/ Requested(c) => Arrived(c)
    BY RequestedAt, RequestTypes DEF BridgeInv, AllArrived
  <2> QED
    BY <1>1, <1>2, <1>3, <2>1 DEF BridgeInv, AllArrived
<1>9. NotBefore'
  <2>1. ASSUME NEW c \in Commands, Sending(c) \/ Queued(c)
        PROVE  c \notin OnWire /\ ~Requested(c)
    <3>1. c \notin OnWire
      BY <2>1 DEF BridgeInv, NotBefore
    <3>2. Requested(c) => Precedes(c, c) /\ Arrived(c)
      BY <2>1 DEF BridgeInv, QueuesInOrder, AllArrived
    <3> QED
      BY <3>1, <3>2, OrderIsStrict
  <2> QED
    BY <1>0, <1>1, <1>2, <1>3, <2>1 DEF NotBefore
<1>10. QueuesInOrder'
  BY <1>0, <1>1, <1>3, <1>4 DEF BridgeInv, QueuesInOrder
<1> QED
  BY <1>5, <1>6, <1>7, <1>8, <1>9, <1>10

-----------------------------------------------------------------------------
(* The steps that move a command. *)

\* Joining the line leaves the order of those in it alone.
LEMMA ArrivalKeepsOrder ==
  ASSUME BridgeInv, NEW c \in Commands, ~Arrived(c), arrivals' = Append(arrivals, c)
  PROVE  /\ arrivals' \in Seq(Commands)
         /\ \A d : Arrived(d)' <=> Arrived(d) \/ d = c
         /\ \A d, e : d # c /\ e # c /\ Precedes(d, e) => Precedes(d, e)'
         /\ \A d : d # c => Precedes(d, c)'
         /\ \A m, n \in DOMAIN arrivals' : arrivals'[m] = arrivals'[n] => m = n
<1> DEFINE k == Len(arrivals) + 1
<1>1. /\ arrivals' \in Seq(Commands)
      /\ DOMAIN arrivals' = DOMAIN arrivals \cup {k} /\ DOMAIN arrivals = 1 .. k - 1 /\ k \in Nat
      /\ \A n \in DOMAIN arrivals : arrivals'[n] = arrivals[n]
      /\ arrivals'[k] = c
  BY DEF BridgeInv, CommandTypes
<1> HIDE DEF k
<1>2. \A n \in DOMAIN arrivals : arrivals[n] # c
  BY DEF Arrived
<1>3. \A d : Arrived(d)' <=> Arrived(d) \/ d = c
  BY <1>1 DEF Arrived
<1>4. \A d, e : d # c /\ e # c /\ Precedes(d, e) => Precedes(d, e)'
  BY <1>1 DEF Precedes
<1>5. \A d : d # c => Precedes(d, c)'
  BY <1>1, <1>2 DEF Precedes
<1>6. \A m, n \in DOMAIN arrivals' : arrivals'[m] = arrivals'[n] => m = n
  BY <1>1, <1>2 DEF BridgeInv, ArrivesOnce
<1> QED
  BY <1>1, <1>3, <1>4, <1>5, <1>6

\* execute's first half: nothing is in any queue yet.
LEMMA AcceptStep ==
  ASSUME BridgeInv, NEW c \in Commands, Accept(c)
  PROVE  /\ NoStaleController' /\ GuardsArePast'
         /\ ArrivesOnce' /\ AllArrived' /\ NotBefore' /\ QueuesInOrder'
<1>0. /\ UNCHANGED <<requests, pending, inflight, commands, wire, arrivals, sender, connected, generation>>
      /\ phase' = [phase EXCEPT ![c] = "accepted"]
      /\ guardGen' = [guardGen EXCEPT ![c] = generation]
      /\ phase[c] = "new" /\ generation \in Nat /\ CommandTypes
  BY SharedAssumption DEF Accept, sharedVars, telemetryVars, loopVars, taskVars, brokerVars,
     BridgeInv, TypeInv, SharedTypeOK, FlagsTypeOK
<1>1. ~Arrived(c)
  BY <1>0 DEF Arrived, BridgeInv, ArrivesOnce
<1>2. \A d : /\ Replays(d)' <=> Replays(d)
             /\ Requested(d)' <=> Requested(d)
             /\ Queued(d)' <=> Queued(d)
             /\ Sending(d)' <=> Sending(d)
             /\ Arrived(d)' <=> Arrived(d)
  BY <1>0 DEF Replays, Requested, Queued, Arrived, Sending
<1>3. OnWire' = OnWire /\ \A d, e : Precedes(d, e)' <=> Precedes(d, e)
  BY <1>0 DEF OnWire, Precedes
<1>4. \A d \in Commands : d # c => guardGen'[d] = guardGen[d] /\ phase'[d] = phase[d]
  BY <1>0 DEF CommandTypes
<1>5. GuardsArePast'
  <2>1. guardGen'[c] = generation /\ ~Replays(c)
    BY <1>0, <1>1 DEF BridgeInv, AllArrived, CommandTypes
  <2> QED
    BY <1>0, <1>2, <1>4, <2>1 DEF BridgeInv, GuardsArePast
<1>6. NoStaleController'
  <2>1. \A i \in DOMAIN requests : requests[i].type = "publish" =>
          requests[i].arg # c /\ requests[i].arg \in Commands
    BY <1>1, RequestedAt DEF BridgeInv, AllArrived
  <2> QED
    BY <1>0, <1>4, <2>1 DEF BridgeInv, NoStaleController
<1>7. ArrivesOnce'
  <2>1. \A n \in DOMAIN arrivals : arrivals[n] \in Commands /\ arrivals[n] # c
    BY <1>0, <1>1 DEF Arrived, CommandTypes
  <2> QED
    BY <1>0, <1>4, <2>1 DEF BridgeInv, ArrivesOnce
<1>8. AllArrived' /\ NotBefore'
  BY <1>0, <1>2, <1>3 DEF BridgeInv, AllArrived, NotBefore
<1>9. QueuesInOrder'
  BY <1>0, <1>2, <1>3 DEF BridgeInv, QueuesInOrder
<1> QED
  BY <1>5, <1>6, <1>7, <1>8, <1>9

\* execute's second half: the command joins the line, or is refused.
LEMMA EnqueueStep ==
  ASSUME BridgeInv, NEW c \in Commands, Enqueue(c)
  PROVE  /\ NoStaleController' /\ GuardsArePast'
         /\ ArrivesOnce' /\ AllArrived' /\ NotBefore' /\ QueuesInOrder'
<1>0. /\ UNCHANGED <<requests, pending, inflight, guardGen, wire, sender, connected, generation>>
      /\ phase[c] = "accepted" /\ CommandTypes
  BY DEF Enqueue, sharedVars, telemetryVars, loopVars, taskVars, BridgeInv
<1>1. ~Arrived(c)
  BY <1>0 DEF Arrived, BridgeInv, ArrivesOnce
<1>2. \A d : /\ Replays(d)' <=> Replays(d)
             /\ Requested(d)' <=> Requested(d)
             /\ Sending(d)' <=> Sending(d)
  BY <1>0 DEF Replays, Requested, Sending
<1>3. OnWire' = OnWire
  BY <1>0 DEF OnWire
<1>4. NoStaleController'
  BY <1>0 DEF BridgeInv, NoStaleController
<1>5. GuardsArePast'
  BY <1>0, <1>2 DEF BridgeInv, GuardsArePast
<1>6. CASE running
  <2>1. /\ phase' = [phase EXCEPT ![c] = "sent"]
        /\ commands' = Append(commands, c) /\ arrivals' = Append(arrivals, c)
    BY <1>6 DEF Enqueue
  <2>2. /\ arrivals' \in Seq(Commands)
        /\ \A d : Arrived(d)' <=> Arrived(d) \/ d = c
        /\ \A d, e : d # c /\ e # c /\ Precedes(d, e) => Precedes(d, e)'
        /\ \A d : d # c => Precedes(d, c)'
        /\ \A m, n \in DOMAIN arrivals' : arrivals'[m] = arrivals'[n] => m = n
    BY <1>1, <2>1, ArrivalKeepsOrder
  <2>3. \A d : Queued(d)' <=> Queued(d) \/ d = c
    <3>1. Elements(commands') = Elements(commands) \cup {c}
      BY <1>0, <2>1, ElementsOfQueues DEF CommandTypes
    <3> QED
      BY <3>1 DEF Queued
  <2>4. \A d \in Commands : Replays(d) \/ Requested(d) \/ Sending(d) \/ Queued(d) \/ d \in OnWire
          => Arrived(d) /\ d # c
    BY <1>1 DEF BridgeInv, AllArrived
  <2>5. ArrivesOnce'
    <3>1. \A n \in DOMAIN arrivals' : phase'[arrivals'[n]] = "sent"
      <4> SUFFICES ASSUME NEW n \in DOMAIN arrivals', NEW d, d = arrivals'[n]
                   PROVE  phase'[d] = "sent"
        OBVIOUS
      <4>1. d \in Commands /\ Arrived(d)'
        BY <2>2 DEF Arrived
      <4>2. CASE d = c
        BY <1>0, <2>1, <4>2 DEF CommandTypes
      <4>3. CASE d # c
        <5>1. Arrived(d)
          BY <2>2, <4>1, <4>3
        <5>2. phase[d] = "sent"
          BY <5>1 DEF Arrived, BridgeInv, ArrivesOnce
        <5> QED
          BY <1>0, <2>1, <4>1, <4>3, <5>2 DEF CommandTypes
      <4> QED
        BY <4>2, <4>3
    <3> QED
      BY <2>2, <3>1 DEF ArrivesOnce
  <2>6. AllArrived'
    BY <1>2, <1>3, <2>2, <2>3, <2>4 DEF BridgeInv, AllArrived
  <2>7. NotBefore'
    BY <1>0, <1>2, <1>3, <1>1, <2>3, <2>4 DEF BridgeInv, NotBefore, AllArrived
  <2>8. QueuesInOrder'
    <3> DEFINE k == Len(commands) + 1
    <3>1. /\ DOMAIN commands' = DOMAIN commands \cup {k} /\ DOMAIN commands = 1 .. k - 1 /\ k \in Nat
          /\ \A i \in DOMAIN commands : commands'[i] = commands[i] /\ commands[i] \in Commands
          /\ commands'[k] = c
      BY <1>0, <2>1 DEF CommandTypes
    <3> HIDE DEF k
    <3>2. \A i \in DOMAIN commands : Queued(commands[i])
      BY DEF Queued, Elements
    <3>3. (\A i, j \in DOMAIN commands : i < j => Precedes(commands[i], commands[j]))'
      <4> SUFFICES ASSUME NEW i \in DOMAIN commands', NEW j \in DOMAIN commands', i < j
                   PROVE  Precedes(commands[i], commands[j])'
        OBVIOUS
      <4>1. i \in DOMAIN commands /\ commands'[i] = commands[i] /\ commands[i] # c
        BY <2>4, <3>1, <3>2
      <4>2. CASE j = k
        BY <2>2, <3>1, <4>1, <4>2
      <4>3. CASE j # k
        BY <2>2, <2>4, <3>1, <3>2, <4>1, <4>3 DEF BridgeInv, QueuesInOrder
      <4> QED
        BY <4>2, <4>3
    <3>4. (\A i, j \in DOMAIN requests :
             i < j /\ requests[i].type = "publish" /\ requests[j].type = "publish"
               => Precedes(requests[i].arg, requests[j].arg))'
      BY <1>0, <2>2, <2>4, RequestedAt DEF BridgeInv, QueuesInOrder
    <3>5. \A d, e \in Commands : (Requested(d) \/ Sending(d)) /\ Queued(e)' => Precedes(d, e)'
      BY <2>2, <2>3, <2>4 DEF BridgeInv, QueuesInOrder
    <3>6. \A d, e \in Commands : Requested(d) /\ Sending(e) => Precedes(d, e)'
      BY <2>2, <2>4 DEF BridgeInv, QueuesInOrder
    <3> QED
      BY <1>2, <3>3, <3>4, <3>5, <3>6 DEF QueuesInOrder
  <2> QED
    BY <1>4, <1>5, <2>5, <2>6, <2>7, <2>8
<1>7. CASE ~running
  <2>1. UNCHANGED <<commands, arrivals>> /\ phase' = [phase EXCEPT ![c] = "failed"]
    BY <1>7 DEF Enqueue
  <2>2. \A d : (Queued(d)' <=> Queued(d)) /\ (Arrived(d)' <=> Arrived(d))
    BY <2>1 DEF Queued, Arrived
  <2>3. \A d, e : Precedes(d, e)' <=> Precedes(d, e)
    BY <2>1 DEF Precedes
  <2>4. ArrivesOnce'
    <3>1. \A n \in DOMAIN arrivals : arrivals[n] \in Commands /\ arrivals[n] # c
      BY <1>0, <1>1 DEF Arrived, CommandTypes
    <3> QED
      BY <1>0, <2>1, <3>1 DEF BridgeInv, ArrivesOnce, CommandTypes
  <2>5. AllArrived' /\ NotBefore'
    BY <1>0, <1>2, <1>3, <2>2 DEF BridgeInv, AllArrived, NotBefore
  <2>6. QueuesInOrder'
    BY <1>0, <1>2, <2>1, <2>2, <2>3 DEF BridgeInv, QueuesInOrder
  <2> QED
    BY <1>4, <1>5, <2>4, <2>5, <2>6
<1> QED
  BY <1>6, <1>7

\* The first command in the channel is ahead of the others.
LEMMA FirstCommand ==
  ASSUME BridgeInv, commands # <<>>, NEW c, c = Head(commands), NEW t, t = Tail(commands)
  PROVE  /\ c \in Commands /\ t \in Seq(Commands)
         /\ Elements(commands) = {c} \cup Elements(t)
         /\ \A d \in Elements(t) : Precedes(c, d)
         /\ Arrived(c) /\ c \notin Elements(t)
         /\ \A i, j \in DOMAIN t : i < j => Precedes(t[i], t[j])
<1>1. /\ c \in Commands /\ t \in Seq(Commands) /\ commands \in Seq(Commands)
      /\ DOMAIN commands = 1 .. Len(commands) /\ Len(commands) \in Nat \ {0}
      /\ DOMAIN t = 1 .. Len(commands) - 1
      /\ c = commands[1] /\ \A i \in DOMAIN t : t[i] = commands[i + 1]
  BY HeadTailProperties DEF BridgeInv, CommandTypes
<1>2. Elements(commands) = {c} \cup Elements(t)
  BY <1>1, ElementsOfQueues
<1>3. \A i, j \in DOMAIN commands : i < j => Precedes(commands[i], commands[j])
  BY DEF BridgeInv, QueuesInOrder
<1>4. \A i \in DOMAIN t : Precedes(c, t[i])
  BY <1>1, <1>3
<1>5. \A d \in Elements(t) : Precedes(c, d)
  BY <1>4 DEF Elements
<1>6. Arrived(c)
  BY <1>1, <1>2 DEF BridgeInv, AllArrived, Queued
<1>7. c \notin Elements(t)
  BY <1>5, <1>6, OrderIsStrict
<1>8. \A i, j \in DOMAIN t : i < j => Precedes(t[i], t[j])
  BY <1>1, <1>3
<1> QED
  BY <1>1, <1>2, <1>5, <1>6, <1>7, <1>8

\* The first request in rumqttc's channel, when it is a command's.
LEMMA FirstRequest ==
  ASSUME BridgeInv, requests # <<>>, NEW r, r = Head(requests), NEW t, t = Tail(requests)
  PROVE  /\ r \in RequestType /\ t \in Seq(RequestType) /\ Len(t) = Len(requests) - 1
         /\ Elements(requests) = {r} \cup Elements(t)
         /\ r.type = "publish" =>
              /\ r.arg \in Commands /\ r = Publish(r.arg) /\ Requested(r.arg) /\ Arrived(r.arg)
              /\ \A d : Publish(d) \in Elements(t) => Precedes(r.arg, d) /\ d # r.arg
         /\ \A i, j \in DOMAIN t : i < j /\ t[i].type = "publish" /\ t[j].type = "publish"
              => Precedes(t[i].arg, t[j].arg)
<1>1. /\ r \in RequestType /\ t \in Seq(RequestType) /\ requests \in Seq(RequestType)
      /\ DOMAIN requests = 1 .. Len(requests) /\ Len(requests) \in Nat \ {0}
      /\ DOMAIN t = 1 .. Len(requests) - 1 /\ Len(t) = Len(requests) - 1
      /\ r = requests[1] /\ \A i \in DOMAIN t : t[i] = requests[i + 1]
  BY HeadTailProperties DEF BridgeInv, LoopTypes
<1>2. Elements(requests) = {r} \cup Elements(t)
  BY <1>1, ElementsOfQueues
<1>3. \A i, j \in DOMAIN requests :
        i < j /\ requests[i].type = "publish" /\ requests[j].type = "publish"
          => Precedes(requests[i].arg, requests[j].arg)
  BY DEF BridgeInv, QueuesInOrder
<1>4. \A i, j \in DOMAIN t : i < j /\ t[i].type = "publish" /\ t[j].type = "publish"
        => Precedes(t[i].arg, t[j].arg)
  BY <1>1, <1>3
<1>5. ASSUME r.type = "publish"
      PROVE  /\ r.arg \in Commands /\ r = Publish(r.arg) /\ Requested(r.arg) /\ Arrived(r.arg)
             /\ \A d : Publish(d) \in Elements(t) => Precedes(r.arg, d) /\ d # r.arg
  <2>1. r.arg \in Commands /\ r = Publish(r.arg) /\ Requested(r.arg)
    BY <1>1, <1>5, RequestedAt
  <2>2. Arrived(r.arg)
    BY <2>1 DEF BridgeInv, AllArrived
  <2>3. ASSUME NEW d, Publish(d) \in Elements(t) PROVE Precedes(r.arg, d) /\ d # r.arg
    <3>1. PICK i \in DOMAIN t : t[i] = Publish(d)
      BY <2>3 DEF Elements
    <3>2. i + 1 \in DOMAIN requests /\ 1 < i + 1 /\ requests[i + 1] = Publish(d) /\ 1 \in DOMAIN requests
      BY <1>1, <3>1
    <3>3. Precedes(r.arg, d)
      BY <1>1, <1>3, <1>5, <3>2, RequestTypes
    <3> QED
      BY <2>2, <3>3, OrderIsStrict
  <2> QED
    BY <2>1, <2>2, <2>3
<1> QED
  BY <1>1, <1>2, <1>4, <1>5

\* A request joins rumqttc's channel behind every command that is in it.
LEMMA RequestJoins ==
  ASSUME BridgeInv, NEW r \in RequestType, requests' = Append(requests, r), UNCHANGED arrivals,
         r.type = "publish" => \A d \in Commands : Requested(d) => Precedes(d, r.arg)
  PROVE  /\ \A d : Requested(d)' <=> Requested(d) \/ r = Publish(d)
         /\ (\A i, j \in DOMAIN requests :
               i < j /\ requests[i].type = "publish" /\ requests[j].type = "publish"
                 => Precedes(requests[i].arg, requests[j].arg))'
         /\ \A i \in DOMAIN requests' : \/ i \in DOMAIN requests /\ requests'[i] = requests[i]
                                        \/ requests'[i] = r
<1>0. requests \in Seq(RequestType)
  BY DEF BridgeInv, LoopTypes
<1>1. \A d : Requested(d)' <=> Requested(d) \/ r = Publish(d)
  <2>1. Elements(requests') = Elements(requests) \cup {r}
    BY <1>0, ElementsOfQueues
  <2> QED
    BY <2>1 DEF Requested
<1> DEFINE k == Len(requests) + 1
<1>2. /\ DOMAIN requests' = DOMAIN requests \cup {k} /\ DOMAIN requests = 1 .. k - 1 /\ k \in Nat
      /\ \A i \in DOMAIN requests : requests'[i] = requests[i]
      /\ requests'[k] = r
  BY <1>0
<1> HIDE DEF k
<1>3. \A d, e : Precedes(d, e)' <=> Precedes(d, e)
  BY DEF Precedes
<1>4. ASSUME NEW i \in DOMAIN requests', NEW j \in DOMAIN requests', i < j,
             requests'[i].type = "publish", requests'[j].type = "publish"
      PROVE  Precedes(requests[i].arg, requests[j].arg)'
  <2>1. i \in DOMAIN requests /\ requests'[i] = requests[i]
    BY <1>2, <1>4
  <2>2. requests[i].arg \in Commands /\ Requested(requests[i].arg)
    BY <1>4, <2>1, RequestedAt
  <2>3. CASE j = k
    BY <1>2, <1>3, <1>4, <2>1, <2>2, <2>3
  <2>4. CASE j # k
    BY <1>2, <1>3, <1>4, <2>1, <2>4 DEF BridgeInv, QueuesInOrder
  <2> QED
    BY <2>3, <2>4
<1>5. \A i \in DOMAIN requests' : \/ i \in DOMAIN requests /\ requests'[i] = requests[i]
                                  \/ requests'[i] = r
  BY <1>2
<1> QED
  BY <1>1, <1>4, <1>5

\* send_if_current: the command moves on under the lock, or is dropped.
LEMMA TakeGuardedStep ==
  ASSUME BridgeInv, TakeGuarded
  PROVE  /\ NoStaleController' /\ GuardsArePast'
         /\ ArrivesOnce' /\ AllArrived' /\ NotBefore' /\ QueuesInOrder'
<1> DEFINE c == Head(commands)
           t == Tail(commands)
<1>0. /\ UNCHANGED <<pending, inflight, phase, guardGen, wire, arrivals, sender, connected, generation>>
      /\ commands # <<>> /\ Guarded(c) /\ commands' = t /\ sender = <<"idle">>
  BY DEF TakeGuarded, sharedVars, telemetryVars, taskVars, brokerVars
<1>1. /\ c \in Commands /\ t \in Seq(Commands)
      /\ Elements(commands) = {c} \cup Elements(t)
      /\ \A d \in Elements(t) : Precedes(c, d)
      /\ Arrived(c) /\ c \notin Elements(t)
      /\ \A i, j \in DOMAIN t : i < j => Precedes(t[i], t[j])
  BY <1>0, FirstCommand
<1> HIDE DEF c, t
<1>2. \A d : /\ Replays(d)' <=> Replays(d)
             /\ ~Sending(d)' /\ ~Sending(d)
             /\ Arrived(d)' <=> Arrived(d)
             /\ Queued(d) <=> Queued(d)' \/ d = c
             /\ Queued(d)' => Precedes(c, d)
  BY <1>0, <1>1 DEF Replays, Sending, Arrived, Queued
<1>3. OnWire' = OnWire /\ \A d, e : Precedes(d, e)' <=> Precedes(d, e)
  BY <1>0 DEF OnWire, Precedes
<1>4. ArrivesOnce'
  BY <1>0 DEF BridgeInv, ArrivesOnce
<1>5. (\A i, j \in DOMAIN commands : i < j => Precedes(commands[i], commands[j]))'
  BY <1>0, <1>1, <1>3
<1>6. \A d \in Commands : Requested(d) => Precedes(d, c) /\ ~Queued(d)
  <2> SUFFICES ASSUME NEW d \in Commands, Requested(d) PROVE Precedes(d, c) /\ ~Queued(d)
    OBVIOUS
  <2>1. \A e \in Commands : Queued(e) => Precedes(d, e)
    BY DEF BridgeInv, QueuesInOrder
  <2>2. Arrived(d)
    BY DEF BridgeInv, AllArrived
  <2> QED
    BY <1>1, <1>2, <2>1, <2>2, OrderIsStrict
<1>7. CASE UNCHANGED requests
  <2>1. \A d : Requested(d)' <=> Requested(d)
    BY <1>7 DEF Requested
  <2>2. NoStaleController' /\ GuardsArePast'
    BY <1>0, <1>2, <1>7 DEF BridgeInv, NoStaleController, GuardsArePast
  <2>3. AllArrived' /\ NotBefore'
    BY <1>0, <1>2, <1>3, <2>1 DEF BridgeInv, AllArrived, NotBefore
  <2>4. QueuesInOrder'
    BY <1>2, <1>3, <1>5, <1>7, <2>1 DEF BridgeInv, QueuesInOrder
  <2> QED
    BY <1>4, <2>2, <2>3, <2>4
<1>8. CASE IsCurrent(c) /\ requests' = Append(requests, Publish(c))
  <2>0. Publish(c) \in RequestType /\ Publish(c).arg = c
    BY <1>1, RequestTypes
  <2>1. /\ \A d : Requested(d)' <=> Requested(d) \/ Publish(c) = Publish(d)
        /\ (\A i, j \in DOMAIN requests :
               i < j /\ requests[i].type = "publish" /\ requests[j].type = "publish"
                 => Precedes(requests[i].arg, requests[j].arg))'
        /\ \A i \in DOMAIN requests' : \/ i \in DOMAIN requests /\ requests'[i] = requests[i]
                                       \/ requests'[i] = Publish(c)
    BY <1>0, <1>6, <1>8, <2>0, RequestJoins
  <2>2. \A d : Requested(d)' <=> Requested(d) \/ d = c
    BY <2>1, RequestTypes
  <2>3. NoStaleController'
    <3>1. connected /\ guardGen[c] = generation
      BY <1>8 DEF IsCurrent
    <3> QED
      BY <1>0, <2>0, <2>1, <3>1 DEF BridgeInv, NoStaleController
  <2>4. GuardsArePast'
    BY <1>0, <1>2 DEF BridgeInv, GuardsArePast
  <2>5. AllArrived' /\ NotBefore'
    BY <1>0, <1>1, <1>2, <1>3, <2>2 DEF BridgeInv, AllArrived, NotBefore
  <2>6. QueuesInOrder'
    <3>1. (\A d, e \in Commands : (Requested(d) \/ Sending(d)) /\ Queued(e) => Precedes(d, e))'
      BY <1>2, <1>3, <2>2 DEF BridgeInv, QueuesInOrder
    <3>2. (\A d, e \in Commands : Requested(d) /\ Sending(e) => Precedes(d, e))'
      BY <1>2
    <3> QED
      BY <1>5, <2>1, <3>1, <3>2 DEF QueuesInOrder
  <2> QED
    BY <1>4, <2>3, <2>4, <2>5, <2>6
<1> QED
  BY <1>7, <1>8 DEF TakeGuarded, c

\* A legacy command leaves the channel for the awaited publish.
LEMMA TakeLegacyStep ==
  ASSUME BridgeInv, TakeLegacy
  PROVE  /\ NoStaleController' /\ GuardsArePast'
         /\ ArrivesOnce' /\ AllArrived' /\ NotBefore' /\ QueuesInOrder'
<1> DEFINE c == Head(commands)
           t == Tail(commands)
<1>0. /\ UNCHANGED <<requests, pending, inflight, phase, guardGen, wire, arrivals, connected, generation>>
      /\ commands # <<>> /\ ~Guarded(c) /\ commands' = t
      /\ sender = <<"idle">> /\ sender' = <<"publish", c>>
  BY DEF TakeLegacy, sharedVars, telemetryVars, loopVars, brokerVars
<1>1. /\ c \in Commands /\ t \in Seq(Commands)
      /\ Elements(commands) = {c} \cup Elements(t)
      /\ \A d \in Elements(t) : Precedes(c, d)
      /\ Arrived(c) /\ c \notin Elements(t)
      /\ \A i, j \in DOMAIN t : i < j => Precedes(t[i], t[j])
  BY <1>0, FirstCommand
<1> HIDE DEF c, t
<1>2. \A d : /\ Replays(d)' <=> Replays(d)
             /\ Requested(d)' <=> Requested(d)
             /\ ~Sending(d)
             /\ Sending(d)' <=> d = c
             /\ Arrived(d)' <=> Arrived(d)
             /\ Queued(d) <=> Queued(d)' \/ d = c
             /\ Queued(d)' => Precedes(c, d)
  BY <1>0, <1>1 DEF Replays, Requested, Sending, Arrived, Queued
<1>3. OnWire' = OnWire /\ \A d, e : Precedes(d, e)' <=> Precedes(d, e)
  BY <1>0 DEF OnWire, Precedes
<1>4. ArrivesOnce'
  BY <1>0 DEF BridgeInv, ArrivesOnce
<1>5. NoStaleController' /\ GuardsArePast'
  BY <1>0, <1>2 DEF BridgeInv, NoStaleController, GuardsArePast
<1>6. AllArrived' /\ NotBefore'
  BY <1>0, <1>1, <1>2, <1>3 DEF BridgeInv, AllArrived, NotBefore
<1>7. QueuesInOrder'
  <2>1. (\A i, j \in DOMAIN commands : i < j => Precedes(commands[i], commands[j]))'
    BY <1>0, <1>1, <1>3
  <2> QED
    BY <1>0, <1>1, <1>2, <1>3, <2>1 DEF BridgeInv, QueuesInOrder
<1> QED
  BY <1>4, <1>5, <1>6, <1>7

\* The awaited enqueue completes.
LEMMA SenderEnqueuesStep ==
  ASSUME BridgeInv, SenderEnqueues
  PROVE  /\ NoStaleController' /\ GuardsArePast'
         /\ ArrivesOnce' /\ AllArrived' /\ NotBefore' /\ QueuesInOrder'
<1>0. /\ UNCHANGED <<pending, inflight, commands, phase, guardGen, wire, arrivals, connected, generation>>
      /\ sender \in SenderType
  BY DEF SenderEnqueues, sharedVars, telemetryVars, commandVars, brokerVars, BridgeInv, LoopTypes
<1>1. \A d : /\ Replays(d)' <=> Replays(d)
             /\ Arrived(d)' <=> Arrived(d)
             /\ Queued(d)' <=> Queued(d)
  BY <1>0 DEF Replays, Arrived, Queued
<1>2. OnWire' = OnWire /\ \A d, e : Precedes(d, e)' <=> Precedes(d, e)
  BY <1>0 DEF OnWire, Precedes
<1>3. ArrivesOnce'
  BY <1>0 DEF BridgeInv, ArrivesOnce
<1>4. ASSUME NEW r \in RequestType, r.type # "publish", requests' = Append(requests, r),
             sender[1] # "publish", \A d : ~Sending(d)'
      PROVE  NoStaleController' /\ GuardsArePast' /\ AllArrived' /\ NotBefore' /\ QueuesInOrder'
  <2>1. /\ \A d : Requested(d)' <=> Requested(d) \/ r = Publish(d)
        /\ (\A i, j \in DOMAIN requests :
               i < j /\ requests[i].type = "publish" /\ requests[j].type = "publish"
                 => Precedes(requests[i].arg, requests[j].arg))'
        /\ \A i \in DOMAIN requests' : \/ i \in DOMAIN requests /\ requests'[i] = requests[i]
                                       \/ requests'[i] = r
    BY <1>0, <1>4, RequestJoins
  <2>2. \A d : (Requested(d)' <=> Requested(d)) /\ ~Sending(d)
    BY <1>0, <1>4, <2>1, RequestTypes, SenderCases
  <2>3. NoStaleController' /\ GuardsArePast'
    BY <1>0, <1>1, <1>4, <2>1 DEF BridgeInv, NoStaleController, GuardsArePast
  <2>4. AllArrived' /\ NotBefore'
    BY <1>0, <1>1, <1>2, <1>4, <2>2 DEF BridgeInv, AllArrived, NotBefore
  <2>5. QueuesInOrder'
    BY <1>0, <1>1, <1>2, <1>4, <2>1, <2>2 DEF BridgeInv, QueuesInOrder
  <2> QED
    BY <2>3, <2>4, <2>5
<1>5. CASE sender[1] = "subscribe" /\ requests' = Append(requests, SubscribeTo(Filters[sender[2]]))
           /\ sender' = IF sender[2] < Len(Filters) THEN <<"subscribe", sender[2] + 1>>
                                                    ELSE <<"keepalive">>
  <2>1. SubscribeTo(Filters[sender[2]]) \in RequestType
    BY <1>0, <1>5, SenderCases, FilterTypes, RequestTypes
  <2>2. SubscribeTo(Filters[sender[2]]).type # "publish" /\ \A d : ~Sending(d)'
    BY <1>5 DEF SubscribeTo, Sending
  <2> QED
    BY <1>3, <1>4, <1>5, <2>1, <2>2
<1>6. CASE sender[1] = "keepalive" /\ requests' = Append(requests, Keepalive) /\ sender' = <<"idle">>
  <2>1. Keepalive \in RequestType /\ Keepalive.type # "publish" /\ \A d : ~Sending(d)'
    BY <1>6, RequestTypes DEF Sending, Keepalive
  <2> QED
    BY <1>3, <1>4, <1>6, <2>1
<1>7. CASE sender[1] = "publish" /\ requests' = Append(requests, Publish(sender[2])) /\ sender' = <<"idle">>
  <2>0. PICK c \in Commands : sender = <<"publish", c>> /\ sender[2] = c
    BY <1>0, <1>7 DEF SenderType
  <2>1. /\ \A d : ~Sending(d)' /\ (Sending(d) <=> d = c)
        /\ Publish(c) \in RequestType /\ Publish(c).arg = c
    BY <1>7, <2>0, RequestTypes DEF Sending
  <2>2. /\ \A d : Requested(d)' <=> Requested(d) \/ Publish(c) = Publish(d)
        /\ (\A i, j \in DOMAIN requests :
               i < j /\ requests[i].type = "publish" /\ requests[j].type = "publish"
                 => Precedes(requests[i].arg, requests[j].arg))'
        /\ \A i \in DOMAIN requests' : \/ i \in DOMAIN requests /\ requests'[i] = requests[i]
                                       \/ requests'[i] = Publish(c)
    <3>1. \A d \in Commands : Requested(d) => Precedes(d, c)
      BY <2>1 DEF BridgeInv, QueuesInOrder
    <3>2. requests' = Append(requests, Publish(c))
      BY <1>7, <2>0
    <3> QED
      BY <1>0, <2>1, <3>1, <3>2, RequestJoins
  <2>3. \A d : Requested(d)' <=> Requested(d) \/ d = c
    BY <2>2, RequestTypes
  <2>4. NoStaleController' /\ GuardsArePast'
    <3>1. ~Guarded(c)
      BY <2>1 DEF BridgeInv, GuardsArePast
    <3> QED
      BY <1>0, <1>1, <2>1, <2>2, <3>1 DEF BridgeInv, NoStaleController, GuardsArePast
  <2>5. AllArrived' /\ NotBefore'
    BY <1>0, <1>1, <1>2, <2>1, <2>3 DEF BridgeInv, AllArrived, NotBefore
  <2>6. QueuesInOrder'
    BY <1>0, <1>1, <1>2, <2>1, <2>2, <2>3 DEF BridgeInv, QueuesInOrder
  <2> QED
    BY <1>3, <2>4, <2>5, <2>6
<1> QED
  BY <1>5, <1>6, <1>7 DEF SenderEnqueues

\* A session starts without anything to replay.
LEMMA ConnAckStep ==
  ASSUME BridgeInv, ConnAck
  PROVE  /\ NoStaleController' /\ GuardsArePast'
         /\ ArrivesOnce' /\ AllArrived' /\ NotBefore' /\ QueuesInOrder'
<1>0. /\ UNCHANGED <<requests, inflight, commands, phase, guardGen, wire, arrivals, sender, generation>>
      /\ pending' = {} /\ connected'
  BY DEF ConnAck, Connect, commandVars, brokerVars
<1>1. \A d : /\ ~Replays(d)'
             /\ Requested(d)' <=> Requested(d)
             /\ Sending(d)' <=> Sending(d)
             /\ Arrived(d)' <=> Arrived(d)
             /\ Queued(d)' <=> Queued(d)
  BY <1>0 DEF Replays, Requested, Sending, Arrived, Queued
<1>2. OnWire' = OnWire /\ \A d, e : Precedes(d, e)' <=> Precedes(d, e)
  BY <1>0 DEF OnWire, Precedes
<1>3. NoStaleController' /\ GuardsArePast'
  BY <1>0, <1>1 DEF BridgeInv, NoStaleController, GuardsArePast
<1>4. ArrivesOnce' /\ AllArrived' /\ NotBefore'
  BY <1>0, <1>1, <1>2 DEF BridgeInv, ArrivesOnce, AllArrived, NotBefore
<1>5. QueuesInOrder'
  BY <1>0, <1>1, <1>2 DEF BridgeInv, QueuesInOrder
<1> QED
  BY <1>3, <1>4, <1>5

\* In a session there is nothing to replay: what is written is the first
\* request of the channel.
LEMMA NextIsFirst ==
  ASSUME BridgeInv, Polling, NEW r \in NextRequests
  PROVE  /\ connected /\ pending = {} /\ requests # <<>> /\ Len(inflight) < MaxInflight
         /\ r = Head(requests) /\ WaitingAfterWrite = Tail(requests)
<1>1. connected /\ pending = {}
  BY DEF BridgeInv, ConnectedMirrorsNetwork, NoStaleController, Polling
<1> QED
  BY <1>1 DEF NextRequests, WaitingAfterWrite

\* What the broker has after a write, and what then waits for its PUBACK.
LEMMA WireGrows ==
  ASSUME BridgeInv, NEW r \in RequestType
  PROVE  /\ WireAfterWrite(r) \in Seq([cmd : Commands, session : 0 .. MaxGeneration])
         /\ wire' = WireAfterWrite(r) =>
              OnWire' = IF r.type = "publish" THEN OnWire \cup {r.arg} ELSE OnWire
         /\ UnackedAfterWrite(r) \in Seq(Commands)
         /\ Len(UnackedAfterWrite(r)) <= Len(inflight) + 1
         /\ \A c \in Elements(UnackedAfterWrite(r)) :
              c \in OnWire \/ (r.type = "publish" /\ c = r.arg)
<1> DEFINE D == [cmd : Commands, session : 0 .. MaxGeneration]
           d == [cmd |-> r.arg, session |-> generation]
<1>0. wire \in Seq(D) /\ inflight \in Seq(Commands) /\ generation \in 0 .. MaxGeneration
  BY DEF BridgeInv, CommandTypes, LoopTypes, TypeInv, SharedTypeOK, FlagsTypeOK
<1>1. r.type = "publish" => r.arg \in Commands /\ d \in D /\ d.cmd = r.arg
  BY <1>0, RequestTypes
<1> HIDE DEF D, d
<1>2. WireAfterWrite(r) = IF r.type = "publish" THEN Append(wire, d) ELSE wire
  BY DEF WireAfterWrite, d
<1>3. WireAfterWrite(r) \in Seq(D)
  BY <1>0, <1>1, <1>2
<1>4. ASSUME wire' = WireAfterWrite(r)
      PROVE  OnWire' = IF r.type = "publish" THEN OnWire \cup {r.arg} ELSE OnWire
  <2>1. CASE r.type = "publish"
    <3> DEFINE k == Len(wire) + 1
    <3>1. wire' = Append(wire, d)
      BY <1>2, <1>4, <2>1
    <3>2. DOMAIN wire' = DOMAIN wire \cup {k} /\ wire'[k] = d /\ \A i \in DOMAIN wire : wire'[i] = wire[i]
      BY <1>0, <3>1
    <3> HIDE DEF k
    <3> QED
      BY <1>1, <2>1, <3>2 DEF OnWire
  <2>2. CASE r.type # "publish"
    BY <1>2, <1>4, <2>2 DEF OnWire
  <2> QED
    BY <2>1, <2>2
<1>5. /\ UnackedAfterWrite(r) \in Seq(Commands)
      /\ Len(UnackedAfterWrite(r)) <= Len(inflight) + 1
  BY <1>0, <1>1 DEF UnackedAfterWrite
<1>6. \A c \in Elements(UnackedAfterWrite(r)) :
        c \in OnWire \/ (r.type = "publish" /\ c = r.arg)
  <2>1. \A c \in Elements(inflight) : c \in OnWire
    BY DEF BridgeInv, NotBefore, Elements
  <2>2. CASE UnackedAfterWrite(r) = inflight
    BY <2>1, <2>2
  <2>3. CASE r.type = "publish" /\ UnackedAfterWrite(r) = Append(inflight, r.arg)
    <3>1. Elements(Append(inflight, r.arg)) = Elements(inflight) \cup {r.arg}
      BY <1>0, <1>1, <2>3, ElementsOfQueues
    <3> QED
      BY <2>1, <2>3, <3>1
  <2> QED
    BY <2>2, <2>3 DEF UnackedAfterWrite
<1> QED
  BY <1>3, <1>4, <1>5, <1>6 DEF D

\* A request reaches the broker: the first of the line, when it is a command.
LEMMA WriteStep ==
  ASSUME BridgeInv, Write
  PROVE  /\ NoStaleController' /\ GuardsArePast'
         /\ ArrivesOnce' /\ AllArrived' /\ NotBefore' /\ QueuesInOrder'
<1>0. UNCHANGED <<commands, phase, guardGen, arrivals, sender, connected, generation>>
  BY DEF Write, sharedVars, telemetryVars, taskVars, commandVars
<1>1. PICK r \in NextRequests :
        /\ inflight' = UnackedAfterWrite(r) /\ wire' = WireAfterWrite(r) /\ pending' = pending \ {r}
        /\ Polling /\ requests' = WaitingAfterWrite
  BY DEF Write
<1> DEFINE t == Tail(requests)
<1>2. /\ connected /\ pending = {} /\ pending' = {} /\ requests # <<>>
      /\ r = Head(requests) /\ requests' = t
  BY <1>1, NextIsFirst
<1>3. /\ r \in RequestType /\ t \in Seq(RequestType)
      /\ Elements(requests) = {r} \cup Elements(t)
      /\ r.type = "publish" =>
              /\ r.arg \in Commands /\ r = Publish(r.arg) /\ Requested(r.arg) /\ Arrived(r.arg)
              /\ \A d : Publish(d) \in Elements(t) => Precedes(r.arg, d) /\ d # r.arg
      /\ \A i, j \in DOMAIN t : i < j /\ t[i].type = "publish" /\ t[j].type = "publish"
           => Precedes(t[i].arg, t[j].arg)
  BY <1>2, FirstRequest
<1> HIDE DEF t
<1>4. /\ OnWire' = IF r.type = "publish" THEN OnWire \cup {r.arg} ELSE OnWire
      /\ inflight' \in Seq(Commands)
      /\ \A c \in Elements(inflight') : c \in OnWire'
  BY <1>1, <1>3, WireGrows
<1>5. \A d : /\ ~Replays(d)'
             /\ Requested(d)' => Requested(d) /\ (r.type = "publish" => d # r.arg)
             /\ Sending(d)' <=> Sending(d)
             /\ Arrived(d)' <=> Arrived(d)
             /\ Queued(d)' <=> Queued(d)
  BY <1>0, <1>2, <1>3 DEF Replays, Requested, Sending, Arrived, Queued
<1>6. \A d, e : Precedes(d, e)' <=> Precedes(d, e)
  BY <1>0 DEF Precedes
<1>7. NoStaleController' /\ GuardsArePast'
  <2>1. \A i \in DOMAIN requests' : requests'[i] \in Elements(requests)
    BY <1>2, <1>3 DEF Elements
  <2>2. \A i \in DOMAIN requests' : (requests'[i].type = "publish" /\ Guarded(requests'[i].arg))
          => guardGen[requests'[i].arg] = generation
    BY <2>1 DEF BridgeInv, NoStaleController, Elements
  <2>3. NoStaleController'
    BY <1>0, <1>2, <2>2 DEF NoStaleController
  <2> QED
    BY <1>0, <1>5, <2>3 DEF BridgeInv, GuardsArePast
<1>8. ArrivesOnce' /\ AllArrived'
  BY <1>0, <1>3, <1>4, <1>5 DEF BridgeInv, ArrivesOnce, AllArrived
<1>9. NotBefore'
  <2>1. ASSUME NEW d \in Commands, Sending(d) \/ Queued(d), r.type = "publish"
        PROVE  d # r.arg
    <3>1. Precedes(r.arg, d)
      BY <1>3, <2>1 DEF BridgeInv, QueuesInOrder
    <3> QED
      BY <1>3, <2>1, <3>1, OrderIsStrict
  <2>2. \A i \in DOMAIN inflight' : inflight'[i] \in OnWire'
    BY <1>4 DEF Elements
  <2> QED
    BY <1>4, <1>5, <2>1, <2>2 DEF BridgeInv, NotBefore
<1>10. QueuesInOrder'
  <2>1. (\A i, j \in DOMAIN requests :
           i < j /\ requests[i].type = "publish" /\ requests[j].type = "publish"
             => Precedes(requests[i].arg, requests[j].arg))'
    BY <1>2, <1>3, <1>6
  <2> QED
    BY <1>0, <1>5, <1>6, <2>1 DEF BridgeInv, QueuesInOrder
<1> QED
  BY <1>7, <1>8, <1>9, <1>10

\* A PUBACK only shortens the unacknowledged publishes.
LEMMA PubAckStep ==
  ASSUME BridgeInv, PubAck
  PROVE  /\ NoStaleController' /\ GuardsArePast'
         /\ ArrivesOnce' /\ AllArrived' /\ NotBefore' /\ QueuesInOrder'
<1>0. /\ UNCHANGED <<requests, pending, commands, phase, guardGen, wire, arrivals, sender, connected, generation>>
      /\ inflight' = Tail(inflight) /\ inflight # <<>> /\ inflight \in Seq(Commands) /\ Polling
  BY DEF PubAck, sharedVars, telemetryVars, taskVars, commandVars, brokerVars, BridgeInv, LoopTypes
<1>1. \A d : /\ Replays(d)' <=> Replays(d)
             /\ Requested(d)' <=> Requested(d)
             /\ Sending(d)' <=> Sending(d)
             /\ Arrived(d)' <=> Arrived(d)
             /\ Queued(d)' <=> Queued(d)
  BY <1>0 DEF Replays, Requested, Sending, Arrived, Queued
<1>2. OnWire' = OnWire /\ \A d, e : Precedes(d, e)' <=> Precedes(d, e)
  BY <1>0 DEF OnWire, Precedes
<1>3. NoStaleController' /\ GuardsArePast'
  BY <1>0, <1>1 DEF BridgeInv, NoStaleController, GuardsArePast
<1>4. ArrivesOnce' /\ AllArrived'
  BY <1>0, <1>1, <1>2 DEF BridgeInv, ArrivesOnce, AllArrived
<1>5. NotBefore'
  <2>1. \A i \in DOMAIN inflight' : inflight'[i] = inflight[i + 1] /\ i + 1 \in DOMAIN inflight
    BY <1>0
  <2> QED
    BY <1>1, <1>2, <2>1 DEF BridgeInv, NotBefore
<1>6. QueuesInOrder'
  BY <1>0, <1>1, <1>2 DEF BridgeInv, QueuesInOrder
<1> QED
  BY <1>3, <1>4, <1>5, <1>6

\* The shutdown empties every queue.
LEMMA StopStep ==
  ASSUME BridgeInv, TypeInv', Stop
  PROVE  /\ NoStaleController' /\ GuardsArePast'
         /\ ArrivesOnce' /\ AllArrived' /\ NotBefore' /\ QueuesInOrder'
<1>0. /\ requests' = <<>> /\ pending' = {} /\ inflight' = <<>> /\ commands' = <<>>
      /\ sender' = <<"idle">>
      /\ UNCHANGED <<phase, guardGen, wire, arrivals>>
  BY DEF Stop
<1>1. generation' = generation \/ generation' = generation + 1
  BY DEF Stop, Disconnect, sharedVars, telemetryVars
<1>2. \A d : /\ ~Replays(d)' /\ ~Requested(d)' /\ ~Sending(d)' /\ ~Queued(d)'
             /\ Arrived(d)' <=> Arrived(d)
  BY <1>0 DEF Replays, Requested, Sending, Queued, Elements, Arrived
<1>3. NoStaleController'
  BY <1>0 DEF NoStaleController
<1>4. GuardsArePast'
  <2>1. generation \in Nat /\ guardGen \in [Commands -> 0 .. MaxGeneration]
    BY SharedAssumption DEF BridgeInv, TypeInv, SharedTypeOK, FlagsTypeOK, CommandTypes
  <2> QED
    BY <1>0, <1>1, <1>2, <2>1, SharedAssumption DEF BridgeInv, GuardsArePast
<1>5. ArrivesOnce' /\ AllArrived' /\ NotBefore'
  <2>1. OnWire' = OnWire
    BY <1>0 DEF OnWire
  <2> QED
    BY <1>0, <1>2, <2>1 DEF BridgeInv, ArrivesOnce, AllArrived, NotBefore
<1>6. QueuesInOrder'
  BY <1>0, <1>2 DEF QueuesInOrder
<1> QED
  BY <1>3, <1>4, <1>5, <1>6

\* A write that fails ends the session; the broker may have the request.
LEMMA WriteFailsStep ==
  ASSUME BridgeInv, TypeInv', WriteFails
  PROVE  /\ NoStaleController' /\ GuardsArePast'
         /\ ArrivesOnce' /\ AllArrived' /\ NotBefore' /\ QueuesInOrder'
<1>1. PICK r \in NextRequests :
        HandleDisconnect(UnackedAfterWrite(r), WaitingAfterWrite) /\ wire' \in {wire, WireAfterWrite(r)}
  BY DEF WriteFails
<1>2. Polling /\ UNCHANGED <<sender, arrivals>>
  BY DEF WriteFails
<1>3. requests # <<>> /\ r = Head(requests) /\ WaitingAfterWrite = Tail(requests)
  BY <1>1, <1>2, NextIsFirst
<1> DEFINE w == WaitingAfterWrite
           u == UnackedAfterWrite(r)
<1>4. /\ r \in RequestType /\ w \in Seq(RequestType) /\ Elements(w) \subseteq Elements(requests)
      /\ r.type = "publish" => Requested(r.arg)
  BY <1>3, FirstRequest
<1>5. /\ u \in Seq(Commands)
      /\ \A c \in Elements(u) : c \in OnWire \/ Requested(c)
      /\ OnWire \subseteq OnWire'
      /\ \A c \in OnWire' : c \in OnWire \/ Requested(c)
  <2>1. /\ u \in Seq(Commands)
        /\ \A c \in Elements(u) : c \in OnWire \/ (r.type = "publish" /\ c = r.arg)
        /\ wire' = WireAfterWrite(r) =>
              OnWire' = IF r.type = "publish" THEN OnWire \cup {r.arg} ELSE OnWire
    BY <1>4, WireGrows
  <2>2. wire' = wire => OnWire' = OnWire
    BY DEF OnWire
  <2> QED
    BY <1>1, <1>4, <2>1, <2>2
<1>6. HandleDisconnect(u, w)
  BY <1>1
<1> HIDE DEF u, w
<1> QED
  BY <1>2, <1>4, <1>5, <1>6, CleanStep

\* The connection breaks while nothing is being written.
LEMMA BreakStep ==
  ASSUME BridgeInv, TypeInv', HandleDisconnect(inflight, requests),
         UNCHANGED <<sender, wire, arrivals>>
  PROVE  /\ NoStaleController' /\ GuardsArePast'
         /\ ArrivesOnce' /\ AllArrived' /\ NotBefore' /\ QueuesInOrder'
<1>1. inflight \in Seq(Commands) /\ requests \in Seq(RequestType)
  BY DEF BridgeInv, LoopTypes
<1>2. \A c \in Elements(inflight) : c \in OnWire
  BY DEF BridgeInv, NotBefore, Elements
<1>3. OnWire' = OnWire
  BY DEF OnWire
<1> QED
  BY <1>1, <1>2, <1>3, CleanStep

-----------------------------------------------------------------------------
(* The types *)

\* What is kept for replay are requests.
LEMMA CleanTypes ==
  ASSUME BridgeInv, NEW u \in Seq(Commands), NEW w \in Seq(RequestType), HandleDisconnect(u, w)
  PROVE  /\ network' = FALSE /\ requests' = <<>> /\ inflight' = <<>> /\ subscribed' = {}
         /\ pending' \subseteq RequestType
         /\ UNCHANGED <<commands, phase, guardGen, guardAge>>
<1>1. Elements(u) \subseteq Commands /\ Elements(w) \subseteq RequestType
  BY ElementsOfQueues
<1>2. pending \subseteq RequestType
  BY DEF BridgeInv, LoopTypes
<1>3. pending' \subseteq RequestType
  BY <1>1, <1>2, RequestTypes DEF HandleDisconnect
<1> QED
  BY <1>3 DEF HandleDisconnect, commandVars

\* The event loop and the sender keep their types.
LEMMA LoopTypesStep ==
  ASSUME BridgeInv, [BridgeNext]_bridgeVars
  PROVE  LoopTypes'
<1>0. LoopTypes /\ TypeInv
  BY DEF BridgeInv
<1> DEFINE Rest == UNCHANGED <<network, events, requests, pending, inflight, subscribed>>
           Empty == /\ network' = FALSE /\ requests' = <<>> /\ inflight' = <<>> /\ subscribed' = {}
                    /\ pending' \subseteq RequestType
<1>1. ASSUME Rest, running' \in BOOLEAN, asleep' \in BOOLEAN, wake' \in BOOLEAN, sender' \in SenderType
      PROVE  LoopTypes'
  BY <1>0, <1>1 DEF LoopTypes
<1>a. /\ <<>> \in Seq(RequestType) /\ <<>> \in Seq(Commands) /\ <<>> \in Seq(PacketType)
      /\ Len(<<>>) <= QueueCap /\ Len(<<>>) <= MaxInflight
  BY BridgeAssumption
<1>2. ASSUME Empty, events' \in Seq(PacketType), UNCHANGED <<running, wake, sender>>, asleep' \in BOOLEAN
      PROVE  LoopTypes'
  BY <1>0, <1>2, <1>a DEF LoopTypes
<1>3. CASE \E c \in Commands : Accept(c) \/ Enqueue(c)
  <2>1. Rest /\ UNCHANGED taskVars
    BY <1>3 DEF Accept, Enqueue, loopVars, brokerVars
  <2> QED
    BY <1>0, <1>1, <2>1 DEF LoopTypes, taskVars
<1>4. CASE SeeConnAck \/ KeepaliveTick \/ ConnectFails \/ WakeUp
  <2>1. Rest /\ UNCHANGED running
    BY <1>4 DEF SeeConnAck, KeepaliveTick, ConnectFails, WakeUp, loopVars, brokerVars
  <2>2. sender' \in SenderType
    BY <1>0, <1>4 DEF SeeConnAck, KeepaliveTick, ConnectFails, WakeUp, LoopTypes, SenderType
  <2>3. asleep' \in BOOLEAN /\ wake' \in BOOLEAN
    BY <1>0, <1>4 DEF SeeConnAck, KeepaliveTick, ConnectFails, WakeUp, LoopTypes
  <2> QED
    BY <1>0, <1>1, <2>1, <2>2, <2>3 DEF LoopTypes
<1>5. CASE TakeGuarded
  <2>1. /\ UNCHANGED <<network, events, pending, inflight, running, asleep, wake, sender, subscribed>>
        /\ commands # <<>>
    BY <1>5 DEF TakeGuarded, taskVars, brokerVars
  <2>2. Head(commands) \in Commands
    BY <2>1 DEF BridgeInv, CommandTypes
  <2>3. requests' \in Seq(RequestType) /\ Len(requests') <= QueueCap
    <3>1. CASE UNCHANGED requests
      BY <1>0, <3>1 DEF LoopTypes
    <3>2. CASE HasRoom /\ requests' = Append(requests, Publish(Head(commands)))
      BY <1>0, <2>2, <3>2, RequestTypes, BridgeAssumption DEF LoopTypes, HasRoom
    <3> QED
      BY <1>5, <3>1, <3>2 DEF TakeGuarded
  <2> QED
    BY <1>0, <2>1, <2>3 DEF LoopTypes
<1>6. CASE TakeLegacy
  <2>1. Rest /\ UNCHANGED <<running, asleep, wake>> /\ commands # <<>>
    BY <1>6 DEF TakeLegacy, loopVars, brokerVars
  <2>2. Head(commands) \in Commands
    BY <2>1 DEF BridgeInv, CommandTypes
  <2>3. sender' \in SenderType
    BY <1>6, <2>2 DEF TakeLegacy, SenderType
  <2> QED
    BY <1>0, <1>1, <2>1, <2>3 DEF LoopTypes
<1>7. CASE SenderEnqueues
  <2>1. /\ UNCHANGED <<network, events, pending, inflight, running, asleep, wake, subscribed>>
        /\ HasRoom
    BY <1>7 DEF SenderEnqueues, brokerVars
  <2>2. ASSUME NEW r \in RequestType, requests' = Append(requests, r), sender' \in SenderType
        PROVE  LoopTypes'
    BY <1>0, <2>1, <2>2, BridgeAssumption DEF LoopTypes, HasRoom
  <2>3. CASE sender[1] = "subscribe" /\ requests' = Append(requests, SubscribeTo(Filters[sender[2]]))
             /\ sender' = IF sender[2] < Len(Filters) THEN <<"subscribe", sender[2] + 1>>
                                                      ELSE <<"keepalive">>
    <3>1. sender[2] \in 1 .. 3
      BY <1>0, <2>3, SenderCases DEF LoopTypes
    <3>2. SubscribeTo(Filters[sender[2]]) \in RequestType
      BY <3>1, FilterTypes, RequestTypes
    <3>3. sender' \in SenderType
      BY <2>3, <3>1, FilterTypes DEF SenderType
    <3> QED
      BY <2>2, <2>3, <3>2, <3>3
  <2>4. CASE sender[1] = "keepalive" /\ requests' = Append(requests, Keepalive) /\ sender' = <<"idle">>
    BY <2>2, <2>4, RequestTypes DEF SenderType
  <2>5. CASE sender[1] = "publish" /\ requests' = Append(requests, Publish(sender[2])) /\ sender' = <<"idle">>
    <3>1. sender[2] \in Commands
      BY <1>0, <2>5, SenderCases DEF LoopTypes
    <3> QED
      BY <2>2, <2>5, <3>1, RequestTypes DEF SenderType
  <2> QED
    BY <1>7, <2>3, <2>4, <2>5 DEF SenderEnqueues
<1>8. CASE ConnAck
  BY <1>0, <1>8 DEF ConnAck, LoopTypes, brokerVars
<1>9. CASE Read
  <2>1. PICK b \in Batches(MaxBatch) : events' = events \o b
    BY <1>9 DEF Read
  <2>2. events' \in Seq(PacketType)
    BY <1>0, <2>1, BatchTypes, BridgeAssumption, ConcatProperties DEF LoopTypes
  <2> QED
    BY <1>0, <1>9, <2>2 DEF Read, LoopTypes, taskVars, brokerVars
<1>10. CASE Break
  <2>1. events' \in Seq(PacketType)
    <3>1. ASSUME NEW b \in Batches(MaxBatch), events' = events \o b PROVE events' \in Seq(PacketType)
      BY <1>0, <3>1, BatchTypes, BridgeAssumption, ConcatProperties DEF LoopTypes
    <3>2. ASSUME NEW b \in Batches(MaxBatch - 1), events' = events \o Append(b, BrokerDisconnect)
          PROVE  events' \in Seq(PacketType)
      <4>1. MaxBatch - 1 \in Nat
        BY BridgeAssumption
      <4>2. b \in Seq(PacketType) /\ BrokerDisconnect \in PacketType
        BY <1>0, <4>1, BatchTypes
      <4>3. Append(b, BrokerDisconnect) \in Seq(PacketType)
        BY <4>2
      <4> QED
        BY <1>0, <3>2, <4>3, ConcatProperties DEF LoopTypes
    <3> QED
      BY <1>10, <3>1, <3>2 DEF Break
  <2>2. Empty
    BY <1>0, <1>10, CleanTypes DEF Break, LoopTypes
  <2> QED
    BY <1>0, <1>2, <1>10, <2>1, <2>2 DEF Break
<1>11. CASE Yield
  <2>1. events' \in Seq(PacketType)
    BY <1>0, <1>11 DEF Yield, LoopTypes
  <2>2. CASE HandleDisconnect(inflight, requests)
    <3>1. Empty
      BY <1>0, <2>2, CleanTypes DEF LoopTypes
    <3> QED
      BY <1>0, <1>2, <1>11, <2>1, <3>1 DEF Yield, taskVars, LoopTypes
  <2>3. CASE UNCHANGED <<network, requests, pending, inflight, brokerVars>>
    BY <1>0, <1>11, <2>1, <2>3 DEF Yield, taskVars, brokerVars, LoopTypes
  <2> QED
    BY <1>11, <2>2, <2>3 DEF Yield
<1>12. CASE Write
  <2>1. PICK r \in NextRequests :
          /\ inflight' = UnackedAfterWrite(r) /\ pending' = pending \ {r}
          /\ subscribed' = IF r.type = "subscribe" THEN subscribed \cup {r.arg} ELSE subscribed
          /\ Polling /\ requests' = WaitingAfterWrite
          /\ UNCHANGED <<network, events, taskVars>>
    BY <1>12 DEF Write
  <2>2. requests # <<>> /\ Len(inflight) < MaxInflight /\ r = Head(requests) /\ requests' = Tail(requests)
    BY <2>1, NextIsFirst
  <2>3. r \in RequestType /\ requests' \in Seq(RequestType) /\ Len(requests') = Len(requests) - 1
    BY <2>2, FirstRequest
  <2>4. inflight' \in Seq(Commands) /\ Len(inflight') <= Len(inflight) + 1
    BY <2>1, <2>3, WireGrows
  <2>5. Len(inflight') <= MaxInflight /\ Len(requests') <= QueueCap
    BY <1>0, <2>2, <2>3, <2>4, BridgeAssumption DEF LoopTypes
  <2>6. subscribed' \subseteq FilterNames
    BY <1>0, <2>1, <2>3, RequestTypes DEF LoopTypes
  <2> QED
    BY <1>0, <2>1, <2>3, <2>4, <2>5, <2>6 DEF LoopTypes, taskVars
<1>13. CASE WriteFails
  <2>1. PICK r \in NextRequests : HandleDisconnect(UnackedAfterWrite(r), WaitingAfterWrite)
    BY <1>13 DEF WriteFails
  <2>2. requests # <<>> /\ r = Head(requests) /\ WaitingAfterWrite = Tail(requests)
    BY <1>13, <2>1, NextIsFirst DEF WriteFails
  <2>3. r \in RequestType /\ WaitingAfterWrite \in Seq(RequestType)
    BY <2>2, FirstRequest
  <2>4. UnackedAfterWrite(r) \in Seq(Commands)
    BY <2>3, WireGrows
  <2>5. Empty
    BY <2>1, <2>3, <2>4, CleanTypes
  <2> QED
    BY <1>0, <1>2, <1>13, <2>5 DEF WriteFails, LoopTypes
<1>14. CASE PubAck
  <2>1. inflight' \in Seq(Commands) /\ Len(inflight') <= MaxInflight
    BY <1>0, <1>14, BridgeAssumption DEF PubAck, LoopTypes
  <2> QED
    BY <1>0, <1>14, <2>1 DEF PubAck, LoopTypes, taskVars, brokerVars
<1>15. CASE Stop
  BY <1>15, <1>a DEF Stop, LoopTypes, SenderType
<1>16. CASE BridgeTick \/ Others \/ UNCHANGED bridgeVars
  <2>1. UNCHANGED <<loopVars, taskVars, brokerVars>>
    BY <1>16 DEF BridgeTick, Others, bridgeVars
  <2> QED
    BY <1>0, <1>1, <2>1 DEF LoopTypes, loopVars, taskVars, brokerVars
<1> QED
  BY <1>3, <1>4, <1>5, <1>6, <1>7, <1>8, <1>9, <1>10, <1>11, <1>12, <1>13, <1>14, <1>15, <1>16
  DEF BridgeNext, SenderNext, LoopNext

\* The command path and the history variables keep their types.
LEMMA CommandTypesStep ==
  ASSUME BridgeInv, [BridgeNext]_bridgeVars
  PROVE  CommandTypes'
<1> DEFINE D == [cmd : Commands, session : 0 .. MaxGeneration]
<1>0. /\ commands \in Seq(Commands)
      /\ phase \in [Commands -> {"new", "accepted", "sent", "failed"}]
      /\ guardGen \in [Commands -> 0 .. MaxGeneration]
      /\ guardAge \in [Commands -> Ages(CommandTTL)]
      /\ wire \in Seq(D)
      /\ arrivals \in Seq(Commands)
      /\ generation \in 0 .. MaxGeneration
  BY DEF BridgeInv, CommandTypes, TypeInv, SharedTypeOK, FlagsTypeOK
<1> SUFFICES /\ commands' \in Seq(Commands)
             /\ phase' \in [Commands -> {"new", "accepted", "sent", "failed"}]
             /\ guardGen' \in [Commands -> 0 .. MaxGeneration]
             /\ guardAge' \in [Commands -> Ages(CommandTTL)]
             /\ wire' \in Seq(D)
             /\ arrivals' \in Seq(Commands)
  BY DEF CommandTypes
<1> HIDE DEF D
<1>1. ASSUME NEW c \in Commands, Accept(c) \/ Enqueue(c)
      PROVE  /\ commands' \in Seq(Commands) /\ arrivals' \in Seq(Commands)
             /\ phase' \in [Commands -> {"new", "accepted", "sent", "failed"}]
             /\ guardGen' \in [Commands -> 0 .. MaxGeneration]
             /\ UNCHANGED <<guardAge, wire>>
  <2>1. CASE Accept(c)
    BY <1>0, <2>1 DEF Accept, brokerVars
  <2>2. CASE Enqueue(c)
    <3>1. /\ UNCHANGED <<guardGen, guardAge, wire>>
          /\ commands' = commands \/ commands' = Append(commands, c)
          /\ arrivals' = arrivals \/ arrivals' = Append(arrivals, c)
      BY <2>2 DEF Enqueue
    <3>2. phase' = [phase EXCEPT ![c] = "sent"] \/ phase' = [phase EXCEPT ![c] = "failed"]
      BY <2>2 DEF Enqueue
    <3>3. commands' \in Seq(Commands) /\ arrivals' \in Seq(Commands)
      <4>1. commands \in Seq(Commands) /\ arrivals \in Seq(Commands)
        BY <1>0
      <4>2. Append(commands, c) \in Seq(Commands) /\ Append(arrivals, c) \in Seq(Commands)
        BY <4>1
      <4> QED
        BY <3>1, <4>1, <4>2
    <3>4. phase' \in [Commands -> {"new", "accepted", "sent", "failed"}]
      BY <1>0, <3>2
    <3> QED
      BY <1>0, <3>1, <3>3, <3>4
  <2> QED
    BY <1>1, <2>1, <2>2
<1>2. CASE SeeConnAck \/ KeepaliveTick \/ SenderEnqueues \/ ConnAck \/ ConnectFails \/ WakeUp
           \/ Read \/ PubAck \/ Others \/ UNCHANGED bridgeVars
  <2>1. UNCHANGED <<commandVars, brokerVars>>
    BY <1>2 DEF SeeConnAck, KeepaliveTick, SenderEnqueues, ConnAck, ConnectFails, WakeUp, Read,
       PubAck, Others, bridgeVars, brokerVars
  <2> QED
    BY <1>0, <2>1 DEF commandVars, brokerVars
<1>3. CASE TakeGuarded \/ TakeLegacy
  <2>1. /\ UNCHANGED <<phase, guardGen, guardAge, wire, arrivals>>
        /\ commands # <<>> /\ commands' = Tail(commands)
    BY <1>3 DEF TakeGuarded, TakeLegacy, brokerVars
  <2> QED
    BY <1>0, <2>1
<1>4. CASE Break
  BY <1>0, <1>4 DEF Break, HandleDisconnect, commandVars
<1>5. CASE Yield
  <2>1. UNCHANGED <<commandVars, wire, arrivals>>
    BY <1>5 DEF Yield, HandleDisconnect, brokerVars
  <2> QED
    BY <1>0, <2>1 DEF commandVars
<1>6. CASE Write \/ WriteFails
  <2>1. UNCHANGED <<commandVars, arrivals>> /\ Polling
    BY <1>6 DEF Write, WriteFails, HandleDisconnect
  <2>2. PICK r \in NextRequests : wire' \in {wire, WireAfterWrite(r)}
    BY <1>6 DEF Write, WriteFails
  <2>3. r \in RequestType
    BY <2>1, <2>2, NextIsFirst, FirstRequest
  <2>4. WireAfterWrite(r) \in Seq(D)
    BY <2>3, WireGrows DEF D
  <2> QED
    BY <1>0, <2>1, <2>2, <2>4 DEF commandVars
<1>7. CASE Stop
  BY <1>0, <1>7 DEF Stop
<1>8. CASE BridgeTick
  <2>1. UNCHANGED <<commands, phase, guardGen, wire, arrivals>>
    BY <1>8 DEF BridgeTick, brokerVars
  <2>2. \A c \in Commands : Older(guardAge[c], CommandTTL) \in Ages(CommandTTL) /\ 0 \in Ages(CommandTTL)
    BY <1>0, BridgeAssumption DEF Older, Ages
  <2>3. guardAge' \in [Commands -> Ages(CommandTTL)]
    BY <1>8, <2>2 DEF BridgeTick
  <2> QED
    BY <1>0, <2>1, <2>3
<1> QED
  BY <1>0, <1>1, <1>2, <1>3, <1>4, <1>5, <1>6, <1>7, <1>8 DEF BridgeNext, SenderNext, LoopNext

-----------------------------------------------------------------------------
(* The invariant *)

\* At the start nothing is on its way.
LEMMA BridgeInitInv == BridgeInit => BridgeInv
<1> SUFFICES ASSUME BridgeInit PROVE BridgeInv
  OBVIOUS
<1>1. TypeInv
  BY InitTyped DEF BridgeInit
<1>2. generation = 0 /\ ~connected /\ network = FALSE /\ connected = FALSE
  BY DEF BridgeInit, SharedInit
<1>3. LoopTypes
  <2>1. /\ <<>> \in Seq(RequestType) /\ <<>> \in Seq(Commands) /\ <<>> \in Seq(PacketType)
        /\ Len(<<>>) <= QueueCap /\ Len(<<>>) <= MaxInflight
    BY BridgeAssumption
  <2> QED
    BY <2>1 DEF BridgeInit, LoopTypes, SenderType
<1>4. CommandTypes
  <2>1. 0 \in Ages(CommandTTL) /\ 0 \in 0 .. MaxGeneration
    BY BridgeAssumption, SharedAssumption DEF Ages
  <2>2. <<>> \in Seq([cmd : Commands, session : 0 .. MaxGeneration]) /\ <<>> \in Seq(Commands)
    OBVIOUS
  <2> QED
    BY <2>1, <2>2 DEF BridgeInit, CommandTypes
<1>5. ConnectedMirrorsNetwork /\ NoStaleController
  <2>1. requests = <<>> /\ pending = {} /\ inflight = <<>>
    BY DEF BridgeInit
  <2>2. \A i : i \notin DOMAIN requests
    BY <2>1
  <2>3. NoStaleController
    BY <2>1, <2>2 DEF NoStaleController
  <2> QED
    BY <1>2, <2>3 DEF ConnectedMirrorsNetwork
<1>6. \A c : ~Replays(c) /\ ~Requested(c) /\ ~Sending(c) /\ ~Queued(c) /\ c \notin OnWire
  BY DEF BridgeInit, Replays, Requested, Sending, Queued, OnWire, Elements
<1>7. GuardsArePast
  BY <1>2, <1>6 DEF GuardsArePast, BridgeInit
<1>8. ArrivesOnce /\ AllArrived /\ NotBefore
  BY <1>6 DEF BridgeInit, ArrivesOnce, AllArrived, NotBefore
<1>9. QueuesInOrder
  BY <1>6 DEF BridgeInit, QueuesInOrder
<1> QED
  BY <1>1, <1>3, <1>4, <1>5, <1>7, <1>8, <1>9 DEF BridgeInv

\* Every step of run_loop, rumqttc, the handlers and the broker keeps it.
LEMMA BridgeStepInv == BridgeInv /\ [BridgeNext]_bridgeVars => BridgeInv'
<1> SUFFICES ASSUME BridgeInv, [BridgeNext]_bridgeVars PROVE BridgeInv'
  OBVIOUS
<1>0. TypeInv' /\ LoopTypes' /\ CommandTypes' /\ ConnectedMirrorsNetwork'
  BY SharedStep, StepTyped, LoopTypesStep, CommandTypesStep, MirrorStep DEF BridgeInv
<1> SUFFICES /\ NoStaleController' /\ GuardsArePast'
             /\ ArrivesOnce' /\ AllArrived' /\ NotBefore' /\ QueuesInOrder'
  BY <1>0 DEF BridgeInv
<1>1. ASSUME NEW c \in Commands, Accept(c) \/ Enqueue(c)
      PROVE  /\ NoStaleController' /\ GuardsArePast'
             /\ ArrivesOnce' /\ AllArrived' /\ NotBefore' /\ QueuesInOrder'
  BY <1>1, AcceptStep, EnqueueStep
<1>2. CASE SeeConnAck \/ KeepaliveTick \/ ConnectFails \/ WakeUp \/ Read
  <2>1. UNCHANGED <<pathVars, connected, generation>>
    BY <1>2 DEF SeeConnAck, KeepaliveTick, ConnectFails, WakeUp, Read, pathVars, loopVars,
       commandVars, brokerVars, sharedVars, telemetryVars
  <2>2. \A c : Sending(c)' <=> Sending(c)
    BY <1>2 DEF SeeConnAck, KeepaliveTick, ConnectFails, WakeUp, Read, taskVars, Sending
  <2> QED
    BY <2>1, <2>2, QuietStep
<1>3. CASE BridgeTick \/ Others \/ UNCHANGED bridgeVars
  <2>1. UNCHANGED <<loopVars, taskVars, commands, phase, guardGen, brokerVars>>
    BY <1>3 DEF BridgeTick, Others, bridgeVars, commandVars
  <2>2. UNCHANGED <<connected, generation>>
    BY <1>3, OthersKeepTheSession DEF BridgeTick, Tick, bridgeVars, sharedVars, telemetryVars
  <2>3. UNCHANGED <<pathVars, sender>>
    BY <2>1 DEF pathVars, loopVars, taskVars, brokerVars
  <2>4. \A c : Sending(c)' <=> Sending(c)
    BY <2>3 DEF Sending
  <2> QED
    BY <2>2, <2>3, <2>4, QuietStep
<1>4. CASE TakeGuarded \/ TakeLegacy \/ SenderEnqueues
  BY <1>4, TakeGuardedStep, TakeLegacyStep, SenderEnqueuesStep
<1>5. CASE ConnAck \/ Write \/ PubAck
  BY <1>5, ConnAckStep, WriteStep, PubAckStep
<1>6. CASE WriteFails \/ Stop
  BY <1>0, <1>6, WriteFailsStep, StopStep
<1>7. CASE Break
  BY <1>0, <1>7, BreakStep DEF Break
<1>8. CASE Yield
  <2>1. UNCHANGED sender
    BY <1>8 DEF Yield, taskVars
  <2>2. CASE Head(events).type = "disconnect"
    <3>1. HandleDisconnect(inflight, requests) /\ UNCHANGED <<wire, arrivals>>
      BY <1>8, <2>2 DEF Yield
    <3> QED
      BY <1>0, <2>1, <3>1, BreakStep
  <2>3. CASE Head(events).type # "disconnect"
    <3>1. UNCHANGED <<requests, pending, inflight, commandVars, brokerVars>>
      BY <1>8, <2>3 DEF Yield
    <3>2. UNCHANGED <<pathVars, connected, generation>>
      BY <1>8, <2>3, <3>1, YieldIsShared DEF pathVars, commandVars, brokerVars
    <3>3. \A c : Sending(c)' <=> Sending(c)
      BY <2>1 DEF Sending
    <3> QED
      BY <3>2, <3>3, QuietStep
  <2> QED
    BY <2>2, <2>3
<1> QED
  BY <1>1, <1>2, <1>3, <1>4, <1>5, <1>6, <1>7, <1>8 DEF BridgeNext, SenderNext, LoopNext

\* It holds throughout.
LEMMA BridgeInvariant == BridgeSpec => []BridgeInv
BY BridgeInitInv, BridgeStepInv, PTL DEF BridgeSpec

-----------------------------------------------------------------------------
(* Theorems *)

\* The bridge keeps its types and the bounds of its queues (rumqttc's request
\* channel, the unacknowledged publishes), in every step.
THEOREM BridgeTypeCorrect == BridgeSpec => []BridgeTypeOK
<1>1. BridgeInv => BridgeTypeOK
  BY FilterTypes DEF BridgeInv, TypeInv, LoopTypes, CommandTypes, BridgeTypeOK
<1> QED
  BY <1>1, BridgeInvariant, PTL

\* No controller command waits out an outage inside rumqttc (send_if_current,
\* discard_controller_replay and the clean session together).
THEOREM NothingStaleInRumqttc == BridgeSpec => []NoStaleController
BY BridgeInvariant, PTL DEF BridgeInv

\* The bridge uses Shared only through its operations, with arguments they
\* accept: what is proved of Shared holds of the gateway's telemetry.
THEOREM BridgeImplementsShared == BridgeSpec => SharedSpec
<1>1. BridgeInit => SharedInit
  BY DEF BridgeInit
<1>2. BridgeInv /\ [BridgeNext]_bridgeVars => [SharedNext]_sharedVars
  BY SharedStep
<1> QED
  BY <1>1, <1>2, BridgeInvariant, PTL DEF BridgeSpec, SharedSpec

\* What rumqttc buffers was read from one connection.
LEMMA BufferStep ==
  BridgeInv /\ BufferIsOfOneSession /\ [BridgeNext]_bridgeVars => BufferIsOfOneSession'
<1> SUFFICES ASSUME BridgeInv, BufferIsOfOneSession, [BridgeNext]_bridgeVars
             PROVE  BufferIsOfOneSession'
  OBVIOUS
<1>0. TypeInv /\ LoopTypes /\ events \in Seq(PacketType)
  BY DEF BridgeInv, LoopTypes
<1>1. CASE UNCHANGED events
  BY <1>1 DEF BufferIsOfOneSession
<1>2. CASE events # <<>> /\ events' = Tail(events)
  BY <1>0, <1>2 DEF BufferIsOfOneSession
<1>3. ASSUME events = <<>>, NEW b \in Batches(MaxBatch), events' = events \o b
      PROVE  BufferIsOfOneSession'
  <2>1. b \in Seq(PacketType) /\ \A i \in DOMAIN b : b[i].session = generation
    BY <1>0, BatchTypes, BridgeAssumption
  <2>2. events' = b
    BY <1>3, <2>1, ConcatEmptySeq
  <2> QED
    BY <2>1, <2>2 DEF BufferIsOfOneSession
<1>4. ASSUME events = <<>>, NEW b \in Batches(MaxBatch - 1),
             events' = events \o Append(b, BrokerDisconnect)
      PROVE  BufferIsOfOneSession'
  <2>1. /\ b \in Seq(PacketType) /\ \A i \in DOMAIN b : b[i].session = generation
        /\ BrokerDisconnect \in PacketType /\ BrokerDisconnect.session = generation
    BY <1>0, BatchTypes, BridgeAssumption
  <2> DEFINE e == Append(b, BrokerDisconnect)
  <2>2. /\ e \in Seq(PacketType) /\ DOMAIN e = DOMAIN b \cup {Len(b) + 1}
        /\ e[Len(b) + 1] = BrokerDisconnect /\ \A i \in DOMAIN b : e[i] = b[i]
    BY <2>1
  <2>3. events' = e
    BY <1>4, <2>2, ConcatEmptySeq
  <2> HIDE DEF e
  <2>4. \A i \in DOMAIN events' : events'[i].session = generation
    BY <2>1, <2>2, <2>3
  <2> QED
    BY <2>4 DEF BufferIsOfOneSession
<1>5. CASE events' = <<>>
  BY <1>5 DEF BufferIsOfOneSession
<1>6. CASE SenderNext \/ \E c \in Commands : Accept(c) \/ Enqueue(c)
  BY <1>1, <1>6 DEF SenderNext, SeeConnAck, KeepaliveTick, TakeGuarded, TakeLegacy,
     SenderEnqueues, Accept, Enqueue, loopVars
<1>7. CASE LoopNext
  <2>1. CASE Read \/ Break
    BY <1>3, <1>4, <2>1 DEF Read, Break, Polling
  <2>2. CASE Yield
    BY <1>2, <2>2 DEF Yield
  <2>3. CASE ConnAck \/ ConnectFails \/ WakeUp \/ Write \/ WriteFails \/ PubAck
    BY <1>1, <2>3 DEF ConnAck, ConnectFails, WakeUp, Write, WriteFails, PubAck, loopVars
  <2> QED
    BY <1>7, <2>1, <2>2, <2>3 DEF LoopNext
<1>8. CASE Stop
  BY <1>5, <1>8 DEF Stop
<1>9. CASE BridgeTick \/ Others \/ UNCHANGED bridgeVars
  BY <1>1, <1>9 DEF BridgeTick, Others, bridgeVars, loopVars
<1> QED
  BY <1>6, <1>7, <1>8, <1>9 DEF BridgeNext

\* The telemetry is open exactly while there is a connection, and the packets
\* waiting to be applied were all read from one (poll_events, handle_disconnect
\* and rumqttc's select, whatever breaks and reconnects).
THEOREM SessionsStayApart == BridgeSpec => []SessionsDoNotMix
<1>1. BridgeInit => BufferIsOfOneSession
  BY DEF BridgeInit, BufferIsOfOneSession
<1>2. BridgeInv => ConnectedMirrorsNetwork
  BY DEF BridgeInv
<1> QED
  BY <1>1, <1>2, BufferStep, BridgeInvariant, PTL DEF BridgeSpec, SessionsDoNotMix

-----------------------------------------------------------------------------
(* Bridge implements Delivery *)

\* What is on its way, by its four places.
LEMMA OnTheWayIs ==
  OnTheWay = {c \in Commands : Replays(c) \/ Requested(c) \/ Sending(c) \/ Queued(c)} \ OnWire
BY DEF OnTheWay, Replays, Requested, Sending, Queued

\* A command that is requested is neither being sent nor queued.
LEMMA PlacesApart ==
  ASSUME BridgeInv, NEW c \in Commands, Requested(c)
  PROVE  ~Sending(c) /\ ~Queued(c)
<1>1. Arrived(c)
  BY DEF BridgeInv, AllArrived
<1>2. Sending(c) \/ Queued(c) => Precedes(c, c)
  BY DEF BridgeInv, QueuesInOrder
<1> QED
  BY <1>1, <1>2, OrderIsStrict

\* The first request that is a command is the first of the line that waits.
LEMMA FirstGoesOut ==
  ASSUME BridgeInv, Polling, NEW r \in NextRequests, r.type = "publish", wire' = WireAfterWrite(r)
  PROVE  r.arg \in Commands /\ Requested(r.arg) /\ Promise!GoesOut(r.arg)
<1> DEFINE c == r.arg
           t == Tail(requests)
<1>1. connected /\ pending = {} /\ requests # <<>> /\ r = Head(requests)
  BY NextIsFirst
<1>2. /\ r \in RequestType /\ Elements(requests) = {r} \cup Elements(t)
      /\ c \in Commands /\ r = Publish(c) /\ Requested(c) /\ Arrived(c)
      /\ \A d : Publish(d) \in Elements(t) => Precedes(c, d)
  BY <1>1, FirstRequest
<1> HIDE DEF c, t
<1>3. c \in OnTheWay
  BY <1>2, OnTheWayIs DEF BridgeInv, NotBefore
<1>4. \E i \in DOMAIN arrivals : arrivals[i] = c /\ \A j \in 1 .. i - 1 : arrivals[j] \notin OnTheWay
  <2>1. PICK i \in DOMAIN arrivals : arrivals[i] = c
    BY <1>2 DEF Arrived
  <2>2. DOMAIN arrivals = 1 .. Len(arrivals) /\ Len(arrivals) \in Nat
    BY DEF BridgeInv, CommandTypes
  <2>3. ASSUME NEW j \in 1 .. i - 1, NEW d, d = arrivals[j], d \in OnTheWay PROVE FALSE
    <3>1. j \in DOMAIN arrivals /\ j < i
      BY <2>2
    <3>2. d # c
      BY <2>1, <2>2, <2>3, <3>1 DEF BridgeInv, ArrivesOnce
    <3>3. d \in Commands /\ (Requested(d) \/ Sending(d) \/ Queued(d))
      BY <1>1, <2>3, OnTheWayIs DEF Replays
    <3>4. Precedes(c, d)
      <4>1. CASE Requested(d)
        <5>1. Publish(d) # r
          BY <1>2, <3>2, RequestTypes
        <5> QED
          BY <1>2, <4>1, <5>1 DEF Requested
      <4>2. CASE Sending(d) \/ Queued(d)
        BY <1>2, <3>3, <4>2 DEF BridgeInv, QueuesInOrder
      <4> QED
        BY <3>3, <4>1, <4>2
    <3>5. i < j
      BY <2>1, <2>3, <3>1, <3>4 DEF Precedes
    <3> QED
      BY <2>2, <3>1, <3>5
  <2> QED
    BY <2>1, <2>3
<1>5. Guarded(c) => guardGen[c] = generation
  <2>1. \E i \in DOMAIN requests : requests[i] = Publish(c)
    BY <1>2, RequestedAt
  <2> QED
    BY <2>1, RequestTypes DEF BridgeInv, NoStaleController
<1>6. wire' = Append(wire, [cmd |-> c, session |-> generation])
  BY DEF WireAfterWrite, c
<1>7. Promise!GoesOut(c)
  BY <1>1, <1>2, <1>3, <1>4, <1>5, <1>6 DEF Promise!GoesOut
<1> QED
  BY <1>2, <1>7 DEF c

\* What is left on its way when the session ends: all but the guarded commands
\* that rumqttc held, and what has reached the broker.
LEMMA WayAfterCleaning ==
  ASSUME BridgeInv, NEW u \in Seq(Commands), NEW w \in Seq(RequestType), HandleDisconnect(u, w),
         UNCHANGED sender, OnWire \subseteq OnWire',
         \A d \in Commands : ~Guarded(d) /\ d \notin OnWire =>
           (d \in Elements(u) \/ Publish(d) \in Elements(w) <=> Requested(d))
  PROVE  OnTheWay' = (OnTheWay \ {d \in Commands : Guarded(d) /\ Requested(d)}) \ OnWire'
<1>1. pending = {} /\ requests' = <<>> /\ UNCHANGED commands
  BY DEF HandleDisconnect, Disconnect, commandVars, BridgeInv, NoStaleController
<1>2. \A d : /\ ~Requested(d)' /\ ~Replays(d)
             /\ Sending(d)' <=> Sending(d)
             /\ Queued(d)' <=> Queued(d)
  BY <1>1 DEF Requested, Replays, Sending, Queued, Elements
<1>3. \A d \in Commands :
        Replays(d)' <=> ~Guarded(d) /\ (d \in Elements(u) \/ Publish(d) \in Elements(w))
  <2> SUFFICES ASSUME NEW d \in Commands
               PROVE  Replays(d)' <=> ~Guarded(d) /\ (d \in Elements(u) \/ Publish(d) \in Elements(w))
    OBVIOUS
  <2>1. Replays(d)' <=> /\ Publish(d) \in {Publish(c) : c \in Elements(u)} \cup Elements(w)
                        /\ Replayable(Publish(d))
    BY <1>1 DEF Replays, HandleDisconnect
  <2>2. Replayable(Publish(d)) <=> ~Guarded(d)
    BY RequestTypes DEF Replayable
  <2>3. Publish(d) \in {Publish(c) : c \in Elements(u)} <=> d \in Elements(u)
    BY RequestTypes
  <2> QED
    BY <2>1, <2>2, <2>3
<1>4. OnTheWay' = {d \in Commands : Replays(d)' \/ Sending(d) \/ Queued(d)} \ OnWire'
  <2>1. OnTheWay' = {d \in Commands : Replays(d)' \/ Requested(d)' \/ Sending(d)' \/ Queued(d)'} \ OnWire'
    BY DEF OnTheWay, Replays, Requested, Sending, Queued
  <2> QED
    BY <1>2, <2>1
<1>5. \A d \in Commands : Requested(d) => ~Sending(d) /\ ~Queued(d)
  BY PlacesApart
<1> QED
  BY <1>2, <1>3, <1>4, <1>5, OnTheWayIs

\* A step of Delivery in which nothing happens.
DeliveryStutter == UNCHANGED Promise!deliveryVars

\* A step that moves no command leaves the line of Delivery as it is.
LEMMA QuietDelivery ==
  ASSUME UNCHANGED <<pathVars, connected, generation, running>>, \A c : Sending(c)' <=> Sending(c)
  PROVE  DeliveryStutter
<1> USE DEF pathVars
<1>1. OnWire' = OnWire
  BY DEF OnWire
<1>2. \A c : /\ Replays(c)' <=> Replays(c)
             /\ Requested(c)' <=> Requested(c)
             /\ Queued(c)' <=> Queued(c)
  BY DEF Replays, Requested, Queued
<1>3. OnTheWay' = {d \in Commands : Replays(d)' \/ Requested(d)' \/ Sending(d)' \/ Queued(d)'} \ OnWire'
  BY DEF OnTheWay, Replays, Requested, Sending, Queued
<1>4. OnTheWay' = OnTheWay
  BY <1>1, <1>2, <1>3, OnTheWayIs
<1> QED
  BY <1>4 DEF DeliveryStutter, Promise!deliveryVars

\* execute accepts and sends a command: it is accepted, then joins the line.
LEMMA AcceptDelivery ==
  ASSUME BridgeInv, NEW c \in Commands, Accept(c) \/ Enqueue(c)
  PROVE  Promise!AcceptRequest(c) \/ Promise!Join(c)
<1>1. UNCHANGED <<requests, pending, wire, sender, connected, generation, running>>
  BY DEF Accept, Enqueue, sharedVars, telemetryVars, loopVars, taskVars, brokerVars
<1>2. /\ OnWire' = OnWire
      /\ \A d : /\ Replays(d)' <=> Replays(d)
                /\ Requested(d)' <=> Requested(d)
                /\ Sending(d)' <=> Sending(d)
  BY <1>1 DEF OnWire, Replays, Requested, Sending
<1>3. OnTheWay' = {d \in Commands : Replays(d)' \/ Requested(d)' \/ Sending(d)' \/ Queued(d)'} \ OnWire'
  BY DEF OnTheWay, Replays, Requested, Sending, Queued
<1>4. ASSUME UNCHANGED commands PROVE OnTheWay' = OnTheWay
  <2>1. \A d : Queued(d)' <=> Queued(d)
    BY <1>4 DEF Queued
  <2> QED
    BY <1>2, <1>3, <2>1, OnTheWayIs
<1>5. CASE Accept(c)
  <2>1. OnTheWay' = OnTheWay
    BY <1>4, <1>5 DEF Accept
  <2> QED
    BY <1>1, <1>5, <2>1 DEF Accept, Promise!AcceptRequest, brokerVars
<1>6. CASE Enqueue(c) /\ running
  <2>1. /\ phase[c] = "accepted" /\ commands' = Append(commands, c) /\ arrivals' = Append(arrivals, c)
        /\ phase' = [phase EXCEPT ![c] = "sent"] /\ UNCHANGED guardGen
    BY <1>6 DEF Enqueue
  <2>2. commands \in Seq(Commands)
    BY DEF BridgeInv, CommandTypes
  <2>3. \A d : Queued(d)' <=> Queued(d) \/ d = c
    BY <2>1, <2>2, ElementsOfQueues DEF Queued
  <2>4. c \notin OnWire
    BY <2>1 DEF BridgeInv, ArrivesOnce, AllArrived, Arrived
  <2>5. OnTheWay' = OnTheWay \cup {c}
    BY <1>2, <1>3, <2>3, <2>4, OnTheWayIs
  <2> QED
    BY <1>1, <1>6, <2>1, <2>5 DEF Promise!Join
<1>7. CASE Enqueue(c) /\ ~running
  <2>1. /\ phase[c] = "accepted" /\ UNCHANGED <<commands, arrivals, guardGen>>
        /\ phase' = [phase EXCEPT ![c] = "failed"]
    BY <1>7 DEF Enqueue
  <2> QED
    BY <1>1, <1>4, <1>7, <2>1 DEF Promise!Join
<1> QED
  BY <1>5, <1>6, <1>7

\* send_requests moves the first command on, or drops it as stale.
LEMMA SenderDelivery ==
  ASSUME BridgeInv, SenderNext
  PROVE  DeliveryStutter \/ \E c \in Commands : Promise!Discard(c)
<1>0. /\ UNCHANGED <<pending, inflight, phase, guardGen, wire, arrivals, connected, generation, running>>
      /\ sender \in SenderType
  BY DEF SenderNext, SeeConnAck, KeepaliveTick, TakeGuarded, TakeLegacy, SenderEnqueues,
     sharedVars, telemetryVars, loopVars, taskVars, commandVars, brokerVars, BridgeInv, LoopTypes
<1>1. OnWire' = OnWire /\ \A d : Replays(d)' <=> Replays(d)
  BY <1>0 DEF OnWire, Replays
<1>2. OnTheWay' = {d \in Commands : Replays(d)' \/ Requested(d)' \/ Sending(d)' \/ Queued(d)'} \ OnWire'
  BY DEF OnTheWay, Replays, Requested, Sending, Queued
<1>3. ASSUME OnTheWay' = OnTheWay PROVE DeliveryStutter
  BY <1>0, <1>3 DEF DeliveryStutter, Promise!deliveryVars
<1>4. CASE SeeConnAck \/ KeepaliveTick
  <2>1. UNCHANGED <<requests, commands>>
    BY <1>4 DEF SeeConnAck, KeepaliveTick, loopVars, commandVars
  <2>2. \A c : Sending(c)' <=> Sending(c)
    BY <1>4 DEF SeeConnAck, KeepaliveTick, Sending
  <2> QED
    BY <1>0, <2>1, <2>2, QuietDelivery DEF pathVars
<1>5. CASE TakeGuarded
  <2> DEFINE c == Head(commands)
             t == Tail(commands)
  <2>1. /\ commands # <<>> /\ commands' = t /\ Guarded(c) /\ UNCHANGED sender
        /\ requests' = Append(requests, Publish(c)) \/ UNCHANGED requests
    BY <1>5 DEF TakeGuarded, taskVars
  <2>2. c \in Commands /\ Elements(commands) = {c} \cup Elements(t) /\ c \notin Elements(t)
    BY <2>1, FirstCommand
  <2> HIDE DEF c, t
  <2>3. \A d : /\ Sending(d)' <=> Sending(d)
               /\ Queued(d) <=> Queued(d)' \/ d = c
               /\ Queued(d)' => d # c
    BY <2>1, <2>2 DEF Sending, Queued
  <2>4. CASE requests' = Append(requests, Publish(c))
    <3>1. requests \in Seq(RequestType) /\ Publish(c) \in RequestType
      BY <2>2, RequestTypes DEF BridgeInv, LoopTypes
    <3>2. \A d : Requested(d)' <=> Requested(d) \/ d = c
      BY <2>4, <3>1, ElementsOfQueues, RequestTypes DEF Requested
    <3>3. OnTheWay' = OnTheWay
      BY <1>1, <1>2, <2>3, <3>2, OnTheWayIs
    <3> QED
      BY <1>3, <3>3
  <2>5. CASE UNCHANGED requests
    <3>1. \A d : Requested(d)' <=> Requested(d)
      BY <2>5 DEF Requested
    <3>2. Queued(c)
      BY <2>2 DEF Queued
    <3>3. ~Replays(c)
      BY <2>2, <3>2 DEF BridgeInv, NotBefore
    <3>4. ~Requested(c) /\ ~Sending(c)
      BY <2>1, <2>2, <3>2, PlacesApart DEF BridgeInv, GuardsArePast
    <3>5. OnTheWay' = OnTheWay \ {c}
      BY <1>1, <1>2, <2>3, <3>1, <3>3, <3>4, OnTheWayIs
    <3>6. Promise!Discard(c)
      BY <1>0, <2>1, <2>2, <3>5 DEF Promise!Discard
    <3> QED
      BY <2>2, <3>6
  <2> QED
    BY <2>1, <2>4, <2>5
<1>6. CASE TakeLegacy
  <2> DEFINE c == Head(commands)
             t == Tail(commands)
  <2>1. /\ commands # <<>> /\ commands' = t /\ UNCHANGED requests
        /\ sender = <<"idle">> /\ sender' = <<"publish", c>>
    BY <1>6 DEF TakeLegacy, loopVars
  <2>2. Elements(commands) = {c} \cup Elements(t)
    BY <2>1, FirstCommand
  <2> HIDE DEF c, t
  <2>3. \A d : /\ Requested(d)' <=> Requested(d)
               /\ Queued(d) <=> Queued(d)' \/ d = c
    BY <2>1, <2>2 DEF Requested, Queued
  <2>4. \A d : ~Sending(d) /\ (Sending(d)' <=> d = c)
    BY <2>1 DEF Sending
  <2>5. OnTheWay' = OnTheWay
    BY <1>1, <1>2, <2>3, <2>4, OnTheWayIs
  <2> QED
    BY <1>3, <2>5
<1>7. CASE SenderEnqueues
  <2>1. UNCHANGED commands
    BY <1>7 DEF SenderEnqueues, commandVars
  <2>2. \A d : Queued(d)' <=> Queued(d)
    BY <2>1 DEF Queued
  <2>3. requests \in Seq(RequestType)
    BY DEF BridgeInv, LoopTypes
  <2>4. CASE sender[1] = "publish"
    <3> DEFINE c == sender[2]
    <3>1. requests' = Append(requests, Publish(c)) /\ sender' = <<"idle">>
      BY <1>7, <2>4 DEF SenderEnqueues
    <3>2. c \in Commands /\ \A d : Sending(d) <=> d = c
      BY <1>0, <2>4, SenderCases
    <3>3. Publish(c) \in RequestType
      BY <3>2, RequestTypes
    <3> HIDE DEF c
    <3>4. \A d : Requested(d)' <=> Requested(d) \/ d = c
      BY <2>3, <3>1, <3>3, ElementsOfQueues, RequestTypes DEF Requested
    <3>5. \A d : ~Sending(d)'
      BY <3>1 DEF Sending
    <3>6. OnTheWay' = OnTheWay
      BY <1>1, <1>2, <2>2, <3>2, <3>4, <3>5, OnTheWayIs
    <3> QED
      BY <1>3, <3>6
  <2>5. CASE sender[1] # "publish"
    <3>1. PICK r \in RequestType : r.type # "publish" /\ requests' = Append(requests, r)
      <4>1. CASE sender[1] = "subscribe"
        <5>1. sender[2] \in 1 .. 3
          BY <1>0, <4>1, SenderCases
        <5>2. SubscribeTo(Filters[sender[2]]) \in RequestType
          BY <5>1, FilterTypes, RequestTypes
        <5> QED
          BY <1>7, <4>1, <5>2 DEF SenderEnqueues, SubscribeTo
      <4>2. CASE sender[1] = "keepalive"
        BY <1>7, <4>2, RequestTypes DEF SenderEnqueues, Keepalive
      <4> QED
        BY <1>7, <2>5, <4>1, <4>2 DEF SenderEnqueues
    <3>2. \A d : Requested(d)' <=> Requested(d)
      BY <2>3, <3>1, ElementsOfQueues, RequestTypes DEF Requested
    <3>3. \A d : ~Sending(d)
      BY <1>0, <2>5, SenderCases
    <3>4. \A d : ~Sending(d)'
      <4>1. sender' = <<"keepalive">> \/ sender' = <<"idle">> \/ \E i : sender' = <<"subscribe", i>>
        BY <1>7, <2>5 DEF SenderEnqueues
      <4> QED
        BY <4>1 DEF Sending
    <3>5. OnTheWay' = OnTheWay
      BY <1>1, <1>2, <2>2, <3>2, <3>3, <3>4, OnTheWayIs
    <3> QED
      BY <1>3, <3>5
  <2> QED
    BY <2>4, <2>5
<1> QED
  BY <1>4, <1>5, <1>6, <1>7 DEF SenderNext

\* A session starts: what was kept for replay is dropped.
LEMMA ConnAckDelivery ==
  ASSUME BridgeInv, ConnAck
  PROVE  Promise!GoOnline
<1>0. /\ UNCHANGED <<requests, commands, phase, guardGen, wire, arrivals, sender, running, generation>>
      /\ pending' = {} /\ running /\ ~connected /\ connected' = TRUE
  BY DEF ConnAck, Connect, commandVars, brokerVars
<1> DEFINE lost == {c \in Commands : Replays(c)}
<1>1. \A c \in lost : ~Guarded(c) /\ guardGen[c] < generation
  BY RequestTypes DEF BridgeInv, NoStaleController, GuardsArePast, Replays
<1>2. /\ OnWire' = OnWire
      /\ \A d : /\ ~Replays(d)'
                /\ Requested(d)' <=> Requested(d)
                /\ Sending(d)' <=> Sending(d)
                /\ Queued(d)' <=> Queued(d)
  BY <1>0 DEF OnWire, Replays, Requested, Sending, Queued
<1>3. OnTheWay' = {d \in Commands : Replays(d)' \/ Requested(d)' \/ Sending(d)' \/ Queued(d)'} \ OnWire'
  BY DEF OnTheWay, Replays, Requested, Sending, Queued
<1>4. \A d \in Commands : Requested(d) \/ Sending(d) \/ Queued(d) => ~Replays(d)
  BY DEF BridgeInv, NotBefore
<1>5. OnTheWay' = OnTheWay \ lost
  BY <1>2, <1>3, <1>4, OnTheWayIs
<1>6. lost \in SUBSET {c \in Commands \ {d \in Commands : Guarded(d)} : guardGen[c] < generation}
  BY <1>1
<1> QED
  BY <1>0, <1>5, <1>6 DEF Promise!GoOnline

\* A session ends between two writes: the guarded commands that rumqttc held
\* are lost.
LEMMA BreakDelivery ==
  ASSUME BridgeInv, HandleDisconnect(inflight, requests), UNCHANGED <<sender, wire, arrivals, running>>
  PROVE  Promise!GoOffline
<1>0. inflight \in Seq(Commands) /\ requests \in Seq(RequestType)
  BY DEF BridgeInv, LoopTypes
<1>1. /\ connected /\ connected' = FALSE /\ generation' = generation + 1
      /\ UNCHANGED <<phase, guardGen>>
  BY DEF HandleDisconnect, Disconnect, commandVars
<1>2. OnWire' = OnWire
  BY DEF OnWire
<1>3. \A d : d \in Elements(inflight) => d \in OnWire
  BY DEF BridgeInv, NotBefore, Elements
<1> DEFINE lost == {d \in Commands : Guarded(d) /\ Requested(d)}
<1>4. OnTheWay' = (OnTheWay \ lost) \ OnWire'
  <2>1. \A d \in Commands : ~Guarded(d) /\ d \notin OnWire =>
          (d \in Elements(inflight) \/ Publish(d) \in Elements(requests) <=> Requested(d))
    BY <1>3 DEF Requested
  <2> QED
    BY <1>0, <1>2, <2>1, WayAfterCleaning
<1>5. OnTheWay' = OnTheWay \ lost
  BY <1>2, <1>4, OnTheWayIs
<1>6. lost \in SUBSET {d \in Commands : Guarded(d)}
  OBVIOUS
<1> HIDE DEF lost
<1> QED
  BY <1>1, <1>5, <1>6 DEF Promise!GoOffline

\* A request reaches the broker: the first command that waits is delivered.
LEMMA WriteDelivery ==
  ASSUME BridgeInv, Write
  PROVE  DeliveryStutter \/ \E c \in Commands : Promise!Deliver(c)
<1>0. UNCHANGED <<commands, phase, guardGen, arrivals, sender, running, connected, generation>>
  BY DEF Write, sharedVars, telemetryVars, taskVars, commandVars
<1>1. PICK r \in NextRequests :
        /\ wire' = WireAfterWrite(r) /\ pending' = pending \ {r}
        /\ Polling /\ requests' = WaitingAfterWrite
  BY DEF Write
<1>2. pending = {} /\ requests # <<>> /\ r = Head(requests) /\ requests' = Tail(requests)
  BY <1>1, NextIsFirst
<1>3. /\ r \in RequestType /\ Elements(requests) = {r} \cup Elements(requests')
      /\ r.type = "publish" => /\ r.arg \in Commands /\ r = Publish(r.arg)
                               /\ \A d : Publish(d) \in Elements(requests') => d # r.arg
  BY <1>2, FirstRequest
<1>4. OnWire' = IF r.type = "publish" THEN OnWire \cup {r.arg} ELSE OnWire
  BY <1>1, <1>3, WireGrows
<1>5. \A d : /\ ~Replays(d) /\ ~Replays(d)'
             /\ Sending(d)' <=> Sending(d)
             /\ Queued(d)' <=> Queued(d)
             /\ Requested(d) <=> Requested(d)' \/ r = Publish(d)
  BY <1>0, <1>1, <1>2, <1>3 DEF Replays, Sending, Queued, Requested
<1>6. OnTheWay' = {d \in Commands : Replays(d)' \/ Requested(d)' \/ Sending(d)' \/ Queued(d)'} \ OnWire'
  BY DEF OnTheWay, Replays, Requested, Sending, Queued
<1>7. CASE r.type = "publish"
  <2> DEFINE c == r.arg
  <2>1. c \in Commands /\ Promise!GoesOut(c)
    BY <1>1, <1>7, FirstGoesOut
  <2>2. OnTheWay' = OnTheWay \ {c}
    BY <1>3, <1>4, <1>5, <1>6, <1>7, OnTheWayIs, RequestTypes
  <2>3. Promise!Deliver(c)
    BY <1>0, <2>1, <2>2 DEF Promise!Deliver
  <2> QED
    BY <2>1, <2>3
<1>8. CASE r.type # "publish"
  <2>1. \A d : r # Publish(d)
    BY <1>8, RequestTypes
  <2>2. OnTheWay' = OnTheWay
    BY <1>4, <1>5, <1>6, <1>8, <2>1, OnTheWayIs
  <2>3. wire' = wire
    BY <1>1, <1>8 DEF WireAfterWrite
  <2> QED
    BY <1>0, <2>2, <2>3 DEF DeliveryStutter, Promise!deliveryVars
<1> QED
  BY <1>7, <1>8

\* A write fails: the session ends, and the command that was being written may
\* have reached the broker.  A legacy one is kept, for rumqttc had noted it as
\* unacknowledged before it wrote it.
LEMMA WriteFailsDelivery ==
  ASSUME BridgeInv, WriteFails
  PROVE  Promise!GoOffline
<1>1. PICK r \in NextRequests :
        HandleDisconnect(UnackedAfterWrite(r), WaitingAfterWrite) /\ wire' \in {wire, WireAfterWrite(r)}
  BY DEF WriteFails
<1>2. Polling /\ UNCHANGED <<sender, arrivals, running>>
  BY DEF WriteFails
<1>3. requests # <<>> /\ r = Head(requests) /\ WaitingAfterWrite = Tail(requests)
  BY <1>1, <1>2, NextIsFirst
<1> DEFINE w == WaitingAfterWrite
           u == UnackedAfterWrite(r)
<1>4. /\ r \in RequestType /\ w \in Seq(RequestType) /\ Elements(requests) = {r} \cup Elements(w)
      /\ r.type = "publish" => r.arg \in Commands /\ r = Publish(r.arg) /\ Requested(r.arg)
  BY <1>3, FirstRequest
<1>5. /\ u \in Seq(Commands) /\ inflight \in Seq(Commands)
      /\ \A c \in Elements(u) : c \in OnWire \/ (r.type = "publish" /\ c = r.arg)
  BY <1>4, WireGrows DEF BridgeInv, LoopTypes
<1>6. HandleDisconnect(u, w)
  BY <1>1
<1>7. /\ connected /\ connected' = FALSE /\ generation' = generation + 1
      /\ UNCHANGED <<phase, guardGen>>
  BY <1>6 DEF HandleDisconnect, Disconnect, commandVars
<1>8. r.type = "publish" /\ ~Guarded(r.arg) => r.arg \in Elements(u)
  <2> SUFFICES ASSUME r.type = "publish", ~Guarded(r.arg) PROVE r.arg \in Elements(u)
    OBVIOUS
  <2>1. u = Append(inflight, r.arg)
    BY DEF Guarded, AtMostOnceQoS, UnackedAfterWrite
  <2> QED
    BY <1>4, <1>5, <2>1, ElementsOfQueues
<1> HIDE DEF u, w
<1>9. \A d \in Commands : ~Guarded(d) /\ d \notin OnWire =>
        (d \in Elements(u) \/ Publish(d) \in Elements(w) <=> Requested(d))
  <2> SUFFICES ASSUME NEW d \in Commands, ~Guarded(d), d \notin OnWire
               PROVE  d \in Elements(u) \/ Publish(d) \in Elements(w) <=> Requested(d)
    OBVIOUS
  <2>1. Requested(d) <=> r = Publish(d) \/ Publish(d) \in Elements(w)
    BY <1>4 DEF Requested
  <2>2. d \in Elements(u) => Requested(d)
    BY <1>4, <1>5
  <2>3. r = Publish(d) => d \in Elements(u)
    BY <1>8, RequestTypes
  <2> QED
    BY <2>1, <2>2, <2>3
<1> DEFINE lost == {d \in Commands : Guarded(d) /\ Requested(d)}
<1>10. wire' = wire => OnWire' = OnWire
  BY DEF OnWire
<1>11. wire' = WireAfterWrite(r) => OnWire' = IF r.type = "publish" THEN OnWire \cup {r.arg} ELSE OnWire
  BY <1>4, WireGrows
<1>12. OnTheWay' = (OnTheWay \ lost) \ OnWire'
  BY <1>1, <1>2, <1>4, <1>5, <1>6, <1>9, <1>10, <1>11, WayAfterCleaning
<1>13. lost \in SUBSET {d \in Commands : Guarded(d)}
  OBVIOUS
<1> HIDE DEF lost
<1>14. CASE wire' = wire
  <2>1. OnTheWay' = OnTheWay \ lost
    BY <1>10, <1>12, <1>14, OnTheWayIs
  <2> QED
    BY <1>2, <1>7, <1>13, <1>14, <2>1 DEF Promise!GoOffline
<1>15. CASE wire' = WireAfterWrite(r) /\ r.type = "publish"
  <2>1. r.arg \in Commands /\ Promise!GoesOut(r.arg)
    BY <1>2, <1>15, FirstGoesOut
  <2>2. OnTheWay' = OnTheWay \ (lost \cup {r.arg})
    BY <1>11, <1>12, <1>15, OnTheWayIs
  <2> QED
    BY <1>2, <1>7, <1>13, <2>1, <2>2 DEF Promise!GoOffline
<1>16. r.type # "publish" => WireAfterWrite(r) = wire
  BY DEF WireAfterWrite
<1> QED
  BY <1>1, <1>14, <1>15, <1>16

\* The bridge stops: nothing is kept.
LEMMA StopDelivery ==
  ASSUME BridgeInv, Stop
  PROVE  Promise!Shutdown
<1>1. /\ running /\ running' = FALSE /\ requests' = <<>> /\ pending' = {} /\ commands' = <<>>
      /\ sender' = <<"idle">> /\ UNCHANGED <<phase, guardGen, wire, arrivals>>
  BY DEF Stop
<1>2. \A d : ~Replays(d)' /\ ~Requested(d)' /\ ~Sending(d)' /\ ~Queued(d)'
  BY <1>1 DEF Replays, Requested, Sending, Queued, Elements
<1>3. OnTheWay' = {d \in Commands : Replays(d)' \/ Requested(d)' \/ Sending(d)' \/ Queued(d)'} \ OnWire'
  BY DEF OnTheWay, Replays, Requested, Sending, Queued
<1>4. OnTheWay' = {}
  BY <1>2, <1>3
<1>5. connected \in BOOLEAN
  BY DEF BridgeInv, TypeInv, SharedTypeOK, FlagsTypeOK
<1>6. connected' = FALSE /\ generation' = IF connected THEN generation + 1 ELSE generation
  BY <1>5 DEF Stop, Disconnect, sharedVars, telemetryVars
<1> QED
  BY <1>1, <1>4, <1>6 DEF Promise!Shutdown

\* Every step of the bridge is a step of Delivery, or leaves its line alone.
LEMMA DeliveryStep ==
  ASSUME BridgeInv, [BridgeNext]_bridgeVars
  PROVE  [Promise!DeliveryNext]_(Promise!deliveryVars)
<1>1. CASE \E c \in Commands : Accept(c) \/ Enqueue(c)
  BY <1>1, AcceptDelivery DEF Promise!DeliveryNext
<1>2. CASE SenderNext
  BY <1>2, SenderDelivery DEF Promise!DeliveryNext, DeliveryStutter
<1>3. CASE LoopNext
  <2>1. CASE ConnAck
    BY <2>1, ConnAckDelivery DEF Promise!DeliveryNext
  <2>2. CASE ConnectFails \/ WakeUp \/ Read \/ PubAck
    <3>1. UNCHANGED <<requests, pending, commands, phase, guardGen, wire, arrivals,
                      connected, generation, running, sender>>
      BY <2>2 DEF ConnectFails, WakeUp, Read, PubAck, sharedVars, telemetryVars, loopVars, taskVars,
         commandVars, brokerVars
    <3>2. OnTheWay' = OnTheWay
      BY <3>1 DEF OnTheWay, OnWire
    <3> QED
      BY <3>1, <3>2 DEF Promise!deliveryVars
  <2>3. CASE Break
    BY <2>3, BreakDelivery DEF Break, Promise!DeliveryNext
  <2>4. CASE Yield /\ Head(events).type = "disconnect"
    BY <2>4, BreakDelivery DEF Yield, taskVars, Promise!DeliveryNext
  <2>5. CASE Yield /\ Head(events).type # "disconnect"
    <3>1. UNCHANGED <<connected, generation>>
      BY <2>5, YieldIsShared
    <3>2. UNCHANGED <<pathVars, running, sender>>
      BY <2>5 DEF Yield, taskVars, commandVars, brokerVars, pathVars
    <3>3. \A c : Sending(c)' <=> Sending(c)
      BY <3>2 DEF Sending
    <3> QED
      BY <3>1, <3>2, <3>3, QuietDelivery DEF DeliveryStutter
  <2>6. CASE Write
    BY <2>6, WriteDelivery DEF Promise!DeliveryNext, DeliveryStutter
  <2>7. CASE WriteFails
    BY <2>7, WriteFailsDelivery DEF Promise!DeliveryNext
  <2> QED
    BY <1>3, <2>1, <2>2, <2>3, <2>4, <2>5, <2>6, <2>7 DEF LoopNext
<1>4. CASE Stop
  BY <1>4, StopDelivery DEF Promise!DeliveryNext
<1>5. CASE BridgeTick \/ Others \/ UNCHANGED bridgeVars
  <2>1. UNCHANGED <<connected, generation>>
    BY <1>5, OthersKeepTheSession DEF BridgeTick, Tick, bridgeVars, sharedVars, telemetryVars
  <2>2. UNCHANGED <<pathVars, running, sender>>
    BY <1>5 DEF BridgeTick, Others, bridgeVars, loopVars, taskVars, commandVars, brokerVars, pathVars
  <2>3. \A c : Sending(c)' <=> Sending(c)
    BY <2>2 DEF Sending
  <2> QED
    BY <2>1, <2>2, <2>3, QuietDelivery DEF DeliveryStutter
<1> QED
  BY <1>1, <1>2, <1>3, <1>4, <1>5 DEF BridgeNext

\* The bridge starts with an empty line.
LEMMA DeliveryStart == BridgeInit => Promise!DeliveryInit
<1> SUFFICES ASSUME BridgeInit PROVE Promise!DeliveryInit
  OBVIOUS
<1>1. \A d : ~Replays(d) /\ ~Requested(d) /\ ~Sending(d) /\ ~Queued(d)
  BY DEF BridgeInit, Replays, Requested, Sending, Queued, Elements
<1>2. OnTheWay = {}
  BY <1>1, OnTheWayIs
<1> QED
  BY <1>2 DEF BridgeInit, SharedInit, Promise!DeliveryInit

\* The bridge keeps the promise of Delivery, through every outage, full channel
\* and shutdown: whatever send_requests, send_if_current, handle_disconnect and
\* rumqttc's queues do together is a behaviour of that line of commands.
THEOREM BridgeKeepsThePromise == BridgeSpec => KeepsThePromise
<1>1. BridgeInv /\ [BridgeNext]_bridgeVars => [Promise!DeliveryNext]_(Promise!deliveryVars)
  BY DeliveryStep
<1> QED
  BY <1>1, DeliveryStart, BridgeInvariant, PTL DEF BridgeSpec, KeepsThePromise, Promise!DeliverySpec

-----------------------------------------------------------------------------
(* What the promise amounts to, for the broker of the bridge.  What is        *)
(* inductive of the steps of Delivery, whoever takes them: a command has at   *)
(* most one place in the line, taken when it was sent; what is on its way or  *)
(* was delivered has a place; and nothing on its way is before a place that   *)
(* was served.                                                                *)

OnePlace ==
  /\ \A i, j \in DOMAIN arrivals : arrivals[i] = arrivals[j] => i = j
  /\ \A i \in DOMAIN arrivals : phase[arrivals[i]] = "sent"

HavePlaces ==
  /\ \A c \in OnTheWay : \E n \in DOMAIN arrivals : arrivals[n] = c
  /\ \A i \in DOMAIN wire : \E n \in DOMAIN arrivals : arrivals[n] = wire[i].cmd

ServedFirst ==
  \A i \in DOMAIN wire, n \in DOMAIN arrivals :
    arrivals[n] = wire[i].cmd => \A m \in 1 .. n - 1 : arrivals[m] \notin OnTheWay

DeliveryInv ==
  /\ Promise!DeliveryTypeOK
  /\ OnePlace /\ HavePlaces /\ ServedFirst
  /\ Promise!AtMostOnce /\ Promise!InItsSession /\ Promise!InOrder

\* At the start nothing has been issued.
LEMMA DeliveryStartInv == Promise!DeliveryInit => DeliveryInv
<1> SUFFICES ASSUME Promise!DeliveryInit PROVE DeliveryInv
  OBVIOUS
<1>1. Promise!DeliveryTypeOK
  <2>1. phase \in [Commands -> {"new", "accepted", "sent", "failed"}] /\ guardGen \in [Commands -> Nat]
    BY DEF Promise!DeliveryInit
  <2>2. arrivals \in Seq(Commands) /\ wire \in Seq([cmd : Commands, session : Nat])
    BY DEF Promise!DeliveryInit
  <2> QED
    BY <2>1, <2>2 DEF Promise!DeliveryInit, Promise!DeliveryTypeOK
<1>2. OnePlace /\ HavePlaces /\ ServedFirst /\ Promise!AtMostOnce /\ Promise!InItsSession /\ Promise!InOrder
  BY DEF Promise!DeliveryInit, OnePlace, HavePlaces, ServedFirst, Promise!AtMostOnce, Promise!InItsSession, Promise!InOrder
<1> QED
  BY <1>1, <1>2 DEF DeliveryInv

\* A step that keeps the line, what was issued and what was delivered and puts
\* nothing new on its way keeps all but, perhaps, the types of the session.
LEMMA ShrinkingKeeps ==
  ASSUME DeliveryInv, UNCHANGED <<phase, guardGen, arrivals, wire>>, OnTheWay' \subseteq OnTheWay
  PROVE  /\ OnePlace' /\ HavePlaces' /\ ServedFirst'
         /\ Promise!AtMostOnce' /\ Promise!InItsSession' /\ Promise!InOrder'
<1>1. OnePlace' /\ HavePlaces'
  BY DEF DeliveryInv, OnePlace, HavePlaces
<1>2. ServedFirst' /\ Promise!AtMostOnce'
  BY DEF DeliveryInv, ServedFirst, Promise!AtMostOnce
<1>3. Promise!InItsSession' /\ Promise!InOrder'
  BY DEF DeliveryInv, Promise!InItsSession, Promise!InOrder
<1> QED
  BY <1>1, <1>2, <1>3

\* The first command on its way goes out, and whatever else stops with it.
LEMMA GoingOutKeeps ==
  ASSUME DeliveryInv, NEW c \in Commands, Promise!GoesOut(c), UNCHANGED <<phase, guardGen, arrivals>>,
         OnTheWay' \subseteq OnTheWay \ {c}
  PROVE  /\ wire' \in Seq([cmd : Commands, session : Nat])
         /\ OnePlace' /\ HavePlaces' /\ ServedFirst'
         /\ Promise!AtMostOnce' /\ Promise!InItsSession' /\ Promise!InOrder'
<1> DEFINE d == [cmd |-> c, session |-> generation]
           k == Len(wire) + 1
<1>0. /\ wire \in Seq([cmd : Commands, session : Nat])
      /\ d \in [cmd : Commands, session : Nat]
      /\ arrivals \in Seq(Commands)
  BY DEF DeliveryInv, Promise!DeliveryTypeOK
<1>1. wire' = Append(wire, d)
  BY DEF Promise!GoesOut
<1>2. /\ wire' \in Seq([cmd : Commands, session : Nat])
      /\ DOMAIN wire' = DOMAIN wire \cup {k} /\ k \notin DOMAIN wire
      /\ DOMAIN wire = 1 .. k - 1 /\ k \in Nat
      /\ \A i \in DOMAIN wire : wire'[i] = wire[i]
      /\ wire'[k] = d
  BY <1>0, <1>1
<1>3. PICK p \in DOMAIN arrivals : arrivals[p] = c /\ \A j \in 1 .. p - 1 : arrivals[j] \notin OnTheWay
  BY DEF Promise!GoesOut
<1>4. c \in OnTheWay /\ (Guarded(c) => guardGen[c] = generation)
  BY DEF Promise!GoesOut
<1>5. OnePlace'
  BY DEF DeliveryInv, OnePlace
<1>6. HavePlaces'
  BY <1>2, <1>3 DEF DeliveryInv, HavePlaces
<1>7. ServedFirst'
  <2> SUFFICES ASSUME NEW i \in DOMAIN wire', NEW n \in DOMAIN arrivals,
                      arrivals[n] = wire'[i].cmd, NEW m \in 1 .. n - 1
               PROVE  arrivals[m] \notin OnTheWay'
    BY DEF ServedFirst
  <2>1. CASE i \in DOMAIN wire
    BY <1>2, <2>1 DEF DeliveryInv, ServedFirst
  <2>2. CASE i = k
    <3>1. n = p
      BY <1>2, <1>3, <2>2 DEF DeliveryInv, OnePlace
    <3> QED
      BY <1>3, <3>1
  <2> QED
    BY <1>2, <2>1, <2>2
<1>8. Promise!AtMostOnce'
  BY <1>2, <1>4 DEF DeliveryInv, Promise!AtMostOnce
<1>9. Promise!InItsSession'
  BY <1>2, <1>4 DEF DeliveryInv, Promise!InItsSession
<1>10. Promise!InOrder'
  <2> SUFFICES ASSUME NEW i \in DOMAIN wire', NEW j \in DOMAIN wire', i < j
               PROVE  \E m, n \in DOMAIN arrivals :
                        m < n /\ arrivals[m] = wire'[i].cmd /\ arrivals[n] = wire'[j].cmd
    BY DEF Promise!InOrder
  <2>1. CASE j \in DOMAIN wire
    BY <1>2, <2>1 DEF DeliveryInv, Promise!InOrder
  <2>2. CASE j = k
    <3>1. i \in DOMAIN wire
      BY <1>2, <2>2
    <3>2. PICK n \in DOMAIN arrivals : arrivals[n] = wire[i].cmd
      BY <3>1 DEF DeliveryInv, HavePlaces
    <3>3. arrivals[n] # c
      BY <1>4, <3>1, <3>2 DEF DeliveryInv, Promise!AtMostOnce
    <3>4. p \notin 1 .. n - 1
      BY <1>3, <1>4, <3>1, <3>2 DEF DeliveryInv, ServedFirst
    <3>5. n < p
      BY <1>0, <1>3, <3>3, <3>4
    <3> QED
      BY <1>2, <1>3, <2>2, <3>1, <3>2, <3>5
  <2> QED
    BY <1>2, <2>1, <2>2
<1> QED
  BY <1>2, <1>5, <1>6, <1>7, <1>8, <1>9, <1>10

\* Every step keeps the invariant.
LEMMA DeliveryStepInv == DeliveryInv /\ [Promise!DeliveryNext]_(Promise!deliveryVars) => DeliveryInv'
<1> SUFFICES ASSUME DeliveryInv, [Promise!DeliveryNext]_(Promise!deliveryVars) PROVE DeliveryInv'
  OBVIOUS
<1>0. Promise!DeliveryTypeOK
  BY DEF DeliveryInv
<1>1. ASSUME NEW c \in Commands, Promise!AcceptRequest(c) PROVE DeliveryInv'
  <2>1. Promise!DeliveryTypeOK'
    BY <1>0, <1>1 DEF Promise!AcceptRequest, Promise!DeliveryTypeOK
  <2>2. \A n \in DOMAIN arrivals : arrivals[n] # c
    BY <1>1 DEF Promise!AcceptRequest, DeliveryInv, OnePlace
  <2>3. OnePlace'
    BY <1>0, <1>1, <2>2 DEF Promise!AcceptRequest, DeliveryInv, OnePlace, Promise!DeliveryTypeOK
  <2>4. HavePlaces' /\ ServedFirst' /\ Promise!AtMostOnce' /\ Promise!InOrder'
    BY <1>1 DEF Promise!AcceptRequest, DeliveryInv, HavePlaces, ServedFirst, Promise!AtMostOnce, Promise!InOrder
  <2>5. Promise!InItsSession'
    <3>1. \A i \in DOMAIN wire : wire[i].cmd # c
      BY <2>2 DEF DeliveryInv, HavePlaces
    <3> QED
      BY <1>0, <1>1, <3>1 DEF Promise!AcceptRequest, DeliveryInv, Promise!InItsSession, Promise!DeliveryTypeOK
  <2> QED
    BY <2>1, <2>3, <2>4, <2>5 DEF DeliveryInv
<1>2. ASSUME NEW c \in Commands, Promise!Join(c), running PROVE DeliveryInv'
  <2> DEFINE k == Len(arrivals) + 1
  <2>1. /\ arrivals \in Seq(Commands)
        /\ arrivals' = Append(arrivals, c) /\ OnTheWay' = OnTheWay \cup {c}
        /\ UNCHANGED <<wire, guardGen>>
    BY <1>0, <1>2 DEF Promise!Join, Promise!DeliveryTypeOK
  <2>2. /\ arrivals' \in Seq(Commands)
        /\ DOMAIN arrivals' = DOMAIN arrivals \cup {k} /\ k \notin DOMAIN arrivals
        /\ DOMAIN arrivals = 1 .. k - 1 /\ k \in Nat
        /\ \A i \in DOMAIN arrivals : arrivals'[i] = arrivals[i]
        /\ arrivals'[k] = c
    BY <2>1
  <2>3. \A n \in DOMAIN arrivals : arrivals[n] # c
    BY <1>2 DEF Promise!Join, DeliveryInv, OnePlace
  <2>4. \A i \in DOMAIN wire : wire[i].cmd # c
    BY <2>3 DEF DeliveryInv, HavePlaces
  <2>5. Promise!DeliveryTypeOK'
    BY <1>0, <1>2, <2>1, <2>2 DEF Promise!Join, Promise!DeliveryTypeOK
  <2>6. OnePlace'
    <3>1. \A i \in DOMAIN arrivals : phase'[arrivals[i]] = "sent"
      BY <1>0, <1>2, <2>1, <2>3 DEF Promise!Join, DeliveryInv, OnePlace, Promise!DeliveryTypeOK
    <3>2. phase'[c] = "sent"
      BY <1>0, <1>2 DEF Promise!Join, Promise!DeliveryTypeOK
    <3> QED
      BY <2>2, <2>3, <3>1, <3>2 DEF DeliveryInv, OnePlace
  <2>7. HavePlaces'
    BY <2>1, <2>2 DEF DeliveryInv, HavePlaces
  <2>8. ServedFirst'
    <3> SUFFICES ASSUME NEW i \in DOMAIN wire, NEW n \in DOMAIN arrivals',
                        arrivals'[n] = wire[i].cmd, NEW m \in 1 .. n - 1
                 PROVE  arrivals'[m] \notin OnTheWay'
      BY <2>1 DEF ServedFirst
    <3>1. n \in DOMAIN arrivals /\ m \in DOMAIN arrivals
      BY <2>2, <2>4
    <3> QED
      BY <2>1, <2>2, <2>3, <3>1 DEF DeliveryInv, ServedFirst
  <2>9. Promise!AtMostOnce'
    BY <2>1, <2>4 DEF DeliveryInv, Promise!AtMostOnce
  <2>10. Promise!InItsSession'
    BY <2>1 DEF DeliveryInv, Promise!InItsSession
  <2>11. Promise!InOrder'
    BY <2>1, <2>2 DEF DeliveryInv, Promise!InOrder
  <2> QED
    BY <2>5, <2>6, <2>7, <2>8, <2>9, <2>10, <2>11 DEF DeliveryInv
<1>3. ASSUME NEW c \in Commands, Promise!Join(c), ~running PROVE DeliveryInv'
  <2>1. Promise!DeliveryTypeOK'
    BY <1>0, <1>3 DEF Promise!Join, Promise!DeliveryTypeOK
  <2>2. OnePlace'
    <3>1. \A n \in DOMAIN arrivals : arrivals[n] # c
      BY <1>3 DEF Promise!Join, DeliveryInv, OnePlace
    <3> QED
      BY <1>0, <1>3, <3>1 DEF Promise!Join, DeliveryInv, OnePlace, Promise!DeliveryTypeOK
  <2>3. HavePlaces' /\ ServedFirst' /\ Promise!AtMostOnce' /\ Promise!InItsSession' /\ Promise!InOrder'
    BY <1>3 DEF Promise!Join, DeliveryInv, HavePlaces, ServedFirst, Promise!AtMostOnce, Promise!InItsSession, Promise!InOrder
  <2> QED
    BY <2>1, <2>2, <2>3 DEF DeliveryInv
<1>4. ASSUME NEW c \in Commands, Promise!Discard(c) PROVE DeliveryInv'
  BY <1>0, <1>4, ShrinkingKeeps DEF Promise!Discard, Promise!DeliveryTypeOK, DeliveryInv
<1>5. ASSUME NEW c \in Commands, Promise!Deliver(c) PROVE DeliveryInv'
  BY <1>0, <1>5, GoingOutKeeps DEF Promise!Deliver, Promise!DeliveryTypeOK, DeliveryInv
<1>6. CASE Promise!GoOnline
  BY <1>0, <1>6, ShrinkingKeeps DEF Promise!GoOnline, Promise!DeliveryTypeOK, DeliveryInv
<1>7. CASE Promise!GoOffline
  <2>1. generation' \in Nat
    BY <1>0, <1>7 DEF Promise!GoOffline, Promise!DeliveryTypeOK
  <2>2. PICK lost \in SUBSET {c \in Commands : Guarded(c)} :
          \/ OnTheWay' = OnTheWay \ lost /\ UNCHANGED wire
          \/ \E c \in Commands : Promise!GoesOut(c) /\ OnTheWay' = OnTheWay \ (lost \cup {c})
    BY <1>7 DEF Promise!GoOffline
  <2>3. CASE OnTheWay' = OnTheWay \ lost /\ UNCHANGED wire
    BY <1>0, <1>7, <2>1, <2>3, ShrinkingKeeps DEF Promise!GoOffline, Promise!DeliveryTypeOK, DeliveryInv
  <2>4. ASSUME NEW c \in Commands, Promise!GoesOut(c), OnTheWay' = OnTheWay \ (lost \cup {c})
        PROVE  DeliveryInv'
    BY <1>0, <1>7, <2>1, <2>4, GoingOutKeeps DEF Promise!GoOffline, Promise!DeliveryTypeOK, DeliveryInv
  <2> QED
    BY <2>2, <2>3, <2>4
<1>8. CASE Promise!Shutdown
  <2>1. generation' \in Nat
    BY <1>0, <1>8 DEF Promise!Shutdown, Promise!DeliveryTypeOK
  <2> QED
    BY <1>0, <1>8, <2>1, ShrinkingKeeps DEF Promise!Shutdown, Promise!DeliveryTypeOK, DeliveryInv
<1>9. CASE UNCHANGED Promise!deliveryVars
  BY <1>0, <1>9, ShrinkingKeeps DEF Promise!deliveryVars, Promise!DeliveryTypeOK, DeliveryInv
<1> QED
  BY <1>1, <1>2, <1>3, <1>4, <1>5, <1>6, <1>7, <1>8, <1>9 DEF Promise!DeliveryNext

\* The broker never gets a command twice; a guarded one it gets in the session
\* whose telemetry it was accepted against; and it gets them in the order the
\* command channel took them: what Delivery guarantees, of the bridge's wire.
THEOREM BridgeDelivers ==
  BridgeSpec => [](Promise!AtMostOnce /\ Promise!InItsSession /\ Promise!InOrder)
<1>1. Promise!DeliverySpec => []DeliveryInv
  BY DeliveryStartInv, DeliveryStepInv, PTL DEF Promise!DeliverySpec
<1> QED
  BY <1>1, BridgeKeepsThePromise, PTL DEF KeepsThePromise, DeliveryInv

-----------------------------------------------------------------------------
(* Hand-over *)

\* Telemetry that shows anything is ready.
ShownIsReady ==
  /\ inverter # Null => ready
  /\ \A l \in Leaves : snapshot[l] # Absent => ready

\* Whatever is stored makes the telemetry ready, and a session's end forgets it.
LEMMA ShownStep == TypeInv /\ ShownIsReady /\ [SharedNext]_sharedVars => ShownIsReady'
<1> SUFFICES ASSUME TypeInv, ShownIsReady, [SharedNext]_sharedVars PROVE ShownIsReady'
  OBVIOUS
<1> USE DEF ShownIsReady
<1>1. ready \in BOOLEAN /\ snapshot \in [Leaves -> Values \cup {Null, Absent}]
  BY DEF TypeInv, SharedTypeOK, FlagsTypeOK, CacheTypeOK
<1>2. CASE Disconnect
  BY <1>2 DEF Disconnect, EmptySnapshot
<1>3. CASE \E l \in Leaves, v \in Values \cup {Null} : Update(l, v)
  BY <1>3 DEF Update
<1>4. CASE \E d \in {Device(l) : l \in Leaves} : RemoveDevice(d)
  BY <1>4 DEF RemoveDevice
<1>5. CASE \E s \in States \cup {Null} : UpdateInverter(s)
  BY <1>1, <1>5 DEF UpdateInverter
<1>6. CASE BroadcastSnapshot
  BY <1>6 DEF BroadcastSnapshot
<1>7. CASE Connect \/ Tick \/ \E a \in Acks \cup {Null} : UpdateOverride(a)
  BY <1>7 DEF Connect, Tick, UpdateOverride
<1>8. CASE \E c \in Clients : StreamNext(c)
  <2>1. UNCHANGED telemetryVars
    BY <1>8, Zenon DEF StreamNext, Subscribe, Recv, Check, Deliver, Close
  <2> QED
    BY <2>1 DEF telemetryVars
<1>9. CASE UNCHANGED sharedVars
  BY <1>9 DEF sharedVars, telemetryVars
<1> QED
  BY <1>2, <1>3, <1>4, <1>5, <1>6, <1>7, <1>8, <1>9 DEF SharedNext

\* A current guard is one whose target shows in the snapshot.
LEMMA CurrentShows ==
  ASSUME TypeInv, ShownIsReady, NEW c \in Commands, Guarded(c), IsCurrent(c)
  PROVE  /\ connected /\ ready
         /\ Kind[c] = "water_mode" => Snapshot.leaves[PumpMode] \in ValidModes
         /\ Kind[c] # "water_mode" => Snapshot.inverter # Null
         /\ Kind[c] = "setpoint_override" => Snapshot.override # Null
<1>1. /\ Snapshot.leaves = snapshot /\ Snapshot.inverter = FreshInverter
      /\ FreshInverter # Null => Snapshot.override = override
  BY DEF Snapshot
<1>2. FreshInverter # Null => ready
  BY DEF FreshInverter, ShownIsReady
<1>3. connected /\ TargetAvailable(c)
  BY DEF IsCurrent
<1>4. Kind[c] \in Kinds \ {"silence_alarm"}
  BY BridgeAssumption DEF Guarded
<1>5. CASE Kind[c] = "water_mode"
  <2>1. snapshot[PumpMode] \in ValidModes
    BY <1>3, <1>5 DEF TargetAvailable
  <2>2. PumpMode \in Leaves /\ snapshot[PumpMode] # Absent
    BY <1>5, <2>1, BridgeAssumption, SharedAssumption
  <2> QED
    BY <1>1, <1>3, <1>5, <2>1, <2>2 DEF ShownIsReady
<1>6. CASE Kind[c] \in {"toggle", "ess_mode"}
  BY <1>1, <1>2, <1>3, <1>6 DEF TargetAvailable
<1>7. CASE Kind[c] = "set_ess_mode"
  <2>1. FreshInverter \in Selectable
    BY <1>3, <1>7 DEF TargetAvailable
  <2> QED
    BY <1>1, <1>2, <1>3, <1>7, <2>1, BridgeAssumption, SharedAssumption
<1>8. CASE Kind[c] = "electricity_tariff"
  <2>1. FreshInverter \in Writable
    BY <1>3, <1>8 DEF TargetAvailable
  <2> QED
    BY <1>1, <1>2, <1>3, <1>8, <2>1, BridgeAssumption, SharedAssumption
<1>9. CASE Kind[c] = "setpoint_override"
  <2>1. FreshInverter # Null /\ override # Null
    BY <1>3, <1>9 DEF TargetAvailable
  <2> QED
    BY <1>1, <1>2, <1>3, <1>9, <2>1
<1> QED
  BY <1>4, <1>5, <1>6, <1>7, <1>8, <1>9 DEF Kinds

\* Only send_if_current hands a guarded command to rumqttc.
LEMMA HandedOverCurrent ==
  ASSUME BridgeInv, BridgeNext, NEW c \in Commands, Guarded(c), requests' = Append(requests, Publish(c))
  PROVE  IsCurrent(c)
<1>0. requests \in Seq(RequestType) /\ sender \in SenderType /\ Publish(c) \in RequestType
  BY RequestTypes DEF BridgeInv, LoopTypes
<1>1. /\ requests' # requests /\ requests' # <<>>
      /\ requests # <<>> => requests' # Tail(requests)
      /\ \A r \in RequestType : requests' = Append(requests, r) => r = Publish(c)
  <2> DEFINE p == Publish(c)
             k == Len(requests) + 1
  <2>1. /\ requests' \in Seq(RequestType) /\ Len(requests') = k /\ k \in Nat /\ k > 0
        /\ requests'[k] = p
    BY <1>0
  <2>2. requests # <<>> => Len(Tail(requests)) = k - 2
    BY <1>0
  <2>3. \A r \in RequestType : Append(requests, r)[k] = r
    BY <1>0
  <2>4. Len(requests) = k - 1 /\ Len(<<>>) = 0
    BY <1>0
  <2> HIDE DEF k, p
  <2>5. requests' # requests /\ requests' # <<>> /\ (requests # <<>> => requests' # Tail(requests))
    BY <2>1, <2>2, <2>4
  <2>6. \A r \in RequestType : requests' = Append(requests, r) => r = p
    BY <2>1, <2>3
  <2> QED
    BY <2>5, <2>6 DEF p
<1>2. CASE TakeGuarded
  <2> DEFINE d == Head(commands)
  <2>1. d \in Commands
    BY <1>2 DEF TakeGuarded, BridgeInv, CommandTypes
  <2>2. IsCurrent(d) /\ requests' = Append(requests, Publish(d))
    BY <1>1, <1>2 DEF TakeGuarded
  <2> HIDE DEF d
  <2>3. Publish(d) = Publish(c)
    BY <1>1, <2>1, <2>2, RequestTypes
  <2>4. d = c
    BY <2>3, RequestTypes
  <2> QED
    BY <2>2, <2>4
<1>3. CASE SenderEnqueues
  <2>1. CASE sender[1] = "publish"
    <3>1. requests' = Append(requests, Publish(sender[2]))
      BY <1>3, <2>1 DEF SenderEnqueues
    <3>2. sender[2] \in Commands /\ Sending(sender[2])
      BY <1>0, <2>1, SenderCases
    <3>3. Publish(sender[2]) = Publish(c)
      BY <1>1, <3>1, <3>2, RequestTypes
    <3>4. sender[2] = c
      BY <3>3, RequestTypes
    <3> QED
      BY <3>2, <3>4 DEF BridgeInv, GuardsArePast
  <2>2. CASE sender[1] = "subscribe"
    <3>1. sender[2] \in 1 .. 3
      BY <1>0, <2>2, SenderCases
    <3>2. SubscribeTo(Filters[sender[2]]) \in RequestType
      BY <3>1, FilterTypes, RequestTypes
    <3>3. requests' = Append(requests, SubscribeTo(Filters[sender[2]]))
      BY <1>3, <2>2 DEF SenderEnqueues
    <3> QED
      BY <1>1, <3>2, <3>3, RequestTypes
  <2>3. CASE sender[1] = "keepalive"
    <3>1. requests' = Append(requests, Keepalive)
      BY <1>3, <2>3 DEF SenderEnqueues
    <3> QED
      BY <1>1, <3>1, RequestTypes
  <2> QED
    BY <1>3, <2>1, <2>2, <2>3 DEF SenderEnqueues
<1>4. CASE Write
  BY <1>1, <1>4, NextIsFirst DEF Write
<1>5. CASE WriteFails \/ Break
  BY <1>1, <1>5 DEF WriteFails, Break, HandleDisconnect
<1>6. CASE Yield
  BY <1>1, <1>6 DEF Yield, HandleDisconnect
<1>7. CASE Stop
  BY <1>1, <1>7 DEF Stop
<1>8. CASE SeeConnAck \/ KeepaliveTick \/ TakeLegacy
  BY <1>1, <1>8 DEF SeeConnAck, KeepaliveTick, TakeLegacy, loopVars
<1>9. CASE ConnAck \/ ConnectFails \/ WakeUp \/ Read \/ PubAck
  BY <1>1, <1>9 DEF ConnAck, ConnectFails, WakeUp, Read, PubAck, loopVars
<1>10. CASE BridgeTick \/ Others \/ \E d \in Commands : Accept(d) \/ Enqueue(d)
  BY <1>1, <1>10 DEF BridgeTick, Others, Accept, Enqueue, loopVars
<1> QED
  BY <1>2, <1>3, <1>4, <1>5, <1>6, <1>7, <1>8, <1>9, <1>10 DEF BridgeNext, SenderNext, LoopNext

\* A guarded command is handed to rumqttc only while its target shows in the
\* snapshot that a client would get (send_if_current and current_snapshot).
THEOREM TargetShowsAtHandOver == BridgeSpec => HandOffSeesTheTarget
<1> DEFINE Shows(c) ==
             /\ connected /\ ready
             /\ Kind[c] = "water_mode" => Snapshot.leaves[PumpMode] \in ValidModes
             /\ Kind[c] # "water_mode" => Snapshot.inverter # Null
             /\ Kind[c] = "setpoint_override" => Snapshot.override # Null
<1>1. BridgeInit => ShownIsReady
  BY DEF BridgeInit, SharedInit, ShownIsReady, EmptySnapshot
<1>2. BridgeInv /\ ShownIsReady /\ [BridgeNext]_bridgeVars => ShownIsReady'
  BY ShownStep, SharedStep DEF BridgeInv
<1>3. BridgeInv /\ ShownIsReady /\ [BridgeNext]_bridgeVars =>
        [\A c \in Commands :
           (Guarded(c) /\ commands # <<>> /\ requests' = Append(requests, Publish(c)))
             => Shows(c)]_bridgeVars
  <2> SUFFICES ASSUME BridgeInv, ShownIsReady, BridgeNext, NEW c \in Commands,
                      Guarded(c), requests' = Append(requests, Publish(c))
               PROVE  Shows(c)
    OBVIOUS
  <2>1. IsCurrent(c)
    BY HandedOverCurrent
  <2> QED
    BY <2>1, CurrentShows DEF BridgeInv
<1> QED
  BY <1>1, <1>2, <1>3, BridgeInvariant, PTL DEF BridgeSpec, HandOffSeesTheTarget
=============================================================================
