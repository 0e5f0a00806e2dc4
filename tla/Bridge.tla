------------------------------- MODULE Bridge -------------------------------
(***************************************************************************)
(* The MQTT bridge (src/src/mqtt_bridge.rs) over the telemetry of Shared:  *)
(* the command path from an HTTP handler to the broker and the event path  *)
(* from the broker to Shared, through rumqttc's event loop.                *)
(*                                                                         *)
(* run_loop polls two futures in ONE task: poll_events, the only consumer  *)
(* of rumqttc's bounded request channel, and send_requests, its producer.  *)
(* They interleave at awaits only, so what poll_events does between two    *)
(* awaits is one action.  HTTP handlers run on other threads and meet them *)
(* under Shared's lock and in the command channel.                         *)
(***************************************************************************)
EXTENDS Shared

CONSTANTS
  Commands,      \* POST /v1/commands requests, each made at most once
  Kind,          \* what each of them asks for: Commands -> Kinds
  Selectable,    \* controller states with ess_mode.selection_supported
  Writable,      \* controller states with a writable electricity tariff
  PumpMode, PumpConnected,  \* the two leaves of the water pump
  ValidModes, One,          \* values: a mode of at most 2; connected = 1
  Garbage,       \* a payload that does not parse
  CommandTTL,    \* 5 s: age above which a queued guarded command is discarded
  QueueCap,      \* 256: capacity of rumqttc's request channel
  MaxInflight,   \* 100: unacknowledged QoS 1 publishes
  MaxBatch       \* 9: packets one readb may take

Kinds == {"toggle", "ess_mode", "set_ess_mode", "electricity_tariff",
          "setpoint_override", "water_mode", "silence_alarm"}

ASSUME BridgeAssumption ==
  /\ Kind \in [Commands -> Kinds]
  /\ Selectable \subseteq States /\ Writable \subseteq States
  /\ \A c \in Commands : Kind[c] = "water_mode" => {PumpMode, PumpConnected} \subseteq Leaves
  /\ ValidModes \subseteq Values /\ One \in Values
  /\ Garbage \notin States /\ Garbage \notin Acks /\ Garbage # Null
  /\ CommandTTL \in Nat
  /\ QueueCap \in Nat \ {0} /\ MaxInflight \in Nat \ {0} /\ MaxBatch \in Nat \ {0}

VARIABLES
  \* rumqttc's EventLoop
  network,     \* a network connection exists
  events,      \* state.events: packets read and not yet yielded
  requests,    \* the bounded request channel
  pending,     \* the set of requests kept for replay in a resumed session
  inflight,    \* state.outgoing_pub: QoS 1 publishes without a PUBACK
  \* the two futures of run_loop
  running,     \* run_loop has not returned
  asleep,      \* poll_events is in its five-second pause
  wake,        \* the watch channel has an unseen ConnAck
  sender,      \* what send_requests is doing
  \* the command path
  commands,    \* the unbounded command channel
  phase,       \* of each request: new, accepted, sent, failed
  guardGen, guardAge,  \* its CommandGuard: generation, and age of queued
  \* the broker
  subscribed,  \* filters it knows in this session
  wire,        \* history: the commands it got and in which session
  arrivals     \* history: the commands in the order the channel took them

loopVars == <<network, events, requests, pending, inflight>>
taskVars == <<running, asleep, wake, sender>>
commandVars == <<commands, phase, guardGen, guardAge>>
brokerVars == <<subscribed, wire, arrivals>>
bridgeVars == <<sharedVars, loopVars, taskVars, commandVars, brokerVars>>

-----------------------------------------------------------------------------
(* Commands and their guards *)

Guarded(c) == Kind[c] # "silence_alarm"

\* Tariff edits, overrides, ESS and water commands must not be redelivered.
AtMostOnceQoS(c) == Kind[c] \notin {"toggle", "silence_alarm"}

\* command_target_available
TargetAvailable(c) ==
  CASE Kind[c] \in {"toggle", "ess_mode"} -> FreshInverter # Null
    [] Kind[c] = "set_ess_mode" -> FreshInverter \in Selectable
    [] Kind[c] = "electricity_tariff" -> FreshInverter \in Writable
    [] Kind[c] = "setpoint_override" -> FreshInverter # Null /\ override # Null
    [] Kind[c] = "water_mode" -> /\ snapshot[PumpMode] \in ValidModes
                                 /\ snapshot[PumpConnected] \in {Absent, One}

\* Mutant: the guard forgets the generation.
IsCurrentInAnySession(c) ==
  connected /\ guardAge[c] <= CommandTTL /\ TargetAvailable(c)

\* Mutant: the target is not looked at again.
IsCurrentWithoutTarget(c) ==
  connected /\ guardGen[c] = generation /\ guardAge[c] <= CommandTTL

\* The condition under which send_if_current calls send.
IsCurrent(c) ==
  /\ connected
  /\ guardGen[c] = generation
  /\ guardAge[c] <= CommandTTL
  /\ TargetAvailable(c)

\* Requests of rumqttc's channel.
Publish(c) == [type |-> "publish", arg |-> c]
SubscribeTo(f) == [type |-> "subscribe", arg |-> f]
Keepalive == [type |-> "keepalive", arg |-> Null]

\* subscribe_portal's filters, the thirteen of the portal taken as one.
Filters == <<"portal", "state", "setpoint_override">>

HasRoom == Len(requests) < QueueCap

-----------------------------------------------------------------------------
BridgeInit ==
  /\ SharedInit
  /\ network = FALSE /\ events = <<>> /\ requests = <<>> /\ pending = {} /\ inflight = <<>>
  /\ running = TRUE /\ asleep = FALSE /\ wake = FALSE /\ sender = <<"idle">>
  /\ commands = <<>>
  /\ phase = [c \in Commands |-> "new"]
  /\ guardGen = [c \in Commands |-> 0]
  /\ guardAge = [c \in Commands |-> 0]
  /\ subscribed = {}
  /\ wire = <<>> /\ arrivals = <<>>

(* The HTTP handler: execute builds the request under the telemetry lock and *)
(* sends it on the command channel after it released that lock.              *)

\* guarded_command captures the generation and the instant; a command whose
\* target is unavailable is refused (503).
Accept(c) ==
  /\ phase[c] = "new"
  /\ Guarded(c) => connected /\ TargetAvailable(c)
  /\ phase' = [phase EXCEPT ![c] = "accepted"]
  /\ guardGen' = [guardGen EXCEPT ![c] = generation]
  /\ UNCHANGED <<sharedVars, loopVars, taskVars, commands, guardAge, brokerVars>>

\* tx.send fails only after run_loop dropped the receiver.
Enqueue(c) ==
  /\ phase[c] = "accepted"
  /\ \/ /\ running
        /\ phase' = [phase EXCEPT ![c] = "sent"]
        /\ commands' = Append(commands, c)
        /\ arrivals' = Append(arrivals, c)
     \/ /\ ~running
        /\ phase' = [phase EXCEPT ![c] = "failed"]
        /\ UNCHANGED <<commands, arrivals>>
  /\ UNCHANGED <<sharedVars, loopVars, taskVars, guardGen, guardAge, subscribed, wire>>

(* send_requests *)

\* connected.changed(): start subscribe_portal.
SeeConnAck ==
  /\ running /\ sender = <<"idle">> /\ wake
  /\ wake' = FALSE
  /\ sender' = <<"subscribe", 1>>
  /\ UNCHANGED <<sharedVars, loopVars, running, asleep, commandVars, brokerVars>>

\* keepalive.tick()
KeepaliveTick ==
  /\ running /\ sender = <<"idle">>
  /\ sender' = <<"keepalive">>
  /\ UNCHANGED <<sharedVars, loopVars, running, asleep, wake, commandVars, brokerVars>>

\* Mutant: the channel takes more than its capacity.
TakeGuardedUnbounded ==
  /\ running /\ sender = <<"idle">> /\ commands # <<>> /\ Guarded(Head(commands))
  /\ commands' = Tail(commands)
  /\ requests' = IF IsCurrent(Head(commands)) THEN Append(requests, Publish(Head(commands)))
                                              ELSE requests
  /\ UNCHANGED <<sharedVars, network, events, pending, inflight, taskVars,
                 phase, guardGen, guardAge, brokerVars>>

\* A guarded command: send_if_current holds the telemetry lock around
\* try_publish; a stale command, or a full channel, drops it.
TakeGuarded ==
  /\ running /\ sender = <<"idle">> /\ commands # <<>> /\ Guarded(Head(commands))
  /\ commands' = Tail(commands)
  /\ LET c == Head(commands) IN
       \/ IsCurrent(c) /\ HasRoom /\ requests' = Append(requests, Publish(c))
       \/ ~(IsCurrent(c) /\ HasRoom) /\ UNCHANGED requests
  /\ UNCHANGED <<sharedVars, network, events, pending, inflight, taskVars,
                 phase, guardGen, guardAge, brokerVars>>

\* A legacy command: publish().await waits for room.
TakeLegacy ==
  /\ running /\ sender = <<"idle">> /\ commands # <<>> /\ ~Guarded(Head(commands))
  /\ commands' = Tail(commands)
  /\ sender' = <<"publish", Head(commands)>>
  /\ UNCHANGED <<sharedVars, loopVars, running, asleep, wake, phase, guardGen, guardAge,
                 brokerVars>>

\* The awaited enqueue of send_requests completes when the channel has room.
SenderEnqueues ==
  /\ running /\ HasRoom
  /\ \/ /\ sender[1] = "subscribe"
        /\ requests' = Append(requests, SubscribeTo(Filters[sender[2]]))
        /\ sender' = IF sender[2] < Len(Filters) THEN <<"subscribe", sender[2] + 1>>
                                                 ELSE <<"keepalive">>
     \/ /\ sender[1] = "keepalive"
        /\ requests' = Append(requests, Keepalive)
        /\ sender' = <<"idle">>
     \/ /\ sender[1] = "publish"
        /\ requests' = Append(requests, Publish(sender[2]))
        /\ sender' = <<"idle">>
  /\ UNCHANGED <<sharedVars, network, events, pending, inflight, running, asleep, wake,
                 commandVars, brokerVars>>

(* poll_events *)

\* Mutant: the wake-up is lost unless the sender is waiting for it.
ConnAckWakesWaiters ==
  /\ running /\ ~network /\ ~asleep
  /\ Connect
  /\ network' = TRUE
  /\ pending' = {}
  /\ wake' = (sender = <<"idle">>)
  /\ UNCHANGED <<events, requests, inflight, running, asleep, sender, commandVars, brokerVars>>

\* EventLoop::poll connects: a clean session clears pending, and poll_events
\* handles the ConnAck before it awaits again.
ConnAck ==
  /\ running /\ ~network /\ ~asleep
  /\ Connect
  /\ network' = TRUE
  /\ pending' = {}
  /\ wake' = TRUE
  /\ UNCHANGED <<events, requests, inflight, running, asleep, sender, commandVars, brokerVars>>

\* EventLoop::poll fails to connect.  handle_disconnect finds the gateway
\* disconnected already and leaves the channel alone.
ConnectFails ==
  /\ running /\ ~network /\ ~asleep
  /\ asleep' = TRUE
  /\ UNCHANGED <<sharedVars, loopVars, running, wake, sender, commandVars, brokerVars>>

WakeUp ==
  /\ running /\ asleep
  /\ asleep' = FALSE
  /\ UNCHANGED <<sharedVars, loopVars, running, wake, sender, commandVars, brokerVars>>

Elements(q) == {q[i] : i \in DOMAIN q}

\* Mutant: everything is kept for replay.
ReplaysAll(request) == TRUE

\* discard_controller_replay keeps everything but controller and water publishes.
Replayable(request) == ~(request.type = "publish" /\ Guarded(request.arg))

\* Mutant: the queues are cleaned and the telemetry is not told.
HandleDisconnectCleans(unacked, waiting) ==
  LET all == pending \cup {Publish(c) : c \in Elements(unacked)} \cup Elements(waiting)
  IN /\ network' = FALSE
     /\ pending' = {r \in all : Replayable(r)}
     /\ requests' = <<>> /\ inflight' = <<>> /\ subscribed' = {}
     /\ UNCHANGED <<sharedVars, commandVars>>

\* handle_disconnect after EventLoop::clean: rumqttc's unacknowledged publishes
\* (unacked) and its channel (waiting) become pending, except the controller's.
\* A set will do: every session of this client is clean, so nothing sees the
\* order of pending.
HandleDisconnect(unacked, waiting) ==
  LET all == pending \cup {Publish(c) : c \in Elements(unacked)} \cup Elements(waiting)
  IN /\ Disconnect
     /\ network' = FALSE
     /\ pending' = {r \in all : Replayable(r)}
     /\ requests' = <<>> /\ inflight' = <<>> /\ subscribed' = {}
     /\ UNCHANGED commandVars

\* Packets of the broker, stamped with the session they were read in.
Payloads == [portal |-> (Leaves \X (Values \cup {Null})) \cup {<<Device(l)>> : l \in Leaves} \cup {<<>>},
             state |-> States \cup {Null, Garbage},
             setpoint_override |-> Acks \cup {Null, Garbage}]
Packets ==
  UNION {[type : {f}, arg : Payloads[f], session : {generation}] : f \in subscribed}
BrokerDisconnect == [type |-> "disconnect", arg |-> Null, session |-> generation]

Batches(n) == UNION {[1 .. k -> Packets] : k \in 0 .. n}

\* Mutant: the event loop waits for the sender that waits for it.
PollingAfterSender == running /\ network /\ events = <<>> /\ sender = <<"idle">>

\* Mutant: the event loop reads and writes while it has packets to yield.
PollingEarly == running /\ network /\ Len(events) < MaxBatch

\* The event loop may do network work only when it has yielded all it read.
Polling == running /\ network /\ events = <<>>

\* readb takes a batch of packets.
Read ==
  /\ Polling
  /\ \E b \in Batches(MaxBatch) \ {<<>>} : events' = events \o b
  /\ UNCHANGED <<sharedVars, network, requests, pending, inflight, taskVars, commandVars,
                 brokerVars>>

\* The connection breaks: readb meets the end of the stream, a decoding error
\* or a DISCONNECT packet behind the packets it already pushed to events, or a
\* ping or flush fails.  poll cleans up, yet does not clear events.
Break ==
  /\ Polling
  /\ \/ \E b \in Batches(MaxBatch) : events' = events \o b
     \/ \E b \in Batches(MaxBatch - 1) : events' = events \o Append(b, BrokerDisconnect)
  /\ asleep' = TRUE
  /\ HandleDisconnect(inflight, requests)
  /\ UNCHANGED <<running, wake, sender, wire, arrivals>>

\* poll yields a packet and poll_events dispatches on its topic: an unparsable
\* controller state is ignored, an unparsable acknowledgement counts as null.
Yield ==
  /\ running /\ network /\ events # <<>>
  /\ events' = Tail(events)
  /\ LET packet == Head(events) IN
       \/ /\ \/ /\ packet.type = "portal" /\ Len(packet.arg) = 2
                /\ Update(packet.arg[1], packet.arg[2])
             \/ /\ packet.type = "portal" /\ Len(packet.arg) = 1
                /\ RemoveDevice(packet.arg[1])
             \/ /\ packet.type = "state" /\ packet.arg # Garbage
                /\ UpdateInverter(packet.arg)
             \/ /\ packet.type = "setpoint_override"
                /\ UpdateOverride(IF packet.arg = Garbage THEN Null ELSE packet.arg)
             \/ /\ packet.arg = IF packet.type = "portal" THEN <<>> ELSE Garbage
                /\ packet.type \in {"portal", "state"}
                /\ UNCHANGED sharedVars
          /\ UNCHANGED <<network, requests, pending, inflight, commandVars, brokerVars>>
       \/ /\ packet.type = "disconnect"
          /\ HandleDisconnect(inflight, requests)
          /\ UNCHANGED <<wire, arrivals>>
  /\ UNCHANGED taskVars

\* next_request: what the event loop may write next.
NextRequests ==
  IF pending # {} THEN pending
  ELSE IF requests # <<>> /\ Len(inflight) < MaxInflight THEN {Head(requests)} ELSE {}
WaitingAfterWrite == IF pending # {} THEN requests ELSE Tail(requests)
UnackedAfterWrite(r) == IF r.type = "publish" /\ ~AtMostOnceQoS(r.arg)
                          THEN Append(inflight, r.arg) ELSE inflight
WireAfterWrite(r) == IF r.type = "publish"
                       THEN Append(wire, [cmd |-> r.arg, session |-> generation]) ELSE wire

\* A request reaches the broker.
Write ==
  /\ Polling
  /\ \E r \in NextRequests :
       /\ inflight' = UnackedAfterWrite(r)
       /\ subscribed' = IF r.type = "subscribe" THEN subscribed \cup {r.arg} ELSE subscribed
       /\ wire' = WireAfterWrite(r)
       /\ pending' = pending \ {r}
  /\ requests' = WaitingAfterWrite
  /\ UNCHANGED <<sharedVars, network, events, taskVars, commandVars, arrivals>>

\* Writing or flushing fails after the request left the channel; the broker
\* may have got it nevertheless.
WriteFails ==
  /\ Polling
  /\ \E r \in NextRequests :
       /\ HandleDisconnect(UnackedAfterWrite(r), WaitingAfterWrite)
       /\ wire' \in {wire, WireAfterWrite(r)}
  /\ asleep' = TRUE
  /\ UNCHANGED <<events, running, wake, sender, arrivals>>

\* The broker acknowledges QoS 1 publishes in the order it received them.
PubAck ==
  /\ Polling /\ inflight # <<>>
  /\ inflight' = Tail(inflight)
  /\ UNCHANGED <<sharedVars, network, events, requests, pending, taskVars, commandVars,
                 brokerVars>>

(* The rest of the process *)

\* MqttBridge::shutdown: run_loop's select drops both futures and their
\* channels, then calls set_connected(false).
Stop ==
  /\ running
  /\ running' = FALSE
  /\ \/ connected /\ Disconnect
     \/ ~connected /\ UNCHANGED sharedVars
  /\ network' = FALSE /\ events' = <<>> /\ requests' = <<>> /\ pending' = {}
  /\ inflight' = <<>> /\ commands' = <<>> /\ subscribed' = {}
  /\ asleep' = FALSE /\ wake' = FALSE /\ sender' = <<"idle">>
  /\ UNCHANGED <<phase, guardGen, guardAge, wire, arrivals>>

\* The age of a guard is asked for only until the bridge takes the command.
AgeMatters(c) == phase[c] = "accepted" \/ c \in Elements(commands)

BridgeTick ==
  /\ Tick
  /\ guardAge' = [c \in Commands |-> IF AgeMatters(c) THEN Older(guardAge[c], CommandTTL)
                                                      ELSE 0]
  /\ UNCHANGED <<loopVars, taskVars, commands, phase, guardGen, brokerVars>>

\* The coalescing task and the event streams of Shared go on by themselves.
Others ==
  /\ BroadcastSnapshot \/ \E c \in Clients : StreamNext(c)
  /\ UNCHANGED <<loopVars, taskVars, commandVars, brokerVars>>

SenderNext == SeeConnAck \/ KeepaliveTick \/ TakeGuarded \/ TakeLegacy \/ SenderEnqueues
LoopNext == \/ ConnAck \/ ConnectFails \/ WakeUp \/ Read \/ Break
            \/ Yield \/ Write \/ WriteFails \/ PubAck

BridgeNext ==
  \/ \E c \in Commands : Accept(c) \/ Enqueue(c)
  \/ SenderNext
  \/ LoopNext
  \/ Stop
  \/ BridgeTick
  \/ Others

BridgeSpec == BridgeInit /\ [][BridgeNext]_bridgeVars

\* run_loop keeps polling both futures; tokio's select picks among the ready
\* branches at random, so a branch that is ready again and again is taken.  A
\* broker that stays connected acknowledges what it gets.  Nothing makes a
\* connection attempt succeed, or a connection last.
BridgeFairness ==
  /\ SF_bridgeVars(SeeConnAck) /\ SF_bridgeVars(TakeGuarded) /\ SF_bridgeVars(TakeLegacy)
  /\ WF_bridgeVars(SenderEnqueues)
  /\ WF_bridgeVars(Yield) /\ SF_bridgeVars(Write) /\ SF_bridgeVars(PubAck)

FairBridgeSpec == BridgeSpec /\ BridgeFairness

-----------------------------------------------------------------------------
(* Bridge implements Delivery *)

OnWire == {wire[i].cmd : i \in DOMAIN wire}

\* Everything between the HTTP handler and the broker.
OnTheWay ==
  {c \in Commands : \/ Publish(c) \in pending \cup Elements(requests)
                    \/ sender = <<"publish", c>>
                    \/ c \in Elements(commands)} \ OnWire

Promise == INSTANCE Delivery WITH
  Requests <- Commands, Perishable <- {c \in Commands : Guarded(c)},
  online <- connected, session <- generation, stopped <- ~running,
  status <- phase, issued <- guardGen, line <- arrivals, waiting <- OnTheWay,
  delivered <- wire

\* The bridge keeps the promise of Delivery: commands reach the broker in the
\* order they were accepted and at most once, guarded ones only in the session
\* they were accepted in, and a legacy command is lost only where a session
\* that followed its acceptance has ended, or at shutdown (send_requests,
\* send_if_current, handle_disconnect and rumqttc's queues together).
KeepsThePromise == Promise!DeliverySpec

-----------------------------------------------------------------------------
(* What the bridge must keep true *)

RequestType == {Publish(c) : c \in Commands} \cup {SubscribeTo(f) : f \in {"portal", "state", "setpoint_override"}}
                 \cup {Keepalive}

\* The type invariant.
BridgeTypeOK ==
  /\ SharedTypeOK
  /\ network \in BOOLEAN /\ running \in BOOLEAN /\ asleep \in BOOLEAN /\ wake \in BOOLEAN
  /\ requests \in Seq(RequestType) /\ Len(requests) <= QueueCap
  /\ pending \subseteq RequestType
  /\ inflight \in Seq(Commands) /\ Len(inflight) <= MaxInflight
  /\ commands \in Seq(Commands)
  /\ phase \in [Commands -> {"new", "accepted", "sent", "failed"}]
  /\ guardGen \in [Commands -> 0 .. MaxGeneration]
  /\ guardAge \in [Commands -> Ages(CommandTTL)]
  /\ subscribed \subseteq {Filters[i] : i \in DOMAIN Filters}
  /\ wire \in Seq([cmd : Commands, session : 0 .. MaxGeneration])

\* No controller command waits out an outage inside rumqttc: what its queues
\* hold of them belongs to the session that is up, and nothing at all is left
\* to be replayed in it (send_if_current, discard_controller_replay and the
\* clean session together).
NoStaleController ==
  /\ connected => pending = {}
  /\ \A r \in pending : r.type = "publish" => ~Guarded(r.arg)
  /\ \A i \in DOMAIN requests :
       (requests[i].type = "publish" /\ Guarded(requests[i].arg))
         => connected /\ guardGen[requests[i].arg] = generation
  /\ inflight # <<>> => connected

\* The telemetry is open for updates exactly while rumqttc has a connection:
\* every way the connection ends passes through set_connected(false).
ConnectedMirrorsNetwork == connected = network

\* Packets are applied in the order they were read, across reconnections too:
\* what rumqttc buffers was all read from one connection, so that leftovers of
\* an old connection never overwrite what a new one brought (select yields
\* state.events before it reads again).
BufferIsOfOneSession ==
  \A i, j \in DOMAIN events : events[i].session = events[j].session

\* So what is read, buffered and applied never mixes two connections.
SessionsDoNotMix == ConnectedMirrorsNetwork /\ BufferIsOfOneSession

\* A guarded command is handed to rumqttc only while its target shows in the
\* snapshot that GET /v1/snapshot returns at that moment: send_if_current and
\* current_snapshot decide alike what is expired, withdrawn or never arrived
\* ("Invalid status must not leave a previous confirmed value visible or keep
\* an already queued command valid").
HandOffSeesTheTarget ==
  [][\A c \in Commands :
       (Guarded(c) /\ commands # <<>> /\ requests' = Append(requests, Publish(c)))
         => /\ connected /\ ready
            /\ Kind[c] = "water_mode" => Snapshot.leaves[PumpMode] \in ValidModes
            /\ Kind[c] # "water_mode" => Snapshot.inverter # Null
            /\ Kind[c] = "setpoint_override" => Snapshot.override # Null]_bridgeVars

\* Every ConnAck is followed by a complete subscription, unless the session
\* ends first: no wake-up is lost to a sender that was busy, blocked on a full
\* channel, or in the middle of subscribing for an earlier session.
SubscribesEverySession ==
  connected ~> (~connected \/ subscribed = {Filters[i] : i \in DOMAIN Filters})

\* While the broker is up the command channel drains: run_loop's two futures
\* never wait for each other ("Polling must continue while a producer waits
\* for room in rumqttc's bounded request queue").
CommandsDrain ==
  \A c \in Commands :
    (connected /\ c \in Elements(commands)) ~> (~connected \/ c \notin Elements(commands))

\* "Apply only whitelisted leaves received during the current connection": a
\* packet that changes the telemetry was read from the connection that is up
\* (Shared::update, and the docs of the energy API on reconnection).
AppliesOnlyCurrentSession ==
  [][(/\ connected /\ connected' /\ events # <<>> /\ events' = Tail(events)
      /\ <<snapshot, inverter, override>>' # <<snapshot, inverter, override>>)
       => Head(events).session = generation]_bridgeVars
=============================================================================
