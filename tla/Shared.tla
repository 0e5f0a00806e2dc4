------------------------------- MODULE Shared -------------------------------
(***************************************************************************)
(* The gateway's in-memory telemetry (src/src/state.rs, Shared) and the    *)
(* server-sent-event streams fed from it (src/src/http.rs, events).        *)
(*                                                                         *)
(* Every operation of Shared runs under one RwLock and is therefore one    *)
(* atomic action.  An SSE stream is not: the broadcast receiver yields an  *)
(* item (Recv), then the stream's predicate takes and releases the lock    *)
(* (Check), and the item is rendered and handed to the connection after    *)
(* that (Deliver), so any other operation may come between them.           *)
(*                                                                         *)
(* Instants are modelled by ages that saturate one above the threshold the *)
(* code compares them with, which is exact because nothing else is ever    *)
(* asked of them; the clock itself is then unbounded.                      *)
(***************************************************************************)
EXTENDS Naturals, Sequences

CONSTANTS
  Leaves,        \* the leaves path_keep accepts, each a pair <<device, path>>
  EnergyLeaves,  \* those is_energy_path accepts as well
  Values,        \* JSON values of a leaf other than null
  States,        \* JSON objects published as inverter/state
  Acks,          \* well-formed objects published as setpoint_override
  Null,          \* JSON null, and the None of an Option
  Absent,        \* a key that a map does not hold
  Clients,       \* HTTP clients of GET /v1/events
  InverterTTL,   \* 120 s: age above which the controller state is expired
  MaxAge,        \* cfg.energy.max_age
  Capacity,      \* 64: slots of the broadcast channel
  MaxGeneration  \* bound of the model on the number of sessions

ASSUME SharedAssumption ==
  /\ EnergyLeaves \subseteq Leaves
  /\ Null \notin Values /\ Null \notin States /\ Null \notin Acks
  /\ Absent # Null /\ Absent \notin Values /\ Absent \notin Values \X Nat
  /\ InverterTTL \in Nat /\ MaxAge \in Nat /\ MaxGeneration \in Nat
  /\ Capacity \in Nat \ {0}

VARIABLES
  \* Telemetry
  connected, ready, generation, dirty,
  snapshot,      \* the buckets of Snapshot: leaf -> value, Null or Absent
  readings,      \* energy_readings: leaf -> <<value, age>> or Absent
  inverter,      \* Snapshot.inverter
  inverterAge,   \* age of inverter_received_at, or Null
  override,      \* setpoint_override
  \* the streams, one per client, and their broadcast receivers
  stream,        \* "none", "open", or "ended" (ended, receiver not yet dropped)
  streamGen,     \* the generation the stream was subscribed in
  queue,         \* channel slots the receiver has not taken yet
  lagged,        \* the channel overwrote a slot the receiver had not taken
  held,          \* the item taken and not yet delivered: a sequence of at most one
  judged,        \* that item has passed the predicate of take_while
  seen,          \* history: the snapshot at subscription, then what was delivered
  late           \* history: how often something was delivered after the session

telemetryVars == <<connected, ready, generation, dirty, snapshot, readings,
                   inverter, inverterAge, override>>
channelVars == <<queue, lagged>>
streamVars == <<stream, streamGen, held, judged, seen, late>>
sharedVars == <<telemetryVars, channelVars, streamVars>>

-----------------------------------------------------------------------------
(* Helpers *)

Device(l) == l[1]

EmptySnapshot == [l \in Leaves |-> Absent]
EmptyReadings == [l \in EnergyLeaves |-> Absent]

\* The age of an Instant after one more unit of time; limit is the threshold.
Older(age, limit) == IF age > limit THEN age ELSE age + 1

Fresh == inverterAge # Null /\ inverterAge <= InverterTTL

\* fresh_inverter: the controller state that guards and snapshots may use.
FreshInverter == IF Fresh THEN inverter ELSE Null

\* current_snapshot: the controller's object carries the dedicated
\* acknowledgement instead of whatever it had embedded.
Snapshot ==
  [leaves   |-> snapshot,
   inverter |-> FreshInverter,
   override |-> IF FreshInverter = Null THEN Null ELSE override]

\* receiver_count: an ended stream counts until its receiver is dropped.
Receivers == {c \in Clients : stream[c] # "none"}
HasReceivers == Receivers # {}

Event(g, snap) == [ok |-> TRUE, gen |-> g, snap |-> snap]
LagError == [ok |-> FALSE, gen |-> 0, snap |-> Null]

\* broadcast::Sender::send, as tokio does it: a full receiver loses its oldest
\* slot and is told so by its next recv.  What an ended stream's receiver is
\* sent is never read and not kept here.
Send(event) ==
  /\ queue' = [c \in Clients |->
                 IF stream[c] # "open" THEN queue[c]
                 ELSE IF Len(queue[c]) < Capacity THEN Append(queue[c], event)
                 ELSE Append(Tail(queue[c]), event)]
  /\ lagged' = [c \in Clients |->
                 lagged[c] \/ (stream[c] = "open" /\ Len(queue[c]) >= Capacity)]

-----------------------------------------------------------------------------
SharedInit ==
  /\ connected = FALSE /\ ready = FALSE /\ generation = 0 /\ dirty = FALSE
  /\ snapshot = EmptySnapshot
  /\ readings = EmptyReadings
  /\ inverter = Null /\ inverterAge = Null /\ override = Null
  /\ stream = [c \in Clients |-> "none"]
  /\ streamGen = [c \in Clients |-> 0]
  /\ queue = [c \in Clients |-> <<>>]
  /\ lagged = [c \in Clients |-> FALSE]
  /\ held = [c \in Clients |-> <<>>]
  /\ judged = [c \in Clients |-> FALSE]
  /\ seen = [c \in Clients |-> Null]
  /\ late = [c \in Clients |-> 0]

(* Operations of the MQTT bridge *)

\* set_connected(true).  MaxGeneration bounds the sessions of the model.
Connect ==
  /\ ~connected
  /\ generation < MaxGeneration
  /\ connected' = TRUE
  /\ UNCHANGED <<ready, generation, dirty, snapshot, readings, inverter,
                 inverterAge, override, channelVars, streamVars>>

\* Mutant: the streams are not told that their session is over.
DisconnectQuietly ==
  /\ connected
  /\ connected' = FALSE
  /\ generation' = generation + 1
  /\ snapshot' = EmptySnapshot /\ readings' = EmptyReadings
  /\ inverter' = Null /\ inverterAge' = Null /\ override' = Null
  /\ ready' = FALSE /\ dirty' = FALSE
  /\ UNCHANGED <<channelVars, streamVars>>

\* Mutant: the energy readings outlive the session.
DisconnectKeepsReadings ==
  /\ connected
  /\ connected' = FALSE
  /\ generation' = generation + 1
  /\ snapshot' = EmptySnapshot
  /\ inverter' = Null /\ inverterAge' = Null /\ override' = Null
  /\ ready' = FALSE /\ dirty' = FALSE
  /\ Send(Event(generation', Null))
  /\ UNCHANGED <<readings, streamVars>>

\* set_connected(false): forget the session and tell every stream, under one
\* write lock.
Disconnect ==
  /\ connected
  /\ connected' = FALSE
  /\ generation' = generation + 1
  /\ snapshot' = EmptySnapshot
  /\ readings' = EmptyReadings
  /\ inverter' = Null /\ inverterAge' = Null /\ override' = Null
  /\ ready' = FALSE /\ dirty' = FALSE
  /\ Send(Event(generation', Null))
  /\ UNCHANGED streamVars

\* Mutant: the update of a leaf does not mark the snapshot dirty.
UpdateSilently(l, v) ==
  /\ connected
  /\ snapshot' = [snapshot EXCEPT ![l] = v]
  /\ ready' = TRUE
  /\ UNCHANGED <<connected, generation, readings, dirty, inverter, inverterAge, override,
                 channelVars, streamVars>>

\* update, for a leaf: a null leaf stays in its bucket but leaves no reading.
Update(l, v) ==
  /\ connected
  /\ snapshot' = [snapshot EXCEPT ![l] = v]
  /\ readings' = IF l \notin EnergyLeaves THEN readings
                 ELSE [readings EXCEPT ![l] = IF v = Null THEN Absent ELSE <<v, 0>>]
  /\ ready' = TRUE
  /\ dirty' = HasReceivers
  /\ UNCHANGED <<connected, generation, inverter, inverterAge, override,
                 channelVars, streamVars>>

\* Mutant: a removed device keeps its readings.
RemoveDeviceFromSnapshot(d) ==
  /\ connected
  /\ snapshot' = [l \in Leaves |-> IF Device(l) = d THEN Absent ELSE snapshot[l]]
  /\ dirty' = HasReceivers
  /\ UNCHANGED <<connected, ready, generation, readings, inverter, inverterAge, override,
                 channelVars, streamVars>>

\* update, for the empty or null root of a device: it invalidates every leaf.
RemoveDevice(d) ==
  /\ connected
  /\ snapshot' = [l \in Leaves |-> IF Device(l) = d THEN Absent ELSE snapshot[l]]
  /\ readings' = [l \in EnergyLeaves |-> IF Device(l) = d THEN Absent ELSE readings[l]]
  /\ dirty' = HasReceivers
  /\ UNCHANGED <<connected, ready, generation, inverter, inverterAge, override,
                 channelVars, streamVars>>

\* update_inverter: a removal also forgets the acknowledged override.
UpdateInverter(s) ==
  /\ connected
  /\ inverter' = s
  /\ inverterAge' = IF s = Null THEN Null ELSE 0
  /\ override' = IF s = Null THEN Null ELSE override
  /\ ready' = (ready \/ s # Null)
  /\ dirty' = HasReceivers
  /\ UNCHANGED <<connected, generation, snapshot, readings, channelVars, streamVars>>

\* update_setpoint_override: does not renew the controller's liveness.
UpdateOverride(a) ==
  /\ connected
  /\ override' = a
  /\ dirty' = HasReceivers
  /\ UNCHANGED <<connected, ready, generation, snapshot, readings, inverter,
                 inverterAge, channelVars, streamVars>>

(* The coalescing task and time *)

\* Mutant: the controller state is swept, and nobody is told.
BroadcastSweepsSilently ==
  LET expired == inverter # Null /\ ~Fresh
      send    == connected /\ dirty
  IN /\ inverter' = IF expired THEN Null ELSE inverter
     /\ inverterAge' = IF expired THEN Null ELSE inverterAge
     /\ dirty' = (dirty /\ ~send)
     /\ IF send /\ HasReceivers THEN Send(Event(generation, Snapshot))
                                ELSE UNCHANGED channelVars
     /\ UNCHANGED <<connected, ready, generation, snapshot, readings, override, streamVars>>

\* Mutant: only an update makes a broadcast; expiry is never looked for.
BroadcastWithoutSweep ==
  LET send == connected /\ dirty
  IN /\ dirty' = (dirty /\ ~send)
     /\ IF send /\ HasReceivers THEN Send(Event(generation, Snapshot))
                                ELSE UNCHANGED channelVars
     /\ UNCHANGED <<connected, ready, generation, snapshot, readings, inverter, inverterAge,
                    override, streamVars>>

\* broadcast_snapshot, run by start_sse_coalesce once a second: expiry first,
\* then at most one snapshot.
BroadcastSnapshot ==
  LET expired == inverter # Null /\ ~Fresh
      changed == IF expired THEN HasReceivers ELSE dirty
      send    == connected /\ changed
  IN /\ inverter' = IF expired THEN Null ELSE inverter
     /\ inverterAge' = IF expired THEN Null ELSE inverterAge
     /\ dirty' = (changed /\ ~send)
     /\ IF send /\ HasReceivers THEN Send(Event(generation, Snapshot))
                                ELSE UNCHANGED channelVars
     /\ UNCHANGED <<connected, ready, generation, snapshot, readings, override, streamVars>>

\* One unit of time passes.
Tick ==
  /\ inverterAge' = IF inverterAge = Null THEN Null ELSE Older(inverterAge, InverterTTL)
  /\ readings' = [l \in EnergyLeaves |->
                    IF readings[l] = Absent THEN Absent
                    ELSE <<readings[l][1], Older(readings[l][2], MaxAge)>>]
  /\ UNCHANGED <<connected, ready, generation, dirty, snapshot, inverter, override,
                 channelVars, streamVars>>

(* GET /v1/events *)

\* subscribe: refused (503) without current-session telemetry.
Subscribe(c) ==
  /\ stream[c] = "none"
  /\ connected /\ ready
  /\ stream' = [stream EXCEPT ![c] = "open"]
  /\ streamGen' = [streamGen EXCEPT ![c] = generation]
  /\ queue' = [queue EXCEPT ![c] = <<>>]
  /\ lagged' = [lagged EXCEPT ![c] = FALSE]
  /\ held' = [held EXCEPT ![c] = <<>>]
  /\ judged' = [judged EXCEPT ![c] = FALSE]
  /\ seen' = [seen EXCEPT ![c] = Snapshot]
  /\ late' = [late EXCEPT ![c] = 0]
  /\ UNCHANGED telemetryVars

\* BroadcastStream yields the next item, or the lag error.
Recv(c) ==
  /\ stream[c] = "open" /\ held[c] = <<>>
  /\ \/ /\ lagged[c]
        /\ held' = [held EXCEPT ![c] = <<LagError>>]
        /\ lagged' = [lagged EXCEPT ![c] = FALSE]
        /\ UNCHANGED queue
     \/ /\ ~lagged[c] /\ queue[c] # <<>>
        /\ held' = [held EXCEPT ![c] = <<Head(queue[c])>>]
        /\ queue' = [queue EXCEPT ![c] = Tail(queue[c])]
        /\ UNCHANGED lagged
  /\ UNCHANGED <<telemetryVars, stream, streamGen, judged, seen, late>>

\* generation_is_connected
GenerationIsConnected(g) == connected /\ generation = g

\* Mutant: the stream trusts the generation of the event alone.
PassesByEvent(c, item) ==
  item.ok /\ item.gen = streamGen[c] /\ item.snap # Null

\* The predicate of take_while.
Passes(c, item) ==
  /\ GenerationIsConnected(streamGen[c])
  /\ item.ok /\ item.gen = streamGen[c] /\ item.snap # Null

\* take_while judges the item, under a lock it releases at once: the item goes
\* on to map, or the stream ends.
Check(c) ==
  /\ stream[c] = "open" /\ held[c] # <<>> /\ ~judged[c]
  /\ \/ /\ Passes(c, Head(held[c]))
        /\ judged' = [judged EXCEPT ![c] = TRUE]
        /\ UNCHANGED <<stream, channelVars, held, seen>>
     \/ /\ ~Passes(c, Head(held[c]))
        /\ stream' = [stream EXCEPT ![c] = "ended"]
        /\ queue' = [queue EXCEPT ![c] = <<>>]
        /\ lagged' = [lagged EXCEPT ![c] = FALSE]
        /\ held' = [held EXCEPT ![c] = <<>>]
        /\ seen' = [seen EXCEPT ![c] = Null]
        /\ UNCHANGED judged
  /\ UNCHANGED <<telemetryVars, streamGen, late>>

\* map renders the item that passed and the response hands it to the client's
\* connection: no lock is held, and the session may be over by now.
Deliver(c) ==
  /\ stream[c] = "open" /\ held[c] # <<>> /\ judged[c]
  /\ seen' = [seen EXCEPT ![c] = Head(held[c]).snap]
  /\ held' = [held EXCEPT ![c] = <<>>]
  /\ judged' = [judged EXCEPT ![c] = FALSE]
  /\ late' = IF GenerationIsConnected(streamGen[c]) THEN late
             ELSE [late EXCEPT ![c] = @ + 1]
  /\ UNCHANGED <<telemetryVars, channelVars, stream, streamGen>>

\* The client goes away, or the server drops the body of an ended stream.
Close(c) ==
  /\ stream[c] # "none"
  /\ stream' = [stream EXCEPT ![c] = "none"]
  /\ queue' = [queue EXCEPT ![c] = <<>>]
  /\ lagged' = [lagged EXCEPT ![c] = FALSE]
  /\ held' = [held EXCEPT ![c] = <<>>]
  /\ judged' = [judged EXCEPT ![c] = FALSE]
  /\ seen' = [seen EXCEPT ![c] = Null]
  /\ late' = [late EXCEPT ![c] = 0]
  /\ streamGen' = [streamGen EXCEPT ![c] = 0]
  /\ UNCHANGED telemetryVars

StreamNext(c) == Subscribe(c) \/ Recv(c) \/ Check(c) \/ Deliver(c) \/ Close(c)

SharedNext ==
  \/ Connect
  \/ Disconnect
  \/ \E l \in Leaves, v \in Values \cup {Null} : Update(l, v)
  \/ \E d \in {Device(l) : l \in Leaves} : RemoveDevice(d)
  \/ \E s \in States \cup {Null} : UpdateInverter(s)
  \/ \E a \in Acks \cup {Null} : UpdateOverride(a)
  \/ BroadcastSnapshot
  \/ Tick
  \/ \E c \in Clients : StreamNext(c)

SharedSpec == SharedInit /\ [][SharedNext]_sharedVars

\* The coalescing task is an interval that never stops, and a stream with a
\* client that keeps reading is polled whenever its channel has an item.
SharedFairness ==
  /\ WF_sharedVars(BroadcastSnapshot)
  /\ \A c \in Clients : /\ WF_sharedVars(Recv(c))
                        /\ WF_sharedVars(Check(c))
                        /\ WF_sharedVars(Deliver(c))

FairSharedSpec == SharedSpec /\ SharedFairness

-----------------------------------------------------------------------------
(* What the operations must keep true *)

Ages(limit) == 0 .. limit + 1

SnapshotType ==
  [leaves   : [Leaves -> Values \cup {Null, Absent}],
   inverter : States \cup {Null},
   override : Acks \cup {Null}]

ItemType == [ok : BOOLEAN, gen : 0 .. MaxGeneration, snap : SnapshotType \cup {Null}]

FlagsTypeOK ==
  /\ connected \in BOOLEAN /\ ready \in BOOLEAN /\ dirty \in BOOLEAN
  /\ generation \in 0 .. MaxGeneration

CacheTypeOK ==
  /\ snapshot \in [Leaves -> Values \cup {Null, Absent}]
  /\ readings \in [EnergyLeaves -> (Values \X Ages(MaxAge)) \cup {Absent}]
  /\ inverter \in States \cup {Null}
  /\ inverterAge \in Ages(InverterTTL) \cup {Null}
  /\ override \in Acks \cup {Null}

ChannelTypeOK ==
  /\ queue \in [Clients -> Seq(ItemType)]
  /\ lagged \in [Clients -> BOOLEAN]

StreamTypeOK ==
  /\ stream \in [Clients -> {"none", "open", "ended"}]
  /\ streamGen \in [Clients -> 0 .. MaxGeneration]
  /\ held \in [Clients -> Seq(ItemType)]
  /\ judged \in [Clients -> BOOLEAN]
  /\ seen \in [Clients -> SnapshotType \cup {Null}]
  /\ late \in [Clients -> Nat]

\* The type invariant.
SharedTypeOK == FlagsTypeOK /\ CacheTypeOK /\ ChannelTypeOK /\ StreamTypeOK

\* While the broker is unreachable the gateway holds nothing of the session
\* that ended: no leaf, no reading, no controller, no acknowledgement, and no
\* broadcast is owed (set_connected, and the early return of every update).
OutageServesNothing ==
  ~connected => /\ snapshot = EmptySnapshot /\ readings = EmptyReadings
                /\ inverter = Null /\ inverterAge = Null /\ override = Null
                /\ ~ready /\ ~dirty

\* The energy API and the dashboard never disagree: an energy leaf has a
\* reading exactly when the snapshot shows a non-null value for it, and then
\* the same value (Shared::update keeps two maps by separate code).
ReadingsAgree ==
  \A l \in EnergyLeaves :
    /\ (readings[l] = Absent) <=> (snapshot[l] \in {Null, Absent})
    /\ readings[l] # Absent => readings[l][1] = snapshot[l]

\* The controller state has expired and the coalescing task has not swept it.
Expiring == inverter # Null /\ ~Fresh

\* The newest snapshot on its way to the client, or else the one it has.
Latest(c) == IF queue[c] # <<>> THEN queue[c][Len(queue[c])].snap
             ELSE IF held[c] # <<>> THEN held[c][1].snap
             ELSE seen[c]

\* A stream that is still running, in its own session.
Live(c) == /\ stream[c] = "open"
           /\ GenerationIsConnected(streamGen[c])

\* No update is lost to a subscriber: once nothing is owed (dirty, an expiry
\* to sweep) and nothing is in flight, the client holds exactly the snapshot
\* that GET /v1/snapshot would return (the dirty flag is assigned, not or-ed,
\* from receiver_count, and is cleared by a broadcast to somebody else).
NoLostUpdate ==
  \A c \in Clients :
    (Live(c) /\ ~lagged[c] /\ queue[c] = <<>> /\ held[c] = <<>> /\ ~dirty /\ ~Expiring)
      => seen[c] = Snapshot

\* Once its session is over a stream hands its client at most the one item
\* whose check had passed before, and never the backlog its channel still
\* holds: the predicate of take_while asks generation_is_connected again for
\* every item, though nothing is locked between a check and its delivery.
AtMostOneLateItem == \A c \in Clients : late[c] <= 1

\* A stream of a finished session ends by itself, without waiting for new
\* telemetry (the None event that set_connected(false) always sends).
StreamsEnd ==
  \A c \in Clients :
    (stream[c] = "open" /\ ~GenerationIsConnected(streamGen[c])) ~> (stream[c] # "open")

\* "Existing SSE clients must receive the unavailable state": a client of a
\* silent controller learns that it expired, unless the stream ends or the
\* controller speaks again first.
ExpiryIsReported ==
  \A c \in Clients :
    (Live(c) /\ Expiring)
      ~> (stream[c] # "open" \/ seen[c].inverter = Null \/ Fresh)
=============================================================================
