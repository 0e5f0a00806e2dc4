---------------------------- MODULE SharedProofs ----------------------------
(* Theorems about Shared, for every set of leaves, values and clients and     *)
(* every threshold and capacity.                                              *)
EXTENDS Shared, SequenceTheorems, TLAPS

(* The type invariant needs one fact about sessions: a session that is up has *)
(* not been counted yet.                                                      *)
Counted == connected => generation < MaxGeneration
TypeInv == SharedTypeOK /\ Counted

\* A lag error and a broadcast item of a known generation have their type.
LEMMA ItemTypes ==
  /\ LagError \in ItemType
  /\ \A g \in 0 .. MaxGeneration, s \in SnapshotType \cup {Null} : Event(g, s) \in ItemType
<1>1. 0 \in 0 .. MaxGeneration
  BY SharedAssumption
<1> QED
  BY <1>1 DEF LagError, Event, ItemType

\* What current_snapshot returns is a snapshot.
LEMMA SnapshotTyped == SharedTypeOK => Snapshot \in SnapshotType
BY DEF SharedTypeOK, CacheTypeOK, Snapshot, SnapshotType, FreshInverter

\* The broadcast channel keeps its type when a typed item is sent.
LEMMA SendTyped ==
  ASSUME SharedTypeOK, NEW e \in ItemType, Send(e)
  PROVE  /\ queue' \in [Clients -> Seq(ItemType)]
         /\ lagged' \in [Clients -> BOOLEAN]
<1>1. ASSUME NEW c \in Clients
      PROVE  (IF stream[c] # "open" THEN queue[c]
              ELSE IF Len(queue[c]) < Capacity THEN Append(queue[c], e)
              ELSE Append(Tail(queue[c]), e)) \in Seq(ItemType)
  <2>1. queue[c] \in Seq(ItemType)
    BY DEF SharedTypeOK, ChannelTypeOK
  <2>2. Len(queue[c]) >= Capacity => queue[c] # <<>>
    BY <2>1, SharedAssumption
  <2> QED
    BY <2>1, <2>2, SharedAssumption
<1>2. queue' \in [Clients -> Seq(ItemType)]
  BY <1>1 DEF Send
<1>3. lagged' \in [Clients -> BOOLEAN]
  BY Zenon DEF Send
<1> QED
  BY <1>2, <1>3

\* The invariant holds of a new Shared.
LEMMA InitTyped == SharedInit => TypeInv
<1> SUFFICES ASSUME SharedInit PROVE TypeInv
  OBVIOUS
<1>1. 0 \in 0 .. MaxGeneration
  BY SharedAssumption
<1>2. FlagsTypeOK /\ Counted
  BY <1>1 DEF SharedInit, FlagsTypeOK, Counted
<1>3. CacheTypeOK
  BY DEF SharedInit, CacheTypeOK, EmptySnapshot, EmptyReadings
<1>4. ChannelTypeOK
  BY DEF SharedInit, ChannelTypeOK
<1>5. StreamTypeOK
  BY <1>1 DEF SharedInit, StreamTypeOK
<1> QED
  BY <1>2, <1>3, <1>4, <1>5 DEF TypeInv, SharedTypeOK

\* Every step of Shared keeps the invariant.
LEMMA StepTyped == TypeInv /\ [SharedNext]_sharedVars => TypeInv'
<1> SUFFICES ASSUME TypeInv, [SharedNext]_sharedVars PROVE TypeInv'
  OBVIOUS
<1> USE DEF TypeInv, SharedTypeOK
<1>1. CASE Connect
  BY <1>1 DEF Connect, FlagsTypeOK, CacheTypeOK, ChannelTypeOK, StreamTypeOK, Counted,
     channelVars, streamVars
<1>2. CASE Disconnect
  <2>1. generation' \in 0 .. MaxGeneration
    BY <1>2, SharedAssumption DEF Disconnect, Counted, FlagsTypeOK
  <2>2. FlagsTypeOK' /\ Counted'
    BY <1>2, <2>1 DEF Disconnect, Counted, FlagsTypeOK
  <2>3. CacheTypeOK'
    BY <1>2 DEF Disconnect, CacheTypeOK, EmptySnapshot, EmptyReadings
  <2>4. ChannelTypeOK'
    <3>1. Event(generation', Null) \in ItemType
      BY <2>1, ItemTypes
    <3> QED
      BY <1>2, <3>1, SendTyped DEF Disconnect, ChannelTypeOK
  <2>5. StreamTypeOK'
    BY <1>2 DEF Disconnect, StreamTypeOK, streamVars
  <2> QED
    BY <2>2, <2>3, <2>4, <2>5
<1>3. CASE \E l \in Leaves, v \in Values \cup {Null} : Update(l, v)
  <2> PICK l \in Leaves, v \in Values \cup {Null} : Update(l, v)
    BY <1>3
  <2>1. CacheTypeOK'
    <3>1. snapshot' \in [Leaves -> Values \cup {Null, Absent}]
      BY DEF Update, CacheTypeOK
    <3>2. readings' \in [EnergyLeaves -> (Values \X Ages(MaxAge)) \cup {Absent}]
      <4>1. 0 \in Ages(MaxAge)
        BY SharedAssumption DEF Ages
      <4>2. v # Null => <<v, 0>> \in Values \X Ages(MaxAge)
        BY <4>1
      <4> QED
        BY <4>2 DEF Update, CacheTypeOK
    <3> QED
      BY <3>1, <3>2 DEF Update, CacheTypeOK
  <2>2. FlagsTypeOK' /\ Counted'
    BY DEF Update, FlagsTypeOK, Counted, HasReceivers
  <2> QED
    BY <2>1, <2>2 DEF Update, ChannelTypeOK, StreamTypeOK, channelVars, streamVars
<1>4. CASE \E d \in {Device(l) : l \in Leaves} : RemoveDevice(d)
  <2> PICK d \in {Device(l) : l \in Leaves} : RemoveDevice(d)
    BY <1>4
  <2>1. CacheTypeOK'
    BY DEF RemoveDevice, CacheTypeOK
  <2>2. FlagsTypeOK' /\ Counted'
    BY DEF RemoveDevice, FlagsTypeOK, Counted, HasReceivers
  <2> QED
    BY <2>1, <2>2 DEF RemoveDevice, ChannelTypeOK, StreamTypeOK, channelVars, streamVars
<1>5. CASE \E s \in States \cup {Null} : UpdateInverter(s)
  <2> PICK s \in States \cup {Null} : UpdateInverter(s)
    BY <1>5
  <2>1. CacheTypeOK'
    BY SharedAssumption DEF UpdateInverter, CacheTypeOK, Ages
  <2>2. FlagsTypeOK' /\ Counted'
    BY DEF UpdateInverter, FlagsTypeOK, Counted, HasReceivers
  <2> QED
    BY <2>1, <2>2 DEF UpdateInverter, ChannelTypeOK, StreamTypeOK, channelVars, streamVars
<1>6. CASE \E a \in Acks \cup {Null} : UpdateOverride(a)
  <2> PICK a \in Acks \cup {Null} : UpdateOverride(a)
    BY <1>6
  <2>1. CacheTypeOK' /\ FlagsTypeOK' /\ Counted'
    BY DEF UpdateOverride, CacheTypeOK, FlagsTypeOK, Counted, HasReceivers
  <2> QED
    BY <2>1 DEF UpdateOverride, ChannelTypeOK, StreamTypeOK, channelVars, streamVars
<1>7. CASE BroadcastSnapshot
  <2>1. CacheTypeOK'
    BY <1>7 DEF BroadcastSnapshot, CacheTypeOK
  <2>2. FlagsTypeOK' /\ Counted'
    BY <1>7 DEF BroadcastSnapshot, FlagsTypeOK, Counted, HasReceivers
  <2>3. ChannelTypeOK'
    <3>1. Event(generation, Snapshot) \in ItemType
      BY SnapshotTyped, ItemTypes DEF FlagsTypeOK
    <3>2. Send(Event(generation, Snapshot)) \/ UNCHANGED channelVars
      BY <1>7 DEF BroadcastSnapshot
    <3> QED
      BY <3>1, <3>2, SendTyped DEF ChannelTypeOK, channelVars
  <2> QED
    BY <1>7, <2>1, <2>2, <2>3 DEF BroadcastSnapshot, StreamTypeOK, streamVars
<1>8. CASE Tick
  <2>1. ASSUME NEW limit \in Nat, NEW age \in Ages(limit)
        PROVE  Older(age, limit) \in Ages(limit)
    BY <2>1 DEF Older, Ages
  <2>2. inverterAge' \in Ages(InverterTTL) \cup {Null}
    BY <1>8, <2>1, SharedAssumption DEF Tick, CacheTypeOK
  <2>3. readings' \in [EnergyLeaves -> (Values \X Ages(MaxAge)) \cup {Absent}]
    <3>1. ASSUME NEW l \in EnergyLeaves, readings[l] # Absent
          PROVE  <<readings[l][1], Older(readings[l][2], MaxAge)>> \in Values \X Ages(MaxAge)
      <4>1. readings[l] \in Values \X Ages(MaxAge)
        BY <3>1 DEF CacheTypeOK
      <4>2. readings[l][1] \in Values /\ readings[l][2] \in Ages(MaxAge)
        BY <4>1
      <4> QED
        BY <4>2, <2>1, SharedAssumption
    <3> QED
      BY <1>8, <3>1 DEF Tick
  <2> QED
    BY <1>8, <2>2, <2>3 DEF Tick, CacheTypeOK, FlagsTypeOK, Counted, ChannelTypeOK, StreamTypeOK,
       channelVars, streamVars
<1>9. CASE \E c \in Clients : StreamNext(c)
  <2> PICK c \in Clients : StreamNext(c)
    BY <1>9
  <2>0. FlagsTypeOK' /\ CacheTypeOK' /\ Counted'
    BY DEF StreamNext, Subscribe, Recv, Check, Deliver, Close, telemetryVars, FlagsTypeOK, CacheTypeOK,
       Counted
  <2>1. CASE Subscribe(c)
    <3>1. Snapshot \in SnapshotType
      BY SnapshotTyped
    <3>2. ChannelTypeOK'
      BY <2>1 DEF Subscribe, ChannelTypeOK
    <3>3. StreamTypeOK'
      BY <2>1, <3>1 DEF Subscribe, StreamTypeOK, FlagsTypeOK
    <3> QED
      BY <2>0, <3>2, <3>3
  <2>2. CASE Recv(c)
    <3>1. queue[c] \in Seq(ItemType)
      BY DEF ChannelTypeOK
    <3>2. queue[c] # <<>> => Head(queue[c]) \in ItemType /\ Tail(queue[c]) \in Seq(ItemType)
      BY <3>1
    <3>3. ChannelTypeOK'
      BY <2>2, <3>2 DEF Recv, ChannelTypeOK
    <3>4. held' \in [Clients -> Seq(ItemType)]
      <4>1. <<LagError>> \in Seq(ItemType)
        BY ItemTypes
      <4>2. queue[c] # <<>> => <<Head(queue[c])>> \in Seq(ItemType)
        BY <3>2
      <4> QED
        BY <2>2, <4>1, <4>2 DEF Recv, StreamTypeOK
    <3>5. StreamTypeOK'
      BY <2>2, <3>4 DEF Recv, StreamTypeOK
    <3> QED
      BY <2>0, <3>3, <3>5
  <2>3. CASE Check(c)
    <3>a. ASSUME judged' = [judged EXCEPT ![c] = TRUE],
                 UNCHANGED <<stream, channelVars, held, seen>>
          PROVE  ChannelTypeOK' /\ StreamTypeOK'
      BY <2>3, <3>a DEF Check, ChannelTypeOK, StreamTypeOK, channelVars
    <3>b. ASSUME stream' = [stream EXCEPT ![c] = "ended"], queue' = [queue EXCEPT ![c] = <<>>],
                 lagged' = [lagged EXCEPT ![c] = FALSE], held' = [held EXCEPT ![c] = <<>>],
                 seen' = [seen EXCEPT ![c] = Null], UNCHANGED judged
          PROVE  ChannelTypeOK' /\ StreamTypeOK'
      BY <2>3, <3>b DEF Check, ChannelTypeOK, StreamTypeOK
    <3>4. ChannelTypeOK' /\ StreamTypeOK'
      BY <2>3, <3>a, <3>b DEF Check
    <3> QED
      BY <2>0, <3>4
  <2>5. CASE Deliver(c)
    <3>1. held[c] \in Seq(ItemType) /\ held[c] # <<>>
      BY <2>5 DEF Deliver, StreamTypeOK
    <3>2. Head(held[c]).snap \in SnapshotType \cup {Null}
      <4>1. Head(held[c]) \in ItemType
        BY <3>1
      <4> QED
        BY <4>1 DEF ItemType
    <3>3. late' \in [Clients -> Nat]
      BY <2>5 DEF Deliver, StreamTypeOK
    <3>4. ChannelTypeOK' /\ StreamTypeOK'
      BY <2>5, <3>2, <3>3 DEF Deliver, ChannelTypeOK, StreamTypeOK, channelVars
    <3> QED
      BY <2>0, <3>4
  <2>4. CASE Close(c)
    <3>1. ChannelTypeOK'
      BY <2>4 DEF Close, ChannelTypeOK
    <3>2. StreamTypeOK'
      BY <2>4, SharedAssumption DEF Close, StreamTypeOK
    <3> QED
      BY <2>0, <3>1, <3>2
  <2> QED
    BY <2>1, <2>2, <2>3, <2>4, <2>5 DEF StreamNext
<1>10. CASE UNCHANGED sharedVars
  BY <1>10 DEF sharedVars, telemetryVars, channelVars, streamVars, FlagsTypeOK, CacheTypeOK,
     ChannelTypeOK, StreamTypeOK, Counted
<1> QED
  BY <1>1, <1>2, <1>3, <1>4, <1>5, <1>6, <1>7, <1>8, <1>9, <1>10 DEF SharedNext

\* Shared keeps its types (telemetry, channel and streams, in every step).
THEOREM SharedTypeCorrect == SharedSpec => []SharedTypeOK
<1>1. SharedSpec => []TypeInv
  BY InitTyped, StepTyped, PTL DEF SharedSpec
<1> QED
  BY <1>1, PTL DEF TypeInv

-----------------------------------------------------------------------------
(* The caches *)

\* After an outage begins nothing refills the caches: every update returns
\* early, the sweep finds no controller and time has nothing to age.
THEOREM OutageIsEmpty == SharedSpec => []OutageServesNothing
<1>1. SharedInit => OutageServesNothing
  BY DEF SharedInit, OutageServesNothing
<1>2. TypeInv /\ OutageServesNothing /\ [SharedNext]_sharedVars => OutageServesNothing'
  <2> SUFFICES ASSUME TypeInv, OutageServesNothing, [SharedNext]_sharedVars, ~connected'
               PROVE  OutageServesNothing'
    BY DEF OutageServesNothing
  <2>1. CASE Connect
    BY <2>1 DEF Connect
  <2>2. CASE Disconnect
    BY <2>2 DEF Disconnect, OutageServesNothing
  <2>3. CASE BroadcastSnapshot
    BY <2>3 DEF BroadcastSnapshot, OutageServesNothing
  <2>4. CASE Tick
    BY <2>4 DEF Tick, OutageServesNothing, EmptyReadings
  <2>5. CASE \E c \in Clients : StreamNext(c)
    BY <2>5 DEF StreamNext, Subscribe, Recv, Check, Deliver, Close, telemetryVars, OutageServesNothing
  <2>6. CASE UNCHANGED sharedVars
    BY <2>6 DEF sharedVars, telemetryVars, OutageServesNothing
  <2> QED
    BY <2>1, <2>2, <2>3, <2>4, <2>5, <2>6
    DEF SharedNext, Update, RemoveDevice, UpdateInverter, UpdateOverride
<1>3. SharedSpec => []TypeInv
  BY InitTyped, StepTyped, PTL DEF SharedSpec
<1> QED
  BY <1>1, <1>2, <1>3, PTL DEF SharedSpec

\* The two maps that Shared::update keeps by separate code never disagree
\* about an energy leaf, whatever is updated, nulled, removed or cleared.
THEOREM CachesAgree == SharedSpec => []ReadingsAgree
<1>1. SharedInit => ReadingsAgree
  BY SharedAssumption DEF SharedInit, ReadingsAgree, EmptyReadings, EmptySnapshot
<1>2. TypeInv /\ ReadingsAgree /\ [SharedNext]_sharedVars => ReadingsAgree'
  <2> SUFFICES ASSUME TypeInv, ReadingsAgree, [SharedNext]_sharedVars, NEW l \in EnergyLeaves
               PROVE  /\ (readings'[l] = Absent) <=> (snapshot'[l] \in {Null, Absent})
                      /\ readings'[l] # Absent => readings'[l][1] = snapshot'[l]
    BY DEF ReadingsAgree
  <2>0. /\ l \in Leaves
        /\ readings \in [EnergyLeaves -> (Values \X Ages(MaxAge)) \cup {Absent}]
        /\ snapshot \in [Leaves -> Values \cup {Null, Absent}]
        /\ \A v \in Values, age \in Nat : <<v, age>> # Absent
    BY SharedAssumption DEF TypeInv, SharedTypeOK, CacheTypeOK
  <2>1. CASE Disconnect
    BY <2>0, <2>1, SharedAssumption DEF Disconnect, EmptyReadings, EmptySnapshot
  <2>2. ASSUME NEW k \in Leaves, NEW v \in Values \cup {Null}, Update(k, v)
        PROVE  /\ (readings'[l] = Absent) <=> (snapshot'[l] \in {Null, Absent})
               /\ readings'[l] # Absent => readings'[l][1] = snapshot'[l]
    <3>1. CASE k = l
      <4>1. snapshot'[l] = v /\ readings'[l] = IF v = Null THEN Absent ELSE <<v, 0>>
        BY <2>0, <2>2, <3>1 DEF Update
      <4> QED
        BY <2>0, <4>1, SharedAssumption
    <3>2. CASE k # l
      <4>1. snapshot'[l] = snapshot[l] /\ readings'[l] = readings[l]
        BY <2>0, <2>2, <3>2 DEF Update
      <4> QED
        BY <4>1 DEF ReadingsAgree
    <3> QED
      BY <3>1, <3>2
  <2>3. ASSUME NEW d, RemoveDevice(d)
        PROVE  /\ (readings'[l] = Absent) <=> (snapshot'[l] \in {Null, Absent})
               /\ readings'[l] # Absent => readings'[l][1] = snapshot'[l]
    BY <2>0, <2>3 DEF RemoveDevice, ReadingsAgree
  <2>4. CASE Tick
    <3>1. CASE readings[l] = Absent
      BY <2>4, <3>1 DEF Tick, ReadingsAgree
    <3>2. CASE readings[l] # Absent
      <4>1. readings[l][1] \in Values /\ readings[l][2] \in Ages(MaxAge)
        BY <2>0, <3>2
      <4>2. readings'[l] = <<readings[l][1], Older(readings[l][2], MaxAge)>>
        BY <2>4, <3>2 DEF Tick
      <4>3. Older(readings[l][2], MaxAge) \in Nat
        BY <4>1, SharedAssumption DEF Older, Ages
      <4> QED
        BY <2>0, <2>4, <3>2, <4>1, <4>2, <4>3 DEF Tick, ReadingsAgree
    <3> QED
      BY <3>1, <3>2
  <2>5. CASE UNCHANGED <<snapshot, readings>>
    BY <2>5 DEF ReadingsAgree
  <2> QED
    BY <2>1, <2>2, <2>3, <2>4, <2>5
    DEF SharedNext, Connect, UpdateInverter, UpdateOverride, BroadcastSnapshot, StreamNext,
        Subscribe, Recv, Check, Deliver, Close, telemetryVars, sharedVars
<1>3. SharedSpec => []TypeInv
  BY InitTyped, StepTyped, PTL DEF SharedSpec
<1> QED
  BY <1>1, <1>2, <1>3, PTL DEF SharedSpec

-----------------------------------------------------------------------------
(* The streams.  NoLostUpdate speaks of a client that has read everything;    *)
(* what is inductive is that the newest snapshot on its way (Latest) is the   *)
(* current one whenever no broadcast is owed, and that an open stream of the  *)
(* present generation was opened in the present session.                     *)

StreamSessions ==
  \A c \in Clients :
    stream[c] = "open" => /\ streamGen[c] <= generation
                          /\ ~connected => streamGen[c] < generation

\* Nothing is owed to the stream, and it has lost nothing.
Settled(c) ==
  /\ Live(c) /\ ~lagged[c] /\ ~dirty /\ ~Expiring
  /\ held[c] # <<>> => held[c][1].ok

UpToDate == \A c \in Clients : Settled(c) => Latest(c) = Snapshot

\* The item that waits to be delivered is one.
JudgedIsItem == \A c \in Clients : judged[c] => held[c] # <<>> /\ held[c][1].ok

StreamInv == StreamSessions /\ JudgedIsItem /\ UpToDate

\* A client that has received everything has Latest.
LEMMA UpToDateSuffices == UpToDate => NoLostUpdate
BY DEF UpToDate, NoLostUpdate, Settled, Latest

\* Streams keep their session.
LEMMA SessionsStep ==
  TypeInv /\ StreamSessions /\ [SharedNext]_sharedVars => StreamSessions'
<1> SUFFICES ASSUME TypeInv, StreamSessions, [SharedNext]_sharedVars, NEW c \in Clients,
                    stream'[c] = "open"
             PROVE  streamGen'[c] <= generation' /\ (~connected' => streamGen'[c] < generation')
  BY DEF StreamSessions
<1>0. /\ streamGen \in [Clients -> 0 .. MaxGeneration] /\ generation \in 0 .. MaxGeneration
      /\ stream \in [Clients -> {"none", "open", "ended"}]
      /\ MaxGeneration \in Nat
  BY SharedAssumption DEF TypeInv, SharedTypeOK, StreamTypeOK, FlagsTypeOK
<1>1. CASE Disconnect
  BY <1>0, <1>1 DEF Disconnect, streamVars, StreamSessions
<1>2. CASE Connect
  BY <1>0, <1>2 DEF Connect, streamVars, StreamSessions
<1>3. ASSUME NEW d \in Clients, StreamNext(d)
      PROVE  streamGen'[c] <= generation' /\ (~connected' => streamGen'[c] < generation')
  <2>0. UNCHANGED <<connected, generation>>
    BY <1>3 DEF StreamNext, Subscribe, Recv, Check, Deliver, Close, telemetryVars
  <2>1. CASE Subscribe(d)
    BY <1>0, <2>0, <2>1 DEF Subscribe, StreamSessions
  <2>2. CASE Recv(d) \/ Check(d) \/ Deliver(d)
    BY <1>0, <2>0, <2>2 DEF Recv, Check, Deliver, StreamSessions
  <2>3. CASE Close(d)
    BY <1>0, <2>0, <2>3 DEF Close, StreamSessions
  <2> QED
    BY <1>3, <2>1, <2>2, <2>3 DEF StreamNext
<1>4. CASE UNCHANGED <<connected, generation, stream, streamGen>>
  BY <1>4 DEF StreamSessions
<1> QED
  BY <1>1, <1>2, <1>3, <1>4
  DEF SharedNext, Update, RemoveDevice, UpdateInverter, UpdateOverride, BroadcastSnapshot, Tick,
      streamVars, telemetryVars, sharedVars

\* What has passed the predicate is a snapshot and no lag error.
LEMMA JudgedStep ==
  TypeInv /\ JudgedIsItem /\ [SharedNext]_sharedVars => JudgedIsItem'
<1> SUFFICES ASSUME TypeInv, JudgedIsItem, [SharedNext]_sharedVars, NEW c \in Clients, judged'[c]
             PROVE  held'[c] # <<>> /\ held'[c][1].ok
  BY DEF JudgedIsItem
<1>0. /\ held \in [Clients -> Seq(ItemType)] /\ judged \in [Clients -> BOOLEAN]
  BY DEF TypeInv, SharedTypeOK, StreamTypeOK
<1>1. ASSUME NEW d \in Clients, StreamNext(d)
      PROVE  held'[c] # <<>> /\ held'[c][1].ok
  <2>1. CASE d # c
    <3>1. held'[c] = held[c] /\ judged'[c] = judged[c]
      BY <1>0, <1>1, <2>1 DEF StreamNext, Subscribe, Recv, Check, Deliver, Close
    <3> QED
      BY <3>1 DEF JudgedIsItem
  <2>2. CASE Check(c)
    <3>1. CASE Passes(c, Head(held[c]))
      <4>1. held'[c] = held[c] /\ held[c] # <<>> /\ Head(held[c]).ok
        BY <2>2, <3>1 DEF Check, Passes
      <4> QED
        BY <1>0, <4>1
    <3>2. CASE ~Passes(c, Head(held[c]))
      BY <1>0, <2>2, <3>2 DEF Check
    <3> QED
      BY <3>1, <3>2
  <2>3. CASE Recv(c)
    BY <1>0, <2>3 DEF Recv, JudgedIsItem
  <2>4. CASE Subscribe(c) \/ Deliver(c) \/ Close(c)
    BY <1>0, <2>4 DEF Subscribe, Deliver, Close
  <2> QED
    BY <1>1, <2>1, <2>2, <2>3, <2>4 DEF StreamNext
<1>2. CASE UNCHANGED streamVars
  BY <1>2 DEF streamVars, JudgedIsItem
<1> QED
  BY <1>1, <1>2
  DEF SharedNext, Connect, Disconnect, Update, RemoveDevice, UpdateInverter, UpdateOverride,
      BroadcastSnapshot, Tick, sharedVars

\* No step leaves a settled stream behind.  An update makes dirty true, since
\* the stream itself is a receiver; a broadcast appends the snapshot; a stream
\* step moves the newest item along the path from channel to client.
LEMMA UpToDateStep ==
  TypeInv /\ StreamInv /\ [SharedNext]_sharedVars => UpToDate'
<1> SUFFICES ASSUME TypeInv, StreamInv, [SharedNext]_sharedVars, NEW c \in Clients, Settled(c)'
             PROVE  (Latest(c) = Snapshot)'
  BY DEF UpToDate
<1>0. /\ queue \in [Clients -> Seq(ItemType)] /\ lagged \in [Clients -> BOOLEAN]
      /\ held \in [Clients -> Seq(ItemType)]
      /\ seen \in [Clients -> SnapshotType \cup {Null}]
      /\ stream \in [Clients -> {"none", "open", "ended"}]
      /\ streamGen \in [Clients -> 0 .. MaxGeneration] /\ generation \in 0 .. MaxGeneration
  BY DEF TypeInv, SharedTypeOK, ChannelTypeOK, StreamTypeOK, FlagsTypeOK
<1>a. stream'[c] = "open" /\ connected' /\ generation' = streamGen'[c] /\ ~lagged'[c] /\ ~dirty'
  BY DEF Settled, Live, GenerationIsConnected
<1>b. UNCHANGED streamVars => HasReceivers
  BY <1>a DEF HasReceivers, Receivers, streamVars
<1>1. CASE Connect
  <2>1. generation = streamGen[c] /\ stream[c] = "open" /\ ~connected
    BY <1>1, <1>a DEF Connect, streamVars
  <2> QED
    BY <1>0, <2>1, SharedAssumption DEF StreamInv, StreamSessions
<1>2. CASE Disconnect
  BY <1>2, <1>a DEF Disconnect
<1>3. ASSUME dirty' = HasReceivers, UNCHANGED streamVars PROVE FALSE
  BY <1>3, <1>a, <1>b
<1>4. CASE BroadcastSnapshot
  <2>0. UNCHANGED streamVars /\ HasReceivers /\ connected /\ stream[c] = "open"
    BY <1>4, <1>a, <1>b DEF BroadcastSnapshot, streamVars
  <2>1. Snapshot' = Snapshot
    BY <1>4 DEF BroadcastSnapshot, Snapshot, FreshInverter, Fresh
  <2>2. CASE (inverter # Null /\ ~Fresh) \/ dirty
    <3>1. Send(Event(generation, Snapshot))
      BY <1>4, <2>0, <2>2 DEF BroadcastSnapshot
    <3> DEFINE e == Event(generation, Snapshot)
    <3>2. queue[c] \in Seq(ItemType) /\ e \in ItemType
      BY <1>0, SnapshotTyped, ItemTypes DEF TypeInv, SharedTypeOK, FlagsTypeOK
    <3>3. \E q \in Seq(ItemType) : queue'[c] = Append(q, e)
      <4>1. CASE Len(queue[c]) < Capacity
        BY <2>0, <3>1, <3>2, <4>1 DEF Send
      <4>2. CASE ~(Len(queue[c]) < Capacity)
        <5>1. queue'[c] = Append(Tail(queue[c]), e)
          BY <2>0, <3>1, <4>2 DEF Send
        <5>2. Tail(queue[c]) \in Seq(ItemType)
          BY <3>2, <4>2, SharedAssumption
        <5> QED
          BY <5>1, <5>2
      <4> QED
        BY <4>1, <4>2
    <3>4. queue'[c] # <<>> /\ queue'[c][Len(queue'[c])] = e
      BY <3>2, <3>3
    <3>5. e.snap = Snapshot
      BY DEF Event
    <3> QED
      BY <3>4, <3>5, <2>1 DEF Latest
  <2>3. CASE ~((inverter # Null /\ ~Fresh) \/ dirty)
    <3>1. UNCHANGED channelVars
      BY <1>4, <2>3 DEF BroadcastSnapshot
    <3>2. Settled(c)
      BY <1>4, <1>a, <2>0, <2>3, <3>1
      DEF Settled, Live, GenerationIsConnected, Expiring, BroadcastSnapshot, channelVars, streamVars
    <3>3. Latest(c)' = Latest(c)
      BY <2>0, <3>1 DEF Latest, channelVars, streamVars
    <3> QED
      BY <2>1, <3>2, <3>3 DEF StreamInv, UpToDate
  <2> QED
    BY <2>2, <2>3
<1>5. CASE Tick
  <2>1. UNCHANGED <<channelVars, streamVars, connected, generation, dirty, inverter, override,
                    snapshot>>
    BY <1>5 DEF Tick
  <2>2. ~Expiring /\ Snapshot' = Snapshot
    <3>1. inverterAge \in Nat \cup {Null} /\ InverterTTL \in Nat
      BY SharedAssumption DEF TypeInv, SharedTypeOK, CacheTypeOK, Ages
    <3>2. CASE inverter = Null
      BY <2>1, <3>2 DEF Expiring, Snapshot, FreshInverter
    <3>3. CASE inverter # Null
      <4>1. inverterAge' # Null /\ inverterAge' <= InverterTTL
        BY <2>1, <3>3 DEF Settled, Expiring, Fresh
      <4>2. inverterAge # Null /\ inverterAge <= InverterTTL
        BY <1>5, <3>1, <4>1 DEF Tick, Older
      <4> QED
        BY <2>1, <4>1, <4>2 DEF Expiring, Fresh, Snapshot, FreshInverter
    <3> QED
      BY <3>2, <3>3
  <2>3. Settled(c) /\ Latest(c)' = Latest(c)
    BY <2>1, <2>2 DEF Settled, Live, GenerationIsConnected, Latest, channelVars, streamVars
  <2> QED
    BY <2>2, <2>3 DEF StreamInv, UpToDate
<1>6. ASSUME NEW d \in Clients, StreamNext(d) PROVE (Latest(c) = Snapshot)'
  <2>0. /\ UNCHANGED telemetryVars
        /\ Snapshot' = Snapshot /\ (Expiring' <=> Expiring)
    BY <1>6 DEF StreamNext, Subscribe, Recv, Check, Deliver, Close, telemetryVars, Snapshot,
       FreshInverter, Fresh, Expiring
  <2>1. CASE d # c
    <3>1. /\ stream'[c] = stream[c] /\ streamGen'[c] = streamGen[c] /\ queue'[c] = queue[c]
          /\ lagged'[c] = lagged[c] /\ held'[c] = held[c] /\ seen'[c] = seen[c]
      BY <1>0, <1>6, <2>1 DEF StreamNext, Subscribe, Recv, Check, Deliver, Close, channelVars
    <3>2. Settled(c) /\ Latest(c)' = Latest(c)
      BY <2>0, <3>1 DEF Settled, Live, GenerationIsConnected, Latest, telemetryVars
    <3> QED
      BY <2>0, <3>2 DEF StreamInv, UpToDate
  <2>2. CASE Subscribe(c)
    BY <1>0, <2>0, <2>2 DEF Subscribe, Latest
  <2>3. CASE Recv(c)
    <3>1. held'[c] # <<>> => held'[c][1].ok
      BY DEF Settled
    <3>2. ~lagged[c]
      <4>1. ASSUME lagged[c] PROVE held'[c] = <<LagError>>
        BY <1>0, <2>3, <4>1 DEF Recv
      <4> QED
        BY <3>1, <4>1 DEF LagError
    <3>3. /\ queue[c] # <<>> /\ held[c] = <<>> /\ stream[c] = "open"
          /\ held'[c] = <<Head(queue[c])>> /\ queue'[c] = Tail(queue[c])
          /\ streamGen'[c] = streamGen[c]
      BY <1>0, <2>3, <3>2 DEF Recv
    <3>4. Settled(c)
      BY <1>a, <2>0, <3>2, <3>3
      DEF Settled, Live, GenerationIsConnected, Expiring, Fresh, telemetryVars
    <3>5. Latest(c)' = Latest(c)
      <4>1. queue[c] \in Seq(ItemType)
        BY <1>0
      <4>2. CASE Tail(queue[c]) = <<>>
        <5>1. Len(queue[c]) \in Nat /\ Len(Tail(queue[c])) = Len(queue[c]) - 1
          BY <3>3, <4>1, HeadTailProperties
        <5>2. Len(Tail(queue[c])) = 0
          BY <4>2, EmptySeq, Zenon
        <5>3. Len(queue[c]) = 1
          BY <5>1, <5>2
        <5>4. Head(queue[c]) = queue[c][1]
          BY <4>1, <5>3
        <5>5. held'[c] # <<>> /\ held'[c][1] = Head(queue[c])
          BY <3>3
        <5> QED
          BY <3>3, <4>2, <5>3, <5>4, <5>5 DEF Latest
      <4>3. CASE Tail(queue[c]) # <<>>
        <5>1. Tail(queue[c])[Len(Tail(queue[c]))] = queue[c][Len(queue[c])]
          BY <3>3, <4>1, <4>3
        <5> QED
          BY <3>3, <4>3, <5>1 DEF Latest
      <4> QED
        BY <4>2, <4>3
    <3> QED
      BY <2>0, <3>4, <3>5 DEF StreamInv, UpToDate
  <2>4. CASE Check(c)
    <3>1. Passes(c, Head(held[c]))
      BY <1>0, <1>a, <2>4 DEF Check
    <3>2. /\ held'[c] = held[c] /\ seen'[c] = seen[c] /\ queue'[c] = queue[c]
          /\ lagged'[c] = lagged[c] /\ stream[c] = "open" /\ streamGen'[c] = streamGen[c]
      BY <1>0, <2>4, <3>1 DEF Check, channelVars
    <3>3. Settled(c) /\ Latest(c)' = Latest(c)
      BY <2>0, <3>2 DEF Settled, Live, GenerationIsConnected, Latest, telemetryVars
    <3> QED
      BY <2>0, <3>3 DEF StreamInv, UpToDate
  <2>6. CASE Deliver(c)
    <3>1. /\ seen'[c] = Head(held[c]).snap /\ held'[c] = <<>> /\ queue'[c] = queue[c]
          /\ lagged'[c] = lagged[c] /\ stream[c] = "open" /\ held[c] # <<>> /\ judged[c]
          /\ streamGen'[c] = streamGen[c]
      BY <1>0, <2>6 DEF Deliver, channelVars
    <3>2. held[c][1] = Head(held[c]) /\ held[c][1].ok
      BY <1>0, <3>1 DEF StreamInv, JudgedIsItem
    <3>3. Settled(c)
      BY <1>a, <2>0, <3>1, <3>2
      DEF Settled, Live, GenerationIsConnected, telemetryVars
    <3>4. Latest(c)' = Latest(c)
      BY <3>1, <3>2 DEF Latest
    <3> QED
      BY <2>0, <3>3, <3>4 DEF StreamInv, UpToDate
  <2>5. CASE Close(c)
    BY <1>0, <1>a, <2>5 DEF Close
  <2> QED
    BY <1>6, <2>1, <2>2, <2>3, <2>4, <2>5, <2>6 DEF StreamNext
<1>7. CASE UNCHANGED sharedVars
  <2>1. Settled(c) /\ Latest(c)' = Latest(c) /\ Snapshot' = Snapshot
    BY <1>7 DEF sharedVars, telemetryVars, channelVars, streamVars, Settled, Live,
       GenerationIsConnected, Expiring, Fresh, Latest, Snapshot, FreshInverter
  <2> QED
    BY <2>1 DEF StreamInv, UpToDate
<1> QED
  BY <1>1, <1>2, <1>3, <1>4, <1>5, <1>6, <1>7
  DEF SharedNext, Update, RemoveDevice, UpdateInverter, UpdateOverride

\* No update is ever lost to a stream that is alive and was not told it lagged.
THEOREM NoUpdateIsLost == SharedSpec => []NoLostUpdate
<1>1. SharedInit => StreamInv
  BY DEF SharedInit, StreamInv, StreamSessions, JudgedIsItem, UpToDate, Settled, Live
<1>2. TypeInv /\ StreamInv /\ [SharedNext]_sharedVars => StreamInv'
  BY SessionsStep, JudgedStep, UpToDateStep DEF StreamInv
<1>3. SharedSpec => []TypeInv
  BY InitTyped, StepTyped, PTL DEF SharedSpec
<1>4. SharedSpec => []StreamInv
  BY <1>1, <1>2, <1>3, PTL DEF SharedSpec
<1> QED
  BY <1>4, UpToDateSuffices, PTL DEF StreamInv

(* A late delivery.  One can happen only to an item that was judged in the    *)
(* session; after it nothing is judged any more, because a session that is    *)
(* over for a stream stays over: generations are never used twice.            *)
LateInv ==
  \A c \in Clients :
    /\ late[c] <= 1
    /\ stream[c] = "open" /\ late[c] # 0 => ~judged[c] /\ ~GenerationIsConnected(streamGen[c])

\* Every step keeps it.
LEMMA LateStep ==
  TypeInv /\ StreamSessions /\ LateInv /\ [SharedNext]_sharedVars => LateInv'
<1> SUFFICES ASSUME TypeInv, StreamSessions, LateInv, [SharedNext]_sharedVars, NEW c \in Clients
             PROVE  /\ late'[c] <= 1
                    /\ stream'[c] = "open" /\ late'[c] # 0
                         => ~judged'[c] /\ ~(connected' /\ generation' = streamGen'[c])
  BY DEF LateInv, GenerationIsConnected
<1>0. /\ judged \in [Clients -> BOOLEAN] /\ late \in [Clients -> Nat]
      /\ stream \in [Clients -> {"none", "open", "ended"}]
      /\ streamGen \in [Clients -> 0 .. MaxGeneration] /\ generation \in 0 .. MaxGeneration
      /\ MaxGeneration \in Nat
  BY SharedAssumption DEF TypeInv, SharedTypeOK, StreamTypeOK, FlagsTypeOK
<1>i. /\ late[c] <= 1
      /\ stream[c] = "open" /\ late[c] # 0
           => ~judged[c] /\ ~(connected /\ generation = streamGen[c])
      /\ stream[c] = "open" => streamGen[c] <= generation /\ (~connected => streamGen[c] < generation)
  BY DEF LateInv, GenerationIsConnected, StreamSessions
<1>1. CASE Connect
  BY <1>0, <1>1, <1>i DEF Connect, streamVars
<1>2. CASE Disconnect
  BY <1>0, <1>2, <1>i DEF Disconnect, streamVars
<1>3. CASE UNCHANGED <<streamVars, connected, generation>>
  BY <1>3, <1>i DEF streamVars
<1>4. ASSUME NEW d \in Clients, StreamNext(d)
      PROVE  /\ late'[c] <= 1
             /\ stream'[c] = "open" /\ late'[c] # 0
                  => ~judged'[c] /\ ~(connected' /\ generation' = streamGen'[c])
  <2>0. UNCHANGED <<connected, generation>>
    BY <1>4 DEF StreamNext, Subscribe, Recv, Check, Deliver, Close, telemetryVars
  <2>1. CASE d # c
    <3>1. /\ stream'[c] = stream[c] /\ streamGen'[c] = streamGen[c]
          /\ judged'[c] = judged[c] /\ late'[c] = late[c]
      BY <1>0, <1>4, <2>1 DEF StreamNext, Subscribe, Recv, Check, Deliver, Close
    <3> QED
      BY <1>i, <2>0, <3>1
  <2>2. CASE Subscribe(c) \/ Close(c)
    <3>1. late'[c] = 0
      BY <1>0, <2>2 DEF Subscribe, Close
    <3> QED
      BY <3>1
  <2>3. CASE Recv(c)
    BY <1>i, <2>0, <2>3 DEF Recv
  <2>4. CASE Check(c)
    <3>1. late'[c] = late[c] /\ streamGen'[c] = streamGen[c] /\ stream[c] = "open"
      BY <2>4 DEF Check
    <3>2. stream'[c] = "open" => connected /\ generation = streamGen[c]
      BY <1>0, <2>4 DEF Check, Passes, GenerationIsConnected
    <3> QED
      BY <1>i, <2>0, <3>1, <3>2
  <2>5. CASE Deliver(c)
    <3>1. /\ stream[c] = "open" /\ judged[c] /\ judged'[c] = FALSE /\ streamGen'[c] = streamGen[c]
          /\ late'[c] = IF connected /\ generation = streamGen[c] THEN late[c] ELSE late[c] + 1
      BY <1>0, <2>5 DEF Deliver, GenerationIsConnected
    <3>2. late[c] = 0
      BY <1>i, <3>1
    <3> QED
      BY <2>0, <3>1, <3>2
  <2> QED
    BY <1>4, <2>1, <2>2, <2>3, <2>4, <2>5 DEF StreamNext
<1> QED
  BY <1>1, <1>2, <1>3, <1>4
  DEF SharedNext, Update, RemoveDevice, UpdateInverter, UpdateOverride, BroadcastSnapshot, Tick,
      sharedVars, telemetryVars

\* Though nothing is locked between the check of an item and its delivery, a
\* stream gives its client at most one item after its session, whatever the
\* channel still holds.
THEOREM OneLateItemAtMost == SharedSpec => []AtMostOneLateItem
<1>1. SharedInit => StreamSessions /\ LateInv
  BY DEF SharedInit, StreamSessions, LateInv
<1>2. TypeInv /\ StreamSessions /\ LateInv /\ [SharedNext]_sharedVars => StreamSessions' /\ LateInv'
  BY SessionsStep, LateStep
<1>3. SharedSpec => []TypeInv
  BY InitTyped, StepTyped, PTL DEF SharedSpec
<1>4. LateInv => AtMostOneLateItem
  BY DEF LateInv, AtMostOneLateItem
<1> QED
  BY <1>1, <1>2, <1>3, <1>4, PTL DEF SharedSpec
=============================================================================
