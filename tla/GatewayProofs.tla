--------------------------- MODULE GatewayProofs ----------------------------
(* Theorems about Gateway, for every set of environments, tokens and clients. *)
EXTENDS Gateway, FiniteSetTheorems, TLAPS

ConnType == {Idle} \cup [via : Servers, does : {"stream", "command"}, token : Tokens \cup {None}]

Types ==
  /\ server \in [Servers -> {"off", "bound", "accepting", "draining", "closed"}]
  /\ conn \in [Clients -> ConnType]
  /\ forced \in BOOLEAN /\ refused \in BOOLEAN /\ registered \in BOOLEAN

(* main() goes forward: what runs is determined by how far it has come. *)
Starting == {"configuring", "registering", "binding", "starting"}
Running == {"routing", "serving", "draining", "stopping"}

Lifecycle ==
  /\ pc \in Starting \cup Running \cup {"ending", "exited"}
  /\ pc \in Starting => bridge = "off"
  /\ pc \in Running => bridge = "running"
  /\ pc = "ending" => bridge = "stopped"
  /\ pc \notin {"configuring", "registering", "exited"} => registered
  /\ pc = "exited" /\ bridge = "running" => outcome = "panic"

(* A server accepts and drains in one phase each, and a connection outlives   *)
(* its server only if it was told to close.                                   *)
ServerPhases ==
  \A s \in Servers : /\ server[s] = "accepting" => pc = "serving"
                     /\ server[s] = "draining" => pc = "draining"
                     /\ server[s] = "bound" => pc \in {"binding", "starting", "routing"}

Connections ==
  \A c \in Clients : conn[c] # Idle =>
    /\ pc \in {"serving", "draining", "stopping", "ending"}
    /\ server[conn[c].via] # "off"
    /\ server[conn[c].via] = "closed" => forced

(* Nothing runs in an environment that was refused, and what was enqueued     *)
(* carried the API token.                                                     *)
Authorized ==
  /\ pc \notin {"configuring", "exited"} => Accepted
  /\ enqueued # {} => Accepted
  /\ env.insecure \/ \A t \in enqueued : ApiToken # None /\ t = ApiToken

GatewayInv == Types /\ Lifecycle /\ ServerPhases /\ Connections /\ ServedWithABridge

\* The environment does not change, and with it what was read from it.
LEMMA EnvironmentIsFixed ==
  ASSUME env' = env
  PROVE  Accepted' = Accepted /\ ApiToken' = ApiToken /\ ReadToken' = ReadToken
BY DEF Accepted, MqttTransport, MqttTls, MqttPort, HttpsConfig, HttpsSettings, ApiToken,
       ReadToken, Token

\* Ending the process keeps the invariant, if the bridge does not run or the
\* process panics (Exit).
LEMMA ExitKeepsInv ==
  ASSUME GatewayInv, NEW how, Exit(how), UNCHANGED <<registered, bridge, forced, refused>>,
         bridge # "running" \/ how = "panic"
  PROVE  GatewayInv'
<1>1. Types'
  BY DEF GatewayInv, Types, Exit, ConnType
<1>2. Lifecycle'
  BY DEF GatewayInv, Lifecycle, Exit, Starting, Running
<1>3. ServerPhases'
  BY DEF GatewayInv, Types, ServerPhases, Exit, Running
<1>4. Connections'
  BY DEF Connections, Exit
<1> QED
  BY <1>1, <1>2, <1>3, <1>4 DEF GatewayInv, ServedWithABridge

\* Every step keeps the invariant of servers, connections and the bridge.
LEMMA StepKeepsInv == GatewayInv /\ [GatewayNext]_gatewayVars => GatewayInv'
<1> SUFFICES ASSUME GatewayInv, [GatewayNext]_gatewayVars PROVE GatewayInv'
  OBVIOUS
<1> USE DEF GatewayInv
<1>1. CASE Configure
  <2>1. CASE Exit("error")
    BY <1>1, <2>1, ExitKeepsInv DEF Configure, history, Lifecycle, Starting
  <2>2. CASE ~Exit("error")
    BY <1>1, <2>2 DEF Configure, history, Types, Lifecycle, Starting, Running, ServerPhases,
                      Connections, ServedWithABridge
  <2> QED
    BY <2>1, <2>2
<1>2. CASE Register
  <2>1. CASE Exit("error") /\ UNCHANGED registered
    BY <1>2, <2>1, ExitKeepsInv DEF Register, history, Lifecycle, Starting
  <2>2. CASE ~(Exit("error") /\ UNCHANGED registered)
    BY <1>2, <2>2 DEF Register, history, Types, Lifecycle, Starting, Running, ServerPhases,
                      Connections, ServedWithABridge
  <2> QED
    BY <2>1, <2>2
<1>3. CASE BindHttps
  <2>1. CASE Exit("error")
    BY <1>3, <2>1, ExitKeepsInv DEF BindHttps, history, Lifecycle, Starting
  <2>2. CASE ~Exit("error")
    BY <1>3, <2>2 DEF BindHttps, history, Types, Lifecycle, Starting, Running, ServerPhases,
                      Connections, ServedWithABridge, Servers
  <2> QED
    BY <2>1, <2>2
<1>4. CASE BindHttp
  <2>1. CASE Exit("error")
    BY <1>4, <2>1, ExitKeepsInv DEF BindHttp, history, Lifecycle, Starting
  <2>2. CASE ~Exit("error")
    BY <1>4, <2>2 DEF BindHttp, history, Types, Lifecycle, Starting, Running, ServerPhases,
                      Connections, ServedWithABridge, Servers
  <2> QED
    BY <2>1, <2>2
<1>5. CASE StartBridge
  <2>1. CASE Exit("error") /\ UNCHANGED bridge
    BY <1>5, <2>1, ExitKeepsInv DEF StartBridge, history, Lifecycle, Starting
  <2>2. CASE ~(Exit("error") /\ UNCHANGED bridge)
    BY <1>5, <2>2 DEF StartBridge, history, Types, Lifecycle, Starting, Running, ServerPhases,
                      Connections, ServedWithABridge
  <2> QED
    BY <2>1, <2>2
<1>6. CASE Route
  <2>1. CASE Exit("panic")
    BY <1>6, <2>1, ExitKeepsInv DEF Route, history
  <2>2. CASE ~Exit("panic")
    BY <1>6, <2>2 DEF Route, history, Types, Lifecycle, Starting, Running, ServerPhases,
                      Connections, ServedWithABridge
  <2> QED
    BY <2>1, <2>2
<1>7. CASE ServerFails
  BY <1>7 DEF ServerFails, history, Types, Lifecycle, Starting, Running, ServerPhases,
              Connections, ServedWithABridge, ConnType, Idle
<1>8. ASSUME NEW how, Shutdown(how) PROVE GatewayInv'
  BY <1>8 DEF Shutdown, history, Types, Lifecycle, Starting, Running, ServerPhases,
              Connections, ServedWithABridge, ConnType, Idle
<1>9. ASSUME NEW s \in Servers, Drain(s) PROVE GatewayInv'
  <2>1. Types' /\ Lifecycle' /\ ServerPhases' /\ ServedWithABridge'
    BY <1>9 DEF Drain, history, Types, Lifecycle, Starting, Running, ServerPhases,
                ServedWithABridge
  <2>2. ASSUME NEW c \in Clients, conn[c] # Idle, conn[c].via = s PROVE forced'
    BY <1>9, <2>2 DEF Drain, Carried
  <2>3. Connections'
    BY <1>9, <2>2 DEF Drain, Types, Connections, ConnType, Idle
  <2> QED
    BY <2>1, <2>3
<1>10. CASE Served
  BY <1>10 DEF Served, history, Types, Lifecycle, Starting, Running, ServerPhases,
               Connections, ServedWithABridge
<1>11. CASE StopBridge
  BY <1>11 DEF StopBridge, history, Types, Lifecycle, Starting, Running, ServerPhases,
               Connections, ServedWithABridge
<1>12. CASE End
  BY <1>12, ExitKeepsInv DEF End, history, Lifecycle
<1>13. CASE Signal
  <2>1. CASE ~registered /\ Exit("killed")
    <3>1. bridge # "running"
      BY <1>13, <2>1 DEF Signal, Lifecycle, Starting
    <3> QED
      BY <1>13, <2>1, <3>1, ExitKeepsInv DEF Signal, history
  <2>2. CASE ~(~registered /\ Exit("killed"))
    BY <1>13, <2>2 DEF Signal, history, Types, Lifecycle, ServerPhases, Connections,
                       ServedWithABridge
  <2> QED
    BY <2>1, <2>2
<1>14. ASSUME NEW c \in Clients, Command(c) PROVE GatewayInv'
  <2>1. conn[c] # Idle
    BY <1>14 DEF Command, Idle
  <2>2. bridge # "running" => forced
    BY <2>1 DEF Connections, Lifecycle, Starting, Running, ServerPhases, Types, ConnType, Idle
  <2>3. Types' /\ Connections'
    BY <1>14 DEF Command, history, Types, Connections, ConnType
  <2>4. Lifecycle' /\ ServerPhases'
    BY <1>14 DEF Command, Lifecycle, ServerPhases
  <2>5. ServedWithABridge'
    BY <1>14, <2>2 DEF Command, history, ServedWithABridge, Types
  <2> QED
    BY <2>3, <2>4, <2>5
<1>15. ASSUME NEW c \in Clients, Close(c) PROVE GatewayInv'
  BY <1>15 DEF Close, history, Types, Lifecycle, ServerPhases, Connections, ServedWithABridge,
               ConnType
<1>16. ASSUME NEW c \in Clients, NEW s \in Servers, NEW does \in {"stream", "command"},
              NEW token \in Tokens \cup {None}, Open(c, s, does, token)
       PROVE  GatewayInv'
  BY <1>16 DEF Open, history, Types, Lifecycle, ServerPhases, Connections, ServedWithABridge,
               ConnType
<1>17. CASE UNCHANGED gatewayVars
  BY <1>17 DEF gatewayVars, Types, Lifecycle, ServerPhases, Connections, ServedWithABridge
<1> QED
  BY <1>1, <1>2, <1>3, <1>4, <1>5, <1>6, <1>7, <1>8, <1>9, <1>10, <1>11, <1>12, <1>13,
     <1>14, <1>15, <1>16, <1>17
     DEF GatewayNext, Progress, BeginShutdown, SignalStreamEnds

\* The invariant holds when main() begins.
LEMMA InitHasInv == GatewayInit => GatewayInv
BY DEF GatewayInit, GatewayInv, Types, Lifecycle, Starting, Running, ServerPhases, Connections,
       ServedWithABridge, ConnType

\* Whatever fails and whenever a signal comes: a served request finds a bridge,
\* unless its connection was told to close (main, Listeners::serve).
THEOREM CommandsFindABridge == GatewaySpec => []ServedWithABridge
<1>1. GatewayInv => ServedWithABridge
  BY DEF GatewayInv
<1> QED
  BY <1>1, InitHasInv, StepKeepsInv, PTL DEF GatewaySpec

\* The process never ends with its bridge running, except by the panic of
\* router (main).
THEOREM BridgeStopsFirst == GatewaySpec => []BridgeIsStopped
<1>1. GatewayInv => BridgeIsStopped
  BY DEF GatewayInv, Lifecycle, BridgeIsStopped
<1> QED
  BY <1>1, InitHasInv, StepKeepsInv, PTL DEF GatewaySpec

\* The two together: main starts the bridge before anything is served and stops
\* it after everything is.
THEOREM BridgeIsThere == GatewaySpec => []BridgeOutlivesRequests
<1>1. ServedWithABridge /\ BridgeIsStopped => BridgeOutlivesRequests
  BY DEF BridgeOutlivesRequests
<1> QED
  BY <1>1, CommandsFindABridge, BridgeStopsFirst, PTL

-----------------------------------------------------------------------------
\* A step of any kind leaves the environment alone, and only Command adds to
\* what is enqueued.
LEMMA StepKeepsAuthorized ==
  ASSUME Lifecycle, Connections, Authorized, [GatewayNext]_gatewayVars
  PROVE  Authorized'
<1>1. env' = env
  BY DEF GatewayNext, Progress, Configure, Register, BindHttps, BindHttp, StartBridge, Route,
         Drain, Served, StopBridge, End, BeginShutdown, SignalStreamEnds, Shutdown, ServerFails,
         Signal, Command, Close, Open, gatewayVars
<1>2. pc' \notin {"configuring", "exited"} => Accepted
  BY DEF Authorized, GatewayNext, Progress, Configure, Register, BindHttps, BindHttp,
         StartBridge, Route, Drain, Served, StopBridge, End, BeginShutdown, SignalStreamEnds,
         Shutdown, ServerFails, Signal, Command, Close, Open, gatewayVars, Exit
<1>3. ASSUME NEW t \in enqueued', t \notin enqueued
      PROVE  Accepted /\ (env.insecure \/ (ApiToken # None /\ t = ApiToken))
  <2>1. PICK c \in Clients : Command(c)
    BY <1>3 DEF GatewayNext, Progress, Configure, Register, BindHttps, BindHttp, StartBridge,
         Route, Drain, Served, StopBridge, End, BeginShutdown, SignalStreamEnds, Shutdown,
         ServerFails, Signal, Close, Open, gatewayVars, history
  <2>2. conn[c] # Idle
    BY <2>1 DEF Command, Idle
  <2>3. Accepted
    BY <2>2 DEF Connections, Authorized
  <2>4. t = conn[c].token /\ RequireAuth(conn[c].token)
    BY <1>3, <2>1 DEF Command, history
  <2> QED
    BY <2>3, <2>4 DEF RequireAuth
<1> QED
  BY <1>1, <1>2, <1>3, EnvironmentIsFixed DEF Authorized

\* The holder of the read token commands nothing, for every environment that
\* from_env accepts and that leaves authorization on (require_auth,
\* Config::from_env).
THEOREM ReadersOnlyRead == GatewaySpec => []ReadTokenOnlyReads
<1>1. GatewayInit => Authorized
  BY DEF GatewayInit, Authorized
<1>2. GatewayInv /\ Authorized /\ [GatewayNext]_gatewayVars => Authorized'
  BY StepKeepsAuthorized DEF GatewayInv
<1>3. Authorized => ReadTokenOnlyReads
  BY DEF Authorized, ReadTokenOnlyReads, Accepted
<1> QED
  BY <1>1, <1>2, <1>3, InitHasInv, StepKeepsInv, PTL DEF GatewaySpec

-----------------------------------------------------------------------------
(* HTTPS, once it is asked for and accepted, is bound before HTTP and served  *)
(* beside it.                                                                 *)
Encrypted ==
  /\ bridge # "off" => Accepted
  /\ HttpsEnabled =>
       /\ pc \in {"starting", "routing"} => server["https"] = "bound"
       /\ pc = "serving" => server["https"] = "accepting"

\* Every step keeps HTTPS beside HTTP.
LEMMA StepKeepsEncrypted ==
  ASSUME Types, Lifecycle, Authorized, Encrypted, [GatewayNext]_gatewayVars
  PROVE  Encrypted'
<1>1. env' = env
  BY DEF GatewayNext, Progress, Configure, Register, BindHttps, BindHttp, StartBridge, Route,
         Drain, Served, StopBridge, End, BeginShutdown, SignalStreamEnds, Shutdown, ServerFails,
         Signal, Command, Close, Open, gatewayVars
<1>2. HttpsEnabled' = HttpsEnabled
  BY <1>1 DEF HttpsEnabled, HttpsSettings
<1>3. bridge' # "off" => Accepted
  BY DEF Authorized, Encrypted, GatewayNext, Progress, Configure, Register, BindHttps, BindHttp,
         StartBridge, Route, Drain, Served, StopBridge, End, BeginShutdown, SignalStreamEnds,
         Shutdown, ServerFails, Signal, Command, Close, Open, gatewayVars
<1>4. ASSUME HttpsEnabled, pc' \in {"starting", "routing"} PROVE server'["https"] = "bound"
  BY <1>4 DEF Types, Servers, Encrypted, GatewayNext, Progress, Configure, Register, BindHttps,
         BindHttp, StartBridge, Route, Drain, Served, StopBridge, End, BeginShutdown,
         SignalStreamEnds, Shutdown, ServerFails, Signal, Command, Close, Open, gatewayVars, Exit
<1>5. ASSUME HttpsEnabled, pc' = "serving" PROVE server'["https"] = "accepting"
  BY <1>5 DEF Types, Servers, Encrypted, GatewayNext, Progress, Configure, Register, BindHttps,
         BindHttp, StartBridge, Route, Drain, Served, StopBridge, End, BeginShutdown,
         SignalStreamEnds, Shutdown, ServerFails, Signal, Command, Close, Open, gatewayVars, Exit
<1> QED
  BY <1>1, <1>2, <1>3, <1>4, <1>5, EnvironmentIsFixed DEF Encrypted

\* Encryption that any setting asks for is used or the gateway does not run,
\* for every environment (Config::from_env, Listeners::bind, serve).
THEOREM PlaintextIsNeverSilent == GatewaySpec => []NoSilentPlaintext
<1>1. GatewayInit => Authorized /\ Encrypted
  BY DEF GatewayInit, Authorized, Encrypted
<1>2. GatewayInv /\ Authorized /\ [GatewayNext]_gatewayVars => Authorized'
  BY StepKeepsAuthorized DEF GatewayInv
<1>3. GatewayInv /\ Authorized /\ Encrypted /\ [GatewayNext]_gatewayVars => Encrypted'
  BY StepKeepsEncrypted DEF GatewayInv
<1>4. ASSUME GatewayInv, Authorized, Encrypted PROVE NoSilentPlaintext
  <2>1. Accepted /\ HttpsSettings # {None} => HttpsEnabled
    <3>1. "address" \notin {None, Garbled, ""}
      BY GatewayAssumption
    <3> QED
      BY <3>1 DEF Accepted, HttpsConfig, HttpsSettings, HttpsEnabled
  <2>2. server["http"] = "accepting" /\ HttpsSettings # {None} => server["https"] = "accepting"
    BY <1>4, <2>1 DEF GatewayInv, ServerPhases, Authorized, Encrypted, Servers
  <2>3. bridge = "running" /\ ~MqttTls =>
          env.mqttTls \in {None, "0", "false"} /\ env.mqttCa = None
    <3>1. bridge = "running" => MqttTransport
      BY <1>4 DEF Encrypted, Accepted
    <3>2. MqttTransport => /\ env.mqttTls \in {None, "0", "false", "1", "true"}
                           /\ env.mqttCa = None \/ MqttTls
      BY DEF MqttTransport
    <3>3. ~MqttTls => env.mqttTls \notin {"1", "true"}
      BY DEF MqttTls
    <3> QED
      BY <3>1, <3>2, <3>3
  <2> QED
    BY <2>2, <2>3 DEF NoSilentPlaintext
<1> QED
  BY <1>1, <1>2, <1>3, <1>4, InitHasInv, StepKeepsInv, PTL DEF GatewaySpec

\* The two together: whatever the settings, the gateway that runs is the one
\* they ask for (Config::from_env, Listeners::bind, require_auth).
THEOREM ConfigurationIsKept == GatewaySpec => []RunsAsConfigured
<1>1. NoSilentPlaintext /\ ReadTokenOnlyReads => RunsAsConfigured
  BY DEF RunsAsConfigured
<1> QED
  BY <1>1, PlaintextIsNeverSilent, ReadersOnlyRead, PTL
-----------------------------------------------------------------------------
(* Sources that are counted: what parse_sources and the two checks on         *)
(* overlaps leave measures disjoint things.                                   *)

\* No entry of an accepted list is repeated: a list as long as it has members
\* is injective (parse_sources).
LEMMA EntriesDiffer ==
  ASSUME NEW list \in Seq(SourceType), NEW kind, ParseSources(list, kind)
  PROVE  \A i, j \in DOMAIN list : list[i] = list[j] => i = j
<1>1. DOMAIN list = 1 .. Len(list) /\ Len(list) \in Nat
  OBVIOUS
<1>2. IsFiniteSet(DOMAIN list) /\ Cardinality(DOMAIN list) = Len(list)
  BY <1>1, FS_Interval
<1>3. list \in Surjection(DOMAIN list, Members(list))
  BY DEF Surjection, Members
<1>4. Cardinality(DOMAIN list) = Cardinality(Members(list))
  BY <1>2 DEF ParseSources
<1>5. list \in Injection(DOMAIN list, Members(list))
  BY <1>2, <1>3, <1>4, FS_SurjSameCardinalityImpliesInj
<1> QED
  BY <1>5 DEF Injection, IsInjective

\* A list double counts only if two different members of it overlap.
LEMMA DoubleCountsAreMembers ==
  ASSUME NEW list \in Seq(SourceType), NEW kind, ParseSources(list, kind), NEW devices,
         \A s, t \in Members(list), wiring \in [devices -> PvFamilies] :
           s # t => Measured(s, devices, wiring) \cap Measured(t, devices, wiring) = {}
  PROVE  ~DoubleCounts(list, devices)
BY EntriesDiffer DEF DoubleCounts, Members

\* Sources are equal when their parts are; two of one instance and one spelling
\* differ in family or in phase.
LEMMA SameSource ==
  ASSUME NEW s \in SourceType, NEW t \in SourceType, s.service = t.service,
         s.number = t.number, s.zeros = t.zeros, s.family = t.family, s.phase = t.phase
  PROVE  s = t
BY DEF SourceType

\* What a source of power measures, by what it is (Measured).
LEMMA PowerMeasured ==
  ASSUME NEW u, NEW devices, NEW wiring
  PROVE  /\ u.service = "solarcharger" /\ u.family = "Yield" =>
              Measured(u, devices, wiring) = {<<"charger", u.number>>}
         /\ u.service = "system" /\ u.family = "Dc/Pv" =>
              Measured(u, devices, wiring) = {<<"charger", n>> : n \in devices}
         /\ u.service = "pvinverter" /\ u.family = "Ac" =>
              Measured(u, devices, wiring) =
                {<<"inverter", u.number, p>> : p \in PhasesOf(u)}
         /\ u.service = "system" /\ u.family \in PvFamilies =>
              Measured(u, devices, wiring) =
                {<<"inverter", n, p>> : n \in {d \in devices : wiring[d] = u.family},
                                        p \in PhasesOf(u)}
BY DEF Measured, PvFamilies

\* Power: no aggregate beside its devices, no total beside its phases, and one
\* system instance (validate_power_overlap).
LEMMA PowerIsDisjoint ==
  ASSUME NEW sources \in SUBSET SourceType, \A s \in sources : MetricKind(s, "Power"),
         ValidatePowerOverlap(sources), NEW devices, NEW wiring \in [devices -> PvFamilies],
         NEW s \in sources, NEW t \in sources, s # t
  PROVE  Measured(s, devices, wiring) \cap Measured(t, devices, wiring) = {}
<1> DEFINE Charger(u) == u.service = "solarcharger" /\ u.family = "Yield" /\ u.phase = ""
           DcPv(u) == u.service = "system" /\ u.family = "Dc/Pv" /\ u.phase = ""
           Inverter(u) == /\ u.service = "pvinverter" /\ u.family = "Ac"
                          /\ u.phase \in {""} \cup Phases
           PvSum(u) == /\ u.service = "system" /\ u.family \in PvFamilies
                       /\ u.phase \in {"Total"} \cup Phases
<1>1. ASSUME NEW u \in sources
      PROVE  u.zeros = 0 /\ (Charger(u) \/ DcPv(u) \/ Inverter(u) \/ PvSum(u))
  BY DEF MetricKind, LeafKind
<1>2. ASSUME NEW u, Charger(u)
      PROVE  Measured(u, devices, wiring) = {<<"charger", u.number>>}
  <2>1. u.service = "solarcharger" /\ u.family = "Yield"
    BY <1>2
  <2> HIDE DEF Charger, DcPv, Inverter, PvSum
  <2> QED
    BY <2>1, PowerMeasured
<1>3. ASSUME NEW u, DcPv(u)
      PROVE  Measured(u, devices, wiring) = {<<"charger", n>> : n \in devices}
  <2>1. u.service = "system" /\ u.family = "Dc/Pv"
    BY <1>3
  <2> HIDE DEF Charger, DcPv, Inverter, PvSum
  <2> QED
    BY <2>1, PowerMeasured
<1>4. ASSUME NEW u, Inverter(u)
      PROVE  Measured(u, devices, wiring) = {<<"inverter", u.number, p>> : p \in PhasesOf(u)}
  <2>1. u.service = "pvinverter" /\ u.family = "Ac"
    BY <1>4
  <2> HIDE DEF Charger, DcPv, Inverter, PvSum
  <2> QED
    BY <2>1, PowerMeasured
<1>5. ASSUME NEW u, PvSum(u)
      PROVE  Measured(u, devices, wiring) =
               {<<"inverter", n, p>> : n \in {d \in devices : wiring[d] = u.family},
                                       p \in PhasesOf(u)}
  <2>1. u.service = "system" /\ u.family \in PvFamilies
    BY <1>5
  <2> HIDE DEF Charger, DcPv, Inverter, PvSum
  <2> QED
    BY <2>1, PowerMeasured
<1>6. s \in SourceType /\ t \in SourceType
  OBVIOUS
<1>7. ~(DcPv(s) /\ Charger(t)) /\ ~(DcPv(t) /\ Charger(s))
  BY DEF ValidatePowerOverlap
<1>8. ~(PvSum(s) /\ Inverter(t)) /\ ~(PvSum(t) /\ Inverter(s))
  BY DEF ValidatePowerOverlap
<1>9. s.service = "system" /\ t.service = "system" => s.number = t.number
  BY DEF ValidatePowerOverlap, Instance
<1>10. ~(DcPv(s) /\ DcPv(t))
  BY <1>1, <1>6, <1>9, SameSource
<1>11. Charger(s) /\ Charger(t) => s.number # t.number
  BY <1>1, <1>6, SameSource
<1>12. ASSUME s.service = t.service, s.family = t.family, s.number = t.number,
              s.phase = "Total" \/ (s.family = "Ac" /\ s.phase = "")
       PROVE  t.phase \notin Phases
  <2>1. t.zeros = s.zeros
    BY <1>1
  <2>2. [t EXCEPT !.phase = s.phase] = s
    BY <1>6, <1>12, <2>1 DEF SourceType
  <2> QED
    BY <1>12, <2>2 DEF ValidatePowerOverlap
<1>13. ASSUME s.service = t.service, s.family = t.family, s.number = t.number,
              t.phase = "Total" \/ (t.family = "Ac" /\ t.phase = "")
       PROVE  s.phase \notin Phases
  <2>1. t.zeros = s.zeros
    BY <1>1
  <2>2. [s EXCEPT !.phase = t.phase] = t
    BY <1>6, <1>13, <2>1 DEF SourceType
  <2> QED
    BY <1>13, <2>2 DEF ValidatePowerOverlap
<1>14. ASSUME s.service = t.service, s.family = t.family, s.number = t.number
       PROVE  s.phase # t.phase
  BY <1>1, <1>6, <1>14, SameSource
<1>15. ASSUME Inverter(s), Inverter(t), s.number = t.number
       PROVE  PhasesOf(s) \cap PhasesOf(t) = {}
  BY <1>12, <1>13, <1>14, <1>15 DEF PhasesOf
<1>16. ASSUME PvSum(s), PvSum(t), s.family = t.family
       PROVE  PhasesOf(s) \cap PhasesOf(t) = {}
  BY <1>9, <1>12, <1>13, <1>14, <1>16 DEF PhasesOf, Phases
<1> HIDE DEF Charger, DcPv, Inverter, PvSum
<1>17. CASE Charger(s)
  <2>1. CASE Charger(t)
    BY <1>2, <1>11, <1>17, <2>1
  <2>2. CASE Inverter(t)
    BY <1>2, <1>4, <1>17, <2>2
  <2>3. CASE PvSum(t)
    BY <1>2, <1>5, <1>17, <2>3
  <2> QED
    BY <1>1, <1>7, <1>17, <2>1, <2>2, <2>3
<1>18. CASE DcPv(s)
  <2>1. CASE Inverter(t)
    BY <1>3, <1>4, <1>18, <2>1
  <2>2. CASE PvSum(t)
    BY <1>3, <1>5, <1>18, <2>2
  <2> QED
    BY <1>1, <1>7, <1>10, <1>18, <2>1, <2>2
<1>19. CASE Inverter(s)
  <2>1. CASE Charger(t)
    BY <1>2, <1>4, <1>19, <2>1
  <2>2. CASE DcPv(t)
    BY <1>3, <1>4, <1>19, <2>2
  <2>3. CASE Inverter(t)
    BY <1>4, <1>15, <1>19, <2>3
  <2> QED
    BY <1>1, <1>8, <1>19, <2>1, <2>2, <2>3
<1>20. CASE PvSum(s)
  <2>1. CASE Charger(t)
    BY <1>2, <1>5, <1>20, <2>1
  <2>2. CASE DcPv(t)
    BY <1>3, <1>5, <1>20, <2>2
  <2>3. CASE PvSum(t)
    BY <1>5, <1>16, <1>20, <2>3
  <2> QED
    BY <1>1, <1>8, <1>20, <2>1, <2>2, <2>3
<1> QED
  BY <1>1, <1>17, <1>18, <1>19, <1>20

\* Yield of today: one device, one source (metric_kind).
LEMMA TodayIsDisjoint ==
  ASSUME NEW s \in SourceType, NEW t \in SourceType, MetricKind(s, "Today"),
         MetricKind(t, "Today"), s # t, NEW devices, NEW wiring
  PROVE  Measured(s, devices, wiring) \cap Measured(t, devices, wiring) = {}
<1> DEFINE Charger(u) == u.service = "solarcharger" /\ u.family = "History/Daily/0/Yield"
           Inverter(u) == u.service = "pvinverter" /\ u.family = "Ac/Energy/Daily"
<1>1. ASSUME NEW u \in SourceType, MetricKind(u, "Today")
      PROVE  u.zeros = 0 /\ u.phase = "" /\ (Charger(u) \/ Inverter(u))
  BY <1>1 DEF MetricKind, LeafKind, Today
<1>2. ASSUME NEW u \in SourceType, Charger(u)
      PROVE  Measured(u, devices, wiring) = {<<"charger", u.number>>}
  BY <1>2 DEF Measured, PvFamilies
<1>3. ASSUME NEW u \in SourceType, Inverter(u)
      PROVE  Measured(u, devices, wiring) = {<<"inverter", u.number, p>> : p \in PhasesOf(u)}
  BY <1>3 DEF Measured, PvFamilies
<1>4. (Charger(s) /\ Charger(t)) \/ (Inverter(s) /\ Inverter(t)) => s.number # t.number
  BY <1>1, SameSource
<1> HIDE DEF Charger, Inverter
<1>5. CASE Charger(s) /\ Charger(t)
  BY <1>2, <1>4, <1>5
<1>6. CASE Charger(s) /\ Inverter(t)
  BY <1>2, <1>3, <1>6
<1>7. CASE Inverter(s) /\ Charger(t)
  BY <1>2, <1>3, <1>7
<1>8. CASE Inverter(s) /\ Inverter(t)
  BY <1>3, <1>4, <1>8
<1> QED
  BY <1>1, <1>5, <1>6, <1>7, <1>8

\* Flows: one system instance, and no consumption of a phase beside one of its
\* parts (with_flow_sources).
LEMMA FlowsAreDisjoint ==
  ASSUME NEW load, Members(load) \subseteq SourceType, NEW grid, NEW battery,
         Members(grid) \subseteq SourceType,
         WithFlowSources(load, grid, battery), NEW devices, NEW wiring,
         NEW s, NEW t, s # t,
         (s \in Members(load) /\ t \in Members(load)) \/ (s \in Members(grid) /\ t \in Members(grid))
  PROVE  Measured(s, devices, wiring) \cap Measured(t, devices, wiring) = {}
<1> DEFINE Part(u) == /\ u.service = "system" /\ u.phase \in Phases
                      /\ u.family \in {"Ac/ConsumptionOnInput", "Ac/ConsumptionOnOutput", "Ac/Grid"}
           Whole(u) == u.service = "system" /\ u.phase \in Phases /\ u.family = "Ac/Consumption"
<1>1. /\ s \in SourceType /\ t \in SourceType
      /\ s.zeros = 0 /\ (Part(s) \/ Whole(s)) /\ t.zeros = 0 /\ (Part(t) \/ Whole(t))
  BY DEF WithFlowSources, ParseSources, MetricKind, LeafKind
<1>2. s.number = t.number /\ s.service = t.service
  BY <1>1 DEF WithFlowSources, Instance
<1>3. s.family # t.family \/ s.phase # t.phase
  BY <1>1, <1>2, SameSource
<1>4. ASSUME Whole(s), Part(t) PROVE t.family # "Ac/Grid" /\ s.phase # t.phase
  <2>1. s \in Members(load) /\ t \in Members(load)
    BY <1>4 DEF WithFlowSources, ParseSources, MetricKind, LeafKind
  <2>2. t.family # "Ac/Grid"
    BY <2>1 DEF WithFlowSources, ParseSources, MetricKind, LeafKind
  <2>3. s.phase = t.phase => [t EXCEPT !.family = s.family] = s
    BY <1>1, <1>2 DEF SourceType
  <2> QED
    BY <1>4, <2>1, <2>2, <2>3 DEF WithFlowSources
<1>5. ASSUME Whole(t), Part(s) PROVE s.family # "Ac/Grid" /\ s.phase # t.phase
  <2>1. s \in Members(load) /\ t \in Members(load)
    BY <1>5 DEF WithFlowSources, ParseSources, MetricKind, LeafKind
  <2>2. s.family # "Ac/Grid"
    BY <2>1 DEF WithFlowSources, ParseSources, MetricKind, LeafKind
  <2>3. s.phase = t.phase => [s EXCEPT !.family = t.family] = t
    BY <1>1, <1>2 DEF SourceType
  <2> QED
    BY <1>5, <2>1, <2>2, <2>3 DEF WithFlowSources
<1>6. ASSUME NEW u, Part(u) PROVE Measured(u, devices, wiring) = {<<u.family, u.phase>>}
  BY <1>6 DEF Measured, PvFamilies
<1>7. ASSUME NEW u, Whole(u)
      PROVE  Measured(u, devices, wiring) =
               {<<side, u.phase>> : side \in {"Ac/ConsumptionOnInput", "Ac/ConsumptionOnOutput"}}
  BY <1>7 DEF Measured, PvFamilies
<1>8. Whole(s) /\ Whole(t) => s.phase # t.phase
  BY <1>3
<1> HIDE DEF Part, Whole
<1>9. CASE Part(s) /\ Part(t)
  BY <1>3, <1>6, <1>9
<1>10. CASE Whole(s) /\ Part(t)
  BY <1>4, <1>6, <1>7, <1>10
<1>11. CASE Part(s) /\ Whole(t)
  BY <1>5, <1>6, <1>7, <1>11
<1>12. CASE Whole(s) /\ Whole(t)
  BY <1>7, <1>8, <1>12
<1> QED
  BY <1>1, <1>9, <1>10, <1>11, <1>12

\* Whatever EnergyConfig::parse and with_flow_sources accept counts nothing
\* twice.
LEMMA AcceptedCountsOnce ==
  ASSUME NEW e, NEW devices, ParseEnergy(e),
         {e.power, e.today, e.load, e.grid} \subseteq Seq(SourceType)
  PROVE  \A list \in {e.power, e.today, e.load, e.grid} : ~DoubleCounts(list, devices)
<1>1. ASSUME NEW list \in Seq(SourceType) PROVE Members(list) \subseteq SourceType
  BY DEF Members
<1>2. ~DoubleCounts(e.power, devices)
  <2>1. ParseSources(e.power, "Power") /\ ValidatePowerOverlap(Members(e.power))
    BY DEF ParseEnergy
  <2>2. \A u \in Members(e.power) : MetricKind(u, "Power")
    BY <2>1 DEF ParseSources
  <2> QED
    BY <1>1, <2>1, <2>2, DoubleCountsAreMembers, PowerIsDisjoint
<1>3. ~DoubleCounts(e.today, devices)
  <2>1. ParseSources(e.today, "Today")
    BY DEF ParseEnergy
  <2>2. \A u \in Members(e.today) : MetricKind(u, "Today")
    BY <2>1 DEF ParseSources
  <2> QED
    BY <1>1, <2>1, <2>2, DoubleCountsAreMembers, TodayIsDisjoint
<1>4. WithFlowSources(e.load, e.grid, e.batteryPower)
  BY DEF ParseEnergy
<1>5. ParseSources(e.load, "LoadPower") /\ ParseSources(e.grid, "GridPower")
  BY <1>4 DEF WithFlowSources
<1>6. Members(e.load) \subseteq SourceType /\ Members(e.grid) \subseteq SourceType
  BY <1>1
<1>7. ~DoubleCounts(e.load, devices)
  <2>1. \A s, t \in Members(e.load), wiring \in [devices -> PvFamilies] :
          s # t => Measured(s, devices, wiring) \cap Measured(t, devices, wiring) = {}
    BY <1>4, <1>6, FlowsAreDisjoint
  <2> QED
    BY <1>5, <2>1, DoubleCountsAreMembers
<1>8. ~DoubleCounts(e.grid, devices)
  <2>1. \A s, t \in Members(e.grid), wiring \in [devices -> PvFamilies] :
          s # t => Measured(s, devices, wiring) \cap Measured(t, devices, wiring) = {}
    BY <1>4, <1>6, FlowsAreDisjoint
  <2> QED
    BY <1>5, <2>1, DoubleCountsAreMembers
<1> QED
  BY <1>2, <1>3, <1>7, <1>8

\* For every environment and every wiring of every number of devices: a gateway
\* that came past its configuration counts nothing twice (EnergyConfig::parse).
THEOREM SourcesCountOnce == GatewaySpec => []NoDoubleCount
<1> DEFINE Known == env \in Environments
<1>1. GatewayInit => Authorized /\ Known
  BY DEF GatewayInit, Authorized
<1>2. GatewayInv /\ Authorized /\ [GatewayNext]_gatewayVars => Authorized'
  BY StepKeepsAuthorized DEF GatewayInv
<1>3. Known /\ [GatewayNext]_gatewayVars => Known'
  BY DEF GatewayNext, Progress, Configure, Register, BindHttps, BindHttp, StartBridge, Route,
         Drain, Served, StopBridge, End, BeginShutdown, SignalStreamEnds, Shutdown, ServerFails,
         Signal, Command, Close, Open, gatewayVars
<1>4. ASSUME Authorized, Known PROVE NoDoubleCount
  <2>1. ASSUME pc \notin {"configuring", "exited"} PROVE ParseEnergy(env.energy)
    BY <1>4, <2>1 DEF Authorized, Accepted
  <2>2. {env.energy.power, env.energy.today, env.energy.load, env.energy.grid}
          \subseteq Seq(SourceType)
    BY <1>4, GatewayAssumption
  <2> QED
    BY <2>1, <2>2, AcceptedCountsOnce DEF NoDoubleCount
<1> HIDE DEF Known
<1> QED
  BY <1>1, <1>2, <1>3, <1>4, InitHasInv, StepKeepsInv, PTL DEF GatewaySpec
=============================================================================
