------------------------------ MODULE Gateway -------------------------------
(***************************************************************************)
(* The life of the process (src/src/main.rs, transport.rs, config.rs and   *)
(* the authorization of http.rs): read the environment, register the       *)
(* signals, bind the sockets, start the MQTT bridge, serve, drain, stop    *)
(* the bridge, exit.  What the bridge does is the module Bridge; here it   *)
(* runs or not.  Requests that are answered at once and change nothing are *)
(* left out: what remains are event streams, which last, and commands,     *)
(* whose body may take any time to arrive.                                 *)
(***************************************************************************)
EXTENDS Sources

CONSTANTS
  Environments,  \* the environments the process may be started in
  Tokens,        \* the texts a token may have
  None,          \* an unset variable, and the None of an Option
  Garbled,       \* a variable that is not valid UTF-8
  Clients,       \* connections that clients may hold
  Devices        \* numbers of the installed solar chargers and PV inverters

Settings == Tokens \cup {None, Garbled, ""}

ASSUME GatewayAssumption ==
  /\ None \notin Tokens /\ Garbled \notin Tokens \cup {None} /\ "" \notin Tokens
  /\ "address" \notin {None, Garbled}
  /\ \A e \in Environments :
       /\ e.required \in BOOLEAN /\ e.insecure \in BOOLEAN /\ e.topics \in BOOLEAN
       /\ e.origins \in BOOLEAN
       /\ e.api \in Settings /\ e.read \in Settings
       /\ {e.energy.power, e.energy.today, e.energy.load, e.energy.grid} \subseteq Seq(SourceType)

VARIABLES
  env,       \* the environment variables
  pc,        \* how far main() has come
  outcome,   \* how the process ended, "none" while it runs
  registered, \* the handlers of SIGINT and SIGTERM are in place
  signalled, \* a registered signal has arrived and was not waited for yet
  server,    \* "http" and "https": "off", "bound", "accepting", "draining", "closed"
  bridge,    \* the MQTT bridge: "off", "running", "stopped"
  conn,      \* what each connection carries, Idle if the client has none
  forced,    \* history: connections were told to close without waiting for them
  enqueued,  \* history: credentials whose commands reached the bridge
  refused    \* history: a command was refused for want of a bridge

gatewayVars == <<env, pc, outcome, registered, signalled, server, bridge, conn, forced,
                 enqueued, refused>>
history == <<enqueued, refused>>

Servers == {"http", "https"}
Idle == [via |-> "none", does |-> "none", token |-> None]

-----------------------------------------------------------------------------
(* Config::from_env *)

\* env::var(..).ok().filter(..) of a token
Token(setting) == IF setting \in {None, Garbled, ""} THEN None ELSE setting
ApiToken == Token(env.api)
ReadToken == Token(env.read)

\* parse_mqtt_transport over optional_env
MqttTls == env.mqttTls \in {"1", "true"}
MqttPort == env.mqttPort = None \/ env.mqttPort \in 1 .. 65535
MqttTransport ==
  /\ env.mqttTls \in {None, "0", "false", "1", "true"}
  /\ env.mqttCa = None \/ (MqttTls /\ env.mqttCa \notin {Garbled, ""})
  /\ MqttPort

HttpsSettings == {env.httpsBind, env.cert, env.key}

\* Mutant: incomplete settings mean that HTTPS is off.
HttpsConfigLenient == TRUE

\* HttpsConfig::parse over optional_env: all three settings or none.
HttpsConfig ==
  \/ HttpsSettings = {None}
  \/ /\ env.httpsBind = "address"      \* parses, and is not HTTP_BIND
     /\ env.cert \notin {None, Garbled, ""} /\ env.key \notin {None, Garbled, ""}
HttpsEnabled == \A s \in HttpsSettings : s \notin {None, Garbled, ""}

\* Mutant: the two tokens may be equal.
AcceptedWithEqualTokens ==
  /\ env.required /\ MqttTransport /\ HttpsConfig
  /\ ParseEnergy(env.energy)
  /\ ApiToken # None \/ env.insecure
  /\ env.topics

\* from_env: required are the host and the credentials of the broker and a
\* sound HTTP_BIND, topics a literal INVERTER_TOPIC_PREFIX.
Accepted ==
  /\ env.required /\ MqttTransport /\ HttpsConfig
  /\ ReadToken = None \/ ReadToken # ApiToken
  /\ ParseEnergy(env.energy)
  /\ ApiToken # None \/ env.insecure
  /\ env.topics

-----------------------------------------------------------------------------
GatewayInit ==
  /\ env \in Environments
  /\ pc = "configuring" /\ outcome = "none" /\ registered = FALSE /\ signalled = FALSE
  /\ server = [s \in Servers |-> "off"] /\ bridge = "off"
  /\ conn = [c \in Clients |-> Idle] /\ forced = FALSE
  /\ enqueued = {} /\ refused = FALSE

\* The process ends; the operating system takes back its sockets.
Exit(how) ==
  /\ pc' = "exited" /\ outcome' = how
  /\ server' = [s \in Servers |-> IF server[s] = "off" THEN "off" ELSE "closed"]
  /\ conn' = [c \in Clients |-> Idle]

Configure ==
  /\ pc = "configuring"
  /\ \/ Accepted /\ pc' = "registering" /\ UNCHANGED <<outcome, server, conn>>
     \/ ~Accepted /\ Exit("error")
  /\ UNCHANGED <<env, registered, signalled, bridge, forced, history>>

\* Mutant: nobody registers for signals until the servers wait for them.
RegisterLate ==
  /\ pc = "registering"
  /\ pc' = "binding"
  /\ UNCHANGED <<env, registered, outcome, signalled, server, bridge, conn, forced, history>>

\* shutdown_signal, which may fail.
Register ==
  /\ pc = "registering"
  /\ \/ pc' = "binding" /\ registered' = TRUE /\ UNCHANGED <<outcome, server, conn>>
     \/ Exit("error") /\ UNCHANGED registered
  /\ UNCHANGED <<env, signalled, bridge, forced, history>>

\* Listeners::bind: certificate, key and socket of HTTPS first, then HTTP.  Any
\* of them may fail.
BindHttps ==
  /\ pc = "binding" /\ HttpsEnabled /\ server["https"] = "off"
  /\ \/ server' = [server EXCEPT !["https"] = "bound"] /\ UNCHANGED <<pc, outcome, conn>>
     \/ Exit("error")
  /\ UNCHANGED <<env, registered, signalled, bridge, forced, history>>

BindHttp ==
  /\ pc = "binding" /\ (HttpsEnabled => server["https"] = "bound")
  /\ \/ server' = [server EXCEPT !["http"] = "bound"] /\ pc' = "starting"
        /\ UNCHANGED <<outcome, conn>>
     \/ Exit("error")
  /\ UNCHANGED <<env, registered, signalled, bridge, forced, history>>

\* MqttBridge::start: fails on unusable TLS material, before anything runs.
StartBridge ==
  /\ pc = "starting"
  /\ \/ bridge' = "running" /\ pc' = "routing" /\ UNCHANGED <<outcome, server, conn>>
     \/ MqttTls /\ Exit("error") /\ UNCHANGED bridge
  /\ UNCHANGED <<env, registered, signalled, forced, history>>

\* http::router unwraps the origins it parses; then the listeners are served.
Route ==
  /\ pc = "routing"
  /\ \/ /\ env.origins
        /\ pc' = "serving"
        /\ server' = [s \in Servers |-> IF server[s] = "bound" THEN "accepting" ELSE "off"]
        /\ UNCHANGED <<outcome, conn>>
     \/ ~env.origins /\ Exit("panic")
  /\ UNCHANGED <<env, registered, signalled, bridge, forced, history>>

\* Listeners::serve, first branch: one server fails, and the connections of
\* both are told to close.
ServerFails ==
  /\ pc = "serving"
  /\ server' = [s \in Servers |-> IF server[s] = "off" THEN "off" ELSE "closed"]
  /\ forced' = TRUE /\ pc' = "stopping" /\ outcome' = "error"
  /\ UNCHANGED <<env, registered, signalled, bridge, conn, history>>

\* Listeners::serve, second branch: both servers stop accepting.
Shutdown(result) ==
  /\ pc = "serving"
  /\ pc' = "draining" /\ outcome' = result
  /\ server' = [s \in Servers |-> IF server[s] = "accepting" THEN "draining" ELSE server[s]]
  /\ UNCHANGED <<env, registered, bridge, conn, forced, history>>

\* The future of prepare_shutdown ends with a signal, or with its stream.
BeginShutdown == signalled /\ signalled' = FALSE /\ Shutdown("ok")
SignalStreamEnds == UNCHANGED signalled /\ Shutdown("error")

Carried(s) == {c \in Clients : conn[c].via = s}

\* Mutant: a server waits for its last connection.
DrainWithoutDeadline(s) ==
  /\ server[s] = "draining" /\ Carried(s) = {}
  /\ server' = [server EXCEPT ![s] = "closed"]
  /\ UNCHANGED <<env, registered, pc, outcome, signalled, bridge, conn, forced, history>>

\* graceful_shutdown(5 s), as axum_server does it: the server ends with its last
\* connection or at the deadline, when it tells the others to close.
Drain(s) ==
  /\ server[s] = "draining"
  /\ server' = [server EXCEPT ![s] = "closed"]
  /\ forced' = (forced \/ Carried(s) # {})
  /\ UNCHANGED <<env, registered, pc, outcome, signalled, bridge, conn, history>>

\* Mutant: the bridge is stopped as soon as the shutdown begins.
ServedAtOnce ==
  /\ pc = "draining"
  /\ pc' = "stopping"
  /\ UNCHANGED <<env, registered, outcome, signalled, server, bridge, conn, forced, history>>

\* servers.await: both servers have ended.
Served ==
  /\ pc = "draining" /\ \A s \in Servers : server[s] \in {"off", "closed"}
  /\ pc' = "stopping"
  /\ UNCHANGED <<env, registered, outcome, signalled, server, bridge, conn, forced, history>>

\* mqtt.shutdown().await, then the end of main.
StopBridge ==
  /\ pc = "stopping" /\ bridge' = "stopped" /\ pc' = "ending"
  /\ UNCHANGED <<env, registered, outcome, signalled, server, conn, forced, history>>

End ==
  /\ pc = "ending" /\ Exit(outcome)
  /\ UNCHANGED <<env, registered, signalled, bridge, forced, history>>

\* SIGINT or SIGTERM: kills a process that has not registered for it yet.
Signal ==
  /\ pc # "exited" /\ ~signalled
  /\ \/ ~registered /\ Exit("killed") /\ UNCHANGED signalled
     \/ registered /\ signalled' = TRUE /\ UNCHANGED <<pc, outcome, server, conn>>
  /\ UNCHANGED <<env, registered, bridge, forced, history>>

-----------------------------------------------------------------------------
(* Clients *)

\* require_auth, require_read_auth: what a request's bearer token may do.
RequireAuth(token) == env.insecure \/ (ApiToken # None /\ token = ApiToken)
RequireReadAuth(token) == RequireAuth(token) \/ (ReadToken # None /\ token = ReadToken)

\* GET /v1/events, and the head of POST /v1/commands/{name}.
Open(c, s, does, token) ==
  /\ server[s] = "accepting" /\ conn[c] = Idle
  /\ does = "stream" => RequireReadAuth(token)
  /\ conn' = [conn EXCEPT ![c] = [via |-> s, does |-> does, token |-> token]]
  /\ UNCHANGED <<env, registered, pc, outcome, signalled, server, bridge, forced, history>>

\* command_post, once the body is there: authorize, then hand over to the
\* bridge; without one, the answer is "not wired" or "publish failed".
Command(c) ==
  /\ conn[c].does = "command"
  /\ IF ~RequireAuth(conn[c].token) THEN UNCHANGED history
     ELSE IF bridge = "running"
       THEN enqueued' = enqueued \cup {conn[c].token} /\ UNCHANGED refused
     ELSE refused' = TRUE /\ UNCHANGED enqueued
  /\ conn' = [conn EXCEPT ![c] = Idle]
  /\ UNCHANGED <<env, registered, pc, outcome, signalled, server, bridge, forced>>

\* The client goes away, or a connection that was told to close does.
Close(c) ==
  /\ conn[c] # Idle
  /\ conn' = [conn EXCEPT ![c] = Idle]
  /\ UNCHANGED <<env, registered, pc, outcome, signalled, server, bridge, forced, history>>

Progress ==
  \/ Configure \/ Register \/ BindHttps \/ BindHttp \/ StartBridge \/ Route
  \/ (\E s \in Servers : Drain(s)) \/ Served \/ StopBridge \/ End

GatewayNext ==
  \/ Progress \/ BeginShutdown \/ SignalStreamEnds \/ ServerFails \/ Signal
  \/ \E c \in Clients : Command(c) \/ Close(c)
  \/ \E c \in Clients, s \in Servers, token \in Tokens \cup {None} :
       Open(c, s, "stream", token) \/ Open(c, s, "command", token)

\* Every step of main() and of a server's shutdown is taken in the end; clients
\* promise nothing, a stream least of all.
GatewaySpec ==
  /\ GatewayInit /\ [][GatewayNext]_gatewayVars
  /\ WF_gatewayVars(Progress) /\ WF_gatewayVars(BeginShutdown)

-----------------------------------------------------------------------------
(* Properties *)

\* Encryption that was asked for, however wrongly, is never silently dropped:
\* HTTP is served only beside HTTPS if any setting of HTTPS is present, and the
\* bridge uses plain TCP only if no setting asks for TLS (optional_env,
\* HttpsConfig::parse, parse_mqtt_transport, Listeners::bind).
NoSilentPlaintext ==
  /\ server["http"] = "accepting" /\ HttpsSettings # {None} => server["https"] = "accepting"
  /\ bridge = "running" /\ ~MqttTls => env.mqttTls \in {None, "0", "false"} /\ env.mqttCa = None

\* "Optional credential restricted to telemetry reads": the holder of the read
\* token commands nothing, and neither does anybody else without the API token,
\* in whatever environment the gateway agreed to start, unless that turns
\* authorization off (GATEWAY_ALLOW_INSECURE).
ReadTokenOnlyReads ==
  env.insecure \/ (enqueued \subseteq {ApiToken} /\ ReadToken \notin enqueued /\ None \notin enqueued)

\* So the gateway runs as it was configured or not at all.
RunsAsConfigured == NoSilentPlaintext /\ ReadTokenOnlyReads

\* A request that is served finds a bridge to take its command, from the first
\* one accepted to the last one drained; only connections that were already
\* told to close may see the bridge gone (the order of start, serve, shutdown
\* in main).
ServedWithABridge == refused => forced

\* Once the bridge runs, the process ends only after it was stopped: neither a
\* signal at any moment nor a failing server skips mqtt.shutdown.  Only the
\* panic of router on an origin it cannot parse does.
BridgeIsStopped == pc = "exited" /\ outcome # "panic" => bridge # "running"

\* So the bridge is there before the first request and gone after the last.
BridgeOutlivesRequests == ServedWithABridge /\ BridgeIsStopped

\* No accepted list of sources counts anything twice, whichever way the PV
\* inverters are wired ("duplicate energy sources would double count readings").
NoDoubleCount ==
  pc \notin {"configuring", "exited"} =>
    \A list \in {env.energy.power, env.energy.today, env.energy.load, env.energy.grid} :
      ~DoubleCounts(list, Devices)

\* A signal that was registered for ends the process, whatever streams are open
\* ("bound draining so SIGTERM finishes").
ShutdownCompletes == signalled ~> pc = "exited"
=============================================================================
