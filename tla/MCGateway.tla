----------------------------- MODULE MCGateway ------------------------------
(* Instances of Gateway for TLC. *)
EXTENDS Gateway

CONSTANTS t1, t2, c1, c2

Plain ==
  [required |-> TRUE, mqttTls |-> None, mqttCa |-> None, mqttPort |-> None,
   httpsBind |-> None, cert |-> None, key |-> None,
   api |-> t1, read |-> t2, insecure |-> FALSE, topics |-> TRUE, origins |-> TRUE,
   energy |-> NoSources]

Https == [Plain EXCEPT !.httpsBind = "address", !.cert = "file", !.key = "file"]

Incomplete == {[Plain EXCEPT !.required = FALSE], [Plain EXCEPT !.topics = FALSE],
               [Plain EXCEPT !.origins = FALSE]}

OverMqtt ==
  {[Plain EXCEPT !.mqttTls = tls, !.mqttCa = ca, !.mqttPort = port] :
     tls \in {None, Garbled, "0", "1", "yes"}, ca \in {None, Garbled, "", "file"},
     port \in {None, 0, 8883}}

OverHttps ==
  {[Plain EXCEPT !.httpsBind = bind, !.cert = cert, !.key = key] :
     bind \in {None, Garbled, "address", "HTTP_BIND", "nonsense"},
     cert \in {None, "", "file"}, key \in {None, Garbled, "file"}}

OverTokens ==
  {[Plain EXCEPT !.api = api, !.read = read, !.insecure = insecure] :
     api \in {None, Garbled, "", t1}, read \in {None, "", t1, t2}, insecure \in BOOLEAN}

\* Every list of at most two of these sources.
Lists(sources) == UNION {[1 .. n -> sources] : n \in 0 .. 2}

PowerSources ==
  {Source("system", 0, 0, "Dc/Pv", ""), Source("system", 1, 0, "Dc/Pv", ""),
   Source("solarcharger", 1, 0, "Yield", ""), Source("solarcharger", 1, 1, "Yield", ""),
   Source("solarcharger", 2, 0, "Yield", "")}
  \cup {Source("pvinverter", n, 0, "Ac", p) : n \in {1, 2}, p \in {"", "L1", "L2"}}
  \cup {Source("system", 0, 0, f, p) : f \in {"Ac/PvOnGrid", "Ac/PvOnOutput"},
                                       p \in {"Total", "L1", "L2"}}
  \cup {Source("system", 1, 0, "Ac/PvOnGrid", "L1")}
LoadSources ==
  {Source("system", n, 0, f, p) :
     n \in {0, 1}, p \in {"L1", "L2"},
     f \in {"Ac/Consumption", "Ac/ConsumptionOnInput", "Ac/ConsumptionOnOutput"}}
GridSources == {Source("system", n, 0, "Ac/Grid", p) : n \in {0, 1}, p \in {"L1", "L2"}}
TodaySources == {Source("solarcharger", 1, 0, "History/Daily/0/Yield", ""),
                 Source("pvinverter", 1, 0, "Ac/Energy/Daily", "")}

OverSources ==
  {[Plain EXCEPT !.energy.power = list] : list \in Lists(PowerSources)}
  \cup {[Plain EXCEPT !.energy.load = list] : list \in Lists(LoadSources)}
  \cup {[Plain EXCEPT !.energy.grid = list] : list \in Lists(GridSources)}
  \cup {[Plain EXCEPT !.energy.today = list] : list \in Lists(TodaySources)}

MCEnvironments == {Plain, Https} \cup Incomplete \cup OverMqtt \cup OverHttps
                    \cup OverTokens \cup OverSources

=============================================================================
