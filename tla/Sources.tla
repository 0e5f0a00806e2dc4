------------------------------ MODULE Sources -------------------------------
(***************************************************************************)
(* Which lists of energy sources the gateway accepts (src/src/energy.rs:   *)
(* EnergyConfig::parse, with_flow_sources, metric_kind, parse_sources,     *)
(* validate_power_overlap), and what each source measures.                 *)
(*                                                                         *)
(* A source "<service>/<instance>/<leaf>" is a record.  Its instance is    *)
(* spelled with a number of leading zeros, and its leaf is split into a    *)
(* family and a phase, "" where the leaf names none.  A list of sources is *)
(* a sequence, as the setting spells it; the code sorts it, which matters  *)
(* to no operator here.                                                    *)
(***************************************************************************)
EXTENDS Naturals, Sequences, FiniteSets

Phases == {"L1", "L2", "L3"}
PvFamilies == {"Ac/PvOnGrid", "Ac/PvOnOutput", "Ac/PvOnGenset"}

Source(service, number, zeros, family, phase) ==
  [service |-> service, number |-> number, zeros |-> zeros, family |-> family, phase |-> phase]

SourceType == [service : STRING, number : Nat, zeros : Nat, family : STRING, phase : STRING]

Instance(s) == <<s.number, s.zeros>>

Members(list) == {list[i] : i \in DOMAIN list}

-----------------------------------------------------------------------------
Battery == {<<"system", "Dc/Battery/Soc">>, <<"battery", "Soc">>, <<"vebus", "Soc">>}
Today == {<<"solarcharger", "History/Daily/0/Yield">>, <<"pvinverter", "Ac/Energy/Daily">>}

\* metric_kind, its match on the service and the leaf.  The alarms that
\* alarm_label knows are the family "Alarms".
LeafKind(s, kind) ==
  LET leaf == <<s.service, s.family>>
  IN  CASE kind = "Battery" -> leaf \in Battery /\ s.phase = ""
        [] kind = "BatteryPower" -> leaf = <<"system", "Dc/Battery/Power">> /\ s.phase = ""
        [] kind = "Today" -> leaf \in Today /\ s.phase = ""
        [] kind = "Alarm" -> s.service \in {"battery", "vebus"} /\ s.family = "Alarms"
        [] kind = "Power" ->
             \/ leaf \in {<<"system", "Dc/Pv">>, <<"solarcharger", "Yield">>} /\ s.phase = ""
             \/ leaf = <<"pvinverter", "Ac">> /\ s.phase \in {""} \cup Phases
             \/ /\ s.service = "system" /\ s.family \in PvFamilies
                /\ s.phase \in {"Total"} \cup Phases
        [] kind = "LoadPower" ->
             /\ s.service = "system" /\ s.phase \in Phases
             /\ s.family \in {"Ac/Consumption", "Ac/ConsumptionOnInput",
                              "Ac/ConsumptionOnOutput"}
        [] kind = "GridPower" -> leaf = <<"system", "Ac/Grid">> /\ s.phase \in Phases

\* Mutant: an instance may be spelled in several ways.
MetricKindOfAnySpelling(s, kind) == LeafKind(s, kind)

\* metric_kind: an instance has one spelling, so that it cannot be listed twice.
MetricKind(s, kind) == s.zeros = 0 /\ LeafKind(s, kind)

\* parse_sources: only leaves of the kind, none of them twice.
ParseSources(list, kind) ==
  /\ \A s \in Members(list) : MetricKind(s, kind)
  /\ Cardinality(Members(list)) = Len(list)

\* validate_power_overlap: no aggregate with its devices, no total with its
\* phases, one system instance.
ValidatePowerOverlap(sources) ==
  LET from(services) == \E s \in sources : s.service \in services
      family(names)  == \E s \in sources : s.family \in names
      total(s)  == s.phase = "Total" \/ (s.family = "Ac" /\ s.phase = "")
      phase(s, t) == t.phase \in Phases /\ [t EXCEPT !.phase = s.phase] = s
  IN  /\ ~(family({"Dc/Pv"}) /\ from({"solarcharger"}))
      /\ ~(family(PvFamilies) /\ from({"pvinverter"}))
      /\ ~\E s, t \in sources : total(s) /\ phase(s, t)
      /\ \A s, t \in sources : s.service = "system" /\ t.service = "system" => Instance(s) = Instance(t)

\* with_flow_sources: one battery, one system instance over all flows, no total
\* consumption of a phase with one of its components.
WithFlowSources(load, grid, battery) ==
  LET flows == Members(load) \cup Members(grid) \cup Members(battery)
  IN  /\ ParseSources(load, "LoadPower")
      /\ ParseSources(grid, "GridPower")
      /\ ParseSources(battery, "BatteryPower") /\ Len(battery) <= 1
      /\ \A s, t \in flows : Instance(s) = Instance(t)
      /\ ~\E s, t \in Members(load) :
            /\ s.family = "Ac/Consumption" /\ t.family # "Ac/Consumption"
            /\ [t EXCEPT !.family = s.family] = s

\* EnergyConfig::parse and with_alarm_sources
ParseEnergy(e) ==
  /\ ParseSources(e.battery, "Battery") /\ Len(e.battery) <= 1
  /\ ParseSources(e.power, "Power") /\ ValidatePowerOverlap(Members(e.power))
  /\ ParseSources(e.today, "Today")
  /\ e.maxAge > 0
  /\ ParseSources(e.alarms, "Alarm")
  /\ WithFlowSources(e.load, e.grid, e.batteryPower)

NoSources == [battery |-> <<>>, power |-> <<>>, today |-> <<>>, alarms |-> <<>>,
              load |-> <<>>, grid |-> <<>>, batteryPower |-> <<>>, maxAge |-> 120]

-----------------------------------------------------------------------------
(* What a source measures.  The number of an instance identifies a device,   *)
(* whatever its spelling; all system services stand for the one Cerbo GX;    *)
(* wiring says on which side of the system each PV inverter is connected.    *)

PhasesOf(s) == IF s.phase \in Phases THEN {s.phase} ELSE Phases

Measured(s, devices, wiring) ==
  CASE s.service = "solarcharger" -> {<<"charger", s.number>>}
    [] s.family = "Dc/Pv" -> {<<"charger", n>> : n \in devices}
    [] s.service = "pvinverter" -> {<<"inverter", s.number, p>> : p \in PhasesOf(s)}
    [] s.family \in PvFamilies ->
         {<<"inverter", n, p>> : n \in {d \in devices : wiring[d] = s.family}, p \in PhasesOf(s)}
    [] s.family = "Ac/Consumption" ->
         {<<side, s.phase>> : side \in {"Ac/ConsumptionOnInput", "Ac/ConsumptionOnOutput"}}
    [] OTHER -> {<<s.family, s.phase>>}

\* Two entries of a list that share something they measure, for some wiring.
DoubleCounts(list, devices) ==
  \E wiring \in [devices -> PvFamilies], i, j \in DOMAIN list :
    i # j /\ Measured(list[i], devices, wiring) \cap Measured(list[j], devices, wiring) # {}
=============================================================================
