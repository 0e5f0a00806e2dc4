------------------------------ MODULE MCEnergy ------------------------------
(* Instances of Energy for TLC: values in halves of the unit. *)
EXTENDS Energy

Soc == <<"system/0", "Dc/Battery/Soc">>
PvA == <<"solarcharger/290", "Yield/Power">>
PvB == <<"solarcharger/291", "Yield/Power">>
Yield == <<"solarcharger/290", "History/Daily/0/Yield">>
Load == <<"system/0", "Ac/Consumption/L1/Power">>
GridA == <<"system/0", "Ac/Grid/L1/Power">>
GridB == <<"system/0", "Ac/Grid/L2/Power">>
Dc == <<"system/0", "Dc/Battery/Power">>
Overload == <<"vebus/276", "Alarms/L1/Overload">>
LowVoltage == <<"battery/512", "Alarms/LowVoltage">>
LowSoc == <<"battery/512", "Alarms/LowSoc">>

\* Percentages around 100, an alarm level between two levels, negative solar
\* power, sums beyond MaxFinite, flows of half a watt, amounts around 1 kW.
MCOffered ==
  (Soc :> {130, 200, 201}) @@ (PvA :> {2100, 2469134, -2}) @@ (PvB :> {0, 2400000, Text})
  @@ (Yield :> {31}) @@ (Load :> {1, 1999, -1}) @@ (GridA :> {-1, 1, -3000000, 2300})
  @@ (GridB :> {0, 1, -3000000}) @@ (Dc :> {-61})
  @@ (LowSoc :> {0, 1, 2}) @@ (LowVoltage :> {0, 2, 4}) @@ (Overload :> {0, 4})

MCLeaves == DOMAIN MCOffered
MCValues == UNION {MCOffered[l] : l \in MCLeaves}

Unconfigured == [name \in SourceLists |-> <<>>]
Metrics == [Unconfigured EXCEPT !.battery_soc = <<Soc>>, !.solar_power = <<PvA, PvB>>,
                                !.solar_today = <<Yield>>]
Alerts == [Unconfigured EXCEPT !.battery_soc = <<Soc>>,
                               !.alarms = <<LowSoc, LowVoltage, Overload>>]
Flow == [Unconfigured EXCEPT !.load_power = <<Load>>, !.grid_power = <<GridA, GridB>>,
                             !.battery_power = <<Dc>>]
Everything ==
  [Unconfigured EXCEPT !.battery_soc = <<Soc>>, !.solar_power = <<PvB>>,
                       !.solar_today = <<Yield>>, !.alarms = <<Overload>>]
\* Each list as parse_sources sorts it.
MCConfigs == {Metrics, Alerts, Flow, Everything}
=============================================================================
