------------------------------- MODULE Energy -------------------------------
(***************************************************************************)
(* GET /v1/energy (src/src/energy.rs, alarms.rs, energy_russian.rs): what  *)
(* the gateway reports about batteries, solar power, flows and alarms, in  *)
(* two languages, as a function of the readings that Shared keeps.  The    *)
(* handler holds the telemetry lock from the first reading to the last, so *)
(* a response is a state function here and not a step.                     *)
(*                                                                         *)
(* JSON numbers are counted in halves (1 is 0.5), which is enough for the  *)
(* cases the code tells apart: fractions of a watt, levels of an alarm,    *)
(* bounds of a percentage.  A text is the sequence of the facts it states: *)
(* what each sentence is about, what it says, and an amount if there is    *)
(* one.  Wording, labels (an alert is named by its source), grammatical    *)
(* number and the scientific notation of amounts from 10^9 on are left     *)
(* out.                                                                    *)
(***************************************************************************)
EXTENDS Shared, Integers, SequencesExt

CONSTANTS
  Configs,       \* the EnergyConfigs considered, each with its sources in order
  Offered,       \* what the broker may publish for each leaf
  Text,          \* a JSON value that as_f64 does not take for a number
  MaxFinite,     \* the largest finite f64
  SpokenLimit    \* 5: SPOKEN_ALARM_LIMIT

MetricNames == {"battery_soc", "solar_power", "solar_today",
                "load_power", "grid_power", "battery_power"}
SourceLists == MetricNames \cup {"alarms"}

ASSUME EnergyAssumption ==
  /\ EnergyLeaves = Leaves /\ MaxAge > 0
  /\ Configs \subseteq [SourceLists -> Seq(EnergyLeaves)]
  /\ \A c \in Configs, name \in SourceLists : \* parse_sources refuses duplicates
       \A i, j \in DOMAIN c[name] : c[name][i] = c[name][j] => i = j
  /\ DOMAIN Offered = Leaves /\ \A l \in Leaves : Offered[l] \subseteq Values
  /\ Values \subseteq Int \cup {Text} /\ Text \notin Int /\ Null \notin Int
  /\ MaxFinite \in Nat /\ SpokenLimit \in Nat

VARIABLE cfg     \* cfg.energy, fixed at start-up

energyVars == <<sharedVars, cfg>>

Sources(name) == cfg[name]

-----------------------------------------------------------------------------
(* Metrics *)

Present(l) == readings[l] # Absent
Value(l) == readings[l][1]
Age(l) == readings[l][2]

Unit(name) == CASE name = "battery_soc" -> "%"
                [] name = "solar_today" -> "kWh"
                [] OTHER -> "W"
Signed(name) == name \in {"grid_power", "battery_power"}

\* What collect_metric accepts as a reading of a source.
Valid(v, name) ==
  /\ v # Text
  /\ Signed(name) \/ v >= 0
  /\ Unit(name) = "%" => v <= 2 * 100

\* The running sums of f64 additions; a sum that leaves the finite range is
\* infinite and stays so, because every addend is finite.
Plus(sum, value) == sum + value
Sum(values) == FoldLeft(Plus, 0, values)
Finite(values) ==
  \A n \in 0 .. Len(values) : Sum(SubSeq(values, 1, n)) \in -MaxFinite .. MaxFinite

\* Mutant: one recent source makes the whole sum recent.
Youngest(sources) == Min({MaxAge + 1} \cup {Age(l) : l \in {k \in ToSet(sources) : Present(k)}})

Oldest(sources) == Max({0} \cup {Age(l) : l \in {k \in ToSet(sources) : Present(k)}})

NoValue == [value |-> Null, status |-> "unavailable", age |-> Null]

\* collect_metric, behind metric and signed_power_metric: all sources or none.
CollectMetric(name) ==
  LET sources  == Sources(name)
      complete == \A l \in ToSet(sources) : Present(l)
      values   == [i \in DOMAIN sources |-> Value(sources[i])]
      sound    == /\ complete
                  /\ \A l \in ToSet(sources) : Valid(Value(l), name)
                  /\ Finite(values)
      metric   == [NoValue EXCEPT !.age = IF complete THEN Oldest(sources) ELSE Null]
  IN  IF sources = <<>> THEN [NoValue EXCEPT !.status = "unconfigured"]
      ELSE IF ~connected THEN NoValue
      ELSE IF ~sound THEN metric
      ELSE IF Oldest(sources) > MaxAge THEN [metric EXCEPT !.status = "stale"]
      ELSE [metric EXCEPT !.value = Sum(values), !.status = "fresh"]

\* Mutant: what is not configured does not count.
WorstConfigured(statuses) ==
  IF "unavailable" \in statuses THEN "unavailable"
  ELSE IF "stale" \in statuses THEN "stale"
  ELSE "fresh"

\* worst_status
WorstStatus(statuses) ==
  IF "unavailable" \in statuses THEN "unavailable"
  ELSE IF "stale" \in statuses THEN "stale"
  ELSE IF "unconfigured" \in statuses THEN "unconfigured"
  ELSE "fresh"

-----------------------------------------------------------------------------
(* Alarms *)

AlarmSources == Sources("alarms")

\* Levels 0, 1 and 2; anything else is no level.
Level(v) == CASE v = 2 * 0 -> "none" [] v = 2 * 1 -> "warning" [] v = 2 * 2 -> "alarm"
              [] OTHER -> "invalid"

\* A fresh level other than 0.  alarm_label knows every source that
\* parse_sources accepted.
Raised(l) == Present(l) /\ Level(Value(l)) \in {"warning", "alarm"} /\ Age(l) <= MaxAge

\* The alerts that Alarms::build pushes, in the order of the sources.
KeepRaised(kept, l) == IF Raised(l) THEN Append(kept, l) ELSE kept
RaisedAmong(sources) == FoldLeft(KeepRaised, <<>>, sources)

\* Alarms::build
BuildAlarms ==
  LET sources  == ToSet(AlarmSources)
      complete == \A l \in sources : Present(l)
      status   ==
        IF ~complete \/ \E l \in sources : Level(Value(l)) = "invalid" THEN "unavailable"
        ELSE IF \E l \in sources : Age(l) > MaxAge THEN "stale"
        ELSE "fresh"
  IN  IF AlarmSources = <<>> \/ ~connected
        THEN [active |-> <<>>, age |-> Null,
              status |-> IF AlarmSources = <<>> THEN "unconfigured" ELSE "unavailable"]
        ELSE [active |-> RaisedAmong(AlarmSources), status |-> status,
              age |-> IF complete THEN Oldest(AlarmSources) ELSE Null]

Severity(l) == Level(Value(l))
Alarming(l) == Severity(l) = "alarm"
Warning(l) == Severity(l) = "warning"

\* filter(|alarm| alarm.severity == ...)
KeepAlarming(kept, l) == IF Alarming(l) THEN Append(kept, l) ELSE kept
KeepWarning(kept, l) == IF Warning(l) THEN Append(kept, l) ELSE kept
Severe(active) == FoldLeft(KeepAlarming, <<>>, active)
Warnings(active) == FoldLeft(KeepWarning, <<>>, active)

-----------------------------------------------------------------------------
(* What the texts state.  A fact is about a metric, an alert or the alarms   *)
(* as a whole.                                                               *)

NoAmount == [number |-> 0, unit |-> ""]
Fact(name, says) == [about |-> <<name>>, says |-> says, amount |-> NoAmount]
Amount(name, says, amount) == [about |-> <<name>>, says |-> says, amount |-> amount]

\* n halves to the nearest multiple of d halves, as format! rounds; ties go to
\* the even multiple.
Rounded(n, d) ==
  LET q == n \div d  r == n % d
  IN  IF 2 * r > d \/ (2 * r = d /\ q % 2 = 1) THEN q + 1 ELSE q

\* spoken_amount, in hundredths of its unit.
SpokenAmount(v, unit) ==
  CASE unit = "%" -> [number |-> 50 * v, unit |-> "percent"]
    [] unit = "W" /\ v >= 2 * 1000 -> [number |-> Rounded(v, 20), unit |-> "kilowatts"]
    [] unit = "W" /\ v < 2 * 1000 -> [number |-> 100 * Rounded(v, 2), unit |-> "watts"]
    [] unit = "kWh" -> [number |-> 50 * v, unit |-> "kilowatt hours"]

\* report: the value, or the reason why there is none.
Report(name) ==
  LET metric == CollectMetric(name)
  IN  CASE metric.status = "fresh" ->
             <<Amount(name, "is", SpokenAmount(metric.value, Unit(name)))>>
        [] metric.status = "unconfigured" -> <<Fact(name, "not configured")>>
        [] metric.status = "stale" -> <<Fact(name, "stale")>>
        [] metric.status = "unavailable" ->
             <<Fact(name, IF connected THEN "missing or invalid" ELSE "disconnected")>>

\* brief_metric: a shorter label for a value, the whole report otherwise.
BriefMetric(name) ==
  LET metric == CollectMetric(name)
  IN  IF metric.status = "fresh"
        THEN <<Amount(name, "is", SpokenAmount(metric.value, Unit(name)))>>
        ELSE Report(name)

Magnitude(v) == IF v < 0 THEN -v ELSE v
LessThanOne == [number |-> 0, unit |-> "less than 1 watt"]

\* Mutant: a direction is told from the rounded amount.
DirectionalRounded(name) ==
  LET metric == CollectMetric(name)
      v      == metric.value
      amount == SpokenAmount(Magnitude(v), "W")
  IN  IF metric.status # "fresh" THEN Report(name)
      ELSE IF amount.number = 0 THEN <<Amount(name, "is", amount)>>
      ELSE IF v > 0 THEN <<Amount(name, "flows in", amount)>>
      ELSE <<Amount(name, "flows out", amount)>>

\* directional_power_report
DirectionalReport(name) ==
  LET metric == CollectMetric(name)
      v      == metric.value
      amount == IF Magnitude(v) > 0 /\ Magnitude(v) < 2 THEN LessThanOne
                ELSE SpokenAmount(Magnitude(v), "W")
  IN  IF metric.status # "fresh" THEN Report(name)
      ELSE IF v = 0 THEN <<Amount(name, "is", SpokenAmount(0, "W"))>>
      ELSE IF v > 0 THEN <<Amount(name, "flows in", amount)>>
      ELSE <<Amount(name, "flows out", amount)>>

Alert(l) == [about |-> l, says |-> Severity(l), amount |-> NoAmount]
Count(says, n) == Amount("alarms", says, [number |-> n, unit |-> ""])

\* Mutant: a bounded summary keeps the order of the sources.
SpokenInOrder(active) == SubSeq(active, 1, Min({Len(active), SpokenLimit}))

\* The alerts that are named: all, or the most severe ones.
Spoken(active) ==
  IF Len(active) <= SpokenLimit THEN active
  ELSE SubSeq(Severe(active) \o Warnings(active), 1, SpokenLimit)

\* Mutant: an empty list of alerts is an all-clear.
CoverageByList(alarms) ==
  IF alarms.active = <<>> THEN <<Fact("alarms", "none active")>> ELSE <<>>

\* Alarms::report: the sentence about the coverage.
Coverage(alarms) ==
  CASE alarms.status = "unconfigured" -> <<Fact("alarms", "not configured")>>
    [] alarms.status = "unavailable" ->
         <<Fact("alarms", IF connected THEN "incomplete" ELSE "disconnected")>>
    [] alarms.status = "stale" -> <<Fact("alarms", "stale")>>
    [] alarms.status = "fresh" ->
         IF alarms.active = <<>> THEN <<Fact("alarms", "none active")>> ELSE <<>>

\* Alarms::report
AlarmReport ==
  LET alarms == BuildAlarms
      active == alarms.active
      named  == [i \in DOMAIN Spoken(active) |-> Alert(Spoken(active)[i])]
      severe == Severe(active)
      total  == <<Count("alarms", Len(severe)), Count("warnings", Len(active) - Len(severe))>>
      more   == <<Count("more", Len(active) - SpokenLimit)>>
  IN  IF Len(active) > SpokenLimit
        THEN total \o named \o more \o Coverage(alarms)
        ELSE named \o Coverage(alarms)

Unreachable == <<Fact("energy", "disconnected")>>

\* EnergyResponse::build: the status report in full and in brief.
StatusText ==
  IF ~connected THEN Unreachable
  ELSE Report("battery_soc") \o Report("solar_power") \o Report("solar_today") \o AlarmReport

BriefText ==
  LET metrics == BriefMetric("battery_soc") \o BriefMetric("solar_power")
                   \o BriefMetric("solar_today")
  IN  IF ~connected THEN Unreachable
      ELSE IF BuildAlarms.active = <<>> THEN metrics \o AlarmReport ELSE AlarmReport \o metrics

ReportStatus ==
  IF ~connected THEN "unavailable"
  ELSE WorstStatus({CollectMetric("battery_soc").status, CollectMetric("solar_power").status,
                    CollectMetric("solar_today").status, BuildAlarms.status})

\* flow_enabled, flow_report
FlowEnabled == \E name \in {"load_power", "grid_power", "battery_power"} : Sources(name) # <<>>

FlowText ==
  IF ~connected THEN <<Fact("flow", "disconnected")>>
  ELSE Report("load_power") \o DirectionalReport("grid_power")
         \o DirectionalReport("battery_power")

FlowStatus ==
  IF ~connected THEN "unavailable"
  ELSE WorstStatus({CollectMetric(n).status : n \in {"load_power", "grid_power", "battery_power"}})

-----------------------------------------------------------------------------
(* The same in Russian (localize), written a second time in the code.        *)

\* under_thousand and integer_words: each word by the number it stands for.
UnderThousand(n) ==
  LET tail == n % 100
      hundreds == IF n >= 100 THEN <<100 * (n \div 100)>> ELSE <<>>
      tens == IF tail >= 20 THEN <<10 * (tail \div 10)>> ELSE <<>>
      ones == IF tail % 10 # 0 THEN <<tail % 10>> ELSE <<>>
  IN  hundreds \o (IF tail \in 10 .. 19 THEN <<tail>> ELSE tens \o ones)

Thousand == 1000
Million == 1000000
Billion == 1000000000

Thousands(n, scale) ==
  LET group == (n \div scale) % Thousand
  IN  IF group > 0 THEN Append(UnderThousand(group), scale) ELSE <<>>

IntegerWords(n) ==
  IF n = 0 THEN <<0>>
  ELSE Thousands(n, Billion) \o Thousands(n, Million) \o Thousands(n, Thousand)
         \o (IF n % Thousand # 0 THEN UnderThousand(n % Thousand) ELSE <<>>)

\* What a listener makes of the words: a scale multiplies what precedes it.
Hear(heard, word) == IF word >= 1000 THEN <<heard[1] + heard[2] * word, 0>>
                                     ELSE <<heard[1], heard[2] + word>>
Heard(words) == FoldLeft(Hear, <<0, 0>>, words)
Understood(words) == Heard(words)[1] + Heard(words)[2]

\* Mutant: two digits are read as tenths when the first of them is zero.
DecimalAsTenths(hundredths) ==
  LET whole == hundredths \div 100  fraction == hundredths % 100
  IN  100 * Understood(IntegerWords(whole)) +
      (IF fraction = 0 THEN 0
       ELSE IF fraction % 10 = 0 \/ fraction < 10
         THEN 10 * Understood(IntegerWords((fraction % 10) + (fraction \div 10)))
       ELSE Understood(IntegerWords(fraction)))

\* decimal_words: a whole part, and tenths or hundredths without trailing zeros.
Decimal(hundredths) ==
  LET whole == hundredths \div 100  fraction == hundredths % 100
  IN  100 * Understood(IntegerWords(whole)) +
      (IF fraction = 0 THEN 0
       ELSE IF fraction % 10 = 0 THEN 10 * Understood(IntegerWords(fraction \div 10))
       ELSE Understood(IntegerWords(fraction)))

\* amount
RuAmount(v, unit) ==
  CASE unit = "%" -> [number |-> Decimal(50 * v), unit |-> "percent"]
    [] unit = "W" /\ v >= 2 * 1000 -> [number |-> Decimal(Rounded(v, 20)), unit |-> "kilowatts"]
    [] unit = "W" /\ v < 2 * 1000 -> [number |-> Decimal(100 * Rounded(v, 2)), unit |-> "watts"]
    [] unit = "kWh" -> [number |-> Decimal(50 * v), unit |-> "kilowatt hours"]

\* metric_report
RuReport(name) ==
  LET metric == CollectMetric(name)
  IN  IF metric.status = "fresh"
        THEN <<Amount(name, "is", RuAmount(metric.value, Unit(name)))>>
      ELSE <<Fact(name, CASE metric.status = "unconfigured" -> "not configured"
                          [] metric.status = "stale" -> "stale"
                          [] OTHER -> IF connected THEN "missing or invalid"
                                                   ELSE "disconnected")>>

\* directional_report
RuDirectionalReport(name) ==
  LET metric == CollectMetric(name)
      v      == metric.value
      amount == IF Magnitude(v) < 2 THEN LessThanOne ELSE RuAmount(Magnitude(v), "W")
  IN  IF metric.status # "fresh" THEN RuReport(name)
      ELSE IF v = 0 THEN <<Amount(name, "is", [number |-> 0, unit |-> "watts"])>>
      ELSE <<Amount(name, IF v > 0 THEN "flows in" ELSE "flows out", amount)>>

\* alarm_report
RuAlarmReport ==
  LET alarms  == BuildAlarms
      active  == alarms.active
      severe  == Severe(active)
      spoken  == IF Len(active) > SpokenLimit
                   THEN SubSeq(severe \o Warnings(active), 1, SpokenLimit) ELSE active
      number(n) == Understood(IntegerWords(n))
      total   == <<Count("alarms", number(Len(severe))),
                   Count("warnings", number(Len(active) - Len(severe)))>>
      named   == [i \in DOMAIN spoken |-> Alert(spoken[i])]
      more    == <<Count("more", number(Len(active) - SpokenLimit))>>
      coverage ==
        CASE alarms.status = "unconfigured" -> <<Fact("alarms", "not configured")>>
          [] alarms.status = "unavailable" ->
               <<Fact("alarms", IF connected THEN "incomplete" ELSE "disconnected")>>
          [] alarms.status = "stale" -> <<Fact("alarms", "stale")>>
          [] OTHER -> IF active = <<>> THEN <<Fact("alarms", "none active")>> ELSE <<>>
  IN  IF Len(active) > SpokenLimit THEN total \o named \o more \o coverage
                                   ELSE named \o coverage

\* localize
RuMetrics == RuReport("battery_soc") \o RuReport("solar_power") \o RuReport("solar_today")
RuStatusText == IF connected THEN RuMetrics \o RuAlarmReport ELSE Unreachable
RuBriefText ==
  IF ~connected THEN Unreachable
  ELSE IF BuildAlarms.active = <<>> THEN RuMetrics \o RuAlarmReport ELSE RuAlarmReport \o RuMetrics
RuFlowText ==
  IF ~connected THEN <<Fact("flow", "disconnected")>>
  ELSE RuReport("load_power") \o RuDirectionalReport("grid_power")
         \o RuDirectionalReport("battery_power")

-----------------------------------------------------------------------------
\* The telemetry that reaches the readings: the rest of SharedNext leaves them
\* alone, and so do leaves that the configuration does not name.
Used == UNION {ToSet(cfg[name]) : name \in SourceLists}

EnergyInit == SharedInit /\ cfg \in Configs

EnergyNext ==
  /\ \/ Connect
     \/ Disconnect
     \/ \E l \in Used : \E v \in Offered[l] \cup {Null} : Update(l, v)
     \/ \E d \in {Device(l) : l \in Used} : RemoveDevice(d)
     \/ Tick
  /\ UNCHANGED cfg

EnergySpec == EnergyInit /\ [][EnergyNext]_energyVars

-----------------------------------------------------------------------------
(* What the reports must keep true, stated over the snapshot that the        *)
(* dashboard shows                                                           *)

Shown(l) == snapshot[l]
IsShown(l) == Shown(l) \notin {Null, Absent}
Recent(l) == Present(l) /\ Age(l) <= MaxAge

\* A metric is the sum of ALL its sources as the dashboard shows them, or it is
\* no number at all: never a partial sum, never with an invalid or an old
\* addend, never infinite (collect_metric over the maps that update, the
\* removal of a device and set_connected maintain).
WholeOrNothing ==
  \A name \in MetricNames :
    LET metric  == CollectMetric(name)
        sources == ToSet(Sources(name))
        good    == /\ connected /\ sources # {}
                   /\ \A l \in sources : IsShown(l) /\ Valid(Shown(l), name) /\ Recent(l)
        total   == MapThenSumSet(Shown, sources)
    IN  /\ metric.value # Null <=> metric.status = "fresh"
        /\ metric.status = "fresh" =>
             good /\ metric.value = total /\ total \in -MaxFinite .. MaxFinite
        /\ good /\ metric.status # "fresh" =>
             \E some \in SUBSET sources : MapThenSumSet(Shown, some) \notin -MaxFinite .. MaxFinite

Says(text, about, says) == \E i \in DOMAIN text : text[i].about = about /\ text[i].says = says

\* "No active alarms in the monitored sources" is said exactly when every
\* monitored source has reported level 0 recently in this session.
NoFalseAllClear ==
  Says(AlarmReport, <<"alarms">>, "none active") <=>
    /\ connected /\ AlarmSources # <<>>
    /\ \A l \in ToSet(AlarmSources) : IsShown(l) /\ Shown(l) = 0 /\ Recent(l)

\* Every alert the dashboard shows is spoken or counted among those that are
\* not, however incomplete the coverage is, and no warning is spoken in place
\* of an alarm (the bounded summary of Alarms::report).
AlertsAreSpoken ==
  LET raised == {l \in ToSet(AlarmSources) : connected /\ IsShown(l) /\ Shown(l) \in {2, 4} /\ Recent(l)}
      named  == {l \in raised : Says(AlarmReport, l, IF Shown(l) = 4 THEN "alarm" ELSE "warning")}
      hidden == raised \ named
  IN  hidden # {} =>
        /\ Cardinality(named) = SpokenLimit
        /\ \E i \in DOMAIN AlarmReport : AlarmReport[i] = Count("more", Cardinality(hidden))
        /\ (\E l \in hidden : Shown(l) = 4) => \A l \in named : Shown(l) = 4

\* So a listener who hears of no alarm has none to hear of.
AlarmsAreTold == NoFalseAllClear /\ AlertsAreSpoken

Reasons == {"not configured", "stale", "missing or invalid", "disconnected", "incomplete"}
FactsOf(text) == {text[i] : i \in DOMAIN text}
GivesReason(text) == \E f \in FactsOf(text) : f.says \in Reasons

\* A voice service may go by the status alone: a report is "fresh" exactly when
\* its text gives no reason for a missing value, in full or in brief ("with the
\* same freshness and alarm disclosures"), for the status and the flow alike.
StatusMatchesText ==
  /\ (ReportStatus = "fresh") <=> ~GivesReason(StatusText)
  /\ (ReportStatus = "fresh") <=> ~GivesReason(BriefText)
  /\ FactsOf(BriefText) = FactsOf(StatusText)
  /\ FlowEnabled => ((FlowStatus = "fresh") <=> ~GivesReason(FlowText))

\* Both languages state the same facts in the same order, amounts included,
\* although each has its own rounding, wording and alarm summary (localize).
LocalesAgree ==
  /\ RuStatusText = StatusText
  /\ RuBriefText = BriefText
  /\ FlowEnabled => RuFlowText = FlowText

\* A flow that is not zero is never spoken as zero, and its direction is the
\* sign of the sum, however small (directional_power_report).
FlowIsDirected ==
  \A name \in {"grid_power", "battery_power"} :
    LET metric == CollectMetric(name)
        fact   == DirectionalReport(name)[1]
    IN  metric.status = "fresh" /\ metric.value # 0 =>
          /\ fact.says = IF metric.value > 0 THEN "flows in" ELSE "flows out"
          /\ fact.amount = LessThanOne \/ fact.amount.number > 0

\* So the status, the texts and both languages say the same of the same values.
TextsAgree == StatusMatchesText /\ LocalesAgree /\ FlowIsDirected
=============================================================================
