------------------------------ MODULE MCBridge ------------------------------
(* Instances of Bridge for TLC. *)
EXTENDS Bridge, TLC

CONSTANTS soc, mode, plugged, v1, v2, s1, s2, a1, c1, k1, k2, k3, k4

PumpModeLeaf == <<"pump", mode>>
PumpConnectedLeaf == <<"pump", plugged>>
PumpLeaves == {PumpModeLeaf, PumpConnectedLeaf}

\* A redeliverable controller command, one that is not, and the legacy one.
ControllerAndLegacy == k1 :> "toggle" @@ k2 :> "setpoint_override" @@ k3 :> "silence_alarm"
ToggleAndSilence == k1 :> "toggle" @@ k3 :> "silence_alarm"
Silence == k3 :> "silence_alarm"
PumpModeOnly == {PumpModeLeaf}
OverrideAndWater == k2 :> "setpoint_override" @@ k4 :> "water_mode"
NoCommand == <<>>
=============================================================================
