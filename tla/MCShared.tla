------------------------------ MODULE MCShared ------------------------------
(* Instances of Shared for TLC. *)
EXTENDS Shared

CONSTANTS soc, v1, s1, c1

\* A device with one energy leaf.
MCEnergyLeaf == <<"battery", soc>>
EnergyOnly == {MCEnergyLeaf}
=============================================================================
