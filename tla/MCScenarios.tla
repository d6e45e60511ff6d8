------------------------------ MODULE MCScenarios ------------------------------
(* A small instance of ScenarioEngine for TLC.                                 *)
EXTENDS ScenarioEngine, Sequences, TLC

CONSTANTS k1, k2, k3

SomeKeys == {k1, k2, k3}

AnyKey == Permutations(SomeKeys)

SomeSeeds == {"00000a", "00000b"}

Suffixed(name, seed) == name \o "_" \o seed
================================================================================
