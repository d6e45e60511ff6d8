SPECIFICATION ScenarioSpec
CONSTANTS
  k1 = k1
  k2 = k2
  k3 = k3
  Keys <- SomeKeys
  Seeds <- SomeSeeds
  RecordId <- Suffixed
SYMMETRY AnyKey
INVARIANTS
  ScenarioInv
  CausesAreAsExpected
