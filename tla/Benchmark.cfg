SPECIFICATION Spec
CONSTANTS
  g1 = g1
  g2 = g2
  Runs <- TwoRuns
  Developments <- SomeDevelopments
  Targets <- CaseTargets
  Draws <- CaseDraws
  MinCompound = 0
  Options <- SomeOptions
SYMMETRY AnyRun
INVARIANTS
  BenchmarkInv
  TrapsHold
  BaselineIsSafe
  DefectsShow
  ProvableAlone
  NoveltyIsCombination
\* The runs may be used up.
CHECK_DEADLOCK FALSE
