\* A run and a scenario, or two runs, over two whole lifecycles; any statement
\* may throw and any process die.
SPECIFICATION Spec
CONSTANTS
  i1 = i1
  i2 = i2
  r1 = r1
  r2 = r2
  Requests <- TwoRequests
  Imports <- TwoImports
  Scenarios <- TheSecond
  Batch <- Lifecycles
  MaxPayments = 2
  MayFail = TRUE
SYMMETRY RequestSymmetry
INVARIANTS
  RunsInv
  ScenarioIsComplete
PROPERTIES
  ClosedAsStored
\* The requests may be used up.
CHECK_DEADLOCK FALSE
