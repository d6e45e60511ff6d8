\* A unit is loaded while an import adds records of its payment.
SPECIFICATION Spec
CONSTANTS
  i1 = i1
  i2 = i2
  r1 = r1
  r2 = r2
  Requests <- TwoRequests
  Imports <- TwoImports
  Scenarios <- NoScenario
  Batch <- ShortThenRefunded
  MaxPayments = 2
  MayFail = FALSE
PROPERTIES
  ClosedAsStored
CHECK_DEADLOCK FALSE
