\* Imports add the fees, the second leg, its credit and an adjustment to a
\* payment under investigation.
SPECIFICATION Spec
CONSTANTS
  Payment <- ThePayment
  Stored <- PartlySettled
  Batches <- Imports
INVARIANTS
  ResolvedAsTheBaseline
  ResolvedOnTheUnit
  StandsUnlessRaced
\* The investigation ends with its verdict.
CHECK_DEADLOCK FALSE
