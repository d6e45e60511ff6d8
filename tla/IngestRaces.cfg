\* Three imports race; processes may die at any statement.
SPECIFICATION Spec
CONSTANTS
  order = order
  pay = pay
  pay2 = pay2
  fee = fee
  refund = refund
  r1 = r1
  r2 = r2
  r3 = r3
  k1 = k1
  k2 = k2
  k3 = k3
  Records <- SomeRecords
  Kind <- KindOf
  Refers <- ParentsOf
  Malformed <- FeeMalformed
  Keys <- ThreeKeys
  Batches <- RacingBatches
  Requests <- ThreeRequests
  MayCrash = TRUE
SYMMETRY RequestSymmetry
INVARIANTS
  IngestionInv
  WholeLifecycle
PROPERTIES
  ImplementsAtomicImport
  RowsAreFinal
\* All the keys may be used up.
CHECK_DEADLOCK FALSE
