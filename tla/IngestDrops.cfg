\* Children arrive before their parents.
SPECIFICATION Spec
CONSTANTS
  order = order
  pay = pay
  pay2 = pay2
  fee = fee
  refund = refund
  r1 = r1
  r2 = r2
  r3 = r3
  k1 = k1
  k2 = k2
  k3 = k3
  Records <- SomeRecords
  Kind <- KindOf
  Refers <- ParentsOf
  Malformed <- NoneMalformed
  Keys <- TwoKeys
  Batches <- RacingBatches
  Requests <- TwoRequests
  MayCrash = FALSE
INVARIANT
  DuplicatesAreStored
CHECK_DEADLOCK FALSE
