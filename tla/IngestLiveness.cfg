\* Nothing fails and the batches agree on the order of their payments.
SPECIFICATION FairSpec
CONSTANTS
  order = order
  pay = pay
  pay2 = pay2
  fee = fee
  refund = refund
  r1 = r1
  r2 = r2
  r3 = r3
  k1 = k1
  k2 = k2
  k3 = k3
  Records <- SomeRecords
  Kind <- KindOf
  Refers <- ParentsOf
  Malformed <- NoneMalformed
  Keys <- ThreeKeys
  Batches <- OrderedBatches
  Requests <- TwoRequests
  MayCrash = FALSE
PROPERTIES
  ImportsComplete
\* All the keys may be used up.
CHECK_DEADLOCK FALSE
