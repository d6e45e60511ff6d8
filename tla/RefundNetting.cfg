\* A refund that has nothing to do with what is missing closes the case.
SPECIFICATION Spec
CONSTANTS
  Payment <- ThePayment
  Stored <- OnlyThePayment
  Batches <- RefundImports
INVARIANT RefundsExplain
CHECK_DEADLOCK FALSE
