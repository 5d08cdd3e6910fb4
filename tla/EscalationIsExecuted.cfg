SPECIFICATION FairSpec
CONSTANTS
  o1 = o1
  p1 = p1
  p2 = p2
  c1 = c1
  c2 = c2
  Order <- OneOrder
  Payment <- TwoPayments
  PayOrder <- SameOrder
  Event <- OneFailure
  Case <- OneCase
  CaseOrder <- SameOrderOneCase
  Foreign <- None
  Synthetic = Synthetic
  NoPayment = NoPayment
  PolicyMaxAttempts = 2
  CaseMaxAttempts = 2
  Disallowed <- None
  MaxDispatch = 2
  MaxSynthetic = 0
PROPERTIES
  EscalationIsExecuted
CHECK_DEADLOCK FALSE
