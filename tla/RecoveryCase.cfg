SPECIFICATION Spec
CONSTANTS
  o1 = o1
  p1 = p1
  p2 = p2
  c1 = c1
  c2 = c2
  Order <- OneOrder
  Payment <- TwoPayments
  PayOrder <- SameOrder
  Event <- CoreEvents
  Case <- TwoCases
  CaseOrder <- SameOrderCase
  Foreign <- None
  Synthetic = Synthetic
  NoPayment = NoPayment
  PolicyMaxAttempts = 2
  CaseMaxAttempts = 2
  Disallowed <- None
  MaxDispatch = 2
  MaxSynthetic = 0
SYMMETRY CaseSymmetry
INVARIANTS
  TypeOK
  OneActiveCasePerOrder
  CreditedAttemptClosed
CHECK_DEADLOCK FALSE
