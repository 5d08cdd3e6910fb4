SPECIFICATION Spec
CONSTANTS
  o1 = o1
  p1 = p1
  p2 = p2
  c1 = c1
  c2 = c2
  Order <- OneOrder
  Payment <- TwoPayments
  PayOrder <- SameOrder
  Event <- CurrencyEvents
  Case <- OneCase
  CaseOrder <- SameOrderOneCase
  Foreign <- SecondPayment
  Synthetic = Synthetic
  NoPayment = NoPayment
  PolicyMaxAttempts = 4
  CaseMaxAttempts = 3
  Disallowed <- None
  MaxDispatch = 3
  MaxSynthetic = 1
INVARIANTS
  RecoveredHasProof
  AttemptBookkeeping
  SupersededOnlyEscalates
  RemindersFollowLinks
PROPERTIES
  SettledByCapture
  TerminalIsFinalInTurn
CHECK_DEADLOCK FALSE
