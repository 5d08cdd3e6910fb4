SPECIFICATION FairSpec
CONSTANTS
  o1 = o1
  o2 = o2
  p1 = p1
  p2 = p2
  p3 = p3
  c1 = c1
  c2 = c2
  c3 = c3
  b1 = b1
  Order <- TwoOrders
  Payment <- ThreePayments
  PayOrder <- OrderOfPayment
  Event <- Events
  Case <- ThreeCases
  CaseOrder <- OrderOfCase
  Foreign <- None
  Synthetic = Synthetic
  NoPayment = NoPayment
  Buyer <- OneBuyer
  BuyerOf <- SameBuyer
  MaxRetries = 1
  Mixes <- Company
INVARIANTS
  TypeOK
  OnlyTheChainRefusesAgain
  ReadsHold
  FailuresNotInvented
PROPERTIES
  RunsAreAtomic
  EveryEventEnds
CHECK_DEADLOCK FALSE
