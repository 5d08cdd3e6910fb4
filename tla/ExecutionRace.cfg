SPECIFICATION FairSpec
CONSTANTS
  e1 = e1
  e2 = e2
  e3 = e3
  s1 = s1
  s2 = s2
  w1 = w1
  Call <- ThreeExecutions
  Key <- FiveKeys
  MaxRetries = 1
  Blocked <- LiveWithoutPermission
  Simulation <- TwoSimulations
  Capture <- OneCapture
  Amount <- AmountOf
  Mixes <- Company
  NoOne = NoOne
INVARIANTS
  TypeOK
  CountMatchesAttempts
  LookupsHold
  CreditHasOutcome
  AtMostOneOrphanLink
PROPERTIES
  AttemptsKeepTheirLifecycle
  OnlyStaleRequestsReopen
  EveryRequestEnds
  ImplementsPort
CHECK_DEADLOCK FALSE
