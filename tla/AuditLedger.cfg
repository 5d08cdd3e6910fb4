SPECIFICATION FairSpec
CONSTANTS
  execution = execution
  verification = verification
  decision = decision
  Txn <- Writers
  Size <- EventsRecorded
  Retries = 1
  NoHash = NoHash
INVARIANTS
  TypeOK
  ChainUnbroken
PROPERTIES
  ImplementsLog
  EveryTransactionEnds
CHECK_DEADLOCK FALSE
