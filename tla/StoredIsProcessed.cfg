SPECIFICATION FairSpec
CONSTANTS
  readable = readable
  unreadable = unreadable
  r1 = r1
  r2 = r2
  r3 = r3
  w1 = w1
  w2 = w2
  Event <- OneEvent
  Malformed <- None
  Request <- Requests
  Worker <- Workers
  NoEvent = NoEvent
  MaxRetries = 1
  MaxLosses = 1
PROPERTIES
  StoredIsProcessed
CHECK_DEADLOCK FALSE
