SPECIFICATION FairSpec
CONSTANTS
  r1 = r1
  r2 = r2
  Events <- MCEvents
  InlineEvents <- MCInline
  Replicas <- MCReplicas
  BatchSize = 2
  Attempts = 2
  KeepCompleted = 1
  KeepFailed = 1
  MaxFaults = 2
INVARIANTS
  RedeliveryNeedsEviction
PROPERTIES
  ImplementsDelivery
  EventuallySettled
CHECK_DEADLOCK FALSE
