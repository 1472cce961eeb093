SPECIFICATION FairSpec
CONSTANTS
  r1 = r1
  r2 = r2
  a = a
  b = b
  c = c
  w1 = w1
  None = None
  Domains = {"constituent", "donation"}
  Records <- MCRecords
  Options <- MCOptions
  Holdings <- MCHoldings
  Beginnings <- MCBeginnings
  Pairs <- MCPairs
  Editors <- MCEditors
  Pods = 2
  ChunkSize = 1
  MaxAttempts = 2
  MaxMerges = 2
  MaxTroubles = 1
INVARIANTS
  NothingErasedComesBack
  UndoneStaysUndone
  RecordsReadAsTheOptionsSay
PROPERTIES
  JobsComeToRest
CONSTRAINT FewMeetings
CHECK_DEADLOCK FALSE
