SPECIFICATION Spec
CONSTANTS
  r1 = r1
  r2 = r2
  a = a
  b = b
  c = c
  w1 = w1
  None = None
  Domains = {"constituent"}
  Records <- MCRecords
  Options <- MCOptions
  Holdings <- MCHoldings
  Beginnings <- MCBeginnings
  Pairs <- MCPairs
  Editors <- MCEditors
  Pods = 1
  ChunkSize = 1
  MaxAttempts = 2
  MaxMerges = 1
  MaxTroubles = 1
PROPERTIES
  PatchesKeepOtherKeys
CHECK_DEADLOCK FALSE
