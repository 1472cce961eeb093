SPECIFICATION FairSpec
CONSTANTS
  u1 = u1
  u2 = u2
  Null = Null
  Uploads <- MCUploads
  Pods = 2
  MaxFaults = 0
PROPERTIES
  LastWriteWins
CHECK_DEADLOCK FALSE
