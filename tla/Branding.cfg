SPECIFICATION FairSpec
CONSTANTS
  u1 = u1
  u2 = u2
  Null = Null
  Uploads <- MCUploads
  Pods = 2
  MaxFaults = 1
INVARIANTS
  ActivationIsCausal
  ActiveLogoServable
PROPERTIES
  SweepSparesActive
  OrphansAreReaped
CHECK_DEADLOCK FALSE
