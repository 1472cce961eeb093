SPECIFICATION Spec
CONSTANTS
  q1 = q1
  q2 = q2
  q3 = q3
  q4 = q4
  viewer = viewer
  Free = Free
  Pending = Pending
  Requests <- MCRequests
  Permitted <- MCPermitted
  MaxFaults = 2
INVARIANTS
  RepeatsNeedMishaps
  OnlySuccessCached
  RepliesAreEarned
CHECK_DEADLOCK FALSE
