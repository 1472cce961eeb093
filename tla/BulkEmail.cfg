SPECIFICATION FairSpec
CONSTANTS
  ann = ann
  bob = bob
  w1 = w1
  w2 = w2
  Idle = Idle
  Nobody = Nobody
  Recipients <- MCRecipients
  Workers <- MCWorkers
  MaxRows = 3
  MaxFaults = 1
  MaxFlips = 1
INVARIANTS
  NobodyMailedTwice
  NobodyForgotten
  CompletedReachedAll
PROPERTIES
  RowsComeToRest
CONSTRAINT FewDisturbances
CHECK_DEADLOCK FALSE
