SPECIFICATION Spec
CONSTANTS
  d1 = d1
  d2 = d2
  p1 = p1
  p2 = p2
  None = None
  Donations <- MCDonations
  Pods <- MCPods
  Ranks <- MCRanks
  BatchSize = 1
  MaxVersions = 2
  MaxSweeps = 1
  MaxTroubles = 1
INVARIANTS
  GaplessNumbers
  ReceiptsHoldTheirOwn
  OneReceiptPerDonation
  ReceiptsStayReadable
  CleanSweepIsComplete
  SequenceIsNeverStranded
PROPERTY
  ImplementsBook
SYMMETRY MCSymmetry
CHECK_DEADLOCK FALSE
