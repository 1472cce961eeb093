SPECIFICATION FairSpec
CONSTANTS
  founder = founder
  ann = ann
  bob = bob
  eve = eve
  p1 = p1
  p2 = p2
  Null = Null
  Founder = founder
  Users <- MCUsers
  Ids <- MCIds
  Resolvers <- MCResolvers
  Passes <- MCPasses
INVARIANTS
  OneFirstAdmin
  ReplacedIsInOffice
  ConfirmedOnce
PROPERTIES
  ImplementsOffice
  OnlyOpenDisputesUnseat
  LapsedWindowsClose
CHECK_DEADLOCK FALSE
