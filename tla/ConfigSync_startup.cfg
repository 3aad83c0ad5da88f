SPECIFICATION FairSpec
CONSTANTS
  h1 = h1
  h2 = h2
  h3 = h3
  i1 = i1
  i2 = i2
  NoInode = NoInode
  FirstLive <- WithOrWithout
  N = 2
  Handlers <- TwoHandlers
  TableOf <- OneTableEach
  Inodes <- TwoInodes
  MaxRev = 1
  Faults <- GatewayFaults
  MaxFaults = 1
CHECK_DEADLOCK FALSE
PROPERTY EveryWriteServed
