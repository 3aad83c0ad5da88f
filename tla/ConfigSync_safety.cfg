SPECIFICATION FairSpec
CONSTANTS
  h1 = h1
  h2 = h2
  h3 = h3
  i1 = i1
  i2 = i2
  NoInode = NoInode
  FirstLive <- WithFile
  N = 2
  Handlers <- ThreeHandlers
  TableOf <- RaceAndSolo
  Inodes <- TwoInodes
  MaxRev = 2
  Faults <- AllFaults
  MaxFaults = 1
CHECK_DEADLOCK FALSE
INVARIANTS
  TypeOK
  SoloFileParses
  SoloAckedDurable
  SoloGatewayFresh
PROPERTIES
  PublishedSpec
  SoloWriteServed
