SPECIFICATION Spec
CONSTANTS
  h1 = h1
  h2 = h2
  h3 = h3
  i1 = i1
  i2 = i2
  NoInode = NoInode
  FirstLive <- WithOrWithout
  N = 1
  Handlers <- TwoHandlers
  TableOf <- SameTable
  Inodes <- TwoInodes
  MaxRev = 2
  Faults <- NoFaults
  MaxFaults = 0
INVARIANT EveryFileParses
