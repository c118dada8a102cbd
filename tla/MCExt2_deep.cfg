SPECIFICATION FairSpec
CONSTANTS
  Name = {a}
  NBlocks = 8
  BlocksPerGroup = 4
  NInodes = 3
  InodesPerGroup = 3
  FirstIno = 3
  NDirect = 1
  Pointers = 2
  DirSlots = 2
  Sizes = {2,4}
  MaxFaults = 1
INVARIANTS TypeOK CountDrift
PROPERTIES OperationEnds
