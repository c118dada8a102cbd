SPECIFICATION Spec
CONSTANTS
  Name = {a,b}
  NBlocks = 7
  BlocksPerGroup = 4
  NInodes = 4
  InodesPerGroup = 3
  FirstIno = 3
  NDirect = 1
  Pointers = 1
  DirSlots = 2
  Sizes = {2,3}
  MaxFaults = 1
SYMMETRY NameSymmetry
INVARIANTS NamedIsAllocated NoSharedBlock FileIntact
