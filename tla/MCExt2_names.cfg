SPECIFICATION Spec
CONSTANTS
  Name = {a,b}
  NBlocks = 5
  BlocksPerGroup = 3
  NInodes = 4
  InodesPerGroup = 3
  FirstIno = 3
  NDirect = 2
  Pointers = 1
  DirSlots = 1
  Sizes = {1}
  MaxFaults = 1
INVARIANTS  DotDotIntact LinksDrift
 
