SPECIFICATION FairSpec
CONSTANTS
  Path = {"t", "tmp"}
  Device = {"null"}
  Extending <- MCExtending
  MaxFd = 3
  DiskFull = TRUE
  Response <- MCResponse
  MaxPiece = 4
  Temp = "tmp"
  Owned = {"t"}
INVARIANTS TypeOK BodySplit NoLeak SavedIsOnePart
PROPERTIES  CommandEnds
