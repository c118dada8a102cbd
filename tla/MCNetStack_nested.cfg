SPECIFICATION Spec
CONSTANTS
  Host = {gw, h}
  Gateway = gw
  Slots = 1
  Length = 2
  Window = 2
  Polite = TRUE
  MaxConns = 1
  MaxDepth = 3
INVARIANTS OneFramePerPoll
CHECK_DEADLOCK FALSE
