SPECIFICATION Spec
CONSTANTS
  Host = {gw, h}
  Gateway = gw
  Slots = 2
  Length = 3
  Window = 2
  Polite = TRUE
  MaxConns = 2
  MaxDepth = 2
INVARIANTS TypeOK AckedIsHeld ClosedByPeer BothKnow
PROPERTIES ImplementsStream
CHECK_DEADLOCK FALSE
