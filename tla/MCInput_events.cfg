SPECIFICATION Spec
CONSTANTS
  Key = {"char", "ctrl", "rctrl"}
  PacketLength = 3
  Sync = {0, 1}
  QueueSize = 2
  MaxBytes = 6
  MaxCodes = 2
INVARIANTS TypeOK   
