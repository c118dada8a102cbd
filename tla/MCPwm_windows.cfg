CONSTANTS
  MaxWindows = 3
  MaxInput = 1
  MaxHistory = 2
  MaxLines = 2
  Char = {a, b}
  Width = 3
  Height = 3
  MaxKeys = 6
SPECIFICATION Spec
INVARIANTS TypeOK  WindowUnderCursor
PROPERTIES OnlyFocusChanges
SYMMETRY Symmetry
