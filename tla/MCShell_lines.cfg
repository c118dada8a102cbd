CONSTANTS
  Char = {"2", "-", " "}
  Limit = 21
  Width = 11
  Prompt <- MCPrompt
  MaxHistory = 2
  Sudo <- MCSudo
  Command <- MCCommand
  Run <- cmd_numix
  Past <- MCPast
  Keys <- MCKeys
  Bits = 4
  MaxDepth = 3
SPECIFICATION Spec
INVARIANTS TypeOK  NumixAgrees
CHECK_DEADLOCK FALSE
