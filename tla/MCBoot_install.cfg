CONSTANTS
  User = {"ed", "sue"}
  Password = {"p", "q"}
  NameLen <- MCNameLen
  Records = 2
SPECIFICATION Spec
INVARIANTS TypeOK  SessionIsRecorded
 
