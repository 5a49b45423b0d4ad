SPECIFICATION Spec
CONSTANTS
  NoText = NoText
  File <- MCFile
  Dir <- MCDir
  DirOf <- MCDirOf
  External <- MCExternal
  Name <- MCName
  Start <- MCStart
  Pending <- MCPending
  Request <- MCRequest
  Changed <- MCChanged
  MaxChanges = 1
  MaxRounds = 2
INVARIANTS
  TypeOK
  StackIsSimple
  FailuresAreReal
  
  SameVerdictAgain
CHECK_DEADLOCK FALSE
