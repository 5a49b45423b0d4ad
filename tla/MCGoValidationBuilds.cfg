SPECIFICATION Spec
CONSTANTS
  NoText = NoText
  File <- MCFile
  Dir <- MCDir
  DirOf <- MCDirOf
  External <- MCExternal
  Name <- MCName
  Start <- MCStart
  Pending <- MCPending
  Request <- MCRequest
  Changed <- MCChanged
  MaxChanges = 0
  MaxRounds = 1
INVARIANT
  PassedMeansItBuilds
CHECK_DEADLOCK FALSE
