CONSTANTS
  Workspaces <- MCWorkspaces
  Requests <- MCRequests
  MaxEdits = 2
SPECIFICATION Spec
CHECK_DEADLOCK FALSE
PROPERTIES
  RenamesKeepMeaning
  CallsKeepTheirArguments
  MoveKeepsMeaning
  ModuleRenameKeepsImports
  RemovedMembersWereUnused
