CONSTANTS
  Workspaces <- MCWorkspaces
  Requests <- MCRequests
  MaxEdits = 1
SPECIFICATION Spec
CHECK_DEADLOCK FALSE
PROPERTY RefactoringKeepsTheBuild
