SPECIFICATION Spec
CONSTANTS
  MaxWindows = 3
  Apps <- TwoApps
  Names <- OneFile
  MaxText = 0
  MaxBlocks = 3
  MaxSessions = 1
CHECK_DEADLOCK FALSE
INVARIANT FrontEditorHasItsRows
