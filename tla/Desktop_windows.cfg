SPECIFICATION Spec
CONSTANTS
  MaxWindows = 3
  Apps <- AllApps
  Names <- OneFile
  MaxText = 1
  MaxBlocks = 4
  MaxSessions = 2
CONSTRAINT Reentered
\* The user may leave the desktop for good.
CHECK_DEADLOCK FALSE
INVARIANT WellFormed
INVARIANT StatesOwned
INVARIANT SaveMeansTheEditor
INVARIANT DragIsLive
PROPERTY SavedMeansOnDisk
PROPERTY ImplementsStack
