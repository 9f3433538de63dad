SPECIFICATION FairSpec
CONSTANTS
  MaxProcesses <- ThreeSlots
  Programs <- AllPrograms
INVARIANT TableWellFormed
INVARIANT OneRunning
INVARIANT SchedulableHasStack
INVARIANT NothingLeftBehind
PROPERTY ImplementsDispatch
PROPERTY ReadyRuns
PROPERTY ControlReturns
\* sys_exit really stops the machine: the process that is resumed halts with IF clear.
CHECK_DEADLOCK FALSE
