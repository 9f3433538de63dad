SPECIFICATION FairSpec
CONSTANTS
  MaxProcesses <- ThreeSlots
  Programs <- Exiting
PROPERTY MaskEnds
\* sys_exit really stops the machine: the process that is resumed halts with IF clear.
CHECK_DEADLOCK FALSE
