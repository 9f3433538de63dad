SPECIFICATION Spec
CONSTANTS
  MaxProcesses <- ThreeSlots
  Programs <- Returning
PROPERTY RetiredStaysDead
