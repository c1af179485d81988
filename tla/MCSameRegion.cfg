CONSTANTS
  Models <- Same
  MaxBlocks = 3
  MaxSteps = 7
SPECIFICATION Spec
INVARIANTS InTurn
CHECK_DEADLOCK FALSE
