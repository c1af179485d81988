CONSTANTS
  Models <- Apart
  MaxBlocks = 3
  MaxSteps = 7
SPECIFICATION Spec
INVARIANTS OutputFits
CHECK_DEADLOCK FALSE
