CONSTANTS
  NumTids = 3
  CounterLimit <- TwoAndThree
  MaxPending = 2
  MaxSteps = 7
  MaxFlags = 2
SPECIFICATION Spec
INVARIANTS OverrunIsSeen
