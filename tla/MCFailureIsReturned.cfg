CONSTANTS
  NumTids = 3
  Selections <- Some
SPECIFICATION Spec
INVARIANTS FailureIsReturned
