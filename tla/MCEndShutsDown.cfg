CONSTANTS
  Builds <- BothBuilds
SPECIFICATION Spec
PROPERTY EndShutsDown
