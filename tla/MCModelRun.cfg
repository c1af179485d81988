CONSTANTS
  Builds <- BothBuilds
SPECIFICATION Spec
INVARIANTS TerminatedOnce NoStepAfterTerminate ErrorIsReported
PROPERTIES StopShutsDown
