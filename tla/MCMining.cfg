SPECIFICATION Spec
CONSTANTS
  None = None
  Settings <- AllSettings
INVARIANTS
  StopEndsWork
  MinerKnowsChain
PROPERTIES
  StopAnswers
  FullNodeKeepsMining
  WorkConcludes
CHECK_DEADLOCK FALSE
