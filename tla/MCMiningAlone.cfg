SPECIFICATION Spec
CONSTANTS
  None = None
  Settings <- AloneOnly
PROPERTY
  KeepsMining
CHECK_DEADLOCK FALSE
