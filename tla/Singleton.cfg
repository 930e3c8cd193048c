SPECIFICATION Spec
CHECK_DEADLOCK FALSE
CONSTANTS
  NumThreads = 4
INVARIANTS
  PrintsComplete
PROPERTIES
  ProgramExits
  ImplementsOnce
