SPECIFICATION Spec
CHECK_DEADLOCK FALSE
CONSTANTS
  NUM_PHILOSOPHERS = 3
  NUM_MEALS = 2
INVARIANTS
  NeighboursExclude
  UnlocksOwnLocks
  ForksThereWhenUsed
PROPERTIES
  ForksComeBack
  ProgramExits
