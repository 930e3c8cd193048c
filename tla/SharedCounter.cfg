SPECIFICATION SpecCounter
CHECK_DEADLOCK FALSE
CONSTANTS
  Iterations = 4
INVARIANTS
  NothingLost
  LossBounded
PROPERTIES
  CounterExits
