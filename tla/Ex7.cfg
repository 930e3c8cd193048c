SPECIFICATION Spec
CHECK_DEADLOCK FALSE
CONSTANTS
  Mains <- MainsEx7
  Tasks <- TasksEx7
  Prog <- ProgEx7
  Priority <- PriorityEx7
  Sems <- SemsEx7
  SemInit <- SemInitEx7
  Mutexes <- MutexesEx7
  Unit = 4
  Latency = 3
INVARIANTS
  BarrierHolds
  StartTogether
  OneAtTheResource
  DeletedAfterUse
  BoundedBlocking
  NeverWaits
  CeilingBlocking
PROPERTIES
  ShowsInversion
  Deadlocks
  ProgramsEnd
