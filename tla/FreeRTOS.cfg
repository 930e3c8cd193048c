SPECIFICATION Spec
CONSTANTS
  t1 = t1
  t2 = t2
  t3 = t3
  Task = {t1, t2}
  Idle = Idle
  Priorities = 2
  MaxDelay = 3
  MaxMissed = 2
  Created <- CreatedTwo
  InitPriority <- FirstUrgent
INVARIANTS ListsConsistent MostUrgentRuns
PROPERTIES ImplementsDelays FairShareOfSecond
