SPECIFICATION Spec
CONSTANTS
  t1 = t1
  t2 = t2
  t3 = t3
  Task = {t1, t2, t3}
  Idle = Idle
  Priorities = 2
  MaxDelay = 1
  MaxMissed = 1
  Created <- CreatedThree
  InitPriority <- FirstUrgent
INVARIANT MostUrgentFirst
