SPECIFICATION SpecTests
CONSTANTS
  TEST_A = TEST_A
  TEST_B = TEST_B
  TEST_C = TEST_C
  Task = {TEST_A, TEST_B, TEST_C}
  Idle = Idle
  Priorities = 4
  MaxDelay = 1
  MaxMissed = 1
  Created <- CreatedTests
  InitPriority <- PriorityTests
  MaxWait = 4
INVARIANTS PulsesBounded AnsweredInTime
PROPERTIES Answered
