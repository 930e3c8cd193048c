SPECIFICATION SpecControl
CONSTANTS
  MaxGets = 2
  MaxSignals = 1
  MaxFaults = 1
INVARIANTS StopsAtItsFaults AnswerAge LossStopsControl
PROPERTIES EndsOrHangs
CHECK_DEADLOCK FALSE
