SPECIFICATION Spec
CHECK_DEADLOCK FALSE
CONSTANTS
  Putters = {p1, p2}
  Getters = {g1, g2}
  BUF_LEN = 3
  InFlight = 5
  Puts = 7
PROPERTIES
  ImplementsQueue
