SPECIFICATION Spec
CONSTANTS
  NumLines = 3
  Patient = {1, 3}
INVARIANTS
  NoticedUnlessEarly
  OneRound
PROPERTIES
  OnePulsePerTest
  Answered
