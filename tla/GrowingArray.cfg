SPECIFICATION Spec
CONSTANTS
  Value = {v1, v2}
  Junk = Junk
  Capacity = 1
  MaxBack = 4
INVARIANTS HoldsWhatWasPut CopyIntact
