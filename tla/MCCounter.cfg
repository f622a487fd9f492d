SPECIFICATION Spec
CONSTANTS
  Alarms = {a1, a2, a3}
  Increment = 2
  Modulus = 16
  Intervals = {0, 3}
  MaxDelay = 2
  MaxCount = 4
  MaxCalls = 3
  Rearm = FALSE
SYMMETRY Symmetry
INVARIANTS
  CounterTypeOK
  ListedExact
  NothingOverdue
  OnSchedule
