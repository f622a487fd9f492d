SPECIFICATION Spec
CONSTANTS
  Alarms = {a1, a2}
  Increment = 1
  Modulus = 16
  Intervals = {3}
  MaxDelay = 8
  MaxCount = 5
  MaxCalls = 1
  Rearm = FALSE
INVARIANTS
  PhaseKept
