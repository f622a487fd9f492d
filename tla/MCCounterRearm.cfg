SPECIFICATION Spec
CONSTANTS
  Alarms = {a1, a2}
  Increment = 1
  Modulus = 64
  Intervals = {0, 2}
  MaxDelay = 2
  MaxCount = 5
  MaxCalls = 2
  Rearm = TRUE
INVARIANTS
  ManipulatedSensibly
