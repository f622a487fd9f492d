SPECIFICATION Spec
CONSTANTS
  t1 = t1
  Thread = {t1, t2, idle}
  Idle = idle
  MinPriority = 1
  InitPriority <- OneLevel
  Queue = {}
  NoQueue = NoQueue
  TimesliceTicks = 2
  TicksWrap = 3
  Intr = {clock, device}
  Clock = clock
  NoIntr = NoIntr
  Calls <- QuantumCalls
  DsrCalls = {"release"}
  MaxHeld = 0
  MaxSuspend = 1
  MaxWakeup = 0
  MaxPosts = 1
INVARIANTS
  QuantumBounded
