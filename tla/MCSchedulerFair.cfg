SPECIFICATION FairSpec
CONSTANTS
  t1 = t1
  Thread = {t1, t2, t3, idle}
  Idle = idle
  MinPriority = 1
  InitPriority <- OneLevel
  Queue = {}
  NoQueue = NoQueue
  TimesliceTicks = 2
  TicksWrap = 2
  Intr = {clock, device}
  Clock = clock
  NoIntr = NoIntr
  Calls <- FairCalls
  DsrCalls = {}
  MaxHeld = 1
  MaxSuspend = 1
  MaxWakeup = 0
  MaxPosts = 1
PROPERTIES
  EveryDsrCalled
  TimesliceShares
