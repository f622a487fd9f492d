SPECIFICATION FairSpec
CONSTANTS
  t1 = t1
  Thread = {t1, t2, idle}
  Idle = idle
  MinPriority = 1
  InitPriority <- OneLevel
  Queue = {}
  NoQueue = NoQueue
  TimesliceTicks = 2
  TicksWrap = 2
  Intr = {clock}
  Clock = clock
  NoIntr = NoIntr
  Calls <- DelayCalls
  DsrCalls = {}
  MaxHeld = 0
  MaxSuspend = 1
  MaxWakeup = 0
  MaxPosts = 1
PROPERTIES
  TimesliceShares
