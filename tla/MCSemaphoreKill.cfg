SPECIFICATION SemSpec
CONSTANTS
  t1 = t1
  Thread = {t1, t2, idle}
  Idle = idle
  MinPriority = 2
  InitPriority <- TwoLevels
  Queue = {s1}
  Semaphores = {s1}
  NoQueue = NoQueue
  TimesliceTicks = 1
  TicksWrap = 1
  Intr = {clock, device}
  Clock = clock
  NoIntr = NoIntr
  Calls <- KillCalls
  DsrCalls = {"post"}
  MaxHeld = 0
  MaxSuspend = 1
  MaxWakeup = 0
  MaxPosts = 1
  InitCount <- ZeroCount
  MaxCount = 1
INVARIANTS
  KilledNeverRunsOn
