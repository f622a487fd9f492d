SPECIFICATION Spec
CONSTANTS
  t1 = t1
  Thread = {t1, t2, idle}
  Idle = idle
  MinPriority = 1
  InitPriority <- OneLevel
  Queue = {}
  NoQueue = NoQueue
  TimesliceTicks = 1
  TicksWrap = 1
  Intr = {clock, device}
  Clock = clock
  NoIntr = NoIntr
  Calls <- LockCalls
  DsrCalls = {"counted_wake"}
  MaxHeld = 1
  MaxSuspend = 0
  MaxWakeup = 1
  MaxPosts = 1
INVARIANTS
  RunQueueConsistent
  TopPriorityRuns
  NoDsrLeftBehind
  LockIsPerThread
  SleeperCanBeWoken
  NoCountedWakeupMissed
  KilledNeverRunsOn
