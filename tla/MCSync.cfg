SPECIFICATION MCSpec
CONSTANTS
  t1 = t1
  Thread = {t1, t2, idle}
  Idle = idle
  MinPriority = 2
  InitPriority <- TwoLevels
  Queue = {s1, b1, getq, putq, f1}
  NoQueue = NoQueue
  Semaphores = {s1}
  BinQueue = b1
  GetQueue = getq
  PutQueue = putq
  FlagQueue = f1
  TimesliceTicks = 1
  TicksWrap = 1
  Intr = {clock, device}
  Clock = clock
  NoIntr = NoIntr
  Calls <- SyncCalls
  DsrCalls = {"post", "release", "bin_post", "tryput", "tryget", "setbits"}
  MaxHeld = 0
  MaxSuspend = 1
  MaxWakeup = 0
  MaxPosts = 1
  InitCount <- ZeroCount
  MaxCount = 2
  Item = {1, 2}
  NoItem = NoItem
  Size = 2
  Bit = {1, 2}
INVARIANTS
  SyncTypeOK
  TopPriorityRuns
  LockIsPerThread
  WaitersExact
  NoPostLost
  BinNotStranded
  NothingStranded
  NoSatisfiedSleeper
PROPERTIES
  ImplementsBuffer
  ClearedForOne
