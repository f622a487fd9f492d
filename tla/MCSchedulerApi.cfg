SPECIFICATION Spec
CONSTANTS
  t1 = t1
  Thread = {t1, t2, idle}
  Idle = idle
  MinPriority = 2
  InitPriority <- TwoLevels
  Queue = {}
  NoQueue = NoQueue
  TimesliceTicks = 1
  TicksWrap = 1
  Intr = {clock, device}
  Clock = clock
  NoIntr = NoIntr
  Calls <- ApiCalls
  DsrCalls = {"resume", "release"}
  MaxHeld = 0
  MaxSuspend = 2
  MaxWakeup = 0
  MaxPosts = 2
INVARIANTS
  TypeOK
  RunQueueConsistent
  TopPriorityRuns
  DsrListsExact
  NoDsrLeftBehind
  SleeperCanBeWoken
PROPERTIES
  SuspendedNeverDispatched
  KillNotForgotten
  ExitIsFinal
