SPECIFICATION MCSpec
CONSTANTS
  t1 = t1
  t2 = t2
  m1 = m1
  Thread = {t1, t2, t3, idle}
  Idle = idle
  MinPriority = 3
  InitPriority <- ThreeLevels
  Queue = {m1, m2, c1}
  Mutexes = {m1, m2}
  CondVars = {c1}
  NoQueue = NoQueue
  NoThread = NoThread
  Protocol <- Protocols
  Ceiling <- Ceilings
  MaxChanges = 1
  TimesliceTicks = 1
  TicksWrap = 1
  Intr = {clock, device}
  Clock = clock
  NoIntr = NoIntr
  Calls <- Roles
  DsrCalls = {"cond_signal", "resume"}
  MaxHeld = 0
  MaxSuspend = 1
  MaxWakeup = 0
  MaxPosts = 1
INVARIANTS
  MutexTypeOK
  WaitersExact
  InheritanceBalanced
  PriorityGivenBack
  NoInversion
  NoWaiterStranded
PROPERTIES
  ImplementsMonitor
