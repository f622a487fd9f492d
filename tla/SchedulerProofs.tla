--------------------------- MODULE SchedulerProofs ---------------------------
(***************************************************************************)
(* The scheduler's safety properties, for any number of threads, any       *)
(* priorities, interrupts and calls.                                       *)
(*                                                                         *)
(* The inductive invariant has three parts: the kernel data is sound       *)
(* (KernelOK, which every operation of ThreadOps keeps); past the switch   *)
(* of unlock_inner no reschedule is outstanding (Settled); and the         *)
(* scheduler lock agrees with what each thread has to undo (LockOK).       *)
(***************************************************************************)
EXTENDS Scheduler, ThreadOpsProofs

KernelInv ==
  /\ TypeOK
  /\ KernelOK(k)
  /\ cont[Idle] = "user"

\* Past the switch, until the data is next touched.
Settled ==
  pc \in {"zero", "recheck"} \/ (pc = "user" /\ sched_lock = 0) =>
    ~k.need_reschedule /\ Running(k, Current)

Unlocking == {"unlock", "dsr", "resched", "zero"}

LockOK ==
  /\ pc = "boot" => sched_lock = 1 /\ new_lock = 0 /\ fresh = Thread
  /\ pc # "boot" => Current \notin fresh
  /\ pc = "user" => sched_lock = LockDepth(Current)
  /\ pc \in Unlocking => new_lock = LockDepth(Current) /\ sched_lock > 0
  /\ pc = "unlock" /\ new_lock = 0 => sched_lock = 1
  /\ pc = "dsr" => new_lock = 0 /\ sched_lock = 1
  /\ pc = "recheck" => sched_lock = 0 /\ LockDepth(Current) = 0
  /\ \A t \in fresh : LockDepth(t) = 0
  /\ \A t \in Thread \ fresh : t # Current => saved[t] = LockDepth(t)

IInv == KernelInv /\ Settled /\ LockOK
------------------------------------------------------------------------------
(***************************************************************************)
(* The kernel data.                                                        *)
(***************************************************************************)
\* Giving the CPU to the thread schedule() chose keeps the invariant: there
\* is no better one, so need_reschedule may be cleared.
LEMMA DispatchOK ==
  ASSUME NEW d, KernelOK(d), NEW e \in KernelData,
         e.current_thread = Schedule(d),
         e.state = d.state, e.priority = d.priority,
         e.run_queue = d.run_queue, e.queue_map = d.queue_map
  PROVE  KernelOK(e) /\ Running(e, e.current_thread)
<1>1. /\ Running(d, Schedule(d))
      /\ \A t \in Thread :
           Running(d, t) => d.priority[Schedule(d)] <= d.priority[t]
  BY ScheduleIsBest
<1>2. RunQueuesExact(e)
  BY DEF KernelOK, RunQueuesExact, Running
<1>3. PreemptionNoted(e)
  BY <1>1 DEF PreemptionNoted, Running
<1> QED
  BY <1>1, <1>2, <1>3 DEF KernelOK, Running

\* thread_entry and the return from the context switch, with or without the
\* timeslice_save of the thread that leaves.
LEMMA SwitchOK ==
  ASSUME NEW d, KernelOK(d), NEW ts \in [Thread -> 0 .. TicksWrap]
  PROVE  LET t == Schedule(d)
             j == [d EXCEPT !.timeslice = ts]
         IN  /\ KernelOK(Enter(j, t)) /\ KernelOK(Continue(j, t))
             /\ Enter(j, t).current_thread = t
             /\ Continue(j, t).current_thread = t
             /\ Continue(j, t).need_reschedule = FALSE
             /\ Running(Continue(j, t), t)
<1> DEFINE t == Schedule(d)
           j == [d EXCEPT !.timeslice = ts]
           us == [ts EXCEPT ![t] = TimesliceTicks]
           x == [d EXCEPT !.current_thread = t, !.need_reschedule = FALSE,
                          !.timeslice = us, !.timeslice_count = TimesliceTicks]
           y == [d EXCEPT !.current_thread = t, !.need_reschedule = FALSE,
                          !.timeslice = ts, !.timeslice_count = ts[t]]
<1>1. t \in Thread /\ d \in KernelData
  BY ScheduleIsBest DEF KernelOK
<1>8. t = Schedule(d)
  OBVIOUS
<1> HIDE DEF t
<1>2. TimesliceTicks \in 0 .. TicksWrap /\ ts[t] \in 0 .. TicksWrap
  BY <1>1, ThreadAssumption
<1>3. us \in [Thread -> 0 .. TicksWrap]
  BY <1>2
<1>4. j.timeslice = ts
  BY <1>1 DEF KernelData
<1>5. Enter(j, t) = x /\ Continue(j, t) = y
  BY <1>1, <1>4 DEF Enter, Continue, KernelData
<1> HIDE DEF us
<1>6. /\ x \in KernelData
      /\ x.current_thread = t /\ x.state = d.state /\ x.priority = d.priority
      /\ x.run_queue = d.run_queue /\ x.queue_map = d.queue_map
  BY <1>1, <1>2, <1>3 DEF KernelData
<1>7. /\ y \in KernelData
      /\ y.current_thread = t /\ y.state = d.state /\ y.priority = d.priority
      /\ y.run_queue = d.run_queue /\ y.queue_map = d.queue_map
      /\ y.need_reschedule = FALSE
  BY <1>1, <1>2 DEF KernelData
<1> HIDE DEF x, y
<1>9. KernelOK(x) /\ KernelOK(y) /\ Running(y, t)
  BY <1>6, <1>7, <1>8, DispatchOK
<1> QED
  BY <1>5, <1>6, <1>7, <1>9 DEF t

LEMMA SaveType ==
  ASSUME NEW d, KernelOK(d)
  PROVE  [d.timeslice EXCEPT ![d.current_thread] = d.timeslice_count]
           \in [Thread -> 0 .. TicksWrap]
  BY DEF KernelOK, KernelData

LEMMA InitialDataOK == KernelOK(InitialData)
<1> DEFINE d == InitialData
<1>1. /\ Idle \in Thread /\ MinPriority \in Priority
      /\ InitPriority \in [Thread -> Priority]
      /\ InitPriority[Idle] = MinPriority
      /\ TimesliceTicks \in 0 .. TicksWrap
  BY ThreadAssumption DEF Priority
<1>2. d.state = [t \in Thread |-> IF t = Idle THEN RUNNING ELSE {"SUSPENDED"}]
  BY DEF InitialData
<1>3. d.run_queue = [p \in Priority |-> IF p = MinPriority THEN <<Idle>> ELSE <<>>]
  BY DEF InitialData
<1>4. d.priority = InitPriority /\ d.current_thread = Idle /\ d.queue_map = {MinPriority}
  BY DEF InitialData
<1>5. \A t \in Thread : Running(d, t) <=> t = Idle
  BY <1>2 DEF Running, RUNNING
<1>6. d.state \in [Thread -> SUBSET StateBit]
  BY <1>2 DEF StateBit, RUNNING
<1>7. <<Idle>> \in Seq(Thread) /\ ToSet(<<Idle>>) = {Idle} /\ IsInjective(<<Idle>>)
  <2>1. /\ <<Idle>> \in Seq(Thread) /\ Len(<<Idle>>) = 1
        /\ DOMAIN <<Idle>> = 1 .. 1 /\ <<Idle>>[1] = Idle
    BY <1>1
  <2> QED
    BY <2>1 DEF ToSet, IsInjective
<1>8. d.run_queue \in [Priority -> Seq(Thread)]
  BY <1>3, <1>7
<1>9. <<>> \in Seq(Thread) /\ ToSet(<<>>) = {} /\ IsInjective(<<>>)
  BY DEF ToSet, IsInjective
<1>10. d \in KernelData
  <2>1. /\ [t \in Thread |-> IF t = Idle THEN 0 ELSE 1] \in [Thread -> Nat]
        /\ [t \in Thread |-> 0] \in [Thread -> Nat]
        /\ [t \in Thread |-> "NONE"] \in [Thread -> Reason]
        /\ [t \in Thread |-> TimesliceTicks] \in [Thread -> 0 .. TicksWrap]
        /\ [t \in Thread |-> NoQueue] \in [Thread -> Queue \cup {NoQueue}]
        /\ [q \in Queue |-> <<>>] \in [Queue -> Seq(Thread)]
    BY <1>1, <1>9 DEF Reason
  <2> QED
    BY <1>1, <1>2, <1>3, <1>6, <1>8, <2>1 DEF InitialData, KernelData
<1>11. RunQueuesExact(d)
  <2> SUFFICES ASSUME NEW p \in Priority
               PROVE /\ ToSet(d.run_queue[p]) =
                          {t \in Thread : Running(d, t) /\ d.priority[t] = p}
                     /\ IsInjective(d.run_queue[p])
                     /\ p \in d.queue_map <=> d.run_queue[p] # <<>>
    BY DEF RunQueuesExact
  <2>1. <<Idle>> # <<>>
    OBVIOUS
  <2>2. d.run_queue[p] = IF p = MinPriority THEN <<Idle>> ELSE <<>>
    BY <1>3
  <2>3. {t \in Thread : Running(d, t) /\ d.priority[t] = p} =
          IF p = MinPriority THEN {Idle} ELSE {}
    BY <1>1, <1>4, <1>5
  <2> QED
    BY <1>4, <1>7, <1>9, <2>1, <2>2, <2>3
<1>12. PreemptionNoted(d)
  <2>1. d.priority[d.current_thread] <= d.priority[Idle]
    BY <1>1, <1>4, ThreadAssumption
  <2> QED
    BY <1>5, <2>1 DEF PreemptionNoted
<1>13. Running(d, Idle) /\ d.priority[Idle] = MinPriority
  BY <1>1, <1>4, <1>5
<1> QED
  BY <1>10, <1>11, <1>12, <1>13 DEF KernelOK

\* The idle thread makes no call and is in the middle of none.
LEMMA CallerIsTarget ==
  ASSUME KernelInv, (\E name : Calling(name)) \/ cont[Current] # "user"
  PROVE  Current \in Target
  BY DEF KernelInv, KernelOK, KernelData, Calling, Current, Target

\* The data after a step: the same thread runs, or unlock_inner switched.
LEMMA DataStep ==
  ASSUME KernelInv, [Next]_vars
  PROVE  /\ KernelOK(k')
         /\ Current' = Current \/ StartScheduler \/ SwitchBack \/ SwitchToFresh
<1> SUFFICES Sound(k, k') \/
             (KernelOK(k') /\ (StartScheduler \/ SwitchBack \/ SwitchToFresh))
  BY DEF Sound, Current
<1> USE DEF KernelInv
<1>0. KernelOK(k) /\ Sound(k, k)
  BY SoundRefl
<1>1. CASE UNCHANGED vars
  BY <1>0, <1>1 DEF vars
<1>2. ASSUME NEW t \in Target, BootResume(t) PROVE Sound(k, k')
  BY <1>2, ResumeSound DEF BootResume
<1>3. CASE StartScheduler
  <2>1. k.timeslice \in [Thread -> 0 .. TicksWrap]
    BY DEF KernelOK, KernelData
  <2>2. [k EXCEPT !.timeslice = k.timeslice] = k
    BY DEF KernelOK, KernelData
  <2>3. KernelOK(Enter(k, Schedule(k)))
    BY <2>1, <2>2, SwitchOK
  <2> QED
    BY <1>3, <2>3 DEF StartScheduler
<1>4. ASSUME NEW i \in Intr, Interrupt(i) PROVE Sound(k, k')
  BY <1>0, <1>4 DEF Interrupt
<1>5. ASSUME NEW t \in Thread, ClockAlarm(t) PROVE Sound(k, k')
  BY <1>5, AlarmSound DEF ClockAlarm
<1>6. CASE CallPendingDSRs \/ NoDSRs \/ TakeDSR \/ DSRsDone \/ ZeroLock
           \/ RestoreLock \/ GoRound \/ Return \/ CheckNotKilled \/ SchedLock
  BY <1>0, <1>6 DEF CallPendingDSRs, NoDSRs, TakeDSR, DSRsDone, ZeroLock,
       RestoreLock, GoRound, Return, CheckNotKilled, SchedLock
<1>7. CASE ClockTimeslice
  BY <1>7, TimesliceSound DEF ClockTimeslice
<1>8. ASSUME NEW t \in Target, DeviceDSR(t) PROVE Sound(k, k')
  <2>1. t \in Thread
    BY DEF Target
  <2>2. k' \in {k, Resume(k, t), Release(k, t), CountedWake(k, t), Suspend(k, t)}
    BY <1>8 DEF DeviceDSR, DeviceEffect
  <2> QED
    BY <1>0, <2>1, <2>2, ResumeSound, ReleaseSound, CountedWakeSound, SuspendSound
<1>9. CASE Stay
  <2> DEFINE e == [k EXCEPT !.need_reschedule = FALSE]
  <2>1. CASE ~MustReschedule
    BY <1>0, <1>9, <2>1 DEF Stay
  <2>2. CASE MustReschedule
    <3>1. /\ e \in KernelData
          /\ e.current_thread = k.current_thread
          /\ e.state = k.state /\ e.priority = k.priority
          /\ e.run_queue = k.run_queue /\ e.queue_map = k.queue_map
      BY DEF KernelOK, KernelData
    <3>2. k' = e /\ Schedule(k) = k.current_thread
      BY <1>9, <2>2 DEF Stay, Current
    <3> HIDE DEF e
    <3> QED
      BY <3>1, <3>2, DispatchOK DEF Sound
  <2> QED
    BY <2>1, <2>2
<1>10. CASE SwitchBack
  BY <1>10, SaveType, SwitchOK DEF SwitchBack, TimesliceSave, Current
<1>11. CASE SwitchToFresh
  BY <1>11, SaveType, SwitchOK DEF SwitchToFresh, TimesliceSave, Current
<1>12. CASE SchedUnlock
  BY <1>0, <1>12 DEF SchedUnlock, LockedUpdate
<1>13. CASE ExitThread \/ CheckKilled
  <2>1. k' = Exit(k) /\ Current \in Target
    BY <1>13, CallerIsTarget DEF ExitThread, CheckKilled, RescheduleThen
  <2> QED
    BY <2>1, ExitSound DEF Current
<1>14. CASE YieldThread
  BY <1>14, YieldSound DEF YieldThread
<1>15. CASE DelayThread \/ DelayThreadPast
  <2>1. k' \in {Delay(k), DelayPast(k)} /\ Current \in Target
    BY <1>15, CallerIsTarget
       DEF DelayThread, DelayThreadPast, UpdateThen, LockedUpdate
  <2> QED
    BY <2>1, DelaySound DEF Current
<1>16. CASE DelayClear \/ TimedCountedSleepClear
  <2>1. k' = ClearTimer(k, Current) /\ Current \in Thread
    BY <1>16 DEF DelayClear, TimedCountedSleepClear, UpdateThen, LockedUpdate,
         KernelOK, KernelData, Current
  <2> QED
    BY <2>1, TimerSound DEF Reason
<1>17. CASE CountedSleepThread
  <2>1. k' = CountedSleep(k) /\ Current \in Target
    BY <1>17, CallerIsTarget DEF CountedSleepThread, UpdateThen, LockedUpdate
  <2> QED
    BY <2>1, CountedSleepSound DEF Current
<1>18. CASE TimedCountedSleepThread
  <2>1. /\ \/ k' \in {TimedCountedSleep(k), TimedCountedSleepPast(k)}
           \/ k.wakeup_count[Current] # 0 /\ k' = TakeWakeup(k)
        /\ Current \in Target
    BY <1>18, CallerIsTarget
       DEF TimedCountedSleepThread, UpdateThen, RescheduleThen, LockedUpdate
  <2> QED
    BY <2>1, TimedCountedSleepSound, TakeWakeupSound DEF Current
<1>19. ASSUME NEW t \in Target,
              \/ SuspendThread(t) \/ ResumeThread(t) \/ ReleaseThread(t)
              \/ KillThread(t) \/ ThreadToQueueHead(t)
              \/ CountedWakeThread(t) \/ CancelWakeups(t)
       PROVE  Sound(k, k')
  <2>1. t \in Thread
    BY DEF Target
  <2>2. k' \in {Suspend(k, t), Resume(k, t), Release(k, t), Kill(k, t),
                ToQueueHead(k, t), CountedWake(k, t), CancelCountedWake(k, t)}
    BY <1>19 DEF SuspendThread, ResumeThread, ReleaseThread, KillThread,
         ThreadToQueueHead, CountedWakeThread, CancelWakeups, Update, LockedUpdate
  <2> QED
    BY <2>1, <2>2, SuspendSound, ResumeSound, ReleaseSound, KillSound,
       ToQueueHeadSound, CountedWakeSound
<1>20. ASSUME NEW t \in Target, NEW p \in Priority, SetThreadPriority(t, p)
       PROVE  Sound(k, k')
  BY <1>20, SetPrioritySound DEF SetThreadPriority, Update, LockedUpdate
<1>21. ASSUME NEW p \in Priority, RotateRunQueue(p)
       PROVE  Sound(k, k')
  BY <1>21, RotateQueueSound DEF RotateRunQueue, Update, LockedUpdate
<1> QED
  BY <1>1, <1>2, <1>3, <1>4, <1>5, <1>6, <1>7, <1>8, <1>9, <1>10, <1>11, <1>12,
     <1>13, <1>14, <1>15, <1>16, <1>17, <1>18, <1>19, <1>20, <1>21
     DEF Next, KernelStep, ApiCall

\* The other variables keep their types.
LEMMA TypeStep ==
  ASSUME KernelInv, k' \in KernelData, [Next]_vars
  PROVE  TypeOK'
<1> USE DEF KernelInv, TypeOK, cpu, ctx, dsrs, Cont
<1>0. Current \in Thread
  BY DEF KernelOK, KernelData, Current
<1> HIDE DEF Current
<1>1. CASE UNCHANGED vars
  BY <1>1 DEF vars
<1>2. ASSUME NEW t \in Target, BootResume(t) PROVE TypeOK'
  BY <1>2 DEF BootResume
<1>3. CASE StartScheduler
  BY <1>3 DEF StartScheduler
<1>4. ASSUME NEW i \in Intr, Interrupt(i) PROVE TypeOK'
  <2>1. dsr_count' \in [Intr -> Nat] /\ dsr_list' \in Seq(Intr)
    BY <1>4 DEF Interrupt, PostDsr
  <2> QED
    BY <1>4, <2>1, SMTT(30) DEF Interrupt, UnlockInner
<1>5. ASSUME NEW t \in Thread, ClockAlarm(t) PROVE TypeOK'
  BY <1>5 DEF ClockAlarm
<1>6. CASE CallPendingDSRs \/ NoDSRs \/ DSRsDone
  <2>1. <<>> \in Seq(Intr)
    OBVIOUS
  <2>2. /\ UNCHANGED <<sched_lock, new_lock, saved, fresh, held, cont>>
        /\ UNCHANGED <<dsr_count, dsr_active>>
        /\ pc' \in {"dsr", "resched"}
        /\ dsr_list' \in {dsr_list, <<>>}
        /\ dsr_batch' \in {dsr_list, dsr_batch}
    BY <1>6 DEF CallPendingDSRs, NoDSRs, DSRsDone
  <2> QED
    BY <2>1, <2>2
<1>7. CASE TakeDSR
  <2>1. Head(dsr_batch) \in Intr /\ Tail(dsr_batch) \in Seq(Intr)
    BY <1>7 DEF TakeDSR
  <2> QED
    BY <1>7, <2>1 DEF TakeDSR
<1>8. CASE ClockTimeslice
  BY <1>8 DEF ClockTimeslice
<1>9. ASSUME NEW t \in Target, DeviceDSR(t) PROVE TypeOK'
  BY <1>9 DEF DeviceDSR
<1>10. CASE Stay \/ ZeroLock \/ RestoreLock \/ GoRound \/ Return
  BY <1>10 DEF Stay, ZeroLock, RestoreLock, GoRound, Return, UnlockInner
<1>11. CASE SwitchBack
  <2>1. Schedule(k) \in Thread
    BY ScheduleIsBest
  <2> QED
    BY <1>0, <1>11, <2>1 DEF SwitchBack
<1>12. CASE SwitchToFresh
  BY <1>0, <1>12 DEF SwitchToFresh, UnlockInner
<1>13. CASE SchedLock
  BY <1>0, <1>13 DEF SchedLock
<1>14. CASE SchedUnlock
  BY <1>0, <1>14 DEF SchedUnlock, LockedUpdate, UnlockInner
<1>15. ASSUME NEW n \in Cont,
              \/ \E j : UpdateThen(j, n)
              \/ \E j : RescheduleThen(j, n)
       PROVE  TypeOK'
  <2>1. held[Current] \in Nat /\ held[Current] + 1 \in Nat
    BY <1>0
  <2>2. /\ pc' \in {pc, "unlock"}
        /\ sched_lock' \in {1, held[Current], held[Current] + 1}
        /\ new_lock' \in {0, new_lock, held[Current] + 1}
        /\ cont' = [cont EXCEPT ![Current] = n]
        /\ UNCHANGED <<saved, fresh, held, dsr_list, dsr_batch, dsr_count, dsr_active>>
    BY <1>15 DEF UpdateThen, RescheduleThen, LockedUpdate, UnlockInner
  <2>3. cont' \in [Thread -> Cont]
    BY <2>2
  <2> QED
    BY <2>1, <2>2, <2>3
<1>16. ASSUME \E j : Update(j) PROVE TypeOK'
  BY <1>0, <1>16 DEF Update, LockedUpdate, UnlockInner
<1>17. CASE YieldThread
  BY <1>0, <1>17 DEF YieldThread, UnlockInner
<1>18. CASE CheckNotKilled
  BY <1>0, <1>18 DEF CheckNotKilled
<1>19. CASE ExitThread \/ CheckKilled \/ DelayThread \/ DelayThreadPast
            \/ DelayClear \/ CountedSleepThread \/ TimedCountedSleepThread
            \/ TimedCountedSleepClear
  <2>1. \E n \in Cont : \/ \E j : UpdateThen(j, n)
                        \/ \E j : RescheduleThen(j, n)
    BY <1>19 DEF ExitThread, CheckKilled, DelayThread, DelayThreadPast,
       DelayClear, CountedSleepThread, TimedCountedSleepThread,
       TimedCountedSleepClear
  <2> QED
    BY <1>15, <2>1
<1>20. ASSUME NEW t \in Target,
              \/ SuspendThread(t) \/ ResumeThread(t) \/ ReleaseThread(t)
              \/ KillThread(t) \/ ThreadToQueueHead(t)
              \/ CountedWakeThread(t) \/ CancelWakeups(t)
              \/ \E p \in Priority : SetThreadPriority(t, p)
       PROVE  TypeOK'
  BY <1>16, <1>20 DEF SuspendThread, ResumeThread, ReleaseThread, KillThread,
     ThreadToQueueHead, CountedWakeThread, CancelWakeups, SetThreadPriority
<1>21. ASSUME NEW p \in Priority, RotateRunQueue(p) PROVE TypeOK'
  BY <1>16, <1>21 DEF RotateRunQueue
<1> QED
  BY <1>1, <1>2, <1>3, <1>4, <1>5, <1>6, <1>7, <1>8, <1>9, <1>10, <1>11, <1>12,
     <1>13, <1>14, <1>17, <1>18, <1>19, <1>20, <1>21
     DEF Next, KernelStep, ApiCall

\* The idle thread stays out of every call.
LEMMA IdleStep ==
  ASSUME KernelInv, [Next]_vars
  PROVE  cont'[Idle] = "user"
<1> USE DEF ctx
<1>1. cont \in [Thread -> Cont] /\ Idle \in Thread /\ cont[Idle] = "user"
  BY ThreadAssumption DEF KernelInv, TypeOK
<1>2. CASE cont' = cont
  BY <1>1, <1>2
<1>3. ASSUME NEW n, cont' = [cont EXCEPT ![Current] = n],
             (\E name : Calling(name)) \/ cont[Current] # "user"
      PROVE  cont'[Idle] = "user"
  BY <1>1, <1>3, CallerIsTarget DEF Target
<1>4. \/ cont' = cont
      \/ /\ \E n : cont' = [cont EXCEPT ![Current] = n]
         /\ (\E name : Calling(name)) \/ cont[Current] # "user"
  <2>1. CASE UNCHANGED vars \/ \E t \in Target : BootResume(t)
    BY <2>1 DEF vars, BootResume
  <2>2. CASE \/ StartScheduler \/ \E i \in Intr : Interrupt(i)
             \/ \E t \in Thread : ClockAlarm(t)
    BY <2>2 DEF StartScheduler, Interrupt, ClockAlarm
  <2>3. CASE KernelStep
    BY <2>3 DEF KernelStep, CallPendingDSRs, NoDSRs, TakeDSR, DSRsDone,
       ClockTimeslice, DeviceDSR, Stay, SwitchBack, SwitchToFresh, ZeroLock,
       RestoreLock, GoRound, Return, DelayClear, TimedCountedSleepClear,
       CheckKilled, CheckNotKilled, UpdateThen, RescheduleThen
  <2>4. CASE ApiCall
    BY <2>4 DEF ApiCall, SchedLock, SchedUnlock, ExitThread, YieldThread,
       DelayThread, DelayThreadPast, CountedSleepThread, TimedCountedSleepThread,
       SuspendThread, ResumeThread, ReleaseThread, KillThread,
       ThreadToQueueHead, CountedWakeThread, CancelWakeups, SetThreadPriority,
       RotateRunQueue, Update, UpdateThen, RescheduleThen
  <2> QED
    BY <2>1, <2>2, <2>3, <2>4 DEF Next
<1> QED
  BY <1>2, <1>3, <1>4
------------------------------------------------------------------------------
(***************************************************************************)
(* The context switch and the lock.                                        *)
(***************************************************************************)
LEMMA SwitchStep ==
  ASSUME KernelInv, StartScheduler \/ SwitchBack \/ SwitchToFresh
  PROVE  /\ Current' = Schedule(k)
         /\ SwitchBack => ~k'.need_reschedule /\ Running(k', Current')
<1> DEFINE ts == [k.timeslice EXCEPT ![k.current_thread] = k.timeslice_count]
           next == Schedule(k)
           j == [k EXCEPT !.timeslice = ts]
<1>0. KernelOK(k)
  BY DEF KernelInv
<1>1. /\ Enter(j, next).current_thread = next
      /\ Continue(j, next).current_thread = next
      /\ Continue(j, next).need_reschedule = FALSE
      /\ Running(Continue(j, next), next)
  <2>1. ts \in [Thread -> 0 .. TicksWrap]
    BY <1>0, SaveType
  <2> HIDE DEF ts
  <2> QED
    BY <1>0, <2>1, SwitchOK
<1>2. Enter(k, next).current_thread = next
  <2>1. k.timeslice \in [Thread -> 0 .. TicksWrap]
    BY <1>0 DEF KernelOK, KernelData
  <2>2. [k EXCEPT !.timeslice = k.timeslice] = k
    BY <1>0 DEF KernelOK, KernelData
  <2>3. LET e == [k EXCEPT !.timeslice = k.timeslice]
        IN  Enter(e, next).current_thread = next
    BY <1>0, <2>1, SwitchOK
  <2> QED
    BY <2>2, <2>3
<1>3. /\ StartScheduler => k' = Enter(k, next) /\ pc = "boot"
      /\ SwitchBack => k' = Continue(j, next) /\ pc = "resched"
      /\ SwitchToFresh => k' = Enter(j, next) /\ next \in fresh
      /\ SwitchBack => next \notin fresh
  BY DEF StartScheduler, SwitchBack, SwitchToFresh, TimesliceSave, Current
<1> HIDE DEF j, next
<1>4. Current' = k'.current_thread
  BY DEF Current
<1>5. CASE SwitchBack
  BY <1>1, <1>3, <1>4, <1>5 DEF next
<1>6. CASE ~SwitchBack
  BY <1>1, <1>2, <1>3, <1>4, <1>6 DEF next
<1> QED
  BY <1>5, <1>6

\* What a call does to the lock: it is left at what the thread then has to
\* undo, at once or by the unlock_inner that has been entered.
CallStep ==
  /\ saved' = saved /\ fresh' = fresh
  /\ \A t \in Thread : t # Current => /\ held'[t] = held[t]
                                      /\ cont'[t] = cont[t]
  /\ LET depth == held'[Current] +
                    (IF cont'[Current] \in Claiming THEN 1 ELSE 0)
     IN  \/ pc' = "user" /\ sched_lock' = depth
         \/ /\ pc' = "unlock"
            /\ new_lock' = depth
            /\ sched_lock' > 0
            /\ new_lock' = 0 => sched_lock' = 1

LEMMA CallShape ==
  ASSUME KernelInv, LockOK, pc = "user",
         \/ \E j : Update(j) /\ cont[Current] = "user"
         \/ \E j, n : n \in Cont \ Claiming /\ UpdateThen(j, n)
         \/ \E j, n : n \in Claiming /\ RescheduleThen(j, n)
         \/ YieldThread \/ SchedLock \/ SchedUnlock \/ CheckNotKilled
  PROVE  CallStep
<1> USE DEF cpu, ctx, dsrs, Claiming
<1>0. /\ Current \in Thread
      /\ held \in [Thread -> Nat] /\ cont \in [Thread -> Cont]
      /\ held[Current] \in Nat
      /\ sched_lock = LockDepth(Current)
  BY DEF KernelInv, TypeOK, KernelOK, KernelData, Current, LockOK
<1> HIDE DEF Current
<1>1. ASSUME NEW j, Update(j), cont[Current] = "user" PROVE CallStep
  BY <1>0, <1>1 DEF Update, LockedUpdate, UnlockInner, CallStep
<1>2. ASSUME NEW j, NEW n \in Cont \ Claiming, UpdateThen(j, n)
      PROVE  CallStep
  BY <1>0, <1>2 DEF UpdateThen, LockedUpdate, UnlockInner, CallStep, Cont
<1>3. ASSUME NEW j, NEW n \in Claiming, RescheduleThen(j, n)
      PROVE  CallStep
  BY <1>0, <1>3 DEF RescheduleThen, UnlockInner, CallStep, Cont
<1>4. CASE YieldThread
  BY <1>0, <1>4 DEF YieldThread, Calling, UnlockInner, CallStep
<1>5. CASE SchedLock
  BY <1>0, <1>5 DEF SchedLock, Calling, LockDepth, CallStep
<1>6. CASE SchedUnlock
  BY <1>0, <1>6 DEF SchedUnlock, Calling, LockedUpdate, UnlockInner, CallStep
<1>7. CASE CheckNotKilled
  BY <1>0, <1>7 DEF CheckNotKilled, LockDepth, CallStep, Cont
<1> QED
  BY <1>1, <1>2, <1>3, <1>4, <1>5, <1>6, <1>7

\* Every step of a call is one of these.
LEMMA CallCases ==
  ASSUME KernelInv, LockOK,
         \/ ApiCall \/ DelayClear \/ TimedCountedSleepClear
         \/ CheckKilled \/ CheckNotKilled
  PROVE  pc = "user" /\ CallStep
<1> USE DEF Claiming
<1>1. CASE SchedLock \/ SchedUnlock \/ YieldThread \/ CheckNotKilled
  <2>1. pc = "user"
    BY <1>1 DEF SchedLock, SchedUnlock, YieldThread, CheckNotKilled, Calling
  <2> QED
    BY <1>1, <2>1, CallShape
<1>2. CASE ExitThread \/ CheckKilled
  <2>1. pc = "user" /\ RescheduleThen(Exit(k), "dead")
    BY <1>2 DEF ExitThread, CheckKilled, Calling
  <2> QED
    BY <2>1, CallShape
<1>3. CASE DelayThread \/ DelayThreadPast \/ DelayClear \/ CountedSleepThread
           \/ TimedCountedSleepClear
  <2>1. /\ pc = "user"
        /\ \E j, n : n \in Cont \ Claiming /\ UpdateThen(j, n)
    BY <1>3 DEF DelayThread, DelayThreadPast, DelayClear, CountedSleepThread,
       TimedCountedSleepClear, Calling, Cont
  <2> QED
    BY <2>1, CallShape
<1>4. CASE TimedCountedSleepThread
  <2>1. /\ pc = "user"
        /\ \/ \E j, n : n \in Cont \ Claiming /\ UpdateThen(j, n)
           \/ \E j, n : n \in Claiming /\ RescheduleThen(j, n)
    BY <1>4 DEF TimedCountedSleepThread, Calling, Cont
  <2> QED
    BY <2>1, CallShape
<1>5. ASSUME NEW t \in Target,
             \/ SuspendThread(t) \/ ResumeThread(t) \/ ReleaseThread(t)
             \/ KillThread(t) \/ ThreadToQueueHead(t)
             \/ CountedWakeThread(t) \/ CancelWakeups(t)
             \/ \E p \in Priority : SetThreadPriority(t, p)
      PROVE  pc = "user" /\ CallStep
  <2>1. pc = "user" /\ \E j : Update(j) /\ cont[Current] = "user"
    BY <1>5 DEF SuspendThread, ResumeThread, ReleaseThread, KillThread,
       ThreadToQueueHead, CountedWakeThread, CancelWakeups, SetThreadPriority,
       Calling
  <2> QED
    BY <2>1, CallShape
<1>6. ASSUME NEW p \in Priority, RotateRunQueue(p)
      PROVE  pc = "user" /\ CallStep
  <2>1. pc = "user" /\ \E j : Update(j) /\ cont[Current] = "user"
    BY <1>6 DEF RotateRunQueue, Calling
  <2> QED
    BY <2>1, CallShape
<1> QED
  BY <1>1, <1>2, <1>3, <1>4, <1>5, <1>6 DEF ApiCall

LEMMA CallLock ==
  ASSUME KernelInv, LockOK, Current' = Current, pc = "user", CallStep
  PROVE  LockOK'
<1> USE DEF Unlocking
<1>0. Current \in Thread /\ fresh \subseteq Thread
  BY DEF KernelInv, TypeOK, KernelOK, KernelData, Current
<1> HIDE DEF Current
<1>1. Current \notin fresh
  BY DEF LockOK
<1>2. \A t \in Thread : t # Current => LockDepth(t)' = LockDepth(t)
  BY DEF CallStep, LockDepth
<1>3. /\ saved' = saved /\ fresh' = fresh
      /\ \/ pc' = "user" /\ sched_lock' = LockDepth(Current)'
         \/ /\ pc' = "unlock"
            /\ new_lock' = LockDepth(Current)'
            /\ sched_lock' > 0
            /\ new_lock' = 0 => sched_lock' = 1
  BY DEF CallStep, LockDepth
<1>4. \A t \in fresh : LockDepth(t)' = 0
  BY <1>0, <1>1, <1>2 DEF LockOK
<1>5. \A t \in Thread \ fresh : t # Current => saved[t] = LockDepth(t)'
  BY <1>2 DEF LockOK
<1> QED
  BY <1>1, <1>3, <1>4, <1>5 DEF LockOK

\* The lock behaves as if each thread had its own.
LEMMA LockStep ==
  ASSUME KernelInv, LockOK, [Next]_vars
  PROVE  LockOK'
<1> USE DEF Unlocking, cpu, ctx, dsrs, vars
<1>0. /\ Current \in Thread
      /\ held \in [Thread -> Nat]
      /\ sched_lock \in Nat /\ new_lock \in Nat /\ saved \in [Thread -> Nat]
      /\ fresh \in SUBSET Thread
      /\ \A t \in Thread : LockDepth(t) \in Nat
  <2>1. Current \in Thread
    BY DEF KernelInv, KernelOK, KernelData, Current
  <2>2. \A t \in Thread : LockDepth(t) \in Nat
    BY DEF KernelInv, TypeOK, LockDepth
  <2> QED
    BY <2>1, <2>2 DEF KernelInv, TypeOK
<1>a. \/ Current' = Current
      \/ StartScheduler \/ SwitchBack \/ SwitchToFresh
  BY DataStep
<1>b. StartScheduler \/ SwitchBack \/ SwitchToFresh => Current' = Schedule(k)
  BY SwitchStep
<1>c. Schedule(k) \in Thread
  BY ScheduleIsBest DEF KernelInv
<1> DEFINE SameDepth == held' = held /\ cont' = cont
<1>d. SameDepth => \A t \in Thread : LockDepth(t)' = LockDepth(t)
  BY DEF LockDepth
<1>1. ASSUME Current' = Current, SameDepth, UNCHANGED <<cpu, saved, fresh>>
      PROVE  LockOK'
  BY <1>0, <1>1 DEF LockOK, LockDepth
<1>2. CASE StartScheduler
  <2>1. /\ pc' = "unlock" /\ sched_lock' = 1 /\ new_lock' = 0
        /\ fresh' = Thread \ {Schedule(k)} /\ Current' = Schedule(k)
        /\ SameDepth /\ \A t \in Thread : LockDepth(t) = 0
    BY <1>2, <1>b DEF StartScheduler, LockOK
  <2> QED
    BY <1>0, <1>c, <2>1 DEF LockOK, LockDepth
<1>3. CASE SwitchBack
  <2>0. PICK next \in Thread : next = Schedule(k)
    BY <1>c
  <2>1. /\ pc = "resched" /\ pc' = "zero" /\ next \notin fresh /\ next # Current
        /\ Current' = next /\ next \in Thread
        /\ sched_lock' = sched_lock /\ fresh' = fresh /\ SameDepth
        /\ saved' = [saved EXCEPT ![Current] = new_lock, ![next] = 0]
        /\ new_lock' = saved[next]
    BY <1>3, <1>b, <2>0 DEF SwitchBack
  <2>2. \A t \in Thread : LockDepth(t)' = LockDepth(t)
    BY <1>d, <2>1
  <2>3. \A t \in Thread \ fresh' : t # Current' => saved'[t] = LockDepth(t)'
    BY <1>0, <2>1, <2>2 DEF LockOK
  <2>4. new_lock' = LockDepth(next)' /\ sched_lock' > 0
    BY <1>0, <2>1, <2>2 DEF LockOK
  <2>5. \A t \in fresh' : LockDepth(t)' = 0
    BY <1>0, <2>1, <2>2 DEF LockOK
  <2> QED
    BY <2>1, <2>3, <2>4, <2>5 DEF LockOK, LockDepth
<1>4. CASE SwitchToFresh
  <2>0. PICK next \in Thread : next = Schedule(k)
    BY <1>c
  <2>1. /\ pc = "resched" /\ pc' = "unlock" /\ next \in fresh /\ next # Current
        /\ Current' = next /\ next \in Thread
        /\ sched_lock' = 1 /\ new_lock' = 0
        /\ fresh' = fresh \ {next} /\ SameDepth
        /\ saved' = [saved EXCEPT ![Current] = new_lock]
    BY <1>4, <1>b, <2>0 DEF SwitchToFresh, UnlockInner
  <2>2. \A t \in Thread : LockDepth(t)' = LockDepth(t)
    BY <1>d, <2>1
  <2>3. \A t \in Thread \ fresh' : t # Current' => saved'[t] = LockDepth(t)'
    BY <1>0, <2>1, <2>2 DEF LockOK
  <2>4. \A t \in fresh' : LockDepth(t)' = 0
    BY <1>0, <2>1, <2>2 DEF LockOK
  <2>5. LockDepth(next)' = 0
    BY <1>0, <2>1, <2>2 DEF LockOK
  <2> QED
    BY <2>1, <2>3, <2>4, <2>5 DEF LockOK, LockDepth
<1> HIDE DEF Current
<1>5. ASSUME Current' = Current, pc = "user", CallStep PROVE LockOK'
  BY <1>5, CallLock
<1>6. CASE ApiCall \/ DelayClear \/ TimedCountedSleepClear
           \/ CheckKilled \/ CheckNotKilled
  <2>1. pc = "user" /\ CallStep
    BY <1>6, CallCases
  <2>2. ~(StartScheduler \/ SwitchBack \/ SwitchToFresh)
    BY <2>1 DEF StartScheduler, SwitchBack, SwitchToFresh
  <2> QED
    BY <1>5, <1>a, <2>1, <2>2
<1>7. ASSUME NEW i \in Intr, Interrupt(i) PROVE LockOK'
  <2>1. Current' = Current
    BY <1>7 DEF Interrupt, Current
  <2>2. SameDepth /\ UNCHANGED <<saved, fresh>> /\ pc # "boot"
    BY <1>7 DEF Interrupt
  <2>3. CASE sched_lock = 0
    <3>1. pc' = "unlock" /\ sched_lock' = 1 /\ new_lock' = 0
      BY <1>7, <2>3 DEF Interrupt, UnlockInner
    <3>2. LockDepth(Current) = 0
      BY <1>0, <2>2, <2>3 DEF LockOK, KernelInv, TypeOK
    <3> QED
      BY <1>0, <2>1, <2>2, <3>1, <3>2 DEF LockOK, LockDepth
  <2>4. CASE sched_lock # 0
    BY <1>1, <1>7, <2>1, <2>2, <2>4 DEF Interrupt
  <2> QED
    BY <2>3, <2>4
<1>8. CASE \/ \E t \in Target : BootResume(t)
           \/ \E t \in Thread : ClockAlarm(t)
           \/ \E t \in Target : DeviceDSR(t)
           \/ TakeDSR \/ ClockTimeslice \/ UNCHANGED vars
  <2>1. SameDepth /\ UNCHANGED <<cpu, saved, fresh>>
    BY <1>8 DEF BootResume, ClockAlarm, DeviceDSR, TakeDSR, ClockTimeslice
  <2>2. ~(StartScheduler \/ SwitchBack \/ SwitchToFresh)
    BY <2>1 DEF StartScheduler, SwitchBack, SwitchToFresh, UnlockInner
  <2> QED
    BY <1>1, <1>a, <2>1, <2>2
<1>9. CASE CallPendingDSRs \/ NoDSRs \/ DSRsDone \/ Stay \/ ZeroLock
           \/ RestoreLock \/ GoRound \/ Return
  <2>1. SameDepth /\ UNCHANGED <<saved, fresh>>
    BY <1>9 DEF CallPendingDSRs, NoDSRs, DSRsDone, Stay, ZeroLock, RestoreLock,
       GoRound, Return
  <2>2. Current' = Current
    <3>1. UNCHANGED k \/ k' = [k EXCEPT !.need_reschedule = FALSE]
      BY <1>9 DEF CallPendingDSRs, NoDSRs, DSRsDone, Stay, ZeroLock,
         RestoreLock, GoRound, Return
    <3> QED
      BY <3>1 DEF Current, KernelInv, KernelOK, KernelData
  <2>3. \/ /\ pc = "unlock" /\ pc' \in {"dsr", "resched"}
           /\ pc' = "dsr" => new_lock = 0
           /\ UNCHANGED <<sched_lock, new_lock>>
        \/ /\ pc \in {"dsr", "resched"} /\ pc' \in {"resched", "zero"}
           /\ UNCHANGED <<sched_lock, new_lock>>
        \/ /\ pc = "zero" /\ new_lock = 0 /\ pc' = "recheck" /\ sched_lock' = 0
        \/ /\ pc = "zero" /\ pc' = "user" /\ sched_lock' = new_lock
        \/ /\ pc = "recheck" /\ pc' = "unlock" /\ sched_lock' = 1 /\ new_lock' = 0
        \/ /\ pc = "recheck" /\ pc' = "user" /\ sched_lock' = sched_lock
    BY <1>9 DEF CallPendingDSRs, NoDSRs, DSRsDone, Stay, ZeroLock, RestoreLock,
       GoRound, Return, UnlockInner
  <2> QED
    BY <1>0, <1>d, <2>1, <2>2, <2>3 DEF LockOK
<1> QED
  BY <1>2, <1>3, <1>4, <1>6, <1>7, <1>8, <1>9 DEF Next, KernelStep

\* Past the switch the thread that runs is runnable and nothing is pending.
LEMMA SettledStep ==
  ASSUME KernelInv, LockOK, Settled, [Next]_vars
  PROVE  Settled'
<1> USE DEF cpu, vars
<1>0. k \in KernelData /\ KernelOK(k) /\ sched_lock \in Nat /\ new_lock \in Nat
  BY DEF KernelInv, KernelOK, TypeOK
<1>1. ASSUME UNCHANGED <<k, pc, sched_lock>> PROVE Settled'
  BY <1>1 DEF Settled, Running, Current
<1>2. ASSUME pc' \in {"boot", "unlock", "dsr", "resched"} PROVE Settled'
  BY <1>2 DEF Settled
<1>3. ASSUME pc' = "user", sched_lock' # 0 PROVE Settled'
  BY <1>3 DEF Settled
<1>4. CASE UNCHANGED vars
  BY <1>1, <1>4
<1>5. CASE StartScheduler \/ SwitchToFresh \/ \E t \in Target : BootResume(t)
  BY <1>2, <1>5 DEF StartScheduler, SwitchToFresh, BootResume, UnlockInner
<1>6. ASSUME NEW i \in Intr, Interrupt(i) PROVE Settled'
  BY <1>1, <1>2, <1>6 DEF Interrupt, UnlockInner
<1>7. CASE \/ \E t \in Thread : ClockAlarm(t)
           \/ \E t \in Target : DeviceDSR(t)
           \/ TakeDSR \/ ClockTimeslice
  BY <1>2, <1>7 DEF ClockAlarm, DeviceDSR, TakeDSR, ClockTimeslice
<1>8. CASE CallPendingDSRs \/ NoDSRs \/ DSRsDone \/ GoRound
  BY <1>2, <1>8 DEF CallPendingDSRs, NoDSRs, DSRsDone, GoRound, UnlockInner
<1>9. CASE ZeroLock \/ Return
  BY <1>9 DEF ZeroLock, Return, Settled, Running, Current
<1>10. CASE RestoreLock
  BY <1>3, <1>10 DEF RestoreLock
<1>11. CASE Stay
  <2>1. CASE ~MustReschedule
    BY <1>11, <2>1 DEF Stay, MustReschedule, Settled, Running, Current
  <2>2. CASE MustReschedule
    <3>1. k' = [k EXCEPT !.need_reschedule = FALSE] /\ Schedule(k) = Current
      BY <1>11, <2>2 DEF Stay
    <3>2. Running(k, Current)
      BY <1>0, <3>1, ScheduleIsBest
    <3>3. /\ k'.need_reschedule = FALSE
          /\ k'.state = k.state /\ k'.current_thread = k.current_thread
      BY <1>0, <3>1 DEF KernelData
    <3> QED
      BY <3>2, <3>3 DEF Settled, Running, Current
  <2> QED
    BY <2>1, <2>2
<1>12. CASE SwitchBack
  BY <1>12, SwitchStep DEF Settled
<1>13. CASE CheckNotKilled
  BY <1>1, <1>13 DEF CheckNotKilled
<1>14. CASE SchedLock
  BY <1>0, <1>3, <1>14 DEF SchedLock, Calling
<1>15. ASSUME NEW j, NEW n, LockedUpdate(j, n), pc = "user" PROVE Settled'
  BY <1>2, <1>3, <1>15 DEF LockedUpdate, UnlockInner
<1>16. ASSUME NEW j, NEW n, RescheduleThen(j, n) PROVE Settled'
  BY <1>2, <1>16 DEF RescheduleThen, UnlockInner
<1>17. CASE YieldThread
  BY <1>2, <1>17 DEF YieldThread, UnlockInner
<1>18. CASE DelayClear \/ TimedCountedSleepClear \/ CheckKilled
  <2>1. /\ pc = "user"
        /\ \/ \E j, n : LockedUpdate(j, n)
           \/ \E j, n : RescheduleThen(j, n)
    BY <1>18 DEF DelayClear, TimedCountedSleepClear, CheckKilled, UpdateThen
  <2> QED
    BY <1>15, <1>16, <2>1
<1>19. CASE ExitThread \/ SchedUnlock \/ DelayThread \/ DelayThreadPast
            \/ CountedSleepThread \/ TimedCountedSleepThread
  <2>1. /\ pc = "user"
        /\ \/ \E j, n : LockedUpdate(j, n)
           \/ \E j, n : RescheduleThen(j, n)
    BY <1>19 DEF ExitThread, SchedUnlock, DelayThread, DelayThreadPast,
       CountedSleepThread, TimedCountedSleepThread, UpdateThen, Calling
  <2> QED
    BY <1>15, <1>16, <2>1
<1>20. ASSUME NEW t \in Target,
              \/ SuspendThread(t) \/ ResumeThread(t) \/ ReleaseThread(t)
              \/ KillThread(t) \/ ThreadToQueueHead(t)
              \/ CountedWakeThread(t) \/ CancelWakeups(t)
              \/ \E p \in Priority : SetThreadPriority(t, p)
       PROVE  Settled'
  <2>1. pc = "user" /\ \E j, n : LockedUpdate(j, n)
    BY <1>20 DEF SuspendThread, ResumeThread, ReleaseThread, KillThread,
       ThreadToQueueHead, CountedWakeThread, CancelWakeups, SetThreadPriority,
       Update, Calling
  <2> QED
    BY <1>15, <2>1
<1>21. ASSUME NEW p \in Priority, RotateRunQueue(p) PROVE Settled'
  <2>1. pc = "user" /\ \E j, n : LockedUpdate(j, n)
    BY <1>21 DEF RotateRunQueue, Update, Calling
  <2> QED
    BY <1>15, <2>1
<1> QED
  BY <1>4, <1>5, <1>6, <1>7, <1>8, <1>9, <1>10, <1>11, <1>12, <1>13, <1>14,
     <1>17, <1>18, <1>19, <1>20, <1>21 DEF Next, KernelStep, ApiCall
------------------------------------------------------------------------------
(***************************************************************************)
(* The theorems.                                                           *)
(***************************************************************************)
LEMMA InitIInv == Init => IInv
<1> SUFFICES ASSUME Init PROVE IInv
  OBVIOUS
<1>1. KernelOK(k) /\ Current = Idle /\ Idle \in Thread
  BY InitialDataOK, ThreadAssumption DEF Init, Current, InitialData
<1>2. TypeOK
  <2>1. <<>> \in Seq(Intr)
    OBVIOUS
  <2>2. [i \in Intr |-> 0] \in [Intr -> Nat] /\ [t \in Thread |-> 0] \in [Thread -> Nat]
    OBVIOUS
  <2>3. [t \in Thread |-> "user"] \in [Thread -> Cont]
    BY DEF Cont
  <2>4. k \in KernelData
    BY <1>1 DEF KernelOK
  <2> QED
    BY <2>1, <2>2, <2>3, <2>4 DEF Init, TypeOK
<1>3. KernelInv
  BY <1>1, <1>2 DEF KernelInv, Init
<1>4. Settled
  BY DEF Init, Settled
<1>5. LockOK
  BY DEF Init, LockOK, LockDepth, Unlocking, Claiming
<1> QED
  BY <1>3, <1>4, <1>5 DEF IInv

LEMMA NextIInv == IInv /\ [Next]_vars => IInv'
<1> SUFFICES ASSUME IInv, [Next]_vars PROVE IInv'
  OBVIOUS
<1>1. KernelInv /\ Settled /\ LockOK
  BY DEF IInv
<1>2. KernelOK(k')
  BY <1>1, DataStep
<1>3. TypeOK'
  <2>1. k' \in KernelData
    BY <1>2 DEF KernelOK
  <2> QED
    BY <1>1, <2>1, TypeStep
<1>4. KernelInv'
  BY <1>1, <1>2, <1>3, IdleStep DEF KernelInv
<1>5. LockOK' /\ Settled'
  BY <1>1, LockStep, SettledStep
<1> QED
  BY <1>4, <1>5 DEF IInv

THEOREM Invariance == Spec => []IInv
  BY InitIInv, NextIInv, PTL DEF Spec

\* Every variable keeps its type: no operation of the thread API, in any
\* state the kernel reaches, corrupts a list, a count or the bit map.
THEOREM TypeCorrect == Spec => []TypeOK
<1>1. IInv => TypeOK
  BY DEF IInv, KernelInv
<1> QED
  BY <1>1, Invariance, PTL

\* The run queues and the bit map agree with the states and priorities of
\* the threads (mlqueue.cxx), whatever the threads and the DSRs call.
THEOREM RunQueuesConsistent == Spec => []RunQueueConsistent
<1>1. IInv => RunQueueConsistent
  BY DEF IInv, KernelInv, KernelOK, RunQueueConsistent
<1> QED
  BY <1>1, Invariance, PTL

\* A thread that runs with the scheduler unlocked is runnable and of the
\* best priority: no preemption is lost (unlock_inner, set_need_reschedule).
THEOREM PreemptionWorks == Spec => []TopPriorityRuns
<1>1. IInv => TopPriorityRuns
  BY DEF IInv, KernelInv, KernelOK, Settled, PreemptionNoted, TopPriorityRuns,
         Current
<1> QED
  BY <1>1, Invariance, PTL

\* Each thread finds the scheduler lock as it left it, and DSRs run with the
\* lock claimed once (sched.cxx, unlock_inner and thread_entry).
THEOREM LockBelongsToThread == Spec => []LockIsPerThread
<1>1. IInv => LockIsPerThread
  BY DEF IInv, LockOK, LockIsPerThread
<1> QED
  BY <1>1, Invariance, PTL
------------------------------------------------------------------------------
(***************************************************************************)
(* No DSR is lost, linked twice or left pending, for any number of         *)
(* interrupts.  DsrListsExact is inductive once it is known that the       *)
(* detached list is empty outside call_pending_DSRs; NoDsrLeftBehind       *)
(* follows step by step from the lock's value at each place (LockOK).      *)
(***************************************************************************)
\* The detached list is call_pending_DSRs' own.
BatchIsLocal == pc # "dsr" => dsr_batch = <<>>

DsrInv == DsrListsExact /\ BatchIsLocal /\ NoDsrLeftBehind
------------------------------------------------------------------------------
\* post_dsr links the node only when no earlier post is still to be served.
LEMMA PostStep ==
  ASSUME TypeOK, DsrListsExact, NEW i \in Intr, PostDsr(i), dsr_batch' = dsr_batch
  PROVE  DsrListsExact'
<1>1. /\ dsr_list \in Seq(Intr) /\ dsr_count \in [Intr -> Nat]
      /\ dsr_count' = [dsr_count EXCEPT ![i] = @ + 1]
  BY DEF TypeOK, PostDsr
<1>2. \A x \in Intr : dsr_count'[x] > 0 <=> x = i \/ dsr_count[x] > 0
  BY <1>1
<1>3. CASE dsr_count[i] = 0
  <2>1. i \notin ToSet(dsr_list) /\ i \notin ToSet(dsr_batch)
    BY <1>3 DEF DsrListsExact
  <2>2. dsr_list' = Append(dsr_list, i)
    BY <1>3 DEF PostDsr
  <2>3. IsInjective(dsr_list') /\ ToSet(dsr_list') = ToSet(dsr_list) \cup {i}
    BY <1>1, <2>1, <2>2, AppendProps DEF DsrListsExact
  <2> QED
    BY <1>2, <2>1, <2>3 DEF DsrListsExact
<1>4. CASE dsr_count[i] # 0
  BY <1>1, <1>2, <1>4 DEF DsrListsExact, PostDsr
<1> QED
  BY <1>3, <1>4

LEMMA EmptyList == ToSet(<<>>) = {} /\ IsInjective(<<>>)
  BY DEF ToSet, IsInjective

\* Every step but those four leaves the lists and the counts alone.
LEMMA ListsAlone ==
  ASSUME [Next]_vars
  PROVE  \/ UNCHANGED <<dsr_list, dsr_batch, dsr_count>>
         \/ \E i \in Intr : Interrupt(i)
         \/ CallPendingDSRs \/ TakeDSR
<1> USE DEF dsrs, vars
<1>1. CASE UNCHANGED vars \/ StartScheduler
           \/ (\E t \in Target : BootResume(t)) \/ (\E t \in Thread : ClockAlarm(t))
  BY <1>1 DEF StartScheduler, BootResume, ClockAlarm
<1>2. CASE NoDSRs \/ DSRsDone \/ ClockTimeslice \/ (\E t \in Target : DeviceDSR(t))
           \/ Stay \/ SwitchBack \/ SwitchToFresh
           \/ ZeroLock \/ RestoreLock \/ GoRound \/ Return
  BY <1>2 DEF NoDSRs, DSRsDone, ClockTimeslice, DeviceDSR, Stay, SwitchBack,
     SwitchToFresh, ZeroLock, RestoreLock, GoRound, Return
<1>3. CASE DelayClear \/ TimedCountedSleepClear \/ CheckKilled \/ CheckNotKilled
  BY <1>3 DEF DelayClear, TimedCountedSleepClear, CheckKilled, CheckNotKilled,
     UpdateThen, RescheduleThen
<1>4. CASE SchedLock \/ SchedUnlock \/ ExitThread \/ YieldThread
           \/ DelayThread \/ DelayThreadPast
           \/ CountedSleepThread \/ TimedCountedSleepThread
  BY <1>4 DEF SchedLock, SchedUnlock, ExitThread, YieldThread, DelayThread,
     DelayThreadPast, CountedSleepThread, TimedCountedSleepThread,
     UpdateThen, RescheduleThen
<1>5. ASSUME NEW t \in Target,
             \/ SuspendThread(t) \/ ResumeThread(t) \/ ReleaseThread(t)
             \/ KillThread(t) \/ ThreadToQueueHead(t)
             \/ CountedWakeThread(t) \/ CancelWakeups(t)
             \/ \E p \in Priority : SetThreadPriority(t, p)
      PROVE  UNCHANGED <<dsr_list, dsr_batch, dsr_count>>
  BY <1>5 DEF SuspendThread, ResumeThread, ReleaseThread, KillThread,
     ThreadToQueueHead, CountedWakeThread, CancelWakeups, SetThreadPriority,
     Update
<1>6. ASSUME NEW p \in Priority, RotateRunQueue(p)
      PROVE  UNCHANGED <<dsr_list, dsr_batch, dsr_count>>
  BY <1>6 DEF RotateRunQueue, Update
<1> QED
  BY <1>1, <1>2, <1>3, <1>4, <1>5, <1>6 DEF Next, KernelStep, ApiCall

\* Where the CPU goes: call_pending_DSRs is entered and left by its own
\* steps, a thread's code is reached unlocked only with no DSR pending.
LEMMA WhereTo ==
  ASSUME IInv, [Next]_vars
  PROVE  /\ pc = "dsr" /\ pc' # "dsr" => DSRsDone
         /\ pc # "dsr" /\ pc' = "dsr" => CallPendingDSRs
         /\ pc' = "user" /\ sched_lock' = 0 =>
              \/ UNCHANGED <<pc, sched_lock>>
              \/ pc = "recheck" /\ dsr_list = <<>>
<1> USE DEF cpu, vars
<1>0. /\ sched_lock \in Nat /\ new_lock \in Nat
      /\ pc = "dsr" => sched_lock = 1
  BY DEF IInv, KernelInv, TypeOK, LockOK
<1> DEFINE Shape == \/ UNCHANGED <<pc, sched_lock>>
                    \/ pc # "dsr" /\ pc' \in {"unlock", "resched", "zero", "recheck"}
                    \/ pc = "user" /\ pc' = "user" /\ sched_lock' # 0
                    \/ pc = "zero" /\ pc' = "user" /\ sched_lock' # 0
                    \/ pc = "recheck" /\ pc' = "user" /\ dsr_list = <<>>
<1>a. SUFFICES ASSUME ~DSRsDone, ~CallPendingDSRs PROVE Shape
  BY DEF DSRsDone, CallPendingDSRs
<1>1. CASE UNCHANGED vars \/ StartScheduler
           \/ (\E t \in Target : BootResume(t)) \/ (\E t \in Thread : ClockAlarm(t))
  BY <1>1 DEF StartScheduler, BootResume, ClockAlarm
<1>2. CASE NoDSRs \/ ClockTimeslice \/ (\E t \in Target : DeviceDSR(t)) \/ TakeDSR
  BY <1>2 DEF NoDSRs, ClockTimeslice, DeviceDSR, TakeDSR
<1>3. CASE Stay \/ SwitchBack \/ SwitchToFresh \/ ZeroLock \/ GoRound
  BY <1>3 DEF Stay, SwitchBack, SwitchToFresh, ZeroLock, GoRound, UnlockInner
<1>4. CASE RestoreLock \/ Return
  BY <1>4 DEF RestoreLock, Return
<1>5. ASSUME NEW i \in Intr, Interrupt(i) PROVE Shape
  BY <1>0, <1>5 DEF Interrupt, UnlockInner
<1>6. ASSUME NEW j, NEW n, LockedUpdate(j, n), pc = "user" PROVE Shape
  BY <1>6 DEF LockedUpdate, UnlockInner
<1>7. ASSUME NEW j, NEW n, RescheduleThen(j, n), pc = "user" PROVE Shape
  BY <1>7 DEF RescheduleThen, UnlockInner
<1>8. CASE SchedLock \/ CheckNotKilled \/ YieldThread
  BY <1>0, <1>8 DEF SchedLock, CheckNotKilled, YieldThread, UnlockInner, Calling
<1>9. CASE DelayClear \/ TimedCountedSleepClear \/ CheckKilled
           \/ SchedUnlock \/ ExitThread \/ DelayThread \/ DelayThreadPast
           \/ CountedSleepThread \/ TimedCountedSleepThread
  <2>1. /\ pc = "user"
        /\ \/ \E j, n : LockedUpdate(j, n)
           \/ \E j, n : RescheduleThen(j, n)
    BY <1>9 DEF DelayClear, TimedCountedSleepClear, CheckKilled, SchedUnlock,
       ExitThread, DelayThread, DelayThreadPast, CountedSleepThread,
       TimedCountedSleepThread, UpdateThen, Calling
  <2> QED
    BY <1>6, <1>7, <2>1
<1>10. ASSUME NEW t \in Target,
              \/ SuspendThread(t) \/ ResumeThread(t) \/ ReleaseThread(t)
              \/ KillThread(t) \/ ThreadToQueueHead(t)
              \/ CountedWakeThread(t) \/ CancelWakeups(t)
              \/ \E p \in Priority : SetThreadPriority(t, p)
       PROVE  Shape
  <2>1. pc = "user" /\ \E j, n : LockedUpdate(j, n)
    BY <1>10 DEF SuspendThread, ResumeThread, ReleaseThread, KillThread,
       ThreadToQueueHead, CountedWakeThread, CancelWakeups, SetThreadPriority,
       Update, Calling
  <2> QED
    BY <1>6, <2>1
<1>11. ASSUME NEW p \in Priority, RotateRunQueue(p) PROVE Shape
  <2>1. pc = "user" /\ \E j, n : LockedUpdate(j, n)
    BY <1>11 DEF RotateRunQueue, Update, Calling
  <2> QED
    BY <1>6, <2>1
<1> HIDE DEF Shape
<1> QED
  BY <1>a, <1>1, <1>2, <1>3, <1>4, <1>5, <1>8, <1>9, <1>10, <1>11
     DEF Next, KernelStep, ApiCall

LEMMA DsrStep ==
  ASSUME IInv, DsrInv, [Next]_vars
  PROVE  DsrInv'
<1>0. /\ TypeOK /\ dsr_list \in Seq(Intr) /\ dsr_batch \in Seq(Intr)
      /\ dsr_count \in [Intr -> Nat]
      /\ pc = "dsr" => sched_lock = 1
  BY DEF IInv, KernelInv, TypeOK, LockOK
<1>1. ASSUME NEW i \in Intr, Interrupt(i) PROVE DsrInv'
  <2>1. PostDsr(i) /\ dsr_batch' = dsr_batch
    BY <1>1 DEF Interrupt
  <2>2. DsrListsExact'
    BY <1>0, <2>1, PostStep DEF DsrInv
  <2>3. \/ pc # "dsr" /\ pc' = "unlock"
        \/ sched_lock # 0 /\ pc' = pc /\ sched_lock' = sched_lock
    BY <1>0, <1>1 DEF Interrupt, UnlockInner, cpu
  <2>4. BatchIsLocal' /\ NoDsrLeftBehind'
    BY <2>1, <2>3 DEF DsrInv, BatchIsLocal, NoDsrLeftBehind
  <2> QED
    BY <2>2, <2>4 DEF DsrInv
<1>2. CASE CallPendingDSRs
  <2>1. /\ pc = "unlock" /\ pc' = "dsr" /\ dsr_batch' = dsr_list
        /\ dsr_list' = <<>> /\ dsr_count' = dsr_count /\ dsr_batch = <<>>
    BY <1>2 DEF CallPendingDSRs, DsrInv, BatchIsLocal
  <2>2. DsrListsExact'
    BY <2>1, EmptyList DEF DsrInv, DsrListsExact
  <2> QED
    BY <2>1, <2>2 DEF DsrInv, BatchIsLocal, NoDsrLeftBehind
<1>3. CASE TakeDSR
  <2> DEFINE h == Head(dsr_batch)
  <2>1. /\ pc = "dsr" /\ pc' = "dsr" /\ dsr_batch # <<>> /\ h \in Intr
        /\ dsr_batch' = Tail(dsr_batch) /\ dsr_list' = dsr_list
        /\ dsr_count' = [dsr_count EXCEPT ![h] = 0]
    BY <1>0, <1>3, HeadTailProperties DEF TakeDSR, cpu
  <2>2. /\ IsInjective(dsr_batch')
        /\ ToSet(dsr_batch') = ToSet(dsr_batch) \ {h}
    BY <1>0, <2>1, TailProps DEF DsrInv, DsrListsExact
  <2>3. h \in ToSet(dsr_batch)
    <3>1. 1 \in DOMAIN dsr_batch /\ h = dsr_batch[1]
      BY <1>0, <2>1, EmptySeq, HeadTailProperties
    <3> QED
      BY <3>1 DEF ToSet
  <2> HIDE DEF h
  <2>4. \A x \in Intr : dsr_count'[x] > 0 <=> x # h /\ dsr_count[x] > 0
    BY <1>0, <2>1
  <2>5. DsrListsExact'
    BY <2>1, <2>2, <2>3, <2>4 DEF DsrInv, DsrListsExact
  <2> QED
    BY <2>1, <2>5 DEF DsrInv, BatchIsLocal, NoDsrLeftBehind
<1>4. ASSUME UNCHANGED <<dsr_list, dsr_batch, dsr_count>>
      PROVE  DsrInv'
  <2>1. DsrListsExact'
    BY <1>4 DEF DsrInv, DsrListsExact
  <2>2. BatchIsLocal'
    BY <1>4, WhereTo DEF DsrInv, BatchIsLocal, DSRsDone
  <2>3. NoDsrLeftBehind'
    BY <1>4, WhereTo DEF DsrInv, NoDsrLeftBehind
  <2> QED
    BY <2>1, <2>2, <2>3 DEF DsrInv
<1> QED
  BY <1>1, <1>2, <1>3, <1>4, ListsAlone

LEMMA DsrInvariance == Spec => []DsrInv
<1>1. Init => DsrInv
  BY EmptyList DEF Init, DsrInv, DsrListsExact, BatchIsLocal, NoDsrLeftBehind
<1>2. IInv /\ DsrInv /\ [Next]_vars => DsrInv'
  BY DsrStep
<1> QED
  BY <1>1, <1>2, Invariance, PTL DEF Spec

\* An ISR that posts at any point of call_pending_DSRs_inner neither loses a
\* DSR nor links one twice (intr.cxx, post_dsr and call_pending_DSRs_inner).
THEOREM NoDsrLostOrDoubled == Spec => []DsrListsExact
<1>1. DsrInv => DsrListsExact
  BY DEF DsrInv
<1> QED
  BY <1>1, DsrInvariance, PTL

\* A thread never runs unlocked with a DSR pending (sched.cxx, the test after
\* zero_sched_lock).
THEOREM NoDsrWaitsForTheNextUnlock == Spec => []NoDsrLeftBehind
<1>1. DsrInv => NoDsrLeftBehind
  BY DEF DsrInv
<1> QED
  BY <1>1, DsrInvariance, PTL
==============================================================================
