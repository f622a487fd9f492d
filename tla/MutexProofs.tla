------------------------------ MODULE MutexProofs ------------------------------
(***************************************************************************)
(* Mutexes and condition variables, for any number of threads, priorities, *)
(* interrupts, mutexes, condition variables, protocols and ceilings.       *)
(*                                                                         *)
(* The invariant is built in layers: who waits for which mutex (Claims),   *)
(* which mutexes count for whom (Balanced), what each thread has inherited *)
(* (GivenBack), who passes a waiter's priority on (Guarded, Attended), and *)
(* the monitor that every step follows (Follows).                          *)
(***************************************************************************)
EXTENDS Mutex, WaitingProofs

(***************************************************************************)
(* What a step of the scheduler or of the thread API does to threads in a  *)
(* mutex's or a condition variable's wait: it may wake or kill them.       *)
(***************************************************************************)
\* Inside lock() or wait().
InMutex == {"wait", "cond", "condtimer", "relock"}

\* Nothing happens to priorities; at most one thread dies, and if it is the
\* running one it does not run on.
Fate ==
  \/ Steady(k, k')
  \/ \E t \in Target : Dies(k, k', t) /\ (pc' = "unlock" \/ t # Current)

\* Only the running thread's place changes, and not within lock() or wait().
Unmoved ==
  \A t \in Thread :
    \/ cont'[t] = cont[t]
    \/ cont[t] \notin InMutex \cup {"dead"} /\ cont'[t] \notin InMutex

\* Only a thread that was about to run comes to run.
RunsNext ==
  pc' \in {"boot", "user"} =>
    pc \in {"boot", "user", "zero", "recheck"} /\ Current' = Current

LEMMA SchedulerStep ==
  ASSUME IInv, WaitInv, [Next]_vars
  PROVE  Fate /\ Unmoved /\ RunsNext
<1> DEFINE Goal == Fate /\ Unmoved /\ RunsNext
<1> USE DEF cpu, ctx, vars
<1>0. /\ KernelInv /\ KernelOK(k) /\ k \in KernelData
      /\ Current \in Thread /\ cont \in [Thread -> Cont]
      /\ WaitOK(k)
      /\ Current = k.current_thread
  BY DEF IInv, KernelInv, TypeOK, KernelOK, KernelData, Current, WaitInv
<1>a. \/ Current' = Current
      \/ StartScheduler \/ SwitchBack \/ SwitchToFresh
  BY <1>0, DataStep
<1>b. k' = k => Steady(k, k') /\ Current' = Current
  BY <1>0 DEF Steady, Current
<1> HIDE DEF Goal
<1> SUFFICES Goal
  BY DEF Goal
<1>c. ASSUME Steady(k, k'), cont' = cont,
             \/ pc' \notin {"boot", "user"}
             \/ pc \in {"boot", "user", "zero", "recheck"} /\ Current' = Current
      PROVE  Goal
  BY <1>c DEF Goal, Fate, Unmoved, RunsNext
<1>1. CASE UNCHANGED vars \/ CallPendingDSRs \/ NoDSRs \/ TakeDSR \/ DSRsDone
           \/ ZeroLock \/ RestoreLock \/ GoRound \/ Return
  <2>1. /\ UNCHANGED <<k, cont>>
        /\ \/ UNCHANGED pc
           \/ pc' \notin {"boot", "user"}
           \/ pc \in {"zero", "recheck"}
    BY <1>1 DEF CallPendingDSRs, NoDSRs, TakeDSR, DSRsDone, ZeroLock,
       RestoreLock, GoRound, Return, UnlockInner
  <2> QED
    BY <1>b, <1>c, <2>1
<1>2. ASSUME NEW i \in Intr, Interrupt(i) PROVE Goal
  <2>1. UNCHANGED <<k, cont>> /\ (UNCHANGED pc \/ pc' = "unlock")
    BY <1>2 DEF Interrupt, UnlockInner
  <2> QED
    BY <1>b, <1>c, <2>1
<1>3. CASE Stay
  <2>1. k' = [k EXCEPT !.need_reschedule = FALSE] \/ k' = k
    BY <1>3 DEF Stay
  <2>2. Steady(k, k')
    BY <1>0, <2>1 DEF KernelData, Steady
  <2> QED
    BY <1>3, <1>c, <2>2 DEF Stay
<1>4. CASE StartScheduler \/ SwitchBack \/ SwitchToFresh
  <2>1. Schedule(k) \in Thread
    BY <1>0, ScheduleIsBest
  <2>2. CASE StartScheduler
    <3>1. k.timeslice \in [Thread -> 0 .. TicksWrap]
      BY <1>0 DEF KernelData
    <3>2. [k EXCEPT !.timeslice = k.timeslice] = k
      BY <1>0 DEF KernelData
    <3>3. Steady(k, Enter(k, Schedule(k)))
      BY <1>0, <2>1, <3>1, <3>2, SwitchSteady
    <3>4. pc' = "unlock" /\ cont' = cont /\ k' = Enter(k, Schedule(k))
      BY <2>2 DEF StartScheduler
    <3> QED
      BY <1>c, <3>3, <3>4
  <2>3. CASE SwitchBack \/ SwitchToFresh
    <3> DEFINE ts == [k.timeslice EXCEPT ![k.current_thread] = k.timeslice_count]
    <3>1. ts \in [Thread -> 0 .. TicksWrap]
      BY <1>0, SaveType
    <3>2. TimesliceSave = [k EXCEPT !.timeslice = ts]
      BY DEF TimesliceSave, Current
    <3> HIDE DEF ts
    <3>3. /\ Steady(k, Enter(TimesliceSave, Schedule(k)))
          /\ Steady(k, Continue(TimesliceSave, Schedule(k)))
      BY <1>0, <2>1, <3>1, <3>2, SwitchSteady
    <3>4. /\ k' \in {Enter(TimesliceSave, Schedule(k)),
                     Continue(TimesliceSave, Schedule(k))}
          /\ pc' \in {"zero", "unlock"} /\ cont' = cont
      BY <2>3 DEF SwitchBack, SwitchToFresh, UnlockInner
    <3> QED
      BY <1>c, <3>3, <3>4
  <2> QED
    BY <1>4, <2>2, <2>3
<1>5. CASE (\E t \in Target : BootResume(t)) \/ (\E t \in Thread : ClockAlarm(t))
           \/ ClockTimeslice \/ (\E t \in Target : DeviceDSR(t))
  <2>1. cont' = cont /\ pc' = pc /\ pc \in {"boot", "dsr"}
    BY <1>5 DEF BootResume, ClockAlarm, ClockTimeslice, DeviceDSR
  <2>2. Current' = Current
    BY <1>a, <2>1 DEF StartScheduler, SwitchBack, SwitchToFresh, UnlockInner
  <2>3. Steady(k, k')
    <3>1. ASSUME NEW t \in Target, BootResume(t) PROVE Steady(k, k')
      BY <1>0, <3>1, SuspensionSteady DEF BootResume
    <3>2. ASSUME NEW t \in Thread, ClockAlarm(t) PROVE Steady(k, k')
      BY <1>0, <3>2, AlarmSteady DEF ClockAlarm
    <3>3. CASE ClockTimeslice
      <4>1. 0 \in Priority
        BY ThreadAssumption DEF Priority
      <4> QED
        BY <1>0, <3>3, <4>1, RotationSteady DEF ClockTimeslice
    <3>4. ASSUME NEW t \in Target, DeviceDSR(t) PROVE Steady(k, k')
      <4>1. t \in Thread
        BY DEF Target
      <4>2. k' \in {k, Resume(k, t), Release(k, t), CountedWake(k, t), Suspend(k, t)}
        BY <3>4 DEF DeviceDSR, DeviceEffect
      <4> QED
        BY <1>0, <1>b, <4>1, <4>2, AlarmSteady, CountedWakeSteady, SuspensionSteady
    <3> QED
      BY <1>5, <3>1, <3>2, <3>3, <3>4
  <2> QED
    BY <1>c, <2>1, <2>2, <2>3
\* From here on the step is a thread's, and no switch.
<1>6. ASSUME pc = "user" PROVE Current' = Current /\ ~Sleeps(k, Current)
  BY <1>a, <1>6 DEF StartScheduler, SwitchBack, SwitchToFresh, WaitInv
<1>7. CASE SchedLock \/ SchedUnlock
  <2>1. pc = "user" /\ UNCHANGED <<k, cont>>
    BY <1>7 DEF SchedLock, SchedUnlock, LockedUpdate, Calling
  <2> QED
    BY <1>b, <1>c, <2>1
<1>8. CASE YieldThread \/ \E p \in Priority : RotateRunQueue(p)
  <2>1. pc = "user" /\ cont' = cont
    BY <1>8 DEF YieldThread, RotateRunQueue, Update, Calling
  <2>2. k' = Yield(k) \/ \E p \in Priority : k' = RotateQueue(k, p)
    BY <1>8 DEF YieldThread, RotateRunQueue, Update, LockedUpdate
  <2>3. 0 \in Priority
    BY ThreadAssumption DEF Priority
  <2>4. Steady(k, k')
    BY <1>0, <2>2, <2>3, RotationSteady
  <2> QED
    BY <1>6, <1>c, <2>1, <2>4
<1>9. ASSUME NEW t \in Target,
             \/ SuspendThread(t) \/ ResumeThread(t) \/ ReleaseThread(t)
             \/ ThreadToQueueHead(t)
             \/ CountedWakeThread(t) \/ CancelWakeups(t)
      PROVE  Goal
  <2>1. t \in Thread /\ 0 \in Priority
    BY ThreadAssumption DEF Target, Priority
  <2>2. pc = "user" /\ cont' = cont
    BY <1>9 DEF SuspendThread, ResumeThread, ReleaseThread,
       ThreadToQueueHead, CountedWakeThread, CancelWakeups, Update, Calling
  <2>3. k' \in {Suspend(k, t), Resume(k, t), Release(k, t),
                ToQueueHead(k, t), CountedWake(k, t), CancelCountedWake(k, t)}
    BY <1>9 DEF SuspendThread, ResumeThread, ReleaseThread,
       ThreadToQueueHead, CountedWakeThread, CancelWakeups, Update, LockedUpdate
  <2>4. Steady(k, k')
    BY <1>0, <2>1, <2>3, SuspensionSteady, AlarmSteady, RotationSteady,
       CountedWakeSteady
  <2> QED
    BY <1>6, <1>c, <2>2, <2>4
<1>10. ASSUME NEW t \in Target, KillThread(t) PROVE Goal
  <2>1. /\ pc = "user" /\ cont' = cont /\ t # Current /\ k' = Kill(k, t)
    BY <1>10 DEF KillThread, Update, LockedUpdate, Calling
  <2>2. Steady(k, k') \/ Dies(k, k', t)
    BY <1>0, <2>1, KillSteadyOrDies
  <2> QED
    BY <1>6, <2>1, <2>2 DEF Goal, Fate, Unmoved, RunsNext
<1>11. ASSUME NEW t \in Target, NEW p \in Priority, SetThreadPriority(t, p)
       PROVE  Goal
  <2>1. Current \in Target /\ "set_priority" \in Calls[Current]
    BY <1>0, <1>11 DEF SetThreadPriority, Calling, Target
  <2> QED
    BY <2>1, MutexAssumption
\* A call that goes on after its unlock, or blocks.
<1>12. ASSUME NEW n, n \notin InMutex, pc = "user",
              cont[Current] \notin InMutex \cup {"dead"},
              cont' = [cont EXCEPT ![Current] = n],
              \/ Steady(k, k')
              \/ Dies(k, k', Current) /\ Current \in Target /\ pc' = "unlock"
       PROVE  Goal
  <2>1. \A t \in Thread : cont'[t] = IF t = Current THEN n ELSE cont[t]
    BY <1>0, <1>12
  <2>2. Unmoved
    BY <1>12, <2>1 DEF Unmoved
  <2>3. Fate
    BY <1>12 DEF Fate
  <2>4. RunsNext
    BY <1>6, <1>12 DEF RunsNext
  <2> QED
    BY <2>2, <2>3, <2>4 DEF Goal
<1>13. CASE CheckNotKilled
  <2>1. /\ k' = k /\ pc = "user" /\ cont[Current] = "check"
        /\ cont' = [cont EXCEPT ![Current] = "user"]
    BY <1>13 DEF CheckNotKilled
  <2> QED
    BY <1>b, <1>12, <2>1 DEF InMutex
<1>14. CASE DelayClear \/ TimedCountedSleepClear
  <2>1. /\ pc = "user" /\ k' = ClearTimer(k, Current)
        /\ cont[Current] \in {"delay", "csleep"}
        /\ cont' = [cont EXCEPT ![Current] = "check"]
    BY <1>14 DEF DelayClear, TimedCountedSleepClear, UpdateThen, LockedUpdate,
       UnlockInner
  <2>2. Steady(k, k')
    BY <1>0, <2>1, ReasonSteady DEF Reason
  <2> QED
    BY <1>12, <2>1, <2>2 DEF InMutex
<1>15. CASE CheckKilled \/ ExitThread
  <2>1. /\ pc = "user" /\ k' = Exit(k) /\ Current \in Target
        /\ cont' = [cont EXCEPT ![Current] = "dead"]
        /\ cont[Current] \in {"check", "user"}
        /\ pc' = "unlock"
    BY <1>0, <1>15, CallerIsTarget DEF CheckKilled, ExitThread, RescheduleThen,
       Calling, UnlockInner
  <2>2. Dies(k, k', Current)
    BY <1>0, <1>6, <2>1, ExitDies
  <2> QED
    BY <1>12, <2>1, <2>2 DEF InMutex
<1>16. CASE DelayThread \/ DelayThreadPast \/ CountedSleepThread
  <2>1. /\ pc = "user" /\ Current \in Target /\ cont[Current] = "user"
        /\ k' \in {Delay(k), DelayPast(k), CountedSleep(k)}
        /\ \E n \in {"delay", "check"} : cont' = [cont EXCEPT ![Current] = n]
    BY <1>0, <1>16, CallerIsTarget DEF DelayThread, DelayThreadPast,
       CountedSleepThread, UpdateThen, LockedUpdate, UnlockInner, Calling
  <2>2. Steady(k, k')
    BY <1>0, <2>1, DelaySteady, CountedSleepSteady
  <2> QED
    BY <1>12, <2>1, <2>2 DEF InMutex
<1>17. CASE TimedCountedSleepThread
  <2>1. pc = "user" /\ Current \in Target /\ cont[Current] = "user"
    BY <1>0, <1>17, CallerIsTarget DEF TimedCountedSleepThread, Calling
  <2>2. /\ k' \in {TakeWakeup(k), TimedCountedSleep(k), TimedCountedSleepPast(k)}
        /\ \E n \in {"csleep", "check"} : cont' = [cont EXCEPT ![Current] = n]
    BY <1>17 DEF TimedCountedSleepThread, UpdateThen, RescheduleThen, LockedUpdate
  <2>3. Steady(k, k')
    BY <1>0, <2>1, <2>2, CountedSleepSteady
  <2> QED
    BY <1>12, <2>1, <2>2, <2>3 DEF InMutex
<1> QED
  BY <1>1, <1>2, <1>3, <1>4, <1>5, <1>7, <1>8, <1>9, <1>10, <1>11, <1>13, <1>14,
     <1>15, <1>16, <1>17 DEF Next, KernelStep, ApiCall

\* unlock_reschedule(), in the middle of a call.
LEMMA UnlockRescheduleIInv ==
  ASSUME IInv, pc = "user", Current \in Target, NEW j, Sound(k, j),
         NEW n \in Cont \ Claiming, UnlockReschedule(j, n)
  PROVE  IInv'
<1>1. /\ Current \in Thread
      /\ held \in [Thread -> Nat] /\ cont \in [Thread -> Cont]
  BY DEF IInv, KernelInv, TypeOK, Target
<1>2. /\ k' = j /\ pc' = "unlock" /\ new_lock' = held[Current]
      /\ sched_lock' = held[Current] + 1
      /\ cont' = [cont EXCEPT ![Current] = n]
      /\ UNCHANGED <<saved, fresh, held, dsrs>>
  BY DEF UnlockReschedule, UnlockInner
<1> HIDE DEF Current
<1>3. /\ held[Current] \in Nat /\ cont'[Current] = n
      /\ \A t \in Thread : t # Current => cont'[t] = cont[t]
      /\ held' \in [Thread -> Nat] /\ cont' \in [Thread -> Cont]
  BY <1>1, <1>2
<1>4. /\ sched_lock' \in Nat /\ new_lock' \in Nat /\ sched_lock' > 0
      /\ new_lock' = 0 => sched_lock' = 1
  BY <1>2, <1>3
<1>5. CallStep
  BY <1>2, <1>3, <1>4 DEF CallStep
<1> QED
  BY <1>2, <1>3, <1>4, <1>5, CallIInv

------------------------------------------------------------------------------
(***************************************************************************)
(* Inheritance: the operators on the kernel data and the inheritance data. *)
(***************************************************************************)
Pair == [k : KernelData, i : InheritData]

\* Each thread has the priority b gives it, or a better one and b's to go
\* back to.
GivenBack(d, b) ==
  \A t \in Thread :
    IF d.i.priority_inherited[t]
    THEN d.i.original_priority[t] = b[t] /\ d.k.priority[t] <= b[t]
    ELSE d.k.priority[t] = b[t]

\* Nobody loses the priority to go back to.
Honest(d, e) ==
  /\ e \in Pair
  /\ Sound(d.k, e.k)
  /\ \A b \in [Thread -> Priority] : GivenBack(d, b) => GivenBack(e, b)

\* Priorities change, and nothing else but the places in the queues.
Adjusts(d, e) ==
  /\ Honest(d, e)
  /\ Kept(d.k, e.k)
  /\ e.k.state = d.k.state

\* Only thread t's priority changes, and for the better.
Lends(d, e, t) ==
  /\ Adjusts(d, e)
  /\ e.i.mutex_count = d.i.mutex_count
  /\ \A u \in Thread \ {t} :
       /\ e.i.priority_inherited[u] = d.i.priority_inherited[u]
       /\ e.k.priority[u] = d.k.priority[u]
  /\ e.k.priority[t] <= d.k.priority[t]

LEMMA HonestTrans ==
  ASSUME NEW d, NEW e, NEW f, Honest(d, e), Honest(e, f)
  PROVE  Honest(d, f)
BY SoundTrans DEF Honest

LEMMA AdjustsTrans ==
  ASSUME NEW d, NEW e, NEW f, Adjusts(d, e), Adjusts(e, f)
  PROVE  Adjusts(d, f)
BY HonestTrans, KeptTrans DEF Adjusts

LEMMA AdjustsRefl ==
  ASSUME NEW d \in Pair, KernelOK(d.k), WaitOK(d.k), NEW t \in Thread
  PROVE  Adjusts(d, d) /\ Lends(d, d, t)
<1>1. d.k.priority[t] <= d.k.priority[t]
  BY ThreadAssumption DEF Pair, KernelData, Priority
<1> QED
  BY <1>1, SoundRefl, KeptRefl DEF Adjusts, Honest, Lends

LEMMA SetPriorityPriority ==
  ASSUME NEW d, KernelOK(d), NEW t \in Thread, NEW p \in Priority
  PROVE  SetPriority(d, t, p).priority = [d.priority EXCEPT ![t] = p]
<1> DEFINE q     == d.queue[t]
           asleep == "SLEEPING" \in d.state[t]
           out   == CASE Running(d, t) -> RemThread(d, t)
                      [] asleep        -> RemoveFromQueue(d, t)
                      [] OTHER         -> d
           moved == [out EXCEPT !.priority[t] = p]
           back  == CASE Running(d, t)         -> AddThread(moved, t)
                      [] asleep /\ q # NoQueue -> Enqueue(moved, q, t)
                      [] OTHER                 -> moved
<1>1. d \in KernelData /\ RunQueuesExact(d) /\ q \in Queue \cup {NoQueue}
  BY DEF KernelOK, KernelData
<1>2. out \in KernelData /\ out.priority = d.priority
  <2>1. RemThread(d, t) \in KernelData /\ RemoveFromQueue(d, t) \in KernelData
    BY <1>1, ExactIsHold, RemThreadProps, RemoveFromQueueProps
  <2>2. /\ RemThread(d, t).priority = d.priority
        /\ RemoveFromQueue(d, t).priority = d.priority
    BY <1>1, RemThreadPriority, RemoveFromQueuePriority
  <2> QED
    BY <1>1, <2>1, <2>2
<1> HIDE DEF out
<1>3. moved \in KernelData /\ moved.priority = [d.priority EXCEPT ![t] = p]
  BY <1>2 DEF KernelData
<1> HIDE DEF moved
<1>4. back \in KernelData /\ back.priority = moved.priority
  <2>1. AddThread(moved, t) \in KernelData /\ AddThread(moved, t).priority = moved.priority
    BY <1>3, AddThreadFrame, AddThreadPriority
  <2>2. ASSUME q # NoQueue
        PROVE  /\ Enqueue(moved, q, t) \in KernelData
               /\ Enqueue(moved, q, t).priority = moved.priority
    <3>1. Enqueue(moved, q, t) \in KernelData
      BY <1>1, <1>3, <2>2, EnqueueFrame
    <3>2. Enqueue(moved, q, t).priority = moved.priority
      BY <1>3 DEF Enqueue, KernelData
    <3> QED
      BY <3>1, <3>2
  <2> QED
    BY <1>3, <2>1, <2>2
<1> HIDE DEF back
<1>5. SetPriority(d, t, p) = IF t = d.current_thread
                             THEN [back EXCEPT !.need_reschedule = TRUE]
                             ELSE SetNeedReschedule(back, t)
  BY DEF SetPriority, back, moved, out
<1>6. /\ [back EXCEPT !.need_reschedule = TRUE].priority = back.priority
      /\ SetNeedReschedule(back, t).priority = back.priority
  BY <1>4 DEF KernelData, SetNeedReschedule
<1> QED
  BY <1>3, <1>4, <1>5, <1>6

LEMMA SetPriorityAdjusts ==
  ASSUME NEW d, KernelOK(d), WaitOK(d), NEW t \in Target, NEW p \in Priority
  PROVE  LET e == SetPriority(d, t, p)
         IN  /\ Sound(d, e) /\ Kept(d, e) /\ e.state = d.state
             /\ e.priority[t] = p
             /\ \A u \in Thread \ {t} : e.priority[u] = d.priority[u]
<1>1. t \in Thread /\ d.priority \in [Thread -> Priority]
  BY DEF Target, KernelOK, KernelData
<1> QED
  <2>1. Sound(d, SetPriority(d, t, p)) /\ Kept(d, SetPriority(d, t, p))
    BY <1>1, SetPrioritySound, SetPriorityKept
  <2>2. SetPriority(d, t, p).state = d.state
    BY <1>1, SetPriorityFrame DEF SameSleep
  <2>3. SetPriority(d, t, p).priority = [d.priority EXCEPT ![t] = p]
    BY <1>1, SetPriorityPriority
  <2> QED
    BY <1>1, <2>1, <2>2, <2>3

LEMMA PairKernel ==
  ASSUME NEW d \in Pair
  PROVE  /\ d.k \in KernelData /\ d.i \in InheritData
         /\ d.k.priority \in [Thread -> Priority]
         /\ d.i.mutex_count \in [Thread -> Int]
         /\ d.i.priority_inherited \in [Thread -> BOOLEAN]
         /\ d.i.original_priority \in [Thread -> Priority]
         /\ Priority \subseteq Int
<1>1. d.k \in KernelData /\ d.i \in InheritData
  BY DEF Pair
<1>2. d.k.priority \in [Thread -> Priority]
  BY <1>1 DEF KernelData
<1>3. /\ d.i.mutex_count \in [Thread -> Int]
      /\ d.i.priority_inherited \in [Thread -> BOOLEAN]
      /\ d.i.original_priority \in [Thread -> Priority]
  BY <1>1 DEF InheritData
<1> QED
  BY <1>1, <1>2, <1>3, ThreadAssumption DEF Priority

LEMMA SetInheritedLends ==
  ASSUME NEW d \in Pair, KernelOK(d.k), WaitOK(d.k), NEW t \in Target, NEW p \in Priority
  PROVE  /\ Lends(d, SetInherited(d, t, p), t)
         /\ SetInherited(d, t, p).k.priority[t] <= p
<1> DEFINE j == SetPriority(d.k, t, p)
           i == [d.i EXCEPT
                   !.priority_inherited[t] = TRUE,
                   !.original_priority[t]  =
                      IF d.i.priority_inherited[t] THEN @ ELSE d.k.priority[t]]
           e == [k |-> j, i |-> i]
<1>1. t \in Thread
  BY DEF Target
<1>2. CASE p < d.k.priority[t]
  <2>1. SetInherited(d, t, p) = e
    BY <1>2 DEF SetInherited
  <2>2. /\ Sound(d.k, j) /\ Kept(d.k, j) /\ j.state = d.k.state
        /\ j.priority[t] = p
        /\ \A u \in Thread \ {t} : j.priority[u] = d.k.priority[u]
    BY SetPriorityAdjusts
  <2>3. j \in KernelData
    BY <2>2 DEF Sound, KernelOK
  <2> HIDE DEF j
  <2>4. /\ i \in InheritData /\ i.mutex_count = d.i.mutex_count
        /\ i.priority_inherited[t]
        /\ i.original_priority[t] = IF d.i.priority_inherited[t]
                                    THEN d.i.original_priority[t]
                                    ELSE d.k.priority[t]
        /\ \A u \in Thread \ {t} :
             /\ i.priority_inherited[u] = d.i.priority_inherited[u]
             /\ i.original_priority[u] = d.i.original_priority[u]
    BY <1>1, PairKernel DEF InheritData
  <2> HIDE DEF i
  <2>5. e \in Pair /\ e.k = j /\ e.i = i
    BY <2>3, <2>4 DEF Pair
  <2>6. ASSUME NEW b \in [Thread -> Priority], GivenBack(d, b)
        PROVE  GivenBack(e, b)
    <3>1. b[t] \in Int /\ d.k.priority[t] \in Int /\ p \in Int
      BY <1>1, PairKernel
    <3>2. d.k.priority[t] <= b[t]
      BY <1>1, <2>6, <3>1 DEF GivenBack
    <3> QED
      BY <1>1, <1>2, <2>2, <2>4, <2>5, <2>6, <3>1, <3>2 DEF GivenBack
  <2>7. p \in Int /\ d.k.priority[t] \in Int
    BY <1>1, PairKernel
  <2> HIDE DEF e
  <2> QED
    BY <1>2, <2>1, <2>2, <2>4, <2>5, <2>6, <2>7 DEF Lends, Adjusts, Honest
<1>3. CASE ~(p < d.k.priority[t])
  <2>1. SetInherited(d, t, p) = d
    BY <1>3 DEF SetInherited
  <2>2. p \in Int /\ d.k.priority[t] \in Int
    BY <1>1, PairKernel
  <2> QED
    BY <1>1, <1>3, <2>1, <2>2, AdjustsRefl
<1> QED
  BY <1>2, <1>3

\* clear_inherited_priority() ends all inheritance, or leaves all as it is.
LEMMA ClearInheritedAdjusts ==
  ASSUME NEW d \in Pair, KernelOK(d.k), WaitOK(d.k), NEW t \in Target
  PROVE  LET e == ClearInherited(d, t)
         IN  /\ Adjusts(d, e)
             /\ e.i.mutex_count = d.i.mutex_count
             /\ \A u \in Thread \ {t} :
                  /\ e.i.priority_inherited[u] = d.i.priority_inherited[u]
                  /\ e.k.priority[u] = d.k.priority[u]
             /\ d.i.mutex_count[t] # 0 => e = d
             /\ d.i.mutex_count[t] = 0 => ~e.i.priority_inherited[t]
<1> DEFINE o == d.i.original_priority[t]
           j == IF d.k.priority[t] < o THEN SetPriority(d.k, t, o) ELSE d.k
           i == [d.i EXCEPT !.priority_inherited[t] = FALSE]
           e == [k |-> j, i |-> i]
<1>1. t \in Thread
  BY DEF Target
<1>2. CASE d.i.mutex_count[t] # 0 \/ ~d.i.priority_inherited[t]
  <2>1. ClearInherited(d, t) = d
    BY <1>2 DEF ClearInherited
  <2> QED
    BY <1>1, <1>2, <2>1, AdjustsRefl
<1>3. CASE ~(d.i.mutex_count[t] # 0 \/ ~d.i.priority_inherited[t])
  <2>1. ClearInherited(d, t) = e
    BY <1>3 DEF ClearInherited
  <2>2. o \in Priority
    BY <1>1, PairKernel
  <2>3. /\ Sound(d.k, j) /\ Kept(d.k, j) /\ j.state = d.k.state
        /\ j.priority[t] = IF d.k.priority[t] < o THEN o ELSE d.k.priority[t]
        /\ \A u \in Thread \ {t} : j.priority[u] = d.k.priority[u]
    BY <2>2, SetPriorityAdjusts, SoundRefl, KeptRefl
  <2>4. j \in KernelData
    BY <2>3 DEF Sound, KernelOK
  <2> HIDE DEF j
  <2>5. /\ i \in InheritData /\ i.mutex_count = d.i.mutex_count
        /\ ~i.priority_inherited[t]
        /\ i.original_priority = d.i.original_priority
        /\ \A u \in Thread \ {t} :
             i.priority_inherited[u] = d.i.priority_inherited[u]
    BY <1>1, PairKernel DEF InheritData
  <2> HIDE DEF i
  <2>6. e \in Pair /\ e.k = j /\ e.i = i
    BY <2>4, <2>5 DEF Pair
  <2>7. ASSUME NEW b \in [Thread -> Priority], GivenBack(d, b)
        PROVE  GivenBack(e, b)
    <3>1. b[t] \in Int /\ d.k.priority[t] \in Int /\ o \in Int
      BY <1>1, <2>2, PairKernel
    <3>2. d.k.priority[t] <= b[t] /\ o = b[t]
      BY <1>1, <1>3, <2>7 DEF GivenBack
    <3>3. j.priority[t] = b[t]
      BY <2>3, <3>1, <3>2
    <3> QED
      BY <1>1, <2>3, <2>5, <2>6, <2>7, <3>3 DEF GivenBack
  <2> HIDE DEF e
  <2> QED
    BY <1>3, <2>1, <2>3, <2>5, <2>6, <2>7 DEF Adjusts, Honest
<1> QED
  BY <1>2, <1>3

\* A change of the counts alone.
LEMMA CountsAlone ==
  ASSUME NEW d \in Pair, KernelOK(d.k), WaitOK(d.k), NEW t \in Thread, NEW n \in Int
  PROVE  LET e == [d EXCEPT !.i.mutex_count[t] = n]
         IN  /\ Adjusts(d, e)
             /\ e.k = d.k
             /\ e.i.mutex_count = [d.i.mutex_count EXCEPT ![t] = n]
             /\ e.i.priority_inherited = d.i.priority_inherited
<1> DEFINE i == [d.i EXCEPT !.mutex_count[t] = n]
           e == [d EXCEPT !.i.mutex_count[t] = n]
<1>1. /\ d.i.mutex_count \in [Thread -> Int] /\ d.i \in InheritData
      /\ d.k \in KernelData
  BY PairKernel
<1>2. /\ i \in InheritData /\ i.mutex_count = [d.i.mutex_count EXCEPT ![t] = n]
      /\ i.priority_inherited = d.i.priority_inherited
      /\ i.original_priority = d.i.original_priority
  BY <1>1 DEF InheritData
<1>3. e \in Pair /\ e.k = d.k /\ e.i = i
  <2>1. e = [d EXCEPT !.i = i]
    BY <1>1 DEF Pair
  <2> HIDE DEF e, i
  <2> QED
    BY <1>1, <1>2, <2>1 DEF Pair
<1> HIDE DEF e, i
<1>4. ASSUME NEW b \in [Thread -> Priority], GivenBack(d, b)
      PROVE  GivenBack(e, b)
  BY <1>2, <1>3, <1>4 DEF GivenBack
<1>5. Sound(d.k, e.k) /\ Kept(d.k, e.k)
  BY <1>3, SoundRefl, KeptRefl
<1>6. Adjusts(d, e)
  BY <1>3, <1>4, <1>5 DEF Adjusts, Honest
<1> QED
  BY <1>2, <1>3, <1>6 DEF e

\* lock() and trylock(): one more mutex counts, and no priority gets worse.
LEMMA CountAdjusts ==
  ASSUME NEW d \in Pair, KernelOK(d.k), WaitOK(d.k), NEW t \in Target,
         NEW x \in Mutexes
  PROVE  LET e == Count(d, x, t)
         IN  /\ Adjusts(d, e)
             /\ ~Active(x) => e = d
             /\ Active(x) => e.i.mutex_count
                               = [d.i.mutex_count EXCEPT ![t] = @ + 1]
             /\ \A u \in Thread \ {t} :
                  /\ e.i.priority_inherited[u] = d.i.priority_inherited[u]
                  /\ e.k.priority[u] = d.k.priority[u]
             /\ e.k.priority[t] <= d.k.priority[t]
<1> DEFINE n == d.i.mutex_count[t] + 1
           c == [d EXCEPT !.i.mutex_count[t] = n]
<1>1. /\ t \in Thread /\ n \in Int /\ d.i.mutex_count \in [Thread -> Int]
      /\ Protocol[x] \in {"NONE", "INHERIT", "CEILING"} /\ Ceiling[x] \in Priority
      /\ d.k.priority[t] \in Int
  BY PairKernel, MutexAssumption DEF Target
<1>2. /\ Adjusts(d, c) /\ c.k = d.k
      /\ c.i.mutex_count = [d.i.mutex_count EXCEPT ![t] = n]
      /\ c.i.priority_inherited = d.i.priority_inherited
  <2>1. t \in Thread /\ n \in Int
    BY <1>1
  <2> HIDE DEF n
  <2> QED
    BY <2>1, CountsAlone
<1>3. [d EXCEPT !.i.mutex_count[t] = @ + 1] = c
  BY <1>1 DEF Pair, InheritData
<1> HIDE DEF c
<1>4. c \in Pair /\ KernelOK(c.k) /\ WaitOK(c.k)
  BY <1>2 DEF Adjusts, Honest
<1>5. Lends(c, SetInherited(c, t, Ceiling[x]), t)
  BY <1>1, <1>4, SetInheritedLends
<1>6. CASE Protocol[x] = "NONE"
  <2>1. Count(d, x, t) = d
    BY <1>6 DEF Count
  <2>2. Lends(d, d, t)
    BY <1>1, AdjustsRefl
  <2> QED
    BY <1>6, <2>1, <2>2 DEF Active, Lends
<1>7. CASE Protocol[x] = "INHERIT"
  <2>1. Count(d, x, t) = c
    BY <1>3, <1>7 DEF Count
  <2>2. d.k.priority[t] <= d.k.priority[t]
    BY <1>1
  <2> QED
    BY <1>1, <1>2, <1>7, <2>1, <2>2 DEF Active
<1>8. CASE Protocol[x] = "CEILING"
  <2> DEFINE e == SetInherited(c, t, Ceiling[x])
  <2>1. Count(d, x, t) = e
    BY <1>3, <1>8 DEF Count
  <2> HIDE DEF e
  <2>2. Lends(c, e, t)
    BY <1>5 DEF e
  <2>3. Adjusts(d, e)
    BY <1>2, <2>2, AdjustsTrans DEF Lends
  <2> QED
    BY <1>1, <1>2, <1>8, <2>1, <2>2, <2>3 DEF Active, Lends
<1> QED
  BY <1>1, <1>6, <1>7, <1>8

\* unlock(): one mutex less counts; with the last the inheritance ends, and
\* before that no priority changes.
LEMMA UncountAdjusts ==
  ASSUME NEW d \in Pair, KernelOK(d.k), WaitOK(d.k), NEW t \in Target,
         NEW x \in Mutexes
  PROVE  LET e == Uncount(d, x, t)
         IN  /\ Adjusts(d, e)
             /\ ~Active(x) => e = d
             /\ Active(x) => e.i.mutex_count
                               = [d.i.mutex_count EXCEPT ![t] = @ - 1]
             /\ \A u \in Thread \ {t} :
                  /\ e.i.priority_inherited[u] = d.i.priority_inherited[u]
                  /\ e.k.priority[u] = d.k.priority[u]
             /\ Active(x) /\ e.i.mutex_count[t] = 0 => ~e.i.priority_inherited[t]
             /\ e.i.mutex_count[t] # 0 => e.k.priority[t] = d.k.priority[t]
<1> DEFINE n == d.i.mutex_count[t] - 1
           c == [d EXCEPT !.i.mutex_count[t] = n]
           e == ClearInherited(c, t)
<1>1. /\ t \in Thread /\ n \in Int /\ d.i.mutex_count \in [Thread -> Int]
  BY PairKernel DEF Target
<1>2. /\ Adjusts(d, c) /\ c.k = d.k
      /\ c.i.mutex_count = [d.i.mutex_count EXCEPT ![t] = n]
      /\ c.i.priority_inherited = d.i.priority_inherited
  <2>1. t \in Thread /\ n \in Int
    BY <1>1
  <2> HIDE DEF n
  <2> QED
    BY <2>1, CountsAlone
<1>3. [d EXCEPT !.i.mutex_count[t] = @ - 1] = c
  BY <1>1 DEF Pair, InheritData
<1> HIDE DEF c
<1>4. c \in Pair /\ KernelOK(c.k) /\ WaitOK(c.k)
  BY <1>2 DEF Adjusts, Honest
<1>5. /\ Adjusts(c, e)
      /\ e.i.mutex_count = c.i.mutex_count
      /\ \A u \in Thread \ {t} :
           /\ e.i.priority_inherited[u] = c.i.priority_inherited[u]
           /\ e.k.priority[u] = c.k.priority[u]
      /\ c.i.mutex_count[t] # 0 => e = c
      /\ c.i.mutex_count[t] = 0 => ~e.i.priority_inherited[t]
  BY <1>4, ClearInheritedAdjusts
<1> HIDE DEF e
<1>6. CASE Active(x)
  <2>1. Uncount(d, x, t) = e
    BY <1>3, <1>6 DEF Uncount, Active, e
  <2>2. Adjusts(d, e)
    BY <1>2, <1>5, AdjustsTrans
  <2> QED
    BY <1>1, <1>2, <1>5, <1>6, <2>1, <2>2
<1>7. CASE ~Active(x)
  <2>1. Uncount(d, x, t) = d
    BY <1>7 DEF Uncount, Active
  <2>2. Adjusts(d, d)
    BY <1>1, AdjustsRefl
  <2> QED
    BY <1>7, <2>1, <2>2
<1> QED
  BY <1>6, <1>7

\* A waiter lends its priority to the owner, who has the mutex counted.
LEMMA InheritFromLends ==
  ASSUME NEW d \in Pair, KernelOK(d.k), WaitOK(d.k), NEW t \in Thread,
         NEW x \in Mutexes, owner[x] \in Target
  PROVE  /\ Lends(d, InheritFrom(d, x, t), owner[x])
         /\ Protocol[x] = "INHERIT" =>
              InheritFrom(d, x, t).k.priority[owner[x]] <= d.k.priority[t]
         /\ Protocol[x] # "INHERIT" => InheritFrom(d, x, t) = d
<1>1. d.k.priority[t] \in Priority /\ owner[x] \in Thread
  BY PairKernel DEF Target
<1>2. /\ Lends(d, SetInherited(d, owner[x], d.k.priority[t]), owner[x])
      /\ SetInherited(d, owner[x], d.k.priority[t]).k.priority[owner[x]]
           <= d.k.priority[t]
  BY <1>1, SetInheritedLends
<1>3. Lends(d, d, owner[x])
  BY <1>1, AdjustsRefl
<1> QED
  BY <1>2, <1>3 DEF InheritFrom

LEMMA RelayLends ==
  ASSUME NEW d \in Pair, KernelOK(d.k), WaitOK(d.k), NEW t \in Target,
         NEW x \in Mutexes, owner[x] \in Thread
  PROVE  /\ Lends(d, Relay(d, x, t), t)
         /\ Protocol[x] = "INHERIT" /\ d.k.wait_queue[x] # <<>> =>
              Relay(d, x, t).k.priority[t] <= d.k.priority[owner[x]]
         /\ Protocol[x] # "INHERIT" => Relay(d, x, t) = d
<1>1. d.k.priority[owner[x]] \in Priority /\ t \in Thread
  BY PairKernel DEF Target
<1>2. /\ Lends(d, SetInherited(d, t, d.k.priority[owner[x]]), t)
      /\ SetInherited(d, t, d.k.priority[owner[x]]).k.priority[t]
           <= d.k.priority[owner[x]]
  BY <1>1, SetInheritedLends
<1>3. Lends(d, d, t)
  BY <1>1, AdjustsRefl
<1> QED
  BY <1>2, <1>3 DEF Relay
------------------------------------------------------------------------------
(***************************************************************************)
(* unlock() hands the mutex on: the first waiter is woken, with a priority *)
(* that is as good as the owner's if others are left behind.               *)
(***************************************************************************)
HandedOn(d, e, x) ==
  /\ Honest(d, e)
  /\ Serves(d.k, e.k, x)
  /\ e.i.mutex_count = d.i.mutex_count
  /\ \A t \in Thread : "EXITED" \in e.k.state[t] <=> "EXITED" \in d.k.state[t]

HandedTo(d, e, x, h) ==
  /\ h \in Target /\ d.k.queue[h] = x /\ Alone(d.k, e.k, h)
  /\ "SLEEPING" \notin e.k.state[h] /\ e.k.wake_reason[h] = "DONE"
  /\ e.k.priority[h] <= d.k.priority[h]
  /\ \A u \in Thread \ {h} :
       /\ e.i.priority_inherited[u] = d.i.priority_inherited[u]
       /\ e.k.priority[u] = d.k.priority[u]
  /\ Protocol[x] # "INHERIT" =>
       e.i.priority_inherited[h] = d.i.priority_inherited[h]
  /\ Protocol[x] = "INHERIT" /\ e.k.wait_queue[x] # <<>> =>
       e.k.priority[h] <= d.k.priority[owner[x]]

\* Threads that leave a queue leave all others as they are.
LEMMA HandOnHands ==
  ASSUME NEW d \in Pair, KernelOK(d.k), WaitOK(d.k), NEW x \in Mutexes,
         owner[x] \in Thread, d.k.wait_queue[x] # <<>>
  PROVE  /\ HandedOn(d, HandOn(d, x), x)
         /\ HandedTo(d, HandOn(d, x), x, Head(d.k.wait_queue[x]))
<1> DEFINE h == Head(d.k.wait_queue[x])
           i == Dequeue(d.k, x)
           c == [d EXCEPT !.k = i]
           r == Relay(c, x, h)
           j == WakeDone(r.k, h)
           e == [r EXCEPT !.k = j]
<1>1. x \in Queue /\ d.k \in KernelData /\ d.i \in InheritData
  BY MutexAssumption, PairKernel
<1>2. HandOn(d, x) = e
  <2>1. [d EXCEPT !.k = Dequeue(@, x)] = c
    BY DEF Pair
  <2>2. [r EXCEPT !.k = WakeDone(@, h)] = e
    OBVIOUS
  <2> QED
    BY <2>1, <2>2 DEF HandOn
<1>3. TakenOff(d.k, i, x)
  BY <1>1, DequeueTakesOff
<1> HIDE DEF i
<1>4. i \in KernelData /\ KernelOK(i) /\ WaitOK(i)
  BY <1>3 DEF TakenOff, Sound, KernelOK
<1>5. c \in Pair /\ c.k = i /\ c.i = d.i
  BY <1>1, <1>4 DEF Pair
<1> HIDE DEF c
<1>6. /\ h \in Target /\ h \in Thread /\ d.k.queue[h] = x
      /\ "SLEEPING" \in d.k.state[h]
      /\ Sound(d.k, i) /\ i.priority = d.k.priority /\ i.state = d.k.state
      /\ i.queue[h] = NoQueue
      /\ \A u \in Thread \ {h} : KeptAt(d.k, i, u)
  BY <1>3 DEF TakenOff, Target, SameSleep
<1> HIDE DEF h
<1>7. /\ Lends(c, r, h)
      /\ Protocol[x] = "INHERIT" /\ c.k.wait_queue[x] # <<>> =>
           r.k.priority[h] <= c.k.priority[owner[x]]
      /\ Protocol[x] # "INHERIT" => r = c
  BY <1>4, <1>5, <1>6, RelayLends
<1> HIDE DEF r
<1>8. /\ r \in Pair /\ Sound(i, r.k) /\ Kept(i, r.k) /\ r.k.state = i.state
      /\ r.i.mutex_count = d.i.mutex_count
      /\ \A b \in [Thread -> Priority] : GivenBack(c, b) => GivenBack(r, b)
      /\ \A u \in Thread \ {h} :
           /\ r.i.priority_inherited[u] = d.i.priority_inherited[u]
           /\ r.k.priority[u] = d.k.priority[u]
      /\ r.k.priority[h] <= d.k.priority[h]
  BY <1>5, <1>6, <1>7 DEF Lends, Adjusts, Honest
<1>9. /\ KernelOK(r.k) /\ WaitOK(r.k) /\ r.k \in KernelData /\ r.i \in InheritData
      /\ r.k.queue[h] = NoQueue
  <2>1. KernelOK(r.k) /\ WaitOK(r.k)
    BY <1>8 DEF Sound, Kept
  <2>2. StillWaits(i, r.k, h) /\ "SLEEPING" \in r.k.state[h]
    BY <1>6, <1>8 DEF Kept, KeptAt
  <2> QED
    BY <1>6, <1>8, <2>1, <2>2, PairKernel DEF StillWaits
<1>10. j = Wake(SetWakeReason(r.k, h, "DONE"), h)
  BY DEF WakeDone
<1>11. WokenOff(r.k, j, h, "DONE")
  BY <1>6, <1>9, <1>10, WakeOff DEF Reason
<1> HIDE DEF j
<1>12. /\ Sound(r.k, j) /\ WaitOK(j) /\ j.wait_queue = r.k.wait_queue
       /\ j.queue[h] = NoQueue
       /\ j.priority = r.k.priority
       /\ \A t \in Thread : "EXITED" \in j.state[t] <=> "EXITED" \in r.k.state[t]
       /\ ~Sleeps(j, h) /\ j.sleep_reason[h] = "NONE" /\ j.wake_reason[h] = "DONE"
       /\ Alone(r.k, j, h)
       /\ \A u \in Thread \ {h} : KeptAt(r.k, j, u)
  BY <1>9, <1>11 DEF WokenOff, SameQueues, Steady
<1>13. j \in KernelData
  BY <1>12 DEF Sound, KernelOK
<1>14. e \in Pair /\ e.k = j /\ e.i = r.i
  BY <1>8, <1>9, <1>13 DEF Pair
<1> HIDE DEF e
<1>15. Honest(d, e)
  <2>1. Sound(d.k, j)
    BY <1>6, <1>8, <1>12, SoundTrans
  <2>2. ASSUME NEW b \in [Thread -> Priority], GivenBack(d, b)
        PROVE  GivenBack(e, b)
    <3>1. GivenBack(c, b)
      BY <1>5, <1>6, <2>2 DEF GivenBack
    <3>2. GivenBack(r, b)
      BY <1>8, <3>1
    <3> QED
      BY <1>12, <1>14, <3>2 DEF GivenBack
  <2> QED
    BY <1>14, <2>1, <2>2 DEF Honest
<1>16. Serves(d.k, j, x)
  <2>1. ServedAt(d.k, j, h, x)
    BY <1>1, <1>6, <1>12, ThreadAssumption DEF ServedAt
  <2>2. ASSUME NEW u \in Thread \ {h} PROVE KeptAt(d.k, j, u)
    <3>1. KeptAt(d.k, i, u) /\ KeptAt(i, r.k, u) /\ KeptAt(r.k, j, u)
      BY <1>6, <1>8, <1>12 DEF Kept
    <3> QED
      BY <3>1, KeptAtTrans
  <2> QED
    BY <1>12, <2>1, <2>2 DEF Serves
<1>17. HandedOn(d, e, x)
  BY <1>6, <1>8, <1>12, <1>14, <1>15, <1>16 DEF HandedOn
<1>18. Protocol[x] = "INHERIT" /\ e.k.wait_queue[x] # <<>> =>
         e.k.priority[h] <= d.k.priority[owner[x]]
  <2> SUFFICES ASSUME Protocol[x] = "INHERIT", j.wait_queue[x] # <<>>
               PROVE  j.priority[h] <= d.k.priority[owner[x]]
    BY <1>14
  <2>1. ToSet(r.k.wait_queue[x]) \subseteq ToSet(i.wait_queue[x])
    <3>1. \A t \in Thread : r.k.queue[t] = x => i.queue[t] = x
      BY <1>1, <1>8, <1>9, ThreadAssumption DEF Kept, KeptAt, StillWaits, WaitOK, WaitOKAt
    <3> QED
      BY <1>1, <1>4, <1>9, <3>1, QueuesShrink
  <2>2. i.wait_queue[x] # <<>>
    BY <1>1, <1>4, <1>9, <1>12, <2>1, StillQueued
  <2> QED
    BY <1>5, <1>6, <1>7, <1>12, <2>2
<1>19. Protocol[x] # "INHERIT" => r.i.priority_inherited = d.i.priority_inherited
  BY <1>5, <1>7
<1>20. "SLEEPING" \notin j.state[h]
  BY <1>12 DEF Sleeps, SLEEPSET
<1>22. Alone(d.k, e.k, h)
  BY <1>6, <1>8, <1>12, <1>14 DEF Alone
<1>21. HandedTo(d, e, x, h)
  BY <1>6, <1>8, <1>12, <1>14, <1>18, <1>19, <1>20, <1>22 DEF HandedTo
<1> QED
  BY <1>2, <1>17, <1>21 DEF h

LEMMA HandOnNobody ==
  ASSUME NEW d \in Pair, KernelOK(d.k), WaitOK(d.k), NEW x \in Mutexes,
         d.k.wait_queue[x] = <<>>
  PROVE  HandOn(d, x) = d /\ HandedOn(d, HandOn(d, x), x)
<1>1. HandOn(d, x) = d
  BY DEF HandOn
<1>2. Honest(d, d) /\ Serves(d.k, d.k, x)
  BY SoundRefl, KeptRefl DEF Honest, Kept, Serves
<1> QED
  BY <1>1, <1>2 DEF HandedOn

\* unlock(): the first waiter, if any, is handed the mutex, and the owner
\* gives up what it inherited with its last mutex.
GivenUp(d, e, x, t) ==
  /\ Honest(d, e)
  /\ Serves(d.k, e.k, x)
  /\ \A u \in Thread : "EXITED" \in e.k.state[u] <=> "EXITED" \in d.k.state[u]
  /\ \A u \in Thread : d.k.queue[u] # x => e.k.state[u] = d.k.state[u]
  /\ ~Active(x) => e.i.mutex_count = d.i.mutex_count
  /\ Active(x) => e.i.mutex_count = [d.i.mutex_count EXCEPT ![t] = @ - 1]
  /\ ~Active(x) => e.i.priority_inherited = d.i.priority_inherited
  /\ Active(x) /\ e.i.mutex_count[t] = 0 => ~e.i.priority_inherited[t]
  /\ e.i.mutex_count[t] # 0 => e.i.priority_inherited[t] = d.i.priority_inherited[t]
  /\ e.i.mutex_count[t] # 0 \/ ~Active(x) => e.k.priority[t] = d.k.priority[t]
  /\ \A u \in Thread \ {t} :
       /\ e.k.priority[u] <= d.k.priority[u]
       /\ d.k.queue[u] # x \/ Protocol[x] # "INHERIT" =>
            e.i.priority_inherited[u] = d.i.priority_inherited[u]

\* The waiter that was handed the mutex.
HeirOf(d, e, x, t) ==
  \E h \in Thread \ {t} :
    /\ d.k.queue[h] = x
    /\ "SLEEPING" \notin e.k.state[h] /\ e.k.wake_reason[h] = "DONE"
    /\ Protocol[x] = "INHERIT" /\ e.k.wait_queue[x] # <<>> =>
         e.k.priority[h] <= d.k.priority[t]

LEMMA UncountKeepsInherited ==
  ASSUME NEW d \in Pair, NEW t \in Target, NEW x \in Mutexes
  PROVE  LET e == Uncount(d, x, t)
         IN  e.i.mutex_count[t] # 0 =>
               e.i.priority_inherited[t] = d.i.priority_inherited[t]
<1> DEFINE n == d.i.mutex_count[t] - 1
           c == [d EXCEPT !.i.mutex_count[t] = n]
           i == [d.i EXCEPT !.mutex_count[t] = n]
           e == Uncount(d, x, t)
<1>1. /\ t \in Thread /\ d.i.mutex_count \in [Thread -> Int] /\ d.i \in InheritData
      /\ n \in Int
  BY PairKernel DEF Target
<1>2. /\ i.mutex_count = [d.i.mutex_count EXCEPT ![t] = n]
      /\ i.priority_inherited = d.i.priority_inherited
  BY <1>1 DEF InheritData
<1>3. c.i = i /\ c.k = d.k
  BY <1>1 DEF Pair, InheritData
<1>4. [d EXCEPT !.i.mutex_count[t] = @ - 1] = c
  BY <1>1 DEF Pair, InheritData
<1> HIDE DEF c, i
<1>5. CASE Protocol[x] = "NONE"
  BY <1>5 DEF Uncount
<1>6. CASE Protocol[x] # "NONE"
  <2>1. e = ClearInherited(c, t)
    BY <1>4, <1>6 DEF Uncount
  <2>2. CASE c.i.mutex_count[t] # 0 \/ ~c.i.priority_inherited[t]
    <3>1. e = c
      BY <2>1, <2>2 DEF ClearInherited
    <3> QED
      BY <1>2, <1>3, <3>1
  <2>3. CASE ~(c.i.mutex_count[t] # 0 \/ ~c.i.priority_inherited[t])
    <3>1. e.i = [c.i EXCEPT !.priority_inherited[t] = FALSE]
      BY <2>1, <2>3 DEF ClearInherited
    <3>2. e.i.mutex_count[t] = 0
      <4>1. c.i \in InheritData
        BY <1>1, <1>3 DEF i, InheritData
      <4> QED
        BY <2>3, <3>1, <4>1 DEF InheritData
    <3> QED
      BY <3>2
  <2> QED
    BY <2>2, <2>3
<1> QED
  BY <1>5, <1>6

LEMMA UnlockGivesUp ==
  ASSUME NEW d \in Pair, KernelOK(d.k), WaitOK(d.k), NEW x \in Mutexes,
         NEW t \in Target, owner[x] = t, d.k.queue[t] # x
  PROVE  LET e == Uncount(HandOn(d, x), x, t)
         IN  /\ GivenUp(d, e, x, t)
             /\ d.k.wait_queue[x] # <<>> => HeirOf(d, e, x, t)
<1> DEFINE c == HandOn(d, x)
           e == Uncount(c, x, t)
           h == Head(d.k.wait_queue[x])
<1>1. t \in Thread /\ x \in Queue
  BY MutexAssumption DEF Target
<1>2. /\ HandedOn(d, c, x)
      /\ d.k.wait_queue[x] # <<>> => HandedTo(d, c, x, h)
      /\ d.k.wait_queue[x] = <<>> => c = d
  BY <1>1, HandOnHands, HandOnNobody
<1> HIDE DEF c, h
<1>3. /\ c \in Pair /\ KernelOK(c.k) /\ WaitOK(c.k)
      /\ Honest(d, c) /\ Sound(d.k, c.k) /\ Serves(d.k, c.k, x)
      /\ c.i.mutex_count = d.i.mutex_count
      /\ \A u \in Thread : "EXITED" \in c.k.state[u] <=> "EXITED" \in d.k.state[u]
  BY <1>2 DEF HandedOn, Honest, Sound, Serves
<1>4. /\ Adjusts(c, e)
      /\ ~Active(x) => e = c
      /\ Active(x) => e.i.mutex_count = [c.i.mutex_count EXCEPT ![t] = @ - 1]
      /\ \A u \in Thread \ {t} :
           /\ e.i.priority_inherited[u] = c.i.priority_inherited[u]
           /\ e.k.priority[u] = c.k.priority[u]
      /\ Active(x) /\ e.i.mutex_count[t] = 0 => ~e.i.priority_inherited[t]
      /\ e.i.mutex_count[t] # 0 => e.k.priority[t] = c.k.priority[t]
  BY <1>3, UncountAdjusts
<1>5. e.i.mutex_count[t] # 0 => e.i.priority_inherited[t] = c.i.priority_inherited[t]
  BY <1>3, UncountKeepsInherited
<1> HIDE DEF e
<1>6. \A u \in Thread : d.k.priority[u] <= d.k.priority[u]
  BY PairKernel
<1>7. \A u \in Thread :
        /\ c.k.priority[u] <= d.k.priority[u]
        /\ d.k.queue[u] # x =>
             /\ c.k.priority[u] = d.k.priority[u]
             /\ c.i.priority_inherited[u] = d.i.priority_inherited[u]
        /\ Protocol[x] # "INHERIT" =>
             c.i.priority_inherited[u] = d.i.priority_inherited[u]
  <2>1. CASE d.k.wait_queue[x] = <<>>
    BY <1>2, <1>6, <2>1
  <2>2. CASE d.k.wait_queue[x] # <<>>
    BY <1>2, <1>6, <2>2 DEF HandedTo
  <2> QED
    BY <2>1, <2>2
<1>8. ~Active(x) => Protocol[x] # "INHERIT"
  BY DEF Active
<1>9. /\ Honest(d, e)
      /\ Serves(d.k, e.k, x)
      /\ e.k.state = c.k.state
  BY <1>3, <1>4, HonestTrans, ServesTrans, KeptServes DEF Adjusts
<1>10. ~Active(x) => e.i.priority_inherited = d.i.priority_inherited
  <2>1. /\ c.i.priority_inherited \in [Thread -> BOOLEAN]
        /\ d.i.priority_inherited \in [Thread -> BOOLEAN]
    BY <1>3, PairKernel
  <2>2. Protocol[x] # "INHERIT" => c.i.priority_inherited = d.i.priority_inherited
    BY <1>7, <2>1
  <2> QED
    BY <1>4, <1>8, <2>2
<1>13. \A u \in Thread : d.k.queue[u] # x => e.k.state[u] = d.k.state[u]
  BY <1>2, <1>9 DEF HandedTo, Alone
<1>11. GivenUp(d, e, x, t)
  BY <1>1, <1>3, <1>4, <1>5, <1>7, <1>9, <1>10, <1>13 DEF GivenUp
<1>12. ASSUME d.k.wait_queue[x] # <<>> PROVE HeirOf(d, e, x, t)
  <2>1. HandedTo(d, c, x, h)
    BY <1>2, <1>12
  <2>2. /\ h \in Thread \ {t} /\ d.k.queue[h] = x
        /\ "SLEEPING" \notin e.k.state[h] /\ c.k.wake_reason[h] = "DONE"
        /\ e.k.priority[h] = c.k.priority[h]
    BY <1>4, <1>9, <2>1 DEF HandedTo, Target
  <2>3. e.k.wake_reason[h] = "DONE"
    <3>1. c.k.sleep_reason[h] = "NONE"
      BY <1>3, <2>2 DEF WaitOK, WaitOKAt
    <3> QED
      BY <1>4, <2>2, <3>1 DEF Adjusts, Kept, KeptAt
  <2>4. e.k.wait_queue[x] # <<>> => c.k.wait_queue[x] # <<>>
    <3>1. e.k \in KernelData /\ c.k \in KernelData /\ WaitOK(e.k)
      BY <1>3, <1>4, PairKernel DEF Adjusts, Honest, Kept
    <3>2. \A u \in Thread : e.k.queue[u] = x => c.k.queue[u] = x
      BY <1>1, <1>4, <3>1, ThreadAssumption
         DEF Adjusts, Kept, KeptAt, StillWaits, WaitOK, WaitOKAt
    <3>3. ToSet(e.k.wait_queue[x]) \subseteq ToSet(c.k.wait_queue[x])
      BY <1>1, <1>3, <3>1, <3>2, QueuesShrink
    <3> QED
      BY <1>1, <3>1, <3>3, StillQueued
  <2>5. Protocol[x] = "INHERIT" /\ e.k.wait_queue[x] # <<>> =>
          e.k.priority[h] <= d.k.priority[t]
    BY <2>1, <2>2, <2>4 DEF HandedTo
  <2> QED
    BY <2>2, <2>3, <2>5 DEF HeirOf
<1> QED
  BY <1>11, <1>12 DEF e, c

\* set_priority() of a thread that may have inherited.
LEMMA SetPriorityAwareGives ==
  ASSUME NEW d \in Pair, KernelOK(d.k), WaitOK(d.k), NEW t \in Target,
         NEW p \in Priority
  PROVE  LET e == SetPriorityAware(d, t, p)
         IN  /\ e \in Pair /\ Sound(d.k, e.k) /\ Kept(d.k, e.k)
             /\ e.k.state = d.k.state
             /\ e.i.mutex_count = d.i.mutex_count
             /\ e.i.priority_inherited = d.i.priority_inherited
             /\ \A b \in [Thread -> Priority] :
                  GivenBack(d, b) => GivenBack(e, [b EXCEPT ![t] = p])
<1> DEFINE m == IF p < d.k.priority[t] THEN p ELSE d.k.priority[t]
           n == IF d.i.priority_inherited[t] THEN m ELSE p
           j == SetPriority(d.k, t, n)
           i == IF d.i.priority_inherited[t]
                THEN [d.i EXCEPT !.original_priority[t] = p] ELSE d.i
           e == [k |-> j, i |-> i]
<1>1. /\ t \in Thread /\ d.k \in KernelData /\ d.i \in InheritData
      /\ d.k.priority[t] \in Priority
  BY PairKernel DEF Target
<1>2. SetPriorityAware(d, t, p) = e
  BY DEF SetPriorityAware, Pair
<1>3. n \in Priority /\ (d.i.priority_inherited[t] => n <= p)
  <2>1. p \in Int /\ d.k.priority[t] \in Int
    BY <1>1, PairKernel
  <2>2. m \in Priority /\ m <= p
    BY <1>1, <2>1
  <2> QED
    BY <2>2
<1> HIDE DEF n, m
<1>4. /\ Sound(d.k, j) /\ Kept(d.k, j) /\ j.state = d.k.state
      /\ j.priority[t] = n
      /\ \A u \in Thread \ {t} : j.priority[u] = d.k.priority[u]
  BY <1>3, SetPriorityAdjusts
<1>5. j \in KernelData
  BY <1>4 DEF Sound, KernelOK
<1> HIDE DEF j
<1>6. /\ i \in InheritData /\ i.mutex_count = d.i.mutex_count
      /\ i.priority_inherited = d.i.priority_inherited
      /\ d.i.priority_inherited[t] => i.original_priority[t] = p
      /\ \A u \in Thread \ {t} : i.original_priority[u] = d.i.original_priority[u]
  BY <1>1 DEF InheritData
<1> HIDE DEF i
<1>7. e \in Pair /\ e.k = j /\ e.i = i
  BY <1>5, <1>6 DEF Pair
<1> HIDE DEF e
<1>8. ASSUME NEW b \in [Thread -> Priority], GivenBack(d, b), NEW u \in Thread
      PROVE  LET c == [b EXCEPT ![t] = p]
             IN  IF e.i.priority_inherited[u]
                 THEN e.i.original_priority[u] = c[u] /\ e.k.priority[u] <= c[u]
                 ELSE e.k.priority[u] = c[u]
  <2>1. CASE u = t
    BY <1>1, <1>3, <1>4, <1>6, <1>7, <2>1 DEF n
  <2>2. CASE u # t
    BY <1>4, <1>6, <1>7, <1>8, <2>2 DEF GivenBack
  <2> QED
    BY <2>1, <2>2
<1>9. \A b \in [Thread -> Priority] :
        GivenBack(d, b) => GivenBack(e, [b EXCEPT ![t] = p])
  BY <1>8 DEF GivenBack
<1> QED
  BY <1>2, <1>4, <1>6, <1>7, <1>9

------------------------------------------------------------------------------
(***************************************************************************)
(* The invariant.  It says of each thread which mutex and condition        *)
(* variable calls it can be in the middle of (ClaimsAt); that the thread   *)
(* whose code runs has not exited; and, of threads that have not, that the *)
(* mutex count is the size of a finite set (BalancedAt).                   *)
(***************************************************************************)
Owners == [Mutexes -> Target \cup {NoThread}]

MutexTypes ==
  /\ owner \in Owners
  /\ mutex \in [Thread -> Mutexes \cup {NoQueue}]
  /\ inherit \in InheritData
  /\ \A t \in Thread : inherit.mutex_count[t] >= 0
  /\ base \in [Thread -> Priority]
  /\ asked \in [Thread -> Priority]
  /\ changes \in Nat

\* The wait w, the next step n and the mutex m of thread t, the owners being o.
ClaimsOf(t, w, n, m, o) ==
  /\ w.queue \in Mutexes => n = "wait" /\ o[w.queue] # t
  /\ w.queue \in CondVars => n \in {"cond", "condtimer"} /\ m # NoQueue
  /\ n = "relock" => m # NoQueue
  /\ m # NoQueue => /\ n \in {"cond", "condtimer", "relock", "dead"} \/ w.queue = m
                    /\ o[m] # t

ClaimsAt(t) == ClaimsOf(t, waits[t], cont[t], mutex[t], owner)

\* The mutexes that count for thread t, the owners being o and t waiting on q.
HoldingOf(t, o, q) == {x \in Mutexes : Active(x) /\ (o[x] = t \/ q = x)}

BalancedOf(t, i, o, q) ==
  /\ IsFiniteSet(HoldingOf(t, o, q))
  /\ i.mutex_count[t] = Cardinality(HoldingOf(t, o, q))
  /\ i.mutex_count[t] = 0 => ~i.priority_inherited[t]

BalancedAt(t) == ~Gone(t) => BalancedOf(t, inherit, owner, waits[t].queue)

RunsOn == pc \in {"boot", "user"} => ~Gone(Current)

\* NoInversion of one mutex: the threads that can speak for its waiters.
Guards(x) == Woken(x) \cup ({owner[x]} \ {NoThread})

Guarded(x) ==
  changes = 0 /\ Protocol[x] = "INHERIT" =>
    \A t \in ToSet(k.wait_queue[x]) :
      \E u \in Guards(x) : k.priority[u] <= asked[t]

Attended(x) == Free(x) /\ k.wait_queue[x] # <<>> => Woken(x) # {}

MutexInv ==
  /\ IInv
  /\ WaitInv
  /\ MutexTypes
  /\ RunsOn
  /\ \A t \in Thread : ClaimsAt(t) /\ BalancedAt(t)
  /\ GivenBack(Here, base)
  /\ \A x \in Mutexes : Guarded(x) /\ Attended(x)

\* The sets that count.
LEMMA SameHolding ==
  ASSUME NEW t, NEW i, NEW o, NEW q, BalancedOf(t, i, o, q), NEW j, NEW p, NEW r,
         \A y \in Mutexes : (p[y] = t \/ r = y) <=> (o[y] = t \/ q = y),
         j.mutex_count[t] = i.mutex_count[t],
         \/ j.priority_inherited[t] = i.priority_inherited[t]
         \/ j.mutex_count[t] # 0
  PROVE  BalancedOf(t, j, p, r)
<1>1. HoldingOf(t, p, r) = HoldingOf(t, o, q)
  BY DEF HoldingOf
<1> QED
  BY <1>1 DEF BalancedOf

\* The mutex that was being locked is owned.
LEMMA NowHolding ==
  ASSUME NEW t, NEW i, NEW o, NEW x \in Mutexes, BalancedOf(t, i, o, x), NEW p, NEW r,
         r \notin Mutexes, p[x] = t, \A y \in Mutexes \ {x} : p[y] = o[y]
  PROVE  BalancedOf(t, i, p, r)
<1>1. HoldingOf(t, p, r) = HoldingOf(t, o, x)
  BY DEF HoldingOf
<1> QED
  BY <1>1 DEF BalancedOf

LEMMA OneMoreHeld ==
  ASSUME NEW t, NEW i, NEW o, NEW q, BalancedOf(t, i, o, q), NEW j, NEW p, NEW r,
         NEW x \in Mutexes, o[x] # t, q # x, p[x] = t \/ r = x,
         \A y \in Mutexes \ {x} : (p[y] = t \/ r = y) <=> (o[y] = t \/ q = y),
         ~Active(x) => /\ j.mutex_count[t] = i.mutex_count[t]
                       /\ j.priority_inherited[t] = i.priority_inherited[t],
         Active(x) => j.mutex_count[t] = i.mutex_count[t] + 1
  PROVE  BalancedOf(t, j, p, r)
<1> DEFINE S == HoldingOf(t, o, q)
           T == HoldingOf(t, p, r)
<1>1. IsFiniteSet(S) /\ x \notin S /\ Cardinality(S) \in Nat
  BY FS_CardinalityType DEF BalancedOf, HoldingOf
<1>2. CASE ~Active(x)
  <2>1. T = S
    BY <1>2 DEF HoldingOf
  <2> QED
    BY <1>2, <2>1 DEF BalancedOf
<1>3. CASE Active(x)
  <2>1. T = S \cup {x}
    BY <1>3 DEF HoldingOf
  <2> HIDE DEF S, T
  <2>2. IsFiniteSet(T) /\ Cardinality(T) = Cardinality(S) + 1
    BY <1>1, <2>1, FS_AddElement
  <2> QED
    BY <1>1, <1>3, <2>2 DEF BalancedOf, S, T
<1> QED
  BY <1>2, <1>3

LEMMA OneLessHeld ==
  ASSUME NEW t, NEW i, NEW o, NEW q, BalancedOf(t, i, o, q), NEW j, NEW p, NEW r,
         NEW x \in Mutexes, o[x] = t \/ q = x, p[x] # t, r # x,
         \A y \in Mutexes \ {x} : (p[y] = t \/ r = y) <=> (o[y] = t \/ q = y),
         ~Active(x) => /\ j.mutex_count[t] = i.mutex_count[t]
                       /\ j.priority_inherited[t] = i.priority_inherited[t],
         Active(x) => j.mutex_count[t] = i.mutex_count[t] - 1,
         Active(x) /\ j.mutex_count[t] = 0 => ~j.priority_inherited[t]
  PROVE  BalancedOf(t, j, p, r)
<1> DEFINE S == HoldingOf(t, o, q)
           T == HoldingOf(t, p, r)
<1>1. IsFiniteSet(S) /\ Cardinality(S) \in Nat
  BY FS_CardinalityType DEF BalancedOf
<1>2. CASE ~Active(x)
  <2>1. T = S
    BY <1>2 DEF HoldingOf
  <2> QED
    BY <1>2, <2>1 DEF BalancedOf
<1>3. CASE Active(x)
  <2>1. T = S \ {x} /\ x \in S
    BY <1>3 DEF HoldingOf
  <2> HIDE DEF S, T
  <2>2. IsFiniteSet(T) /\ Cardinality(T) = Cardinality(S) - 1
    BY <1>1, <2>1, FS_RemoveElement
  <2> QED
    BY <1>1, <1>3, <2>2 DEF BalancedOf, S, T
<1> QED
  BY <1>2, <1>3

\* A thread with a mutex that counts may inherit.
LEMMA HolderCounts ==
  ASSUME NEW t, NEW i, NEW o, NEW q, BalancedOf(t, i, o, q),
         NEW x \in Mutexes, Active(x), o[x] = t \/ q = x
  PROVE  i.mutex_count[t] \in Nat /\ i.mutex_count[t] > 0
<1> DEFINE S == HoldingOf(t, o, q)
<1>1. IsFiniteSet(S) /\ x \in S
  BY DEF BalancedOf, HoldingOf
<1> HIDE DEF S
<1>2. Cardinality(S) \in Nat /\ Cardinality(S) # 0
  BY <1>1, FS_CardinalityType, FS_EmptySet
<1> QED
  BY <1>2 DEF BalancedOf, S
------------------------------------------------------------------------------
(***************************************************************************)
(* What the steps have in common: only the thread c that makes it takes or *)
(* gives up a mutex, and changes its own wait.                             *)
(***************************************************************************)
LEMMA MutexFacts ==
  ASSUME MutexInv
  PROVE  /\ Here \in Pair /\ Here.k = k /\ Here.i = inherit
         /\ IInv /\ WaitInv /\ KernelOK(k) /\ WaitOK(k) /\ k \in KernelData
         /\ Current \in Thread
         /\ k.priority \in [Thread -> Priority] /\ Priority \subseteq Int
         /\ inherit \in InheritData /\ inherit.mutex_count \in [Thread -> Int]
         /\ NoThread \notin Thread /\ NoQueue \notin Queue
         /\ Mutexes \subseteq Queue /\ CondVars \subseteq Queue
         /\ Mutexes \cap CondVars = {}
         /\ \A x \in Mutexes : owner[x] \in Target \cup {NoThread}
<1>1. k \in KernelData /\ KernelOK(k) /\ WaitOK(k) /\ inherit \in InheritData
  BY DEF MutexInv, IInv, KernelInv, KernelOK, WaitInv, MutexTypes
<1>2. Here \in Pair /\ Here.k = k /\ Here.i = inherit
  BY <1>1 DEF Here, Pair
<1>3. /\ Current \in Thread /\ k.priority \in [Thread -> Priority]
      /\ inherit.mutex_count \in [Thread -> Int]
  BY <1>1 DEF KernelData, InheritData, Current
<1>4. Priority \subseteq Int
  BY ThreadAssumption DEF Priority
<1>5. \A x \in Mutexes : owner[x] \in Target \cup {NoThread}
  BY DEF MutexInv, MutexTypes, Owners
<1> QED
  BY <1>1, <1>2, <1>3, <1>4, <1>5, ThreadAssumption, MutexAssumption DEF MutexInv

\* A thread whose code runs.
LEMMA Runner ==
  ASSUME MutexInv, pc = "user"
  PROVE  /\ ~Gone(Current) /\ ~Sleeps(k, Current)
         /\ \A q \in Queue : k.queue[Current] # q /\ Current \notin ToSet(k.wait_queue[q])
         /\ BalancedOf(Current, inherit, owner, waits[Current].queue)
<1>1. ~Gone(Current) /\ ~Sleeps(k, Current) /\ Current \in Thread
  BY MutexFacts DEF MutexInv, RunsOn, WaitInv
<1>2. \A q \in Queue : k.queue[Current] # q
  BY <1>1, MutexFacts DEF WaitOK, WaitOKAt, Sleeps, SLEEPSET
<1>3. \A q \in Queue : Current \notin ToSet(k.wait_queue[q])
  BY <1>1, <1>2, MutexFacts DEF WaitOK, QueuedExactly
<1> QED
  BY <1>1, <1>2, <1>3 DEF MutexInv, BalancedAt

LEMMA Caller ==
  ASSUME MutexInv, NEW name, Calling(name)
  PROVE  /\ Current \in Target /\ Current \in Thread
         /\ pc = "user" /\ cont[Current] = "user"
         /\ waits[Current].queue = NoQueue /\ mutex[Current] = NoQueue
         /\ \A r \in Queue : Current \notin Woken(r)
<1>1. Current \in Target /\ Current \in Thread /\ pc = "user" /\ cont[Current] = "user"
  BY MutexFacts, CallerIsTarget DEF Calling, IInv, Target
<1>2. waits[Current].queue = NoQueue
  BY <1>1, MutexFacts DEF WaitInv, InAWait
<1>3. mutex[Current] = NoQueue
  BY <1>1, <1>2 DEF MutexInv, ClaimsAt, ClaimsOf
<1> QED
  BY <1>1, <1>2, <1>3, MutexFacts DEF Woken

OwnersMove(c) ==
  \A x \in Mutexes :
    \/ owner'[x] = owner[x]
    \/ owner[x] \in {c, NoThread} /\ owner'[x] \in {c, NoThread}

OthersRest(c) ==
  \A t \in Thread \ {c} : mutex'[t] = mutex[t] /\ waits'[t] = waits[t]

LEMMA OthersClaims ==
  ASSUME MutexInv, NEW c \in Thread, OwnersMove(c), OthersRest(c),
         \A t \in Thread \ {c} : cont'[t] = cont[t],
         mutex' \in [Thread -> Mutexes \cup {NoQueue}],
         ClaimsOf(c, waits'[c], cont'[c], mutex'[c], owner')
  PROVE  \A t \in Thread : ClaimsAt(t)'
<1> SUFFICES ASSUME NEW t \in Thread, t # c
             PROVE  ClaimsOf(t, waits'[t], cont'[t], mutex'[t], owner')
  BY DEF ClaimsAt
<1>1. ClaimsOf(t, waits[t], cont[t], mutex[t], owner)
  BY DEF MutexInv, ClaimsAt
<1>2. waits'[t] = waits[t] /\ cont'[t] = cont[t] /\ mutex'[t] = mutex[t]
  BY DEF OthersRest
<1>3. \A x \in Mutexes : owner[x] # t => owner'[x] # t
  BY MutexFacts DEF OwnersMove
<1>4. mutex[t] \in Mutexes \cup {NoQueue}
  BY DEF MutexInv, MutexTypes
<1> QED
  BY <1>1, <1>2, <1>3, <1>4 DEF ClaimsOf

LEMMA OthersBalance ==
  ASSUME MutexInv, NEW c \in Thread, OwnersMove(c), OthersRest(c),
         \A t \in Thread : Gone(t) => Gone(t)',
         \A t \in Thread \ {c} :
           /\ inherit'.mutex_count[t] = inherit.mutex_count[t]
           /\ \/ inherit'.priority_inherited[t] = inherit.priority_inherited[t]
              \/ ~Gone(t) => inherit'.mutex_count[t] # 0,
         \/ BalancedOf(c, inherit', owner', waits'[c].queue)
         \/ "EXITED" \in k'.state[c] /\ inherit'.mutex_count[c] = inherit.mutex_count[c]
  PROVE  \A t \in Thread : BalancedAt(t)' /\ inherit'.mutex_count[t] >= 0
<1>1. ASSUME NEW t \in Thread \ {c} PROVE BalancedAt(t)' /\ inherit'.mutex_count[t] >= 0
  <2>1. inherit'.mutex_count[t] >= 0
    BY <1>1 DEF MutexInv, MutexTypes
  <2>2. ASSUME ~Gone(t)' PROVE BalancedOf(t, inherit', owner', waits'[t].queue)
    <3>1. ~Gone(t) /\ BalancedOf(t, inherit, owner, waits[t].queue)
      BY <1>1, <2>2 DEF MutexInv, BalancedAt
    <3>2. \A y \in Mutexes : (owner'[y] = t \/ waits'[t].queue = y)
                               <=> (owner[y] = t \/ waits[t].queue = y)
      BY <1>1, MutexFacts DEF OwnersMove, OthersRest
    <3> QED
      BY <1>1, <3>1, <3>2, SameHolding
  <2> QED
    BY <2>1, <2>2 DEF BalancedAt
<1>2. BalancedAt(c)' /\ inherit'.mutex_count[c] >= 0
  <2>1. CASE BalancedOf(c, inherit', owner', waits'[c].queue)
    <3>1. inherit'.mutex_count[c] \in Nat
      BY <2>1, FS_CardinalityType DEF BalancedOf
    <3> QED
      BY <2>1, <3>1 DEF BalancedAt
  <2>2. CASE /\ "EXITED" \in k'.state[c]
             /\ inherit'.mutex_count[c] = inherit.mutex_count[c]
    BY <2>2 DEF BalancedAt, Gone, MutexInv, MutexTypes
  <2> QED
    BY <2>1, <2>2
<1> QED
  BY <1>1, <1>2

\* What the queues and the threads woken from them do.
QueueKept(x, c) ==
  /\ Woken(x) \ {c} \subseteq Woken(x)'
  /\ ToSet(k'.wait_queue[x]) \ {c} \subseteq ToSet(k.wait_queue[x])

LEMMA GuardedStep ==
  ASSUME MutexInv, NEW c \in Thread, NEW x \in Mutexes, OwnersMove(c),
         QueueKept(x, c), changes' = 0 => changes = 0,
         k' \in KernelData, asked' \in [Thread -> Priority],
         \A t \in Thread \ {c} :
           asked'[t] = asked[t] /\ k'.priority[t] <= k.priority[t],
         Protocol[x] = "INHERIT" =>
           /\ c \in ToSet(k'.wait_queue[x]) =>
                \E v \in Guards(x)' : k'.priority[v] <= asked'[c]
           /\ c \in Guards(x) /\ k'.wait_queue[x] # <<>> =>
                \E v \in Guards(x)' : k'.priority[v] <= k.priority[c]
  PROVE  Guarded(x)'
<1> SUFFICES ASSUME changes' = 0, Protocol[x] = "INHERIT",
                    NEW t \in ToSet(k'.wait_queue[x])
             PROVE  \E v \in Guards(x)' : k'.priority[v] <= asked'[t]
  BY DEF Guarded
<1>1. CASE t = c
  BY <1>1
<1>2. CASE t # c
  <2>1. t \in ToSet(k.wait_queue[x]) /\ x \in Queue /\ k \in KernelData
    BY <1>2, MutexFacts DEF QueueKept
  <2>2. t \in Thread /\ asked'[t] = asked[t]
    <3>1. t \in Thread
      BY <2>1, MutexFacts DEF WaitOK, QueuedExactly
    <3> QED
      BY <1>2, <3>1
  <2>3. PICK u \in Guards(x) : k.priority[u] <= asked[t]
    BY <2>1 DEF MutexInv, Guarded
  <2>4. u \in Thread
    BY <2>3, MutexFacts DEF Guards, Woken, Target
  <2>5. /\ asked[t] \in Int /\ k.priority[u] \in Int
        /\ \A v \in Thread : k'.priority[v] \in Int
    BY <2>2, <2>4, MutexFacts DEF MutexInv, MutexTypes, KernelData
  <2>7. CASE u = c
    <3>1. k'.wait_queue[x] # <<>>
      BY EmptyList
    <3>2. PICK v \in Guards(x)' : k'.priority[v] <= k.priority[c]
      BY <2>3, <2>7, <3>1
    <3>3. v \in Thread
      BY <3>2, <2>1, MutexFacts DEF Guards, Woken, OwnersMove, Target
    <3> QED
      BY <2>2, <2>3, <2>5, <2>7, <3>2, <3>3
  <2>8. CASE u # c
    <3>1. u \in Guards(x)'
      BY <2>3, <2>4, <2>8, MutexFacts DEF Guards, QueueKept, OwnersMove
    <3>2. k'.priority[u] <= k.priority[u]
      BY <2>4, <2>8
    <3> QED
      BY <2>2, <2>3, <2>4, <2>5, <3>1, <3>2
  <2> QED
    BY <2>7, <2>8
<1> QED
  BY <1>1, <1>2

LEMMA AttendedStep ==
  ASSUME MutexInv, NEW c \in Thread, NEW x \in Mutexes,
         QueueKept(x, c), k' \in KernelData,
         owner'[x] = NoThread /\ k'.wait_queue[x] # <<>> =>
           \/ /\ owner[x] = NoThread
              /\ c \notin ToSet(k'.wait_queue[x]) /\ c \notin Woken(x)
           \/ Woken(x)' # {}
  PROVE  Attended(x)'
<1> SUFFICES ASSUME owner'[x] = NoThread, k'.wait_queue[x] # <<>>
             PROVE  Woken(x)' # {}
  BY DEF Attended, Free
<1>1. CASE /\ owner[x] = NoThread
           /\ c \notin ToSet(k'.wait_queue[x]) /\ c \notin Woken(x)
  <2>1. k.wait_queue[x] # <<>>
    BY <1>1, MutexFacts, StillQueued DEF QueueKept
  <2>2. Woken(x) # {}
    BY <1>1, <2>1 DEF MutexInv, Attended, Free
  <2> QED
    BY <1>1, <2>2 DEF QueueKept
<1> QED
  BY <1>1

LEMMA StillRuns ==
  ASSUME MutexInv, pc = "user", Sound(k, k'),
         \A t \in Thread : "EXITED" \in k'.state[t] <=> "EXITED" \in k.state[t]
  PROVE  RunsOn'
<1>1. Current' = Current /\ Current \in Thread /\ ~Gone(Current)
  BY MutexFacts, Runner DEF Sound, Current
<1>2. "EXITED" \notin k'.state[Current']
  BY <1>1 DEF Gone
<1> QED
  BY <1>2 DEF RunsOn, Gone

------------------------------------------------------------------------------
(***************************************************************************)
(* The refinement.  To the monitor a step is what it does to the place of  *)
(* the thread that takes it (MovesItself), or quiet: some threads that     *)
(* wait are woken, or one dies.                                            *)
(***************************************************************************)
Follows == [Promise!Next]_Promise!monitor

\* Who sleeps in a wait is on its queue.
QueuedAsleep ==
  \A t \in Thread, q \in Queue :
    /\ t \in ToSet(k.wait_queue[q]) <=> waits[t].queue = q /\ Asleep(t)
    /\ k.queue[t] = q <=> t \in ToSet(k.wait_queue[q])

LEMMA WaitersAsleep == WaitInv => QueuedAsleep
BY ExactWaiters DEF WaitersExact, QueuedAsleep

LEMMA WaitersAsleepNext == WaitInv' => QueuedAsleep'
BY WaitersAsleep, PTL

\* The place of a thread, and the mutex it wants, from what they depend on.
PlaceOf(gone, asleep, m, q) ==
  IF gone THEN "dead"
  ELSE IF m # NoQueue
  THEN IF asleep /\ q \in CondVars THEN "waiting" ELSE "returning"
  ELSE IF q \in Mutexes THEN "entering" ELSE "outside"

WantedOf(gone, m, q) ==
  IF gone THEN NoQueue
  ELSE IF m # NoQueue THEN m
  ELSE IF q \in Mutexes THEN q ELSE NoQueue

Seen ==
  \A t \in Thread : /\ Place(t) = PlaceOf(Gone(t), Asleep(t), mutex[t], waits[t].queue)
                    /\ Wanted(t) = WantedOf(Gone(t), mutex[t], waits[t].queue)

LEMMA PlaceSeen == Seen
<1> SUFFICES ASSUME NEW t \in Thread
             PROVE  /\ Place(t) = PlaceOf(Gone(t), Asleep(t), mutex[t], waits[t].queue)
                    /\ Wanted(t) = WantedOf(Gone(t), mutex[t], waits[t].queue)
  BY DEF Seen
<1>1. CASE Gone(t)
  BY <1>1 DEF Place, Wanted, PlaceOf, WantedOf
<1>2. CASE ~Gone(t) /\ mutex[t] # NoQueue
  BY <1>2 DEF Place, Wanted, PlaceOf, WantedOf
<1>3. CASE ~Gone(t) /\ mutex[t] = NoQueue
  BY <1>3 DEF Place, Wanted, PlaceOf, WantedOf
<1> QED
  BY <1>1, <1>2, <1>3

LEMMA PlaceSeenNext == Seen'
BY PlaceSeen, PTL

\* Thread t keeps its place, or is woken from its wait.
Stayed(t) == Place(t)' = Place(t) /\ Wanted(t)' = Wanted(t)

Roused(t) ==
  /\ Place(t) = "waiting"
  /\ Place(t)' = "returning"
  /\ Wanted(t)' = Wanted(t)

LEMMA AllRoused ==
  ASSUME UNCHANGED owner, \A t \in Thread : Stayed(t) \/ Roused(t)
  PROVE  Follows
<1> DEFINE S == {t \in Thread : Roused(t)}
           p == [t \in Thread |-> Place(t)]
           w == [t \in Thread |-> Wanted(t)]
<1>1. p' = [t \in Thread |-> IF t \in S THEN "returning" ELSE p[t]]
  BY DEF Stayed, Roused
<1>2. w' = w
  BY DEF Stayed, Roused
<1>3. \A t \in S : p[t] = "waiting"
  BY DEF Roused
<1>4. S \in SUBSET Thread
  OBVIOUS
<1> HIDE DEF S
<1>5. Promise!WakeUp(S)
  BY <1>1, <1>2, <1>3 DEF Promise!WakeUp
<1> QED
  BY <1>4, <1>5 DEF Follows, Promise!Next, Promise!monitor

\* Every other thread keeps its place.
LEMMA OneMoves ==
  ASSUME NEW c \in Thread, \A t \in Thread \ {c} : Stayed(t)
  PROVE  Promise!Move(c, Place(c)', Wanted(c)')
BY DEF Stayed, Promise!Move

LEMMA SamePlace ==
  ASSUME NEW t \in Thread, mutex'[t] = mutex[t], waits'[t].queue = waits[t].queue,
         Gone(t)' <=> Gone(t),
         waits[t].queue \in CondVars => (Asleep(t)' <=> Asleep(t))
  PROVE  Stayed(t)
BY PlaceSeen, PlaceSeenNext DEF Seen, Stayed, PlaceOf, WantedOf

\* A step that moves no thread to another mutex: who waits sleeps on or is
\* woken, or a thread dies.
LEMMA QuietFollows ==
  ASSUME MutexInv, WaitInv', Fate, UNCHANGED <<owner, mutex>>,
         NEW c \in Thread, OthersRest(c),
         \/ waits'[c].queue = waits[c].queue
         \/ mutex[c] # NoQueue /\ ~Asleep(c) /\ waits'[c].queue = NoQueue
         \/ Gone(c)',
         \A r \in CondVars : ToSet(k'.wait_queue[r]) \subseteq ToSet(k.wait_queue[r])
  PROVE  Follows
<1>1. QueuedAsleep /\ QueuedAsleep' /\ CondVars \subseteq Queue /\ NoQueue \notin CondVars
  BY WaitersAsleep, WaitersAsleepNext, MutexFacts DEF MutexInv
<1>2. ASSUME NEW t \in Thread, Gone(t)' <=> Gone(t)
      PROVE  Stayed(t) \/ Roused(t)
  <2>1. CASE waits'[t].queue = waits[t].queue
    <3>1. ASSUME waits[t].queue \in CondVars, Asleep(t)' PROVE Asleep(t)
      BY <1>1, <2>1, <3>1 DEF QueuedAsleep
    <3>2. mutex'[t] = mutex[t]
      OBVIOUS
    <3> QED
      BY <1>2, <2>1, <3>1, <3>2, PlaceSeen, PlaceSeenNext
      DEF Seen, Stayed, Roused, PlaceOf, WantedOf
  <2>2. CASE waits'[t].queue # waits[t].queue
    <3>1. t = c /\ mutex'[t] = mutex[t]
      BY <2>2 DEF OthersRest
    <3>2. CASE mutex[c] # NoQueue /\ ~Asleep(c) /\ waits'[c].queue = NoQueue
      BY <1>1, <1>2, <3>1, <3>2, PlaceSeen, PlaceSeenNext
      DEF Seen, Stayed, PlaceOf, WantedOf
    <3>3. CASE Gone(c)'
      BY <1>2, <3>1, <3>3, PlaceSeen, PlaceSeenNext
      DEF Seen, Stayed, PlaceOf, WantedOf
    <3> QED
      BY <2>2, <3>1, <3>2, <3>3
  <2> QED
    BY <2>1, <2>2
<1>3. CASE Steady(k, k')
  <2>1. \A t \in Thread : Gone(t)' <=> Gone(t)
    BY <1>3 DEF Steady, Gone
  <2> QED
    BY <1>2, <2>1, AllRoused
<1>4. ASSUME NEW t \in Target, Dies(k, k', t) PROVE Follows
  <2>1. t \in Thread
    BY DEF Target
  <2>2. \A u \in Thread \ {t} : (Gone(u)' <=> Gone(u)) /\ (Asleep(u)' <=> Asleep(u))
    BY <1>4 DEF Dies, Gone, Asleep
  <2>3. \A u \in Thread \ {t} : Stayed(u)
    <3> SUFFICES ASSUME NEW u \in Thread \ {t} PROVE Stayed(u)
      OBVIOUS
    <3>1. Stayed(u) \/ Roused(u)
      BY <1>2, <2>2
    <3>2. ASSUME Roused(u) PROVE FALSE
      <4>1. mutex[u] # NoQueue /\ Asleep(u) /\ waits[u].queue \in CondVars /\ ~Gone(u)
        BY <3>2, PlaceSeen DEF Roused, Seen, PlaceOf
      <4>2. Asleep(u)' /\ ~Gone(u)' /\ mutex'[u] = mutex[u]
        BY <2>2, <4>1
      <4>3. waits'[u].queue = waits[u].queue
        BY <4>1, <4>2 DEF OthersRest
      <4> QED
        BY <3>2, <4>1, <4>2, <4>3, PlaceSeenNext DEF Roused, Seen, PlaceOf
    <3> QED
      BY <3>1, <3>2
  <2>4. Place(t) # "waiting" /\ Place(t)' = "dead" /\ Wanted(t)' = NoQueue
    <3>1. ~Asleep(t) /\ Gone(t)'
      BY <1>4 DEF Dies, Gone, Asleep
    <3> QED
      BY <2>1, <3>1, PlaceSeen, PlaceSeenNext DEF Seen, PlaceOf, WantedOf
  <2>5. Promise!Move(t, "dead", NoQueue)
    BY <2>1, <2>3, <2>4, OneMoves
  <2>6. Promise!Die(t)
    BY <2>1, <2>4, <2>5 DEF Promise!Die
  <2> QED
    BY <2>1, <2>6 DEF Follows, Promise!Next
<1> QED
  BY <1>3, <1>4 DEF Fate

\* Of the other threads only those queued on a mutex may be woken.
Apart(d, e, c) ==
  /\ \A u \in Thread : "EXITED" \in e.state[u] <=> "EXITED" \in d.state[u]
  /\ \A u \in Thread \ {c} : d.queue[u] \notin Mutexes => e.state[u] = d.state[u]

LEMMA OthersStay ==
  ASSUME MutexInv, WaitInv', NEW c \in Thread, OthersRest(c), Apart(k, k', c)
  PROVE  \A u \in Thread \ {c} : Stayed(u)
<1> SUFFICES ASSUME NEW u \in Thread \ {c} PROVE Stayed(u)
  OBVIOUS
<1>1. Gone(u)' <=> Gone(u)
  BY DEF Apart, Gone
<1>2. ASSUME waits[u].queue \in CondVars PROVE Asleep(u)' <=> Asleep(u)
  <2>1. k.queue[u] \notin Mutexes
    BY <1>2, WaitersAsleep, MutexFacts DEF MutexInv, QueuedAsleep
  <2> QED
    BY <2>1 DEF Apart, Asleep
<1>3. mutex'[u] = mutex[u] /\ waits'[u].queue = waits[u].queue
  BY DEF OthersRest
<1> QED
  BY <1>1, <1>2, <1>3, SamePlace

\* What the thread itself does, by its place before and after.
LEMMA MovesItself ==
  ASSUME MutexInv, WaitInv', NEW c \in Thread, OthersRest(c), Apart(k, k', c), ~Gone(c)
  PROVE  /\ Promise!Move(c, PlaceOf(FALSE, Asleep(c)', mutex'[c], waits'[c].queue),
                            WantedOf(FALSE, mutex'[c], waits'[c].queue))
         /\ Place(c) = PlaceOf(FALSE, Asleep(c), mutex[c], waits[c].queue)
         /\ Wanted(c) = WantedOf(FALSE, mutex[c], waits[c].queue)
<1>1. ~Gone(c)'
  BY DEF Apart, Gone
<1>2. /\ Place(c)' = PlaceOf(FALSE, Asleep(c)', mutex'[c], waits'[c].queue)
      /\ Wanted(c)' = WantedOf(FALSE, mutex'[c], waits'[c].queue)
  BY <1>1, PlaceSeenNext DEF Seen, PlaceOf, WantedOf
<1>3. Promise!Move(c, Place(c)', Wanted(c)')
  BY OthersStay, OneMoves
<1> QED
  BY <1>2, <1>3, PlaceSeen DEF Seen, PlaceOf, WantedOf

\* Thread c, which runs, takes the free mutex x ...
LEMMA TakesIt ==
  ASSUME MutexInv, WaitInv', pc = "user", NEW c \in Thread, c = Current,
         OthersRest(c), Apart(k, k', c), NEW x \in Mutexes, Free(x),
         owner' = [owner EXCEPT ![x] = c], waits[c].queue \in {NoQueue, x},
         mutex[c] \in {NoQueue, x}, mutex'[c] = NoQueue, waits'[c].queue = NoQueue
  PROVE  Follows
<1>1. ~Gone(c) /\ NoQueue \notin Mutexes /\ x \notin CondVars /\ NoQueue \notin CondVars
  BY Runner, MutexFacts
<1>2. /\ Promise!Move(c, "outside", NoQueue)
      /\ \/ Place(c) = "outside"
         \/ Place(c) \in {"entering", "returning"} /\ Wanted(c) = x
  BY <1>1, MovesItself DEF PlaceOf, WantedOf
<1>3. Promise!Acquire(c, x)
  BY <1>2 DEF Promise!Acquire, Free
<1> QED
  BY <1>3 DEF Follows, Promise!Next

\* ... or asks for the mutex x of another, or still does ...
LEMMA AsksForIt ==
  ASSUME MutexInv, WaitInv', pc = "user", NEW c \in Thread, c = Current,
         OthersRest(c), Apart(k, k', c), NEW x \in Mutexes, owner[x] \notin {c, NoThread},
         UNCHANGED <<owner, mutex>>, waits[c].queue \in {NoQueue, x},
         mutex[c] \in {NoQueue, x}, waits'[c].queue = x
  PROVE  Follows
<1>1. ~Gone(c) /\ NoQueue \notin Mutexes /\ x \notin CondVars /\ NoQueue \notin CondVars
  BY Runner, MutexFacts
<1>2. CASE mutex[c] = NoQueue /\ waits[c].queue = NoQueue
  <2>1. Place(c) = "outside" /\ Promise!Move(c, "entering", x)
    BY <1>1, <1>2, MovesItself DEF PlaceOf, WantedOf
  <2>2. Promise!Ask(c, x)
    BY <2>1 DEF Promise!Ask
  <2> QED
    BY <2>2 DEF Follows, Promise!Next
<1>3. CASE mutex[c] = x \/ waits[c].queue = x
  <2>1. Stayed(c)
    <3>1. ~Gone(c)'
      BY <1>1 DEF Apart, Gone
    <3> QED
      BY <1>1, <1>3, <3>1, PlaceSeen, PlaceSeenNext
      DEF Seen, Stayed, PlaceOf, WantedOf
  <2> QED
    BY <2>1, OthersStay, AllRoused
<1> QED
  BY <1>2, <1>3

\* ... or gives up its own mutex x, and maybe begins to wait.
LEMMA LeavesIt ==
  ASSUME MutexInv, WaitInv', pc = "user", NEW c \in Thread, c = Current,
         OthersRest(c), Apart(k, k', c), NEW x \in Mutexes, owner[x] = c,
         owner' = [owner EXCEPT ![x] = NoThread],
         waits[c].queue = NoQueue, mutex[c] = NoQueue,
         \/ mutex'[c] = NoQueue /\ waits'[c].queue = NoQueue
         \/ mutex'[c] = x /\ waits'[c].queue \in CondVars
  PROVE  Follows
<1>1. ~Gone(c) /\ NoQueue \notin Mutexes /\ x \notin CondVars /\ NoQueue \notin CondVars
  BY Runner, MutexFacts
<1>2. Place(c) = "outside" /\ Wanted(c) = NoQueue
  BY <1>1, MovesItself DEF PlaceOf, WantedOf
<1>3. CASE mutex'[c] = NoQueue /\ waits'[c].queue = NoQueue
  <2>1. Stayed(c)
    <3>1. ~Gone(c)'
      BY <1>1 DEF Apart, Gone
    <3> QED
      BY <1>1, <1>2, <1>3, <3>1, PlaceSeenNext DEF Seen, Stayed, PlaceOf, WantedOf
  <2>2. \A u \in Thread : Stayed(u)
    BY <2>1, OthersStay
  <2>3. Promise!Release(c, x)
    BY <1>2, <2>2 DEF Promise!Release, Stayed
  <2> QED
    BY <2>3 DEF Follows, Promise!Next
<1>4. CASE mutex'[c] = x /\ waits'[c].queue \in CondVars
  <2>1. \E p \in {"waiting", "returning"} : Promise!Move(c, p, x)
    BY <1>1, <1>4, MovesItself DEF PlaceOf, WantedOf
  <2>2. Promise!Wait(c, x)
    BY <1>2, <2>1 DEF Promise!Wait
  <2> QED
    BY <2>2 DEF Follows, Promise!Next
<1> QED
  BY <1>3, <1>4

\* A thread that asked for a mutex goes away without it, or asks again.
LEMMA GoesAway ==
  ASSUME MutexInv, WaitInv', pc = "user", NEW c \in Thread, c = Current,
         OthersRest(c), Apart(k, k', c), UNCHANGED <<owner, mutex>>,
         waits[c].queue \in Mutexes, waits'[c].queue = NoQueue
  PROVE  Follows
<1>1. ~Gone(c) /\ NoQueue \notin Mutexes /\ NoQueue \notin CondVars
      /\ Mutexes \cap CondVars = {}
  BY Runner, MutexFacts
<1>2. CASE mutex[c] = NoQueue
  <2>1. Place(c) = "entering" /\ Promise!Move(c, "outside", NoQueue)
    BY <1>1, <1>2, MovesItself DEF PlaceOf, WantedOf
  <2>2. Promise!GiveUp(c)
    BY <2>1 DEF Promise!GiveUp
  <2> QED
    BY <2>2 DEF Follows, Promise!Next
<1>3. CASE mutex[c] # NoQueue
  <2>1. Stayed(c)
    <3>1. ~Gone(c)'
      BY <1>1 DEF Apart, Gone
    <3> QED
      BY <1>1, <1>3, <3>1, PlaceSeen, PlaceSeenNext
      DEF Seen, Stayed, PlaceOf, WantedOf
  <2> QED
    BY <2>1, OthersStay, AllRoused
<1> QED
  BY <1>2, <1>3

------------------------------------------------------------------------------
(***************************************************************************)
(* Every step keeps MutexInv and follows the monitor.                      *)
(***************************************************************************)
\* Steps that change no owner and no priority.
LEMMA QuietInv ==
  ASSUME MutexInv, IInv', WaitInv', Fate, RunsOn',
         UNCHANGED <<owner, mutex, inherit, base, asked, changes>>,
         \A t \in Thread : ClaimsAt(t)',
         NEW c \in Thread, OthersRest(c),
         \/ waits'[c].queue = waits[c].queue
         \/ /\ waits[c].queue \notin Mutexes /\ mutex[c] # NoQueue /\ ~Asleep(c)
            /\ waits'[c].queue = NoQueue
         \/ "EXITED" \in k'.state[c],
         \A x \in Mutexes : Woken(x) \subseteq Woken(x)',
         \A r \in Queue : ToSet(k'.wait_queue[r]) \subseteq ToSet(k.wait_queue[r])
  PROVE  MutexInv' /\ Follows
<1>1. /\ k'.priority = k.priority
      /\ \A t \in Thread : Gone(t) => Gone(t)'
  <2>1. CASE Steady(k, k')
    BY <2>1 DEF Steady, Gone
  <2>2. ASSUME NEW t \in Target, Dies(k, k', t)
        PROVE  /\ k'.priority = k.priority
               /\ \A u \in Thread : Gone(u) => Gone(u)'
    BY <2>2 DEF Dies, Gone
  <2> QED
    BY <2>1, <2>2 DEF Fate
<1>2. \A t \in Thread : BalancedAt(t)'
  <2>1. \/ BalancedOf(c, inherit', owner', waits'[c].queue)
        \/ "EXITED" \in k'.state[c]
    <3> SUFFICES ASSUME "EXITED" \notin k'.state[c]
                 PROVE  BalancedOf(c, inherit', owner', waits'[c].queue)
      OBVIOUS
    <3>1. ~Gone(c)
      BY <1>1 DEF Gone
    <3>2. BalancedOf(c, inherit, owner, waits[c].queue)
      BY <3>1 DEF MutexInv, BalancedAt
    <3>3. \A y \in Mutexes : (owner[y] = c \/ waits'[c].queue = y)
                               <=> (owner[y] = c \/ waits[c].queue = y)
      BY MutexFacts
    <3> QED
      BY <3>2, <3>3, SameHolding
  <2>2. OwnersMove(c)
    BY DEF OwnersMove
  <2> QED
    BY <1>1, <2>1, <2>2, OthersBalance
<1>3. GivenBack(Here, base)'
  BY <1>1, MutexFacts DEF MutexInv, GivenBack, Here
<1>4. ASSUME NEW x \in Mutexes PROVE Guarded(x)' /\ Attended(x)'
  <2>1. /\ Guarded(x) /\ Attended(x)
        /\ Woken(x) \subseteq Woken(x)'
        /\ ToSet(k'.wait_queue[x]) \subseteq ToSet(k.wait_queue[x])
    BY MutexFacts DEF MutexInv
  <2>2. Guards(x) \subseteq Guards(x)'
    BY <2>1 DEF Guards
  <2>3. Guarded(x)'
    BY <1>1, <2>1, <2>2 DEF Guarded
  <2>4. k'.wait_queue[x] # <<>> => k.wait_queue[x] # <<>>
    BY <2>1, MutexFacts, StillQueued DEF IInv, KernelInv, KernelOK
  <2>5. Attended(x)'
    BY <2>1, <2>4 DEF Attended, Free
  <2> QED
    BY <2>3, <2>5
<1>5. MutexTypes'
  BY DEF MutexInv, MutexTypes
<1>6. MutexInv'
  BY <1>2, <1>3, <1>4, <1>5 DEF MutexInv
<1>7. Follows
  BY MutexFacts, QuietFollows DEF Gone
<1> QED
  BY <1>6, <1>7

\* Of a step that leaves the data as d, the inheritance changes of thread c
\* alone.
Mine(d, c) ==
  /\ Adjusts(Here, d)
  /\ \A u \in Thread \ {c} :
       /\ d.i.mutex_count[u] = inherit.mutex_count[u]
       /\ d.i.priority_inherited[u] = inherit.priority_inherited[u]
       /\ d.k.priority[u] = k.priority[u]
  /\ d.k.priority[c] <= k.priority[c]

LEMMA MineFacts ==
  ASSUME MutexInv, NEW d, NEW c, Mine(d, c)
  PROVE  /\ d \in Pair /\ d.k \in KernelData /\ d.i \in InheritData
         /\ Sound(k, d.k) /\ Kept(k, d.k) /\ KernelOK(d.k) /\ WaitOK(d.k)
         /\ d.k.state = k.state
         /\ GivenBack(d, base)
<1>1. /\ d \in Pair /\ Sound(k, d.k) /\ Kept(k, d.k) /\ d.k.state = k.state
      /\ \A b \in [Thread -> Priority] : GivenBack(Here, b) => GivenBack(d, b)
  BY MutexFacts DEF Mine, Adjusts, Honest
<1>2. GivenBack(d, base)
  BY <1>1 DEF MutexInv, MutexTypes
<1> QED
  BY <1>1, <1>2, PairKernel DEF Sound, Kept

\* Thread c becomes the owner of the free mutex x, which counts for it.
LEMMA Acquired ==
  ASSUME MutexInv, pc = "user", IInv', WaitInv',
         NEW c \in Target, c = Current, NEW x \in Mutexes, Free(x),
         NEW d, Mine(d, c), k' = d.k, inherit' = d.i,
         BalancedOf(c, d.i, owner', waits'[c].queue),
         owner' = [owner EXCEPT ![x] = c],
         mutex' \in [Thread -> Mutexes \cup {NoQueue}], mutex'[c] = NoQueue,
         waits'[c].queue = NoQueue, cont'[c] = "user", OthersRest(c),
         \A t \in Thread \ {c} : cont'[t] = cont[t],
         UNCHANGED <<base, asked, changes>>,
         waits[c].queue \in {NoQueue, x}, mutex[c] \in {NoQueue, x}, NobodyLost({c})
  PROVE  MutexInv' /\ Follows
<1>1. c \in Thread /\ c # NoThread /\ NoQueue \notin Mutexes
  BY MutexFacts DEF Target
<1>2. owner \in Owners /\ owner' \in Owners /\ owner'[x] = c /\ owner[x] = NoThread
  BY DEF MutexInv, MutexTypes, Owners, Free
<1>3. OwnersMove(c)
  BY <1>2 DEF OwnersMove, Owners
<1>4. RunsOn'
  BY StillRuns, MineFacts
<1>5. \A t \in Thread : ClaimsAt(t)'
  <2>1. ClaimsOf(c, waits'[c], cont'[c], mutex'[c], owner')
    BY <1>1, MutexFacts DEF ClaimsOf
  <2> QED
    BY <1>1, <1>3, <2>1, OthersClaims
<1>6. \A t \in Thread : BalancedAt(t)' /\ inherit'.mutex_count[t] >= 0
  <2>1. BalancedOf(c, inherit', owner', waits'[c].queue)
    OBVIOUS
  <2>2. \A t \in Thread : Gone(t) => Gone(t)'
    BY MineFacts DEF Gone
  <2> QED
    BY <1>1, <1>3, <2>1, <2>2, OthersBalance DEF Mine
<1>7. GivenBack(Here, base)'
  BY MineFacts DEF GivenBack, Here
<1>8. ASSUME NEW y \in Mutexes PROVE Guarded(y)' /\ Attended(y)'
  <2>1. /\ QueueKept(y, c) /\ y \in Queue /\ k' \in KernelData
        /\ ToSet(k'.wait_queue[y]) \subseteq ToSet(k.wait_queue[y])
    BY MineFacts, MutexFacts DEF NobodyLost, QueueKept
  <2>2. c \notin ToSet(k.wait_queue[y])
    BY <2>1, Runner
  <2>3. c \in Guards(y) => c \in Guards(y)' 
    <3>1. CASE y = x
      BY <1>1, <1>2, <3>1 DEF Guards
    <3>2. CASE y # x
      <4>1. c \notin Woken(y)
        BY <2>1, <3>2, MutexFacts DEF Woken
      <4>2. owner'[y] = owner[y]
        BY <1>2, <3>2 DEF Owners
      <4> QED
        BY <4>1, <4>2 DEF Guards
    <3> QED
      BY <3>1, <3>2
  <2>4. Guarded(y)'
    <3>1. \A t \in Thread \ {c} :
            asked'[t] = asked[t] /\ k'.priority[t] <= k.priority[t]
      BY MutexFacts DEF Mine
    <3>2. asked' \in [Thread -> Priority] /\ k'.priority[c] <= k.priority[c]
      BY DEF MutexInv, MutexTypes, Mine
    <3> QED
      BY <1>1, <1>3, <2>1, <2>2, <2>3, <3>1, <3>2, GuardedStep
  <2>5. Attended(y)'
    <3>1. CASE y = x
      BY <1>1, <1>2, <3>1 DEF Attended, Free
    <3>2. CASE y # x
      <4>1. owner'[y] = owner[y] /\ c \notin Woken(y)
        BY <1>2, <2>1, <3>2, MutexFacts DEF Owners, Woken
      <4> QED
        BY <1>1, <2>1, <2>2, <4>1, AttendedStep
    <3> QED
      BY <3>1, <3>2
  <2> QED
    BY <2>4, <2>5
<1>9. MutexTypes'
  BY <1>2, <1>6, MineFacts DEF MutexInv, MutexTypes
<1>10. MutexInv'
  BY <1>4, <1>5, <1>6, <1>7, <1>8, <1>9 DEF MutexInv
<1>11. Follows
  <2>1. Apart(k, k', c)
    BY MineFacts DEF Apart
  <2> QED
    BY <1>1, <2>1, TakesIt
<1> QED
  BY <1>10, <1>11

\* The data, d when thread c found the mutex x taken, is e when it sleeps.
PassedOn(d, e, x, c) ==
  /\ Honest(Here, e)
  /\ \A t \in Thread : "EXITED" \in e.k.state[t] <=> "EXITED" \in k.state[t]
  /\ Alone(k, e.k, c)
  /\ e.i.mutex_count = d.i.mutex_count
  /\ \A u \in Thread \ {owner[x]} :
       /\ e.i.priority_inherited[u] = d.i.priority_inherited[u]
       /\ e.k.priority[u] = d.k.priority[u]
  /\ e.k.priority[owner[x]] <= d.k.priority[owner[x]]
  /\ Protocol[x] = "INHERIT" => e.k.priority[owner[x]] <= d.k.priority[c]
  /\ Protocol[x] # "INHERIT" =>
       e.i.priority_inherited[owner[x]] = d.i.priority_inherited[owner[x]]

\* Thread c goes to sleep for the mutex x, which another thread owns.
LEMMA BlockedInv ==
  ASSUME MutexInv, pc = "user", pc' = "unlock", IInv', WaitInv',
         NEW c \in Target, c = Current, NEW x \in Mutexes, owner[x] \in Target \ {c},
         NEW d, Mine(d, c), NEW e, PassedOn(d, e, x, c), k' = e.k, inherit' = e.i,
         BalancedOf(c, e.i, owner, waits'[c].queue),
         waits[c].queue \in {NoQueue, x}, waits'[c].queue = x,
         mutex[c] \in {NoQueue, x}, cont'[c] = "wait",
         OthersRest(c), \A t \in Thread \ {c} : cont'[t] = cont[t],
         asked' = [asked EXCEPT ![c] = d.k.priority[c]],
         UNCHANGED <<owner, mutex, base, changes>>,
         \A r \in Queue : /\ Stays(r)
                          /\ r # x => ToSet(k'.wait_queue[r])
                                        \subseteq ToSet(k.wait_queue[r])
  PROVE  MutexInv' /\ Follows
<1>1. /\ c \in Thread /\ c # NoThread /\ NoQueue \notin Mutexes /\ x \in Queue
      /\ owner[x] \in Thread /\ owner[x] # NoThread /\ owner[x] # c
  BY MutexFacts DEF Target
<1>2. OwnersMove(c)
  BY DEF OwnersMove
<1>0. /\ Honest(Here, e)
      /\ \A t \in Thread : "EXITED" \in e.k.state[t] <=> "EXITED" \in k.state[t]
      /\ e.i.mutex_count = d.i.mutex_count
      /\ \A u \in Thread \ {owner[x]} :
           /\ e.i.priority_inherited[u] = d.i.priority_inherited[u]
           /\ e.k.priority[u] = d.k.priority[u]
      /\ e.k.priority[owner[x]] <= d.k.priority[owner[x]]
      /\ Protocol[x] = "INHERIT" => e.k.priority[owner[x]] <= d.k.priority[c]
      /\ Protocol[x] # "INHERIT" =>
           e.i.priority_inherited[owner[x]] = d.i.priority_inherited[owner[x]]
  BY DEF PassedOn
<1>3. /\ e \in Pair /\ Sound(k, e.k) /\ e.k \in KernelData /\ e.i \in InheritData
      /\ GivenBack(e, base)
  <2>1. e \in Pair /\ Sound(k, e.k)
    BY <1>0, MutexFacts DEF Honest
  <2>2. GivenBack(e, base)
    BY <1>0 DEF Honest, MutexInv, MutexTypes
  <2> QED
    BY <2>1, <2>2, PairKernel
<1>4. RunsOn'
  BY DEF RunsOn
<1>5. \A t \in Thread : ClaimsAt(t)'
  <2>1. ClaimsOf(c, waits'[c], cont'[c], mutex'[c], owner')
    BY <1>1, MutexFacts DEF ClaimsOf
  <2> QED
    BY <1>1, <1>2, <2>1, OthersClaims DEF MutexInv, MutexTypes
<1>6. \A t \in Thread : BalancedAt(t)' /\ inherit'.mutex_count[t] >= 0
  <2>1. \A t \in Thread : Gone(t) => Gone(t)'
    BY <1>0 DEF Gone
  <2>2. ASSUME NEW t \in Thread \ {c}
        PROVE  /\ inherit'.mutex_count[t] = inherit.mutex_count[t]
               /\ \/ inherit'.priority_inherited[t] = inherit.priority_inherited[t]
                  \/ ~Gone(t) => inherit'.mutex_count[t] # 0
    <3>1. /\ inherit'.mutex_count[t] = inherit.mutex_count[t]
          /\ d.i.priority_inherited[t] = inherit.priority_inherited[t]
      BY <1>0, <2>2 DEF Mine
    <3>2. CASE t # owner[x] \/ Protocol[x] # "INHERIT"
      BY <1>0, <2>2, <3>1, <3>2
    <3>3. CASE t = owner[x] /\ Protocol[x] = "INHERIT"
      <4>1. ASSUME ~Gone(t) PROVE inherit.mutex_count[t] # 0
        <5>1. BalancedOf(t, inherit, owner, waits[t].queue)
          BY <2>2, <4>1 DEF MutexInv, BalancedAt
        <5>2. inherit.mutex_count[t] \in Nat /\ inherit.mutex_count[t] > 0
          BY <3>3, <5>1, HolderCounts DEF Active
        <5> QED
          BY <5>2
      <4> QED
        BY <3>1, <4>1
    <3> QED
      BY <3>2, <3>3
  <2> QED
    BY <1>1, <1>2, <2>1, <2>2, OthersBalance
<1>7. GivenBack(Here, base)'
  BY <1>3 DEF GivenBack, Here
<1>8. /\ k.priority \in [Thread -> Priority] /\ k'.priority \in [Thread -> Priority]
      /\ d.k.priority \in [Thread -> Priority] /\ Priority \subseteq Int
      /\ asked \in [Thread -> Priority] /\ asked' \in [Thread -> Priority]
      /\ asked'[c] = d.k.priority[c] /\ \A t \in Thread \ {c} : asked'[t] = asked[t]
  <2>1. /\ d.k.priority \in [Thread -> Priority] /\ e.k.priority \in [Thread -> Priority]
        /\ k.priority \in [Thread -> Priority] /\ Priority \subseteq Int
    BY <1>3, MutexFacts, MineFacts, PairKernel
  <2>2. asked \in [Thread -> Priority]
    BY DEF MutexInv, MutexTypes
  <2> QED
    BY <1>1, <2>1, <2>2
<1>9. \A t \in Thread \ {c} : k'.priority[t] <= k.priority[t]
  <2>1. \A t \in Thread \ {c} : d.k.priority[t] = k.priority[t]
    BY DEF Mine
  <2>2. ASSUME NEW t \in Thread \ {c} PROVE k'.priority[t] <= d.k.priority[t]
    <3>1. d.k.priority[t] \in Int
      BY <1>8, <2>2
    <3>2. CASE t = owner[x]
      BY <1>0, <3>2
    <3>3. CASE t # owner[x]
      BY <1>0, <2>2, <3>1, <3>3
    <3> QED
      BY <3>2, <3>3
  <2> QED
    BY <2>1, <2>2
<1>10. ASSUME NEW y \in Mutexes PROVE Guarded(y)' /\ Attended(y)'
  <2>1. QueueKept(y, c) /\ y \in Queue /\ k' \in KernelData
    BY <1>3, MutexFacts DEF Stays, QueueKept
  <2>2. CASE y = x
    <3>1. ASSUME Protocol[x] = "INHERIT"
          PROVE  /\ owner[x] \in Guards(x)'
                 /\ k'.priority[owner[x]] <= asked'[c]
                 /\ k'.priority[owner[x]] <= k.priority[c]
      <4>1. k'.priority[owner[x]] <= d.k.priority[c] /\ d.k.priority[c] <= k.priority[c]
        BY <1>0, <3>1 DEF Mine
      <4>2. owner[x] \in Guards(x)'
        BY <1>1 DEF Guards
      <4>3. /\ k'.priority[owner[x]] \in Int /\ d.k.priority[c] \in Int
            /\ k.priority[c] \in Int
        BY <1>1, <1>8
      <4> HIDE DEF Mine
      <4> QED
        BY <1>8, <4>1, <4>2, <4>3
    <3>2. Guarded(y)'
      BY <1>1, <1>2, <1>8, <1>9, <2>1, <2>2, <3>1, GuardedStep
    <3>3. Attended(y)'
      BY <1>1, <2>2 DEF Attended, Free
    <3> QED
      BY <3>2, <3>3
  <2>3. CASE y # x
    <3>1. c \notin ToSet(k'.wait_queue[y]) /\ c \notin Woken(y)
      <4>1. c \notin ToSet(k.wait_queue[y])
        BY <2>1, Runner
      <4> QED
        BY <1>1, <2>1, <2>3, <4>1, MutexFacts DEF Woken
    <3>2. c \in Guards(y) => c \in Guards(y)'
      BY <3>1 DEF Guards
    <3>3. k'.priority[c] <= k.priority[c]
      BY <1>0, <1>1 DEF Mine
    <3>4. Guarded(y)'
      BY <1>1, <1>2, <1>8, <1>9, <2>1, <3>1, <3>2, <3>3, GuardedStep
    <3>5. Attended(y)'
      BY <1>1, <2>1, <3>1, AttendedStep
    <3> QED
      BY <3>4, <3>5
  <2> QED
    BY <2>2, <2>3
<1>11. MutexTypes'
  BY <1>3, <1>6, <1>8 DEF MutexInv, MutexTypes
<1>12. MutexInv'
  BY <1>4, <1>5, <1>6, <1>7, <1>10, <1>11 DEF MutexInv
<1>13. Follows
  <2>1. Apart(k, k', c)
    BY DEF Apart, Alone, PassedOn
  <2> QED
    BY <1>1, <2>1, AsksForIt
<1> QED
  BY <1>12, <1>13

\* The loop of lock(), the mutex x counting for the thread.
LEMMA LockLoopInv ==
  ASSUME MutexInv, pc = "user", Current \in Target, NEW x \in Mutexes,
         owner[x] # Current, NEW d, Mine(d, Current),
         BalancedOf(Current, d.i, owner, x), LockLoop(d, x),
         waits[Current].queue \in {NoQueue, x}, mutex[Current] \in {NoQueue, x},
         cont[Current] \in {"user", "wait", "relock"}
  PROVE  MutexInv' /\ Follows
<1> DEFINE c == Current
<1>0. /\ c \in Thread /\ c \in Target /\ x \in Queue /\ NoQueue \notin Mutexes
      /\ IInv /\ WaitInv /\ KernelOK(k) /\ ~Sleeps(k, c)
      /\ owner \in Owners /\ waits \in [Thread -> [queue : Queue \cup {NoQueue},
                                                   timed : BOOLEAN]]
      /\ cont \in [Thread -> Cont] /\ mutex \in [Thread -> Mutexes \cup {NoQueue}]
  BY MutexFacts, Runner DEF MutexInv, MutexTypes, WaitInv, IInv, KernelInv, TypeOK
<1>1. /\ d \in Pair /\ Sound(k, d.k) /\ Kept(k, d.k) /\ KernelOK(d.k) /\ WaitOK(d.k)
      /\ d.k.state = k.state /\ ~Sleeps(d.k, c) /\ Adjusts(Here, d)
  BY <1>0, MineFacts DEF Mine, Sleeps
<1>2. CASE Free(x) /\ owner' = [owner EXCEPT ![x] = Current]
  <2>1. /\ mutex' = [mutex EXCEPT ![c] = NoQueue] /\ inherit' = d.i
        /\ UpdateThen(d.k, "user") /\ waits' = [waits EXCEPT ![c] = NoWait]
        /\ UNCHANGED <<base, asked, changes>>
    BY <1>0, <1>2 DEF LockLoop, Finish, Owners
  <2>2. ServesOthers(k, d.k, NoQueue)
    BY <1>0, <1>1 DEF ServesOthers, Kept, KeptAt, Current
  <2>3. IInv' /\ WaitInv' /\ NobodyLost({c})
    BY <1>0, <1>1, <2>1, <2>2, EndWaitServing DEF InAWait, Claiming
  <2>4. /\ k' = d.k /\ cont' = [cont EXCEPT ![c] = "user"]
    BY <2>1 DEF UpdateThen, LockedUpdate
  <2>5. /\ waits'[c].queue = NoQueue /\ cont'[c] = "user" /\ OthersRest(c)
        /\ \A t \in Thread \ {c} : cont'[t] = cont[t]
        /\ mutex'[c] = NoQueue /\ mutex' \in [Thread -> Mutexes \cup {NoQueue}]
    BY <1>0, <2>1, <2>4 DEF OthersRest, NoWait
  <2>6. BalancedOf(c, d.i, owner', waits'[c].queue)
    <3>1. owner'[x] = c /\ \A y \in Mutexes \ {x} : owner'[y] = owner[y]
      BY <1>0, <1>2 DEF Owners
    <3> QED
      BY <1>0, <2>5, <3>1, NowHolding
  <2>7. mutex[c] \in {NoQueue, x} /\ waits[c].queue \in {NoQueue, x}
    OBVIOUS
  <2> HIDE DEF c
  <2> QED
    BY <1>0, <1>2, <2>1, <2>7, <2>3, <2>4, <2>5, <2>6, Acquired DEF c
<1>3. CASE /\ ~Free(x)
           /\ LET asleep == [d EXCEPT !.k = GoToSleep(@, x, FALSE)]
                  passed == InheritFrom(asleep, x, Current)
              IN  BlockOn(passed.k, x, FALSE) /\ inherit' = passed.i
           /\ asked' = [asked EXCEPT ![Current] = d.k.priority[Current]]
           /\ UNCHANGED <<owner, mutex, base, changes>>
  <2> DEFINE s == [d EXCEPT !.k = GoToSleep(@, x, FALSE)]
             e == InheritFrom(s, x, c)
             o == owner[x]
  <2>1. o \in Target /\ o # c /\ o \in Thread
    BY <1>0, <1>3 DEF Free, Owners, Target
  <2>2. s.k = GoToSleep(d.k, x, FALSE) /\ s.i = d.i
    BY <1>1 DEF Pair
  <2>3. /\ Sound(d.k, s.k) /\ WaitsFor(d.k, s.k, x, NoQueue) /\ Steady(d.k, s.k)
        /\ d.k.current_thread = c /\ Alone(d.k, s.k, c)
    <3>1. d.k.current_thread = c
      BY <1>1 DEF Sound, Current
    <3>2. s.k = Enqueue(Sleep(SetSleepReason(d.k, "WAIT")), x, d.k.current_thread)
      BY <2>2, <3>1 DEF GoToSleep
    <3> HIDE DEF c, s, e, o
    <3>3. /\ KernelOK(d.k) /\ WaitOK(d.k) /\ x \in Queue
          /\ d.k.current_thread \in Target /\ ~Sleeps(d.k, d.k.current_thread)
      BY <1>0, <1>1, <3>1
    <3> DEFINE w == Enqueue(Sleep(SetSleepReason(d.k, "WAIT")), x, d.k.current_thread)
    <3>4. /\ Sound(d.k, w) /\ WaitsFor(d.k, w, x, NoQueue)
          /\ Steady(d.k, w) /\ Alone(d.k, w, d.k.current_thread)
      BY <3>3, CondSleepWaits
    <3> QED
      BY <3>1, <3>2, <3>4
  <2>4. Sound(k, s.k) /\ WaitsFor(k, s.k, x, NoQueue) /\ KernelOK(s.k) /\ WaitOK(s.k)
    <3>1. Serves(k, d.k, NoQueue)
      BY <1>1, KeptServes
    <3> HIDE DEF s
    <3>2. WaitsFor(k, s.k, x, NoQueue)
      BY <2>3, <3>1, ServesThenWaits DEF Current
    <3> QED
      BY <1>1, <2>3, <3>2, SoundTrans DEF Sound, WaitsFor
  <2>5. s \in Pair
    BY <1>1, <2>2, <2>4 DEF Pair, KernelOK
  <2>6. Honest(Here, s)
    <3>1. s.k.priority = d.k.priority
      BY <2>3 DEF Steady
    <3>2. \A b \in [Thread -> Priority] : GivenBack(d, b) => GivenBack(s, b)
      BY <2>2, <3>1 DEF GivenBack
    <3>3. \A b \in [Thread -> Priority] : GivenBack(Here, b) => GivenBack(d, b)
      BY <1>1 DEF Adjusts, Honest
    <3> HIDE DEF s
    <3> QED
      BY <2>4, <2>5, <3>2, <3>3 DEF Honest, Here
  <2> HIDE DEF s
  <2>7. /\ Lends(s, e, o)
        /\ Protocol[x] = "INHERIT" => e.k.priority[o] <= s.k.priority[c]
        /\ Protocol[x] # "INHERIT" => e = s
    BY <1>0, <2>1, <2>4, <2>5, InheritFromLends
  <2> HIDE DEF e
  <2>8. Adjusts(s, e) /\ Honest(s, e) /\ Kept(s.k, e.k) /\ e.k.state = s.k.state
    BY <2>7 DEF Lends, Adjusts
  <2>9. Honest(Here, e) /\ Sound(k, e.k) /\ WaitsFor(k, e.k, x, NoQueue)
    <3>1. Honest(Here, e)
      BY <2>6, <2>8, HonestTrans
    <3>2. WaitsFor(k, e.k, x, NoQueue)
      BY <1>0, <2>4, <2>8, WaitsThenKept DEF Current
    <3> QED
      BY <3>1, <3>2, MutexFacts DEF Honest
  <2>10. /\ RescheduleThen(e.k, "wait") /\ inherit' = e.i
         /\ waits' = [waits EXCEPT ![c] = Wait(x, FALSE)]
         /\ asked' = [asked EXCEPT ![c] = d.k.priority[c]]
         /\ UNCHANGED <<owner, mutex, base, changes>>
    BY <1>3 DEF BlockOn, e, s
  <2>11. /\ k' = e.k /\ pc' = "unlock" /\ cont' = [cont EXCEPT ![c] = "wait"]
    BY <2>10 DEF RescheduleThen, UnlockInner
  <2>12. IInv'
    BY <1>0, <2>9, <2>10, UpdateIInv DEF Claiming
  <2>13. /\ WaitInv'
         /\ \A r \in Queue : /\ Stays(r)
                             /\ r # x => ToSet(k'.wait_queue[r])
                                           \subseteq ToSet(k.wait_queue[r])
    BY <1>0, <2>9, <2>10, <2>11, WaitBegins DEF InAWait
  <2>14. /\ waits'[c].queue = x /\ cont'[c] = "wait" /\ OthersRest(c)
         /\ \A t \in Thread \ {c} : cont'[t] = cont[t]
    BY <1>0, <2>10, <2>11 DEF OthersRest, Wait
  <2>15. /\ e.i.mutex_count = d.i.mutex_count
         /\ \A u \in Thread \ {o} :
              /\ e.i.priority_inherited[u] = d.i.priority_inherited[u]
              /\ e.k.priority[u] = d.k.priority[u]
         /\ e.k.priority[o] <= d.k.priority[o]
         /\ Protocol[x] = "INHERIT" => e.k.priority[o] <= d.k.priority[c]
         /\ Protocol[x] # "INHERIT" =>
              e.i.priority_inherited[o] = d.i.priority_inherited[o]
    BY <2>2, <2>3, <2>7 DEF Lends, Steady
  <2>16. \A t \in Thread : "EXITED" \in e.k.state[t] <=> "EXITED" \in k.state[t]
    BY <1>1, <2>3, <2>8 DEF Steady
  <2>20. Alone(k, e.k, c)
    BY <1>1, <2>3, <2>8 DEF Alone
  <2>19. PassedOn(d, e, x, c)
    BY <2>9, <2>15, <2>16, <2>20 DEF PassedOn
  <2>17. BalancedOf(c, e.i, owner, waits'[c].queue)
    <3>1. /\ e.i.mutex_count[c] = d.i.mutex_count[c]
          /\ e.i.priority_inherited[c] = d.i.priority_inherited[c]
      BY <1>0, <2>1, <2>15
    <3>2. BalancedOf(c, e.i, owner, x)
      BY <3>1, SameHolding
    <3> QED
      BY <2>14, <3>2
  <2> HIDE DEF c
  <2>18. /\ waits[c].queue \in {NoQueue, x} /\ mutex[c] \in {NoQueue, x}
         /\ Mine(d, c) /\ c = Current /\ owner[x] \in Target \ {c}
    BY <2>1 DEF c
  <2> QED
    BY <1>0, <2>10, <2>11, <2>12, <2>13, <2>14, <2>17, <2>18, <2>19, BlockedInv
<1> QED
  BY <1>2, <1>3 DEF LockLoop

\* A mutex starts to count when it is being locked.
LEMMA NowLocking ==
  ASSUME NEW t, NEW i, NEW o, NEW q, BalancedOf(t, i, o, q), q \notin Mutexes,
         NEW x \in Mutexes, o[x] # t, NEW j,
         ~Active(x) => /\ j.mutex_count[t] = i.mutex_count[t]
                       /\ j.priority_inherited[t] = i.priority_inherited[t],
         Active(x) => j.mutex_count[t] = i.mutex_count[t] + 1
  PROVE  BalancedOf(t, j, o, x)
<1>1. \A y \in Mutexes \ {x} : (o[y] = t \/ x = y) <=> (o[y] = t \/ q = y)
  OBVIOUS
<1>2. q # x
  OBVIOUS
<1> QED
  BY <1>1, <1>2, OneMoreHeld

\* lock() counts the mutex before it looks whether it is free.
LEMMA CountMine ==
  ASSUME MutexInv, pc = "user", Current \in Target, NEW x \in Mutexes,
         owner[x] # Current, waits[Current].queue = NoQueue
  PROVE  /\ Mine(Count(Here, x, Current), Current)
         /\ BalancedOf(Current, Count(Here, x, Current).i, owner, x)
<1> DEFINE c == Current
           d == Count(Here, x, c)
<1>1. /\ Adjusts(Here, d)
      /\ ~Active(x) => d = Here
      /\ Active(x) => d.i.mutex_count = [inherit.mutex_count EXCEPT ![c] = @ + 1]
      /\ \A u \in Thread \ {c} :
           /\ d.i.priority_inherited[u] = inherit.priority_inherited[u]
           /\ d.k.priority[u] = k.priority[u]
      /\ d.k.priority[c] <= k.priority[c]
  BY MutexFacts, CountAdjusts
<1> HIDE DEF d
<1>2. /\ c \in Thread /\ inherit.mutex_count \in [Thread -> Int]
      /\ Here.i = inherit /\ x # NoQueue
  BY MutexFacts
<1>3. Mine(d, c)
  BY <1>1, <1>2 DEF Mine
<1>4. BalancedOf(c, d.i, owner, x)
  <2>1. BalancedOf(c, inherit, owner, NoQueue)
    BY Runner
  <2>3. ~Active(x) => /\ d.i.mutex_count[c] = inherit.mutex_count[c]
                      /\ d.i.priority_inherited[c] = inherit.priority_inherited[c]
    BY <1>1, <1>2
  <2>4. Active(x) => d.i.mutex_count[c] = inherit.mutex_count[c] + 1
    BY <1>1, <1>2
  <2> HIDE DEF c
  <2>5. owner[x] # c
    BY DEF c
  <2>6. BalancedOf(c, d.i, owner, x)
    BY <1>2, <2>1, <2>3, <2>4, <2>5, MutexFacts, NowLocking
  <2> QED
    BY <2>6
<1> QED
  BY <1>3, <1>4 DEF d

LEMMA LocksInv ==
  ASSUME MutexInv,
         MutexWokenToRetry \/ CondRelock \/ \E x \in Mutexes : MutexLock(x)
  PROVE  MutexInv' /\ Follows
<1>1. CASE MutexWokenToRetry
  <2> DEFINE x == waits[Current].queue
  <2>1. /\ pc = "user" /\ cont[Current] = "wait" /\ x \in Mutexes /\ LockLoop(Here, x)
    BY <1>1 DEF MutexWokenToRetry, InWait
  <2>2. Current \in Target /\ Current \in Thread
    BY <2>1, MutexFacts, CallerIsTarget DEF IInv
  <2>3. owner[x] # Current /\ mutex[Current] \in {NoQueue, x}
    BY <2>1, <2>2 DEF MutexInv, ClaimsAt, ClaimsOf
  <2>4. Mine(Here, Current)
    <3>1. Adjusts(Here, Here)
      BY MutexFacts, <2>2, AdjustsRefl
    <3> QED
      BY <3>1, <2>2, MutexFacts DEF Mine
  <2>5. BalancedOf(Current, Here.i, owner, x)
    BY <2>1, Runner DEF Here
  <2> HIDE DEF x
  <2>6. waits[Current].queue \in {NoQueue, x}
    BY DEF x
  <2> QED
    BY <2>1, <2>2, <2>3, <2>4, <2>5, <2>6, LockLoopInv
<1>2. CASE CondRelock
  <2> DEFINE x == mutex[Current]
             d == Count(Here, x, Current)
  <2>1. pc = "user" /\ cont[Current] = "relock" /\ LockLoop(d, x)
    BY <1>2 DEF CondRelock
  <2>2. Current \in Target /\ Current \in Thread
    BY <2>1, MutexFacts, CallerIsTarget DEF IInv
  <2>3. x \in Mutexes /\ owner[x] # Current /\ waits[Current].queue = NoQueue
    BY <2>1, <2>2, MutexFacts
    DEF MutexInv, MutexTypes, ClaimsAt, ClaimsOf, WaitInv, InAWait
  <2> HIDE DEF x
  <2>4. Mine(d, Current) /\ BalancedOf(Current, d.i, owner, x)
    BY <2>1, <2>2, <2>3, CountMine
  <2> HIDE DEF d
  <2>5. mutex[Current] \in {NoQueue, x} /\ waits[Current].queue \in {NoQueue, x}
    BY <2>3 DEF x
  <2> QED
    BY <2>1, <2>2, <2>3, <2>4, <2>5, LockLoopInv
<1>3. ASSUME NEW x \in Mutexes, MutexLock(x) PROVE MutexInv' /\ Follows
  <2> DEFINE d == Count(Here, x, Current)
  <2>1. Calling("mutex_lock") /\ owner[x] # Current /\ LockLoop(d, x)
    BY <1>3 DEF MutexLock
  <2>2. /\ Current \in Target /\ Current \in Thread
        /\ pc = "user" /\ cont[Current] = "user"
        /\ waits[Current].queue = NoQueue /\ mutex[Current] = NoQueue
    BY <2>1, Caller
  <2>3. Mine(d, Current) /\ BalancedOf(Current, d.i, owner, x)
    BY <2>1, <2>2, CountMine
  <2> HIDE DEF d
  <2> QED
    BY <2>1, <2>2, <2>3, LockLoopInv
<1> QED
  BY <1>1, <1>2, <1>3

\* Thread c has given the mutex x up, the data being e, and goes on or to sleep.
LEMMA UnlockedInv ==
  ASSUME MutexInv, pc = "user", IInv', WaitInv', RunsOn',
         NEW c \in Target, c = Current, NEW x \in Mutexes, owner[x] = c,
         NEW e, GivenUp(Here, e, x, c), k.wait_queue[x] # <<>> => HeirOf(Here, e, x, c),
         Steady(e.k, k'), \A u \in Thread \ {c} : KeptAt(e.k, k', u),
         k'.queue[c] \notin Mutexes, inherit' = e.i,
         owner' = [owner EXCEPT ![x] = NoThread],
         waits[c].queue = NoQueue, waits'[c].queue \notin Mutexes,
         mutex[c] = NoQueue, Alone(e.k, k', c),
         \/ mutex'[c] = NoQueue /\ waits'[c].queue = NoQueue
         \/ mutex'[c] = x /\ waits'[c].queue \in CondVars,
         mutex' \in [Thread -> Mutexes \cup {NoQueue}],
         ClaimsOf(c, waits'[c], cont'[c], mutex'[c], owner'),
         OthersRest(c), \A t \in Thread \ {c} : cont'[t] = cont[t],
         UNCHANGED <<base, asked, changes>>,
         \A r \in Mutexes : QueueKept(r, c)
  PROVE  MutexInv' /\ Follows
<1>1. /\ c \in Thread /\ c # NoThread /\ NoQueue \notin Mutexes /\ x \in Queue
      /\ k' \in KernelData /\ WaitOK(k') /\ WaitOK(e.k)
      /\ Here.k = k /\ Here.i = inherit /\ e.k.priority = k'.priority
  BY MutexFacts DEF Target, IInv, KernelInv, KernelOK, WaitInv, GivenUp, Serves, Steady
<1>2. /\ owner \in Owners /\ owner' \in Owners /\ owner'[x] = NoThread
      /\ \A y \in Mutexes \ {x} : owner'[y] = owner[y]
  BY DEF MutexInv, MutexTypes, Owners
<1>3. OwnersMove(c)
  BY <1>2 DEF OwnersMove
<1>4. /\ e \in Pair /\ e.k \in KernelData /\ e.i \in InheritData /\ GivenBack(e, base)
  <2>1. Honest(Here, e)
    BY DEF GivenUp
  <2>2. e \in Pair /\ GivenBack(e, base)
    BY <2>1 DEF Honest, MutexInv, MutexTypes
  <2> QED
    BY <2>2, PairKernel
<1>5. \A t \in Thread : ClaimsAt(t)'
  BY <1>1, <1>3, OthersClaims
<1>6. BalancedOf(c, e.i, owner', waits'[c].queue)
  <2>1. BalancedOf(c, inherit, owner, NoQueue)
    BY Runner
  <2>2. \A y \in Mutexes \ {x} :
          (owner'[y] = c \/ waits'[c].queue = y) <=> (owner[y] = c \/ NoQueue = y)
    BY <1>1, <1>2
  <2>3. ~Active(x) => /\ e.i.mutex_count[c] = inherit.mutex_count[c]
                      /\ e.i.priority_inherited[c] = inherit.priority_inherited[c]
    BY <1>1 DEF GivenUp
  <2>4. Active(x) => e.i.mutex_count[c] = inherit.mutex_count[c] - 1
    BY <1>1, MutexFacts DEF GivenUp
  <2>5. Active(x) /\ e.i.mutex_count[c] = 0 => ~e.i.priority_inherited[c]
    BY DEF GivenUp
  <2>6. owner'[x] # c /\ waits'[c].queue # x
    BY <1>1, <1>2
  <2>7. \A p, r : /\ p[x] # c /\ r # x
                  /\ \A y \in Mutexes \ {x} :
                       (p[y] = c \/ r = y) <=> (owner[y] = c \/ NoQueue = y)
                  => BalancedOf(c, e.i, p, r)
    BY <2>1, <2>3, <2>4, <2>5, OneLessHeld, SMTT(30)
  <2> QED
    BY <2>2, <2>6, <2>7
<1>7. \A t \in Thread : BalancedAt(t)' /\ inherit'.mutex_count[t] >= 0
  <2>1. \A t \in Thread : Gone(t) => Gone(t)'
    BY <1>1 DEF Gone, Steady, GivenUp
  <2>2. ASSUME NEW t \in Thread \ {c}
        PROVE  /\ inherit'.mutex_count[t] = inherit.mutex_count[t]
               /\ \/ inherit'.priority_inherited[t] = inherit.priority_inherited[t]
                  \/ ~Gone(t) => inherit'.mutex_count[t] # 0
    <3>1. inherit'.mutex_count[t] = inherit.mutex_count[t]
      BY <1>1, <2>2, MutexFacts DEF GivenUp
    <3>2. CASE k.queue[t] # x \/ Protocol[x] # "INHERIT"
      BY <1>1, <2>2, <3>1, <3>2 DEF GivenUp
    <3>3. CASE k.queue[t] = x /\ Protocol[x] = "INHERIT"
      <4>1. waits[t].queue = x
        <5>1. WaitOKAt(k, t) /\ x # NoQueue
          BY <1>1, <2>2, MutexFacts DEF WaitOK
        <5> QED
          BY <2>2, <3>3, <5>1, MutexFacts DEF WaitOKAt, WaitInv, Asleep
      <4>2. ASSUME ~Gone(t) PROVE inherit.mutex_count[t] # 0
        <5>1. BalancedOf(t, inherit, owner, waits[t].queue)
          BY <2>2, <4>2 DEF MutexInv, BalancedAt
        <5>2. inherit.mutex_count[t] \in Nat /\ inherit.mutex_count[t] > 0
          BY <3>3, <4>1, <5>1, HolderCounts DEF Active
        <5> QED
          BY <5>2
      <4> QED
        BY <3>1, <4>2
    <3> QED
      BY <3>2, <3>3
  <2> QED
    BY <1>1, <1>3, <1>6, <2>1, <2>2, OthersBalance
<1>8. GivenBack(Here, base)'
  BY <1>1, <1>4 DEF GivenBack, Here
<1>9. /\ k.priority \in [Thread -> Priority] /\ k'.priority \in [Thread -> Priority]
      /\ Priority \subseteq Int /\ asked' \in [Thread -> Priority]
      /\ \A t \in Thread \ {c} : asked'[t] = asked[t] /\ k'.priority[t] <= k.priority[t]
  <2>1. \A t \in Thread \ {c} : k'.priority[t] <= k.priority[t]
    BY <1>1 DEF GivenUp
  <2>2. asked' \in [Thread -> Priority] /\ asked' = asked
    BY DEF MutexInv, MutexTypes
  <2> QED
    BY <1>1, <2>1, <2>2, MutexFacts DEF KernelData
<1>10. \A r \in Mutexes : /\ c \notin ToSet(k'.wait_queue[r]) /\ c \notin Woken(r)
                          /\ ToSet(k'.wait_queue[r]) \subseteq ToSet(k.wait_queue[r])
  <2>1. \A r \in Mutexes : c \notin ToSet(k'.wait_queue[r])
    BY <1>1, MutexFacts DEF WaitOK, QueuedExactly
  <2>2. \A r \in Mutexes : c \notin Woken(r)
    BY <1>1 DEF Woken
  <2>3. \A r \in Mutexes : ToSet(k'.wait_queue[r]) \subseteq ToSet(k.wait_queue[r])
    BY <2>1 DEF QueueKept
  <2> QED
    BY <2>1, <2>2, <2>3
<1>11. ASSUME k'.wait_queue[x] # <<>>
       PROVE  \E h \in Woken(x)' :
                Protocol[x] = "INHERIT" => k'.priority[h] <= k.priority[c]
  <2>1. k.wait_queue[x] # <<>>
    <3>1. k \in KernelData /\ ToSet(k'.wait_queue[x]) \subseteq ToSet(k.wait_queue[x])
      BY <1>10, MutexFacts
    <3> QED
      BY <1>1, <1>11, <3>1, StillQueued
  <2>2. e.k.wait_queue[x] # <<>>
    <3>1. ASSUME NEW t \in Thread, k'.queue[t] = x PROVE e.k.queue[t] = x
      <4>1. t # c /\ x # NoQueue
        BY <1>1, <3>1
      <4>2. WaitOKAt(k', t) /\ KeptAt(e.k, k', t)
        BY <1>1, <4>1 DEF WaitOK
      <4> QED
        BY <3>1, <4>1, <4>2 DEF WaitOKAt, KeptAt, StillWaits
    <3>2. ToSet(k'.wait_queue[x]) \subseteq ToSet(e.k.wait_queue[x])
      BY <1>1, <3>1, QueuesShrink
    <3> QED
      BY <1>1, <1>4, <1>11, <3>2, StillQueued
  <2>3. PICK h \in Thread \ {c} :
          /\ Here.k.queue[h] = x
          /\ "SLEEPING" \notin e.k.state[h] /\ e.k.wake_reason[h] = "DONE"
          /\ Protocol[x] = "INHERIT" /\ e.k.wait_queue[x] # <<>> =>
               e.k.priority[h] <= Here.k.priority[c]
    BY <2>1 DEF HeirOf
  <2>4. waits'[h].queue = x
    <3>1. WaitOKAt(k, h) /\ x # NoQueue
      BY <1>1, <2>3, MutexFacts DEF WaitOK
    <3>2. Asleep(h) /\ k.queue[h] = x
      BY <1>1, <2>3, <3>1 DEF WaitOKAt, Asleep
    <3> QED
      BY <2>3, <3>2, MutexFacts DEF WaitInv, OthersRest
  <2>5. ~Asleep(h)' /\ k'.wake_reason[h] = "DONE"
    <3>1. WaitOKAt(e.k, h) /\ KeptAt(e.k, k', h)
      BY <1>1, <2>3 DEF WaitOK
    <3> QED
      BY <2>3, <3>1 DEF WaitOKAt, KeptAt, StillWaits, Asleep
  <2>6. h \in Woken(x)'
    BY <2>3, <2>4, <2>5 DEF Woken
  <2> QED
    BY <1>1, <2>2, <2>3, <2>6
<1>12. ASSUME NEW y \in Mutexes PROVE Guarded(y)' /\ Attended(y)'
  <2>1. QueueKept(y, c) /\ y \in Queue
    BY MutexFacts
  <2>2. ASSUME Protocol[y] = "INHERIT", c \in Guards(y), k'.wait_queue[y] # <<>>
        PROVE  \E v \in Guards(y)' : k'.priority[v] <= k.priority[c]
    <3>1. CASE y = x
      BY <1>11, <2>2, <3>1 DEF Guards
    <3>2. CASE y # x
      <4>1. owner[y] = c /\ owner'[y] = c
        BY <1>2, <1>10, <2>2, <3>2 DEF Guards
      <4>2. e.i.mutex_count[c] # 0
        <5>1. Active(y) /\ BalancedOf(c, e.i, owner', waits'[c].queue)
          BY <1>6, <2>2 DEF Active
        <5>2. e.i.mutex_count[c] \in Nat /\ e.i.mutex_count[c] > 0
          BY <4>1, <5>1, HolderCounts
        <5> QED
          BY <5>2
      <4>3. k'.priority[c] = k.priority[c]
        BY <1>1, <4>2 DEF GivenUp
      <4> QED
        <5>1. c \in Guards(y)'
          BY <1>1, <4>1 DEF Guards
        <5>2. k.priority[c] \in Int
          BY <1>1, <1>9
        <5> QED
          BY <4>3, <5>1, <5>2
    <3> QED
      BY <3>1, <3>2
  <2>3. Guarded(y)'
    BY <1>1, <1>3, <1>9, <1>10, <2>1, <2>2, GuardedStep
  <2>4. Attended(y)'
    <3>1. CASE y = x
      BY <1>11, <3>1 DEF Attended, Free
    <3>2. CASE y # x
      BY <1>1, <1>2, <1>10, <2>1, <3>2, AttendedStep
    <3> QED
      BY <3>1, <3>2
  <2> QED
    BY <2>3, <2>4
<1>13. MutexTypes'
  BY <1>2, <1>4, <1>7 DEF MutexInv, MutexTypes
<1>14. MutexInv'
  BY <1>5, <1>7, <1>8, <1>12, <1>13 DEF MutexInv
<1>15. Follows
  <2>1. Apart(k, k', c)
    BY <1>1 DEF Apart, Alone, GivenUp, Steady
  <2> QED
    BY <1>1, <2>1, LeavesIt
<1> QED
  BY <1>14, <1>15

\* unlock() by the owner.
LEMMA UnlockFacts ==
  ASSUME MutexInv, NEW x \in Mutexes, NEW name, Calling(name), owner[x] = Current
  PROVE  LET e == Unlocked(x)
         IN  /\ GivenUp(Here, e, x, Current)
             /\ k.wait_queue[x] # <<>> => HeirOf(Here, e, x, Current)
             /\ e \in Pair /\ Sound(k, e.k) /\ Serves(k, e.k, x)
             /\ KernelOK(e.k) /\ WaitOK(e.k)
             /\ e.k.current_thread = Current /\ ~Sleeps(e.k, Current)
             /\ \A t \in Thread : "EXITED" \in e.k.state[t] <=> "EXITED" \in k.state[t]
<1> DEFINE c == Current
           e == Unlocked(x)
<1>1. c \in Target /\ c \in Thread /\ ~Sleeps(k, c) /\ k.queue[c] # x /\ x \in Queue
  BY Caller, Runner, MutexFacts
<1>2. e = Uncount(HandOn(Here, x), x, c)
  BY DEF Unlocked
<1> HIDE DEF e, c
<1>3. owner[x] = c
  BY DEF c
<1>4. /\ GivenUp(Here, e, x, c)
      /\ k.wait_queue[x] # <<>> => HeirOf(Here, e, x, c)
  BY <1>1, <1>2, <1>3, MutexFacts, UnlockGivesUp
<1>5. /\ Honest(Here, e) /\ Serves(k, e.k, x)
      /\ \A t \in Thread : "EXITED" \in e.k.state[t] <=> "EXITED" \in k.state[t]
  BY <1>4, MutexFacts DEF GivenUp
<1>6. e \in Pair /\ Sound(k, e.k)
  BY <1>5, MutexFacts DEF Honest
<1>7. e.k.current_thread = c /\ KernelOK(e.k) /\ WaitOK(e.k)
  BY <1>5, <1>6 DEF Sound, Serves, c, Current
<1>8. ~Sleeps(e.k, c)
  BY <1>1, <1>5 DEF Serves, KeptAt, ServedAt, StillWaits
<1> QED
  BY <1>4, <1>5, <1>6, <1>7, <1>8 DEF e, c

LEMMA UnlockInv ==
  ASSUME MutexInv, NEW x \in Mutexes, MutexUnlock(x)
  PROVE  MutexInv' /\ Follows
<1> DEFINE c == Current
           e == Unlocked(x)
<1>1. /\ Calling("mutex_unlock") /\ owner[x] = c /\ Update(e.k) /\ inherit' = e.i
      /\ owner' = [owner EXCEPT ![x] = NoThread]
      /\ UNCHANGED <<mutex, base, asked, changes, waits>>
  BY DEF MutexUnlock
<1>2. /\ c \in Target /\ c \in Thread /\ pc = "user" /\ cont[c] = "user"
      /\ waits[c].queue = NoQueue /\ mutex[c] = NoQueue
  BY <1>1, Caller
<1>3. /\ GivenUp(Here, e, x, c)
      /\ k.wait_queue[x] # <<>> => HeirOf(Here, e, x, c)
      /\ e \in Pair /\ Sound(k, e.k) /\ Serves(k, e.k, x)
      /\ KernelOK(e.k) /\ WaitOK(e.k)
      /\ \A t \in Thread : "EXITED" \in e.k.state[t] <=> "EXITED" \in k.state[t]
  BY <1>1, UnlockFacts
<1>4. k' = e.k /\ cont' = cont
  BY <1>1 DEF Update, LockedUpdate, ctx
<1> HIDE DEF e
<1>5. IInv' /\ WaitInv' /\ NobodyLost({})
  BY <1>1, <1>2, <1>3, MutexFacts, QuietCall
<1>6. RunsOn'
  BY <1>2, <1>3, <1>4, StillRuns
<1>7. Steady(e.k, k') /\ \A u \in Thread \ {c} : KeptAt(e.k, k', u)
  BY <1>3, <1>4, KeptRefl DEF Steady, Kept
<1>8. \A r \in Mutexes : QueueKept(r, c) /\ k'.queue[c] # r
  <2>1. \A r \in Mutexes : c \notin ToSet(k.wait_queue[r])
    BY <1>2, Runner, MutexFacts
  <2>2. \A r \in Mutexes : /\ Woken(r) \subseteq Woken(r)'
                           /\ ToSet(k'.wait_queue[r]) \subseteq ToSet(k.wait_queue[r])
    BY <1>5, MutexFacts DEF NobodyLost
  <2>3. \A r \in Mutexes : c \notin ToSet(k'.wait_queue[r])
    BY <2>1, <2>2
  <2>4. \A r \in Mutexes : QueueKept(r, c)
    BY <2>2 DEF QueueKept
  <2>5. \A r \in Mutexes : k'.queue[c] # r
    BY <1>2, <1>3, <1>4, <2>3, MutexFacts DEF WaitOK, QueuedExactly
  <2> QED
    BY <2>4, <2>5
<1>9. ClaimsOf(c, waits'[c], cont'[c], mutex'[c], owner')
  BY <1>1, <1>2, <1>4, MutexFacts DEF ClaimsOf
<1>10. /\ waits'[c].queue \notin Mutexes /\ OthersRest(c)
       /\ mutex' \in [Thread -> Mutexes \cup {NoQueue}]
       /\ k'.queue[c] \notin Mutexes
  BY <1>1, <1>2, <1>8, MutexFacts DEF OthersRest, MutexInv, MutexTypes
<1>11. /\ Alone(e.k, k', c) /\ mutex[c] = NoQueue
       /\ mutex'[c] = NoQueue /\ waits'[c].queue = NoQueue
  BY <1>1, <1>2, <1>4 DEF Alone
<1> HIDE DEF c
<1>12. c = Current
  BY DEF c
<1> QED
  BY <1>1, <1>2, <1>3, <1>4, <1>5, <1>6, <1>7, <1>8, <1>9, <1>10, <1>12, <1>11, UnlockedInv

\* A condition wait: the mutex x given up, the thread asleep on q, or awake
\* again if the timeout was past.
LEMMA CondBlockInv ==
  ASSUME MutexInv, NEW x \in Mutexes, NEW q \in CondVars, NEW name, Calling(name),
         owner[x] = Current, NEW s, s.i = Unlocked(x).i, Sound(Unlocked(x).k, s.k),
         WaitsFor(Unlocked(x).k, s.k, q, NoQueue), Steady(Unlocked(x).k, s.k),
         Alone(Unlocked(x).k, s.k, Current),
         NEW timed \in BOOLEAN, CondBlock(s, q, x, timed)
  PROVE  MutexInv' /\ Follows
<1> DEFINE c == Current
           e == Unlocked(x)
           n == IF timed THEN "condtimer" ELSE "cond"
<1>1. /\ UnlockReschedule(s.k, n) /\ inherit' = s.i
      /\ waits' = [waits EXCEPT ![c] = Wait(q, timed)]
      /\ mutex' = [mutex EXCEPT ![c] = x]
      /\ owner' = [owner EXCEPT ![x] = NoThread]
      /\ UNCHANGED <<base, asked, changes>>
  BY DEF CondBlock
<1>2. /\ c \in Target /\ c \in Thread /\ pc = "user" /\ cont[c] = "user"
      /\ waits[c].queue = NoQueue /\ mutex[c] = NoQueue
      /\ q \in Queue /\ q \notin Mutexes /\ q # NoQueue /\ x # NoQueue /\ x \in Queue
      /\ IInv /\ WaitInv
  BY Caller, MutexFacts
<1>3. /\ GivenUp(Here, e, x, c)
      /\ k.wait_queue[x] # <<>> => HeirOf(Here, e, x, c)
      /\ Sound(k, e.k) /\ Serves(k, e.k, x) /\ e.k.current_thread = c
      /\ \A t \in Thread : "EXITED" \in e.k.state[t] <=> "EXITED" \in k.state[t]
  BY UnlockFacts
<1> HIDE DEF e
<1>4. /\ k' = s.k /\ pc' = "unlock" /\ cont' = [cont EXCEPT ![c] = n]
  BY <1>1 DEF UnlockReschedule, UnlockInner
<1>5. n \in InAWait /\ n \in Cont \ Claiming /\ n \in {"cond", "condtimer"}
  BY DEF InAWait, Cont, Claiming
<1> HIDE DEF n
<1>6. /\ Sound(e.k, s.k) /\ WaitsFor(e.k, s.k, q, NoQueue) /\ Steady(e.k, s.k)
      /\ s.i = e.i /\ Alone(e.k, s.k, c)
  BY DEF e
<1>7. Sound(k, s.k) /\ WaitsFor(k, s.k, q, x)
  BY <1>2, <1>3, <1>6, SoundTrans, ServesThenWaits DEF Current
<1>8. IInv'
  BY <1>1, <1>2, <1>5, <1>7, UnlockRescheduleIInv
<1>9. /\ WaitInv'
      /\ \A r \in Queue : /\ Stays(r)
                          /\ r # q => ToSet(k'.wait_queue[r]) \subseteq ToSet(k.wait_queue[r])
  BY <1>1, <1>2, <1>4, <1>5, <1>7, WaitBegins
<1>10. RunsOn'
  BY <1>4 DEF RunsOn
<1>11. /\ Steady(e.k, k') /\ \A u \in Thread \ {c} : KeptAt(e.k, k', u)
       /\ k'.queue[c] \notin Mutexes
  <2>1. WaitOKAt(k', c) /\ NoQueue \notin Mutexes
    BY <1>2, <1>4, <1>6, MutexFacts DEF WaitsFor, WaitOK
  <2>2. k'.queue[c] \in {q, NoQueue}
    BY <1>3, <1>4, <1>6, <2>1 DEF WaitsFor, WaitOKAt
  <2>3. \A u \in Thread \ {c} : KeptAt(e.k, k', u)
    BY <1>3, <1>4, <1>6 DEF WaitsFor, ServedAt
  <2> QED
    BY <1>2, <1>4, <1>6, <2>1, <2>2, <2>3
<1>12. /\ waits'[c].queue = q /\ cont'[c] = n /\ mutex'[c] = x /\ OthersRest(c)
       /\ \A t \in Thread \ {c} : cont'[t] = cont[t]
       /\ mutex' \in [Thread -> Mutexes \cup {NoQueue}]
       /\ owner'[x] = NoThread
  <2>1. /\ waits \in [Thread -> [queue : Queue \cup {NoQueue}, timed : BOOLEAN]]
        /\ cont \in [Thread -> Cont] /\ mutex \in [Thread -> Mutexes \cup {NoQueue}]
        /\ owner \in Owners
    BY MutexFacts DEF MutexInv, MutexTypes, WaitInv, IInv, KernelInv, TypeOK
  <2> QED
    BY <1>1, <1>2, <1>4, <2>1 DEF OthersRest, Wait, Owners
<1>13. ClaimsOf(c, waits'[c], cont'[c], mutex'[c], owner')
  BY <1>2, <1>5, <1>12, MutexFacts DEF ClaimsOf
<1>14. \A r \in Mutexes : QueueKept(r, c)
  BY <1>9, MutexFacts DEF QueueKept, Stays
<1>15. /\ Alone(e.k, k', c) /\ mutex[c] = NoQueue
       /\ mutex'[c] = x /\ waits'[c].queue \in CondVars
  BY <1>2, <1>4, <1>6, <1>12
<1> HIDE DEF c
<1>16. c = Current /\ owner[x] = c /\ inherit' = e.i /\ waits'[c].queue \notin Mutexes
  BY <1>1, <1>2, <1>6, <1>12 DEF c
<1> QED
  BY <1>1, <1>2, <1>3, <1>8, <1>9, <1>10, <1>11, <1>12, <1>13, <1>14, <1>16, <1>15, UnlockedInv

LEMMA CondWaitInv ==
  ASSUME MutexInv, NEW x \in Mutexes, NEW q \in CondVars,
         CondWait(q, x) \/ CondTimedWait(q, x)
  PROVE  MutexInv' /\ Follows
<1> DEFINE e == Unlocked(x)
           c == e.k.current_thread
           m == SetTimer(Sleep(e.k), "TIMEOUT")
<1>1. PICK name : Calling(name) /\ owner[x] = Current
  BY DEF CondWait, CondTimedWait
<1>2. /\ e \in Pair /\ KernelOK(e.k) /\ WaitOK(e.k) /\ ~Sleeps(e.k, c)
      /\ c = Current /\ c \in Target /\ q \in Queue
  BY <1>1, UnlockFacts, Caller, MutexFacts
<1>3. ASSUME NEW s, s.i = e.i, NEW timed \in BOOLEAN, CondBlock(s, q, x, timed),
             \/ s.k = Enqueue(Sleep(SetSleepReason(e.k, "WAIT")), q, c)
             \/ s.k = Enqueue(m, q, c)
             \/ s.k = Alarm(m, c)
      PROVE  MutexInv' /\ Follows
  <2>1. Sound(e.k, s.k) /\ WaitsFor(e.k, s.k, q, NoQueue) /\ Steady(e.k, s.k)
        /\ Alone(e.k, s.k, Current)
    <3> HIDE DEF e
    <3>1. CASE s.k = Enqueue(Sleep(SetSleepReason(e.k, "WAIT")), q, c)
      BY <1>2, <3>1, CondSleepWaits
    <3>2. CASE s.k = Enqueue(m, q, c)
      BY <1>2, <3>2, TimedSleepWaits, TimedSleepSteady
    <3>3. CASE s.k = Alarm(m, c)
      BY <1>2, <3>3, TimedSleepWaits, TimedSleepSteady
    <3> QED
      BY <1>3, <3>1, <3>2, <3>3
  <2> QED
    BY <1>1, <1>3, <2>1, CondBlockInv
<1>4. \A j : [e EXCEPT !.k = j].k = j /\ [e EXCEPT !.k = j].i = e.i
  BY <1>2 DEF Pair
<1> HIDE DEF e
<1>5. CASE CondWait(q, x)
  <2> DEFINE s == CondSleep(e, q)
  <2>1. CondBlock(s, q, x, FALSE)
    BY <1>5 DEF CondWait, e
  <2>2. s.i = e.i /\ s.k = Enqueue(Sleep(SetSleepReason(e.k, "WAIT")), q, c)
    BY <1>2, <1>4 DEF CondSleep
  <2> HIDE DEF s
  <2> QED
    BY <1>3, <2>1, <2>2
<1>6. CASE CondTimedWait(q, x)
  <2> DEFINE s == CondSleepTimed(e, q)
             p == CondSleepPast(e)
  <2>1. CondBlock(s, q, x, TRUE) \/ CondBlock(p, q, x, TRUE)
    BY <1>6 DEF CondTimedWait, e
  <2>2. s.i = e.i /\ s.k = Enqueue(m, q, c) /\ p.i = e.i /\ p.k = Alarm(m, c)
    BY <1>2, <1>4 DEF CondSleepTimed, CondSleepPast
  <2> HIDE DEF s, p
  <2> QED
    BY <1>3, <2>1, <2>2
<1> QED
  BY <1>5, <1>6

\* lock() is broken off: the mutex does not count any more.
LEMMA NoLongerLocking ==
  ASSUME NEW t, NEW i, NEW o, NEW x \in Mutexes, BalancedOf(t, i, o, x), o[x] # t,
         NEW r, r \notin Mutexes, NEW j,
         ~Active(x) => /\ j.mutex_count[t] = i.mutex_count[t]
                       /\ j.priority_inherited[t] = i.priority_inherited[t],
         Active(x) => j.mutex_count[t] = i.mutex_count[t] - 1,
         Active(x) /\ j.mutex_count[t] = 0 => ~j.priority_inherited[t]
  PROVE  BalancedOf(t, j, o, r)
<1>1. \A y \in Mutexes \ {x} : (o[y] = t \/ r = y) <=> (o[y] = t \/ x = y)
  OBVIOUS
<1>2. r # x
  OBVIOUS
<1> QED
  BY <1>1, <1>2, OneLessHeld

LEMMA BrokenOffInv ==
  ASSUME MutexInv, MutexBrokenOff
  PROVE  MutexInv' /\ Follows
<1> DEFINE c == Current
           x == waits[Current].queue
           d == Uncount(Here, x, c)
           n == IF mutex[c] = NoQueue THEN "user" ELSE "relock"
<1>1. /\ pc = "user" /\ cont[c] = "wait" /\ x \in Mutexes
      /\ k.wake_reason[c] \in {"BREAK", "TIMEOUT"}
      /\ UpdateThen(d.k, n) /\ waits' = [waits EXCEPT ![c] = NoWait] /\ inherit' = d.i
      /\ UNCHANGED <<owner, mutex, base, asked, changes>>
  BY DEF MutexBrokenOff, InWait, BrokenOff
<1>2. /\ c \in Target /\ c \in Thread /\ Here \in Pair /\ KernelOK(k) /\ WaitOK(k)
      /\ Here.k = k /\ Here.i = inherit /\ x \in Queue /\ NoQueue \notin Mutexes
      /\ IInv /\ WaitInv /\ inherit.mutex_count \in [Thread -> Int]
      /\ c # NoThread
  BY <1>1, MutexFacts, CallerIsTarget DEF IInv, Target
<1>3. /\ Adjusts(Here, d)
      /\ ~Active(x) => d = Here
      /\ Active(x) => d.i.mutex_count = [inherit.mutex_count EXCEPT ![c] = @ - 1]
      /\ \A u \in Thread \ {c} :
           /\ d.i.priority_inherited[u] = inherit.priority_inherited[u]
           /\ d.k.priority[u] = k.priority[u]
      /\ Active(x) /\ d.i.mutex_count[c] = 0 => ~d.i.priority_inherited[c]
      /\ d.i.mutex_count[c] # 0 => d.k.priority[c] = k.priority[c]
  <2> HIDE DEF x, c
  <2> QED
    BY <1>1, <1>2, UncountAdjusts
<1>4. /\ owner[x] # c
      /\ mutex[c] # NoQueue => owner[mutex[c]] # c
      /\ BalancedOf(c, inherit, owner, x) /\ ~Sleeps(k, c)
      /\ \A y \in Mutexes : c \notin ToSet(k.wait_queue[y])
  BY <1>1, <1>2, Runner, MutexFacts DEF MutexInv, ClaimsAt, ClaimsOf
<1> HIDE DEF d
<1>5. /\ d \in Pair /\ d.k \in KernelData /\ d.i \in InheritData /\ Sound(k, d.k)
      /\ Kept(k, d.k) /\ d.k.state = k.state /\ GivenBack(d, base)
  <2>1. Honest(Here, d) /\ Kept(k, d.k) /\ d.k.state = k.state
    BY <1>2, <1>3 DEF Adjusts
  <2>2. d \in Pair /\ Sound(k, d.k) /\ GivenBack(d, base)
    BY <1>2, <2>1 DEF Honest, MutexInv, MutexTypes
  <2> QED
    BY <2>1, <2>2, PairKernel
<1>6. k' = d.k /\ cont' = [cont EXCEPT ![c] = n]
  BY <1>1 DEF UpdateThen, LockedUpdate
<1>7. n \in {"user", "relock"} /\ (n = "relock" <=> mutex[c] # NoQueue)
  OBVIOUS
<1> HIDE DEF n
<1>8. IInv' /\ WaitInv' /\ NobodyLost({c})
  <2>1. ServesOthers(k, d.k, NoQueue)
    BY <1>2, <1>5 DEF ServesOthers, Kept, KeptAt, Current
  <2> QED
    BY <1>1, <1>2, <1>5, <1>7, <2>1, EndWaitServing DEF InAWait
<1> HIDE DEF x
<1>9. /\ waits'[c].queue = NoQueue /\ cont'[c] = n /\ OthersRest(c)
      /\ \A t \in Thread \ {c} : cont'[t] = cont[t]
  <2>1. cont \in [Thread -> Cont]
    BY <1>2 DEF IInv, KernelInv, TypeOK
  <2> QED
    BY <1>1, <1>2, <1>6, <2>1 DEF OthersRest, NoWait, WaitInv
<1>10. OwnersMove(c) /\ RunsOn'
  <2>1. RunsOn'
    BY <1>1, <1>5, <1>6, StillRuns
  <2> QED
    BY <1>1, <2>1 DEF OwnersMove
<1>11. \A t \in Thread : ClaimsAt(t)'
  <2>1. ClaimsOf(c, waits'[c], cont'[c], mutex'[c], owner')
    <3>1. /\ waits'[c].queue \notin Mutexes /\ waits'[c].queue \notin CondVars
          /\ cont'[c] = n /\ mutex' = mutex /\ owner' = owner
      BY <1>1, <1>9, MutexFacts
    <3> HIDE DEF c
    <3> QED
      BY <1>4, <1>7, <3>1 DEF ClaimsOf
  <2> QED
    BY <1>1, <1>2, <1>9, <1>10, <2>1, OthersClaims DEF MutexInv, MutexTypes
<1>12. BalancedOf(c, d.i, owner, NoQueue)
  <2>1. ~Active(x) => /\ d.i.mutex_count[c] = inherit.mutex_count[c]
                      /\ d.i.priority_inherited[c] = inherit.priority_inherited[c]
    BY <1>2, <1>3
  <2>2. Active(x) => d.i.mutex_count[c] = inherit.mutex_count[c] - 1
    BY <1>2, <1>3
  <2> HIDE DEF c
  <2> QED
    <3>1. /\ x \in Mutexes /\ owner[x] # c /\ NoQueue \notin Mutexes
          /\ BalancedOf(c, inherit, owner, x)
      BY <1>1, <1>2, <1>4
    <3>2. Active(x) /\ d.i.mutex_count[c] = 0 => ~d.i.priority_inherited[c]
      BY <1>3
    <3> QED
      BY <2>1, <2>2, <3>1, <3>2, NoLongerLocking
<1>13. \A t \in Thread : BalancedAt(t)' /\ inherit'.mutex_count[t] >= 0
  <2>1. \A t \in Thread : Gone(t) => Gone(t)'
    BY <1>5, <1>6 DEF Gone
  <2>2. BalancedOf(c, inherit', owner', waits'[c].queue)
    BY <1>1, <1>9, <1>12
  <2>3. \A t \in Thread \ {c} :
          /\ inherit'.mutex_count[t] = inherit.mutex_count[t]
          /\ inherit'.priority_inherited[t] = inherit.priority_inherited[t]
    BY <1>1, <1>2, <1>3
  <2> QED
    BY <1>2, <1>9, <1>10, <2>1, <2>2, <2>3, OthersBalance
<1>14. GivenBack(Here, base)'
  BY <1>1, <1>5, <1>6 DEF GivenBack, Here
<1>15. ASSUME NEW y \in Mutexes PROVE Guarded(y)' /\ Attended(y)'
  <2>1. /\ QueueKept(y, c) /\ y \in Queue /\ k' \in KernelData
        /\ c \notin ToSet(k'.wait_queue[y])
    BY <1>4, <1>5, <1>6, <1>8, MutexFacts DEF NobodyLost, QueueKept
  <2>2. c \notin Woken(y)
    BY <1>1 DEF Woken
  <2>3. ASSUME Protocol[y] = "INHERIT", c \in Guards(y)
        PROVE  c \in Guards(y)' /\ k'.priority[c] = k.priority[c]
    <3>1. owner[y] = c /\ owner'[y] = c
      BY <1>1, <2>2, <2>3 DEF Guards
    <3>2. d.i.mutex_count[c] \in Nat /\ d.i.mutex_count[c] > 0
      BY <1>12, <2>3, <3>1, HolderCounts DEF Active
    <3> QED
      BY <1>2, <1>3, <1>6, <3>1, <3>2 DEF Guards
  <2>4. k.priority[c] \in Int
    BY <1>2, MutexFacts
  <2>5. \A t \in Thread \ {c} : asked'[t] = asked[t] /\ k'.priority[t] <= k.priority[t]
    BY <1>1, <1>3, <1>6, MutexFacts
  <2>6. asked' \in [Thread -> Priority] /\ changes' = changes
    BY <1>1 DEF MutexInv, MutexTypes
  <2>7. Protocol[y] = "INHERIT" /\ c \in Guards(y) =>
          \E v \in Guards(y)' : k'.priority[v] <= k.priority[c]
    BY <2>3, <2>4
  <2>8. Guarded(y)'
    BY <1>2, <1>10, <2>1, <2>5, <2>6, <2>7, GuardedStep
  <2>9. Attended(y)'
    BY <1>1, <1>2, <2>1, <2>2, AttendedStep
  <2> QED
    BY <2>8, <2>9
<1>16. MutexTypes'
  BY <1>1, <1>5, <1>13 DEF MutexInv, MutexTypes
<1>17. MutexInv'
  BY <1>8, <1>10, <1>11, <1>13, <1>14, <1>15, <1>16 DEF MutexInv
<1>18. Follows
  <2>1. Apart(k, k', c) /\ waits[c].queue \in Mutexes /\ UNCHANGED <<owner, mutex>>
    BY <1>1, <1>5, <1>6 DEF Apart, x
  <2>2. c = Current
    OBVIOUS
  <2> HIDE DEF c
  <2> QED
    BY <1>1, <1>2, <1>8, <1>9, <2>1, <2>2, GoesAway
<1> QED
  BY <1>17, <1>18

\* The calls that change no owner and no priority.
LEMMA QuietCallInv ==
  ASSUME MutexInv, NEW name, Calling(name), NEW j, Sound(k, j), NEW q, Serves(k, j, q),
         Steady(k, j), Update(j), UNCHANGED mutexvars
  PROVE  MutexInv' /\ Follows
<1>1. /\ Current \in Target /\ Current \in Thread /\ pc = "user" /\ cont[Current] = "user"
      /\ IInv /\ WaitInv
  BY Caller, MutexFacts
<1>2. /\ k' = j /\ cont' = cont
      /\ UNCHANGED <<owner, mutex, inherit, base, asked, changes, waits>>
  BY DEF Update, LockedUpdate, ctx, mutexvars
<1>3. IInv' /\ WaitInv' /\ NobodyLost({})
  BY <1>1, <1>2, QuietCall
<1>4. RunsOn' /\ Fate
  BY <1>1, <1>2, StillRuns DEF Steady, Fate
<1>5. \A t \in Thread : ClaimsAt(t)'
  BY <1>2 DEF MutexInv, ClaimsAt
<1>6. /\ \A x \in Mutexes : Woken(x) \subseteq Woken(x)'
      /\ \A r \in Queue : ToSet(k'.wait_queue[r]) \subseteq ToSet(k.wait_queue[r])
  BY <1>3, MutexFacts DEF NobodyLost
<1>7. OthersRest(Current) /\ waits'[Current].queue = waits[Current].queue
  BY <1>2 DEF OthersRest
<1> QED
  BY <1>1, <1>2, <1>3, <1>4, <1>5, <1>6, <1>7, QuietInv

LEMMA QuietDSRInv ==
  ASSUME MutexInv, pc = "dsr", NEW j, Sound(k, j), NEW q, Serves(k, j, q),
         Steady(k, j), DeviceUpdate(j), UNCHANGED mutexvars
  PROVE  MutexInv' /\ Follows
<1>1. Current \in Thread /\ IInv /\ WaitInv
  BY MutexFacts
<1>2. /\ k' = j /\ cont' = cont /\ pc' = "dsr"
      /\ UNCHANGED <<owner, mutex, inherit, base, asked, changes, waits>>
  BY DEF DeviceUpdate, ctx, cpu, mutexvars
<1>3. IInv' /\ WaitInv' /\ NobodyLost({})
  BY <1>1, <1>2, QuietDSR
<1>4. RunsOn' /\ Fate
  BY <1>2 DEF RunsOn, Fate
<1>5. \A t \in Thread : ClaimsAt(t)'
  BY <1>2 DEF MutexInv, ClaimsAt
<1>6. /\ \A x \in Mutexes : Woken(x) \subseteq Woken(x)'
      /\ \A r \in Queue : ToSet(k'.wait_queue[r]) \subseteq ToSet(k.wait_queue[r])
  BY <1>3, MutexFacts DEF NobodyLost
<1>7. OthersRest(Current) /\ waits'[Current].queue = waits[Current].queue
  BY <1>2 DEF OthersRest
<1> QED
  BY <1>1, <1>2, <1>3, <1>4, <1>5, <1>6, <1>7, QuietInv

LEMMA CallsInv ==
  ASSUME MutexInv,
         \/ \E x \in Mutexes : MutexRelease(x)
         \/ \E q \in CondVars : CondSignal(q) \/ CondSignalDSR(q) \/ CondBroadcast(q)
  PROVE  MutexInv' /\ Follows
<1>1. KernelOK(k) /\ WaitOK(k) /\ Mutexes \subseteq Queue /\ CondVars \subseteq Queue
  BY MutexFacts
<1>2. ASSUME NEW x \in Mutexes, MutexRelease(x) PROVE MutexInv' /\ Follows
  <2> DEFINE e == ReleaseAll(k, x, k.wait_queue[x])
  <2>1. Calling("mutex_release") /\ Update(e) /\ UNCHANGED mutexvars
    BY <1>2 DEF MutexRelease, ReleaseAll
  <2>2. Sound(k, e) /\ Kept(k, e) /\ Steady(k, e)
    BY <1>1, AllReleased
  <2> HIDE DEF e
  <2> QED
    BY <2>1, <2>2, KeptServes, QuietCallInv
<1>3. ASSUME NEW q \in CondVars, CondSignal(q) PROVE MutexInv' /\ Follows
  <2> DEFINE e == WakeFirst(k, q)
  <2>1. Calling("cond_signal") /\ Update(e) /\ UNCHANGED mutexvars
    BY <1>3 DEF CondSignal
  <2>2. Sound(k, e) /\ Serves(k, e, q) /\ Steady(k, e)
    BY <1>1, WakeFirstServes, WakeFirstSteady
  <2> HIDE DEF e
  <2> QED
    BY <2>1, <2>2, QuietCallInv
<1>4. ASSUME NEW q \in CondVars, CondSignalDSR(q) PROVE MutexInv' /\ Follows
  <2> DEFINE e == WakeFirst(k, q)
  <2>1. pc = "dsr" /\ DeviceUpdate(e) /\ UNCHANGED mutexvars
    BY <1>4 DEF CondSignalDSR, DeviceCalling
  <2>2. Sound(k, e) /\ Serves(k, e, q) /\ Steady(k, e)
    BY <1>1, WakeFirstServes, WakeFirstSteady
  <2> HIDE DEF e
  <2> QED
    BY <2>1, <2>2, QuietDSRInv
<1>5. ASSUME NEW q \in CondVars, CondBroadcast(q) PROVE MutexInv' /\ Follows
  <2> DEFINE e == WakeAll(k, q, k.wait_queue[q])
  <2>1. Calling("cond_broadcast") /\ Update(e) /\ UNCHANGED mutexvars
    BY <1>5 DEF CondBroadcast, WakeAll
  <2>2. Sound(k, e) /\ Serves(k, e, q) /\ Steady(k, e)
    BY <1>1, AllWoken
  <2> HIDE DEF e
  <2> QED
    BY <2>1, <2>2, QuietCallInv
<1> QED
  BY <1>2, <1>3, <1>4, <1>5

LEMMA TryLockInv ==
  ASSUME MutexInv, NEW x \in Mutexes, MutexTryLock(x)
  PROVE  MutexInv' /\ Follows
<1> DEFINE c == Current
           d == Count(Here, x, c)
<1>1. Calling("mutex_trylock") /\ UNCHANGED <<mutex, base, asked, changes, waits>>
  BY DEF MutexTryLock
<1>2. /\ c \in Target /\ c \in Thread /\ pc = "user" /\ cont[c] = "user"
      /\ waits[c].queue = NoQueue /\ mutex[c] = NoQueue
  BY <1>1, Caller
<1>3. /\ KernelOK(k) /\ WaitOK(k) /\ IInv /\ WaitInv /\ NoQueue \notin Mutexes
      /\ c # NoThread /\ owner \in Owners
  BY <1>2, MutexFacts DEF MutexInv, MutexTypes
<1>4. CASE ~Free(x)
  <2>1. Update(k) /\ UNCHANGED mutexvars
    BY <1>4 DEF MutexTryLock, mutexvars
  <2>2. Sound(k, k) /\ Serves(k, k, NoQueue) /\ Steady(k, k)
    BY <1>3, SoundRefl, KeptRefl, KeptServes DEF Steady
  <2> QED
    BY <1>1, <2>1, <2>2, QuietCallInv
<1>5. CASE Free(x)
  <2>1. Update(d.k) /\ inherit' = d.i /\ owner' = [owner EXCEPT ![x] = c]
    BY <1>5 DEF MutexTryLock
  <2>2. owner[x] # c
    BY <1>3, <1>5 DEF Free
  <2>3. Mine(d, c) /\ BalancedOf(c, d.i, owner, x)
    BY <1>2, <2>2, CountMine
  <2> HIDE DEF d
  <2>4. Sound(k, d.k) /\ Serves(k, d.k, NoQueue)
    BY <2>3, MineFacts, KeptServes
  <2>5. k' = d.k /\ cont' = cont
    BY <2>1 DEF Update, LockedUpdate, ctx
  <2>6. IInv' /\ WaitInv' /\ NobodyLost({})
    BY <1>1, <1>2, <1>3, <2>1, <2>4, QuietCall
  <2>7. NobodyLost({c})
    BY <2>6 DEF NobodyLost
  <2>8. /\ OthersRest(c) /\ waits'[c].queue = NoQueue /\ mutex'[c] = NoQueue
        /\ mutex' \in [Thread -> Mutexes \cup {NoQueue}] /\ cont'[c] = "user"
    BY <1>1, <1>2, <2>5 DEF OthersRest, MutexInv, MutexTypes
  <2>9. owner'[x] = c /\ \A y \in Mutexes \ {x} : owner'[y] = owner[y]
    BY <1>3, <2>1 DEF Owners
  <2>10. BalancedOf(c, d.i, owner', waits'[c].queue)
    BY <1>3, <2>3, <2>8, <2>9, NowHolding
  <2>11. mutex[c] = NoQueue /\ waits[c].queue = NoQueue
    BY <1>2
  <2> HIDE DEF c
  <2>12. c = Current
    BY DEF c
  <2> QED
    BY <1>1, <1>2, <1>5, <2>1, <2>3, <2>5, <2>6, <2>7, <2>8, <2>10, <2>12, <2>11, Acquired
<1> QED
  BY <1>4, <1>5

LEMMA ChangePriorityInv ==
  ASSUME MutexInv, NEW t \in Target, NEW p \in Priority, ChangePriority(t, p)
  PROVE  MutexInv' /\ Follows
<1> DEFINE d == SetPriorityAware(Here, t, p)
<1>1. /\ Calling("change_priority") /\ Update(d.k) /\ inherit' = d.i
      /\ base' = [base EXCEPT ![t] = p] /\ changes' = changes + 1
      /\ UNCHANGED <<owner, mutex, asked, waits>>
  BY DEF ChangePriority
<1>2. /\ Current \in Target /\ Current \in Thread /\ pc = "user"
      /\ cont[Current] = "user" /\ IInv /\ WaitInv
      /\ base \in [Thread -> Priority] /\ changes \in Nat /\ t \in Thread
  BY <1>1, Caller, MutexFacts DEF MutexInv, MutexTypes, Target
<1>3. /\ d \in Pair /\ Sound(k, d.k) /\ Kept(k, d.k) /\ d.k.state = k.state
      /\ d.i.mutex_count = inherit.mutex_count
      /\ d.i.priority_inherited = inherit.priority_inherited
      /\ GivenBack(d, [base EXCEPT ![t] = p])
  <2>1. /\ Here \in Pair /\ Here.k = k /\ Here.i = inherit
        /\ KernelOK(Here.k) /\ WaitOK(Here.k) /\ GivenBack(Here, base)
    BY MutexFacts DEF MutexInv
  <2>2. /\ d \in Pair /\ Sound(Here.k, d.k) /\ Kept(Here.k, d.k)
        /\ d.k.state = Here.k.state
        /\ d.i.mutex_count = Here.i.mutex_count
        /\ d.i.priority_inherited = Here.i.priority_inherited
        /\ \A b \in [Thread -> Priority] :
             GivenBack(Here, b) => GivenBack(d, [b EXCEPT ![t] = p])
    BY <2>1, SetPriorityAwareGives
  <2> HIDE DEF d
  <2>3. GivenBack(d, [base EXCEPT ![t] = p])
    BY <1>2, <2>1, <2>2
  <2> QED
    BY <2>1, <2>2, <2>3
<1> HIDE DEF d
<1>4. k' = d.k /\ cont' = cont
  BY <1>1 DEF Update, LockedUpdate, ctx
<1>5. IInv' /\ WaitInv' /\ NobodyLost({})
  BY <1>1, <1>2, <1>3, KeptServes, QuietCall
<1>6. RunsOn'
  BY <1>2, <1>3, <1>4, StillRuns
<1>7. \A u \in Thread : ClaimsAt(u)'
  BY <1>1, <1>4 DEF MutexInv, ClaimsAt
<1>8. \A u \in Thread : BalancedAt(u)' /\ inherit'.mutex_count[u] >= 0
  <2>1. ASSUME NEW u \in Thread, ~Gone(u)'
        PROVE  BalancedOf(u, inherit', owner', waits'[u].queue)
    <3>1. BalancedOf(u, inherit, owner, waits[u].queue)
      BY <1>3, <1>4, <2>1 DEF MutexInv, BalancedAt, Gone
    <3> QED
      BY <1>1, <1>3, <3>1 DEF BalancedOf
  <2>2. \A u \in Thread : inherit'.mutex_count[u] >= 0
    BY <1>1, <1>3 DEF MutexInv, MutexTypes
  <2> QED
    BY <2>1, <2>2 DEF BalancedAt
<1>9. GivenBack(Here, base)'
  BY <1>1, <1>3, <1>4 DEF GivenBack, Here
<1>10. ASSUME NEW x \in Mutexes PROVE Guarded(x)' /\ Attended(x)'
  <2>1. Guarded(x)'
    BY <1>1, <1>2 DEF Guarded
  <2>2. /\ Woken(x) \subseteq Woken(x)'
        /\ ToSet(k'.wait_queue[x]) \subseteq ToSet(k.wait_queue[x])
    BY <1>5, MutexFacts DEF NobodyLost
  <2>3. k'.wait_queue[x] # <<>> => k.wait_queue[x] # <<>>
    BY <1>3, <1>4, <2>2, MutexFacts, StillQueued DEF Sound, KernelOK
  <2> QED
    BY <1>1, <2>1, <2>2, <2>3 DEF MutexInv, Attended, Free
<1>11. MutexTypes'
  <2>1. d.i \in InheritData /\ base' \in [Thread -> Priority] /\ changes' \in Nat
    BY <1>1, <1>2, <1>3, PairKernel
  <2> QED
    BY <1>1, <1>8, <2>1 DEF MutexInv, MutexTypes
<1>12. MutexInv'
  BY <1>5, <1>6, <1>7, <1>8, <1>9, <1>10, <1>11 DEF MutexInv
<1>13. Follows
  <2>1. ASSUME NEW u \in Thread PROVE Stayed(u)
    <3>1. (Gone(u)' <=> Gone(u)) /\ (Asleep(u)' <=> Asleep(u))
      BY <1>3, <1>4 DEF Gone, Asleep
    <3> QED
      BY <1>1, <3>1, SamePlace
  <2> QED
    BY <1>1, <2>1, AllRoused
<1> QED
  BY <1>12, <1>13

\* The steps between the end of a condition wait and the loop that locks the
\* mutex again.
LEMMA CondWaitsOn ==
  ASSUME MutexInv, pc = "user", cont[Current] \in {"cond", "condtimer"}
  PROVE  /\ Current \in Target /\ Current \in Thread
         /\ waits[Current].queue \in CondVars /\ waits[Current].queue \notin Mutexes
         /\ mutex[Current] # NoQueue /\ owner[mutex[Current]] # Current
         /\ \A x \in Mutexes : Current \notin Woken(x)
<1>1. Current \in Target /\ Current \in Thread
  BY MutexFacts, CallerIsTarget DEF IInv
<1>2. waits[Current].queue \in Queue
  BY <1>1 DEF MutexInv, WaitInv, InAWait
<1>3. /\ waits[Current].queue \in CondVars /\ waits[Current].queue \notin Mutexes
      /\ mutex[Current] # NoQueue /\ owner[mutex[Current]] # Current
  BY <1>1, <1>2, MutexAssumption DEF MutexInv, ClaimsAt, ClaimsOf
<1> QED
  BY <1>1, <1>3 DEF Woken

LEMMA ClearTimerInv ==
  ASSUME MutexInv, CondClearTimer
  PROVE  MutexInv' /\ Follows
<1> DEFINE c == Current
           e == ClearTimer(k, c)
<1>1. /\ pc = "user" /\ cont[c] = "condtimer" /\ UpdateThen(e, "cond")
      /\ UNCHANGED <<owner, mutex, inherit, base, asked, changes, waits>>
  BY DEF CondClearTimer, mutexvars
<1>2. /\ c \in Target /\ c \in Thread /\ waits[c].queue \notin Mutexes
      /\ mutex[c] # NoQueue /\ owner[mutex[c]] # c /\ IInv /\ WaitInv
      /\ KernelOK(k) /\ WaitOK(k) /\ ~Sleeps(k, c)
  BY <1>1, CondWaitsOn, MutexFacts, Runner
<1>3. Sound(k, e) /\ Kept(k, e) /\ Steady(k, e)
  BY <1>2, TimerSound, ClearTimerKept, ReasonSteady DEF Reason
<1> HIDE DEF e
<1>4. k' = e /\ cont' = [cont EXCEPT ![c] = "cond"] /\ cont \in [Thread -> Cont]
  BY <1>1, <1>2 DEF UpdateThen, LockedUpdate, IInv, KernelInv, TypeOK
<1>5. IInv'
  BY <1>1, <1>2, <1>3, UpdateIInv DEF Cont, Claiming
<1>6. WaitInv' /\ NobodyLost({})
  <2>1. Serves(k, k', NoQueue)
    BY <1>3, <1>4, KeptServes
  <2>2. \A t \in Thread : cont'[t] \in InAWait <=> cont[t] \in InAWait
    BY <1>1, <1>2, <1>4 DEF InAWait
  <2>3. Current' = c /\ ~Sleeps(k', c)
    BY <1>2, <1>3, <1>4 DEF Sound, Current, Kept, KeptAt, StillWaits
  <2> QED
    BY <1>1, <1>2, <2>1, <2>2, <2>3, KeptWaits
<1>7. RunsOn' /\ Fate
  BY <1>1, <1>3, <1>4, StillRuns DEF Steady, Fate
<1>8. \A t \in Thread : ClaimsAt(t)'
  <2>1. ClaimsOf(c, waits'[c], cont'[c], mutex'[c], owner')
    BY <1>1, <1>2, <1>4 DEF MutexInv, ClaimsAt, ClaimsOf
  <2>2. \A t \in Thread \ {c} : cont'[t] = cont[t]
    BY <1>4
  <2> QED
    BY <1>1, <2>1, <2>2 DEF MutexInv, ClaimsAt
<1>9. /\ \A x \in Mutexes : Woken(x) \subseteq Woken(x)'
      /\ \A r \in Queue : ToSet(k'.wait_queue[r]) \subseteq ToSet(k.wait_queue[r])
  BY <1>6, MutexFacts DEF NobodyLost
<1>10. OthersRest(c) /\ waits'[c].queue = waits[c].queue
  BY <1>1 DEF OthersRest
<1> QED
  BY <1>1, <1>2, <1>5, <1>6, <1>7, <1>8, <1>9, <1>10, QuietInv

LEMMA CondWokenInv ==
  ASSUME MutexInv, CondWoken
  PROVE  MutexInv' /\ Follows
<1> DEFINE c == Current
<1>1. /\ pc = "user" /\ cont[c] = "cond"
      /\ cont' = [cont EXCEPT ![c] = "relock"] /\ waits' = [waits EXCEPT ![c] = NoWait]
      /\ UNCHANGED <<k, cpu, saved, fresh, held, dsrs>>
      /\ UNCHANGED <<owner, mutex, inherit, base, asked, changes>>
  BY DEF CondWoken
<1>2. /\ c \in Target /\ c \in Thread /\ waits[c].queue \notin Mutexes
      /\ mutex[c] # NoQueue /\ owner[mutex[c]] # c /\ IInv /\ WaitInv
      /\ KernelOK(k) /\ WaitOK(k) /\ ~Sleeps(k, c) /\ c # Idle
      /\ NoQueue \notin Queue /\ \A x \in Mutexes : c \notin Woken(x)
  BY <1>1, CondWaitsOn, MutexFacts, Runner DEF Target
<1>3. /\ k' = k /\ cont \in [Thread -> Cont] /\ pc' = pc /\ Current' = c
      /\ waits \in [Thread -> [queue : Queue \cup {NoQueue}, timed : BOOLEAN]]
  BY <1>1, <1>2 DEF IInv, KernelInv, TypeOK, WaitInv, cpu, Current
<1>4. IInv'
  <2>1. TypeOK' /\ KernelOK(k') /\ cont'[Idle] = "user"
    BY <1>1, <1>2, <1>3
    DEF IInv, KernelInv, TypeOK, Cont, cpu, dsrs
  <2>2. Settled'
    BY <1>1, <1>2, <1>3 DEF IInv, Settled, cpu
  <2>3. LockOK'
    <3>1. \A t \in Thread : LockDepth(t)' = LockDepth(t)
      BY <1>1, <1>3 DEF LockDepth, Claiming
    <3>2. UNCHANGED <<pc, sched_lock, new_lock, saved, fresh>>
      BY <1>1 DEF cpu
    <3> QED
      <4>1. LockOK
        BY <1>2 DEF IInv
      <4>2. LockDepth(Current)' = LockDepth(Current) /\ Current' = Current
        BY <1>2, <1>3, <3>1
      <4>3. pc = "user" /\ pc' = "user"
        BY <1>1, <1>3
      <4>4. /\ Current' \notin fresh' /\ sched_lock' = LockDepth(Current)'
        BY <4>1, <4>2, <4>3, <3>2 DEF LockOK
      <4>5. /\ \A t \in fresh' : t \in Thread => LockDepth(t)' = 0
            /\ \A t \in Thread \ fresh' : t # Current' => saved'[t] = LockDepth(t)'
        BY <4>1, <4>2, <3>1, <3>2 DEF LockOK
      <4>6. fresh' \subseteq Thread
        BY <1>2, <3>2 DEF IInv, KernelInv, TypeOK
      <4> QED
        BY <4>3, <4>4, <4>5, <4>6 DEF LockOK, Unlocking
  <2> QED
    BY <2>1, <2>2, <2>3 DEF IInv, KernelInv
<1>5. /\ WaitInv'
      /\ \A r \in Mutexes : /\ Woken(r) \ {c} \subseteq Woken(r)'
                            /\ ToSet(k'.wait_queue[r]) \subseteq ToSet(k.wait_queue[r])
  <2>1. /\ WaitOK(k') /\ ~Sleeps(k', c) /\ "SLEEPING" \notin k'.state[c]
        /\ \A t \in Thread \ {c} : KeptAt(k, k', t) \/ ServedAt(k, k', t, NoQueue)
    BY <1>2, <1>3, KeptRefl DEF Kept, Sleeps, SLEEPSET
  <2>2. "relock" \in Cont /\ "relock" \notin InAWait
    BY DEF Cont, InAWait
  <2>3. waits' = [waits EXCEPT ![c] = Wait(NoQueue, FALSE)]
    BY <1>1 DEF NoWait, Wait
  <2>4. WaitInv' /\ \A r \in Queue : Woken(r) \ {c} \subseteq Woken(r)'
    BY <1>1, <1>2, <1>3, <2>1, <2>2, <2>3, MoveWaits
  <2> QED
    BY <1>3, <2>4, MutexFacts
<1>6. RunsOn' /\ Fate
  <2>1. Steady(k, k')
    BY <1>3 DEF Steady
  <2> QED
    BY <1>1, <1>2, <1>3, <2>1, StillRuns DEF Fate, Sound
<1>7. ~Asleep(c)
  BY <1>2 DEF Sleeps, SLEEPSET, Asleep
<1>8. /\ OthersRest(c) /\ waits'[c].queue = NoQueue /\ cont'[c] = "relock"
      /\ \A t \in Thread \ {c} : cont'[t] = cont[t]
  BY <1>1, <1>2, <1>3 DEF OthersRest, NoWait
<1>9. \A t \in Thread : ClaimsAt(t)'
  <2>1. ClaimsOf(c, waits'[c], cont'[c], mutex'[c], owner')
    BY <1>1, <1>2, <1>8, MutexFacts DEF ClaimsOf
  <2> QED
    BY <1>1, <1>8, <2>1 DEF MutexInv, ClaimsAt, OthersRest
<1>10. /\ \A x \in Mutexes : Woken(x) \subseteq Woken(x)'
      /\ \A r \in Queue : ToSet(k'.wait_queue[r]) \subseteq ToSet(k.wait_queue[r])
  BY <1>2, <1>3, <1>5
<1> QED
  BY <1>1, <1>2, <1>4, <1>5, <1>6, <1>8, <1>9, <1>10, <1>7, QuietInv

\* A wait that a kill ended: the thread exits.
LEMMA DeadInv ==
  ASSUME MutexInv, IInv', WaitInv', Current \in Target, pc = "user", pc' = "unlock",
         k.wake_reason[Current] = "EXIT", k' = Exit(k),
         cont' = [cont EXCEPT ![Current] = "dead"],
         waits' = [waits EXCEPT ![Current] = NoWait],
         UNCHANGED <<owner, mutex, inherit, base, asked, changes>>
  PROVE  MutexInv' /\ Follows
<1> DEFINE c == Current
<1>1. /\ c \in Thread /\ KernelOK(k) /\ WaitOK(k) /\ ~Sleeps(k, c)
      /\ IInv /\ WaitInv /\ NoQueue \notin Queue
  BY MutexFacts, Runner
<1>2. Dies(k, k', c) /\ Kept(k, k')
  BY <1>1, ExitDies, ExitKept DEF Current
<1>3. Fate /\ RunsOn'
  BY <1>2 DEF Fate, RunsOn
<1>4. /\ OthersRest(c) /\ waits'[c].queue = NoQueue /\ cont'[c] = "dead"
      /\ \A t \in Thread \ {c} : cont'[t] = cont[t]
  <2>1. /\ cont \in [Thread -> Cont]
        /\ waits \in [Thread -> [queue : Queue \cup {NoQueue}, timed : BOOLEAN]]
    BY <1>1 DEF IInv, KernelInv, TypeOK, WaitInv
  <2> QED
    BY <1>1, <2>1 DEF OthersRest, NoWait
<1>5. \A t \in Thread : ClaimsAt(t)'
  <2>1. ClaimsOf(c, waits'[c], cont'[c], mutex'[c], owner')
    <3>1. mutex[c] # NoQueue => owner[mutex[c]] # c
      BY <1>1 DEF MutexInv, ClaimsAt, ClaimsOf
    <3> QED
      BY <1>4, <3>1, MutexFacts DEF ClaimsOf
  <2> QED
    BY <1>4, <2>1 DEF MutexInv, ClaimsAt, OthersRest
<1>6. ASSUME NEW x \in Queue
      PROVE  /\ Woken(x) \subseteq Woken(x)'
             /\ ToSet(k'.wait_queue[x]) \subseteq ToSet(k.wait_queue[x])
  <2>1. x # NoQueue /\ c \notin Woken(x)
    BY MutexFacts DEF Woken
  <2>2. ASSUME NEW t \in Thread PROVE k'.queue[t] = x => k.queue[t] = x
    <3>1. KeptAt(k, k', t) /\ WaitOKAt(k', t)
      BY <1>2 DEF Kept, WaitOK
    <3> QED
      BY <2>1, <3>1 DEF KeptAt, StillWaits, WaitOKAt
  <2>3. ToSet(k'.wait_queue[x]) \subseteq ToSet(k.wait_queue[x])
    BY <1>1, <1>2, <2>1, <2>2, QueuesShrink DEF Kept
  <2>4. ASSUME NEW t \in Woken(x) PROVE t \in Woken(x)'
    <3>1. t \in Thread /\ t # c /\ waits'[t] = waits[t] /\ waits[t].queue # NoQueue
      BY <1>4, <2>1, <2>4 DEF Woken, OthersRest
    <3>2. KeptAt(k, k', t) /\ k.sleep_reason[t] = "NONE"
      BY <1>1, <1>2, <2>4, <3>1 DEF Kept, WaitInv, Woken
    <3> QED
      BY <2>4, <3>1, <3>2 DEF Woken, KeptAt, StillWaits, Asleep
  <2> QED
    BY <2>3, <2>4
<1> QED
  BY <1>1, <1>2, <1>3, <1>4, <1>5, <1>6, MutexFacts, QuietInv DEF Dies

LEMMA ExitsInv ==
  ASSUME MutexInv,
         \/ CondExit
         \/ WokenToExit /\ UNCHANGED <<owner, mutex, inherit, base, asked, changes>>
  PROVE  MutexInv' /\ Follows
<1>1. KernelOK(k) /\ WaitOK(k) /\ IInv /\ WaitInv
  BY MutexFacts
<1>2. CASE WokenToExit /\ UNCHANGED <<owner, mutex, inherit, base, asked, changes>>
  <2>1. /\ pc = "user" /\ pc' = "unlock" /\ k.wake_reason[Current] = "EXIT"
        /\ k' = Exit(k) /\ cont[Current] = "wait"
        /\ cont' = [cont EXCEPT ![Current] = "dead"]
        /\ waits' = [waits EXCEPT ![Current] = NoWait]
    BY <1>2 DEF WokenToExit, InWait, UnlockInner
  <2>2. Current \in Target
    BY <1>1, <2>1, CallerIsTarget DEF IInv
  <2>3. IInv' /\ WaitInv'
    BY <1>1, <1>2, ExitWait
  <2> QED
    BY <1>2, <2>1, <2>2, <2>3, DeadInv
<1>3. CASE CondExit
  <2>1. /\ pc = "user" /\ k.wake_reason[Current] = "EXIT" /\ cont[Current] = "cond"
        /\ RescheduleThen(Exit(k), "dead")
        /\ waits' = [waits EXCEPT ![Current] = NoWait]
        /\ UNCHANGED <<owner, mutex, inherit, base, asked, changes>>
    BY <1>3 DEF CondExit
  <2>2. /\ pc' = "unlock" /\ k' = Exit(k) /\ cont' = [cont EXCEPT ![Current] = "dead"]
    BY <2>1 DEF RescheduleThen, UnlockInner
  <2>3. Current \in Target /\ Current \in Thread /\ ~Sleeps(k, Current)
    BY <2>1, CondWaitsOn, Runner
  <2>4. Sound(k, k') /\ Kept(k, k')
    BY <1>1, <2>2, <2>3, ExitSound, ExitKept DEF Current
  <2>5. IInv'
    BY <1>1, <2>1, <2>2, <2>3, <2>4, UpdateIInv DEF Claiming
  <2>6. WaitInv'
    <3>1. /\ WaitOK(k') /\ Current' = Current /\ "SLEEPING" \notin k'.state[Current]
          /\ \A t \in Thread \ {Current} : KeptAt(k, k', t) \/ ServedAt(k, k', t, NoQueue)
      <4>1. Current' = Current /\ WaitOK(k') /\ \A t \in Thread : KeptAt(k, k', t)
        BY <2>4 DEF Sound, Kept, Current
      <4> QED
        BY <2>3, <4>1 DEF KeptAt, StillWaits, Sleeps, SLEEPSET
    <3>2. "dead" \in Cont /\ "dead" \notin InAWait
      BY DEF Cont, InAWait
    <3>3. waits' = [waits EXCEPT ![Current] = Wait(NoQueue, FALSE)]
      BY <2>1 DEF NoWait, Wait
    <3>4. cont \in [Thread -> Cont]
      BY <1>1 DEF IInv, KernelInv, TypeOK
    <3> QED
      BY <1>1, <2>2, <2>3, <3>1, <3>2, <3>3, <3>4, MoveWaits
  <2> QED
    BY <2>1, <2>2, <2>3, <2>5, <2>6, DeadInv
<1> QED
  BY <1>2, <1>3

\* The scheduler's own steps, and the calls that are not of mutexes.
LEMMA SchedulerInv ==
  ASSUME MutexInv, [Next]_vars, UNCHANGED mutexvars
  PROVE  MutexInv' /\ Follows
<1>1. /\ IInv /\ WaitInv /\ Current \in Thread
      /\ UNCHANGED <<owner, mutex, inherit, base, asked, changes, waits>>
  BY MutexFacts DEF mutexvars
<1>2. IInv' /\ WaitInv' /\ NobodyLost({})
  BY <1>1, NextIInv, WaitStep
<1>3. Fate /\ Unmoved /\ RunsNext
  BY <1>1, SchedulerStep
<1>4. RunsOn'
  <2> SUFFICES ASSUME pc' \in {"boot", "user"}
               PROVE  "EXITED" \notin k'.state[Current']
    BY DEF RunsOn, Gone
  <2>1. pc \in {"boot", "user", "zero", "recheck"} /\ Current' = Current
    BY <1>3 DEF RunsNext
  <2>2. "EXITED" \notin k.state[Current]
    <3>1. CASE pc \in {"boot", "user"}
      BY <3>1 DEF MutexInv, RunsOn, Gone
    <3>2. CASE pc \in {"zero", "recheck"}
      BY <1>1, <3>2 DEF IInv, Settled, Running, RUNNING
    <3> QED
      BY <2>1, <3>1, <3>2
  <2>3. CASE Steady(k, k')
    BY <1>1, <2>1, <2>2, <2>3 DEF Steady
  <2>4. ASSUME NEW t \in Target, Dies(k, k', t), pc' = "unlock" \/ t # Current
        PROVE  "EXITED" \notin k'.state[Current']
    BY <1>1, <2>1, <2>2, <2>4 DEF Dies
  <2> QED
    BY <1>3, <2>3, <2>4 DEF Fate
<1>5. ASSUME NEW t \in Thread PROVE ClaimsAt(t)'
  <2>1. ClaimsOf(t, waits[t], cont[t], mutex[t], owner)
    BY DEF MutexInv, ClaimsAt
  <2>2. \/ cont'[t] = cont[t]
        \/ cont[t] \notin InMutex \cup {"dead"} /\ cont'[t] \notin InMutex
    BY <1>3 DEF Unmoved
  <2>3. ClaimsOf(t, waits[t], cont'[t], mutex[t], owner)
    BY <2>1, <2>2 DEF ClaimsOf, InMutex
  <2> QED
    BY <1>1, <2>3 DEF ClaimsAt
<1>6. /\ \A x \in Mutexes : Woken(x) \subseteq Woken(x)'
      /\ \A r \in Queue : ToSet(k'.wait_queue[r]) \subseteq ToSet(k.wait_queue[r])
  BY <1>2, MutexFacts DEF NobodyLost
<1>7. OthersRest(Current) /\ waits'[Current].queue = waits[Current].queue
  BY <1>1 DEF OthersRest
<1> QED
  BY <1>1, <1>2, <1>3, <1>4, <1>5, <1>6, <1>7, QuietInv

LEMMA MutexNextInv == MutexInv /\ [MutexNext]_<<vars, mutexvars>> => MutexInv' /\ Follows
<1> SUFFICES ASSUME MutexInv, [MutexNext]_<<vars, mutexvars>>
             PROVE  MutexInv' /\ Follows
  OBVIOUS
<1>1. ASSUME [Next]_vars, UNCHANGED mutexvars PROVE MutexInv' /\ Follows
  BY <1>1, SchedulerInv
<1>2. CASE MutexBrokenOff
  BY <1>2, BrokenOffInv
<1>3. CASE CondClearTimer
  BY <1>3, ClearTimerInv
<1>4. CASE CondWoken
  BY <1>4, CondWokenInv
<1>5. CASE \/ CondExit
           \/ WokenToExit /\ UNCHANGED <<owner, mutex, inherit, base, asked, changes>>
  BY <1>5, ExitsInv
<1>6. CASE MutexWokenToRetry \/ CondRelock \/ \E x \in Mutexes : MutexLock(x)
  BY <1>6, LocksInv
<1>7. ASSUME NEW x \in Mutexes,
             \/ MutexTryLock(x) \/ MutexUnlock(x)
             \/ \E q \in CondVars : CondWait(q, x) \/ CondTimedWait(q, x)
      PROVE  MutexInv' /\ Follows
  BY <1>7, TryLockInv, UnlockInv, CondWaitInv
<1>8. CASE \/ \E x \in Mutexes : MutexRelease(x)
           \/ \E q \in CondVars : CondSignal(q) \/ CondSignalDSR(q) \/ CondBroadcast(q)
  BY <1>8, CallsInv
<1>9. ASSUME NEW t \in Target, NEW p \in Priority, ChangePriority(t, p)
      PROVE  MutexInv' /\ Follows
  BY <1>9, ChangePriorityInv
<1>10. MutexNext \/ ([Next]_vars /\ UNCHANGED mutexvars)
  OBVIOUS
<1>11. ASSUME MutexStep PROVE MutexInv' /\ Follows
  BY <1>2, <1>3, <1>4, <1>5, <1>6, <1>7, <1>8, <1>9, <1>11 DEF MutexStep
<1> QED
  BY <1>1, <1>10, <1>11 DEF MutexNext

LEMMA InitialMutexInv == MutexInit => MutexInv
<1> SUFFICES ASSUME MutexInit PROVE MutexInv
  OBVIOUS
<1>1. /\ Init /\ IInv /\ waits = [t \in Thread |-> NoWait]
      /\ owner = [x \in Mutexes |-> NoThread] /\ mutex = [t \in Thread |-> NoQueue]
      /\ base = InitPriority /\ asked = InitPriority /\ changes = 0
      /\ inherit = [mutex_count        |-> [t \in Thread |-> 0],
                    priority_inherited |-> [t \in Thread |-> FALSE],
                    original_priority  |-> InitPriority]
  BY InitIInv DEF MutexInit
<1>2. /\ k = InitialData /\ cont = [t \in Thread |-> "user"]
      /\ InitPriority \in [Thread -> Priority] /\ Idle \in Thread
      /\ NoQueue \notin Queue /\ Mutexes \subseteq Queue /\ CondVars \subseteq Queue
      /\ NoThread \notin Thread
  BY <1>1, ThreadAssumption, MutexAssumption DEF Init
<1>3. WaitInv
  BY <1>1, WaitInit
<1>4. MutexTypes
  <2>1. inherit \in InheritData
    BY <1>1, <1>2 DEF InheritData
  <2> QED
    BY <1>1, <1>2, <2>1 DEF MutexTypes, Owners
<1>5. RunsOn
  BY <1>2 DEF RunsOn, Gone, Current, InitialData, RUNNING
<1>6. \A t \in Thread : ClaimsAt(t)
  BY <1>1, <1>2 DEF ClaimsAt, ClaimsOf, NoWait
<1>7. ASSUME NEW t \in Thread PROVE BalancedAt(t)
  <2>1. HoldingOf(t, owner, waits[t].queue) = {}
    BY <1>1, <1>2, <1>7 DEF HoldingOf, NoWait
  <2>2. inherit.mutex_count[t] = 0 /\ ~inherit.priority_inherited[t]
    BY <1>1, <1>7
  <2> QED
    BY <2>1, <2>2, FS_EmptySet DEF BalancedAt, BalancedOf
<1>8. GivenBack(Here, base)
  <2>1. Here.k.priority = InitPriority /\ Here.i = inherit
    BY <1>2 DEF Here, InitialData
  <2> QED
    BY <1>1, <2>1 DEF GivenBack
<1>9. ASSUME NEW x \in Mutexes PROVE Guarded(x) /\ Attended(x)
  <2>1. k.wait_queue[x] = <<>> /\ ToSet(k.wait_queue[x]) = {}
    BY <1>2, <1>9, EmptyList DEF InitialData
  <2> QED
    BY <2>1 DEF Guarded, Attended
<1> QED
  BY <1>1, <1>3, <1>4, <1>5, <1>6, <1>7, <1>8, <1>9 DEF MutexInv

\* The inductive invariant: it holds whatever threads, interrupts and devices
\* do and in whatever order.
THEOREM MutexInvariance == MutexSpec => []MutexInv
<1> QED
  BY InitialMutexInv, MutexNextInv, PTL DEF MutexSpec

\* Every variable keeps its type and no mutex count becomes negative (mutex.cxx,
\* thread.hxx).
THEOREM MutexTypeCorrect == MutexSpec => []MutexTypeOK
<1>1. MutexInv => MutexTypeOK
  BY DEF MutexInv, MutexTypes, MutexTypeOK, Owners, Target, IInv, KernelInv, WaitInv
<1> QED
  BY <1>1, MutexInvariance, PTL

\* Whatever priorities inheritance lends and takes back, a thread that runs
\* unlocked is runnable and no runnable thread is better (sched.cxx, thread.cxx).
THEOREM MutexTopPriority == MutexSpec => []TopPriorityRuns
<1>1. MutexInv => TopPriorityRuns
  BY DEF MutexInv, IInv, KernelInv, KernelOK, Settled, PreemptionNoted,
     TopPriorityRuns, Current
<1> QED
  BY <1>1, MutexInvariance, PTL

\* A thread has the scheduler lock again as it left it when it comes out of the
\* waits of mutexes and condition variables (sched.cxx, unlock_inner).
THEOREM MutexLockPerThread == MutexSpec => []LockIsPerThread
<1>1. MutexInv => LockIsPerThread
  BY DEF MutexInv, IInv, LockOK, LockIsPerThread
<1> QED
  BY <1>1, MutexInvariance, PTL

\* The queue of a mutex or a condition variable holds exactly the threads that
\* sleep in a wait on it (mutex.cxx, mlqueue.cxx).
THEOREM MutexWaitersExact == MutexSpec => []WaitersExact
<1>1. MutexInv => WaitersExact
  BY ExactWaiters DEF MutexInv
<1> QED
  BY <1>1, MutexInvariance, PTL

\* The mutex count is that of the mutexes that a thread owns or is locking, and
\* at zero nothing is inherited (lock(), trylock(), unlock(), wait_inner()).
THEOREM CountsBalance == MutexSpec => []InheritanceBalanced
<1>1. ASSUME MutexInv PROVE InheritanceBalanced
  <2> SUFFICES ASSUME NEW t \in Thread, ~Gone(t)
               PROVE  /\ inherit.mutex_count[t] =
                           Cardinality({x \in Mutexes :
                             Active(x) /\ (owner[x] = t \/ waits[t].queue = x)})
                      /\ inherit.mutex_count[t] = 0 => ~inherit.priority_inherited[t]
    BY DEF InheritanceBalanced
  <2>1. BalancedOf(t, inherit, owner, waits[t].queue)
    BY <1>1 DEF MutexInv, BalancedAt
  <2> QED
    BY <2>1 DEF BalancedOf, HoldingOf
<1> QED
  BY <1>1, MutexInvariance, PTL

\* A thread's own priority is never lost to inheritance (set_inherited_priority,
\* clear_inherited_priority, set_priority: sched.cxx, thread.cxx).
THEOREM OwnPriorityKept == MutexSpec => []PriorityGivenBack
<1>1. ASSUME MutexInv PROVE PriorityGivenBack
  <2>1. GivenBack(Here, base) /\ Here.k = k /\ Here.i = inherit
    BY <1>1, MutexFacts DEF MutexInv
  <2> QED
    BY <2>1 DEF GivenBack, PriorityGivenBack
<1> QED
  BY <1>1, MutexInvariance, PTL

\* While a thread is queued on a mutex with inheritance, the owner or a thread
\* woken to lock it has a priority as good (inherit_priority, relay_priority).
THEOREM InversionBounded == MutexSpec => []NoInversion
<1>1. MutexInv => NoInversion
  BY DEF MutexInv, Guarded, Guards, NoInversion
<1> QED
  BY <1>1, MutexInvariance, PTL

\* While threads sleep on a free mutex, one was woken to lock it (unlock()).
THEOREM WaitersAttended == MutexSpec => []NoWaiterStranded
<1>1. MutexInv => NoWaiterStranded
  BY DEF MutexInv, Attended, NoWaiterStranded
<1> QED
  BY <1>1, MutexInvariance, PTL

\* Mutexes and condition variables implement the monitor: one owner at a time,
\* who alone gives the mutex up; giving it up and starting to wait is one step;
\* and every condition wait ends with the mutex (lock(), unlock(), wait_inner()).
THEOREM MutexImplementsMonitor == MutexSpec => ImplementsMonitor
<1>1. ASSUME MutexInit PROVE Promise!Init
  <2>1. MutexInv /\ mutex = [t \in Thread |-> NoQueue] /\ waits = [t \in Thread |-> NoWait]
    BY <1>1, InitialMutexInv DEF MutexInit
  <2>2. NoQueue \notin Mutexes /\ \A t \in Thread : ~Gone(t)
    BY <1>1, <2>1, MutexFacts DEF MutexInit, Init, InitialData, Gone, RUNNING
  <2>3. \A t \in Thread : Place(t) = "outside" /\ Wanted(t) = NoQueue
    BY <2>1, <2>2, PlaceSeen DEF Seen, PlaceOf, WantedOf, NoWait
  <2> QED
    BY <1>1, <2>3 DEF MutexInit, Promise!Init
<1>2. MutexInv /\ [MutexNext]_<<vars, mutexvars>> => [Promise!Next]_Promise!monitor
  BY MutexNextInv DEF Follows
<1> QED
  BY <1>1, <1>2, MutexInvariance, PTL DEF MutexSpec, ImplementsMonitor, Promise!Spec
==============================================================================
