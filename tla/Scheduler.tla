------------------------------ MODULE Scheduler ------------------------------
(***************************************************************************)
(* One CPU running eCos threads: the scheduler lock, unlock_inner() with   *)
(* its DSR calls and context switch, interrupts that post DSRs at any      *)
(* moment, and the thread API.                                             *)
(*                                                                         *)
(* pc says where the CPU is:                                               *)
(*   "boot"    cyg_user_start, before Cyg_Scheduler::start                 *)
(*   "user"    a thread's own code, or kernel code of it before the call   *)
(*             of unlock_inner or after its return                         *)
(*   "unlock"  at the head of the loop of unlock_inner(new_lock)           *)
(*   "dsr"     in call_pending_DSRs                                        *)
(*   "resched" at the test for a reschedule                                *)
(*   "zero"    past the switch, about to give the lock its new value       *)
(*   "recheck" the lock is zero, about to look for DSRs posted meanwhile   *)
(***************************************************************************)
EXTENDS ThreadOps

CONSTANTS
  Intr,         \* the interrupts (Cyg_Interrupt objects), the clock's included
  Clock,        \* the real time clock's
  NoIntr,       \* no DSR is executing
  Calls,        \* what each application thread calls
  DsrCalls,     \* what the devices' DSRs call
  MaxHeld,      \* bound: cyg_scheduler_lock() calls nested by a thread
  MaxSuspend,   \* bound on suspend_count
  MaxWakeup,    \* bound on wakeup_count
  MaxPosts      \* bound on dsr_count

ASSUME SchedulerAssumption ==
  /\ Clock \in Intr
  /\ NoIntr \notin Intr
  /\ MaxHeld \in Nat
  /\ MaxSuspend \in Nat
  /\ MaxWakeup \in Nat
  /\ MaxPosts \in Nat

VARIABLES
  k,           \* what the scheduler lock protects, see ThreadOps
  pc,          \* where the CPU is
  sched_lock,  \* Cyg_Scheduler_SchedLock::sched_lock
  new_lock,    \* the argument of the unlock_inner being executed
  saved,       \* ... and of the one each descheduled thread is inside
  fresh,       \* threads that have not been through thread_entry
  held,        \* claims of the lock each thread has to undo, its call's own aside
  cont,        \* what each thread does next once it runs
  dsr_list,    \* dsr_list .. dsr_list_tail
  dsr_batch,   \* the list call_pending_DSRs_inner detached
  dsr_count,   \* Cyg_Interrupt::dsr_count
  dsr_active   \* the interrupt whose DSR is executing

cpu  == <<pc, sched_lock, new_lock>>
ctx  == <<saved, fresh, held, cont>>
dsrs == <<dsr_list, dsr_batch, dsr_count, dsr_active>>
vars == <<k, cpu, ctx, dsrs>>

Current == k.current_thread

\* What follows the return of unlock_inner: the thread's own code; the rest
\* of delay(); of counted_sleep(delay); the test of wake_reason that ends
\* those calls; the loop of a synchronization object's wait, in the modules
\* that add them; the rest of a condition variable's wait(timeout), of its
\* wait(), the loop that locks the mutex again; nothing, after exit().
Cont == {"user", "delay", "csleep", "check", "wait", "condtimer", "cond",
         "relock", "dead"}

\* Those reached with the call's own claim of the lock still standing.
Claiming == {"csleep", "wait", "dead"}

Init ==
  /\ k = InitialData
  /\ pc = "boot"
  /\ sched_lock = 1
  /\ new_lock = 0
  /\ saved = [t \in Thread |-> 0]
  /\ fresh = Thread
  /\ held = [t \in Thread |-> 0]
  /\ cont = [t \in Thread |-> "user"]
  /\ dsr_list = <<>>
  /\ dsr_batch = <<>>
  /\ dsr_count = [i \in Intr |-> 0]
  /\ dsr_active = NoIntr
------------------------------------------------------------------------------
(***************************************************************************)
(* Start-up.                                                               *)
(***************************************************************************)
\* cyg_user_start resumes threads it created; the lock is 1, so the unlock
\* in resume() only decrements it back to 1.
BootResume(t) ==
  /\ pc = "boot"
  /\ k.suspend_count[t] > 0
  /\ k' = Resume(k, t)
  /\ UNCHANGED <<cpu, ctx, dsrs>>

\* Cyg_Scheduler::thread_entry: a first run starts with a fresh timeslice
\* and unlocks until the lock is zero.
Enter(j, t) ==
  [j EXCEPT !.current_thread  = t,
            !.need_reschedule = FALSE,
            !.timeslice[t]    = TimesliceTicks,
            !.timeslice_count = TimesliceTicks]

\* A thread continues after HAL_THREAD_SWITCH_CONTEXT.
Continue(j, t) ==
  [j EXCEPT !.current_thread  = t,
            !.need_reschedule = FALSE,
            !.timeslice_count = j.timeslice[t]]

StartScheduler ==
  /\ pc = "boot"
  /\ k' = Enter(k, Schedule(k))
  /\ fresh' = fresh \ {Schedule(k)}
  /\ pc' = "unlock"
  /\ UNCHANGED <<sched_lock, new_lock, saved, held, cont, dsrs>>
------------------------------------------------------------------------------
(***************************************************************************)
(* Interrupts and DSRs (intr.cxx).                                         *)
(***************************************************************************)
\* The call unlock_inner(n) with the lock at l.
UnlockInner(l, n) ==
  /\ pc' = "unlock"
  /\ sched_lock' = l
  /\ new_lock' = n

\* Mutants of PostDsr: the DSR is linked however many posts it has to serve;
\* the list is overwritten.
PostDsrTwice(i) ==
  /\ dsr_count' = [dsr_count EXCEPT ![i] = @ + 1]
  /\ dsr_list' = Append(dsr_list, i)

PostDsrOverwrites(i) ==
  /\ dsr_count' = [dsr_count EXCEPT ![i] = @ + 1]
  /\ dsr_list' = IF dsr_count[i] = 0 THEN <<i>> ELSE dsr_list

\* post_dsr: queued only when no earlier post is still to be served.
PostDsr(i) ==
  /\ dsr_count' = [dsr_count EXCEPT ![i] = @ + 1]
  /\ dsr_list' = IF dsr_count[i] = 0 THEN Append(dsr_list, i) ELSE dsr_list

\* An ISR runs to completion; the HAL raised the lock on its entry, so the
\* unlock in interrupt_end calls unlock_inner only if the lock was zero.
\* Inside the tail of an outer unlock_inner, that inner call leaves nothing
\* for the outer one to do.
Interrupt(i) ==
  /\ pc # "boot"
  /\ dsr_count[i] < MaxPosts
  /\ PostDsr(i)
  /\ IF sched_lock = 0 THEN UnlockInner(1, 0) ELSE UNCHANGED cpu
  /\ UNCHANGED <<k, ctx, dsr_batch, dsr_active>>

CallPendingDSRs ==
  /\ pc = "unlock"
  /\ new_lock = 0
  /\ dsr_list # <<>>
  /\ dsr_batch' = dsr_list
  /\ dsr_list' = <<>>
  /\ pc' = "dsr"
  /\ UNCHANGED <<k, sched_lock, new_lock, ctx, dsr_count, dsr_active>>

NoDSRs ==
  /\ pc = "unlock"
  /\ new_lock # 0 \/ dsr_list = <<>>
  /\ pc' = "resched"
  /\ UNCHANGED <<k, sched_lock, new_lock, ctx, dsrs>>

\* The next node is taken: its count is read and cleared, its DSR called.
TakeDSR ==
  /\ pc = "dsr"
  /\ dsr_active = NoIntr
  /\ dsr_batch # <<>>
  /\ dsr_active' = Head(dsr_batch)
  /\ dsr_batch' = Tail(dsr_batch)
  /\ dsr_count' = [dsr_count EXCEPT ![Head(dsr_batch)] = 0]
  /\ UNCHANGED <<k, cpu, ctx, dsr_list>>

DSRsDone ==
  /\ pc = "dsr"
  /\ dsr_active = NoIntr
  /\ dsr_batch = <<>>
  /\ pc' = "resched"
  /\ UNCHANGED <<k, sched_lock, new_lock, ctx, dsrs>>

\* The real time clock's DSR first ticks the counter: the alarms now due go
\* off one by one ...
ClockAlarm(t) ==
  /\ pc = "dsr"
  /\ dsr_active = Clock
  /\ t \in k.timer
  /\ k' = Alarm(k, t)
  /\ UNCHANGED <<cpu, ctx, dsrs>>

\* ... and then calls timeslice().
ClockTimeslice ==
  /\ pc = "dsr"
  /\ dsr_active = Clock
  /\ k' = Timeslice(k)
  /\ dsr_active' = NoIntr
  /\ UNCHANGED <<cpu, ctx, dsr_list, dsr_batch, dsr_count>>

\* A device's DSR makes one of the calls a DSR may make, or none.
DeviceEffect(t) ==
  {k} \cup (IF "resume" \in DsrCalls THEN {Resume(k, t)} ELSE {})
      \cup (IF "release" \in DsrCalls THEN {Release(k, t)} ELSE {})
      \cup (IF "counted_wake" \in DsrCalls /\ k.wakeup_count[t] < MaxWakeup
            THEN {CountedWake(k, t)} ELSE {})
      \cup (IF "suspend" \in DsrCalls /\ k.suspend_count[t] < MaxSuspend
            THEN {Suspend(k, t)} ELSE {})

DeviceDSR(t) ==
  /\ pc = "dsr"
  /\ dsr_active \in Intr \ {Clock}
  /\ k' \in DeviceEffect(t)
  /\ dsr_active' = NoIntr
  /\ UNCHANGED <<cpu, ctx, dsr_list, dsr_batch, dsr_count>>
------------------------------------------------------------------------------
(***************************************************************************)
(* The rest of unlock_inner (sched.cxx).                                   *)
(***************************************************************************)
\* Mutant of MustReschedule: need_reschedule alone decides.
OnlyIfNeeded == k.need_reschedule

MustReschedule == ~Running(k, Current) \/ k.need_reschedule

\* No reschedule wanted, or schedule() chose the current thread again.
Stay ==
  /\ pc = "resched"
  /\ MustReschedule => Schedule(k) = Current
  /\ k' = IF MustReschedule THEN [k EXCEPT !.need_reschedule = FALSE] ELSE k
  /\ pc' = "zero"
  /\ UNCHANGED <<sched_lock, new_lock, ctx, dsrs>>

\* timeslice_save of the thread that leaves the CPU
TimesliceSave == [k EXCEPT !.timeslice[Current] = k.timeslice_count]

\* Mutant of SwitchBack: the lock gets the value the previous thread asked for.
SwitchBackWrongLock ==
  LET next == Schedule(k)
  IN  /\ pc = "resched"
      /\ MustReschedule
      /\ next # Current
      /\ next \notin fresh
      /\ k' = Continue(TimesliceSave, next)
      /\ saved' = [saved EXCEPT ![Current] = new_lock, ![next] = 0]
      /\ pc' = "zero"
      /\ UNCHANGED <<sched_lock, new_lock, fresh, held, cont, dsrs>>

\* The switch to a thread that was switched out earlier: it returns into
\* its own unlock_inner, with the argument that one was called with.
SwitchBack ==
  LET next == Schedule(k)
  IN  /\ pc = "resched"
      /\ MustReschedule
      /\ next # Current
      /\ next \notin fresh
      /\ k' = Continue(TimesliceSave, next)
      /\ saved' = [saved EXCEPT ![Current] = new_lock, ![next] = 0]
      /\ new_lock' = saved[next]
      /\ pc' = "zero"
      /\ UNCHANGED <<sched_lock, fresh, held, cont, dsrs>>

\* The switch to a thread that has not run: it starts in thread_entry,
\* whose loop unlocks until the lock is zero.
SwitchToFresh ==
  LET next == Schedule(k)
  IN  /\ pc = "resched"
      /\ MustReschedule
      /\ next # Current
      /\ next \in fresh
      /\ k' = Enter(TimesliceSave, next)
      /\ saved' = [saved EXCEPT ![Current] = new_lock]
      /\ fresh' = fresh \ {next}
      /\ UnlockInner(1, 0)
      /\ UNCHANGED <<held, cont, dsrs>>

\* zero_sched_lock()
ZeroLock ==
  /\ pc = "zero"
  /\ new_lock = 0
  /\ sched_lock' = 0
  /\ pc' = "recheck"
  /\ UNCHANGED <<k, new_lock, ctx, dsrs>>

\* set_sched_lock(new_lock) and return
RestoreLock ==
  /\ pc = "zero"
  /\ new_lock # 0
  /\ sched_lock' = new_lock
  /\ new_lock' = 0
  /\ pc' = "user"
  /\ UNCHANGED <<k, ctx, dsrs>>

\* DSRs were posted during the switch: reclaim the lock, go round again.
GoRound ==
  /\ pc = "recheck"
  /\ dsr_list # <<>>
  /\ UnlockInner(1, 0)
  /\ UNCHANGED <<k, ctx, dsrs>>

\* Mutant of Return: no look at the DSR list after zero_sched_lock.
ReturnAtOnce ==
  /\ pc = "recheck"
  /\ pc' = "user"
  /\ UNCHANGED <<k, sched_lock, new_lock, ctx, dsrs>>

Return ==
  /\ pc = "recheck"
  /\ dsr_list = <<>>
  /\ pc' = "user"
  /\ UNCHANGED <<k, sched_lock, new_lock, ctx, dsrs>>
------------------------------------------------------------------------------
(***************************************************************************)
(* The thread API (kapi.cxx, thread.cxx).                                  *)
(***************************************************************************)
\* The current thread's code makes a call; the idle thread makes none.
Calling(name) ==
  /\ pc = "user"
  /\ Current # Idle
  /\ name \in Calls[Current]
  /\ cont[Current] = "user"

\* The lock() ... unlock() of a call that leaves the data as j and the lock
\* claimed n times: the unlock calls unlock_inner only when it drops to 0.
LockedUpdate(j, n) ==
  /\ k' = j
  /\ IF n = 0 THEN UnlockInner(1, 0)
     ELSE /\ sched_lock' = n
          /\ UNCHANGED <<pc, new_lock>>

Update(j) ==
  /\ LockedUpdate(j, held[Current])
  /\ UNCHANGED <<ctx, dsrs>>

\* The same, the call having more to do after its unlock.
UpdateThen(j, next) ==
  /\ LockedUpdate(j, held[Current])
  /\ cont' = [cont EXCEPT ![Current] = next]
  /\ UNCHANGED <<saved, fresh, held, dsrs>>

\* Mutant of RescheduleThen: unlock_reschedule() in place of reschedule().
RescheduleUnlocked(j, next) ==
  /\ k' = j
  /\ UnlockInner(held[Current] + 1, held[Current])
  /\ cont' = [cont EXCEPT ![Current] = next]
  /\ UNCHANGED <<saved, fresh, held, dsrs>>

\* reschedule() with the call's own lock still claimed
RescheduleThen(j, next) ==
  /\ k' = j
  /\ UnlockInner(held[Current] + 1, held[Current] + 1)
  /\ cont' = [cont EXCEPT ![Current] = next]
  /\ UNCHANGED <<saved, fresh, held, dsrs>>

SchedLock ==
  /\ Calling("lock")
  /\ held[Current] < MaxHeld
  /\ held' = [held EXCEPT ![Current] = @ + 1]
  /\ sched_lock' = sched_lock + 1
  /\ UNCHANGED <<k, pc, new_lock, saved, fresh, cont, dsrs>>

\* Mutant of SchedUnlock: the lock is decremented and unlock_inner not called.
SchedUnlockQuick ==
  /\ Calling("lock")
  /\ held[Current] > 0
  /\ held' = [held EXCEPT ![Current] = @ - 1]
  /\ sched_lock' = sched_lock - 1
  /\ UNCHANGED <<k, pc, new_lock, saved, fresh, cont, dsrs>>

SchedUnlock ==
  /\ Calling("lock")
  /\ held[Current] > 0
  /\ held' = [held EXCEPT ![Current] = @ - 1]
  /\ LockedUpdate(k, held[Current] - 1)
  /\ UNCHANGED <<saved, fresh, cont, dsrs>>

SuspendThread(t) ==
  /\ Calling("suspend")
  /\ k.suspend_count[t] < MaxSuspend
  /\ Update(Suspend(k, t))

ResumeThread(t) ==
  /\ Calling("resume")
  /\ Update(Resume(k, t))

ReleaseThread(t) ==
  /\ Calling("release")
  /\ Update(Release(k, t))

KillThread(t) ==
  /\ Calling("kill")
  /\ t # Current
  /\ Update(Kill(k, t))

\* exit(), called by the thread, by kill() of itself, by the loop of
\* Cyg_HardwareThread::thread_entry.
ExitThread ==
  /\ Calling("exit")
  /\ RescheduleThen(Exit(k), "dead")

SetThreadPriority(t, p) ==
  /\ Calling("set_priority")
  /\ Update(SetPriority(k, t, p))

YieldThread ==
  /\ Calling("yield")
  /\ k' = Yield(k)
  /\ UnlockInner(held[Current] + 1, held[Current])
  /\ UNCHANGED <<ctx, dsrs>>

RotateRunQueue(p) ==
  /\ Calling("rotate_queue")
  /\ Update(RotateQueue(k, p))

ThreadToQueueHead(t) ==
  /\ Calling("to_queue_head")
  /\ Update(ToQueueHead(k, t))

\* delay(): meant to block, so not called with the scheduler locked
DelayThread ==
  /\ Calling("delay")
  /\ held[Current] = 0
  /\ UpdateThen(Delay(k), "delay")

\* delay() whose trigger is not after the current time, delay(0) above all
DelayThreadPast ==
  /\ Calling("delay_0")
  /\ held[Current] = 0
  /\ UpdateThen(DelayPast(k), "delay")

\* ... and, back from the unlock, clear_timer() with its own lock/unlock
DelayClear ==
  /\ pc = "user"
  /\ cont[Current] = "delay"
  /\ UpdateThen(ClearTimer(k, Current), "check")

CountedSleepThread ==
  /\ Calling("counted_sleep")
  /\ held[Current] = 0
  /\ UpdateThen(CountedSleep(k), "check")

\* Mutant of TimedCountedSleepThread: no look at the queued wakeups.
TimedCountedSleepAnyway ==
  /\ Calling("timed_counted_sleep")
  /\ RescheduleThen(TimedCountedSleep(k), "csleep")

TimedCountedSleepThread ==
  /\ Calling("timed_counted_sleep")
  /\ IF k.wakeup_count[Current] = 0
     THEN \/ RescheduleThen(TimedCountedSleep(k), "csleep")
          \/ UpdateThen(TimedCountedSleepPast(k), "check")
     ELSE UpdateThen(TakeWakeup(k), "check")

\* ... back from reschedule(): clear_timer(), unlock()
TimedCountedSleepClear ==
  /\ pc = "user"
  /\ cont[Current] = "csleep"
  /\ UpdateThen(ClearTimer(k, Current), "check")

\* switch( wake_reason ) at the end of a sleeping call
CheckKilled ==
  /\ pc = "user"
  /\ cont[Current] = "check"
  /\ k.wake_reason[Current] = "EXIT"
  /\ RescheduleThen(Exit(k), "dead")

\* Mutant of CheckNotKilled: the case EXIT is left out of the switch.
CheckNothing ==
  /\ pc = "user"
  /\ cont[Current] = "check"
  /\ cont' = [cont EXCEPT ![Current] = "user"]
  /\ UNCHANGED <<k, cpu, saved, fresh, held, dsrs>>

CheckNotKilled ==
  /\ pc = "user"
  /\ cont[Current] = "check"
  /\ k.wake_reason[Current] # "EXIT"
  /\ cont' = [cont EXCEPT ![Current] = "user"]
  /\ UNCHANGED <<k, cpu, saved, fresh, held, dsrs>>

CountedWakeThread(t) ==
  /\ Calling("counted_wake")
  /\ k.wakeup_count[t] < MaxWakeup
  /\ Update(CountedWake(k, t))

CancelWakeups(t) ==
  /\ Calling("cancel_wakeup")
  /\ Update(CancelCountedWake(k, t))
------------------------------------------------------------------------------
\* What the kernel itself does, once entered, up to the next user code.
KernelStep ==
  \/ CallPendingDSRs \/ NoDSRs \/ TakeDSR \/ DSRsDone
  \/ ClockTimeslice \/ \E t \in Target : DeviceDSR(t)
  \/ Stay \/ SwitchBack \/ SwitchToFresh
  \/ ZeroLock \/ RestoreLock \/ GoRound \/ Return
  \/ DelayClear \/ TimedCountedSleepClear \/ CheckKilled \/ CheckNotKilled

ApiCall ==
  \/ SchedLock \/ SchedUnlock \/ ExitThread \/ YieldThread
  \/ DelayThread \/ DelayThreadPast
  \/ CountedSleepThread \/ TimedCountedSleepThread
  \/ \E t \in Target :
       \/ SuspendThread(t) \/ ResumeThread(t) \/ ReleaseThread(t)
       \/ KillThread(t) \/ ThreadToQueueHead(t)
       \/ CountedWakeThread(t) \/ CancelWakeups(t)
       \/ \E p \in Priority : SetThreadPriority(t, p)
  \/ \E p \in Priority : RotateRunQueue(p)

Next ==
  \/ \E t \in Target : BootResume(t)
  \/ StartScheduler
  \/ \E i \in Intr : Interrupt(i)
  \/ \E t \in Thread : ClockAlarm(t)
  \/ KernelStep
  \/ ApiCall

Spec == Init /\ [][Next]_vars

(***************************************************************************)
(* The CPU executes kernel code to its end; the clock interrupts for ever  *)
(* (its MaxPosts bound is reached only while DSRs cannot run); a thread    *)
(* that holds the scheduler lock lets go of it (one claim: with MaxHeld    *)
(* above 1 the thread could lock and unlock for ever).                     *)
(***************************************************************************)
Fairness ==
  /\ WF_vars(KernelStep)
  /\ WF_vars(StartScheduler)
  /\ WF_vars(Interrupt(Clock))
  /\ WF_vars(SchedUnlock)

FairSpec == Spec /\ Fairness
------------------------------------------------------------------------------
(***************************************************************************)
(* Safety.                                                                 *)
(***************************************************************************)
\* Every variable keeps its type.
TypeOK ==
  /\ k \in KernelData
  /\ pc \in {"boot", "user", "unlock", "dsr", "resched", "zero", "recheck"}
  /\ sched_lock \in Nat
  /\ new_lock \in Nat
  /\ saved \in [Thread -> Nat]
  /\ fresh \in SUBSET Thread
  /\ held \in [Thread -> Nat]
  /\ cont \in [Thread -> Cont]
  /\ dsr_list \in Seq(Intr)
  /\ dsr_batch \in Seq(Intr)
  /\ dsr_count \in [Intr -> Nat]
  /\ dsr_active \in Intr \cup {NoIntr}

\* The run queues hold exactly the runnable threads, each once and at its
\* priority, whatever order of suspend, resume, wake, kill, set_priority and
\* rotation the threads and DSRs produce; the bit map the scheduler searches
\* agrees with them (the CYG_ASSERTs of mlqueue.cxx).
RunQueueConsistent == RunQueuesExact(k)

\* Whenever a thread runs with the scheduler unlocked it is runnable and no
\* runnable thread has a better priority: every wakeup, priority change and
\* suspension, made by a thread or by a DSR, has led to the switch it calls
\* for by the time unlock_inner returns.
TopPriorityRuns ==
  pc = "user" /\ sched_lock = 0 =>
    /\ Running(k, Current)
    /\ \A t \in Thread : Running(k, t) => k.priority[Current] <= k.priority[t]

\* Claims of the scheduler lock a thread has to undo: its own, and that of
\* the call it is in the middle of.
LockDepth(t) == held[t] + (IF cont[t] \in Claiming THEN 1 ELSE 0)

\* The lock behaves as if it were a variable of each thread (the comment in
\* sched.cxx): a thread that is switched out with the lock claimed finds the
\* same count when it is switched back in; and DSRs run with the count at 1.
LockIsPerThread ==
  /\ pc = "user" => sched_lock = LockDepth(Current)
  /\ pc = "dsr" => sched_lock = 1

\* An interrupt whose DSR was requested is on the pending or on the detached
\* list, exactly once, until its DSR is called: an ISR that posts again at any
\* point of call_pending_DSRs_inner neither loses a DSR nor links it twice.
DsrListsExact ==
  /\ IsInjective(dsr_list)
  /\ IsInjective(dsr_batch)
  /\ ToSet(dsr_list) \cap ToSet(dsr_batch) = {}
  /\ ToSet(dsr_list) \cup ToSet(dsr_batch) = {i \in Intr : dsr_count[i] > 0}

\* A thread never runs unlocked with a DSR pending: none is left for the next
\* release of the lock (the race the test after zero_sched_lock closes).
NoDsrLeftBehind ==
  pc = "user" /\ sched_lock = 0 => dsr_list = <<>>

\* A thread that sleeps can be woken: release and kill act on its reason for
\* sleeping, and if that is a delay or a timeout its timer is armed.
SleeperCanBeWoken ==
  \A t \in Thread :
    k.state[t] \cap SLEEPSET # {} =>
      /\ Interruptible(k, t)
      /\ k.sleep_reason[t] \in {"DELAY", "TIMEOUT"} => t \in k.timer

\* No thread is in a counted sleep while a wakeup is queued for it.
NoCountedWakeupMissed ==
  \A t \in Thread : "COUNTSLEEP" \in k.state[t] => k.wakeup_count[t] = 0

\* A killed thread never goes on with its own code: if kill() left it the
\* reason EXIT it is inside a sleeping call, at whose end it will exit.
KilledNeverRunsOn ==
  \A t \in Thread : k.wake_reason[t] = "EXIT" => cont[t] # "user"

(***************************************************************************)
(* What a step may never do.                                               *)
(***************************************************************************)
\* "The scheduler will never run a thread with a non-zero suspend counter"
\* (kernel.sgml): the CPU is never given to one, nor to a thread that sleeps
\* or has exited.
SuspendedNeverDispatched ==
  [][Current' # Current => /\ k'.suspend_count[Current'] = 0
                           /\ k'.state[Current'] = RUNNING]_vars

\* A thread killed in its sleep cannot escape: no release, wakeup, alarm or
\* second kill that comes before it runs again takes EXIT back.
KillNotForgotten ==
  [][\A t \in Thread :
       k.wake_reason[t] = "EXIT" => k'.wake_reason[t] = "EXIT"]_vars

\* A thread that has exited is not brought back by any call or DSR.
ExitIsFinal ==
  [][\A t \in Thread :
       "EXITED" \in k.state[t] => /\ "EXITED" \in k'.state[t]
                                  /\ Current' = t => Current = t]_vars

(***************************************************************************)
(* Liveness, under FairSpec.                                               *)
(***************************************************************************)
\* Every DSR an ISR asked for is called.
EveryDsrCalled ==
  \A i \in Intr : dsr_count[i] > 0 ~> dsr_active = i

\* A thread that stays runnable with none of better priority gets the CPU
\* again and again, whatever its equals do: they are timesliced.
AtTopPriority(t) ==
  /\ Running(k, t)
  /\ \A u \in Thread : Running(k, u) => k.priority[t] <= k.priority[u]

TimesliceShares ==
  \A t \in Target : <>[]AtTopPriority(t) => []<>(Current = t)

\* The quantum of the running thread is never more than a timeslice: past
\* zero, --timeslice_count gives the equal-priority threads 2^32 ticks to wait.
QuantumBounded == k.timeslice_count <= TimesliceTicks
==============================================================================
