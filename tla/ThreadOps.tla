------------------------------ MODULE ThreadOps ------------------------------
(***************************************************************************)
(* The data the eCos scheduler lock protects, and the kernel's operations  *)
(* on it, as pure operators: each takes the kernel data k and returns what *)
(* the method leaves behind.                                               *)
(*                                                                         *)
(* Every one of these methods runs between Cyg_Scheduler::lock() and       *)
(* unlock(): nothing else touches the data meanwhile, so each is one step  *)
(* of whoever calls it (a thread or a DSR).  What unlock() then does is    *)
(* the business of module Scheduler.                                       *)
(*                                                                         *)
(* Configuration modelled (release/install/include/pkgconf/kernel.h): the  *)
(* multi-level queue scheduler with timeslicing, one CPU, FIFO wait        *)
(* queues, thread timers; no ASRs, no per-thread timeslice switch.         *)
(***************************************************************************)
EXTENDS CList

CONSTANTS
  Thread,          \* every thread, the idle thread included
  Idle,            \* idle_thread[0]
  MinPriority,     \* CYG_THREAD_MIN_PRIORITY, the numerically largest
  InitPriority,    \* sched_info given to each constructor
  Queue,           \* the Cyg_ThreadQueues of the synchronization objects
  NoQueue,         \* a NULL thread->queue
  TimesliceTicks,  \* CYGNUM_KERNEL_SCHED_TIMESLICE_TICKS
  TicksWrap        \* stands for 2^32 - 1, what --timeslice_count makes of 0

Priority == 0 .. MinPriority

ASSUME ThreadAssumption ==
  /\ Idle \in Thread
  /\ MinPriority \in Nat
  /\ InitPriority \in [Thread -> Priority]
  /\ InitPriority[Idle] = MinPriority
  /\ NoQueue \notin Queue
  /\ TimesliceTicks \in Nat \ {0}
  /\ TicksWrap \in Nat
  /\ TicksWrap >= TimesliceTicks

\* The idle thread is never the target of a call.
Target == Thread \ {Idle}

\* cyg_thread.state is a set of bits; RUNNING is the empty one.
StateBit == {"SLEEPING", "COUNTSLEEP", "SUSPENDED", "EXITED"}
SLEEPSET == {"SLEEPING", "COUNTSLEEP"}
RUNNING  == {}

Reason == {"NONE", "WAIT", "DELAY", "TIMEOUT", "BREAK", "EXIT", "DONE"}

KernelData ==
  [state           : [Thread -> SUBSET StateBit],
   suspend_count   : [Thread -> Nat],
   wakeup_count    : [Thread -> Nat],
   sleep_reason    : [Thread -> Reason],
   wake_reason     : [Thread -> Reason],
   priority        : [Thread -> Priority],
   timeslice       : [Thread -> 0 .. TicksWrap],
   timer           : SUBSET Thread,
   queue           : [Thread -> Queue \cup {NoQueue}],
   wait_queue      : [Queue -> Seq(Thread)],
   run_queue       : [Priority -> Seq(Thread)],
   queue_map       : SUBSET Priority,
   current_thread  : Thread,
   need_reschedule : BOOLEAN,
   timeslice_count : 0 .. TicksWrap]

(***************************************************************************)
(* The data as the constructors leave it: every thread suspended, the idle *)
(* thread resumed and current.                                             *)
(***************************************************************************)
InitialData ==
  [state           |-> [t \in Thread |-> IF t = Idle THEN RUNNING
                                         ELSE {"SUSPENDED"}],
   suspend_count   |-> [t \in Thread |-> IF t = Idle THEN 0 ELSE 1],
   wakeup_count    |-> [t \in Thread |-> 0],
   sleep_reason    |-> [t \in Thread |-> "NONE"],
   wake_reason     |-> [t \in Thread |-> "NONE"],
   priority        |-> InitPriority,
   timeslice       |-> [t \in Thread |-> TimesliceTicks],
   timer           |-> {},
   queue           |-> [t \in Thread |-> NoQueue],
   wait_queue      |-> [q \in Queue |-> <<>>],
   run_queue       |-> [p \in Priority |-> IF p = MinPriority THEN <<Idle>>
                                           ELSE <<>>],
   queue_map       |-> {MinPriority},
   current_thread  |-> Idle,
   need_reschedule |-> FALSE,
   timeslice_count |-> TimesliceTicks]
------------------------------------------------------------------------------
(***************************************************************************)
(* Wait queues and run queues (mlqueue.cxx).                               *)
(***************************************************************************)
Running(k, t) == k.state[t] = RUNNING

\* Cyg_ThreadQueue_Implementation::enqueue, FIFO
Enqueue(k, q, t) ==
  [k EXCEPT !.wait_queue[q] = Append(@, t), !.queue[t] = q]

\* Cyg_SchedThread::remove: leave the queue thread->queue points at
RemoveFromQueue(k, t) ==
  IF k.queue[t] = NoQueue THEN k
  ELSE [k EXCEPT !.wait_queue[k.queue[t]] = Without(@, t),
                 !.queue[t] = NoQueue]

\* Mutant of Preempts: the comparison of the priorities is reversed.
PreemptsReversed(k, t) ==
  \/ k.priority[k.current_thread] < k.priority[t]
  \/ ~Running(k, k.current_thread)

\* set_need_reschedule(thread)
Preempts(k, t) ==
  \/ k.priority[k.current_thread] > k.priority[t]
  \/ ~Running(k, k.current_thread)

SetNeedReschedule(k, t) ==
  [k EXCEPT !.need_reschedule = @ \/ Preempts(k, t)]

AddThread(k, t) ==
  LET j == RemoveFromQueue(k, t)
      p == k.priority[t]
  IN  [j EXCEPT !.run_queue[p]    = Append(@, t),
                !.queue_map       = @ \cup {p},
                !.need_reschedule = @ \/ Preempts(k, t),
                !.timeslice[t]    = TimesliceTicks]

RemThread(k, t) ==
  LET p == k.priority[t]
      s == Without(k.run_queue[p], t)
  IN  [k EXCEPT !.run_queue[p] = s,
                !.queue_map    = IF s = <<>> THEN @ \ {p} ELSE @]

\* HAL_LSBIT_INDEX(queue_map)
TopPriority(k) == CHOOSE p \in k.queue_map : \A q \in k.queue_map : p <= q

Schedule(k) == Head(k.run_queue[TopPriority(k)])

\* The idiom of every method that writes thread->state: a thread leaves the
\* run queue when it stops being RUNNING and joins it when it becomes so.
SetState(k, t, s) ==
  LET j == [k EXCEPT !.state[t] = s]
  IN  CASE Running(k, t) /\ s # RUNNING -> RemThread(j, t)
        [] ~Running(k, t) /\ s = RUNNING -> AddThread(j, t)
        [] OTHER -> j
------------------------------------------------------------------------------
(***************************************************************************)
(* Sleeping and waking (thread.cxx, thread.inl).                           *)
(***************************************************************************)
\* Cyg_Thread::sleep, of the current thread
Sleep(k) ==
  LET c == k.current_thread
  IN  SetState(k, c, k.state[c] \cup {"SLEEPING"})

\* Mutants of Wake: it clears the SUSPENDED bit too; it queues a thread that
\* is still suspended; it leaves the thread on its wait queue.
WakeResumes(k, t) ==
  IF k.state[t] \cap SLEEPSET = {} THEN k
  ELSE SetState(RemoveFromQueue(k, t), t, RUNNING)

WakeQueuesSuspended(k, t) ==
  IF k.state[t] \cap SLEEPSET = {} THEN k
  ELSE AddThread([k EXCEPT !.state[t] = @ \ SLEEPSET], t)

WakeStaysOnQueue(k, t) ==
  IF k.state[t] \cap SLEEPSET = {} THEN k
  ELSE IF k.state[t] \ SLEEPSET = RUNNING
  THEN LET p == k.priority[t]
       IN  [k EXCEPT !.state[t]        = RUNNING,
                     !.run_queue[p]    = Append(@, t),
                     !.queue_map       = @ \cup {p},
                     !.need_reschedule = @ \/ Preempts(k, t)]
  ELSE [k EXCEPT !.state[t] = @ \ SLEEPSET]

Wake(k, t) ==
  IF k.state[t] \cap SLEEPSET = {} THEN k
  ELSE SetState(RemoveFromQueue(k, t), t, k.state[t] \ SLEEPSET)

SetSleepReason(k, r) ==
  [k EXCEPT !.sleep_reason[k.current_thread] = r,
            !.wake_reason[k.current_thread]  = "NONE"]

SetWakeReason(k, t, r) ==
  [k EXCEPT !.sleep_reason[t] = "NONE", !.wake_reason[t] = r]

\* A timer is armed or not; when it is due is left open, see Alarm.
SetTimer(k, r) ==
  [SetSleepReason(k, r) EXCEPT !.timer = @ \cup {k.current_thread}]

ClearTimer(k, t) == [k EXCEPT !.timer = @ \ {t}]

\* Mutant of Alarm: a suspended thread's sleep is not ended.
AlarmSkipsSuspended(k, t) ==
  LET j == SetWakeReason(ClearTimer(k, t), t, "DONE")
  IN  IF "SUSPENDED" \in k.state[t] THEN ClearTimer(k, t) ELSE Wake(j, t)

\* The one-shot alarm is disabled, then Cyg_ThreadTimer::alarm is called.
Alarm(k, t) ==
  LET j == ClearTimer(k, t)
  IN  CASE k.sleep_reason[t] = "DELAY"   -> Wake(SetWakeReason(j, t, "DONE"), t)
        [] k.sleep_reason[t] = "TIMEOUT" -> Wake(SetWakeReason(j, t, "TIMEOUT"), t)
        [] OTHER -> j

\* delay() up to its unlock: SetTimer is called with the thread asleep ...
Delay(k) == SetTimer(Sleep(k), "DELAY")

\* ... and add_alarm calls the alarm at once when the trigger has passed.
DelayPast(k) == Alarm(Delay(k), k.current_thread)

AddCountSleep(k) ==
  [k EXCEPT !.state[k.current_thread] = @ \cup {"COUNTSLEEP"}]

TakeWakeup(k) == [k EXCEPT !.wakeup_count[k.current_thread] = @ - 1]

CountedSleep(k) ==
  IF k.wakeup_count[k.current_thread] = 0
  THEN AddCountSleep(Sleep(SetSleepReason(k, "WAIT")))
  ELSE TakeWakeup(k)

\* counted_sleep(delay), the branch that goes to sleep
TimedCountedSleep(k) ==
  AddCountSleep(Sleep(SetSleepReason(SetTimer(k, "TIMEOUT"), "TIMEOUT")))

\* Mutant of TimedCountedSleepPast: it goes to sleep all the same.
TimedCountedSleepRegardless(k) ==
  AddCountSleep(Sleep(Alarm(SetTimer(k, "TIMEOUT"), k.current_thread)))

\* counted_sleep(delay) with a trigger that has passed: it does not sleep
TimedCountedSleepPast(k) == Alarm(SetTimer(k, "TIMEOUT"), k.current_thread)

CountedWake(k, t) ==
  IF "COUNTSLEEP" \notin k.state[t]
  THEN [k EXCEPT !.wakeup_count[t] = @ + 1]
  ELSE Wake(SetWakeReason(k, t, "DONE"), t)

CancelCountedWake(k, t) == [k EXCEPT !.wakeup_count[t] = 0]
------------------------------------------------------------------------------
(***************************************************************************)
(* Suspension, release and death (thread.cxx).                             *)
(***************************************************************************)
Suspend(k, t) ==
  SetState([k EXCEPT !.suspend_count[t] = @ + 1],
           t, k.state[t] \cup {"SUSPENDED"})

\* Mutant of ClearSuspension: the state becomes RUNNING.
ClearSuspensionToRunning(k, t) ==
  SetState([k EXCEPT !.suspend_count[t] = 0], t, RUNNING)

\* The last of the nested suspensions is undone.
ClearSuspension(k, t) ==
  SetState([k EXCEPT !.suspend_count[t] = 0], t, k.state[t] \ {"SUSPENDED"})

\* Mutant of Resume: no test that the thread is suspended.
ResumeUnchecked(k, t) ==
  IF k.suspend_count[t] = 1 THEN ClearSuspension(k, t)
  ELSE [k EXCEPT !.suspend_count[t] = @ - 1]

Resume(k, t) ==
  CASE k.suspend_count[t] = 1 -> ClearSuspension(k, t)
    [] k.suspend_count[t] > 1 -> [k EXCEPT !.suspend_count[t] = @ - 1]
    [] OTHER -> k

ForceResume(k, t) ==
  IF k.suspend_count[t] > 0 THEN ClearSuspension(k, t) ELSE k

\* Asleep for a reason that release, kill and the alarms act on.
Interruptible(k, t) == k.sleep_reason[t] \in {"WAIT", "TIMEOUT", "DELAY"}

\* Mutant of Release: no look at the sleep reason.
ReleaseAny(k, t) == Wake(SetWakeReason(k, t, "BREAK"), t)

Release(k, t) ==
  IF Interruptible(k, t) THEN Wake(SetWakeReason(k, t, "BREAK"), t) ELSE k

\* Cyg_Thread::exit up to its reschedule. It calls rem_thread of a thread
\* that has suspended itself too, which is on no run queue any more.
Exit(k) ==
  LET c == k.current_thread
      j == ClearTimer(k, c)
  IN  IF k.state[c] = {"EXITED"} THEN j
      ELSE RemThread([j EXCEPT !.state[c] = {"EXITED"}], c)

\* Cyg_Thread::kill of a thread that is not the current one
Kill(k, t) ==
  LET j == ClearTimer(ForceResume(k, t), t)
  IN  CASE j.wake_reason[t] = "EXIT"  -> Wake(j, t)
        [] j.wake_reason[t] # "EXIT" /\ j.sleep_reason[t] = "NONE" ->
             Wake(SetState(j, t, {"EXITED"}), t)
        [] j.wake_reason[t] # "EXIT" /\ Interruptible(j, t) ->
             Wake(SetWakeReason(j, t, "EXIT"), t)
        [] OTHER -> j
------------------------------------------------------------------------------
(***************************************************************************)
(* Priorities, rotation and timeslices (thread.cxx, mlqueue.cxx).          *)
(***************************************************************************)
\* Mutants of SetPriority: the thread is left on the run queue it is on; no
\* reschedule is asked for.
SetPriorityInPlace(k, t, p) ==
  SetNeedReschedule([k EXCEPT !.priority[t] = p], t)

SetPriorityKeepsCpu(k, t, p) ==
  LET moved == [k EXCEPT !.priority[t] = p]
  IN  IF ~Running(k, t) THEN moved
      ELSE AddThread([RemThread(k, t) EXCEPT !.priority[t] = p], t)

SetPriority(k, t, p) ==
  LET asleep == "SLEEPING" \in k.state[t]
      q      == k.queue[t]
      out    == CASE Running(k, t) -> RemThread(k, t)
                  [] asleep        -> RemoveFromQueue(k, t)
                  [] OTHER         -> k
      moved  == [out EXCEPT !.priority[t] = p]
      back   == CASE Running(k, t)           -> AddThread(moved, t)
                  [] asleep /\ q # NoQueue   -> Enqueue(moved, q, t)
                  [] OTHER                   -> moved
  IN  IF t = k.current_thread THEN [back EXCEPT !.need_reschedule = TRUE]
      ELSE SetNeedReschedule(back, t)

\* Mutant of Timeslice: the run queue is not rotated.
TimesliceNoRotation(k) ==
  [k EXCEPT !.timeslice_count = IF @ = 1 THEN TimesliceTicks
                                ELSE IF @ = 0 THEN TicksWrap ELSE @ - 1]

\* --timeslice_count and, at zero, timeslice_cpu()
Timeslice(k) ==
  LET c == k.current_thread
      p == k.priority[c]
      n == IF k.timeslice_count = 0 THEN TicksWrap ELSE k.timeslice_count - 1
      s == Rotated(k.run_queue[p])
  IN  IF n = 0 /\ Running(k, c)
      THEN [k EXCEPT !.run_queue[p]    = s,
                     !.need_reschedule = @ \/ Head(s) # c,
                     !.timeslice_count = TimesliceTicks]
      ELSE [k EXCEPT !.timeslice_count = n]

\* Cyg_SchedThread_Implementation::yield up to unlock_reschedule
Yield(k) ==
  LET c == k.current_thread
      p == k.priority[c]
      s == Rotated(k.run_queue[p])
  IN  CASE ~Running(k, c) -> k
        [] Running(k, c) /\ Head(s) # c ->
             [k EXCEPT !.run_queue[p] = s, !.need_reschedule = TRUE]
        [] OTHER ->
             [k EXCEPT !.run_queue[p] = s, !.timeslice[c] = TimesliceTicks]

RotateQueue(k, p) ==
  IF k.run_queue[p] = <<>> THEN k
  ELSE [k EXCEPT !.run_queue[p] = Rotated(@), !.need_reschedule = TRUE]

\* in_list() is false of a node alone on its list.
ToQueueHead(k, t) ==
  LET p == k.priority[t]
  IN  CASE k.queue[t] # NoQueue ->
             [k EXCEPT !.wait_queue[k.queue[t]] = ToHead(@, t)]
        [] k.queue[t] = NoQueue /\ Running(k, t) /\ Len(k.run_queue[p]) > 1 ->
             SetNeedReschedule([k EXCEPT !.run_queue[p] = ToHead(@, t)], t)
        [] OTHER -> k
------------------------------------------------------------------------------
(***************************************************************************)
(* What the CYG_ASSERTs of mlqueue.cxx ask of the data: each run queue     *)
(* holds the runnable threads of its priority, each once, and the bit map  *)
(* says which of the queues are not empty.                                 *)
(***************************************************************************)
RunQueuesExact(d) ==
  \A p \in Priority :
    /\ ToSet(d.run_queue[p]) = {t \in Thread : Running(d, t) /\ d.priority[t] = p}
    /\ IsInjective(d.run_queue[p])
    /\ p \in d.queue_map <=> d.run_queue[p] # <<>>

\* need_reschedule is up as soon as a runnable thread is better than the
\* current one: unlock_inner, which looks at it, misses no preemption.
PreemptionNoted(d) ==
  ~d.need_reschedule =>
    \A t \in Thread : Running(d, t) => d.priority[d.current_thread] <= d.priority[t]
==============================================================================
