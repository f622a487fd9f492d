# The eCos kernel of the BP2016 port, in TLA+

This directory models the concurrency core of the eCos 3.0 kernel as it is
configured in `src/release/install` (BP2016, an ARM system with a MAX2769
receiver): the scheduler lock, the multi-level queue scheduler, DSRs, the
thread operations and, on top of them, the synchronization objects. Paths below
are relative to `src/ecos-3.0/packages/kernel/v3_0/` unless they start with
`src/`.

The configuration (`src/release/install/include/pkgconf/kernel.h`) decides what
the code is: multi-level queue scheduler with 32 priorities, timeslices of 5
ticks, one CPU, FIFO wait queues, DSRs on a FIFO list, no interrupt chaining, no
ASRs, thread timers, counters with one unsorted alarm list, mutexes with
inheritance, ceiling or no protocol chosen at run time, assertions off.

## 1. Inventory

| Part | State it keeps | Operations | What is hard |
|---|---|---|---|
| Scheduler core (`sched/sched.cxx`, `include/sched.inl`, `smp.hxx`) | `sched_lock`, `current_thread`, `need_reschedule`; per descheduled thread, the `new_lock` of the `unlock_inner` it is in | `lock`, `unlock`, `reschedule`, `unlock_reschedule`, `unlock_inner`, `thread_entry`, `start` | DSRs posted at any point of `unlock_inner`; the lock as a per-thread value; nothing may be missed between the decision not to switch and the return |
| Multi-level queues (`sched/mlqueue.cxx`) | a circular list per priority, the bit map, the timeslice count | `add_thread`, `rem_thread`, `schedule`, `timeslice`, `yield`, `rotate_queue`, `to_queue_head`, wait queues | lists, bit map, thread state and priority must agree after any order of operations |
| Threads (`common/thread.cxx`, `include/thread.inl`) | state bits, suspend and wakeup counts, sleep and wake reasons, the timer | `sleep`, `wake`, `delay`, counted sleeps and wakes, `suspend`, `resume`, `release`, `exit`, `kill`, `set_priority` | one thread acted on by threads, DSRs and its own timer in any order |
| Interrupts and DSRs (`intr/intr.cxx`) | `dsr_list`, its tail, `dsr_count` and `next_dsr` of each interrupt | `post_dsr`, `call_pending_DSRs`, `interrupt_end` | an ISR posts while the list is being traversed |
| Counters, alarms, the clock (`common/clock.cxx`) | alarm lists, triggers, the tick count | `tick`, `add_alarm`, `rem_alarm`, `enable`, `synchronize`, the clock's DSR | alarm functions that change the list being scanned; wrap-around |
| Counting semaphores (`sync/cnt_sem.cxx`) | count, wait queue | `wait`, timed `wait`, `trywait`, `post` | the count is taken by whoever runs first, timers, kills and releases of waiters |
| Binary semaphores, flags (`sync/bin_sem.cxx`, `flag.cxx`) | a Boolean or a bit mask, wait queue | as above; `setbits`, `maskbits` | several waiters satisfied or cleared by one `setbits` |
| Mutexes, condition variables (`sync/mutex.cxx`, `sched.cxx` 693-865) | owner, inherited and original priorities, mutex counts, wait queues | `lock`, `trylock`, `unlock`, `release`, `set_protocol`; `wait`, `signal`, `broadcast` | priority inheritance across several mutexes; barging; a wait that must re-acquire |
| Mail boxes (`include/mboxt.inl`) | a ring of items, two wait queues | `get`, `put`, `tryget`, `tryput`, timed forms | two kinds of waiters on one count; sections of this port with interrupts disabled |
| Kernel C API (`common/kapi.cxx`) | none | wrappers; `cyg_thread_resume` may reinitialize a thread | the test for EXITED is made outside the lock |
| HAL, drivers, serial I/O, memory pools, file systems, POSIX and uITRON layers, command line programs (`src/ecos-3.0/packages/{hal,devs,io,services,fs,compat}`, `src/release/cli`) | registers, buffers | — | not part of the kernel's logic, see section 8 |

How they interact: every kernel object is protected by the scheduler lock
alone. A thread's call is `lock() ... unlock()`; the last `unlock()` is
`unlock_inner(0)`, which calls the pending DSRs, switches threads if one is to
be switched to, and only then lets the lock go. ISRs never touch kernel objects:
they post DSRs. DSRs run with the lock at 1 and call the same methods as threads
(`Cyg_Thread::wake`, `Cyg_Counting_Semaphore::post`, alarm functions), whose own
`lock()/unlock()` then only count. A thread that blocks inside a call does so in
`reschedule()`, that is `unlock_inner(sched_lock)`: it comes back with the lock
claimed.

What makes each part correct is stated as properties in section 5; what is
exposed to error, line by line, is the list `hazards` of `PROJECT.json`.

## 2. Modules

| Module | Models |
|---|---|
| `CList` | the circular lists of threads and of alarms (`infra/clist.hxx`), as sequences |
| `ThreadOps` | the data under the scheduler lock, a record `k`, and every kernel operation on it as an operator from `k` to the `k` the method leaves |
| `Scheduler` | the CPU: `unlock_inner` step by step, interrupts, DSRs, start-up, and one action per call of the thread API |
| `Waiting` | what the waits of all synchronization objects share: going to sleep on a queue, being woken from it, giving up, being killed in it |
| `Semaphore`, `BinarySemaphore`, `Mailbox`, `Flag` | one synchronization object each, on top of `Waiting` |
| `Sync` | these four composed over one scheduler |
| `Mutex` | mutexes with inheritance and ceiling of priorities, and condition variables, on top of `Waiting` |
| `Buffer` | abstract: a bounded first-in first-out buffer, which `Mailbox` implements |
| `Monitor` | abstract: locks whose holders may wait for a condition and come back as holders, which `Mutex` implements |
| `Counter` | a counter, its list of alarms, the alarm functions it calls and the calls those make |
| `MCScheduler`, `MCSync`, `MCMutex`, `MCSemaphore`, `MCCounter` | values for TLC |
| `CListProofs` | lemmas: what removing, rotating and turning a list leave of it |
| `ThreadOpsProofs` | lemmas: each operation keeps the invariant of the data; `ScheduleIsBest` |
| `SchedulerProofs` | the inductive invariants of `unlock_inner` and of the DSR lists, and their theorems (section 6) |
| `SleepProofs` | the invariant of sleeping and waking threads; its theorems and the action properties |
| `WaitingProofs` | lemmas: what every step does to waits, wait queues and woken waiters; which operations leave priorities, deaths and other threads alone; walks along a queue, round by round |
| `SyncProofs` | the inductive invariants of semaphores, mail box and flag over the whole scheduler, each by itself and side by side, and their theorems |
| `MutexProofs` | the inductive invariant of mutexes and condition variables, its theorems and the refinement of `Monitor` |
| `CounterProofs` | the inductive invariants of `Counter`, and its theorems |

`ThreadOps` and `Counter` EXTEND `CList`; `Scheduler` EXTENDS `ThreadOps`, `Waiting` EXTENDS
`Scheduler`, each object EXTENDS `Waiting`, and `Sync` EXTENDS four of them. `Counter` stands
beside them: to the scheduler the clock is the source of ticks and of the alarms of thread timers. The proof
modules extend the module they are about; no module declares a RECURSIVE operator.

### Correspondence

Because every method works between `lock()` and `unlock()`, nobody else sees the
data in between, and a method is one operator of `ThreadOps`, whole. Lists are
sequences, head first (`Cyg_CList::to_head`, which turns the circle, is
`ToHead`). `thread->state` is the set of its bits; RUNNING is the empty set. The
idiom `if( state == RUNNING ) rem_thread() / add_thread()` is `SetState`.

In `Scheduler` the variable `pc` says where the CPU is in `unlock_inner`: at the
head of its loop (`unlock`), in `call_pending_DSRs_inner` (`dsr`), at the test
for a reschedule (`resched`), before the lock gets its value (`zero`), at the
test for DSRs posted meanwhile (`recheck`), or out of it (`user`). An interrupt
may occur between any two of these steps and inside the DSR loop. What a thread
still has to do after its call's `unlock_inner` returns is in `cont[t]`; the
`new_lock` of the call it is suspended in is in `saved[t]`. A thread that has not run
starts in `thread_entry` (`fresh`). `held[t]` counts the `cyg_scheduler_lock()`
calls the thread has yet to undo. It is not in the code: it says what the thread
would need to find in `sched_lock`.

The actions of the API follow one pattern: `Update(j)` is a call that leaves the
data as `j` and unlocks; `UpdateThen(j, c)` has more to do (`c`) after the unlock,
which is how `delay()` comes to clear its timer and look at `wake_reason` in steps
of their own, with other threads in between; `RescheduleThen(j, c)` blocks with
the call's claim of the lock standing.

A wait of a synchronization object is a loop, `while( not available && result )`,
entered by the call and again by each wakeup. Each object has its loop as an
operator (`WaitLoop`, `BinLoop`, `GetLoop`, `PutLoop`, `LockLoop`, `FlagWoken`) with two
disjuncts: what is waited for is there, it is taken and the wait ends (`Finish`); or the
thread goes to sleep on the queue (`GoToSleep`, `BlockOn`). `waits[t]` is the wait
the thread is in, a local variable of the code. The cases of the switch on `wake_reason` are
`BrokenOff` (result is false), `Spurious` (round again) and `WokenToExit`, which is common to
all. A timeout already past when it is set has its own disjunct or action.

A condition wait has three stages after the sleep: its timer is cleared
(`condtimer`), the wake reason is looked at (`cond`), and the mutex is locked again
however often that is broken off (`relock`). `HandOn`, `Count`, `Uncount` and `Relay` are the
parts of lock and unlock that differ by protocol; `Here` pairs the kernel's data with the
inheritance data, which those methods change together.

`Mailbox` keeps the ring as it is: `base`, `count`, the array, indices compared with the size
and never taken modulo. Its image in `Buffer` is the sequence of the items between.

In `Counter` everything runs with the scheduler locked, so a tick is over before anything
else happens; what interleaves is the alarm functions, which may initialize, enable and
disable any alarm. `calls` is the stack of them: called by `tick()`, by the `add_alarm()` a
caller made, or by the `add_alarm()` inside `tick()` (`requeue`). Tick counts have a
width: all sums are modulo `Modulus`, for 2^64.

### Abstractions

- Time in `Scheduler`: a thread timer is armed or not. In any clock DSR each armed timer may or
  may not go off (`ClockAlarm`), in any order: this covers every choice of
  trigger. A timeout that is past when it is set is a case of its own
  (`DelayThreadPast`, `SemTimedWaitPast`, the second disjunct of
  `TimedCountedSleepThread`), as `add_alarm` then calls the alarm at once. That alarms go
  off when they should is the subject of `Counter`.
- The clock's DSR is called with a count; the counter then ticks that many times
  and `timeslice()` is called once. The model's alarms are the union over the ticks.
- An ISR is one step (`interrupt_end` with its `post_dsr`; ISRs that nest are a
  sequence of them). A device's DSR makes one kernel call, or none.
- The unlock of `interrupt_end` inside the last lines of an outer `unlock_inner`
  (`recheck`) is modelled as the outer one going round: the inner call leaves
  nothing to do.
- `timeslice_count` is 32 bits wide. The model's decrement below zero gives
  `TicksWrap`, a constant at least `TimesliceTicks`, for 2^32 - 1.
- `set_priority` of a thread that may have inherited is `ChangePriority` in `Mutex`;
  the `SetThreadPriority` of `Scheduler` is that of the modules without mutexes.
- A thread may call the methods of an object while it owns mutexes; a thread
  that is killed keeps what it owns, as in the code.
- `setbits()` collects the threads it leaves asleep on a queue of its own and moves them
  back; the model puts each behind those kept before it, which is the same queue
  in the end and is seen by nobody in between.
- Items got and put are distinguishable values; the history variable `got` is the item
  last got. `base`, `asked` and `changes` in `Mutex` and `first` in `Counter` are history too:
  they record what callers asked for, which the properties speak of, and guard nothing but
  the bound on changes.

## 3. Bounds

| Constant | Bounds |
|---|---|
| `MaxHeld` | nested `cyg_scheduler_lock()` calls of a thread |
| `MaxSuspend`, `MaxWakeup` | suspend and wakeup counts |
| `MaxPosts` | posts of an interrupt not yet served (`dsr_count`) |
| `MaxCount` (`Semaphore`) | a semaphore's count |
| `Item`, `Size`, `Bit` | items, slots of the mail box (a constant of the code), bits of the flag |
| `MaxChanges` | `set_priority()` calls in a behaviour with mutexes |
| `MaxCount`, `MaxDelay`, `MaxCalls` (`Counter`) | the tick count, how far ahead a first trigger is, the nesting of alarm functions |

Two application threads and the idle thread are enough for the races of one
thread with another, with DSRs and with its own timer, and give all three
relations of priorities: better, equal, worse. The fairness run has three, as with two
a rotation is a swap; mutexes have three, of three priorities, as inversion needs
a thread between the owner and the waiter. `scheduler_api` lets an interrupt be posted twice
before it is served, so that a second post finds its node already linked; in the other
runs one is enough, as the count is cleared before the DSR runs and the same
interrupt can be posted again while its DSR executes. Suspend
counts reach 2 (nesting), semaphore counts 2 (a unit left when a waiter is woken), the ring
has two slots and wraps. A flag of two bits gives patterns that match, overlap and miss.
Three alarms, one-shot and repeating, with an increment that skips triggers, let an alarm
function remove the alarm before or after its own in the list; `Modulus` is above
`MaxCount + MaxDelay` so that only differences wrap, as with 64 bits.
The theorems of section 6 hold for all values of all of them.

Two constants give each thread and the devices the calls they make (`Calls`,
`DsrCalls`): every operation is in a passing run, and a run gives a thread those that its
question needs. The modules `MCSync` and `MCMutex` add a variable `scenario`, chosen at
the start, which restricts what a behaviour may combine: `sync` uses one
kind of object per behaviour, with kills or priority changes; `mutex` nests two
mutexes, or changes a priority, or waits on the condition variable and has a thread killed. The
state space is then the sum of these cases and not their product; what the modules do without
these restrictions is the subject of the proofs. In both, one interrupt at a time has DSRs pending
(the order of DSRs is the subject of `scheduler_api`). `sync` changes the priority of one thread
at a time, and a flag wait for any of several bits names all of them; `mutex` lets the clock
tick only while it is about waits. The alarms of `counter` are interchangeable, and TLC treats
them so (`Symmetry`): its properties are invariants, for which that is sound.

In the passing runs `TicksWrap` equals `TimesliceTicks`, which leaves the
timeslice underflow out of sight. That is deliberate: `quantum_underflow` shows
the underflow, with `TicksWrap` larger, and the liveness run would otherwise only repeat it.
In the same way `counter` does not let a function arm an alarm that is being added
(`Rearm`), nor a first trigger lie more than an interval ahead (`MaxDelay`), which
`counter_rearm` and `counter_far` do.

## 4. Fairness

`FairSpec` assumes that the CPU executes kernel code once it is in it
(`KernelStep`), that the scheduler is started, that the clock interrupts again and
again, and that a thread which holds the scheduler lock releases it. The first
two are the processor's; the clock is hardware, and its interrupt is enabled
whenever a thread runs; the last is what the documentation asks of applications
(kernel.sgml, scheduler lock: it must be held for short times only). Nothing is
assumed of an application thread that does not hold the lock: it may compute for ever. The clock
is bounded by `MaxPosts`, which disables `Interrupt(Clock)` only while a clock DSR
is pending, a state that `KernelStep` leaves.

The synchronization objects have no liveness property: whether a waiter gets what it
waits for depends on what the application posts and on priorities, and a waiter may starve
by design. What they must not do is lose a wakeup, and that is stated as safety
(`NoPostLost`, `NothingStranded` and the like): while something is available and a thread
sleeps for it, another is awake on its way to it.

## 5. Runs

| Run | Question | Result |
|---|---|---|
| `scheduler_api` | suspend, resume, release, kill, exit, delay by two threads of different priorities and by DSRs | holds (1.7 million states) |
| `scheduler_lock` | threads of one priority that hold the lock, yield, rotate, change priorities, sleep with a timeout and kill each other, with the lock held or not | holds (3.1 million) |
| `scheduler_fair` | do DSRs get called, do equals share the CPU | holds (4 thousand, liveness) |
| `sync` | waits, timed waits, barging calls, kills and DSRs on semaphores, a mail box and a flag | holds (0.8 million) |
| `mutex` | mutexes of both protocols nested, priority changes, condition waits, kills and releases | holds (0.2 million) |
| `counter` | alarms added, removed, re-enabled by alarm functions during the tick | holds (0.2 million, up to symmetry) |
| `delay_starves` | is timeslicing robust against `delay(0)` | violated |
| `quantum_underflow` | is the quantum at most a timeslice | violated |
| `semaphore_timeout` | does a timed wait always have its timer | violated |
| `semaphore_kill` | does a killed thread never run on | violated |
| `counter_far` | does an alarm keep its phase through disable and enable | violated |
| `counter_rearm` | may an alarm function called by `add_alarm` arm its own alarm | violated |

The properties, each with a mutant of the code in `PROJECT.json` that breaks it:

- `RunQueueConsistent`: the run queues hold exactly the runnable threads, each
  once, at their priorities; the bit map agrees.
- `TopPriorityRuns`: with the lock released, the current thread is runnable and of
  the best priority. Every wakeup, priority change and suspension by anyone has
  had its effect by the time `unlock_inner` returns.
- `LockIsPerThread`: the lock a thread finds is the lock it left (the comment at
  sched.cxx:141-148); DSRs run with it at 1 (the assertion in `call_pending_DSRs`).
- `DsrListsExact`, `NoDsrLeftBehind`, `EveryDsrCalled`: no DSR is lost, linked
  twice, left for a later unlock, or never called.
- `SleeperCanBeWoken`, `NoCountedWakeupMissed`: no sleep without a way out of it, no
  counted sleep with a wakeup queued.
- `SuspendedNeverDispatched`, `KillNotForgotten`, `KilledNeverRunsOn`,
  `ExitIsFinal`: suspension, kill and exit hold against late wakeups, alarms,
  resumes and releases.
- `TimesliceShares`: a thread that stays runnable at the best priority runs
  again and again.
- `WaitersExact`: an object's queue holds exactly the threads asleep on it.
- `NoPostLost`, `BinNotStranded`, `NothingStranded`, `NoWaiterStranded`: nothing
  posted, put or unlocked is stranded while threads sleep for it, whoever barges, gives up or
  times out.
- `NoSatisfiedSleeper`, `ClearedForOne`: `setbits` leaves no thread asleep that the value
  satisfies, and bits cleared for one thread are not given to another.
- `ImplementsBuffer`: the mail box is a bounded FIFO (refinement of `Buffer`).
- `ImplementsMonitor`: mutual exclusion, no signal lost between giving up the mutex and
  sleeping, every condition wait ends with the mutex (refinement of `Monitor`).
- `InheritanceBalanced`, `PriorityGivenBack`, `NoInversion`: the mutex count is that of the
  mutexes owned or being locked, a thread's own priority comes back, and the owner (or
  the thread woken to be it) is as good as each waiter was when it blocked.
- `ListedExact`, `NothingOverdue`, `OnSchedule`: the alarm list is exactly the enabled
  alarms, a tick leaves nothing overdue, repeating alarms keep their phase.

Deadlock is checked in every run: the clock can always interrupt, and a tick or a
call of an alarm's methods is always possible up to the bounds of `Counter`, where an
alarm can still be disabled or enabled.

### Findings

1. `delay_starves`. `timeslice_cpu` (mlqueue.cxx:547) takes the current thread to
   be at the head of its run queue. `delay()` with a trigger that is not in the
   future moves it to the tail without a reschedule, and the rotation at the end of the
   quantum brings it back to the head: a thread that does this in each quantum
   keeps its equals off the CPU for ever.
2. `quantum_underflow`. `timeslice_cpu` leaves the count at 0 if the current
   thread is not RUNNING (mlqueue.cxx:526-534). If a later DSR of the same
   `unlock_inner` wakes that thread there is no switch to restore its quantum,
   and the next tick decrements the unsigned 0.
3. `semaphore_timeout`. The timer of a timed wait is set once, outside the loop
   (cnt_sem.cxx:154). A waiter that was woken and found the count taken
   sleeps again, although its timer has gone off in between, to no effect.
4. `semaphore_kill`. A timed wait that does not have to sleep leaves
   `sleep_reason` at TIMEOUT. `kill()` then takes the running thread for a sleeper
   and leaves it a wake reason nobody reads.
5. `counter_far`. `synchronize()` (clock.cxx:746) computes on unsigned ticks; a
   trigger more than an interval ahead wraps, and an alarm disabled and enabled before it was
   first due goes off early and out of phase.
6. `counter_rearm`. `add_alarm()` (clock.cxx:307) lets the function it calls at once disable
   the alarm, but not arm it again: the alarm ends up listed and not enabled, or
   listed twice.

Read and not given a run: `new_data_index` (thread.cxx:1060) returns with
the scheduler locked when no slot is free. kernel.sgml:2573-2574 describes the
trigger of an alarm as a number of events to come; the code takes an absolute
counter value.

## 6. Proofs

The theorems about `Spec`, the scheduler without objects, hold for every value of the
constants that satisfies `ThreadAssumption` and `SchedulerAssumption`: any threads, priorities,
interrupts, bounds, sets of calls, and any `TicksWrap` (so the underflow does not disturb
them). Those about `SemSpec`, `BinSpec` and `BoxSpec` are about the scheduler with all its
calls, timers, kills and interrupts, and one kind of object: any semaphores, a mail box of any
size. `SyncSpec`, which the run `sync` checks, is these objects and flags together;
`MutexSpec`, which the run `mutex` checks, is mutexes of every protocol and condition variables, any
number of each, over the same scheduler. They
assume besides that there are finitely many threads (`WaitingAssumption`, for counting the woken and
for walking along a queue), that the object's queues are queues (`SemaphoreAssumption`,
`BinarySemaphoreAssumption`, `MailboxAssumption`, `FlagAssumption`) and, side by side, that no two
objects have a queue in common (`SyncAssumption`: each is a member of its object). `MutexAssumption` says
that a queue is that of a mutex or of a condition variable and not of both, that `NoThread` is no thread,
that each mutex has a protocol and a ceiling, and that the threads call the `set_priority()` of
`Mutex`, which knows of inheritance, and not that of `Scheduler`.

Those about `Counter` hold for any alarms, intervals, increment and depth of calls. Three
hypotheses narrow them, each a boundary of the code that a run shows to be one: `~Rearm` (the
function that `add_alarm()` calls does not arm its own alarm, `counter_rearm`), `Near` (an
alarm is first due within an interval, `counter_far`) and `NoWrap` (no trigger reaches the
width of the counter, which takes 2^64 ticks). The run `counter` satisfies all three.

| Theorem | Statement |
|---|---|
| `Invariance` | `Spec => []IInv` |
| `TypeCorrect` | `Spec => []TypeOK` |
| `RunQueuesConsistent` | `Spec => []RunQueueConsistent` |
| `PreemptionWorks` | `Spec => []TopPriorityRuns` |
| `LockBelongsToThread` | `Spec => []LockIsPerThread` |
| `NoDsrLostOrDoubled` | `Spec => []DsrListsExact` |
| `NoDsrWaitsForTheNextUnlock` | `Spec => []NoDsrLeftBehind` |
| `SleepersCanBeWoken` | `Spec => []SleeperCanBeWoken` |
| `NoCountedWakeupLost` | `Spec => []NoCountedWakeupMissed` |
| `KilledThreadsExit` | `Spec => []KilledNeverRunsOn` |
| `KillsAreNotForgotten` | `Spec => KillNotForgotten`, an action property |
| `SuspendedStayOff` | `Spec => SuspendedNeverDispatched`, an action property |
| `ExitsAreFinal` | `Spec => ExitIsFinal`, an action property |
| `SemTypeCorrect` | `SemSpec => []SemTypeOK` |
| `SemTopPriority` | `SemSpec => []TopPriorityRuns` |
| `SemWaitersExact` | `SemSpec => []WaitersExact` |
| `PostsAreNotLost` | `SemSpec => []NoPostLost` |
| `BinPostsAreNotLost` | `BinSpec => []BinNotStranded` |
| `BoxNothingStranded` | `BoxSpec => []NothingStranded` |
| `BoxImplementsBuffer` | `BoxSpec => ImplementsBuffer`, a refinement |
| `SyncInvariance` | `SyncSpec => []SyncInv` |
| `SyncTypeCorrect` | `SyncSpec => []SyncTypeOK` |
| `SyncTopPriority` | `SyncSpec => []TopPriorityRuns` |
| `SyncLockPerThread` | `SyncSpec => []LockIsPerThread` |
| `SyncWaitersExact` | `SyncSpec => []WaitersExact` |
| `SyncNothingLost` | `SyncSpec => [](NoPostLost /\ BinNotStranded /\ NothingStranded)` |
| `NoSleeperIsSatisfied` | `SyncSpec => []NoSatisfiedSleeper` |
| `BitsClearedForOne` | `SyncSpec => ClearedForOne`, an action property |
| `SyncImplementsBuffer` | `SyncSpec => ImplementsBuffer`, a refinement |
| `MutexInvariance` | `MutexSpec => []MutexInv` |
| `MutexTypeCorrect` | `MutexSpec => []MutexTypeOK` |
| `MutexTopPriority` | `MutexSpec => []TopPriorityRuns` |
| `MutexLockPerThread` | `MutexSpec => []LockIsPerThread` |
| `MutexWaitersExact` | `MutexSpec => []WaitersExact` |
| `CountsBalance` | `MutexSpec => []InheritanceBalanced` |
| `OwnPriorityKept` | `MutexSpec => []PriorityGivenBack` |
| `InversionBounded` | `MutexSpec => []NoInversion` |
| `WaitersAttended` | `MutexSpec => []NoWaiterStranded` |
| `MutexImplementsMonitor` | `MutexSpec => ImplementsMonitor`, a refinement |
| `CounterTypeCorrect` | `Spec => []CounterTypeOK` (of `Counter`) |
| `ListStaysExact` | `Spec => []ListedExact` if `~Rearm` |
| `TickLeavesNothingOverdue` | `Spec => []NothingOverdue` if `~Rearm` and `NoWrap` |
| `AlarmsStayOnSchedule` | `Spec => []OnSchedule` if `~Rearm`, `NoWrap` and `Near` |
| `ScheduleIsBest` | `KernelOK(d)` implies that `Schedule(d)` is runnable and none runnable is better |

`IInv` is the inductive invariant, in three parts.

- `KernelInv`: types, and `KernelOK(k)`: the run queues are exact, the idle thread
  is runnable and at the worst priority (so `schedule()` always has an answer), and
  `PreemptionNoted`: while `need_reschedule` is down no runnable thread is better
  than the current one. `RunQueueConsistent` alone is not inductive: `schedule()`
  needs the idle thread, and set_priority passes through data in which a runnable
  thread is on no queue (`QueuesHold` states that middle).
- `Settled`: past the switch nothing is outstanding: `need_reschedule` is down and the
  current thread runs. With `PreemptionNoted` this is `TopPriorityRuns`.
- `LockOK`: at each `pc`, how `sched_lock`, `new_lock`, `saved` and the claims each
  thread has to undo are related. `LockIsPerThread` speaks of the current thread
  only; the invariant must know it of every thread that may be switched to.

`ThreadOpsProofs` shows, operation by operation, that `KernelOK` is kept: with the lemmas of
`CListProofs` on the lists (`Without`, `Rotated`, `ToHead`), first `RemThread` and `AddThread`
on `QueuesHold`, then `SetState`, from which most operations follow in a line.
`SchedulerProofs` adds the steps of `unlock_inner` (`DispatchOK`, `SwitchOK`) and
does the case analysis over the actions once for each part of the invariant
(`DataStep` and `SwitchStep`, `LockStep`, `SettledStep`); the API actions share
their shape (`CallShape`), so they are one case there.

For the DSRs `DsrInv` adds to `DsrListsExact` where the lists can be non-empty and where an
unlocked thread can be. `SleepProofs` says of each thread that its state bits, its
two reasons and its timer agree (`SleepOK`): every operation keeps that, and those that
do not block (`Gentle`) put nobody to sleep; with the place each thread is at in its call
(`InCall`) this gives the three properties. The three action properties are of the same
operations, seen as steps (`NotDisturbed`): none takes an EXIT away or undoes an exit; and what the CPU is
given to is what `schedule()` returns, which is RUNNING. `KilledThreadsExit` holds of the calls of
`Scheduler`; `semaphore_kill` shows that the timed waits of the objects break it, and
where: in the half of `SleepOK` that says that who does not sleep has no reason to.

The theorems on the objects rest on an invariant of the waits, `WaitInv`. It has of each thread
that it is on a queue only while it sleeps in a wait on it, that a sleep in a wait can be
broken, and that a thread woken with DONE waits for nothing any more (`WaitOK`); and of the
queues that they hold those threads, each once (`QueuedExactly`). Every operation of
`ThreadOps` keeps it for all threads (`Kept`), or for all but its caller, whose reason it clears
(`KeptOthers`), or puts the caller to sleep (`Blocked`). From this each step of the scheduler
takes a thread off a queue only by waking it and leaves the woken ones woken
(`NobodyLost`). What `wait()`, `get()` and the others add is then a matter of counting: a
step that leaves one unit more than before with threads still asleep has woken one more
(`OneMoreWoken`, `HandOver`), and one that loses a woken thread, the caller, has taken a unit
(`StillCovered`). `NoPostLost`, `BinNotStranded` and `NothingStranded` are inductive with `IInv`
and `WaitInv`; the mail box needs in addition that a thread waiting to put has an
item to put (`Offers`).

For the refinement a step of a mail box does one of three things to the ring (`RingStep`): nothing, a
take from a box that is not empty, a store in one that is not full. On the
sequence of the items between, these are a stutter, `Get` and `Put`; the arithmetic is that a
sum of two indices, less than twice the size, modulo the size is what the code's comparison and
subtraction make of it (`Wrap`).

For the flag `setbits()` is a walk along the queue, a fold in the model. `ServeSteps` unfolds it to the
data after each of its rounds, `NextRound` carries `RoundsDone` over one round (the threads
looked at and left do not match; those served have a value; once bits were cleared nobody
behind is served; the rest of the queue is as it was), and `Induction` of `NaturalsInduction`,
instantiated with a set, does the rest. `NoSatisfiedSleeper` is inductive with that and with what
it says of the woken: they have been handed a value (`FlagInv`).

Side by side, a step of one object, or of the scheduler, is `Quiet` for the others: on their queues
it puts nobody, takes off only threads whose wait is broken, and their woken stay
woken. Each invariant is kept by such a step (`SemAside`, `BinAside`, `BoxAside`, `FlagAside`), and every
step of each object is shown to be quiet outside its own queues; `SyncInv` is then the
conjunction.

`MutexInv`, the invariant of mutexes and condition variables, comes in layers on top of `IInv` and `WaitInv`.

- `ClaimsAt` says where in `lock()` or `wait()` each thread is, which mutex it is to lock and
  that it does not own that one already; `RunsOn`, that the thread running in its own code has not exited.
- `BalancedAt`: the mutex count is the size of a finite set, the protocol's mutexes a living
  thread owns or is locking. `OneMoreHeld`, `OneLessHeld` and `NowHolding` are the
  three things a step does to that set. A thread in the middle of `lock()` counts a
  mutex it has not got, so `InheritanceBalanced` needs `ClaimsAt` to be inductive.
- `GivenBack`: with nothing inherited a thread has the priority it was given, else that priority is
  kept and the lent one is no worse.
- `Guarded` and `Attended`, which are `NoInversion` and `NoWaiterStranded` mutex by mutex: the owner or a
  woken waiter vouches for those asleep. They survive an unlock because `HandOn`
  wakes a waiter with the priority the owner had (`HeirOf`), and a broken-off `lock()` because the thread
  that leaves was no guard, or owns a mutex that still counts and keeps its priority.

The methods of inheritance change kernel data and inheritance data together, so the lemmas are of
pairs of the two: what `SetInherited`, `ClearInherited`, `Count`, `Uncount`, `InheritFrom`, `Relay` and `HandOn`
leave alone (`Honest`, `Adjusts`, `Lends`, `GivenUp`). `release()` and `broadcast()` are walks like that of
`setbits()` and unfold the same way. `GuardedStep` and `AttendedStep` then reduce each action to
the one thread that moves.

For the refinement every step is shown to be `Follows`, a step of `Monitor` or a stutter, beside
`MutexInv'`. The place of a thread depends on whether it has exited, whether it sleeps, its mutex and its
wait (`PlaceSeen`); with `WaitInv` who sleeps in a wait is on its queue. So a quiet step only rouses
waiters or lets one thread die (`QuietFollows`), and one in which a thread acts leaves all others in their
place (`OthersStay`): that the waiter an `unlock()` wakes was queued on the mutex, and not on a condition
variable, is what the lemma needs to know of the data (`Apart`).

In `Counter` the hard part is that alarm functions change the list under `tick()`. `ListInv`
says that the list holds the enabled alarms, each once, but for those that an `add_alarm()` on the
stack is about to list, and that no alarm is being added twice. `DueInv` adds that those are due,
which is why `add_alarm()` called them; `NothingOverdue` alone does not say that. `PhaseInv`
says of every alarm, enabled or not, that its trigger is a number of intervals from the first;
`Synchronize` needs the arithmetic of `\div` and `%` on a difference that does not wrap.

Only model-checked: the liveness properties and everything under fairness, which are out of
the prover's reach; and, as violations,
`TimeoutsEnforced` and `KilledNeverRunsOn` of waits, `TimesliceShares`, `QuantumBounded`,
`PhaseKept` and `ManipulatedSensibly`, which do not hold.

## 7. What remains

- `NoInversion` is proved for behaviours without `set_priority()` calls, as it is stated: what may be said of
  the priorities of owners and waiters after one is open.
- With mutexes, `SleepProofs` and the DSR theorems are not restated: they are of the calls of `Scheduler`.
- Restart of exited threads, per-thread data, `set_ceiling`, `set_protocol`, `set_value`.

## 8. Not modelled

The tree is a whole vendored eCos 3.0 with its ports, network stacks, fonts and sample
data: 1.6 million lines, of which the release builds a small part and the kernel is
some twenty thousand, comments included. What is modelled is the configured kernel, so the share of
the tree the modules stand for is small and stays so.

- Of modelled parts: `set_ceiling` and `set_protocol` (assignments); the flag's destructor,
  the only one that wakes waiters, with the reason `DESTRUCT` (flag.cxx:90; the other
  destructors assert that nobody waits); `set_value`, `set_resolution` and the converters of
  clocks; lists of alarms in several buckets or sorted; `reinitialize`, which
  `cyg_thread_resume` calls for an exited thread; the per-thread data map; calls of a mail box
  by interrupts, which the comment at mboxt.inl:71 of this tree allows, and for which it
  disables interrupts around the ring only: the models have eCos's threads and DSRs.
- The other schedulers, SMP, ASRs, sorted wait queues, interrupt chaining, the DSR
  table: not configured.
- HAL, drivers and the MAX2769 control programs: register sequences whose
  concurrency is that of the kernel; to it they are the interrupts and calls of
  `Scheduler`.
- Serial I/O, memory pools, file systems, network, POSIX and uITRON layers: vendored
  packages above the kernel.
- Exceptions, stack checking, instrumentation and the CPU load counters: they do
  not change what is scheduled.
