------------------------------- MODULE Mutex -------------------------------
(***************************************************************************)
(* Mutexes and condition variables (mutex.cxx) with the inheritance and    *)
(* ceiling of priorities (sched.cxx), on top of the scheduler.  A mutex or *)
(* a condition variable is named by its Cyg_ThreadQueue.                   *)
(***************************************************************************)
EXTENDS Waiting

CONSTANTS
  Mutexes, CondVars,  \* the two kinds of Queue
  NoThread,           \* a NULL owner
  Protocol,           \* each mutex's protocol
  Ceiling,            \* each mutex's ceiling
  MaxChanges          \* bound on the set_priority() calls

ASSUME MutexAssumption ==
  /\ Queue = Mutexes \cup CondVars
  /\ Mutexes \cap CondVars = {}
  /\ NoThread \notin Thread
  /\ Protocol \in [Mutexes -> {"NONE", "INHERIT", "CEILING"}]
  /\ Ceiling \in [Mutexes -> Priority]
  /\ MaxChanges \in Nat
  \* set_priority is change_priority here, below
  /\ \A t \in Target : "set_priority" \notin Calls[t]

VARIABLES
  owner,     \* Cyg_Mutex::owner; locked is owner # NULL
  mutex,     \* the mutex each thread's condition wait is to lock again
  inherit,   \* mutex_count, priority_inherited, original_priority
  base,      \* the priority each thread was last given by its creator or user
  asked,     \* the priority with which each thread last blocked on a mutex
  changes    \* set_priority() calls made

mutexvars == <<owner, mutex, inherit, base, asked, changes, waits>>

InheritData ==
  [mutex_count        : [Thread -> Int],
   priority_inherited : [Thread -> BOOLEAN],
   original_priority  : [Thread -> Priority]]

MutexInit ==
  /\ Init
  /\ waits = [t \in Thread |-> NoWait]
  /\ owner = [x \in Mutexes |-> NoThread]
  /\ mutex = [t \in Thread |-> NoQueue]
  /\ inherit = [mutex_count        |-> [t \in Thread |-> 0],
                priority_inherited |-> [t \in Thread |-> FALSE],
                original_priority  |-> InitPriority]
  /\ base = InitPriority
  /\ asked = InitPriority
  /\ changes = 0
------------------------------------------------------------------------------
(***************************************************************************)
(* Inheritance.  These methods change the kernel data and the inheritance  *)
(* data together: d is a record of the two.                                *)
(***************************************************************************)
Here == [k |-> k, i |-> inherit]

\* Mutant of SetInherited: original_priority is overwritten each time.
SetInheritedAgain(d, t, p) ==
  IF p < d.k.priority[t]
  THEN [k |-> SetPriority(d.k, t, p),
        i |-> [d.i EXCEPT !.priority_inherited[t] = TRUE,
                          !.original_priority[t]  = d.k.priority[t]]]
  ELSE d

\* set_inherited_priority(p)
SetInherited(d, t, p) ==
  IF p < d.k.priority[t]
  THEN [k |-> SetPriority(d.k, t, p),
        i |-> [d.i EXCEPT
                 !.priority_inherited[t] = TRUE,
                 !.original_priority[t]  =
                    IF d.i.priority_inherited[t] THEN @ ELSE d.k.priority[t]]]
  ELSE d

\* clear_inherited_priority(): not before the last mutex is given up
ClearInherited(d, t) ==
  IF d.i.mutex_count[t] # 0 \/ ~d.i.priority_inherited[t] THEN d
  ELSE [k |-> IF d.k.priority[t] < d.i.original_priority[t]
              THEN SetPriority(d.k, t, d.i.original_priority[t])
              ELSE d.k,
        i |-> [d.i EXCEPT !.priority_inherited[t] = FALSE]]

\* Cyg_Thread::set_priority of a thread that may have inherited
SetPriorityAware(d, t, p) ==
  IF ~d.i.priority_inherited[t] THEN [d EXCEPT !.k = SetPriority(@, t, p)]
  ELSE [k |-> SetPriority(d.k, t, IF p < d.k.priority[t] THEN p
                                  ELSE d.k.priority[t]),
        i |-> [d.i EXCEPT !.original_priority[t] = p]]

\* Mutant of Count: only the INHERIT protocol counts the mutex.
CountInherit(d, x, t) ==
  CASE Protocol[x] = "NONE"    -> d
    [] Protocol[x] = "INHERIT" -> [d EXCEPT !.i.mutex_count[t] = @ + 1]
    [] Protocol[x] = "CEILING" -> SetInherited(d, t, Ceiling[x])

\* The mutex x starts to count for thread t, in lock() and trylock() ...
Count(d, x, t) ==
  LET counted == [d EXCEPT !.i.mutex_count[t] = @ + 1]
  IN  CASE Protocol[x] = "NONE"    -> d
        [] Protocol[x] = "INHERIT" -> counted
        [] Protocol[x] = "CEILING" -> SetInherited(counted, t, Ceiling[x])

\* ... and ceases to, in unlock() and when lock() is broken off.
Uncount(d, x, t) ==
  IF Protocol[x] = "NONE" THEN d
  ELSE ClearInherited([d EXCEPT !.i.mutex_count[t] = @ - 1], t)

\* owner->inherit_priority(self)
InheritFrom(d, x, t) ==
  IF Protocol[x] = "INHERIT" THEN SetInherited(d, owner[x], d.k.priority[t])
  ELSE d

\* Mutant of Relay: the owner-to-be inherits nothing.
NoRelay(d, x, t) == d

\* thread->relay_priority(owner, &queue), of the thread dequeued
Relay(d, x, t) ==
  IF Protocol[x] = "INHERIT" /\ d.k.wait_queue[x] # <<>>
  THEN SetInherited(d, t, d.k.priority[owner[x]])
  ELSE d
------------------------------------------------------------------------------
(***************************************************************************)
(* lock(), trylock(), unlock(), release().                                 *)
(***************************************************************************)
Free(x) == owner[x] = NoThread

\* while( locked && result ), result being true, and what follows it.
LockLoop(d, x) ==
  \/ /\ Free(x)
     /\ owner' = [owner EXCEPT ![x] = Current]
     /\ mutex' = [mutex EXCEPT ![Current] = NoQueue]
     /\ inherit' = d.i
     /\ Finish(d.k, FALSE)
     /\ UNCHANGED <<base, asked, changes>>
  \/ /\ ~Free(x)
     /\ LET asleep == [d EXCEPT !.k = GoToSleep(@, x, FALSE)]
            passed == InheritFrom(asleep, x, Current)
        IN  BlockOn(passed.k, x, FALSE) /\ inherit' = passed.i
     /\ asked' = [asked EXCEPT ![Current] = d.k.priority[Current]]
     /\ UNCHANGED <<owner, mutex, base, changes>>

\* Not called by the owner, who would wait for itself.
MutexLock(x) ==
  /\ Calling("mutex_lock")
  /\ owner[x] # Current
  /\ LockLoop(Count(Here, x, Current), x)

MutexWokenToRetry ==
  /\ InWait(Mutexes)
  /\ Spurious
  /\ LockLoop(Here, waits[Current].queue)

\* Mutants of MutexBrokenOff: the mutex remains counted; a condition wait
\* does not try again.
MutexBrokenOffCounted ==
  /\ InWait(Mutexes)
  /\ BrokenOff
  /\ UpdateThen(k, IF mutex[Current] = NoQueue THEN "user" ELSE "relock")
  /\ waits' = [waits EXCEPT ![Current] = NoWait]
  /\ UNCHANGED <<owner, mutex, inherit, base, asked, changes>>

MutexBrokenOffOnce ==
  LET d == Uncount(Here, waits[Current].queue, Current)
  IN  /\ InWait(Mutexes)
      /\ BrokenOff
      /\ UpdateThen(d.k, "user")
      /\ waits' = [waits EXCEPT ![Current] = NoWait]
      /\ mutex' = [mutex EXCEPT ![Current] = NoQueue]
      /\ inherit' = d.i
      /\ UNCHANGED <<owner, base, asked, changes>>

\* lock() returns false: to the caller, or to the loop in wait_inner().
MutexBrokenOff ==
  LET d == Uncount(Here, waits[Current].queue, Current)
  IN  /\ InWait(Mutexes)
      /\ BrokenOff
      /\ UpdateThen(d.k, IF mutex[Current] = NoQueue THEN "user" ELSE "relock")
      /\ waits' = [waits EXCEPT ![Current] = NoWait]
      /\ inherit' = d.i
      /\ UNCHANGED <<owner, mutex, base, asked, changes>>

MutexTryLock(x) ==
  /\ Calling("mutex_trylock")
  /\ IF Free(x)
     THEN /\ owner' = [owner EXCEPT ![x] = Current]
          /\ LET d == Count(Here, x, Current)
             IN  Update(d.k) /\ inherit' = d.i
     ELSE Update(k) /\ UNCHANGED <<owner, inherit>>
  /\ UNCHANGED <<mutex, base, asked, changes, waits>>

\* Mutant of HandOn: no waiter is woken.
HandOnNothing(d, x) == d

\* The first waiter is woken, with a priority that is good enough for the
\* others; it is not made the owner.
HandOn(d, x) ==
  LET t       == Head(d.k.wait_queue[x])
      relayed == Relay([d EXCEPT !.k = Dequeue(@, x)], x, t)
  IN  IF d.k.wait_queue[x] = <<>> THEN d
      ELSE [relayed EXCEPT !.k = WakeDone(@, t)]

\* unlock(), but for locked = false, owner = NULL
Unlocked(x) == Uncount(HandOn(Here, x), x, owner[x])

MutexUnlock(x) ==
  /\ Calling("mutex_unlock")
  /\ owner[x] = Current
  /\ LET d == Unlocked(x)
     IN  Update(d.k) /\ inherit' = d.i
  /\ owner' = [owner EXCEPT ![x] = NoThread]
  /\ UNCHANGED <<mutex, base, asked, changes, waits>>

\* release(): every waiter is dequeued and released.
MutexRelease(x) ==
  /\ Calling("mutex_release")
  /\ Update(FoldLeft(LAMBDA j, t : Release(Dequeue(j, x), t),
                     k, k.wait_queue[x]))
  /\ UNCHANGED mutexvars

ChangePriority(t, p) ==
  /\ Calling("change_priority")
  /\ changes < MaxChanges
  /\ LET d == SetPriorityAware(Here, t, p)
     IN  Update(d.k) /\ inherit' = d.i
  /\ base' = [base EXCEPT ![t] = p]
  /\ changes' = changes + 1
  /\ UNCHANGED <<owner, mutex, asked, waits>>
------------------------------------------------------------------------------
(***************************************************************************)
(* Condition variables.                                                    *)
(***************************************************************************)
\* The mutex given up, as in unlock(), and the thread asleep: on the
\* condition variable's queue ...
CondSleep(d, c) ==
  [d EXCEPT !.k = Enqueue(Sleep(SetSleepReason(@, "WAIT")), c, Current)]

\* ... or, with a timeout, with its timer armed too ...
CondSleepTimed(d, c) ==
  [d EXCEPT !.k = Enqueue(SetTimer(Sleep(@), "TIMEOUT"), c, Current)]

\* Mutant of CondSleepPast: the thread is enqueued all the same.
CondSleepPastQueued(d) ==
  [d EXCEPT !.k = Enqueue(Alarm(SetTimer(Sleep(@), "TIMEOUT"), Current),
                          CHOOSE c \in CondVars : TRUE, Current)]

\* ... or, the timeout being past, awake again and on no queue.
CondSleepPast(d) ==
  [d EXCEPT !.k = Alarm(SetTimer(Sleep(@), "TIMEOUT"), Current)]

\* unlock_reschedule()
UnlockReschedule(j, next) ==
  /\ k' = j
  /\ UnlockInner(held[Current] + 1, held[Current])
  /\ cont' = [cont EXCEPT ![Current] = next]
  /\ UNCHANGED <<saved, fresh, held, dsrs>>

CondBlock(d, c, x, timed) ==
  /\ UnlockReschedule(d.k, IF timed THEN "condtimer" ELSE "cond")
  /\ inherit' = d.i
  /\ waits' = [waits EXCEPT ![Current] = Wait(c, timed)]
  /\ mutex' = [mutex EXCEPT ![Current] = x]
  /\ owner' = [owner EXCEPT ![x] = NoThread]
  /\ UNCHANGED <<base, asked, changes>>

\* wait_inner(mx) and wait_inner(mx, timeout), by the owner of the mutex
CondWait(c, x) ==
  /\ Calling("cond_wait")
  /\ owner[x] = Current
  /\ CondBlock(CondSleep(Unlocked(x), c), c, x, FALSE)

CondTimedWait(c, x) ==
  /\ Calling("cond_timed_wait")
  /\ owner[x] = Current
  /\ \/ CondBlock(CondSleepTimed(Unlocked(x), c), c, x, TRUE)
     \/ CondBlock(CondSleepPast(Unlocked(x)), c, x, TRUE)

\* clear_timer()
CondClearTimer ==
  /\ pc = "user"
  /\ cont[Current] = "condtimer"
  /\ UpdateThen(ClearTimer(k, Current), "cond")
  /\ UNCHANGED mutexvars

\* switch( wake_reason ): exit() ...
CondExit ==
  /\ pc = "user"
  /\ cont[Current] = "cond"
  /\ k.wake_reason[Current] = "EXIT"
  /\ RescheduleThen(Exit(k), "dead")
  /\ waits' = [waits EXCEPT ![Current] = NoWait]
  /\ UNCHANGED <<owner, mutex, inherit, base, asked, changes>>

\* ... or whatever the reason, on to the mutex
CondWoken ==
  /\ pc = "user"
  /\ cont[Current] = "cond"
  /\ k.wake_reason[Current] # "EXIT"
  /\ cont' = [cont EXCEPT ![Current] = "relock"]
  /\ waits' = [waits EXCEPT ![Current] = NoWait]
  /\ UNCHANGED <<k, cpu, saved, fresh, held, dsrs>>
  /\ UNCHANGED <<owner, mutex, inherit, base, asked, changes>>

\* while( !mx->lock() ) continue;
CondRelock ==
  /\ pc = "user"
  /\ cont[Current] = "relock"
  /\ LockLoop(Count(Here, mutex[Current], Current), mutex[Current])

CondSignal(c) ==
  /\ Calling("cond_signal")
  /\ Update(WakeFirst(k, c))
  /\ UNCHANGED mutexvars

CondSignalDSR(c) ==
  /\ DeviceCalling("cond_signal")
  /\ DeviceUpdate(WakeFirst(k, c))
  /\ UNCHANGED mutexvars

CondBroadcast(c) ==
  /\ Calling("cond_broadcast")
  /\ Update(FoldLeft(LAMBDA j, t : WakeFirst(j, c), k, k.wait_queue[c]))
  /\ UNCHANGED mutexvars
------------------------------------------------------------------------------
MutexStep ==
  \/ MutexWokenToRetry \/ MutexBrokenOff
  \/ CondClearTimer \/ CondExit \/ CondWoken \/ CondRelock
  \/ WokenToExit /\ UNCHANGED <<owner, mutex, inherit, base, asked, changes>>
  \/ \E x \in Mutexes :
       \/ MutexLock(x) \/ MutexTryLock(x) \/ MutexUnlock(x) \/ MutexRelease(x)
       \/ \E c \in CondVars : CondWait(c, x) \/ CondTimedWait(c, x)
  \/ \E c \in CondVars : CondSignal(c) \/ CondSignalDSR(c) \/ CondBroadcast(c)
  \/ \E t \in Target : \E p \in Priority : ChangePriority(t, p)

MutexNext == MutexStep \/ (Next /\ UNCHANGED mutexvars)

MutexSpec == MutexInit /\ [][MutexNext]_<<vars, mutexvars>>
------------------------------------------------------------------------------
(***************************************************************************)
(* Safety.                                                                 *)
(***************************************************************************)
Active(x) == Protocol[x] # "NONE"

\* Every variable keeps its type; no thread's mutex count is negative.
MutexTypeOK ==
  /\ TypeOK
  /\ owner \in [Mutexes -> Thread \cup {NoThread}]
  /\ mutex \in [Thread -> Mutexes \cup {NoQueue}]
  /\ inherit \in InheritData
  /\ \A t \in Thread : inherit.mutex_count[t] >= 0
  /\ base \in [Thread -> Priority]
  /\ asked \in [Thread -> Priority]
  /\ changes \in Nat
  /\ waits \in [Thread -> [queue : Queue \cup {NoQueue}, timed : BOOLEAN]]

\* The mutex count, at whose zero an inherited priority is given up, is that
\* of the protocol's mutexes the thread owns or is locking, whichever of the
\* waits it went through was released, timed out or signalled; and nothing
\* stays inherited at zero.
InheritanceBalanced ==
  \A t \in Thread : ~Gone(t) =>
    /\ inherit.mutex_count[t] =
         Cardinality({x \in Mutexes :
                        Active(x) /\ (owner[x] = t \/ waits[t].queue = x)})
    /\ inherit.mutex_count[t] = 0 => ~inherit.priority_inherited[t]

\* A thread's own priority is never lost: it has it, or has inherited a
\* better one and keeps its own to go back to, even if it was changed or
\* inherited from several threads meanwhile.
PriorityGivenBack ==
  \A t \in Thread :
    IF inherit.priority_inherited[t]
    THEN inherit.original_priority[t] = base[t] /\ k.priority[t] <= base[t]
    ELSE k.priority[t] = base[t]

\* No unbounded inversion over one mutex: while a thread is queued on a mutex
\* with inheritance, the owner or a thread that was woken to lock it runs with
\* a priority as good as the waiter had when it blocked.  (What a waiter
\* inherits later, and set_priority() of owners, are not passed on; the
\* documentation warns of the first.)
NoInversion ==
  changes = 0 =>
    \A x \in Mutexes : Protocol[x] = "INHERIT" =>
      \A t \in ToSet(k.wait_queue[x]) :
        \E u \in Woken(x) \cup ({owner[x]} \ {NoThread}) :
          k.priority[u] <= asked[t]

\* No waiter is stranded: while threads sleep on a free mutex, one has been
\* woken to lock it, although it was not made the owner and others may barge,
\* give up, time out or be released.
NoWaiterStranded ==
  \A x \in Mutexes :
    Free(x) /\ k.wait_queue[x] # <<>> => Woken(x) # {}
------------------------------------------------------------------------------
(***************************************************************************)
(* The monitor the mutexes and condition variables implement.              *)
(***************************************************************************)
Place(t) ==
  CASE Gone(t) -> "dead"
    [] ~Gone(t) /\ mutex[t] # NoQueue ->
         IF Asleep(t) /\ waits[t].queue \in CondVars THEN "waiting"
         ELSE "returning"
    [] ~Gone(t) /\ mutex[t] = NoQueue ->
         IF waits[t].queue \in Mutexes THEN "entering" ELSE "outside"

Wanted(t) ==
  CASE Place(t) \in {"waiting", "returning"} -> mutex[t]
    [] Place(t) = "entering"                 -> waits[t].queue
    [] OTHER                                 -> NoQueue

Promise == INSTANCE Monitor WITH
  Lock <- Mutexes, NoLock <- NoQueue, holder <- owner,
  place <- [t \in Thread |-> Place(t)], wants <- [t \in Thread |-> Wanted(t)]

\* The code implements Monitor: a mutex has one owner, who alone gives it up;
\* giving it up and starting to wait is one step, so that no signal is lost;
\* and a condition wait, signalled, timed out or released, ends with the mutex
\* owned ("it is essential that we exit this function with the mutex claimed").
ImplementsMonitor == Promise!Spec
==============================================================================
