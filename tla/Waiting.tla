------------------------------ MODULE Waiting ------------------------------
(***************************************************************************)
(* What the waits of all synchronization objects have in common: the queue *)
(* a thread waits on, going to sleep on it, being woken from it, giving up *)
(* and being killed in the wait.  cnt_sem.cxx, bin_sem.cxx, mboxt.inl,     *)
(* flag.cxx and mutex.cxx write this out each for itself, in the same way; *)
(* the lines mapped are those of cnt_sem.cxx and mlqueue.cxx.              *)
(***************************************************************************)
EXTENDS Scheduler, FiniteSets

\* The waiters of an object can be counted.
ASSUME WaitingAssumption == IsFiniteSet(Thread)

VARIABLE waits   \* the wait each thread is in: its queue and its kind

NoWait == [queue |-> NoQueue, timed |-> FALSE]

Wait(q, timed) == [queue |-> q, timed |-> timed]

Gone(t) == "EXITED" \in k.state[t]

Asleep(t) == "SLEEPING" \in k.state[t]

\* Cyg_ThreadQueue_Implementation::dequeue
Dequeue(j, q) ==
  [j EXCEPT !.wait_queue[q] = Tail(@),
            !.queue[Head(j.wait_queue[q])] = NoQueue]

\* A thread that has been dequeued is woken, with reason DONE.
WakeDone(j, t) == Wake(SetWakeReason(j, t, "DONE"), t)

\* if( !queue.empty() ) its first thread is woken.
WakeFirst(j, q) ==
  IF j.wait_queue[q] = <<>> THEN j
  ELSE WakeDone(Dequeue(j, q), Head(j.wait_queue[q]))

\* set_sleep_reason(), sleep(), enqueue(): one round of a wait's loop.
GoToSleep(j, q, timed) ==
  Enqueue(Sleep(SetSleepReason(j, IF timed THEN "TIMEOUT" ELSE "WAIT")),
          q, Current)

\* ... and reschedule(), the data being left as j.
BlockOn(j, q, timed) ==
  /\ RescheduleThen(j, "wait")
  /\ waits' = [waits EXCEPT ![Current] = Wait(q, timed)]

\* The wait ends, its claim of the lock given up, the data left as j.  Only
\* a timed wait has a timer to clear.
Finish(j, timed) ==
  /\ UpdateThen(IF timed THEN ClearTimer(j, Current) ELSE j, "user")
  /\ waits' = [waits EXCEPT ![Current] = NoWait]

\* Back from reschedule(), the lock still claimed, in a wait on a queue of Q.
InWait(Q) ==
  /\ pc = "user"
  /\ cont[Current] = "wait"
  /\ waits[Current].queue \in Q

\* switch( wake_reason ): result = false
BrokenOff == k.wake_reason[Current] \in {"BREAK", "TIMEOUT"}

\* ... or round the loop again
Spurious == k.wake_reason[Current] \notin {"BREAK", "TIMEOUT", "EXIT"}

\* ... or self->exit(), which claims the lock once more
WokenToExit ==
  /\ InWait(Queue)
  /\ k.wake_reason[Current] = "EXIT"
  /\ k' = Exit(k)
  /\ UnlockInner(held[Current] + 2, held[Current] + 2)
  /\ held' = [held EXCEPT ![Current] = @ + 1]
  /\ cont' = [cont EXCEPT ![Current] = "dead"]
  /\ waits' = [waits EXCEPT ![Current] = NoWait]
  /\ UNCHANGED <<saved, fresh, dsrs>>

\* A device's DSR makes the call, which leaves the data as j.
DeviceCalling(name) ==
  /\ pc = "dsr"
  /\ dsr_active \in Intr \ {Clock}
  /\ name \in DsrCalls

DeviceUpdate(j) ==
  /\ k' = j
  /\ dsr_active' = NoIntr
  /\ UNCHANGED <<cpu, ctx, dsr_list, dsr_batch, dsr_count>>
------------------------------------------------------------------------------
(***************************************************************************)
(* Safety of every wait.                                                   *)
(***************************************************************************)
\* Threads that have been woken from q and have not run since.
Woken(q) == {t \in Thread : /\ waits[t].queue = q
                            /\ ~Asleep(t)
                            /\ k.wake_reason[t] = "DONE"}

\* The threads on an object's queue are those that sleep in a wait on it,
\* each once, whoever else wakes, kills, suspends or re-prioritizes them: so
\* nobody wakes, nor set_priority() re-queues, a thread that has left.
WaitersExact ==
  \A q \in Queue :
    /\ ToSet(k.wait_queue[q]) = {t \in Thread : waits[t].queue = q /\ Asleep(t)}
    /\ IsInjective(k.wait_queue[q])
    /\ \A t \in Thread : k.queue[t] = q <=> t \in ToSet(k.wait_queue[q])

\* A wait with a timeout ends by the timeout: while its thread sleeps the
\* timer is armed.
TimeoutsEnforced ==
  \A t \in Thread : Asleep(t) /\ waits[t].timed => t \in k.timer
==============================================================================
