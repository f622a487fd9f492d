------------------------------ MODULE Semaphore ------------------------------
(***************************************************************************)
(* Counting semaphores (cnt_sem.cxx) on top of the scheduler: threads that *)
(* wait, with and without a timeout, threads and DSRs that post.  Each     *)
(* semaphore is named by its Cyg_ThreadQueue.                              *)
(***************************************************************************)
EXTENDS Waiting

CONSTANTS
  Semaphores,   \* their queues
  InitCount,    \* the count each semaphore is constructed with
  MaxCount      \* bound on count

ASSUME SemaphoreAssumption ==
  /\ Semaphores \subseteq Queue
  /\ InitCount \in [Semaphores -> Nat]
  /\ MaxCount \in Nat

VARIABLE count  \* Cyg_Counting_Semaphore::count

semvars == <<count, waits>>

SemInit ==
  /\ Init
  /\ count = InitCount
  /\ waits = [t \in Thread |-> NoWait]
------------------------------------------------------------------------------
(***************************************************************************)
(* wait() and wait(timeout).                                               *)
(***************************************************************************)
\* while( count == 0 && result ), result being true, and what follows it.
WaitLoop(j, s, timed) ==
  \/ /\ count[s] > 0
     /\ count' = [count EXCEPT ![s] = @ - 1]
     /\ Finish(j, timed)
  \/ /\ count[s] = 0
     /\ BlockOn(GoToSleep(j, s, timed), s, timed)
     /\ UNCHANGED count

\* result is false: the wait is broken off or has timed out.
GiveUp(j, timed) ==
  /\ Finish(j, timed)
  /\ UNCHANGED count

SemWait(s) ==
  /\ Calling("wait")
  /\ WaitLoop(k, s, FALSE)

\* The timer is set once, outside the loop.
SemTimedWait(s) ==
  /\ Calling("timed_wait")
  /\ WaitLoop(SetTimer(k, "TIMEOUT"), s, TRUE)

\* The timeout is in the past: set_timer() calls the alarm at once.
SemTimedWaitPast(s) ==
  LET j == Alarm(SetTimer(k, "TIMEOUT"), Current)
  IN  /\ Calling("timed_wait")
      /\ IF j.wake_reason[Current] # "NONE" /\ count[s] = 0
         THEN GiveUp(j, TRUE)
         ELSE WaitLoop(j, s, TRUE)

WokenToGiveUp ==
  /\ InWait(Semaphores)
  /\ BrokenOff
  /\ GiveUp(k, waits[Current].timed)

WokenToRetry ==
  /\ InWait(Semaphores)
  /\ Spurious
  /\ WaitLoop(k, waits[Current].queue, waits[Current].timed)
------------------------------------------------------------------------------
(***************************************************************************)
(* trywait() and post().                                                   *)
(***************************************************************************)
\* Mutant of SemTryWait: the count is taken without a look at it.
SemTryWaitUnchecked(s) ==
  /\ Calling("trywait")
  /\ count' = [count EXCEPT ![s] = @ - 1]
  /\ Update(k)
  /\ UNCHANGED waits

SemTryWait(s) ==
  /\ Calling("trywait")
  /\ count' = [count EXCEPT ![s] = IF @ > 0 THEN @ - 1 ELSE @]
  /\ Update(k)
  /\ UNCHANGED waits

Posted(s) ==
  /\ count[s] < MaxCount
  /\ count' = [count EXCEPT ![s] = @ + 1]

\* The first waiter is woken; it takes the count when it runs.
SemPost(s) ==
  /\ Calling("post")
  /\ Posted(s)
  /\ Update(WakeFirst(k, s))
  /\ UNCHANGED waits

\* Mutant of SemPostDSR: a waiter is woken only when the count was zero.
SemPostDSRIfZero(s) ==
  /\ DeviceCalling("post")
  /\ Posted(s)
  /\ DeviceUpdate(IF count[s] = 0 THEN WakeFirst(k, s) ELSE k)
  /\ UNCHANGED waits

SemPostDSR(s) ==
  /\ DeviceCalling("post")
  /\ Posted(s)
  /\ DeviceUpdate(WakeFirst(k, s))
  /\ UNCHANGED waits
------------------------------------------------------------------------------
SemStep ==
  \/ WokenToGiveUp \/ WokenToRetry
  \/ \E s \in Semaphores :
       \/ SemWait(s) \/ SemTimedWait(s) \/ SemTimedWaitPast(s)
       \/ SemTryWait(s) \/ SemPost(s) \/ SemPostDSR(s)

SemNext ==
  \/ SemStep
  \/ WokenToExit /\ UNCHANGED count
  \/ Next /\ UNCHANGED semvars

SemSpec == SemInit /\ [][SemNext]_<<vars, semvars>>
------------------------------------------------------------------------------
(***************************************************************************)
(* Safety.                                                                 *)
(***************************************************************************)
\* Every variable keeps its type; a semaphore's count is never negative.
SemTypeOK ==
  /\ TypeOK
  /\ count \in [Semaphores -> Nat]
  /\ waits \in [Thread -> [queue : Queue \cup {NoQueue}, timed : BOOLEAN]]

\* No post is lost: while threads sleep on a semaphore, there is for each
\* unit of its count a woken waiter on its way to take it.  Timeouts,
\* releases and barging trywait() calls do not strand a unit.  (A woken
\* waiter that is killed before it runs counts as on its way for ever: kill()
\* hands nothing on, as its documentation warns.)
NoPostLost ==
  \A s \in Semaphores :
    k.wait_queue[s] # <<>> => count[s] <= Cardinality(Woken(s))
==============================================================================
