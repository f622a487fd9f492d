-------------------------- MODULE BinarySemaphore --------------------------
(***************************************************************************)
(* A binary semaphore (bin_sem.cxx).                                       *)
(***************************************************************************)
EXTENDS Waiting

CONSTANT BinQueue  \* its queue

ASSUME BinarySemaphoreAssumption == BinQueue \in Queue

VARIABLE state  \* Cyg_Binary_Semaphore::state

\* while( !state && result ), result being true, and what follows it.
BinLoop(j, timed) ==
  \/ /\ state
     /\ state' = FALSE
     /\ Finish(j, timed)
  \/ /\ ~state
     /\ BlockOn(GoToSleep(j, BinQueue, timed), BinQueue, timed)
     /\ UNCHANGED state

BinWait == Calling("bin_wait") /\ BinLoop(k, FALSE)

\* The timeout is ahead, or in the past: then the call does not sleep.
BinTimedWait ==
  LET past == Alarm(SetTimer(k, "TIMEOUT"), Current)
  IN  /\ Calling("bin_timed_wait")
      /\ \/ BinLoop(SetTimer(k, "TIMEOUT"), TRUE)
         \/ Finish(past, TRUE) /\ state' = FALSE

BinWoken ==
  /\ InWait({BinQueue})
  /\ \/ BrokenOff /\ Finish(k, waits[Current].timed) /\ UNCHANGED state
     \/ Spurious /\ BinLoop(k, waits[Current].timed)

BinTryWait ==
  /\ Calling("bin_trywait")
  /\ state' = FALSE
  /\ Update(k)
  /\ UNCHANGED waits

\* Mutant of BinPostDSR: the state is all that is set.
BinPostQuietly ==
  /\ DeviceCalling("bin_post")
  /\ state' = TRUE
  /\ DeviceUpdate(k)
  /\ UNCHANGED waits

BinPost ==
  /\ Calling("bin_post")
  /\ state' = TRUE
  /\ Update(WakeFirst(k, BinQueue))
  /\ UNCHANGED waits

BinPostDSR ==
  /\ DeviceCalling("bin_post")
  /\ state' = TRUE
  /\ DeviceUpdate(WakeFirst(k, BinQueue))
  /\ UNCHANGED waits

BinStep ==
  \/ BinWait \/ BinTimedWait \/ BinWoken
  \/ BinTryWait \/ BinPost \/ BinPostDSR

BinInit ==
  /\ Init
  /\ state = FALSE
  /\ waits = [t \in Thread |-> NoWait]

BinNext ==
  \/ BinStep
  \/ WokenToExit /\ UNCHANGED state
  \/ Next /\ UNCHANGED <<state, waits>>

BinSpec == BinInit /\ [][BinNext]_<<vars, state, waits>>

\* No post is lost on sleepers: while the state is true and a thread sleeps for
\* it, one has been woken to take it, whoever barges, gives up or times out.
BinNotStranded ==
  state /\ k.wait_queue[BinQueue] # <<>> => Woken(BinQueue) # {}
==============================================================================
