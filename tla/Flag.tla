-------------------------------- MODULE Flag --------------------------------
(***************************************************************************)
(* An event flag (flag.cxx): a set of bits, threads that wait for all or   *)
(* for any of a pattern of them and may clear the value when they get it.  *)
(***************************************************************************)
EXTENDS Waiting

CONSTANTS
  FlagQueue,  \* its queue
  Bit         \* the bits of a Cyg_FlagValue

ASSUME FlagAssumption == FlagQueue \in Queue

VARIABLES
  value,  \* Cyg_Flag::value
  info    \* the FlagWaitInfo of each thread that waits

flagvars == <<value, info>>

\* anymask or allmask; value_out is empty until the wait is satisfied.
WaitInfo ==
  [pattern : SUBSET Bit, any : BOOLEAN, do_clear : BOOLEAN, value_out : SUBSET Bit]

NoInfo == [pattern |-> {}, any |-> FALSE, do_clear |-> FALSE, value_out |-> {}]

FlagInit ==
  /\ value = {}
  /\ info = [t \in Thread |-> NoInfo]

\* What wait() and poll() may be given; a pattern of no bits is a mistake.
Request == {i \in WaitInfo : i.pattern # {} /\ i.value_out = {}}

\* The test of poll() and setbits(): does the value v satisfy the request?
Matches(v, i) ==
  IF i.any THEN i.pattern \cap v # {} ELSE i.pattern # {} /\ i.pattern \subseteq v
------------------------------------------------------------------------------
(***************************************************************************)
(* setbits() and maskbits().                                               *)
(***************************************************************************)
\* Mutants of Serve: the value is not cleared; the scan ends with the first
\* thread that is satisfied.
ServeNoClear(d, t) ==
  LET out == Dequeue(d.k, FlagQueue)
  IN  IF Matches(d.value, d.info[t])
      THEN [d EXCEPT !.k = WakeDone(out, t), !.info[t].value_out = d.value]
      ELSE [d EXCEPT !.k = Enqueue(out, FlagQueue, t)]

ServeOne(d, t) ==
  LET out == Dequeue(d.k, FlagQueue)
  IN  IF Matches(d.value, d.info[t]) /\ \A u \in Thread : d.info[u].value_out = {}
      THEN [k     |-> WakeDone(out, t),
            value |-> IF d.info[t].do_clear THEN {} ELSE d.value,
            info  |-> [d.info EXCEPT ![t].value_out = d.value]]
      ELSE [d EXCEPT !.k = Enqueue(out, FlagQueue, t)]

\* One round of the loop: the first thread is taken off the queue and either
\* woken with the value or kept, behind those kept before it.  (The code
\* collects the latter on the queue holding and moves them back.)
Serve(d, t) ==
  LET out == Dequeue(d.k, FlagQueue)
  IN  IF Matches(d.value, d.info[t])
      THEN [k     |-> WakeDone(out, t),
            value |-> IF d.info[t].do_clear THEN {} ELSE d.value,
            info  |-> [d.info EXCEPT ![t].value_out = d.value]]
      ELSE [d EXCEPT !.k = Enqueue(out, FlagQueue, t)]

SetBits(arg) ==
  FoldLeft(Serve, [k |-> k, value |-> value \cup arg, info |-> info],
           k.wait_queue[FlagQueue])

FlagSetBits(arg) ==
  LET d == SetBits(arg)
  IN  /\ Calling("setbits")
      /\ Update(d.k)
      /\ value' = d.value
      /\ info' = d.info
      /\ UNCHANGED waits

FlagSetBitsDSR(arg) ==
  LET d == SetBits(arg)
  IN  /\ DeviceCalling("setbits")
      /\ DeviceUpdate(d.k)
      /\ value' = d.value
      /\ info' = d.info
      /\ UNCHANGED waits

FlagMaskBits(arg) ==
  /\ Calling("maskbits")
  /\ Update(k)
  /\ value' = value \cap arg
  /\ UNCHANGED <<info, waits>>
------------------------------------------------------------------------------
(***************************************************************************)
(* poll(), wait(), wait(timeout).                                          *)
(***************************************************************************)
Cleared(i) == IF i.do_clear THEN {} ELSE value

\* poll(), and the wait() that it satisfies at once
FlagPoll(i) ==
  /\ \/ Calling("flag_poll")
     \/ (Calling("flag_wait") \/ Calling("flag_timed_wait")) /\ Matches(value, i)
  /\ Update(k)
  /\ value' = IF Matches(value, i) THEN Cleared(i) ELSE value
  /\ UNCHANGED <<info, waits>>

FlagSleep(j, timed) == BlockOn(GoToSleep(j, FlagQueue, timed), FlagQueue, timed)

FlagWait(i) ==
  /\ Calling("flag_wait")
  /\ ~Matches(value, i)
  /\ FlagSleep(k, FALSE)
  /\ info' = [info EXCEPT ![Current] = i]
  /\ UNCHANGED value

\* The timeout is ahead, or in the past.
FlagTimedWait(i) ==
  /\ Calling("flag_timed_wait")
  /\ ~Matches(value, i)
  /\ \/ /\ FlagSleep(SetTimer(k, "TIMEOUT"), TRUE)
        /\ info' = [info EXCEPT ![Current] = i]
     \/ /\ Finish(Alarm(SetTimer(k, "TIMEOUT"), Current), TRUE)
        /\ UNCHANGED info
  /\ UNCHANGED value

\* Woken: the wait is broken off or satisfied, or goes round again.
FlagWoken ==
  /\ InWait({FlagQueue})
  /\ k.wake_reason[Current] # "EXIT"
  /\ IF BrokenOff \/ info[Current].value_out # {}
     THEN /\ Finish(k, waits[Current].timed)
          /\ info' = [info EXCEPT ![Current] = NoInfo]
     ELSE /\ FlagSleep(k, waits[Current].timed)
          /\ UNCHANGED info
  /\ UNCHANGED value
------------------------------------------------------------------------------
FlagStep ==
  \/ FlagWoken
  \/ \E arg \in SUBSET Bit : FlagSetBits(arg) \/ FlagSetBitsDSR(arg) \/ FlagMaskBits(arg)
  \/ \E i \in Request : FlagPoll(i) \/ FlagWait(i) \/ FlagTimedWait(i)
------------------------------------------------------------------------------
(***************************************************************************)
(* Safety.                                                                 *)
(***************************************************************************)
FlagTypeOK ==
  /\ value \in SUBSET Bit
  /\ info \in [Thread -> WaitInfo]

\* No thread sleeps on bits that are set: whatever mixture of patterns and of
\* clearing and other waiters setbits() finds on the queue, it has woken every
\* thread the value satisfies that it leaves behind, and only those.
NoSatisfiedSleeper ==
  \A t \in ToSet(k.wait_queue[FlagQueue]) :
    info[t].value_out = {} /\ ~Matches(value, info[t])

\* Bits that are cleared for a thread are that thread's alone: of the threads
\* woken in one call, none stood behind one whose wait clears the value.
ClearedForOne ==
  [][LET q == k.wait_queue[FlagQueue]
     IN  \A m, n \in DOMAIN q :
           /\ m < n
           /\ info[q[m]].do_clear
           /\ info'[q[m]].value_out # {}
           => info'[q[n]].value_out = {}]_<<k, info>>
==============================================================================
