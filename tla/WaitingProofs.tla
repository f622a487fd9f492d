---------------------------- MODULE WaitingProofs ----------------------------
(***************************************************************************)
(* The wait queues: a thread is on the queue of an object exactly while it *)
(* sleeps in a wait on it, whatever the threads and DSRs call meanwhile.   *)
(*                                                                         *)
(* WaitOK says of the kernel data that the queues agree with the threads'  *)
(* queue pointers and that only sleepers are queued; every operation keeps *)
(* it and takes a sleeper off its queue only by waking it (Kept).  WaitInv *)
(* adds where each thread is in its wait.                                  *)
(***************************************************************************)
EXTENDS Waiting, SleepProofs, FiniteSetTheorems

\* The queues and the threads' queue pointers agree.
QueuedExactly(d) ==
  \A q \in Queue :
    /\ IsInjective(d.wait_queue[q])
    /\ ToSet(d.wait_queue[q]) = {t \in Thread : d.queue[t] = q}

\* What wakes a thread that nothing has been handed to.
Broken == {"BREAK", "TIMEOUT", "EXIT"}

WaitOKAt(d, t) ==
  /\ d.queue[t] # NoQueue => /\ "SLEEPING" \in d.state[t]
                             /\ "COUNTSLEEP" \notin d.state[t]
                             /\ d.sleep_reason[t] # "DELAY"
  /\ Sleeps(d, t) => Interruptible(d, t)
  /\ d.wake_reason[t] # "NONE" => d.sleep_reason[t] = "NONE"

WaitOK(d) == QueuedExactly(d) /\ \A t \in Thread : WaitOKAt(d, t)

\* t is not put to sleep, and stays on its queue while it sleeps.
StillWaits(d, e, t) ==
  /\ "SLEEPING" \in e.state[t] => "SLEEPING" \in d.state[t] /\ e.queue[t] = d.queue[t]
  /\ Sleeps(e, t) => Sleeps(d, t)

\* It leaves the queue only when its wait is broken off, and the reason for
\* which it was woken stands.
KeptAt(d, e, t) ==
  /\ StillWaits(d, e, t)
  /\ d.sleep_reason[t] = "NONE" =>
       e.sleep_reason[t] = "NONE" /\ e.wake_reason[t] = d.wake_reason[t]
  /\ d.queue[t] # NoQueue /\ e.queue[t] = NoQueue =>
       e.sleep_reason[t] = "NONE" /\ e.wake_reason[t] \in Broken

\* ... or when the object of the queue q wakes it.
ServedAt(d, e, t, q) ==
  /\ d.queue[t] = q
  /\ q # NoQueue
  /\ e.queue[t] = NoQueue
  /\ ~Sleeps(e, t)
  /\ e.sleep_reason[t] = "NONE"
  /\ e.wake_reason[t] = "DONE"

\* What the operations do that do not block; what the calls do that wake from
\* the queue q; what a call does that clears its caller's wake_reason.
Kept(d, e) == WaitOK(e) /\ \A t \in Thread : KeptAt(d, e, t)

Serves(d, e, q) ==
  WaitOK(e) /\ \A t \in Thread : KeptAt(d, e, t) \/ ServedAt(d, e, t, q)

KeptOthers(d, e) ==
  /\ WaitOK(e)
  /\ StillWaits(d, e, d.current_thread)
  /\ \A t \in Thread \ {d.current_thread} : KeptAt(d, e, t)

ServesOthers(d, e, q) ==
  /\ WaitOK(e)
  /\ StillWaits(d, e, d.current_thread)
  /\ \A t \in Thread \ {d.current_thread} : KeptAt(d, e, t) \/ ServedAt(d, e, t, q)
------------------------------------------------------------------------------
(***************************************************************************)
(* What the helpers do to the queues.                                      *)
(***************************************************************************)
SameQueues(d, e) == e.queue = d.queue /\ e.wait_queue = d.wait_queue

SameReasonsAndState(d, e) ==
  /\ e.state = d.state
  /\ e.sleep_reason = d.sleep_reason
  /\ e.wake_reason = d.wake_reason

LEMMA KeptAtTrans ==
  ASSUME NEW d, NEW e, NEW f, NEW t, KeptAt(d, e, t), KeptAt(e, f, t)
  PROVE  KeptAt(d, f, t)
  BY DEF KeptAt, StillWaits

LEMMA KeptTrans ==
  ASSUME NEW d, NEW e, NEW f, Kept(d, e), Kept(e, f)
  PROVE  Kept(d, f)
  BY KeptAtTrans DEF Kept

\* What a call does after the setting of its timer, or before its end.
LEMMA KeptOthersTrans ==
  ASSUME NEW d, KernelOK(d), NEW e, NEW f, KeptOthers(d, e), Kept(e, f)
  PROVE  KeptOthers(d, f)
<1>1. StillWaits(d, f, d.current_thread)
  BY DEF KernelOK, KernelData, KeptOthers, Kept, KeptAt, StillWaits
<1> QED
  BY <1>1, KeptAtTrans DEF KeptOthers, Kept

LEMMA KeptRefl ==
  ASSUME NEW d, WaitOK(d)
  PROVE  Kept(d, d)
  BY DEF Kept, KeptAt, StillWaits

LEMMA ServesOthersTrans ==
  ASSUME NEW d, KernelOK(d), NEW e, NEW f, NEW q, ServesOthers(d, e, q), Kept(e, f)
  PROVE  ServesOthers(d, f, q)
<1>1. StillWaits(d, f, d.current_thread)
  BY DEF KernelOK, KernelData, ServesOthers, Kept, KeptAt, StillWaits
<1>2. ASSUME NEW t \in Thread \ {d.current_thread}
      PROVE  KeptAt(d, f, t) \/ ServedAt(d, f, t, q)
  <2>1. KeptAt(e, f, t) /\ (KeptAt(d, e, t) \/ ServedAt(d, e, t, q)) /\ WaitOKAt(f, t)
    BY DEF ServesOthers, Kept, WaitOK
  <2>2. CASE KeptAt(d, e, t)
    BY <2>1, <2>2, KeptAtTrans
  <2>3. CASE ServedAt(d, e, t, q)
    BY <2>1, <2>3 DEF ServedAt, KeptAt, StillWaits, WaitOKAt, Sleeps, SLEEPSET
  <2> QED
    BY <2>1, <2>2, <2>3
<1> QED
  BY <1>1, <1>2 DEF ServesOthers, Kept

\* Several calls on the same object.
LEMMA ServesTrans ==
  ASSUME NEW d, NEW e, NEW f, NEW q, WaitOK(e), Serves(d, e, q), Serves(e, f, q)
  PROVE  Serves(d, f, q)
<1> SUFFICES ASSUME NEW t \in Thread
             PROVE  KeptAt(d, f, t) \/ ServedAt(d, f, t, q)
  BY DEF Serves
<1>1. /\ KeptAt(d, e, t) \/ ServedAt(d, e, t, q)
      /\ KeptAt(e, f, t) \/ ServedAt(e, f, t, q)
      /\ WaitOKAt(e, t) /\ WaitOKAt(f, t)
  BY DEF Serves, WaitOK
<1>2. CASE KeptAt(d, e, t) /\ KeptAt(e, f, t)
  BY <1>2, KeptAtTrans
<1>3. CASE KeptAt(d, e, t) /\ ServedAt(e, f, t, q)
  <2>1. e.queue[t] = q /\ q # NoQueue
    BY <1>3 DEF ServedAt
  <2>2. d.queue[t] = q
    BY <1>1, <1>3, <2>1 DEF WaitOKAt, KeptAt, StillWaits
  <2> QED
    BY <1>3, <2>2 DEF ServedAt
<1>4. CASE ServedAt(d, e, t, q) /\ KeptAt(e, f, t)
  BY <1>1, <1>4 DEF ServedAt, KeptAt, StillWaits, WaitOKAt, Sleeps, SLEEPSET
<1>5. CASE ServedAt(d, e, t, q) /\ ServedAt(e, f, t, q)
  BY <1>5 DEF ServedAt
<1> QED
  BY <1>1, <1>2, <1>3, <1>4, <1>5

\* An operation that leaves states, reasons and queue pointers alone.
LEMMA SameKept ==
  ASSUME NEW d, NEW e, WaitOK(d), SameReasonsAndState(d, e),
         e.queue = d.queue, QueuedExactly(e)
  PROVE  Kept(d, e)
  BY DEF WaitOK, WaitOKAt, Kept, KeptAt, StillWaits, SameReasonsAndState, Sleeps,
         Interruptible

LEMMA SameQueuesExact ==
  ASSUME NEW d, NEW e, QueuedExactly(d), SameQueues(d, e)
  PROVE  QueuedExactly(e)
  BY DEF QueuedExactly, SameQueues

\* Cyg_SchedThread::remove
LEMMA RemoveFromQueueExact ==
  ASSUME NEW d \in KernelData, NEW t \in Thread, QueuedExactly(d)
  PROVE  LET e == RemoveFromQueue(d, t)
         IN  /\ QueuedExactly(e)
             /\ e.queue = [d.queue EXCEPT ![t] = NoQueue]
             /\ SameReasonsAndState(d, e)
<1>0. /\ d.wait_queue \in [Queue -> Seq(Thread)]
      /\ d.queue \in [Thread -> Queue \cup {NoQueue}]
      /\ NoQueue \notin Queue
  BY ThreadAssumption DEF KernelData
<1>1. CASE d.queue[t] = NoQueue
  <2>1. [d.queue EXCEPT ![t] = NoQueue] = d.queue
    BY <1>0, <1>1
  <2> QED
    BY <1>1, <2>1 DEF RemoveFromQueue, SameReasonsAndState
<1>2. CASE d.queue[t] # NoQueue
  <2> DEFINE q == d.queue[t]
             s == Without(d.wait_queue[q], t)
             w == [d.wait_queue EXCEPT ![q] = s]
             f == [d.queue EXCEPT ![t] = NoQueue]
             e == [d EXCEPT !.wait_queue = w, !.queue = f]
  <2>1. RemoveFromQueue(d, t) = e
    BY <1>2 DEF RemoveFromQueue
  <2>2. q \in Queue
    BY <1>0, <1>2
  <2>3. /\ IsInjective(s)
        /\ ToSet(s) = {u \in Thread : d.queue[u] = q} \ {t}
    <3>1. /\ d.wait_queue[q] \in Seq(Thread)
          /\ IsInjective(d.wait_queue[q])
          /\ ToSet(d.wait_queue[q]) = {u \in Thread : d.queue[u] = q}
      BY <1>0, <2>2 DEF QueuedExactly
    <3> QED
      BY <3>1, WithoutProps
  <2> HIDE DEF s
  <2>4. \A r \in Queue : /\ IsInjective(w[r])
                         /\ ToSet(w[r]) = {u \in Thread : f[u] = r}
    <3> SUFFICES ASSUME NEW r \in Queue
                 PROVE  /\ IsInjective(w[r])
                        /\ ToSet(w[r]) = {u \in Thread : f[u] = r}
      OBVIOUS
    <3>1. {u \in Thread : f[u] = r} = {u \in Thread : d.queue[u] = r} \ {t}
      BY <1>0
    <3>2. CASE r = q
      BY <1>0, <2>3, <3>1, <3>2
    <3>3. CASE r # q
      <4>1. w[r] = d.wait_queue[r]
        BY <1>0, <3>3
      <4> QED
        BY <3>1, <3>3, <4>1 DEF QueuedExactly
    <3> QED
      BY <3>2, <3>3
  <2>5. /\ e.wait_queue = w /\ e.queue = f
        /\ SameReasonsAndState(d, e)
    <3> HIDE DEF w, f
    <3> QED
      BY DEF KernelData, SameReasonsAndState
  <2> HIDE DEF w, e
  <2> QED
    BY <2>1, <2>4, <2>5 DEF QueuedExactly
<1> QED
  BY <1>1, <1>2

LEMMA RemThreadQueues ==
  ASSUME NEW d \in KernelData, NEW t \in Thread
  PROVE  SameQueues(d, RemThread(d, t))
<1> DEFINE p == d.priority[t]
           s == Without(d.run_queue[p], t)
           rq == [d.run_queue EXCEPT ![p] = s]
           qm == IF s = <<>> THEN d.queue_map \ {p} ELSE d.queue_map
<1>1. RemThread(d, t) = [d EXCEPT !.run_queue = rq, !.queue_map = qm]
  BY DEF RemThread
<1> HIDE DEF rq, qm
<1> QED
  BY <1>1 DEF SameQueues, KernelData

\* add_thread takes the thread off any wait queue first.
LEMMA AddThreadExact ==
  ASSUME NEW d \in KernelData, NEW t \in Thread, QueuedExactly(d)
  PROVE  /\ QueuedExactly(AddThread(d, t))
         /\ AddThread(d, t).queue = [d.queue EXCEPT ![t] = NoQueue]
<1> DEFINE j == RemoveFromQueue(d, t)
           p == d.priority[t]
           rq == [j.run_queue EXCEPT ![p] = Append(@, t)]
           qm == j.queue_map \cup {p}
           nr == j.need_reschedule \/ Preempts(d, t)
           ts == [j.timeslice EXCEPT ![t] = TimesliceTicks]
           e == [j EXCEPT !.run_queue = rq, !.queue_map = qm,
                          !.need_reschedule = nr, !.timeslice = ts]
<1>1. AddThread(d, t) = e
  BY DEF AddThread
<1>2. j \in KernelData
  BY RemoveFromQueueFrame
<1>3. QueuedExactly(j) /\ j.queue = [d.queue EXCEPT ![t] = NoQueue]
  BY RemoveFromQueueExact
<1> HIDE DEF j, rq, qm, nr, ts
<1>4. SameQueues(j, e)
  BY <1>2 DEF SameQueues, KernelData
<1> HIDE DEF e
<1> QED
  BY <1>1, <1>3, <1>4, SameQueuesExact DEF SameQueues

\* A write of the state takes a thread off a queue when it becomes runnable.
LEMMA SetStateExact ==
  ASSUME NEW d, KernelOK(d), NEW t \in Target, NEW s \in SUBSET StateBit,
         QueuedExactly(d), s = RUNNING => d.queue[t] = NoQueue
  PROVE  QueuedExactly(SetState(d, t, s)) /\ SetState(d, t, s).queue = d.queue
<1> DEFINE st == [d.state EXCEPT ![t] = s]
           j == [d EXCEPT !.state = st]
<1>1. t \in Thread /\ st \in [Thread -> SUBSET StateBit]
  BY DEF Target, KernelOK, KernelData
<1>2. \/ SetState(d, t, s) \in {RemThread(j, t), j}
      \/ s = RUNNING /\ SetState(d, t, s) = AddThread(j, t)
  BY DEF SetState
<1> HIDE DEF st
<1>3. j \in KernelData /\ SameQueues(d, j)
  BY <1>1 DEF KernelOK, KernelData, SameQueues
<1> HIDE DEF j
<1>4. QueuedExactly(j) /\ j.queue = d.queue
  BY <1>3, SameQueuesExact DEF SameQueues
<1>5. CASE SetState(d, t, s) \in {RemThread(j, t), j}
  BY <1>1, <1>3, <1>4, <1>5, RemThreadQueues, SameQueuesExact DEF SameQueues
<1>6. CASE s = RUNNING /\ SetState(d, t, s) = AddThread(j, t)
  <2>1. [j.queue EXCEPT ![t] = NoQueue] = d.queue
    BY <1>1, <1>4, <1>6 DEF KernelOK, KernelData
  <2> QED
    BY <1>1, <1>3, <1>4, <1>6, <2>1, AddThreadExact
<1> QED
  BY <1>2, <1>5, <1>6

\* wake() takes a sleeper off its queue.
LEMMA WakeExact ==
  ASSUME NEW d, KernelOK(d), NEW t \in Thread, QueuedExactly(d),
         d.queue[t] # NoQueue => "SLEEPING" \in d.state[t]
  PROVE  /\ QueuedExactly(Wake(d, t))
         /\ Wake(d, t).queue = [d.queue EXCEPT ![t] = NoQueue]
<1>1. CASE d.state[t] \cap SLEEPSET = {}
  <2>1. d.queue[t] = NoQueue
    BY <1>1 DEF SLEEPSET
  <2>2. [d.queue EXCEPT ![t] = NoQueue] = d.queue
    BY <2>1 DEF KernelOK, KernelData
  <2> QED
    BY <1>1, <2>2 DEF Wake
<1>2. CASE d.state[t] \cap SLEEPSET # {}
  <2> DEFINE j == RemoveFromQueue(d, t)
             s == d.state[t] \ SLEEPSET
  <2>1. t \in Target
    BY <1>2 DEF Target, KernelOK, Running, RUNNING
  <2>2. s \in SUBSET StateBit
    BY DEF KernelOK, KernelData
  <2>3. /\ KernelOK(j) /\ QueuedExactly(j)
        /\ j.queue = [d.queue EXCEPT ![t] = NoQueue]
    <3>1. d \in KernelData
      BY DEF KernelOK
    <3> QED
      BY <3>1, RemoveFromQueueSound, RemoveFromQueueExact DEF Sound
  <2>4. Wake(d, t) = SetState(j, t, s) /\ j.queue[t] = NoQueue
    BY <1>2, <2>3 DEF Wake, KernelOK, KernelData
  <2> HIDE DEF j, s
  <2>5. /\ QueuedExactly(SetState(j, t, s))
        /\ SetState(j, t, s).queue = j.queue
    BY <2>1, <2>2, <2>3, <2>4, SetStateExact
  <2> QED
    BY <2>3, <2>4, <2>5
<1> QED
  BY <1>1, <1>2

\* ... and leaves the queues alone when it is on none.
LEMMA WakeOffQueue ==
  ASSUME NEW d \in KernelData, NEW t \in Thread, d.queue[t] = NoQueue
  PROVE  SameQueues(d, Wake(d, t))
<1> DEFINE s == d.state[t] \ SLEEPSET
           st == [d.state EXCEPT ![t] = s]
           j == [d EXCEPT !.state = st]
<1>1. RemoveFromQueue(d, t) = d
  BY DEF RemoveFromQueue
<1>2. \/ Wake(d, t) = d
      \/ Wake(d, t) \in {RemThread(j, t), AddThread(j, t), j}
  BY <1>1 DEF Wake, SetState
<1>3. st \in [Thread -> SUBSET StateBit]
  BY DEF KernelData
<1> HIDE DEF st
<1>4. j \in KernelData /\ SameQueues(d, j)
  BY <1>3 DEF KernelData, SameQueues
<1> HIDE DEF j
<1>5. SameQueues(j, RemThread(j, t))
  BY <1>4, RemThreadQueues
<1>6. SameQueues(j, AddThread(j, t))
  <2> DEFINE p == j.priority[t]
             rq == [j.run_queue EXCEPT ![p] = Append(@, t)]
             qm == j.queue_map \cup {p}
             nr == j.need_reschedule \/ Preempts(j, t)
             ts == [j.timeslice EXCEPT ![t] = TimesliceTicks]
             e == [j EXCEPT !.run_queue = rq, !.queue_map = qm,
                            !.need_reschedule = nr, !.timeslice = ts]
  <2>1. RemoveFromQueue(j, t) = j
    BY <1>4 DEF RemoveFromQueue, SameQueues
  <2>2. AddThread(j, t) = e
    BY <2>1 DEF AddThread
  <2> HIDE DEF rq, qm, nr, ts
  <2> QED
    BY <1>4, <2>2 DEF SameQueues, KernelData
<1> QED
  BY <1>2, <1>4, <1>5, <1>6 DEF SameQueues
------------------------------------------------------------------------------
(***************************************************************************)
(* Operations that wake.                                                   *)
(***************************************************************************)
LEMMA ReasonQueues ==
  ASSUME NEW d \in KernelData, NEW t \in Thread, NEW r \in Reason
  PROVE  /\ SameQueues(d, SetWakeReason(d, t, r))
         /\ SameQueues(d, SetSleepReason(d, r))
<1> DEFINE c == d.current_thread
           f == [d.sleep_reason EXCEPT ![t] = "NONE"]
           g == [d.wake_reason EXCEPT ![t] = r]
           h == [d.sleep_reason EXCEPT ![c] = r]
           i == [d.wake_reason EXCEPT ![c] = "NONE"]
<1>1. /\ SetWakeReason(d, t, r) = [d EXCEPT !.sleep_reason = f, !.wake_reason = g]
      /\ SetSleepReason(d, r) = [d EXCEPT !.sleep_reason = h, !.wake_reason = i]
  BY DEF SetWakeReason, SetSleepReason
<1> HIDE DEF f, g, h, i
<1> QED
  BY <1>1 DEF SameQueues, KernelData

LEMMA TimerQueues ==
  ASSUME NEW d, KernelOK(d), NEW t \in Thread, NEW r \in Reason
  PROVE  SameQueues(d, ClearTimer(d, t)) /\ SameQueues(d, SetTimer(d, r))
<1> DEFINE j == SetSleepReason(d, r)
           a == j.timer \cup {d.current_thread}
           b == d.timer \ {t}
<1>1. /\ ClearTimer(d, t) = [d EXCEPT !.timer = b]
      /\ SetTimer(d, r) = [j EXCEPT !.timer = a]
  BY DEF ClearTimer, SetTimer
<1>2. j \in KernelData /\ SameQueues(d, j)
  BY ReasonSound, ReasonQueues DEF Sound, KernelOK
<1> HIDE DEF j, a, b
<1> QED
  BY <1>1, <1>2 DEF SameQueues, KernelOK, KernelData

\* A thread is woken with the reason r.
LEMMA WokenProps ==
  ASSUME NEW d, KernelOK(d), WaitOK(d), NEW t \in Thread, NEW r \in Reason,
         NEW e, WokenWith(d, e, t, r), QueuedExactly(e),
         e.queue = [d.queue EXCEPT ![t] = NoQueue]
  PROVE  /\ WaitOK(e)
         /\ \A u \in Thread \ {t} : KeptAt(d, e, u)
         /\ e.queue[t] = NoQueue /\ ~Sleeps(e, t)
         /\ e.sleep_reason[t] = "NONE" /\ e.wake_reason[t] = r
<1>1. /\ d.state \in [Thread -> SUBSET StateBit]
      /\ d.queue \in [Thread -> Queue \cup {NoQueue}]
      /\ d.sleep_reason \in [Thread -> Reason]
      /\ d.wake_reason \in [Thread -> Reason]
  BY DEF KernelOK, KernelData
<1>2. ASSUME NEW u \in Thread \ {t} PROVE WaitOKAt(e, u) /\ KeptAt(d, e, u)
  <2>1. /\ e.state[u] = d.state[u] /\ e.queue[u] = d.queue[u]
        /\ e.sleep_reason[u] = d.sleep_reason[u]
        /\ e.wake_reason[u] = d.wake_reason[u]
    BY <1>1, <1>2 DEF WokenWith
  <2> QED
    BY <2>1 DEF WaitOK, WaitOKAt, KeptAt, StillWaits, Sleeps, Interruptible
<1>3. /\ e.state[t] = d.state[t] \ SLEEPSET /\ e.queue[t] = NoQueue
      /\ e.sleep_reason[t] = "NONE"
      /\ e.wake_reason[t] = r
  BY <1>1 DEF WokenWith
<1>4. WaitOKAt(e, t) /\ ~Sleeps(e, t)
  BY <1>3 DEF WaitOKAt, Sleeps, SLEEPSET
<1> QED
  BY <1>2, <1>3, <1>4 DEF WaitOK

\* A sleeper is woken for a reason that hands it nothing, if it is queued.
LEMMA WokenKept ==
  ASSUME NEW d, KernelOK(d), WaitOK(d), NEW t \in Thread, NEW r \in Reason,
         d.sleep_reason[t] # "NONE", d.queue[t] # NoQueue => r \in Broken,
         NEW e, WokenWith(d, e, t, r), QueuedExactly(e),
         e.queue = [d.queue EXCEPT ![t] = NoQueue]
  PROVE  Kept(d, e)
<1>1. /\ WaitOK(e)
      /\ \A u \in Thread \ {t} : KeptAt(d, e, u)
      /\ e.queue[t] = NoQueue /\ ~Sleeps(e, t)
      /\ e.sleep_reason[t] = "NONE" /\ e.wake_reason[t] = r
  <2>1. \A u \in Thread \ {t} : KeptAt(d, e, u)
    BY WokenProps
  <2>2. WaitOK(e) /\ ~Sleeps(e, t)
    BY WokenProps
  <2>3. e.sleep_reason[t] = "NONE" /\ e.wake_reason[t] = r
    BY WokenProps
  <2>4. e.queue[t] = NoQueue
    <3>1. d.queue \in [Thread -> Queue \cup {NoQueue}]
      BY DEF KernelOK, KernelData
    <3> QED
      BY <3>1
  <2> QED
    BY <2>1, <2>2, <2>3, <2>4
<1>2. KeptAt(d, e, t)
  BY <1>1 DEF KeptAt, StillWaits, Sleeps, SLEEPSET
<1> QED
  BY <1>1, <1>2 DEF Kept

LEMMA WakeWithKept ==
  ASSUME NEW d, KernelOK(d), WaitOK(d), NEW t \in Thread, NEW r \in Reason,
         d.sleep_reason[t] # "NONE", d.queue[t] # NoQueue => r \in Broken
  PROVE  /\ Kept(d, Wake(SetWakeReason(d, t, r), t))
         /\ Kept(d, Wake(SetWakeReason(ClearTimer(d, t), t, r), t))
<1>1. ASSUME NEW i, KernelOK(i), SameQueues(d, i), i.state = d.state
      PROVE  LET e == Wake(SetWakeReason(i, t, r), t)
             IN  /\ QueuedExactly(e)
                 /\ e.queue = [d.queue EXCEPT ![t] = NoQueue]
  <2> DEFINE j == SetWakeReason(i, t, r)
  <2>1. KernelOK(j) /\ SameQueues(i, j) /\ j.state = i.state
    <3>1. i \in KernelData
      BY <1>1 DEF KernelOK
    <3> QED
      BY <1>1, <3>1, ReasonSound, ReasonQueues DEF Sound
  <2> HIDE DEF j
  <2>2. /\ QueuedExactly(j) /\ j.queue = d.queue
        /\ j.queue[t] # NoQueue => "SLEEPING" \in j.state[t]
    <3>1. QueuedExactly(i)
      BY <1>1, SameQueuesExact DEF WaitOK
    <3> QED
      BY <1>1, <2>1, <3>1, SameQueuesExact DEF SameQueues, WaitOK, WaitOKAt
  <2>3. QueuedExactly(Wake(j, t)) /\ Wake(j, t).queue = [j.queue EXCEPT ![t] = NoQueue]
    BY <2>1, <2>2, WakeExact
  <2> QED
    BY <2>2, <2>3 DEF j
<1> DEFINE x == Wake(SetWakeReason(d, t, r), t)
           y == Wake(SetWakeReason(ClearTimer(d, t), t, r), t)
<1>2. /\ QueuedExactly(x) /\ x.queue = [d.queue EXCEPT ![t] = NoQueue]
      /\ QueuedExactly(y) /\ y.queue = [d.queue EXCEPT ![t] = NoQueue]
  <2>1. SameQueues(d, d)
    BY DEF SameQueues
  <2>2. /\ KernelOK(ClearTimer(d, t)) /\ SameQueues(d, ClearTimer(d, t))
        /\ ClearTimer(d, t).state = d.state
    BY TimerSound, TimerQueues DEF Sound
  <2> QED
    BY <1>1, <2>1, <2>2
<1>3. WokenWith(d, x, t, r) /\ WokenWith(d, y, t, r)
  BY WakeWithFrame, ClearWakeWith
<1> HIDE DEF x, y
<1>4. Kept(d, x) /\ Kept(d, y)
  BY <1>2, <1>3, WokenKept
<1> QED
  BY <1>4 DEF x, y

LEMMA ClearTimerKept ==
  ASSUME NEW d, KernelOK(d), WaitOK(d), NEW t \in Thread
  PROVE  Kept(d, ClearTimer(d, t))
<1>1. SameReasonsAndState(d, ClearTimer(d, t))
  BY ClearTimerFrame DEF KernelOK, SameReasonsAndState
<1>2. SameQueues(d, ClearTimer(d, t))
  BY TimerQueues DEF Reason
<1> HIDE DEF ClearTimer
<1> QED
  BY <1>1, <1>2, SameKept, SameQueuesExact DEF SameQueues, WaitOK

LEMMA AlarmKept ==
  ASSUME NEW d, KernelOK(d), WaitOK(d), NEW t \in Thread
  PROVE  Kept(d, Alarm(d, t))
<1>1. CASE d.sleep_reason[t] \in {"DELAY", "TIMEOUT"}
  <2>1. PICK r \in {"DONE", "TIMEOUT"} :
          /\ Alarm(d, t) = Wake(SetWakeReason(ClearTimer(d, t), t, r), t)
          /\ r = "DONE" => d.sleep_reason[t] = "DELAY"
    BY <1>1 DEF Alarm
  <2>2. r \in Reason /\ d.sleep_reason[t] # "NONE"
    BY <1>1 DEF Reason
  <2>3. d.queue[t] # NoQueue => r \in Broken
    BY <1>1, <2>1 DEF WaitOK, WaitOKAt, Broken
  <2> QED
    BY <2>1, <2>2, <2>3, WakeWithKept
<1>2. CASE d.sleep_reason[t] \notin {"DELAY", "TIMEOUT"}
  <2>1. Alarm(d, t) = ClearTimer(d, t)
    BY <1>2 DEF Alarm
  <2> QED
    BY <2>1, ClearTimerKept
<1> QED
  BY <1>1, <1>2

LEMMA ReleaseKept ==
  ASSUME NEW d, KernelOK(d), WaitOK(d), NEW t \in Thread
  PROVE  Kept(d, Release(d, t))
<1>1. CASE Interruptible(d, t)
  <2>1. "BREAK" \in Reason /\ "BREAK" \in Broken /\ d.sleep_reason[t] # "NONE"
    BY <1>1 DEF Reason, Broken, Interruptible
  <2> QED
    BY <1>1, <2>1, WakeWithKept DEF Release
<1>2. CASE ~Interruptible(d, t)
  BY <1>2, KeptRefl DEF Release
<1> QED
  BY <1>1, <1>2

LEMMA CountKept ==
  ASSUME NEW d, KernelOK(d), WaitOK(d), NEW t \in Thread, NEW n \in Nat
  PROVE  /\ Kept(d, [d EXCEPT !.suspend_count[t] = n])
         /\ [d EXCEPT !.suspend_count[t] = n].queue = d.queue
         /\ Kept(d, [d EXCEPT !.wakeup_count[t] = n])
<1> DEFINE a == [d.suspend_count EXCEPT ![t] = n]
           b == [d.wakeup_count EXCEPT ![t] = n]
           x == [d EXCEPT !.suspend_count = a]
           y == [d EXCEPT !.wakeup_count = b]
<1>1. /\ [d EXCEPT !.suspend_count[t] = n] = x
      /\ [d EXCEPT !.wakeup_count[t] = n] = y
  OBVIOUS
<1> HIDE DEF a, b
<1>2. /\ SameReasonsAndState(d, x) /\ SameQueues(d, x)
      /\ SameReasonsAndState(d, y) /\ SameQueues(d, y)
  BY DEF KernelOK, KernelData, SameReasonsAndState, SameQueues
<1> HIDE DEF x, y
<1>3. Kept(d, x) /\ Kept(d, y)
  BY <1>2, SameKept, SameQueuesExact DEF SameQueues, WaitOK
<1> QED
  BY <1>1, <1>2, <1>3 DEF SameQueues

LEMMA CountedWakeKept ==
  ASSUME NEW d, KernelOK(d), WaitOK(d), NEW t \in Thread
  PROVE  Kept(d, CountedWake(d, t)) /\ Kept(d, CancelCountedWake(d, t))
<1>1. Kept(d, CancelCountedWake(d, t))
  BY CountKept DEF CancelCountedWake
<1>2. CASE "COUNTSLEEP" \notin d.state[t]
  <2> DEFINE n == d.wakeup_count[t] + 1
  <2>1. n \in Nat
    BY DEF KernelOK, KernelData
  <2>2. CountedWake(d, t) = [d EXCEPT !.wakeup_count[t] = n]
    BY <1>2 DEF CountedWake
  <2> HIDE DEF n
  <2>3. Kept(d, [d EXCEPT !.wakeup_count[t] = n])
    BY <2>1, CountKept
  <2> QED
    BY <1>1, <2>2, <2>3
<1>3. CASE "COUNTSLEEP" \in d.state[t]
  <2>1. d.sleep_reason[t] # "NONE" /\ d.queue[t] = NoQueue
    BY <1>3 DEF WaitOK, WaitOKAt, Sleeps, SLEEPSET, Interruptible
  <2> QED
    BY <1>1, <1>3, <2>1, WakeWithKept DEF CountedWake, Reason
<1> QED
  BY <1>2, <1>3

LEMMA TakeWakeupKept ==
  ASSUME NEW d, KernelOK(d), WaitOK(d), d.wakeup_count[d.current_thread] # 0
  PROVE  Kept(d, TakeWakeup(d))
<1> DEFINE n == d.wakeup_count[d.current_thread] - 1
<1>1. n \in Nat /\ d.current_thread \in Thread
  BY DEF KernelOK, KernelData
<1>2. TakeWakeup(d) = [d EXCEPT !.wakeup_count[d.current_thread] = n]
  BY DEF TakeWakeup
<1> HIDE DEF n
<1> QED
  BY <1>1, <1>2, CountKept, ZenonT(60)
------------------------------------------------------------------------------
(***************************************************************************)
(* Suspension and death.                                                   *)
(***************************************************************************)
\* A write of the state that leaves the sleep bits as they are.
LEMMA StateKept ==
  ASSUME NEW d, KernelOK(d), WaitOK(d), NEW t \in Target,
         NEW s \in SUBSET StateBit, s \cap SLEEPSET = d.state[t] \cap SLEEPSET
  PROVE  Kept(d, SetState(d, t, s))
<1> DEFINE e == SetState(d, t, s)
<1>1. t \in Thread
  BY DEF Target
<1>2. SameReasons(d, e) /\ e.state = [d.state EXCEPT ![t] = s]
  BY SetStateFrame
<1>3. QueuedExactly(e) /\ e.queue = d.queue
  <2>1. s = RUNNING => d.queue[t] = NoQueue
    BY <1>1 DEF RUNNING, SLEEPSET, WaitOK, WaitOKAt
  <2> QED
    BY <2>1, SetStateExact DEF WaitOK
<1> HIDE DEF e
<1>4. ASSUME NEW u \in Thread PROVE WaitOKAt(e, u) /\ KeptAt(d, e, u)
  <2>1. e.state[u] \cap SLEEPSET = d.state[u] \cap SLEEPSET
    BY <1>2, <1>4 DEF KernelOK, KernelData
  <2>2. /\ "SLEEPING" \in e.state[u] <=> "SLEEPING" \in d.state[u]
        /\ "COUNTSLEEP" \in e.state[u] <=> "COUNTSLEEP" \in d.state[u]
    BY <2>1 DEF SLEEPSET
  <2>3. Sleeps(e, u) <=> Sleeps(d, u)
    BY <2>1 DEF Sleeps
  <2> QED
    BY <1>2, <1>3, <1>4, <2>2, <2>3
       DEF WaitOK, WaitOKAt, KeptAt, StillWaits, Interruptible, SameReasons
<1> QED
  BY <1>3, <1>4 DEF Kept, WaitOK, e

LEMMA SuspendKept ==
  ASSUME NEW d, KernelOK(d), WaitOK(d), NEW t \in Target
  PROVE  Kept(d, Suspend(d, t)) /\ Kept(d, ClearSuspension(d, t))
<1>1. ASSUME NEW n \in Nat, NEW s \in SUBSET StateBit,
             s \cap SLEEPSET = d.state[t] \cap SLEEPSET
      PROVE  Kept(d, SetState([d EXCEPT !.suspend_count[t] = n], t, s))
  <2> DEFINE j == [d EXCEPT !.suspend_count[t] = n]
  <2>1. /\ KernelOK(j) /\ Kept(d, j)
        /\ j.state = d.state
    BY CountSound, CountKept DEF Sound, Target
  <2> HIDE DEF j
  <2>2. Kept(j, SetState(j, t, s))
    BY <1>1, <2>1, StateKept DEF Kept
  <2>3. Kept(d, SetState(j, t, s))
    BY <2>1, <2>2, KeptTrans
  <2> QED
    BY <2>3 DEF j
<1>2. Kept(d, Suspend(d, t))
  <2> DEFINE n == d.suspend_count[t] + 1
             s == d.state[t] \cup {"SUSPENDED"}
  <2>1. n \in Nat /\ s \in SUBSET StateBit /\ s \cap SLEEPSET = d.state[t] \cap SLEEPSET
    BY DEF KernelOK, KernelData, StateBit, Target, SLEEPSET
  <2>2. Suspend(d, t) = SetState([d EXCEPT !.suspend_count[t] = n], t, s)
    BY DEF Suspend
  <2> HIDE DEF n, s
  <2> QED
    BY <1>1, <2>1, <2>2
<1>3. Kept(d, ClearSuspension(d, t))
  <2> DEFINE s == d.state[t] \ {"SUSPENDED"}
  <2>1. s \in SUBSET StateBit /\ s \cap SLEEPSET = d.state[t] \cap SLEEPSET
    BY DEF KernelOK, KernelData, Target, SLEEPSET
  <2>2. ClearSuspension(d, t) = SetState([d EXCEPT !.suspend_count[t] = 0], t, s)
    BY DEF ClearSuspension
  <2> HIDE DEF s
  <2> QED
    BY <1>1, <2>1, <2>2
<1> QED
  BY <1>2, <1>3

LEMMA ResumeKept ==
  ASSUME NEW d, KernelOK(d), WaitOK(d), NEW t \in Target
  PROVE  Kept(d, Resume(d, t)) /\ Kept(d, ForceResume(d, t))
<1>1. Kept(d, d) /\ Kept(d, ClearSuspension(d, t))
  BY KeptRefl, SuspendKept
<1>2. ASSUME d.suspend_count[t] > 1
      PROVE  Kept(d, [d EXCEPT !.suspend_count[t] = @ - 1])
  <2> DEFINE n == d.suspend_count[t] - 1
  <2>1. n \in Nat /\ t \in Thread
    BY <1>2 DEF KernelOK, KernelData, Target
  <2>2. [d EXCEPT !.suspend_count[t] = @ - 1] = [d EXCEPT !.suspend_count[t] = n]
    OBVIOUS
  <2> HIDE DEF n
  <2> QED
    BY <2>1, <2>2, CountKept
<1>3. /\ \/ Resume(d, t) \in {d, ClearSuspension(d, t)}
         \/ /\ d.suspend_count[t] > 1
            /\ Resume(d, t) = [d EXCEPT !.suspend_count[t] = @ - 1]
      /\ ForceResume(d, t) \in {d, ClearSuspension(d, t)}
  BY DEF Resume, ForceResume
<1> QED
  BY <1>1, <1>2, <1>3

\* A thread that exits runs, so it does not sleep.
LEMMA ExitKept ==
  ASSUME NEW d, KernelOK(d), WaitOK(d), d.current_thread \in Target,
         ~Sleeps(d, d.current_thread)
  PROVE  Kept(d, Exit(d))
<1> DEFINE c == d.current_thread
           j == ClearTimer(d, c)
<1>1. c \in Thread
  BY DEF Target
<1>2. KernelOK(j) /\ j.state = d.state /\ Kept(d, j)
  BY <1>1, TimerSound, ClearTimerKept DEF Sound, Reason
<1>3. Exit(d) = j \/ Exit(d) = SetState(j, c, {"EXITED"})
  BY ExitIsSetState
<1> HIDE DEF j
<1>4. Kept(j, SetState(j, c, {"EXITED"}))
  <2>1. /\ {"EXITED"} \in SUBSET StateBit
        /\ {"EXITED"} \cap SLEEPSET = {}
    BY DEF StateBit, SLEEPSET
  <2>2. j.state[c] \cap SLEEPSET = {}
    BY <1>1, <1>2 DEF Sleeps
  <2> QED
    BY <1>2, <2>1, <2>2, StateKept DEF Kept
<1> QED
  BY <1>2, <1>3, <1>4, KeptTrans

\* kill()'s last call is of no effect where it has not written the reason.
LEMMA WakeKept ==
  ASSUME NEW d, KernelOK(d), WaitOK(d), NEW t \in Thread,
         d.sleep_reason[t] = "NONE"
  PROVE  Kept(d, Wake(d, t))
<1>1. d.state[t] \cap SLEEPSET = {}
  BY DEF WaitOK, WaitOKAt, Sleeps, Interruptible
<1> QED
  BY <1>1, KeptRefl DEF Wake

LEMMA KillKept ==
  ASSUME NEW d, KernelOK(d), WaitOK(d), NEW t \in Target
  PROVE  Kept(d, Kill(d, t))
<1> DEFINE i == ForceResume(d, t)
           j == ClearTimer(i, t)
           e == SetState(j, t, {"EXITED"})
           w == Wake(SetWakeReason(j, t, "EXIT"), t)
<1>1. t \in Thread
  BY DEF Target
<1>2. KernelOK(j) /\ Kept(d, j)
  <2>1. KernelOK(i) /\ Kept(d, i)
    BY ResumeSound, ResumeKept DEF Sound
  <2> HIDE DEF i
  <2>2. KernelOK(j) /\ Kept(i, j)
    BY <1>1, <2>1, TimerSound, ClearTimerKept DEF Sound, Reason, Kept
  <2> QED
    BY <2>1, <2>2, KeptTrans
<1>3. \/ Kill(d, t) = j
      \/ j.wake_reason[t] = "EXIT" /\ Kill(d, t) = Wake(j, t)
      \/ j.sleep_reason[t] = "NONE" /\ Kill(d, t) = Wake(e, t)
      \/ Interruptible(j, t) /\ Kill(d, t) = w
  BY DEF Kill
<1> HIDE DEF j
<1>4. ASSUME j.wake_reason[t] = "EXIT" PROVE Kept(j, Wake(j, t))
  <2>1. j.sleep_reason[t] = "NONE"
    BY <1>1, <1>2, <1>4 DEF Kept, WaitOK, WaitOKAt
  <2> QED
    BY <1>1, <1>2, <2>1, WakeKept DEF Kept
<1>5. ASSUME j.sleep_reason[t] = "NONE" PROVE Kept(j, Wake(e, t))
  <2>1. /\ {"EXITED"} \in SUBSET StateBit
        /\ {"EXITED"} \cap SLEEPSET = {}
    BY DEF StateBit, SLEEPSET
  <2>2. j.state[t] \cap SLEEPSET = {}
    BY <1>1, <1>2, <1>5 DEF Kept, WaitOK, WaitOKAt, Sleeps, Interruptible
  <2>3. KernelOK(e) /\ Kept(j, e)
    BY <1>2, <2>1, <2>2, SetStateSound, StateKept DEF Sound, Kept
  <2> HIDE DEF e
  <2>4. e.sleep_reason[t] = "NONE"
    BY <1>1, <1>5, <2>3 DEF Kept, KeptAt
  <2>5. Kept(e, Wake(e, t))
    BY <1>1, <2>3, <2>4, WakeKept DEF Kept
  <2> QED
    BY <2>3, <2>5, KeptTrans
<1>6. ASSUME Interruptible(j, t) PROVE Kept(j, w)
  <2>1. WaitOK(j) /\ j.sleep_reason[t] # "NONE"
    BY <1>2, <1>6 DEF Kept, Interruptible
  <2> QED
    BY <1>1, <1>2, <2>1, WakeWithKept DEF Reason, Broken
<1> QED
  BY <1>2, <1>3, <1>4, <1>5, <1>6, KeptTrans
------------------------------------------------------------------------------
(***************************************************************************)
(* Scheduling.                                                             *)
(***************************************************************************)
LEMMA PlainKept ==
  ASSUME NEW d, NEW e, WaitOK(d), SameSleep(d, e), SameQueues(d, e)
  PROVE  Kept(d, e)
  BY SameKept, SameQueuesExact DEF WaitOK, SameSleep, SameReasons, SameQueues,
     SameReasonsAndState

LEMMA TimesliceKept ==
  ASSUME NEW d, KernelOK(d), WaitOK(d)
  PROVE  Kept(d, Timeslice(d)) /\ Kept(d, Yield(d))
<1> DEFINE c == d.current_thread
           p == d.priority[c]
           n == IF d.timeslice_count = 0 THEN TicksWrap ELSE d.timeslice_count - 1
           s == Rotated(d.run_queue[p])
           rq == [d.run_queue EXCEPT ![p] = s]
           nr == d.need_reschedule \/ Head(s) # c
           ts == [d.timeslice EXCEPT ![c] = TimesliceTicks]
<1>1. \/ Timeslice(d) = [d EXCEPT !.run_queue = rq, !.need_reschedule = nr,
                                  !.timeslice_count = TimesliceTicks]
      \/ Timeslice(d) = [d EXCEPT !.timeslice_count = n]
  BY DEF Timeslice
<1>2. \/ Yield(d) = d
      \/ Yield(d) = [d EXCEPT !.run_queue = rq, !.need_reschedule = TRUE]
      \/ Yield(d) = [d EXCEPT !.run_queue = rq, !.timeslice = ts]
  BY DEF Yield
<1> HIDE DEF n, rq, nr, ts
<1>3. SameQueues(d, Timeslice(d)) /\ SameQueues(d, Yield(d))
  BY <1>1, <1>2 DEF KernelOK, KernelData, SameQueues
<1> QED
  BY <1>3, TimesliceFrame, YieldFrame, PlainKept

LEMMA RotateQueueKept ==
  ASSUME NEW d, KernelOK(d), WaitOK(d), NEW p \in Priority
  PROVE  Kept(d, RotateQueue(d, p))
<1> DEFINE rq == [d.run_queue EXCEPT ![p] = Rotated(@)]
<1>1. \/ RotateQueue(d, p) = d
      \/ RotateQueue(d, p) = [d EXCEPT !.run_queue = rq, !.need_reschedule = TRUE]
  BY DEF RotateQueue
<1> HIDE DEF rq
<1>2. SameQueues(d, RotateQueue(d, p))
  BY <1>1 DEF KernelOK, KernelData, SameQueues
<1> QED
  BY <1>2, RotateQueueFrame, PlainKept

\* The head of a wait queue is moved, its threads stay.
LEMMA ToQueueHeadKept ==
  ASSUME NEW d, KernelOK(d), WaitOK(d), NEW t \in Thread
  PROVE  Kept(d, ToQueueHead(d, t))
<1> DEFINE p == d.priority[t]
           q == d.queue[t]
           s == ToHead(d.wait_queue[q], t)
           wq == [d.wait_queue EXCEPT ![q] = s]
           rq == [d.run_queue EXCEPT ![p] = ToHead(@, t)]
           j == [d EXCEPT !.run_queue = rq]
           nr == j.need_reschedule \/ Preempts(j, t)
           x == [d EXCEPT !.wait_queue = wq]
           y == [j EXCEPT !.need_reschedule = nr]
<1>1. ToQueueHead(d, t) \in {d, y} \/ (q # NoQueue /\ ToQueueHead(d, t) = x)
  BY DEF ToQueueHead, SetNeedReschedule
<1>2. /\ d.wait_queue \in [Queue -> Seq(Thread)]
      /\ q \in Queue \cup {NoQueue}
  BY DEF KernelOK, KernelData
<1> HIDE DEF rq, nr
<1>3. SameReasonsAndState(d, y) /\ SameQueues(d, y)
  BY DEF KernelOK, KernelData, SameReasonsAndState, SameQueues
<1>4. ASSUME q # NoQueue
      PROVE  \A r \in Queue : /\ IsInjective(wq[r])
                              /\ ToSet(wq[r]) = ToSet(d.wait_queue[r])
  <2>1. q \in Queue /\ d.wait_queue[q] \in Seq(Thread) /\ IsInjective(d.wait_queue[q])
    BY <1>2, <1>4 DEF WaitOK, QueuedExactly
  <2>2. IsInjective(s) /\ ToSet(s) = ToSet(d.wait_queue[q])
    BY <2>1, ToHeadProps
  <2> HIDE DEF s, q
  <2> QED
    BY <1>2, <2>2 DEF WaitOK, QueuedExactly
<1> HIDE DEF wq
<1>5. SameReasonsAndState(d, x) /\ x.queue = d.queue /\ x.wait_queue = wq
  BY DEF KernelOK, KernelData, SameReasonsAndState
<1> HIDE DEF x, y, q
<1>6. ASSUME q # NoQueue PROVE Kept(d, x)
  <2>1. QueuedExactly(x)
    BY <1>4, <1>5, <1>6 DEF WaitOK, QueuedExactly
  <2> QED
    BY <1>5, <2>1, SameKept
<1>7. Kept(d, d) /\ Kept(d, y)
  BY <1>3, KeptRefl, SameKept, SameQueuesExact DEF WaitOK, SameQueues
<1> QED
  BY <1>1, <1>6, <1>7

\* A sleeper is taken off its queue and appended to it again.
LEMMA EnqueueExact ==
  ASSUME NEW d \in KernelData, NEW q \in Queue, NEW t \in Thread,
         QueuedExactly(d), d.queue[t] = NoQueue
  PROVE  LET e == Enqueue(d, q, t)
         IN  /\ QueuedExactly(e)
             /\ e.queue = [d.queue EXCEPT ![t] = q]
             /\ SameReasonsAndState(d, e)
<1> DEFINE s == Append(d.wait_queue[q], t)
           wq == [d.wait_queue EXCEPT ![q] = s]
           f == [d.queue EXCEPT ![t] = q]
           e == [d EXCEPT !.wait_queue = wq, !.queue = f]
<1>1. Enqueue(d, q, t) = e
  BY DEF Enqueue
<1>2. /\ d.wait_queue \in [Queue -> Seq(Thread)]
      /\ d.queue \in [Thread -> Queue \cup {NoQueue}]
      /\ NoQueue \notin Queue
  BY ThreadAssumption DEF KernelData
<1>3. IsInjective(s) /\ ToSet(s) = {u \in Thread : d.queue[u] = q} \cup {t}
  <2>1. /\ d.wait_queue[q] \in Seq(Thread) /\ IsInjective(d.wait_queue[q])
        /\ ToSet(d.wait_queue[q]) = {u \in Thread : d.queue[u] = q}
        /\ t \notin ToSet(d.wait_queue[q])
    BY <1>2 DEF QueuedExactly
  <2> QED
    BY <2>1, AppendProps
<1> HIDE DEF s
<1>4. \A r \in Queue : /\ IsInjective(wq[r])
                       /\ ToSet(wq[r]) = {u \in Thread : f[u] = r}
  <2> SUFFICES ASSUME NEW r \in Queue
               PROVE  /\ IsInjective(wq[r])
                      /\ ToSet(wq[r]) = {u \in Thread : f[u] = r}
    OBVIOUS
  <2>1. CASE r = q
    <3>1. {u \in Thread : f[u] = q} = {u \in Thread : d.queue[u] = q} \cup {t}
      BY <1>2
    <3> QED
      BY <1>2, <1>3, <2>1, <3>1
  <2>2. CASE r # q
    <3>1. wq[r] = d.wait_queue[r]
      BY <1>2, <2>2
    <3>2. {u \in Thread : f[u] = r} = {u \in Thread : d.queue[u] = r}
      BY <1>2, <2>2
    <3> QED
      BY <3>1, <3>2 DEF QueuedExactly
  <2> QED
    BY <2>1, <2>2
<1> HIDE DEF wq, f
<1>5. e.wait_queue = wq /\ e.queue = f /\ SameReasonsAndState(d, e)
  BY DEF KernelData, SameReasonsAndState
<1> HIDE DEF e
<1> QED
  BY <1>1, <1>4, <1>5 DEF QueuedExactly, f

\* set_priority() keeps a sleeper on its queue, at the tail.
LEMMA SetPriorityKept ==
  ASSUME NEW d, KernelOK(d), WaitOK(d), NEW t \in Thread, NEW p \in Priority
  PROVE  Kept(d, SetPriority(d, t, p))
<1> DEFINE asleep == "SLEEPING" \in d.state[t]
           q == d.queue[t]
           out == CASE Running(d, t) -> RemThread(d, t)
                    [] ~Running(d, t) /\ asleep -> RemoveFromQueue(d, t)
                    [] OTHER -> d
           moved == [out EXCEPT !.priority[t] = p]
           back == CASE Running(d, t) -> AddThread(moved, t)
                     [] ~Running(d, t) /\ asleep /\ q # NoQueue -> Enqueue(moved, q, t)
                     [] OTHER -> moved
           nr == back.need_reschedule \/ Preempts(back, t)
<1>1. SetPriority(d, t, p) \in {[back EXCEPT !.need_reschedule = TRUE],
                                [back EXCEPT !.need_reschedule = nr]}
  <2>1. Running(d, t) => ~asleep
    BY DEF Running, RUNNING
  <2>2. /\ out = CASE Running(d, t) -> RemThread(d, t)
                   [] asleep -> RemoveFromQueue(d, t)
                   [] OTHER -> d
        /\ back = CASE Running(d, t) -> AddThread(moved, t)
                    [] asleep /\ q # NoQueue -> Enqueue(moved, q, t)
                    [] OTHER -> moved
    BY <2>1
  <2> QED
    BY <2>2 DEF SetPriority, SetNeedReschedule
<1>2. /\ d \in KernelData /\ d.priority \in [Thread -> Priority]
      /\ d.queue \in [Thread -> Queue \cup {NoQueue}]
      /\ QueuedExactly(d)
  BY DEF KernelOK, KernelData, WaitOK
<1>3. /\ out \in KernelData /\ QueuedExactly(out)
      /\ out.queue = IF ~Running(d, t) /\ asleep
                     THEN [d.queue EXCEPT ![t] = NoQueue] ELSE d.queue
  <2>1. CASE Running(d, t)
    <3>1. RemThread(d, t) \in KernelData
      <4>1. QueuesHold(Runnable(d), d)
        BY ExactIsHold DEF KernelOK
      <4> QED
        BY <1>2, <4>1, RemThreadProps
    <3> QED
      BY <1>2, <2>1, <3>1, RemThreadQueues, SameQueuesExact DEF SameQueues
  <2>2. CASE ~Running(d, t) /\ asleep
    BY <1>2, <2>2, RemoveFromQueueFrame, RemoveFromQueueExact
  <2>3. CASE ~Running(d, t) /\ ~asleep
    BY <1>2, <2>3
  <2> QED
    BY <2>1, <2>2, <2>3
<1> HIDE DEF out
<1>4. moved \in KernelData /\ SameQueues(out, moved)
  <2> DEFINE pr == [out.priority EXCEPT ![t] = p]
  <2>1. pr \in [Thread -> Priority]
    BY <1>3 DEF KernelData
  <2>2. moved = [out EXCEPT !.priority = pr]
    OBVIOUS
  <2> HIDE DEF pr, moved
  <2> QED
    BY <1>3, <2>1, <2>2 DEF KernelData, SameQueues
<1>5. QueuedExactly(moved) /\ moved.queue = out.queue
  BY <1>3, <1>4, SameQueuesExact DEF SameQueues
<1> HIDE DEF moved
<1>6. back \in KernelData /\ QueuedExactly(back) /\ back.queue = d.queue
  <2>1. CASE Running(d, t)
    <3>1. d.queue[t] = NoQueue
      BY <2>1 DEF Running, RUNNING, WaitOK, WaitOKAt
    <3>2. [d.queue EXCEPT ![t] = NoQueue] = d.queue
      BY <1>2, <3>1
    <3>3. back = AddThread(moved, t) /\ moved.queue = d.queue
      BY <1>3, <1>5, <2>1
    <3> HIDE DEF back
    <3> QED
      BY <1>4, <1>5, <3>2, <3>3, AddThreadFrame, AddThreadExact
  <2>2. CASE ~Running(d, t) /\ asleep /\ q # NoQueue
    <3>1. q \in Queue
      BY <1>2, <2>2
    <3>2. back = Enqueue(moved, q, t)
      BY <2>2
    <3>3. moved.queue = [d.queue EXCEPT ![t] = NoQueue]
      BY <1>3, <1>5, <2>2
    <3>4. moved.queue[t] = NoQueue /\ [moved.queue EXCEPT ![t] = q] = d.queue
      BY <1>2, <3>3
    <3> HIDE DEF q, back
    <3>5. back \in KernelData
      BY <1>4, <3>1, <3>2, EnqueueFrame
    <3> QED
      BY <1>4, <1>5, <3>1, <3>2, <3>4, <3>5, EnqueueExact
  <2>3. CASE ~Running(d, t) /\ ~(asleep /\ q # NoQueue)
    <3>1. moved.queue = d.queue
      BY <1>2, <1>3, <1>5, <2>3
    <3> QED
      BY <1>4, <1>5, <2>3, <3>1
  <2> QED
    BY <2>1, <2>2, <2>3
<1> HIDE DEF back, nr
<1>7. /\ SameQueues(back, [back EXCEPT !.need_reschedule = TRUE])
      /\ SameQueues(back, [back EXCEPT !.need_reschedule = nr])
  BY <1>6 DEF KernelData, SameQueues
<1> DEFINE e == SetPriority(d, t, p)
<1>8. QueuedExactly(e) /\ e.queue = d.queue
  BY <1>1, <1>6, <1>7, SameQueuesExact DEF SameQueues
<1>9. SameReasonsAndState(d, e)
  BY SetPriorityFrame DEF SameSleep, SameReasons, SameReasonsAndState
<1> HIDE DEF e
<1>10. Kept(d, e)
  BY <1>8, <1>9, SameKept
<1> QED
  BY <1>10 DEF e

LEMMA SwitchKept ==
  ASSUME NEW d \in KernelData, WaitOK(d), NEW t \in Thread,
         NEW ts \in [Thread -> 0 .. TicksWrap]
  PROVE  LET j == [d EXCEPT !.timeslice = ts]
         IN  Kept(d, Enter(j, t)) /\ Kept(d, Continue(j, t))
<1> DEFINE us == [ts EXCEPT ![t] = TimesliceTicks]
           x == [d EXCEPT !.current_thread = t, !.need_reschedule = FALSE,
                          !.timeslice = us, !.timeslice_count = TimesliceTicks]
           y == [d EXCEPT !.current_thread = t, !.need_reschedule = FALSE,
                          !.timeslice = ts, !.timeslice_count = ts[t]]
           j == [d EXCEPT !.timeslice = ts]
<1>1. Enter(j, t) = x /\ Continue(j, t) = y
  BY DEF Enter, Continue, KernelData
<1> HIDE DEF us
<1>2. /\ SameSleep(d, x) /\ SameQueues(d, x)
      /\ SameSleep(d, y) /\ SameQueues(d, y)
  BY DEF SameSleep, SameReasons, SameQueues, KernelData
<1> HIDE DEF x, y
<1>3. Kept(d, x) /\ Kept(d, y)
  BY <1>2, PlainKept
<1> QED
  BY <1>1, <1>3
------------------------------------------------------------------------------
(***************************************************************************)
(* Going to sleep.                                                         *)
(***************************************************************************)
\* The caller's timer is set: its wake_reason is cleared.
LEMMA SetTimerKept ==
  ASSUME NEW d, KernelOK(d), WaitOK(d)
  PROVE  /\ KeptOthers(d, SetTimer(d, "TIMEOUT"))
         /\ KeptOthers(d, Alarm(SetTimer(d, "TIMEOUT"), d.current_thread))
<1> DEFINE c == d.current_thread
           e == SetTimer(d, "TIMEOUT")
<1>1. /\ c \in Thread /\ "TIMEOUT" \in Reason
      /\ d.sleep_reason \in [Thread -> Reason]
      /\ d.wake_reason \in [Thread -> Reason]
  BY DEF KernelOK, KernelData, Reason
<1>2. /\ e.state = d.state /\ e.current_thread = c
      /\ e.sleep_reason = [d.sleep_reason EXCEPT ![c] = "TIMEOUT"]
      /\ e.wake_reason = [d.wake_reason EXCEPT ![c] = "NONE"]
  BY <1>1, SetTimerFrame
<1>3. SameQueues(d, e) /\ KernelOK(e)
  BY <1>1, TimerQueues, TimerSound DEF Sound
<1> HIDE DEF e
<1>4. ASSUME NEW u \in Thread \ {c} PROVE WaitOKAt(e, u) /\ KeptAt(d, e, u)
  <2>1. /\ e.state[u] = d.state[u] /\ e.queue[u] = d.queue[u]
        /\ e.sleep_reason[u] = d.sleep_reason[u]
        /\ e.wake_reason[u] = d.wake_reason[u]
    BY <1>1, <1>2, <1>3, <1>4 DEF SameQueues
  <2> QED
    BY <2>1 DEF WaitOK, WaitOKAt, KeptAt, StillWaits, Sleeps, Interruptible
<1>5. WaitOKAt(e, c) /\ StillWaits(d, e, c)
  BY <1>1, <1>2, <1>3 DEF WaitOK, WaitOKAt, StillWaits, Sleeps, Interruptible,
     SameQueues
<1>6. KeptOthers(d, e)
  BY <1>3, <1>4, <1>5, SameQueuesExact DEF KeptOthers, WaitOK
<1>7. Kept(e, Alarm(e, c))
  BY <1>1, <1>3, <1>6, AlarmKept DEF KeptOthers
<1>8. KeptOthers(d, Alarm(e, c))
  BY <1>6, <1>7, KeptOthersTrans
<1> QED
  BY <1>6, <1>8 DEF e

\* What a call leaves that blocks its caller, on the queue q or on none.
Blocked(d, e, q) ==
  /\ WaitOK(e)
  /\ e.queue[d.current_thread] = q
  /\ \A t \in Thread \ {d.current_thread} : KeptAt(d, e, t)

FallsAsleep(d, e, r) ==
  LET c == d.current_thread
  IN  /\ "SLEEPING" \in e.state[c]
      /\ \A u \in Thread \ {c} : e.state[u] = d.state[u]
      /\ e.sleep_reason = [d.sleep_reason EXCEPT ![c] = r]
      /\ e.wake_reason = [d.wake_reason EXCEPT ![c] = "NONE"]

LEMMA AsleepBlocked ==
  ASSUME NEW d, KernelOK(d), WaitOK(d), NEW e, NEW q \in Queue \cup {NoQueue},
         NEW r \in {"WAIT", "DELAY", "TIMEOUT"}, FallsAsleep(d, e, r),
         q # NoQueue =>
           r # "DELAY" /\ "COUNTSLEEP" \notin e.state[d.current_thread],
         QueuedExactly(e), e.queue = [d.queue EXCEPT ![d.current_thread] = q]
  PROVE  Blocked(d, e, q)
<1> DEFINE c == d.current_thread
<1>1. /\ c \in Thread
      /\ d.queue \in [Thread -> Queue \cup {NoQueue}]
      /\ d.sleep_reason \in [Thread -> Reason]
      /\ d.wake_reason \in [Thread -> Reason]
  BY DEF KernelOK, KernelData
<1>2. ASSUME NEW u \in Thread \ {c} PROVE WaitOKAt(e, u) /\ KeptAt(d, e, u)
  <2>1. /\ e.state[u] = d.state[u] /\ e.queue[u] = d.queue[u]
        /\ e.sleep_reason[u] = d.sleep_reason[u]
        /\ e.wake_reason[u] = d.wake_reason[u]
    BY <1>1, <1>2 DEF FallsAsleep
  <2> QED
    BY <2>1 DEF WaitOK, WaitOKAt, KeptAt, StillWaits, Sleeps, Interruptible
<1>3. WaitOKAt(e, c) /\ e.queue[c] = q
  BY <1>1 DEF FallsAsleep, WaitOKAt, Interruptible
<1> QED
  BY <1>2, <1>3 DEF Blocked, WaitOK

LEMMA SleepQueues ==
  ASSUME NEW d, KernelOK(d), d.current_thread \in Target, QueuedExactly(d)
  PROVE  QueuedExactly(Sleep(d)) /\ Sleep(d).queue = d.queue
<1> DEFINE c == d.current_thread
           s == d.state[c] \cup {"SLEEPING"}
<1>1. s \in SUBSET StateBit /\ s # RUNNING
  BY DEF KernelOK, KernelData, StateBit, RUNNING
<1>2. Sleep(d) = SetState(d, c, s)
  BY DEF Sleep
<1> HIDE DEF s
<1> QED
  BY <1>1, <1>2, SetStateExact

\* set_sleep_reason() and sleep(), for the reason r.
LEMMA SleepForProps ==
  ASSUME NEW d, KernelOK(d), WaitOK(d), d.current_thread \in Target,
         NEW r \in {"WAIT", "TIMEOUT"}
  PROVE  LET e == Sleep(SetSleepReason(d, r))
         IN  /\ Sound(d, e) /\ FallsAsleep(d, e, r)
             /\ e.state[d.current_thread]
                  = d.state[d.current_thread] \cup {"SLEEPING"}
             /\ QueuedExactly(e) /\ e.queue = d.queue
<1> DEFINE c == d.current_thread
           i == SetSleepReason(d, r)
           e == Sleep(i)
<1>1. /\ c \in Thread /\ r \in Reason
      /\ d.state \in [Thread -> SUBSET StateBit]
  BY DEF KernelOK, KernelData, Reason
<1>2. Sound(d, i)
  BY <1>1, ReasonSound
<1>3. /\ i.state = d.state /\ i.current_thread = c
      /\ i.sleep_reason = [d.sleep_reason EXCEPT ![c] = r]
      /\ i.wake_reason = [d.wake_reason EXCEPT ![c] = "NONE"]
  BY <1>1, SleepReasonFrame DEF KernelOK
<1>4. SameQueues(d, i)
  BY <1>1, ReasonQueues DEF KernelOK
<1> HIDE DEF i
<1>5. QueuedExactly(i)
  BY <1>4, SameQueuesExact DEF WaitOK
<1>6. Sound(i, e) /\ QueuedExactly(e) /\ e.queue = i.queue
  BY <1>2, <1>3, <1>5, SleepSound, SleepQueues DEF Sound
<1>7. /\ SameReasons(i, e)
      /\ e.state = [i.state EXCEPT ![c] = @ \cup {"SLEEPING"}]
  BY <1>2, <1>3, SleepFrame DEF Sound
<1> HIDE DEF e
<1>8. FallsAsleep(d, e, r) /\ e.state[c] = d.state[c] \cup {"SLEEPING"}
  BY <1>1, <1>3, <1>7 DEF FallsAsleep, SameReasons
<1> QED
  BY <1>2, <1>4, <1>6, <1>8, SoundTrans DEF SameQueues, e, i

\* One round of a wait's loop: the caller is on the queue q, asleep.
LEMMA GoToSleepBlocked ==
  ASSUME KernelOK(k), Current \in Target,
         NEW j, Sound(k, j), KeptOthers(k, j), ~Sleeps(j, Current),
         NEW q \in Queue, NEW timed \in BOOLEAN
  PROVE  Sound(k, GoToSleep(j, q, timed)) /\ Blocked(k, GoToSleep(j, q, timed), q)
<1> DEFINE c == Current
           r == IF timed THEN "TIMEOUT" ELSE "WAIT"
           i == Sleep(SetSleepReason(j, r))
           e == Enqueue(i, q, c)
<1>1. /\ c \in Thread /\ r \in {"WAIT", "TIMEOUT"} /\ c = k.current_thread
      /\ KernelOK(j) /\ WaitOK(j) /\ j.current_thread = c
  BY DEF Target, Current, Sound, KeptOthers
<1>2. GoToSleep(j, q, timed) = e
  BY DEF GoToSleep
<1> HIDE DEF r
<1>3. /\ Sound(j, i) /\ FallsAsleep(j, i, r)
      /\ i.state[c] = j.state[c] \cup {"SLEEPING"}
      /\ QueuedExactly(i) /\ i.queue = j.queue
  BY <1>1, SleepForProps
<1> HIDE DEF i
<1>4. j.queue[c] = NoQueue
  BY <1>1 DEF WaitOK, WaitOKAt, Sleeps, SLEEPSET
<1>5. i \in KernelData /\ i.current_thread = c
  BY <1>1, <1>3 DEF Sound, KernelOK
<1>6. /\ QueuedExactly(e) /\ e.queue = [j.queue EXCEPT ![c] = q]
      /\ SameReasonsAndState(i, e)
  BY <1>1, <1>3, <1>4, <1>5, EnqueueExact
<1>7. Sound(i, e)
  <2>1. e \in KernelData /\ e = [i EXCEPT !.wait_queue = e.wait_queue, !.queue = e.queue]
    BY <1>1, <1>5, EnqueueProps, ZenonT(60)
  <2> HIDE DEF e
  <2>2. SameScheduling(i, e)
    BY <1>5, <2>1 DEF KernelData, SameScheduling
  <2> QED
    BY <1>3, <2>1, <2>2, SameSchedulingOK DEF Sound
<1> HIDE DEF e
<1>8. FallsAsleep(j, e, r) /\ "COUNTSLEEP" \notin e.state[c]
  BY <1>1, <1>3, <1>6 DEF FallsAsleep, SameReasonsAndState, Sleeps, SLEEPSET
<1>9. Blocked(j, e, q)
  BY <1>1, <1>6, <1>8, AsleepBlocked
<1>10. Blocked(k, e, q)
  BY <1>1, <1>9, KeptAtTrans DEF Blocked, KeptOthers
<1> QED
  BY <1>2, <1>3, <1>7, <1>10, SoundTrans

\* The calls that block on no queue.
LEMMA DelayBlocked ==
  ASSUME NEW d, KernelOK(d), WaitOK(d), d.current_thread \in Target,
         ~Sleeps(d, d.current_thread)
  PROVE  Blocked(d, Delay(d), NoQueue) /\ Blocked(d, DelayPast(d), NoQueue)
<1> DEFINE c == d.current_thread
           i == Sleep(d)
           e == SetTimer(i, "DELAY")
<1>1. /\ c \in Thread /\ d.state \in [Thread -> SUBSET StateBit]
      /\ d.queue \in [Thread -> Queue \cup {NoQueue}]
      /\ "DELAY" \in Reason
  BY DEF KernelOK, KernelData, Reason
<1>2. Delay(d) = e /\ DelayPast(d) = Alarm(e, c)
  BY DEF Delay, DelayPast
<1>3. /\ SameReasons(d, i)
      /\ i.state = [d.state EXCEPT ![c] = @ \cup {"SLEEPING"}]
      /\ KernelOK(i) /\ i.current_thread = c
      /\ QueuedExactly(i) /\ i.queue = d.queue
  BY SleepFrame, SleepQueues DEF WaitOK
<1> HIDE DEF i
<1>4. /\ e.state = i.state
      /\ e.sleep_reason = [i.sleep_reason EXCEPT ![c] = "DELAY"]
      /\ e.wake_reason = [i.wake_reason EXCEPT ![c] = "NONE"]
  BY <1>1, <1>3, SetTimerFrame
<1>5. KernelOK(e) /\ SameQueues(i, e)
  BY <1>1, <1>3, TimerSound, TimerQueues DEF Sound
<1> HIDE DEF e
<1>6. FallsAsleep(d, e, "DELAY")
  BY <1>1, <1>3, <1>4 DEF FallsAsleep, SameReasons
<1>7. e.queue = [d.queue EXCEPT ![c] = NoQueue] /\ QueuedExactly(e)
  <2>1. d.queue[c] = NoQueue
    BY <1>1 DEF WaitOK, WaitOKAt, Sleeps, SLEEPSET
  <2> QED
    BY <1>1, <1>3, <1>5, <2>1, SameQueuesExact DEF SameQueues
<1>8. Blocked(d, e, NoQueue)
  BY <1>6, <1>7, AsleepBlocked
<1>9. Kept(e, Alarm(e, c))
  BY <1>1, <1>5, <1>8, AlarmKept DEF Blocked
<1>10. Blocked(d, Alarm(e, c), NoQueue)
  <2>1. Alarm(e, c).queue[c] = NoQueue
    BY <1>1, <1>8, <1>9 DEF Blocked, Kept, KeptAt, StillWaits, WaitOK, WaitOKAt
  <2> QED
    BY <1>8, <1>9, <2>1, KeptAtTrans DEF Blocked, Kept
<1> QED
  BY <1>2, <1>8, <1>10

LEMMA KeptBlocked ==
  ASSUME NEW d, NEW e, KernelOK(d), KeptOthers(d, e),
         ~Sleeps(d, d.current_thread)
  PROVE  Blocked(d, e, NoQueue)
<1>1. d.current_thread \in Thread
  BY DEF KernelOK, KernelData
<1> QED
  BY <1>1 DEF KeptOthers, Blocked, StillWaits, WaitOK, WaitOKAt, Sleeps, SLEEPSET

LEMMA CountedSleepBlocked ==
  ASSUME NEW d, KernelOK(d), WaitOK(d), d.current_thread \in Target,
         ~Sleeps(d, d.current_thread)
  PROVE  /\ Blocked(d, CountedSleep(d), NoQueue)
         /\ Blocked(d, TimedCountedSleep(d), NoQueue)
         /\ Blocked(d, TimedCountedSleepPast(d), NoQueue)
<1> DEFINE c == d.current_thread
<1>1. /\ c \in Thread /\ d.queue \in [Thread -> Queue \cup {NoQueue}]
      /\ d.queue[c] = NoQueue
  BY DEF KernelOK, KernelData, Target, WaitOK, WaitOKAt, Sleeps, SLEEPSET
<1>2. ASSUME NEW h, Sound(d, h), KeptOthers(d, h), NEW r \in {"WAIT", "TIMEOUT"}
      PROVE  Blocked(d, AddCountSleep(Sleep(SetSleepReason(h, r))), NoQueue)
  <2> DEFINE j == Sleep(SetSleepReason(h, r))
             st == [j.state EXCEPT ![j.current_thread] = @ \cup {"COUNTSLEEP"}]
             e == [j EXCEPT !.state = st]
  <2>1. AddCountSleep(j) = e
    BY DEF AddCountSleep
  <2>2. /\ Sound(h, j) /\ FallsAsleep(h, j, r)
        /\ QueuedExactly(j) /\ j.queue = h.queue
    BY <1>2, SleepForProps DEF Sound, KeptOthers
  <2> HIDE DEF j
  <2>3. j \in KernelData /\ j.current_thread = c /\ h.current_thread = c
    BY <1>2, <2>2 DEF Sound, KernelOK
  <2>4. FallsAsleep(h, e, r) /\ SameQueues(j, e)
    <3>1. /\ e.state = st /\ e.sleep_reason = j.sleep_reason
          /\ e.wake_reason = j.wake_reason /\ SameQueues(j, e)
      <4> HIDE DEF st
      <4> QED
        BY <2>3 DEF KernelData, SameQueues
    <3>2. /\ "SLEEPING" \in st[c]
          /\ \A u \in Thread \ {c} : st[u] = j.state[u]
      BY <1>1, <2>2, <2>3 DEF KernelData, FallsAsleep
    <3> HIDE DEF e, st
    <3> QED
      BY <2>2, <2>3, <3>1, <3>2 DEF FallsAsleep
  <2> HIDE DEF e
  <2>5. QueuedExactly(e) /\ e.queue = [h.queue EXCEPT ![c] = NoQueue]
    <3>1. h.queue[c] = NoQueue /\ h.queue \in [Thread -> Queue \cup {NoQueue}]
      BY <1>1, <1>2 DEF KeptOthers, StillWaits, WaitOK, WaitOKAt, Sound, KernelOK,
         KernelData, Sleeps, SLEEPSET
    <3>2. [h.queue EXCEPT ![c] = NoQueue] = h.queue
      BY <1>1, <3>1
    <3> QED
      BY <2>2, <2>4, <3>2, SameQueuesExact DEF SameQueues
  <2>6. Blocked(h, e, NoQueue)
    BY <1>2, <2>3, <2>4, <2>5, AsleepBlocked DEF Sound, KeptOthers
  <2>7. Blocked(d, e, NoQueue)
    BY <1>1, <1>2, <2>3, <2>6, KeptAtTrans DEF Blocked, KeptOthers
  <2> QED
    BY <2>1, <2>7 DEF j
<1>3. Sound(d, d) /\ KeptOthers(d, d)
  BY <1>1, SoundRefl, KeptRefl DEF Kept, KeptOthers, KeptAt
<1>4. /\ Sound(d, SetTimer(d, "TIMEOUT"))
      /\ KeptOthers(d, SetTimer(d, "TIMEOUT"))
      /\ KeptOthers(d, TimedCountedSleepPast(d))
  <2>1. "TIMEOUT" \in Reason
    BY DEF Reason
  <2> QED
    BY <1>1, <2>1, TimerSound, SetTimerKept DEF TimedCountedSleepPast
<1>5. Blocked(d, TimedCountedSleepPast(d), NoQueue)
  BY <1>4, KeptBlocked
<1>6. Blocked(d, TimedCountedSleep(d), NoQueue)
  BY <1>2, <1>4 DEF TimedCountedSleep
<1>7. Blocked(d, CountedSleep(d), NoQueue)
  <2>1. CASE d.wakeup_count[c] = 0
    BY <1>2, <1>3, <2>1 DEF CountedSleep
  <2>2. CASE d.wakeup_count[c] # 0
    <3>1. CountedSleep(d) = TakeWakeup(d)
      BY <2>2 DEF CountedSleep
    <3>2. KeptOthers(d, TakeWakeup(d))
      BY <1>1, <2>2, TakeWakeupKept DEF Kept, KeptOthers, KeptAt
    <3> QED
      BY <3>1, <3>2, KeptBlocked
  <2> QED
    BY <2>1, <2>2
<1> QED
  BY <1>5, <1>6, <1>7
------------------------------------------------------------------------------
(***************************************************************************)
(* if( !queue.empty() ) the first thread is taken off the queue and woken. *)
(***************************************************************************)
LEMMA DequeueProps ==
  ASSUME NEW d, KernelOK(d), WaitOK(d), NEW q \in Queue, d.wait_queue[q] # <<>>
  PROVE  LET e == Dequeue(d, q)
             h == Head(d.wait_queue[q])
         IN  /\ h \in Thread /\ d.queue[h] = q
             /\ Sound(d, e)
             /\ QueuedExactly(e)
             /\ e.queue = [d.queue EXCEPT ![h] = NoQueue]
             /\ SameSleep(d, e)
<1> DEFINE s == d.wait_queue[q]
           h == Head(s)
           w == [d.wait_queue EXCEPT ![q] = Tail(s)]
           f == [d.queue EXCEPT ![h] = NoQueue]
           e == [d EXCEPT !.wait_queue = w, !.queue = f]
<1>1. Dequeue(d, q) = e
  BY DEF Dequeue
<1>2. /\ d \in KernelData
      /\ d.wait_queue \in [Queue -> Seq(Thread)]
      /\ d.queue \in [Thread -> Queue \cup {NoQueue}]
      /\ NoQueue \notin Queue
  BY ThreadAssumption DEF KernelOK, KernelData
<1>3. /\ s \in Seq(Thread) /\ s # <<>> /\ IsInjective(s)
      /\ ToSet(s) = {t \in Thread : d.queue[t] = q}
  BY <1>2 DEF WaitOK, QueuedExactly
<1>4. /\ Tail(s) \in Seq(Thread) /\ h \in Thread /\ h \in ToSet(s)
      /\ IsInjective(Tail(s)) /\ ToSet(Tail(s)) = ToSet(s) \ {h}
  <2> HIDE DEF s
  <2>1. Tail(s) \in Seq(Thread) /\ h \in Thread /\ h = s[1] /\ Len(s) > 0
        /\ Len(s) \in Nat
    BY <1>3, HeadTailProperties, EmptySeq
  <2>2. h \in ToSet(s)
    <3>1. 1 \in DOMAIN s
      BY <1>3, <2>1
    <3> QED
      BY <2>1, <3>1 DEF ToSet
  <2> QED
    BY <1>3, <2>1, <2>2, TailProps
<1>5. d.queue[h] = q
  BY <1>3, <1>4
<1> HIDE DEF h, s
<1>6. \A r \in Queue : /\ IsInjective(w[r])
                       /\ ToSet(w[r]) = {u \in Thread : f[u] = r}
  <2> SUFFICES ASSUME NEW r \in Queue
               PROVE  /\ IsInjective(w[r])
                      /\ ToSet(w[r]) = {u \in Thread : f[u] = r}
    OBVIOUS
  <2>1. {u \in Thread : f[u] = r} = {u \in Thread : d.queue[u] = r} \ {h}
    BY <1>2, <1>4
  <2>2. CASE r = q
    BY <1>2, <1>3, <1>4, <2>1, <2>2
  <2>3. CASE r # q
    <3>1. w[r] = d.wait_queue[r]
      BY <1>2, <2>3
    <3> QED
      BY <1>5, <2>1, <2>3, <3>1 DEF WaitOK, QueuedExactly
  <2> QED
    BY <2>2, <2>3
<1>7. w \in [Queue -> Seq(Thread)] /\ f \in [Thread -> Queue \cup {NoQueue}]
  BY <1>2, <1>4
<1> HIDE DEF w
<1>8. /\ e \in KernelData /\ e.wait_queue = w /\ e.queue = f
      /\ SameScheduling(d, e) /\ SameSleep(d, e)
  <2> HIDE DEF f
  <2> QED
    BY <1>2, <1>7 DEF KernelData, SameScheduling, SameSleep, SameReasons
<1> HIDE DEF e
<1>9. QueuedExactly(e)
  BY <1>6, <1>8 DEF QueuedExactly
<1>10. Sound(d, e)
  BY <1>8, SameSchedulingOK
<1> QED
  BY <1>1, <1>4, <1>5, <1>8, <1>9, <1>10 DEF h, s

LEMMA WakeFirstServes ==
  ASSUME NEW d, KernelOK(d), WaitOK(d), NEW q \in Queue
  PROVE  LET e == WakeFirst(d, q)
             h == Head(d.wait_queue[q])
         IN  /\ Sound(d, e)
             /\ Serves(d, e, q)
             /\ d.wait_queue[q] # <<>> =>
                  /\ h \in Thread /\ d.queue[h] = q
                  /\ "SLEEPING" \notin e.state[h] /\ e.wake_reason[h] = "DONE"
                  /\ e.sleep_reason[h] = "NONE"
<1>1. CASE d.wait_queue[q] = <<>>
  BY <1>1, SoundRefl, KeptRefl DEF WakeFirst, Kept, Serves
<1>2. CASE d.wait_queue[q] # <<>>
  <2> DEFINE h == Head(d.wait_queue[q])
             i == Dequeue(d, q)
             j == SetWakeReason(i, h, "DONE")
             e == Wake(j, h)
  <2>1. WakeFirst(d, q) = e
    BY <1>2 DEF WakeFirst, WakeDone
  <2>2. /\ h \in Thread /\ d.queue[h] = q
        /\ Sound(d, i) /\ QueuedExactly(i)
        /\ i.queue = [d.queue EXCEPT ![h] = NoQueue]
        /\ SameSleep(d, i)
    BY <1>2, DequeueProps
  <2>3. "DONE" \in Reason
    BY DEF Reason
  <2> HIDE DEF h, i
  <2>4. KernelOK(i) /\ i \in KernelData
    BY <2>2 DEF Sound, KernelOK
  <2>5. Sound(i, j) /\ SameQueues(i, j)
    BY <2>2, <2>3, <2>4, ReasonSound, ReasonQueues
  <2>6. WokenWith(d, e, h, "DONE")
    <3>1. WokenWith(i, e, h, "DONE")
      BY <2>2, <2>3, <2>4, WakeWithFrame
    <3> HIDE DEF e
    <3> QED
      BY <2>2, <3>1 DEF WokenWith, SameSleep, SameReasons
  <2> HIDE DEF j
  <2>7. QueuedExactly(j) /\ j.queue = i.queue /\ KernelOK(j)
    BY <2>2, <2>5, SameQueuesExact DEF SameQueues, Sound
  <2>8. d.queue \in [Thread -> Queue \cup {NoQueue}]
    BY DEF KernelOK, KernelData
  <2>9. i.queue[h] = NoQueue
    BY <2>2, <2>8
  <2>10. QueuedExactly(e) /\ e.queue = [i.queue EXCEPT ![h] = NoQueue]
    <3>1. j.queue[h] # NoQueue => "SLEEPING" \in j.state[h]
      BY <2>7, <2>9
    <3>2. QueuedExactly(e) /\ e.queue = [j.queue EXCEPT ![h] = NoQueue]
      BY <2>2, <2>7, <3>1, WakeExact
    <3> QED
      BY <2>7, <3>2
  <2>11. Sound(j, e)
    BY <2>2, <2>7, WakeSound
  <2> HIDE DEF e
  <2>12. e.queue = [d.queue EXCEPT ![h] = NoQueue]
    BY <2>2, <2>8, <2>10
  <2>13. Serves(d, e, q)
    <3>1. /\ WaitOK(e)
          /\ \A u \in Thread \ {h} : KeptAt(d, e, u)
          /\ e.queue[h] = NoQueue /\ ~Sleeps(e, h)
          /\ e.sleep_reason[h] = "NONE" /\ e.wake_reason[h] = "DONE"
      BY <2>2, <2>3, <2>6, <2>10, <2>12, WokenProps
    <3>2. q # NoQueue
      BY ThreadAssumption
    <3> QED
      BY <2>2, <3>1, <3>2 DEF Serves, ServedAt
  <2>14. Sound(d, e)
    BY <2>2, <2>5, <2>11, SoundTrans
  <2>15. /\ "SLEEPING" \notin e.state[h] /\ e.wake_reason[h] = "DONE"
         /\ e.sleep_reason[h] = "NONE"
    <3>1. /\ d.state \in [Thread -> SUBSET StateBit]
          /\ d.wake_reason \in [Thread -> Reason]
          /\ d.sleep_reason \in [Thread -> Reason]
      BY DEF KernelOK, KernelData
    <3> QED
      BY <2>2, <2>6, <3>1 DEF WokenWith, SLEEPSET
  <2> QED
    BY <2>1, <2>2, <2>13, <2>14, <2>15 DEF h
<1> QED
  BY <1>1, <1>2

\* The queue afterwards.
LEMMA WakeFirstQueue ==
  ASSUME NEW d, KernelOK(d), WaitOK(d), NEW q \in Queue, d.wait_queue[q] # <<>>,
         NEW h, h = Head(d.wait_queue[q])
  PROVE  /\ WakeFirst(d, q) = WakeDone(Dequeue(d, q), h)
         /\ WakeFirst(d, q).queue[h] = NoQueue
         /\ \A t \in Thread : t # h => WakeFirst(d, q).queue[t] = d.queue[t]
         /\ WakeFirst(d, q).wait_queue[q] = Tail(d.wait_queue[q])
<1> DEFINE i == Dequeue(d, q)
           j == SetWakeReason(i, h, "DONE")
<1>1. WakeFirst(d, q) = Wake(j, h) /\ WakeFirst(d, q) = WakeDone(i, h)
  BY DEF WakeFirst, WakeDone
<1>2. /\ h \in Thread /\ Sound(d, i)
      /\ i.queue = [d.queue EXCEPT ![h] = NoQueue]
  BY DequeueProps
<1>3. i.wait_queue = [d.wait_queue EXCEPT ![q] = Tail(@)]
  <2> DEFINE w == [d.wait_queue EXCEPT ![q] = Tail(@)]
             f == [d.queue EXCEPT ![h] = NoQueue]
  <2>1. i = [d EXCEPT !.wait_queue = w, !.queue = f]
    BY DEF Dequeue
  <2> HIDE DEF i, w, f
  <2>2. i.wait_queue = w
    BY <2>1 DEF KernelOK, KernelData
  <2> QED
    BY <2>2 DEF w
<1> HIDE DEF i
<1>4. "DONE" \in Reason
  BY DEF Reason
<1>5. Sound(i, j) /\ SameQueues(i, j)
  BY <1>2, <1>4, ReasonSound, ReasonQueues DEF Sound, KernelOK
<1> HIDE DEF j
<1>6. j \in KernelData /\ d.queue \in [Thread -> Queue \cup {NoQueue}]
  BY <1>5 DEF Sound, KernelOK, KernelData
<1>7. j.queue[h] = NoQueue
  BY <1>2, <1>5, <1>6 DEF SameQueues
<1>8. SameQueues(j, Wake(j, h))
  BY <1>2, <1>6, <1>7, WakeOffQueue
<1>9. /\ i.wait_queue[q] = Tail(d.wait_queue[q])
      /\ \A t \in Thread : t # h => i.queue[t] = d.queue[t]
  BY <1>2, <1>3, <1>6 DEF KernelOK, KernelData
<1> QED
  BY <1>1, <1>5, <1>7, <1>8, <1>9 DEF SameQueues, i

\* The first thread is taken off the queue and appended to it again.
LEMMA Requeue ==
  ASSUME NEW d, KernelOK(d), WaitOK(d), NEW q \in Queue, d.wait_queue[q] # <<>>,
         NEW h, h = Head(d.wait_queue[q]),
         NEW e, e = Enqueue(Dequeue(d, q), q, h)
  PROVE  /\ Sound(d, e) /\ Kept(d, e)
         /\ e.queue = d.queue
         /\ e.wait_queue[q] = Append(Tail(d.wait_queue[q]), h)
<1> DEFINE i == Dequeue(d, q)
<1>1. /\ h \in Thread /\ d.queue[h] = q /\ Sound(d, i) /\ QueuedExactly(i)
      /\ i.queue = [d.queue EXCEPT ![h] = NoQueue]
      /\ SameSleep(d, i)
  BY DequeueProps
<1>2. i.wait_queue = [d.wait_queue EXCEPT ![q] = Tail(@)]
  <2> DEFINE w == [d.wait_queue EXCEPT ![q] = Tail(@)]
             f == [d.queue EXCEPT ![h] = NoQueue]
  <2>1. i = [d EXCEPT !.wait_queue = w, !.queue = f]
    BY DEF Dequeue
  <2> HIDE DEF i, w, f
  <2>2. i.wait_queue = w
    BY <2>1 DEF KernelOK, KernelData
  <2> QED
    BY <2>2 DEF w
<1> HIDE DEF i
<1>3. /\ i \in KernelData /\ KernelOK(i) /\ d \in KernelData
      /\ d.queue \in [Thread -> Queue \cup {NoQueue}]
      /\ d.wait_queue \in [Queue -> Seq(Thread)]
  BY <1>1 DEF Sound, KernelOK, KernelData
<1>4. i.queue[h] = NoQueue /\ e = Enqueue(i, q, h)
  BY <1>1, <1>3 DEF i
<1>5. /\ QueuedExactly(e) /\ e.queue = [i.queue EXCEPT ![h] = q]
      /\ SameReasonsAndState(i, e)
  BY <1>1, <1>3, <1>4, EnqueueExact
<1>6. e.queue = d.queue
  BY <1>1, <1>3, <1>5
<1>7. SameReasonsAndState(d, e)
  BY <1>1, <1>5 DEF SameReasonsAndState, SameSleep, SameReasons
<1>8. Kept(d, e)
  BY <1>5, <1>6, <1>7, SameKept
<1>9. Sound(i, e) /\ e.wait_queue[q] = Append(Tail(d.wait_queue[q]), h)
  <2> DEFINE w == [i.wait_queue EXCEPT ![q] = Append(@, h)]
             f == [i.queue EXCEPT ![h] = q]
  <2>1. e = [i EXCEPT !.wait_queue = w, !.queue = f]
    BY <1>4 DEF Enqueue
  <2>2. /\ w \in [Queue -> Seq(Thread)] /\ f \in [Thread -> Queue \cup {NoQueue}]
        /\ w[q] = Append(Tail(d.wait_queue[q]), h)
    <3>1. /\ i.wait_queue \in [Queue -> Seq(Thread)]
          /\ i.queue \in [Thread -> Queue \cup {NoQueue}]
      BY <1>3 DEF KernelData
    <3>2. i.wait_queue[q] = Tail(d.wait_queue[q])
      BY <1>2, <1>3
    <3>3. Append(i.wait_queue[q], h) \in Seq(Thread)
      BY <1>1, <3>1, AppendProperties
    <3> QED
      BY <1>1, <3>1, <3>2, <3>3
  <2> HIDE DEF w, f
  <2>3. e \in KernelData /\ e.wait_queue = w /\ SameScheduling(i, e)
    BY <1>3, <2>1, <2>2 DEF KernelData, SameScheduling
  <2> QED
    BY <1>3, <2>2, <2>3, SameSchedulingOK
<1> QED
  BY <1>1, <1>6, <1>8, <1>9, SoundTrans
------------------------------------------------------------------------------
(***************************************************************************)
(* Where each thread is in its wait.                                       *)
(***************************************************************************)
\* The places a thread can be at in a wait.
InAWait == {"wait", "condtimer", "cond"}

WaitInv ==
  /\ waits \in [Thread -> [queue : Queue \cup {NoQueue}, timed : BOOLEAN]]
  /\ WaitOK(k)
  /\ \A t \in Thread :
       /\ waits[t].queue # NoQueue <=> cont[t] \in InAWait
       /\ Asleep(t) => k.queue[t] = waits[t].queue
       /\ waits[t].queue # NoQueue /\ ~Asleep(t) =>
            /\ k.sleep_reason[t] = "NONE"
            /\ k.wake_reason[t] \in Broken \cup {"DONE"}
  /\ pc \in {"boot", "user"} => ~Sleeps(k, Current)

\* A step takes a thread off a queue only by waking it, puts none on, and
\* leaves the woken ones woken.
NobodyLost(S) ==
  \A q \in Queue : /\ Woken(q) \ S \subseteq Woken(q)'
                   /\ ToSet(k'.wait_queue[q]) \subseteq ToSet(k.wait_queue[q])

\* It hands nothing to a waiter of any other queue than q.
NoneServed(q) == \A r \in Queue \ {q} : Woken(r)' \subseteq Woken(r)

LEMMA ExactWaiters == WaitInv => WaitersExact
<1> SUFFICES ASSUME WaitInv, NEW q \in Queue
             PROVE  /\ ToSet(k.wait_queue[q])
                         = {t \in Thread : waits[t].queue = q /\ Asleep(t)}
                    /\ IsInjective(k.wait_queue[q])
                    /\ \A t \in Thread : k.queue[t] = q <=> t \in ToSet(k.wait_queue[q])
  BY DEF WaitersExact
<1>1. /\ IsInjective(k.wait_queue[q])
      /\ ToSet(k.wait_queue[q]) = {t \in Thread : k.queue[t] = q}
  BY DEF WaitInv, WaitOK, QueuedExactly
<1>2. \A t \in Thread : k.queue[t] = q <=> waits[t].queue = q /\ Asleep(t)
  <2>1. q # NoQueue
    BY ThreadAssumption
  <2> QED
    BY <2>1 DEF WaitInv, WaitOK, WaitOKAt, Asleep
<1> QED
  BY <1>1, <1>2

\* The queues, of two states of which the data is as WaitOK says.
LEMMA QueuesShrink ==
  ASSUME NEW d, NEW e, WaitOK(d), WaitOK(e), NEW q \in Queue,
         \A t \in Thread : e.queue[t] = q => d.queue[t] = q
  PROVE  ToSet(e.wait_queue[q]) \subseteq ToSet(d.wait_queue[q])
  BY DEF WaitOK, QueuedExactly

\* Of a thread that is in a wait, before and after.
LEMMA StillAnswered ==
  ASSUME WaitInv, NEW t \in Thread, NEW q, KeptAt(k, k', t) \/ ServedAt(k, k', t, q),
         WaitOK(k'), waits'[t] = waits[t], cont'[t] \in InAWait <=> cont[t] \in InAWait
  PROVE  /\ waits'[t].queue # NoQueue <=> cont'[t] \in InAWait
         /\ Asleep(t)' => k'.queue[t] = waits'[t].queue
         /\ waits'[t].queue # NoQueue /\ ~Asleep(t)' =>
              /\ k'.sleep_reason[t] = "NONE"
              /\ k'.wake_reason[t] \in Broken \cup {"DONE"}
         /\ k'.queue[t] # NoQueue => k.queue[t] = k'.queue[t]
         /\ \A r \in Queue : t \in Woken(r) => t \in Woken(r)'
         /\ \A r \in Queue \ {q} : t \in Woken(r)' => t \in Woken(r)
<1>1. /\ waits[t].queue # NoQueue <=> cont[t] \in InAWait
      /\ Asleep(t) => k.queue[t] = waits[t].queue
      /\ waits[t].queue # NoQueue /\ ~Asleep(t) =>
           /\ k.sleep_reason[t] = "NONE"
           /\ k.wake_reason[t] \in Broken \cup {"DONE"}
      /\ WaitOKAt(k, t) /\ WaitOKAt(k', t)
      /\ NoQueue \notin Queue
  BY ThreadAssumption DEF WaitInv, WaitOK
<1>2. CASE KeptAt(k, k', t)
  <2>1. Asleep(t)' => Asleep(t) /\ k'.queue[t] = k.queue[t]
    BY <1>2 DEF KeptAt, StillWaits, Asleep
  <2>2. k'.queue[t] # NoQueue => Asleep(t)'
    BY <1>1 DEF WaitOKAt, Asleep
  <2>3. ASSUME waits[t].queue # NoQueue, ~Asleep(t)'
        PROVE  /\ k'.sleep_reason[t] = "NONE"
               /\ k'.wake_reason[t] \in Broken \cup {"DONE"}
               /\ k'.wake_reason[t] = "DONE" => ~Asleep(t) /\ k.wake_reason[t] = "DONE"
    <3>1. CASE Asleep(t)
      <4>1. k.queue[t] # NoQueue /\ k'.queue[t] = NoQueue
        BY <1>1, <2>2, <2>3, <3>1
      <4> QED
        BY <1>2, <4>1 DEF KeptAt, Broken
    <3>2. CASE ~Asleep(t)
      BY <1>1, <1>2, <2>3, <3>2 DEF KeptAt
    <3> QED
      BY <3>1, <3>2
  <2>4. ASSUME NEW r \in Queue, t \in Woken(r) PROVE t \in Woken(r)'
    <3>1. waits[t].queue = r /\ ~Asleep(t) /\ k.wake_reason[t] = "DONE"
      BY <2>4 DEF Woken
    <3>2. k.sleep_reason[t] = "NONE"
      BY <1>1, <3>1
    <3>3. k'.wake_reason[t] = "DONE" /\ ~Asleep(t)'
      BY <1>2, <2>1, <3>1, <3>2 DEF KeptAt
    <3> QED
      BY <3>1, <3>3 DEF Woken
  <2>5. ASSUME NEW r \in Queue, t \in Woken(r)' PROVE t \in Woken(r)
    <3>1. waits[t].queue = r /\ ~Asleep(t)' /\ k'.wake_reason[t] = "DONE"
      BY <2>5 DEF Woken
    <3> QED
      BY <1>1, <2>3, <3>1 DEF Woken
  <2> QED
    BY <1>1, <2>1, <2>2, <2>3, <2>4, <2>5
<1>3. CASE ServedAt(k, k', t, q)
  <2>1. /\ k.queue[t] = q /\ q # NoQueue /\ k'.queue[t] = NoQueue
        /\ ~Asleep(t)' /\ k'.sleep_reason[t] = "NONE" /\ k'.wake_reason[t] = "DONE"
    BY <1>3 DEF ServedAt, Sleeps, SLEEPSET, Asleep
  <2>2. Asleep(t) /\ waits[t].queue = q
    BY <1>1, <2>1 DEF WaitOKAt, Asleep
  <2>3. \A r \in Queue : /\ t \notin Woken(r)
                         /\ t \in Woken(r)' => r = q
    BY <2>2 DEF Woken
  <2> QED
    BY <1>1, <2>1, <2>2, <2>3
<1> QED
  BY <1>2, <1>3

LEMMA KeptServes ==
  ASSUME NEW d, NEW e, NEW q
  PROVE  /\ Kept(d, e) => Serves(d, e, q)
         /\ KeptOthers(d, e) => ServesOthers(d, e, q)
  BY DEF Kept, Serves, KeptOthers, ServesOthers

LEMMA KeptWaits ==
  ASSUME WaitInv, NEW q, Serves(k, k', q), waits' = waits,
         \A t \in Thread : cont'[t] \in InAWait <=> cont[t] \in InAWait,
         pc' \in {"boot", "user"} => ~Sleeps(k', Current')
  PROVE  WaitInv' /\ NobodyLost({}) /\ NoneServed(q)
<1>1. \A t \in Thread :
        /\ waits'[t].queue # NoQueue <=> cont'[t] \in InAWait
        /\ Asleep(t)' => k'.queue[t] = waits'[t].queue
        /\ waits'[t].queue # NoQueue /\ ~Asleep(t)' =>
              /\ k'.sleep_reason[t] = "NONE"
              /\ k'.wake_reason[t] \in Broken \cup {"DONE"}
        /\ k'.queue[t] # NoQueue => k.queue[t] = k'.queue[t]
        /\ \A r \in Queue : t \in Woken(r) => t \in Woken(r)'
        /\ \A r \in Queue \ {q} : t \in Woken(r)' => t \in Woken(r)
  BY StillAnswered DEF Serves
<1>2. WaitInv'
  <2>1. /\ waits' \in [Thread -> [queue : Queue \cup {NoQueue}, timed : BOOLEAN]]
        /\ WaitOK(k)'
    BY DEF WaitInv, Serves, WaitOK, WaitOKAt, QueuedExactly, Sleeps, Interruptible
  <2>2. (pc \in {"boot", "user"} => ~Sleeps(k, Current))'
    BY DEF Sleeps
  <2> QED
    BY <1>1, <2>1, <2>2 DEF WaitInv
<1>3. ASSUME NEW r \in Queue
      PROVE  /\ Woken(r) \subseteq Woken(r)'
             /\ ToSet(k'.wait_queue[r]) \subseteq ToSet(k.wait_queue[r])
  <2>1. \A t \in Thread : k'.queue[t] = r => k.queue[t] = r
    BY <1>1, ThreadAssumption
  <2>2. ToSet(k'.wait_queue[r]) \subseteq ToSet(k.wait_queue[r])
    BY <2>1, QueuesShrink DEF WaitInv, Serves
  <2> QED
    BY <1>1, <2>2 DEF Woken
<1>4. NoneServed(q)
  <2>1. \A r \in Queue : Woken(r)' \subseteq Thread
    BY DEF Woken
  <2> QED
    BY <1>1, <2>1 DEF NoneServed
<1> QED
  BY <1>2, <1>3, <1>4 DEF NobodyLost

\* A call of a thread that is in no wait, and will not be.
LEMMA OwnCallWaits ==
  ASSUME WaitInv, Current \in Thread, Current' = Current,
         WaitOK(k'), k'.queue[Current] = NoQueue,
         \A t \in Thread \ {Current} : KeptAt(k, k', t),
         waits' = waits, cont[Current] \notin InAWait,
         \A t \in Thread : cont'[t] \in InAWait <=> cont[t] \in InAWait,
         pc' \in {"boot", "user"} => ~Sleeps(k', Current)
  PROVE  WaitInv' /\ NobodyLost({}) /\ NoneServed(NoQueue)
<1>0. waits[Current].queue = NoQueue /\ NoQueue \notin Queue
  BY ThreadAssumption DEF WaitInv
<1>1. \A t \in Thread :
        /\ waits'[t].queue # NoQueue <=> cont'[t] \in InAWait
        /\ Asleep(t)' => k'.queue[t] = waits'[t].queue
        /\ waits'[t].queue # NoQueue /\ ~Asleep(t)' =>
              /\ k'.sleep_reason[t] = "NONE"
              /\ k'.wake_reason[t] \in Broken \cup {"DONE"}
        /\ k'.queue[t] # NoQueue => k.queue[t] = k'.queue[t]
        /\ \A r \in Queue : t \in Woken(r) <=> t \in Woken(r)'
  <2>1. ASSUME NEW t \in Thread, t # Current
        PROVE  /\ waits'[t].queue # NoQueue <=> cont'[t] \in InAWait
               /\ Asleep(t)' => k'.queue[t] = waits'[t].queue
               /\ waits'[t].queue # NoQueue /\ ~Asleep(t)' =>
                    /\ k'.sleep_reason[t] = "NONE"
                    /\ k'.wake_reason[t] \in Broken \cup {"DONE"}
               /\ k'.queue[t] # NoQueue => k.queue[t] = k'.queue[t]
               /\ \A r \in Queue : t \in Woken(r) => t \in Woken(r)'
               /\ \A r \in Queue \ {NoQueue} : t \in Woken(r)' => t \in Woken(r)
    BY <2>1, StillAnswered
  <2>2. /\ waits'[Current].queue = NoQueue /\ cont'[Current] \notin InAWait
        /\ \A r \in Queue : Current \notin Woken(r) /\ Current \notin Woken(r)'
    BY <1>0 DEF Woken
  <2>3. Queue \ {NoQueue} = Queue
    BY <1>0
  <2> HIDE DEF Current
  <2> QED
    BY <2>1, <2>2, <2>3
<1>2. WaitInv'
  <2>1. /\ waits' \in [Thread -> [queue : Queue \cup {NoQueue}, timed : BOOLEAN]]
        /\ WaitOK(k)'
    BY DEF WaitInv, WaitOK, WaitOKAt, QueuedExactly, Sleeps, Interruptible
  <2>2. (pc \in {"boot", "user"} => ~Sleeps(k, Current))'
    BY DEF Sleeps
  <2> QED
    BY <1>1, <2>1, <2>2 DEF WaitInv
<1>3. ASSUME NEW r \in Queue
      PROVE  /\ Woken(r) \subseteq Woken(r)'
             /\ Woken(r)' \subseteq Woken(r)
             /\ ToSet(k'.wait_queue[r]) \subseteq ToSet(k.wait_queue[r])
  <2>1. \A t \in Thread : k'.queue[t] = r => k.queue[t] = r
    BY <1>0, <1>1
  <2>2. ToSet(k'.wait_queue[r]) \subseteq ToSet(k.wait_queue[r])
    BY <2>1, QueuesShrink DEF WaitInv
  <2>3. Woken(r) \subseteq Thread /\ Woken(r)' \subseteq Thread
    BY DEF Woken
  <2> QED
    BY <1>1, <2>2, <2>3
<1> QED
  BY <1>2, <1>3 DEF NobodyLost, NoneServed

------------------------------------------------------------------------------
(***************************************************************************)
(* The scheduler's own steps.                                              *)
(***************************************************************************)
\* Past the switch the thread that runs does not sleep.
LEMMA SettledAwake ==
  ASSUME IInv, pc \in {"zero", "recheck"}
  PROVE  ~Sleeps(k, Current)
  BY DEF IInv, Settled, Running, RUNNING, Sleeps

\* What the CPU does between the calls, and the calls that do not block.
LEMMA PlainWaits ==
  ASSUME IInv, WaitInv, NEW q, Serves(k, k', q), waits' = waits, cont' = cont,
         \/ pc' \notin {"boot", "user"}
         \/ pc \in {"boot", "user", "zero", "recheck"} /\ Current' = Current
  PROVE  WaitInv' /\ NobodyLost({}) /\ NoneServed(q)
<1>1. Current \in Thread
  BY DEF IInv, KernelInv, KernelOK, KernelData, Current
<1>2. pc' \in {"boot", "user"} => ~Sleeps(k', Current')
  BY <1>1, SettledAwake DEF WaitInv, Serves, ServedAt, KeptAt, StillWaits
<1> QED
  BY <1>2, KeptWaits

LEMMA WaitStep ==
  ASSUME IInv, WaitInv, [Next]_vars, waits' = waits
  PROVE  WaitInv' /\ NobodyLost({}) /\ NoneServed(NoQueue)
<1> DEFINE Goal == WaitInv' /\ NobodyLost({}) /\ NoneServed(NoQueue)
<1> USE DEF cpu, ctx, vars
<1>0. /\ KernelInv /\ KernelOK(k) /\ k \in KernelData
      /\ Current \in Thread /\ cont \in [Thread -> Cont]
      /\ WaitOK(k)
      /\ Current = k.current_thread
  BY DEF IInv, KernelInv, TypeOK, KernelOK, KernelData, Current, WaitInv
<1>a. \/ Current' = Current
      \/ StartScheduler \/ SwitchBack \/ SwitchToFresh
  BY <1>0, DataStep
<1>b. k' = k => Kept(k, k') /\ Current' = Current
  BY <1>0, KeptRefl DEF Current
<1> HIDE DEF Goal
<1> SUFFICES Goal
  BY DEF Goal
<1>c. ASSUME Kept(k, k'), cont' = cont,
             \/ pc' \notin {"boot", "user"}
             \/ pc \in {"boot", "user", "zero", "recheck"} /\ Current' = Current
      PROVE  Goal
  BY <1>c, KeptServes, PlainWaits DEF Goal
<1>1. CASE UNCHANGED vars \/ CallPendingDSRs \/ NoDSRs \/ TakeDSR \/ DSRsDone
           \/ ZeroLock \/ RestoreLock \/ GoRound \/ Return
  <2>1. /\ UNCHANGED <<k, cont>>
        /\ \/ UNCHANGED pc
           \/ pc' \notin {"boot", "user"}
           \/ pc \in {"zero", "recheck"}
    BY <1>1 DEF CallPendingDSRs, NoDSRs, TakeDSR, DSRsDone, ZeroLock,
       RestoreLock, GoRound, Return, UnlockInner
  <2> QED
    BY <1>b, <1>c, <2>1
<1>2. ASSUME NEW i \in Intr, Interrupt(i) PROVE Goal
  <2>1. UNCHANGED <<k, cont>> /\ (UNCHANGED pc \/ pc' = "unlock")
    BY <1>2 DEF Interrupt, UnlockInner
  <2> QED
    BY <1>b, <1>c, <2>1
<1>3. CASE Stay
  <2>1. k' = [k EXCEPT !.need_reschedule = FALSE] \/ k' = k
    BY <1>3 DEF Stay
  <2>2. SameSleep(k, k') /\ SameQueues(k, k')
    BY <1>0, <2>1 DEF KernelData, SameSleep, SameReasons, SameQueues
  <2>3. Kept(k, k')
    BY <1>0, <2>2, PlainKept
  <2> QED
    BY <1>3, <1>c, <2>3 DEF Stay
<1>4. CASE StartScheduler \/ SwitchBack \/ SwitchToFresh
  <2>1. Schedule(k) \in Thread
    BY <1>0, ScheduleIsBest
  <2>2. CASE StartScheduler
    <3>1. k.timeslice \in [Thread -> 0 .. TicksWrap]
      BY <1>0 DEF KernelData
    <3>2. [k EXCEPT !.timeslice = k.timeslice] = k
      BY <1>0 DEF KernelData
    <3>3. Kept(k, Enter(k, Schedule(k)))
      BY <1>0, <2>1, <3>1, <3>2, SwitchKept
    <3> QED
      BY <1>c, <2>2, <3>3 DEF StartScheduler
  <2>3. CASE SwitchBack \/ SwitchToFresh
    <3> DEFINE ts == [k.timeslice EXCEPT ![k.current_thread] = k.timeslice_count]
    <3>1. ts \in [Thread -> 0 .. TicksWrap]
      BY <1>0, SaveType
    <3>2. TimesliceSave = [k EXCEPT !.timeslice = ts]
      BY DEF TimesliceSave, Current
    <3> HIDE DEF ts
    <3>3. /\ Kept(k, Enter(TimesliceSave, Schedule(k)))
          /\ Kept(k, Continue(TimesliceSave, Schedule(k)))
      BY <1>0, <2>1, <3>1, <3>2, SwitchKept
    <3>4. /\ k' \in {Enter(TimesliceSave, Schedule(k)),
                     Continue(TimesliceSave, Schedule(k))}
          /\ pc' \in {"zero", "unlock"} /\ cont' = cont
      BY <2>3 DEF SwitchBack, SwitchToFresh, UnlockInner
    <3> QED
      BY <1>c, <3>3, <3>4
  <2> QED
    BY <1>4, <2>2, <2>3
<1>5. CASE (\E t \in Target : BootResume(t)) \/ (\E t \in Thread : ClockAlarm(t))
           \/ ClockTimeslice \/ (\E t \in Target : DeviceDSR(t))
  <2>1. cont' = cont /\ pc' = pc /\ pc \in {"boot", "dsr"}
    BY <1>5 DEF BootResume, ClockAlarm, ClockTimeslice, DeviceDSR
  <2>2. Current' = Current
    BY <1>a, <2>1 DEF StartScheduler, SwitchBack, SwitchToFresh, UnlockInner
  <2>3. Kept(k, k')
    <3>1. ASSUME NEW t \in Target, BootResume(t) PROVE Kept(k, k')
      BY <1>0, <3>1, ResumeKept DEF BootResume
    <3>2. ASSUME NEW t \in Thread, ClockAlarm(t) PROVE Kept(k, k')
      BY <1>0, <3>2, AlarmKept DEF ClockAlarm
    <3>3. CASE ClockTimeslice
      BY <1>0, <3>3, TimesliceKept DEF ClockTimeslice
    <3>4. ASSUME NEW t \in Target, DeviceDSR(t) PROVE Kept(k, k')
      <4>1. t \in Thread
        BY DEF Target
      <4>2. k' \in {k, Resume(k, t), Release(k, t), CountedWake(k, t), Suspend(k, t)}
        BY <3>4 DEF DeviceDSR, DeviceEffect
      <4>3. Kept(k, k)
        BY <1>0, KeptRefl
      <4> QED
        BY <1>0, <4>1, <4>2, <4>3, ResumeKept, ReleaseKept, CountedWakeKept,
           SuspendKept
    <3> QED
      BY <1>5, <3>1, <3>2, <3>3, <3>4
  <2> QED
    BY <1>c, <2>1, <2>2, <2>3
\* From here on the step is a thread's, and no switch.
<1>6. ASSUME pc = "user" PROVE Current' = Current /\ ~Sleeps(k, Current)
  BY <1>a, <1>6 DEF StartScheduler, SwitchBack, SwitchToFresh, WaitInv
<1>7. CASE SchedLock \/ SchedUnlock
  <2>1. pc = "user" /\ UNCHANGED <<k, cont>>
    BY <1>7 DEF SchedLock, SchedUnlock, LockedUpdate, Calling
  <2> QED
    BY <1>b, <1>c, <2>1
<1>8. CASE YieldThread \/ \E p \in Priority : RotateRunQueue(p)
  <2>1. pc = "user" /\ cont' = cont
    BY <1>8 DEF YieldThread, RotateRunQueue, Update, Calling
  <2>2. k' = Yield(k) \/ \E p \in Priority : k' = RotateQueue(k, p)
    BY <1>8 DEF YieldThread, RotateRunQueue, Update, LockedUpdate
  <2>3. Kept(k, k')
    BY <1>0, <2>2, TimesliceKept, RotateQueueKept
  <2> QED
    BY <1>6, <1>c, <2>1, <2>3
<1>9. ASSUME NEW t \in Target,
             \/ SuspendThread(t) \/ ResumeThread(t) \/ ReleaseThread(t)
             \/ KillThread(t) \/ ThreadToQueueHead(t)
             \/ CountedWakeThread(t) \/ CancelWakeups(t)
             \/ \E p \in Priority : SetThreadPriority(t, p)
      PROVE  Goal
  <2>1. t \in Thread
    BY DEF Target
  <2>2. pc = "user" /\ cont' = cont
    BY <1>9 DEF SuspendThread, ResumeThread, ReleaseThread, KillThread,
       ThreadToQueueHead, CountedWakeThread, CancelWakeups, SetThreadPriority,
       Update, Calling
  <2>3. \/ k' \in {Suspend(k, t), Resume(k, t), Release(k, t), Kill(k, t),
                   ToQueueHead(k, t), CountedWake(k, t), CancelCountedWake(k, t)}
        \/ \E p \in Priority : k' = SetPriority(k, t, p)
    BY <1>9 DEF SuspendThread, ResumeThread, ReleaseThread, KillThread,
       ThreadToQueueHead, CountedWakeThread, CancelWakeups, SetThreadPriority,
       Update, LockedUpdate
  <2>4. /\ Kept(k, Suspend(k, t)) /\ Kept(k, Resume(k, t))
        /\ Kept(k, Release(k, t)) /\ Kept(k, Kill(k, t))
        /\ Kept(k, CountedWake(k, t)) /\ Kept(k, CancelCountedWake(k, t))
    BY <1>0, <2>1, SuspendKept, ResumeKept, ReleaseKept, KillKept, CountedWakeKept
  <2>5. /\ Kept(k, ToQueueHead(k, t))
        /\ \A p \in Priority : Kept(k, SetPriority(k, t, p))
    BY <1>0, <2>1, ToQueueHeadKept, SetPriorityKept
  <2> QED
    BY <1>6, <1>c, <2>2, <2>3, <2>4, <2>5
\* A call that goes on after its unlock, or blocks, and is no wait.
<1>10. ASSUME NEW n, n \notin InAWait, pc = "user", cont[Current] \notin InAWait,
              cont' = [cont EXCEPT ![Current] = n], Blocked(k, k', NoQueue),
              pc' = "user" => ~Sleeps(k', Current), pc' \in {"user", "unlock"}
       PROVE  Goal
  <2>1. \A t \in Thread : cont'[t] = IF t = Current THEN n ELSE cont[t]
    BY <1>0, <1>10
  <2>2. \A t \in Thread : cont'[t] \in InAWait <=> cont[t] \in InAWait
    BY <1>10, <2>1
  <2>3. /\ WaitOK(k') /\ k'.queue[Current] = NoQueue
        /\ \A t \in Thread \ {Current} : KeptAt(k, k', t)
    BY <1>0, <1>10 DEF Blocked
  <2>4. Current' = Current
    BY <1>6, <1>10
  <2>5. pc' \in {"boot", "user"} => ~Sleeps(k', Current)
    BY <1>10
  <2> HIDE DEF Current
  <2> QED
    BY <1>0, <1>10, <2>2, <2>3, <2>4, <2>5, OwnCallWaits DEF Goal
<1>11. ASSUME NEW n, n \notin InAWait, pc = "user", cont[Current] \notin InAWait,
              cont' = [cont EXCEPT ![Current] = n], KeptOthers(k, k'),
              pc' \in {"user", "unlock"}
       PROVE  Goal
  <2>1. ~Sleeps(k, Current) /\ ~Sleeps(k', Current)
    BY <1>0, <1>6, <1>11 DEF KeptOthers, StillWaits
  <2>2. Blocked(k, k', NoQueue)
    BY <1>0, <1>11, <2>1, KeptBlocked
  <2> QED
    BY <1>10, <1>11, <2>1, <2>2
<1>12. Kept(k, k') => KeptOthers(k, k')
  BY <1>0 DEF Kept, KeptOthers, KeptAt
<1>13. CASE CheckNotKilled
  <2>1. /\ k' = k /\ pc' = pc /\ pc = "user" /\ cont[Current] = "check"
        /\ cont' = [cont EXCEPT ![Current] = "user"]
    BY <1>13 DEF CheckNotKilled
  <2>2. "check" \notin InAWait /\ "user" \notin InAWait
    BY DEF InAWait
  <2> QED
    BY <1>b, <1>11, <1>12, <2>1, <2>2
<1>14. CASE DelayClear \/ TimedCountedSleepClear
  <2>1. /\ pc = "user" /\ k' = ClearTimer(k, Current) /\ cont[Current] \notin InAWait
        /\ cont' = [cont EXCEPT ![Current] = "check"]
        /\ pc' \in {"user", "unlock"}
    BY <1>14 DEF DelayClear, TimedCountedSleepClear, UpdateThen, LockedUpdate,
       UnlockInner, InAWait
  <2>2. Kept(k, k') /\ "check" \notin InAWait
    BY <1>0, <2>1, ClearTimerKept DEF InAWait
  <2> QED
    BY <1>11, <1>12, <2>1, <2>2
<1>15. CASE CheckKilled \/ ExitThread
  <2>1. /\ pc = "user" /\ k' = Exit(k) /\ Current \in Target
        /\ cont' = [cont EXCEPT ![Current] = "dead"] /\ cont[Current] \notin InAWait
        /\ pc' \in {"user", "unlock"}
    BY <1>0, <1>15, CallerIsTarget DEF CheckKilled, ExitThread, RescheduleThen,
       Calling, UnlockInner, InAWait
  <2>2. Kept(k, k') /\ "dead" \notin InAWait
    BY <1>0, <1>6, <2>1, ExitKept DEF InAWait
  <2> QED
    BY <1>11, <1>12, <2>1, <2>2
<1>16. CASE DelayThread \/ DelayThreadPast \/ CountedSleepThread
  <2>1. /\ pc = "user" /\ Current \in Target /\ cont[Current] \notin InAWait
        /\ k' \in {Delay(k), DelayPast(k), CountedSleep(k)}
        /\ \E n \in {"delay", "check"} : cont' = [cont EXCEPT ![Current] = n]
        /\ pc' = "unlock"
    BY <1>0, <1>16, CallerIsTarget DEF DelayThread, DelayThreadPast,
       CountedSleepThread, UpdateThen, LockedUpdate, UnlockInner, Calling, InAWait
  <2>2. Blocked(k, k', NoQueue) /\ {"delay", "check"} \cap InAWait = {}
    BY <1>0, <1>6, <2>1, DelayBlocked, CountedSleepBlocked DEF InAWait
  <2> QED
    BY <1>10, <2>1, <2>2
<1>17. CASE TimedCountedSleepThread
  <2>1. pc = "user" /\ Current \in Target /\ cont[Current] \notin InAWait
    BY <1>0, <1>17, CallerIsTarget DEF TimedCountedSleepThread, Calling, InAWait
  <2>2. CASE k.wakeup_count[Current] # 0
    <3>1. /\ k' = TakeWakeup(k) /\ cont' = [cont EXCEPT ![Current] = "check"]
          /\ pc' \in {"user", "unlock"}
      BY <1>17, <2>1, <2>2 DEF TimedCountedSleepThread, UpdateThen, LockedUpdate,
         UnlockInner
    <3>2. Kept(k, k') /\ "check" \notin InAWait
      BY <1>0, <2>2, <3>1, TakeWakeupKept DEF InAWait
    <3> QED
      BY <1>11, <1>12, <2>1, <3>1, <3>2
  <2>3. CASE RescheduleThen(TimedCountedSleep(k), "csleep")
    <3>1. /\ k' = TimedCountedSleep(k) /\ pc' = "unlock"
          /\ cont' = [cont EXCEPT ![Current] = "csleep"]
      BY <2>3 DEF RescheduleThen, UnlockInner
    <3>2. Blocked(k, k', NoQueue) /\ "csleep" \notin InAWait
      BY <1>0, <1>6, <2>1, <3>1, CountedSleepBlocked DEF InAWait
    <3> QED
      BY <1>10, <2>1, <3>1, <3>2
  <2>4. CASE UpdateThen(TimedCountedSleepPast(k), "check")
    <3>1. /\ k' = TimedCountedSleepPast(k) /\ pc' \in {"user", "unlock"}
          /\ cont' = [cont EXCEPT ![Current] = "check"]
      BY <2>1, <2>4 DEF UpdateThen, LockedUpdate, UnlockInner
    <3>2. KeptOthers(k, k') /\ "check" \notin InAWait
      BY <1>0, <3>1, SetTimerKept DEF TimedCountedSleepPast, InAWait
    <3> QED
      BY <1>11, <2>1, <3>1, <3>2
  <2> QED
    BY <1>17, <2>2, <2>3, <2>4 DEF TimedCountedSleepThread
<1> QED
  BY <1>1, <1>2, <1>3, <1>4, <1>5, <1>7, <1>8, <1>9, <1>13, <1>14, <1>15, <1>16,
     <1>17 DEF Next, KernelStep, ApiCall
------------------------------------------------------------------------------
(***************************************************************************)
(* The steps of a synchronization object.                                  *)
(***************************************************************************)
\* The scheduler's invariant, over a step of a call or of a DSR.
LEMMA CallIInv ==
  ASSUME IInv, pc = "user", Current \in Target, Sound(k, k'), CallStep,
         UNCHANGED dsrs, held' \in [Thread -> Nat], cont' \in [Thread -> Cont],
         sched_lock' \in Nat, new_lock' \in Nat,
         pc' = "user" => sched_lock' # 0
  PROVE  IInv'
<1>1. KernelInv /\ LockOK /\ KernelOK(k') /\ Current' = Current
  BY DEF IInv, Sound, Current
<1>2. LockOK'
  BY <1>1, CallLock
<1>3. pc' \in {"user", "unlock"} /\ saved' = saved /\ fresh' = fresh
  BY DEF CallStep
<1>4. TypeOK'
  BY <1>1, <1>3 DEF KernelInv, KernelOK, TypeOK, dsrs
<1>5. cont'[Idle] = "user"
  BY <1>1, ThreadAssumption DEF CallStep, KernelInv, Target
<1>6. Settled'
  BY <1>3 DEF Settled
<1> QED
  BY <1>1, <1>2, <1>4, <1>5, <1>6 DEF IInv, KernelInv

LEMMA DeviceIInv ==
  ASSUME IInv, pc = "dsr", NEW j, Sound(k, j), DeviceUpdate(j)
  PROVE  IInv'
<1> USE DEF cpu, ctx
<1>1. /\ KernelInv /\ LockOK /\ KernelOK(k') /\ Current' = Current /\ k' = j
      /\ UNCHANGED <<cpu, ctx, dsr_list, dsr_batch, dsr_count>>
      /\ dsr_active' = NoIntr
  BY DEF IInv, Sound, Current, DeviceUpdate
<1>2. TypeOK'
  BY <1>1 DEF KernelInv, KernelOK, TypeOK
<1>3. LockOK'
  <2> HIDE DEF Current
  <2> QED
    BY <1>1 DEF LockOK, LockDepth
<1>4. Settled'
  BY <1>1 DEF Settled
<1> QED
  BY <1>1, <1>2, <1>3, <1>4 DEF IInv, KernelInv

\* The forms the calls have.
LEMMA UpdateIInv ==
  ASSUME IInv, pc = "user", Current \in Target, NEW j, Sound(k, j),
         \/ Update(j) /\ cont[Current] = "user"
         \/ \E n \in Cont \ Claiming : UpdateThen(j, n)
         \/ \E n \in Claiming : RescheduleThen(j, n)
  PROVE  IInv'
<1>1. /\ KernelInv /\ LockOK /\ Current \in Thread
      /\ held \in [Thread -> Nat] /\ cont \in [Thread -> Cont]
      /\ sched_lock \in Nat /\ new_lock \in Nat
  BY DEF IInv, KernelInv, TypeOK, Target
<1>2. CallStep
  BY <1>1, CallShape
<1>3. held[Current] \in Nat /\ Claiming \subseteq Cont
  BY <1>1 DEF Cont, Claiming
<1> USE DEF Update, UpdateThen, RescheduleThen, LockedUpdate, UnlockInner, ctx
<1> HIDE DEF Current
<1>4. /\ k' = j /\ UNCHANGED dsrs /\ held' = held
      /\ cont' \in [Thread -> Cont]
      /\ sched_lock' \in Nat /\ new_lock' \in Nat
      /\ pc' = "user" => sched_lock' # 0
  <2>1. CASE Update(j)
    BY <1>1, <1>3, <2>1
  <2>2. ASSUME NEW n \in Cont \ Claiming, UpdateThen(j, n)
        PROVE  /\ k' = j /\ UNCHANGED dsrs /\ held' = held
               /\ cont' \in [Thread -> Cont]
               /\ sched_lock' \in Nat /\ new_lock' \in Nat
               /\ pc' = "user" => sched_lock' # 0
    BY <1>1, <1>3, <2>2
  <2>3. ASSUME NEW n \in Claiming, RescheduleThen(j, n)
        PROVE  /\ k' = j /\ UNCHANGED dsrs /\ held' = held
               /\ cont' \in [Thread -> Cont]
               /\ sched_lock' \in Nat /\ new_lock' \in Nat
               /\ pc' = "user" => sched_lock' # 0
    BY <1>1, <1>3, <2>3
  <2> QED
    BY <2>1, <2>2, <2>3
<1> QED
  BY <1>1, <1>2, <1>4, CallIInv

LEMMA ExitIInv ==
  ASSUME IInv, Current \in Target, WokenToExit
  PROVE  IInv'
<1>1. /\ KernelInv /\ LockOK /\ Current \in Thread
      /\ held \in [Thread -> Nat] /\ cont \in [Thread -> Cont]
      /\ sched_lock \in Nat /\ new_lock \in Nat
  BY DEF IInv, KernelInv, TypeOK, Target
<1>2. /\ pc = "user" /\ k' = Exit(k)
      /\ pc' = "unlock" /\ sched_lock' = held[Current] + 2
      /\ new_lock' = held[Current] + 2
      /\ held' = [held EXCEPT ![Current] = @ + 1]
      /\ cont' = [cont EXCEPT ![Current] = "dead"]
      /\ UNCHANGED <<saved, fresh, dsrs>>
  BY DEF WokenToExit, InWait, UnlockInner
<1>3. Sound(k, k')
  BY <1>1, <1>2, ExitSound DEF KernelInv, Current
<1> HIDE DEF Current
<1>4. held[Current] \in Nat /\ "dead" \in Cont
  BY <1>1 DEF Cont
<1>5. /\ held' \in [Thread -> Nat] /\ cont' \in [Thread -> Cont]
      /\ sched_lock' \in Nat /\ new_lock' \in Nat
      /\ held'[Current] = held[Current] + 1 /\ cont'[Current] = "dead"
      /\ \A t \in Thread : t # Current => held'[t] = held[t] /\ cont'[t] = cont[t]
  BY <1>1, <1>2, <1>4
<1>6. CallStep
  BY <1>2, <1>4, <1>5 DEF CallStep, Claiming
<1> QED
  BY <1>2, <1>3, <1>5, <1>6, CallIInv

\* The running thread begins or ends a wait; it is on the queue of the wait
\* it is in when it sleeps.
LEMMA MoveWaits ==
  ASSUME WaitInv, Current \in Thread, Current' = Current, cont \in [Thread -> Cont],
         WaitOK(k'), NEW s,
         \A t \in Thread \ {Current} : KeptAt(k, k', t) \/ ServedAt(k, k', t, s),
         NEW q \in Queue \cup {NoQueue}, NEW timed \in BOOLEAN, NEW n \in Cont,
         waits' = [waits EXCEPT ![Current] = Wait(q, timed)],
         cont' = [cont EXCEPT ![Current] = n],
         n \in InAWait <=> q # NoQueue,
         "SLEEPING" \in k'.state[Current] => k'.queue[Current] = q,
         "SLEEPING" \notin k'.state[Current] /\ q # NoQueue =>
           /\ k'.sleep_reason[Current] = "NONE"
           /\ k'.wake_reason[Current] \in Broken,
         pc' \in {"boot", "user"} => ~Sleeps(k', Current)
  PROVE  /\ WaitInv'
         /\ \A r \in Queue : /\ Woken(r) \ {Current} \subseteq Woken(r)'
                             /\ r # q => ToSet(k'.wait_queue[r])
                                           \subseteq ToSet(k.wait_queue[r])
                             /\ ToSet(k'.wait_queue[r]) \ {Current}
                                  \subseteq ToSet(k.wait_queue[r])
         /\ NoneServed(s)
<1> DEFINE w == Wait(q, timed)
<1>1. w \in [queue : Queue \cup {NoQueue}, timed : BOOLEAN] /\ w.queue = q
  BY DEF Wait
<1> HIDE DEF w
<1>2. /\ waits \in [Thread -> [queue : Queue \cup {NoQueue}, timed : BOOLEAN]]
      /\ NoQueue \notin Queue
  BY ThreadAssumption DEF WaitInv
<1>3. /\ waits' \in [Thread -> [queue : Queue \cup {NoQueue}, timed : BOOLEAN]]
      /\ waits'[Current] = w
      /\ \A t \in Thread \ {Current} : waits'[t] = waits[t]
  BY <1>1, <1>2 DEF w
<1>4. cont'[Current] = n /\ \A t \in Thread \ {Current} : cont'[t] = cont[t]
  OBVIOUS
<1>5. ASSUME NEW t \in Thread, t # Current
      PROVE  /\ waits'[t].queue # NoQueue <=> cont'[t] \in InAWait
             /\ Asleep(t)' => k'.queue[t] = waits'[t].queue
             /\ waits'[t].queue # NoQueue /\ ~Asleep(t)' =>
                  /\ k'.sleep_reason[t] = "NONE"
                  /\ k'.wake_reason[t] \in Broken \cup {"DONE"}
             /\ k'.queue[t] # NoQueue => k.queue[t] = k'.queue[t]
             /\ \A r \in Queue : t \in Woken(r) => t \in Woken(r)'
             /\ \A r \in Queue \ {s} : t \in Woken(r)' => t \in Woken(r)
  <2>1. KeptAt(k, k', t) \/ ServedAt(k, k', t, s)
    BY <1>5
  <2>2. waits'[t] = waits[t] /\ (cont'[t] \in InAWait <=> cont[t] \in InAWait)
    BY <1>3, <1>4, <1>5
  <2> QED
    BY <2>1, <2>2, StillAnswered
<1>6. /\ waits'[Current].queue = q
      /\ waits'[Current].queue # NoQueue <=> cont'[Current] \in InAWait
      /\ Asleep(Current)' => k'.queue[Current] = q
      /\ q # NoQueue /\ ~Asleep(Current)' =>
           /\ k'.sleep_reason[Current] = "NONE"
           /\ k'.wake_reason[Current] \in Broken
  BY <1>1, <1>3, <1>4 DEF Asleep
<1>7. WaitInv'
  <2>1. WaitOK(k)'
    BY DEF WaitOK, WaitOKAt, QueuedExactly, Sleeps, Interruptible
  <2>2. (pc \in {"boot", "user"} => ~Sleeps(k, Current))'
    BY DEF Sleeps
  <2>3. \A t \in Thread :
          /\ waits'[t].queue # NoQueue <=> cont'[t] \in InAWait
          /\ Asleep(t)' => k'.queue[t] = waits'[t].queue
          /\ waits'[t].queue # NoQueue /\ ~Asleep(t)' =>
               /\ k'.sleep_reason[t] = "NONE"
               /\ k'.wake_reason[t] \in Broken \cup {"DONE"}
    <3> HIDE DEF Current
    <3> QED
      BY <1>5, <1>6
  <2> QED
    BY <1>3, <2>1, <2>2, <2>3 DEF WaitInv
<1>8. ASSUME NEW r \in Queue
      PROVE  /\ Woken(r) \ {Current} \subseteq Woken(r)'
             /\ r # q => ToSet(k'.wait_queue[r]) \subseteq ToSet(k.wait_queue[r])
             /\ ToSet(k'.wait_queue[r]) \ {Current} \subseteq ToSet(k.wait_queue[r])
  <2>1. Woken(r) \ {Current} \subseteq Woken(r)'
    <3>1. Woken(r) \subseteq Thread
      BY DEF Woken
    <3> HIDE DEF Current
    <3> QED
      BY <1>5, <3>1
  <2>2. ASSUME r # q PROVE ToSet(k'.wait_queue[r]) \subseteq ToSet(k.wait_queue[r])
    <3>1. k'.queue[Current] # r
      BY <1>2, <1>6, <2>2 DEF WaitOK, WaitOKAt, Asleep
    <3>2. \A t \in Thread : k'.queue[t] = r => k.queue[t] = r
      <4> HIDE DEF Current
      <4> QED
        BY <1>2, <1>5, <3>1
    <3> QED
      BY <3>2, QueuesShrink DEF WaitInv
  <2>3. ToSet(k'.wait_queue[r]) \ {Current} \subseteq ToSet(k.wait_queue[r])
    <3>1. /\ ToSet(k'.wait_queue[r]) = {t \in Thread : k'.queue[t] = r}
          /\ ToSet(k.wait_queue[r]) = {t \in Thread : k.queue[t] = r}
      BY DEF WaitInv, WaitOK, QueuedExactly
    <3> HIDE DEF Current
    <3> QED
      BY <1>2, <1>5, <3>1
  <2> QED
    BY <2>1, <2>2, <2>3
<1>9. NoneServed(s)
  <2>1. ASSUME NEW r \in Queue \ {s} PROVE Current \notin Woken(r)'
    <3>1. ASSUME Current \in Woken(r)' PROVE FALSE
      <4>1. waits'[Current].queue = r /\ ~Asleep(Current)' /\ k'.wake_reason[Current] = "DONE"
        BY <3>1 DEF Woken
      <4> QED
        BY <1>2, <1>6, <4>1 DEF Broken
    <3> QED
      BY <3>1
  <2>2. \A r \in Queue : Woken(r)' \subseteq Thread
    BY DEF Woken
  <2> HIDE DEF Current
  <2> QED
    BY <1>5, <2>1, <2>2 DEF NoneServed
<1> QED
  BY <1>7, <1>8, <1>9

\* The wait ends, or the call does before it; a waiter of s may be woken.
LEMMA EndWaitServing ==
  ASSUME IInv, WaitInv, Current \in Target, pc = "user",
         cont[Current] \in InAWait \/ cont[Current] \notin Claiming,
         NEW i, Sound(k, i), NEW s, ServesOthers(k, i, s),
         NEW n \in {"user", "relock"}, UpdateThen(i, n),
         waits' = [waits EXCEPT ![Current] = NoWait]
  PROVE  IInv' /\ WaitInv' /\ NobodyLost({Current}) /\ NoneServed(s)
<1>1. /\ Current \in Thread /\ Current = k.current_thread
      /\ cont \in [Thread -> Cont] /\ KernelOK(k)
      /\ KernelOK(i) /\ WaitOK(i) /\ WaitOK(k) /\ NoQueue \notin Queue
  BY ThreadAssumption
     DEF Target, Current, Sound, ServesOthers, IInv, KernelInv, TypeOK, WaitInv
<1>2. IInv'
  <2>1. n \in Cont \ Claiming
    BY DEF Cont, Claiming
  <2> QED
    BY <2>1, UpdateIInv
<1>3. /\ k' = i /\ cont' = [cont EXCEPT ![Current] = n]
      /\ pc' \in {"user", "unlock"}
  BY DEF UpdateThen, LockedUpdate, UnlockInner
<1>4. ~Sleeps(k', Current) /\ k'.queue[Current] = NoQueue /\ WaitOK(k')
  <2>1. ~Sleeps(k, Current)
    BY DEF WaitInv
  <2> QED
    BY <1>1, <1>3, <2>1 DEF ServesOthers, StillWaits, WaitOK, WaitOKAt, Sleeps,
       SLEEPSET
<1>5. \A t \in Thread \ {Current} : KeptAt(k, k', t) \/ ServedAt(k, k', t, s)
  BY <1>1, <1>3 DEF ServesOthers
<1>6. Current' = Current
  BY <1>3 DEF Sound, Current
<1>7. /\ WaitInv' /\ NoneServed(s)
      /\ \A r \in Queue : /\ Woken(r) \ {Current} \subseteq Woken(r)'
                          /\ r # NoQueue => ToSet(k'.wait_queue[r])
                                              \subseteq ToSet(k.wait_queue[r])
  <2>1. NoWait = Wait(NoQueue, FALSE) /\ n \in Cont /\ n \notin InAWait
    BY DEF NoWait, Wait, Cont, InAWait
  <2>2. /\ "SLEEPING" \in k'.state[Current] => k'.queue[Current] = NoQueue
        /\ waits' = [waits EXCEPT ![Current] = Wait(NoQueue, FALSE)]
        /\ NoQueue \in Queue \cup {NoQueue} /\ FALSE \in BOOLEAN
    BY <1>4, <2>1
  <2> HIDE DEF Current
  <2> QED
    BY <1>1, <1>3, <1>4, <1>5, <1>6, <2>1, <2>2, MoveWaits
<1> QED
  BY <1>1, <1>2, <1>7 DEF NobodyLost

LEMMA EndWait ==
  ASSUME IInv, WaitInv, Current \in Target, pc = "user",
         cont[Current] \in {"user", "wait"},
         NEW j, Sound(k, j), NEW s, ServesOthers(k, j, s),
         NEW timed \in BOOLEAN, Finish(j, timed)
  PROVE  IInv' /\ WaitInv' /\ NobodyLost({Current}) /\ NoneServed(s)
<1> DEFINE i == IF timed THEN ClearTimer(j, Current) ELSE j
<1>1. /\ Current \in Thread /\ Current = k.current_thread
      /\ KernelOK(k) /\ KernelOK(j) /\ WaitOK(j) /\ WaitOK(k)
  BY DEF Target, Current, Sound, ServesOthers, IInv, KernelInv, WaitInv
<1>2. Sound(k, i) /\ ServesOthers(k, i, s)
  <2>1. Sound(j, ClearTimer(j, Current)) /\ Kept(j, ClearTimer(j, Current))
    BY <1>1, TimerSound, ClearTimerKept DEF Reason
  <2>2. CASE timed
    <3>1. i = ClearTimer(j, Current)
      BY <2>2
    <3> HIDE DEF i
    <3>2. Sound(k, i)
      BY <2>1, <3>1, SoundTrans
    <3>3. ServesOthers(k, i, s)
      BY <1>1, <2>1, <3>1, ServesOthersTrans
    <3> QED
      BY <3>2, <3>3
  <2>3. CASE ~timed
    BY <2>3
  <2> QED
    BY <2>2, <2>3
<1> HIDE DEF i
<1>3. UpdateThen(i, "user") /\ waits' = [waits EXCEPT ![Current] = NoWait]
  BY DEF Finish, i
<1>4. cont[Current] \in InAWait \/ cont[Current] \notin Claiming
  BY DEF InAWait, Claiming
<1> QED
  BY <1>2, <1>3, <1>4, EndWaitServing

\* One round of the wait's loop.
LEMMA BeginWait ==
  ASSUME IInv, WaitInv, Current \in Target, pc = "user",
         NEW j, Sound(k, j), KeptOthers(k, j),
         NEW q \in Queue, NEW timed \in BOOLEAN,
         BlockOn(GoToSleep(j, q, timed), q, timed)
  PROVE  /\ IInv' /\ WaitInv' /\ NoneServed(NoQueue)
         /\ \A r \in Queue : /\ Woken(r) \ {Current} \subseteq Woken(r)'
                             /\ r # q => ToSet(k'.wait_queue[r])
                                           \subseteq ToSet(k.wait_queue[r])
                             /\ ToSet(k'.wait_queue[r]) \ {Current}
                                  \subseteq ToSet(k.wait_queue[r])
<1> DEFINE e == GoToSleep(j, q, timed)
<1>1. /\ Current \in Thread /\ Current = k.current_thread
      /\ cont \in [Thread -> Cont] /\ KernelOK(k) /\ WaitOK(k)
      /\ ~Sleeps(k, Current)
  BY DEF Target, Current, IInv, KernelInv, TypeOK, WaitInv
<1>2. ~Sleeps(j, Current)
  BY <1>1 DEF KeptOthers, StillWaits
<1>3. Sound(k, e) /\ Blocked(k, e, q)
  BY <1>1, <1>2, GoToSleepBlocked
<1> HIDE DEF e
<1>4. RescheduleThen(e, "wait") /\ waits' = [waits EXCEPT ![Current] = Wait(q, timed)]
  BY DEF BlockOn, e
<1>5. IInv'
  BY <1>3, <1>4, UpdateIInv DEF Claiming
<1>6. k' = e /\ pc' = "unlock" /\ cont' = [cont EXCEPT ![Current] = "wait"]
  BY <1>4 DEF RescheduleThen, UnlockInner
<1>7. /\ WaitOK(k') /\ k'.queue[Current] = q
      /\ \A t \in Thread \ {Current} : KeptAt(k, k', t) \/ ServedAt(k, k', t, NoQueue)
  BY <1>1, <1>3, <1>6 DEF Blocked
<1>8. Current' = Current
  BY <1>3, <1>6 DEF Sound, Current
<1>9. /\ "wait" \in Cont /\ q # NoQueue /\ q \in Queue \cup {NoQueue}
      /\ "wait" \in InAWait
  BY ThreadAssumption DEF Cont, InAWait
<1>10. "SLEEPING" \in k'.state[Current]
  BY <1>1, <1>7, <1>9 DEF WaitOK, WaitOKAt
<1> HIDE DEF Current
<1> QED
  BY <1>1, <1>4, <1>5, <1>6, <1>7, <1>8, <1>9, <1>10, MoveWaits

\* A waiter that has been killed exits.
LEMMA ExitWait ==
  ASSUME IInv, WaitInv, WokenToExit
  PROVE  IInv' /\ WaitInv' /\ NobodyLost({}) /\ NoneServed(NoQueue)
<1>1. /\ pc = "user" /\ cont[Current] = "wait" /\ k.wake_reason[Current] = "EXIT"
      /\ k' = Exit(k) /\ pc' = "unlock"
      /\ cont' = [cont EXCEPT ![Current] = "dead"]
      /\ waits' = [waits EXCEPT ![Current] = NoWait]
  BY DEF WokenToExit, InWait, UnlockInner
<1>2. /\ KernelInv /\ KernelOK(k) /\ cont \in [Thread -> Cont] /\ WaitOK(k)
      /\ Current = k.current_thread /\ ~Sleeps(k, Current)
  BY <1>1 DEF IInv, KernelInv, TypeOK, WaitInv, Current
<1>3. Current \in Target /\ Current \in Thread
  BY <1>1, <1>2, CallerIsTarget DEF Target
<1>4. IInv'
  BY <1>3, ExitIInv
<1>5. Sound(k, k') /\ Kept(k, k')
  BY <1>1, <1>2, <1>3, ExitSound, ExitKept
<1>6. /\ ~Sleeps(k', Current) /\ k'.queue[Current] = NoQueue /\ WaitOK(k')
      /\ \A t \in Thread \ {Current} : KeptAt(k, k', t) \/ ServedAt(k, k', t, NoQueue)
  BY <1>2, <1>3, <1>5 DEF Kept, KeptAt, StillWaits, WaitOK, WaitOKAt, Sleeps, SLEEPSET
<1>7. Current' = Current
  BY <1>5 DEF Sound, Current
<1>8. /\ WaitInv' /\ NoneServed(NoQueue)
      /\ \A r \in Queue : /\ Woken(r) \ {Current} \subseteq Woken(r)'
                          /\ r # NoQueue => ToSet(k'.wait_queue[r])
                                              \subseteq ToSet(k.wait_queue[r])
  <2>1. NoWait = Wait(NoQueue, FALSE) /\ "dead" \in Cont /\ "dead" \notin InAWait
    BY DEF NoWait, Wait, Cont, InAWait
  <2>2. /\ "SLEEPING" \in k'.state[Current] => k'.queue[Current] = NoQueue
        /\ pc' \in {"boot", "user"} => ~Sleeps(k', Current)
        /\ waits' = [waits EXCEPT ![Current] = Wait(NoQueue, FALSE)]
        /\ NoQueue \in Queue \cup {NoQueue} /\ FALSE \in BOOLEAN
    BY <1>1, <1>6, <2>1
  <2> HIDE DEF Current
  <2> QED
    BY <1>1, <1>2, <1>3, <1>6, <1>7, <2>1, <2>2, MoveWaits
<1>9. \A r \in Queue : Current \notin Woken(r) /\ r # NoQueue
  BY <1>1, ThreadAssumption DEF Woken
<1>10. \A r \in Queue : Woken(r) \subseteq Woken(r)'
  BY <1>8, <1>9
<1> QED
  BY <1>4, <1>8, <1>9, <1>10 DEF NobodyLost

\* A call, or a DSR's, that blocks nobody; it may wake from the queue q.
LEMMA QuietCall ==
  ASSUME IInv, WaitInv, Current \in Target, pc = "user", cont[Current] = "user",
         NEW j, Sound(k, j), NEW q, Serves(k, j, q), Update(j), waits' = waits
  PROVE  IInv' /\ WaitInv' /\ NobodyLost({}) /\ NoneServed(q)
<1>1. IInv'
  BY UpdateIInv
<1>2. k' = j /\ cont' = cont /\ Current' = Current
  BY DEF Update, LockedUpdate, ctx, Sound, Current
<1> QED
  BY <1>1, <1>2, PlainWaits

LEMMA QuietDSR ==
  ASSUME IInv, WaitInv, pc = "dsr",
         NEW j, Sound(k, j), NEW q, Serves(k, j, q), DeviceUpdate(j), waits' = waits
  PROVE  IInv' /\ WaitInv' /\ NobodyLost({}) /\ NoneServed(q)
<1>1. IInv'
  BY KeptServes, DeviceIInv
<1>2. k' = j /\ cont' = cont /\ pc' = "dsr"
  BY DEF DeviceUpdate, cpu, ctx
<1> QED
  BY <1>1, <1>2, PlainWaits

\* The first waiter joins the woken ones, if there is a waiter.
LEMMA OneMoreWoken ==
  ASSUME IInv, WaitInv, NEW q \in Queue, k' = WakeFirst(k, q), waits' = waits,
         k.wait_queue[q] # <<>>
  PROVE  \E h \in Thread : h \notin Woken(q) /\ h \in Woken(q)'
<1> DEFINE h == Head(k.wait_queue[q])
<1>1. /\ h \in Thread /\ k.queue[h] = q
      /\ "SLEEPING" \notin k'.state[h] /\ k'.wake_reason[h] = "DONE"
  BY WakeFirstServes DEF IInv, KernelInv, WaitInv
<1> HIDE DEF h
<1>2. "SLEEPING" \in k.state[h] /\ waits[h].queue = q
  BY <1>1, ThreadAssumption DEF WaitInv, WaitOK, WaitOKAt, Asleep
<1> QED
  BY <1>1, <1>2 DEF Woken, Asleep

\* The timer of a timed wait is set before its loop.
LEMMA TimerForWait ==
  ASSUME NEW d, KernelOK(d), WaitOK(d)
  PROVE  /\ Sound(d, SetTimer(d, "TIMEOUT"))
         /\ KeptOthers(d, SetTimer(d, "TIMEOUT"))
         /\ Sound(d, Alarm(SetTimer(d, "TIMEOUT"), d.current_thread))
         /\ KeptOthers(d, Alarm(SetTimer(d, "TIMEOUT"), d.current_thread))
<1> DEFINE i == SetTimer(d, "TIMEOUT")
<1>1. "TIMEOUT" \in Reason /\ d.current_thread \in Thread
  BY DEF Reason, KernelOK, KernelData
<1>2. Sound(d, i)
  BY <1>1, TimerSound
<1> HIDE DEF i
<1>3. Sound(i, Alarm(i, d.current_thread))
  BY <1>1, <1>2, AlarmSound DEF Sound
<1>4. Sound(d, Alarm(i, d.current_thread))
  BY <1>2, <1>3, SoundTrans
<1> QED
  BY <1>2, <1>4, SetTimerKept DEF i

\* Initially nobody waits.
LEMMA WaitInit ==
  ASSUME Init, waits = [t \in Thread |-> NoWait]
  PROVE  WaitInv
<1>1. /\ k = InitialData /\ cont = [t \in Thread |-> "user"]
      /\ Idle \in Thread /\ NoQueue \notin Queue
  BY ThreadAssumption DEF Init
<1>2. \A t \in Thread : /\ k.state[t] \in {RUNNING, {"SUSPENDED"}}
                        /\ k.queue[t] = NoQueue
                        /\ k.wake_reason[t] = "NONE"
  BY <1>1 DEF InitialData
<1>3. \A q \in Queue : k.wait_queue[q] = <<>>
  BY <1>1 DEF InitialData
<1>4. Current = Idle
  BY <1>1 DEF Current, InitialData
<1>5. QueuedExactly(k)
  <2>1. IsInjective(<<>>) /\ ToSet(<<>>) = {}
    BY DEF IsInjective, ToSet
  <2> QED
    BY <1>1, <1>2, <1>3, <2>1 DEF QueuedExactly
<1>6. WaitOK(k)
  BY <1>2, <1>5 DEF WaitOK, WaitOKAt, Sleeps, RUNNING, SLEEPSET
<1>7. ~Sleeps(k, Current)
  BY <1>1, <1>2, <1>4 DEF Sleeps, RUNNING, SLEEPSET
<1>8. /\ waits \in [Thread -> [queue : Queue \cup {NoQueue}, timed : BOOLEAN]]
      /\ \A t \in Thread : waits[t].queue = NoQueue
      /\ \A t \in Thread : cont[t] \notin InAWait
  BY <1>1 DEF NoWait, InAWait
<1>9. \A t \in Thread : ~Asleep(t)
  BY <1>2 DEF Asleep, RUNNING
<1> QED
  BY <1>1, <1>6, <1>7, <1>8, <1>9 DEF WaitInv
------------------------------------------------------------------------------
(***************************************************************************)
(* Counting the woken: what an object owes its sleepers is covered by the  *)
(* threads on their way to take it.                                        *)
(***************************************************************************)
LEMMA WokenCount ==
  ASSUME NEW A \in SUBSET Thread, NEW B \in SUBSET Thread
  PROVE  /\ Cardinality(A) \in Nat /\ Cardinality(B) \in Nat
         /\ A \subseteq B => Cardinality(A) <= Cardinality(B)
         /\ \A t : A \ {t} \subseteq B => Cardinality(A) <= Cardinality(B) + 1
         /\ \A t : A \subseteq B /\ t \in B \ A => Cardinality(A) + 1 <= Cardinality(B)
<1>1. IsFiniteSet(A) /\ IsFiniteSet(B)
  BY WaitingAssumption, FS_Subset
<1>2. Cardinality(A) \in Nat /\ Cardinality(B) \in Nat
  BY <1>1, FS_CardinalityType
<1>3. A \subseteq B => Cardinality(A) <= Cardinality(B)
  BY <1>1, FS_Subset
<1>4. ASSUME NEW t, A \ {t} \subseteq B
      PROVE  Cardinality(A) <= Cardinality(B) + 1
  <2>1. Cardinality(A) <= Cardinality(A \ {t}) + 1
    <3>1. CASE t \in A
      <4>1. Cardinality(A \ {t}) = Cardinality(A) - 1
        BY <1>1, <3>1, FS_RemoveElement
      <4> QED
        BY <1>2, <4>1
    <3>2. CASE t \notin A
      <4>1. A \ {t} = A
        BY <3>2
      <4> QED
        BY <1>2, <4>1
    <3> QED
      BY <3>1, <3>2
  <2>2. Cardinality(A \ {t}) <= Cardinality(B) /\ Cardinality(A \ {t}) \in Nat
    <3>1. A \ {t} \in SUBSET B
      BY <1>4
    <3>2. IsFiniteSet(A \ {t})
      BY <1>1, FS_RemoveElement
    <3> QED
      BY <1>1, <3>1, <3>2, FS_Subset, FS_CardinalityType
  <2> QED
    BY <1>2, <2>1, <2>2
<1>5. ASSUME NEW t, A \subseteq B, t \in B \ A
      PROVE  Cardinality(A) + 1 <= Cardinality(B)
  <2>1. Cardinality(A \cup {t}) = Cardinality(A) + 1
    BY <1>1, <1>5, FS_AddElement
  <2>2. A \cup {t} \in SUBSET B
    BY <1>5
  <2> QED
    BY <1>1, <2>1, <2>2, FS_Subset
<1> QED
  BY <1>2, <1>3, <1>4, <1>5

\* A queue that still has waiters had some.
LEMMA StillQueued ==
  ASSUME NEW d, NEW e, d \in KernelData, e \in KernelData, NEW q \in Queue,
         ToSet(e.wait_queue[q]) \subseteq ToSet(d.wait_queue[q]),
         e.wait_queue[q] # <<>>
  PROVE  d.wait_queue[q] # <<>>
<1>1. /\ d.wait_queue[q] \in Seq(Thread) /\ e.wait_queue[q] \in Seq(Thread)
  BY DEF KernelData
<1>2. 1 \in DOMAIN e.wait_queue[q]
  BY <1>1, EmptySeq
<1>3. ToSet(e.wait_queue[q]) # {}
  BY <1>2 DEF ToSet
<1>4. ToSet(<<>>) = {}
  BY DEF ToSet
<1> QED
  BY <1>3, <1>4
Covered(q, n) == k.wait_queue[q] # <<>> => n <= Cardinality(Woken(q))

OneMore(q) == \E h \in Thread : h \notin Woken(q) /\ h \in Woken(q)'

\* A step that takes what it owes with the woken, or owes more and wakes more.
LEMMA StillCovered ==
  ASSUME IInv, IInv', NEW q \in Queue, NEW n \in Nat, NEW m \in Nat,
         Covered(q, n),
         ToSet(k'.wait_queue[q]) \subseteq ToSet(k.wait_queue[q]),
         \/ m <= n /\ Woken(q) \subseteq Woken(q)'
         \/ m + 1 <= n /\ Woken(q) \ {Current} \subseteq Woken(q)'
         \/ m <= n + 1 /\ Woken(q) \subseteq Woken(q)' /\ OneMore(q)
  PROVE  k'.wait_queue[q] # <<>> => m <= Cardinality(Woken(q)')
<1> SUFFICES ASSUME k'.wait_queue[q] # <<>>
             PROVE  m <= Cardinality(Woken(q)')
  OBVIOUS
<1>1. k \in KernelData /\ k' \in KernelData
  BY DEF IInv, KernelInv, KernelOK
<1>2. n <= Cardinality(Woken(q))
  BY <1>1, StillQueued DEF Covered
<1>3. Woken(q) \in SUBSET Thread /\ Woken(q)' \in SUBSET Thread
  BY DEF Woken
<1>4. Cardinality(Woken(q)) \in Nat /\ Cardinality(Woken(q)') \in Nat
  BY <1>3, WokenCount
<1>5. CASE m <= n /\ Woken(q) \subseteq Woken(q)'
  BY <1>2, <1>3, <1>4, <1>5, WokenCount
<1>6. CASE m + 1 <= n /\ Woken(q) \ {Current} \subseteq Woken(q)'
  <2>1. Cardinality(Woken(q)) <= Cardinality(Woken(q)') + 1
    BY <1>3, <1>6, WokenCount
  <2> QED
    BY <1>2, <1>4, <1>6, <2>1
<1>7. CASE m <= n + 1 /\ Woken(q) \subseteq Woken(q)' /\ OneMore(q)
  <2>1. Cardinality(Woken(q)) + 1 <= Cardinality(Woken(q)')
    BY <1>3, <1>7, WokenCount DEF OneMore
  <2> QED
    BY <1>2, <1>4, <1>7, <2>1
<1> QED
  BY <1>5, <1>6, <1>7

\* A wait ends and wakes the first thread of a queue.
LEMMA HandOver ==
  ASSUME IInv, WaitInv, Current \in Target, pc = "user",
         cont[Current] \in {"user", "wait"},
         NEW j, Sound(k, j), KeptOthers(k, j), NEW q \in Queue,
         NEW timed \in BOOLEAN, Finish(WakeFirst(j, q), timed)
  PROVE  /\ IInv' /\ WaitInv' /\ NobodyLost({Current}) /\ NoneServed(q)
         /\ k'.wait_queue[q] # <<>> => OneMore(q)
<1> DEFINE i == WakeFirst(j, q)
           h == Head(j.wait_queue[q])
<1>1. /\ KernelOK(j) /\ WaitOK(j) /\ WaitOK(k) /\ Current = k.current_thread
      /\ ~Sleeps(k, Current) /\ Current \in Thread
  BY DEF Sound, KeptOthers, WaitInv, Current, Target
<1>2. /\ Sound(j, i) /\ Serves(j, i, q)
      /\ j.wait_queue[q] # <<>> =>
           /\ h \in Thread /\ j.queue[h] = q
           /\ "SLEEPING" \notin i.state[h] /\ i.wake_reason[h] = "DONE"
           /\ i.sleep_reason[h] = "NONE"
  BY <1>1, WakeFirstServes
<1>3. j.wait_queue[q] = <<>> => i = j
  BY DEF WakeFirst
<1> HIDE DEF i, h
<1>4. Sound(k, i) /\ ServesOthers(k, i, q) /\ KernelOK(i) /\ WaitOK(i)
  <2>1. Sound(k, i)
    BY <1>2, SoundTrans
  <2>2. ServesOthers(k, i, q)
    <3>1. KeptAt(k, j, k.current_thread) \/ StillWaits(k, j, k.current_thread)
      BY DEF KeptOthers
    <3>2. KeptAt(j, i, k.current_thread) \/ ServedAt(j, i, k.current_thread, q)
      BY <1>1, <1>2 DEF Serves
    <3>3. StillWaits(k, i, k.current_thread)
      <4>1. "SLEEPING" \notin i.state[k.current_thread] /\ ~Sleeps(i, k.current_thread)
        BY <1>1, <3>1, <3>2 DEF KeptAt, ServedAt, StillWaits, Sleeps, SLEEPSET
      <4> QED
        BY <4>1 DEF StillWaits
    <3>4. ASSUME NEW t \in Thread \ {k.current_thread}
          PROVE  KeptAt(k, i, t) \/ ServedAt(k, i, t, q)
      <4>1. KeptAt(k, j, t) /\ (KeptAt(j, i, t) \/ ServedAt(j, i, t, q))
        BY <1>2, <3>4 DEF KeptOthers, Serves
      <4>2. ServedAt(j, i, t, q) => ServedAt(k, i, t, q)
        BY <1>1, <4>1 DEF ServedAt, KeptAt, StillWaits, WaitOK, WaitOKAt
      <4>3. KeptAt(j, i, t) => KeptAt(k, i, t)
        BY <1>1, <4>1, KeptAtTrans
      <4> QED
        BY <4>1, <4>2, <4>3
    <3> QED
      BY <1>2, <3>3, <3>4 DEF ServesOthers, Serves
  <2> QED
    BY <1>2, <2>1, <2>2 DEF Serves, Sound
<1>5. IInv' /\ WaitInv' /\ NobodyLost({Current}) /\ NoneServed(q)
  BY <1>4, EndWait DEF i
<1> SUFFICES ASSUME k'.wait_queue[q] # <<>>
             PROVE  OneMore(q)
  BY <1>5
<1>6. Kept(i, k') /\ waits' = [waits EXCEPT ![Current] = NoWait]
  <2>1. k' = IF timed THEN ClearTimer(i, Current) ELSE i
    BY DEF Finish, UpdateThen, LockedUpdate, i
  <2>2. Current \in Thread
    BY DEF Target
  <2>3. Kept(i, i) /\ Kept(i, ClearTimer(i, Current))
    BY <1>4, <2>2, KeptRefl, ClearTimerKept
  <2> QED
    BY <2>1, <2>3 DEF Finish
<1>7. j.wait_queue[q] # <<>>
  <2> SUFFICES ASSUME j.wait_queue[q] = <<>> PROVE FALSE
    OBVIOUS
  <2>1. WaitOK(k') /\ k' \in KernelData /\ j \in KernelData
    BY <1>1, <1>5 DEF WaitInv, IInv, KernelInv, KernelOK
  <2>2. \A t \in Thread : k'.queue[t] = q => j.queue[t] = q
    BY <1>3, <1>6, <2>1, ThreadAssumption
       DEF Kept, KeptAt, StillWaits, WaitOK, WaitOKAt
  <2>3. ToSet(k'.wait_queue[q]) \subseteq ToSet(j.wait_queue[q])
    BY <1>1, <2>1, <2>2, QueuesShrink
  <2> QED
    BY <2>1, <2>3, StillQueued
<1>8. h \in Thread /\ "SLEEPING" \in j.state[h] /\ j.queue[h] = q /\ Sleeps(j, h)
  BY <1>1, <1>2, <1>7, ThreadAssumption DEF WaitOK, WaitOKAt, Sleeps, SLEEPSET
<1>9. Sleeps(k, h) /\ "SLEEPING" \in k.state[h] /\ k.queue[h] = q
  BY <1>1, <1>8 DEF KeptOthers, KeptAt, StillWaits
<1>10. h # Current /\ waits[h].queue = q /\ h \notin Woken(q)
  BY <1>1, <1>8, <1>9 DEF WaitInv, Asleep, Woken
<1>11. /\ "SLEEPING" \notin k'.state[h] /\ k'.wake_reason[h] = "DONE"
       /\ waits'[h].queue = q
  BY <1>2, <1>6, <1>7, <1>8, <1>10 DEF Kept, KeptAt, StillWaits, WaitInv
<1> QED
  BY <1>8, <1>10, <1>11 DEF OneMore, Woken, Asleep
------------------------------------------------------------------------------
(***************************************************************************)
(* What the operations on the kernel data leave of priorities and deaths.  *)
(***************************************************************************)
\* Nobody dies and no priority changes.
Steady(d, e) ==
  /\ e.priority = d.priority
  /\ \A t \in Thread : "EXITED" \in e.state[t] <=> "EXITED" \in d.state[t]

\* Thread t dies, which does not sleep, and that is all.
Dies(d, e, t) ==
  /\ e.priority = d.priority
  /\ "SLEEPING" \notin d.state[t]
  /\ "EXITED" \in e.state[t]
  /\ \A u \in Thread \ {t} : e.state[u] = d.state[u]

\* The state of no thread but t changes.
Alone(d, e, t) == \A u \in Thread \ {t} : e.state[u] = d.state[u]

LEMMA SteadyTrans ==
  ASSUME NEW d, NEW e, NEW f, Steady(d, e), Steady(e, f)
  PROVE  Steady(d, f)
BY DEF Steady

LEMMA SameSteady ==
  ASSUME NEW d, NEW e, e.priority = d.priority, e.state = d.state
  PROVE  Steady(d, e)
BY DEF Steady

\* The helpers leave the priorities alone.
LEMMA RemThreadPriority ==
  ASSUME NEW d \in KernelData, NEW t \in Thread
  PROVE  RemThread(d, t).priority = d.priority
BY DEF RemThread, KernelData

LEMMA RemoveFromQueuePriority ==
  ASSUME NEW d \in KernelData, NEW t \in Thread
  PROVE  RemoveFromQueue(d, t).priority = d.priority
BY DEF RemoveFromQueue, KernelData

LEMMA AddThreadPriority ==
  ASSUME NEW d \in KernelData, NEW t \in Thread
  PROVE  AddThread(d, t).priority = d.priority
<1>1. RemoveFromQueue(d, t) \in KernelData
  BY RemoveFromQueueProps
<1> QED
  BY <1>1, RemoveFromQueuePriority DEF AddThread, KernelData

LEMMA SetStatePriority ==
  ASSUME NEW d \in KernelData, NEW t \in Thread, NEW s \in SUBSET StateBit
  PROVE  SetState(d, t, s).priority = d.priority
<1> DEFINE j == [d EXCEPT !.state[t] = s]
<1>1. j \in KernelData /\ j.priority = d.priority
  BY DEF KernelData
<1> HIDE DEF j
<1>2. RemThread(j, t).priority = d.priority /\ AddThread(j, t).priority = d.priority
  BY <1>1, RemThreadPriority, AddThreadPriority
<1> QED
  BY <1>1, <1>2 DEF SetState, j

LEMMA WakePriority ==
  ASSUME NEW d \in KernelData, NEW t \in Thread
  PROVE  Wake(d, t).priority = d.priority
<1> DEFINE j == RemoveFromQueue(d, t)
           s == d.state[t] \ SLEEPSET
<1>1. j \in KernelData /\ j.priority = d.priority
  BY RemoveFromQueueProps, RemoveFromQueuePriority
<1>2. s \in SUBSET StateBit
  BY DEF KernelData
<1> HIDE DEF j, s
<1>3. SetState(j, t, s).priority = d.priority
  BY <1>1, <1>2, SetStatePriority
<1> QED
  BY <1>3 DEF Wake, j, s

LEMMA ReasonPriority ==
  ASSUME NEW d \in KernelData, NEW t \in Thread, NEW r \in Reason
  PROVE  /\ SetWakeReason(d, t, r).priority = d.priority
         /\ SetSleepReason(d, r).priority = d.priority
         /\ SetTimer(d, r).priority = d.priority
         /\ ClearTimer(d, t).priority = d.priority
BY DEF SetWakeReason, SetSleepReason, SetTimer, ClearTimer, KernelData

\* Neither does anything kill that only wakes, suspends, counts or rotates.
LEMMA SetStateSteady ==
  ASSUME NEW d, KernelOK(d), NEW t \in Target, NEW s \in SUBSET StateBit,
         "EXITED" \in s <=> "EXITED" \in d.state[t]
  PROVE  Steady(d, SetState(d, t, s))
<1>1. SetState(d, t, s).state = [d.state EXCEPT ![t] = s]
  BY SetStateFrame
<1>2. SetState(d, t, s).priority = d.priority
  BY SetStatePriority DEF KernelOK, Target
<1>3. d.state \in [Thread -> SUBSET StateBit]
  BY DEF KernelOK, KernelData
<1> QED
  BY <1>1, <1>2, <1>3 DEF Steady

LEMMA WakeSteady ==
  ASSUME NEW d, KernelOK(d), NEW t \in Thread
  PROVE  Steady(d, Wake(d, t))
<1>1. Wake(d, t).state = [d.state EXCEPT ![t] = @ \ SLEEPSET]
  BY WakeFrame
<1>2. Wake(d, t).priority = d.priority
  BY WakePriority DEF KernelOK
<1>3. d.state \in [Thread -> SUBSET StateBit] /\ "EXITED" \notin SLEEPSET
  BY DEF KernelOK, KernelData, SLEEPSET
<1> QED
  BY <1>1, <1>2, <1>3 DEF Steady

LEMMA ReasonSteady ==
  ASSUME NEW d, KernelOK(d), NEW t \in Thread, NEW r \in Reason
  PROVE  /\ Steady(d, SetWakeReason(d, t, r)) /\ Steady(d, SetSleepReason(d, r))
         /\ Steady(d, SetTimer(d, r)) /\ Steady(d, ClearTimer(d, t))
BY ReasonPriority, ReasonSound, TimerSound DEF Steady, KernelOK

LEMMA WakeWithSteady ==
  ASSUME NEW d, KernelOK(d), NEW t \in Thread, NEW r \in Reason
  PROVE  /\ Steady(d, Wake(SetWakeReason(d, t, r), t))
         /\ Steady(d, Wake(SetWakeReason(ClearTimer(d, t), t, r), t))
<1>1. KernelOK(SetWakeReason(d, t, r)) /\ KernelOK(ClearTimer(d, t))
  BY ReasonSound, TimerSound DEF Sound
<1>2. KernelOK(SetWakeReason(ClearTimer(d, t), t, r))
  BY <1>1, ReasonSound DEF Sound
<1>3. /\ Steady(d, SetWakeReason(d, t, r))
      /\ Steady(d, SetWakeReason(ClearTimer(d, t), t, r))
  BY <1>1, ReasonSteady, SteadyTrans
<1> QED
  BY <1>1, <1>2, <1>3, WakeSteady, SteadyTrans

LEMMA AlarmSteady ==
  ASSUME NEW d, KernelOK(d), NEW t \in Thread
  PROVE  Steady(d, Alarm(d, t)) /\ Steady(d, Release(d, t))
<1>1. "DONE" \in Reason /\ "TIMEOUT" \in Reason /\ "BREAK" \in Reason
  BY DEF Reason
<1>2. Steady(d, ClearTimer(d, t)) /\ Steady(d, d)
  BY <1>1, ReasonSteady DEF Steady
<1> QED
  BY <1>1, <1>2, WakeWithSteady DEF Alarm, Release

\* An alarm touches no thread but its own.
LEMMA AlarmAlone ==
  ASSUME NEW d, KernelOK(d), NEW t \in Thread
  PROVE  Alone(d, Alarm(d, t), t)
<1> DEFINE j == ClearTimer(d, t)
<1>1. KernelOK(j) /\ j.state = d.state /\ "DONE" \in Reason /\ "TIMEOUT" \in Reason
  BY TimerSound DEF Sound, Reason
<1> HIDE DEF j
<1>2. ASSUME NEW r \in Reason PROVE Alone(d, Wake(SetWakeReason(j, t, r), t), t)
  <2>1. WokenWith(j, Wake(SetWakeReason(j, t, r), t), t, r)
    BY <1>1, WakeWithFrame
  <2> QED
    BY <1>1, <2>1 DEF WokenWith, Alone, KernelOK, KernelData
<1>3. Alone(d, j, t)
  BY <1>1 DEF Alone
<1> QED
  BY <1>1, <1>2, <1>3 DEF Alarm, j

LEMMA CountSteady ==
  ASSUME NEW d, KernelOK(d), NEW t \in Thread, NEW n
  PROVE  /\ Steady(d, [d EXCEPT !.suspend_count[t] = n])
         /\ Steady(d, [d EXCEPT !.wakeup_count[t] = n])
BY DEF Steady, KernelOK, KernelData

LEMMA CountedWakeSteady ==
  ASSUME NEW d, KernelOK(d), NEW t \in Thread
  PROVE  Steady(d, CountedWake(d, t)) /\ Steady(d, CancelCountedWake(d, t))
BY CountSteady, WakeWithSteady DEF CountedWake, CancelCountedWake, Reason

LEMMA SuspensionSteady ==
  ASSUME NEW d, KernelOK(d), NEW t \in Target
  PROVE  /\ Steady(d, Suspend(d, t)) /\ Steady(d, ClearSuspension(d, t))
         /\ Steady(d, Resume(d, t)) /\ Steady(d, ForceResume(d, t))
<1> DEFINE up == [d EXCEPT !.suspend_count[t] = @ + 1]
           zero == [d EXCEPT !.suspend_count[t] = 0]
<1>1. /\ d.state \in [Thread -> SUBSET StateBit] /\ t \in Thread
      /\ d.suspend_count[t] + 1 \in Nat /\ 0 \in Nat
  BY DEF KernelOK, KernelData, Target
<1>2. /\ KernelOK(up) /\ up.state = d.state /\ Steady(d, up)
      /\ KernelOK(zero) /\ zero.state = d.state /\ Steady(d, zero)
  BY <1>1, CountSound, CountSteady DEF Sound
<1> HIDE DEF up, zero
<1>3. /\ d.state[t] \cup {"SUSPENDED"} \in SUBSET StateBit
      /\ d.state[t] \ {"SUSPENDED"} \in SUBSET StateBit
  BY <1>1 DEF StateBit
<1>4. /\ Steady(up, SetState(up, t, d.state[t] \cup {"SUSPENDED"}))
      /\ Steady(zero, SetState(zero, t, d.state[t] \ {"SUSPENDED"}))
  BY <1>2, <1>3, SetStateSteady
<1>5. Steady(d, Suspend(d, t)) /\ Steady(d, ClearSuspension(d, t))
  BY <1>2, <1>4, SteadyTrans DEF Suspend, ClearSuspension, up, zero
<1>6. Steady(d, d) /\ Steady(d, [d EXCEPT !.suspend_count[t] = @ - 1])
  BY <1>1, CountSteady DEF Steady
<1> QED
  BY <1>5, <1>6 DEF Resume, ForceResume

LEMMA RotationSteady ==
  ASSUME NEW d, KernelOK(d), NEW t \in Thread, NEW p \in Priority
  PROVE  /\ Steady(d, Timeslice(d)) /\ Steady(d, Yield(d))
         /\ Steady(d, RotateQueue(d, p)) /\ Steady(d, ToQueueHead(d, t))
<1>1. /\ SameSleep(d, Timeslice(d)) /\ SameSleep(d, Yield(d))
      /\ SameSleep(d, RotateQueue(d, p)) /\ SameSleep(d, ToQueueHead(d, t))
  BY TimesliceFrame, YieldFrame, RotateQueueFrame, ToQueueHeadFrame
<1>2. d \in KernelData
  BY DEF KernelOK
<1>3. Timeslice(d).priority = d.priority /\ Yield(d).priority = d.priority
  BY <1>2 DEF Timeslice, Yield, KernelData
<1>4. /\ RotateQueue(d, p).priority = d.priority
      /\ ToQueueHead(d, t).priority = d.priority
  BY <1>2 DEF RotateQueue, ToQueueHead, SetNeedReschedule, KernelData
<1> QED
  BY <1>1, <1>3, <1>4, SameSteady DEF SameSleep

LEMMA SwitchSteady ==
  ASSUME NEW d \in KernelData, NEW t \in Thread,
         NEW ts \in [Thread -> 0 .. TicksWrap]
  PROVE  LET j == [d EXCEPT !.timeslice = ts]
         IN  Steady(d, Enter(j, t)) /\ Steady(d, Continue(j, t))
BY DEF Steady, Enter, Continue, KernelData

LEMMA SleepSteady ==
  ASSUME NEW d, KernelOK(d), d.current_thread \in Target
  PROVE  Steady(d, Sleep(d))
<1>1. /\ d.state \in [Thread -> SUBSET StateBit]
      /\ d.current_thread \in Thread
  BY DEF KernelOK, KernelData
<1>2. d.state[d.current_thread] \cup {"SLEEPING"} \in SUBSET StateBit
  BY <1>1 DEF StateBit
<1> QED
  BY <1>1, <1>2, SetStateSteady DEF Sleep

LEMMA DelaySteady ==
  ASSUME NEW d, KernelOK(d), d.current_thread \in Target
  PROVE  Steady(d, Delay(d)) /\ Steady(d, DelayPast(d))
<1>1. /\ KernelOK(Sleep(d)) /\ Sleep(d).current_thread = d.current_thread
      /\ Steady(d, Sleep(d)) /\ d.current_thread \in Thread
  BY SleepSound, SleepSteady DEF Sound, Target
<1>2. /\ Steady(d, Delay(d)) /\ KernelOK(Delay(d))
  BY <1>1, ReasonSteady, TimerSound, SteadyTrans DEF Delay, Sound, Reason
<1> QED
  BY <1>1, <1>2, AlarmSteady, SteadyTrans DEF DelayPast

LEMMA CountedSleepSteady ==
  ASSUME NEW d, KernelOK(d), d.current_thread \in Target
  PROVE  /\ Steady(d, CountedSleep(d)) /\ Steady(d, TimedCountedSleep(d))
         /\ Steady(d, TimedCountedSleepPast(d)) /\ Steady(d, TakeWakeup(d))
<1> DEFINE c == d.current_thread
<1>1. "WAIT" \in Reason /\ "TIMEOUT" \in Reason /\ c \in Thread
  BY DEF Reason, Target
<1>2. ASSUME NEW j, KernelOK(j), j.current_thread \in Target, Steady(d, j)
      PROVE  Steady(d, AddCountSleep(Sleep(j)))
  <2>1. KernelOK(Sleep(j)) /\ Sleep(j).current_thread = j.current_thread
    BY <1>2, SleepSound DEF Sound
  <2>2. /\ Sleep(j).state \in [Thread -> SUBSET StateBit]
        /\ Sleep(j).current_thread \in Thread
    BY <2>1 DEF KernelOK, KernelData
  <2>3. /\ AddCountSleep(Sleep(j)).state
             = [Sleep(j).state EXCEPT ![Sleep(j).current_thread] = @ \cup {"COUNTSLEEP"}]
        /\ AddCountSleep(Sleep(j)).priority = Sleep(j).priority
    BY <2>1, AddCountSleepFrame DEF AddCountSleep, KernelOK, KernelData
  <2>4. Steady(Sleep(j), AddCountSleep(Sleep(j)))
    BY <2>2, <2>3 DEF Steady
  <2>5. Steady(j, Sleep(j))
    BY <1>2, SleepSteady
  <2> QED
    BY <1>2, <2>4, <2>5, SteadyTrans
<1>3. /\ Sound(d, SetSleepReason(d, "WAIT")) /\ Steady(d, SetSleepReason(d, "WAIT"))
      /\ Sound(d, SetTimer(d, "TIMEOUT")) /\ Steady(d, SetTimer(d, "TIMEOUT"))
  BY <1>1, ReasonSound, TimerSound, ReasonSteady
<1>4. Steady(d, TakeWakeup(d))
  BY <1>1, CountSteady DEF TakeWakeup
<1>5. Steady(d, CountedSleep(d))
  BY <1>2, <1>3, <1>4 DEF CountedSleep, Sound
<1> DEFINE m == SetTimer(d, "TIMEOUT")
<1>6. KernelOK(m) /\ m.current_thread = c /\ Steady(d, m)
  BY <1>3 DEF Sound
<1>7. Steady(d, TimedCountedSleepPast(d))
  <2> HIDE DEF m
  <2>1. Steady(m, Alarm(m, c))
    BY <1>1, <1>6, AlarmSteady
  <2> QED
    BY <1>6, <2>1, SteadyTrans DEF TimedCountedSleepPast, m
<1>8. Steady(d, TimedCountedSleep(d))
  <2> HIDE DEF m
  <2>1. Sound(m, SetSleepReason(m, "TIMEOUT")) /\ Steady(m, SetSleepReason(m, "TIMEOUT"))
    BY <1>1, <1>6, ReasonSound, ReasonSteady
  <2>2. Steady(d, SetSleepReason(m, "TIMEOUT"))
    BY <1>6, <2>1, SteadyTrans
  <2> QED
    BY <1>2, <1>6, <2>1, <2>2 DEF TimedCountedSleep, Sound, m
<1> QED
  BY <1>4, <1>5, <1>7, <1>8

\* exit() and kill() of a thread that does not sleep; kill() of one that does
\* wakes it.
LEMMA ExitDies ==
  ASSUME NEW d, KernelOK(d), d.current_thread \in Target,
         ~Sleeps(d, d.current_thread)
  PROVE  Dies(d, Exit(d), d.current_thread)
<1> DEFINE c == d.current_thread
           j == ClearTimer(d, c)
<1>1. c \in Thread /\ d.state \in [Thread -> SUBSET StateBit]
  BY DEF Target, KernelOK, KernelData
<1>2. KernelOK(j) /\ j.state = d.state /\ j.priority = d.priority
  BY <1>1, TimerSound, ReasonPriority DEF Sound, KernelOK, Reason
<1>3. {"EXITED"} \in SUBSET StateBit
  BY DEF StateBit
<1>4. \/ Exit(d) = j /\ d.state[c] = {"EXITED"}
      \/ Exit(d) = SetState(j, c, {"EXITED"})
  BY ExitIsSetState
<1> HIDE DEF j
<1>5. /\ SetState(j, c, {"EXITED"}).state = [d.state EXCEPT ![c] = {"EXITED"}]
      /\ SetState(j, c, {"EXITED"}).priority = d.priority
  <2>1. j \in KernelData
    BY <1>2 DEF KernelOK
  <2>2. SetState(j, c, {"EXITED"}).priority = j.priority
    BY <1>1, <1>3, <2>1, SetStatePriority
  <2>3. SetState(j, c, {"EXITED"}).state = [j.state EXCEPT ![c] = {"EXITED"}]
    BY <1>2, <1>3, SetStateFrame
  <2> QED
    BY <1>2, <2>2, <2>3
<1>6. "SLEEPING" \notin d.state[c]
  BY DEF Sleeps, SLEEPSET
<1> QED
  BY <1>1, <1>2, <1>4, <1>5, <1>6 DEF Dies

LEMMA KillSteadyOrDies ==
  ASSUME NEW d, KernelOK(d), WaitOK(d), NEW t \in Target
  PROVE  Steady(d, Kill(d, t)) \/ Dies(d, Kill(d, t), t)
<1> DEFINE f == ForceResume(d, t)
           j == ClearTimer(f, t)
           g == SetState(j, t, {"EXITED"})
<1>1. t \in Thread /\ d.state \in [Thread -> SUBSET StateBit] /\ d \in KernelData
  BY DEF Target, KernelOK, KernelData
<1>2. /\ KernelOK(f) /\ Steady(d, f)
      /\ f.sleep_reason = d.sleep_reason
      /\ \A u \in Thread \ {t} : f.state[u] = d.state[u]
  <2>1. KernelOK(f) /\ Steady(d, f)
    BY ResumeSound, SuspensionSteady DEF Sound
  <2> DEFINE z == [d EXCEPT !.suspend_count[t] = 0]
  <2>2. KernelOK(z) /\ z.state = d.state /\ z.sleep_reason = d.sleep_reason
    BY <1>1, CountSound DEF Sound, KernelData
  <2>3. d.state[t] \ {"SUSPENDED"} \in SUBSET StateBit
    BY <1>1
  <2> HIDE DEF z
  <2>4. /\ SetState(z, t, d.state[t] \ {"SUSPENDED"}).state
             = [d.state EXCEPT ![t] = d.state[t] \ {"SUSPENDED"}]
        /\ SetState(z, t, d.state[t] \ {"SUSPENDED"}).sleep_reason = d.sleep_reason
    BY <2>2, <2>3, SetStateFrame DEF SameReasons
  <2>5. /\ ClearSuspension(d, t).sleep_reason = d.sleep_reason
        /\ \A u \in Thread \ {t} : ClearSuspension(d, t).state[u] = d.state[u]
    BY <1>1, <2>4 DEF ClearSuspension, z
  <2> QED
    BY <2>1, <2>5 DEF ForceResume
<1> HIDE DEF f
<1>3. /\ KernelOK(j) /\ Steady(d, j)
      /\ j.sleep_reason = d.sleep_reason /\ j.state = f.state
  <2>1. KernelOK(j) /\ j.state = f.state /\ Steady(f, j)
    BY <1>1, <1>2, TimerSound, ReasonSteady DEF Sound, Reason
  <2>2. j.sleep_reason = f.sleep_reason
    BY <1>1, <1>2, ClearTimerFrame DEF KernelOK
  <2> QED
    BY <1>2, <2>1, <2>2, SteadyTrans
<1> HIDE DEF j
<1>4. {"EXITED"} \in SUBSET StateBit /\ j.state \in [Thread -> SUBSET StateBit]
  BY <1>3 DEF StateBit, KernelOK, KernelData
<1>5. /\ KernelOK(g) /\ g.state = [j.state EXCEPT ![t] = {"EXITED"}]
      /\ g.priority = j.priority
  <2>1. j \in KernelData
    BY <1>3 DEF KernelOK
  <2>2. g.priority = j.priority
    BY <1>1, <1>4, <2>1, SetStatePriority
  <2>3. Sound(j, g) /\ g.state = [j.state EXCEPT ![t] = {"EXITED"}]
    BY <1>3, <1>4, SetStateSound
  <2> QED
    BY <2>2, <2>3 DEF Sound
<1> HIDE DEF g
<1>6. CASE j.wake_reason[t] # "EXIT" /\ j.sleep_reason[t] = "NONE"
  <2>1. ~Interruptible(d, t)
    BY <1>3, <1>6 DEF Interruptible
  <2>2. "SLEEPING" \notin d.state[t]
    BY <1>1, <2>1 DEF WaitOK, WaitOKAt, Sleeps, SLEEPSET
  <2>3. g.state[t] \cap SLEEPSET = {}
    BY <1>1, <1>4, <1>5 DEF SLEEPSET
  <2>4. Wake(g, t) = g
    BY <2>3 DEF Wake
  <2>5. Kill(d, t) = g
    BY <1>6, <2>4 DEF Kill, Interruptible, g, j, f
  <2>6. Dies(d, g, t)
    BY <1>1, <1>2, <1>3, <1>4, <1>5, <2>2 DEF Dies, Steady
  <2> QED
    BY <2>5, <2>6
<1>7. CASE ~(j.wake_reason[t] # "EXIT" /\ j.sleep_reason[t] = "NONE")
  <2>1. Steady(j, Wake(j, t)) /\ Steady(j, Wake(SetWakeReason(j, t, "EXIT"), t)) /\ Steady(j, j)
    BY <1>1, <1>3, WakeSteady, WakeWithSteady DEF Reason, Steady
  <2>2. Kill(d, t) \in {j, Wake(j, t), Wake(SetWakeReason(j, t, "EXIT"), t)}
    BY <1>7 DEF Kill, j, f
  <2>3. Steady(j, Kill(d, t))
    BY <2>1, <2>2
  <2> QED
    BY <1>3, <2>3, SteadyTrans
<1> QED
  BY <1>6, <1>7
------------------------------------------------------------------------------
(***************************************************************************)
(* Waits that begin after other calls of the same step, waits of condition *)
(* variables, and waits whose time is up before they begin.                *)
(***************************************************************************)
\* The running thread has gone to sleep on q, or been woken again at once;
\* threads may have been served from s before.
WaitsFor(d, e, q, s) ==
  LET c == d.current_thread
  IN  /\ WaitOK(e)
      /\ "SLEEPING" \in e.state[c] => e.queue[c] = q
      /\ "SLEEPING" \notin e.state[c] => /\ e.sleep_reason[c] = "NONE"
                                         /\ e.wake_reason[c] \in Broken
      /\ \A t \in Thread \ {c} : KeptAt(d, e, t) \/ ServedAt(d, e, t, s)

\* What every step here leaves of the waiters of a queue: nobody but the
\* running thread joins or leaves those woken, or joins those asleep.
Stays(r) ==
  /\ Woken(r) \ {Current} \subseteq Woken(r)'
  /\ ToSet(k'.wait_queue[r]) \ {Current} \subseteq ToSet(k.wait_queue[r])

LEMMA BlockedWaits ==
  ASSUME NEW d, NEW e, NEW q \in Queue, Blocked(d, e, q), NEW s,
         d.current_thread \in Thread
  PROVE  WaitsFor(d, e, q, s) /\ "SLEEPING" \in e.state[d.current_thread]
<1>1. q # NoQueue
  BY ThreadAssumption
<1> QED
  BY <1>1 DEF WaitsFor, Blocked, WaitOK, WaitOKAt

\* A change of priority afterwards, which may requeue the thread.
LEMMA WaitsThenKept ==
  ASSUME NEW d, NEW e, NEW f, NEW q, NEW s, WaitsFor(d, e, q, s),
         d.current_thread \in Thread, Kept(e, f), f.state = e.state
  PROVE  WaitsFor(d, f, q, s)
<1> DEFINE c == d.current_thread
<1>1. KeptAt(e, f, c) /\ WaitOK(f)
  BY DEF Kept
<1>2. /\ "SLEEPING" \in f.state[c] => f.queue[c] = q
      /\ "SLEEPING" \notin f.state[c] => /\ f.sleep_reason[c] = "NONE"
                                         /\ f.wake_reason[c] \in Broken
  BY <1>1 DEF WaitsFor, KeptAt, StillWaits
<1>3. ASSUME NEW t \in Thread \ {c}
      PROVE  KeptAt(d, f, t) \/ ServedAt(d, f, t, s)
  <2>1. KeptAt(e, f, t) /\ (KeptAt(d, e, t) \/ ServedAt(d, e, t, s)) /\ WaitOKAt(f, t)
    BY DEF WaitsFor, Kept, WaitOK
  <2>2. CASE KeptAt(d, e, t)
    BY <2>1, <2>2, KeptAtTrans
  <2>3. CASE ServedAt(d, e, t, s)
    BY <2>1, <2>3 DEF ServedAt, KeptAt, StillWaits, WaitOKAt, Sleeps, SLEEPSET
  <2> QED
    BY <2>1, <2>2, <2>3
<1> QED
  BY <1>1, <1>2, <1>3 DEF WaitsFor

\* A waiter woken before, as unlock() does in a condition wait.
LEMMA ServesThenWaits ==
  ASSUME NEW d, NEW e, NEW f, NEW q, NEW s, Serves(d, e, s),
         e.current_thread = d.current_thread, WaitsFor(e, f, q, NoQueue)
  PROVE  WaitsFor(d, f, q, s)
<1> DEFINE c == d.current_thread
<1>1. ASSUME NEW t \in Thread \ {c}
      PROVE  KeptAt(d, f, t) \/ ServedAt(d, f, t, s)
  <2>1. KeptAt(e, f, t) /\ (KeptAt(d, e, t) \/ ServedAt(d, e, t, s)) /\ WaitOKAt(f, t)
    BY DEF WaitsFor, Serves, ServedAt, WaitOK
  <2>2. CASE KeptAt(d, e, t)
    BY <2>1, <2>2, KeptAtTrans
  <2>3. CASE ServedAt(d, e, t, s)
    BY <2>1, <2>3 DEF ServedAt, KeptAt, StillWaits, WaitOKAt, Sleeps, SLEEPSET
  <2> QED
    BY <2>1, <2>2, <2>3
<1> QED
  BY <1>1 DEF WaitsFor

LEMMA WaitBegins ==
  ASSUME IInv, WaitInv, Current \in Target,
         NEW j, Sound(k, j), NEW q \in Queue, NEW s, WaitsFor(k, j, q, s),
         NEW timed \in BOOLEAN, NEW n \in InAWait,
         k' = j, pc' = "unlock", cont' = [cont EXCEPT ![Current] = n],
         waits' = [waits EXCEPT ![Current] = Wait(q, timed)]
  PROVE  /\ WaitInv' /\ NoneServed(s)
         /\ \A r \in Queue : /\ Stays(r)
                             /\ r # q => ToSet(k'.wait_queue[r])
                                           \subseteq ToSet(k.wait_queue[r])
<1>1. /\ Current \in Thread /\ Current = k.current_thread
      /\ cont \in [Thread -> Cont]
  BY DEF Target, Current, IInv, KernelInv, TypeOK
<1>2. Current' = Current
  BY DEF Sound, Current
<1>3. n \in Cont /\ q # NoQueue /\ q \in Queue \cup {NoQueue}
  BY ThreadAssumption DEF Cont, InAWait
<1>4. /\ WaitOK(k')
      /\ "SLEEPING" \in k'.state[Current] => k'.queue[Current] = q
      /\ "SLEEPING" \notin k'.state[Current] /\ q # NoQueue =>
           /\ k'.sleep_reason[Current] = "NONE"
           /\ k'.wake_reason[Current] \in Broken
      /\ \A t \in Thread \ {Current} : KeptAt(k, k', t) \/ ServedAt(k, k', t, s)
      /\ pc' \in {"boot", "user"} => ~Sleeps(k', Current)
  BY <1>1 DEF WaitsFor
<1> HIDE DEF Current
<1>5. /\ WaitInv' /\ NoneServed(s)
      /\ \A r \in Queue : /\ Woken(r) \ {Current} \subseteq Woken(r)'
                          /\ r # q => ToSet(k'.wait_queue[r])
                                        \subseteq ToSet(k.wait_queue[r])
                          /\ ToSet(k'.wait_queue[r]) \ {Current}
                               \subseteq ToSet(k.wait_queue[r])
  BY <1>1, <1>2, <1>3, <1>4, MoveWaits
<1> QED
  BY <1>5 DEF Stays

\* A step that begins no wait.
LEMMA NobodyLostStays ==
  ASSUME NEW S \in SUBSET {Current}, NobodyLost(S)
  PROVE  \A r \in Queue : /\ Stays(r)
                          /\ ToSet(k'.wait_queue[r]) \subseteq ToSet(k.wait_queue[r])
BY DEF NobodyLost, Stays

LEMMA EnqueueSound ==
  ASSUME NEW d, KernelOK(d), NEW q \in Queue, NEW t \in Thread
  PROVE  Sound(d, Enqueue(d, q, t))
<1>1. d \in KernelData
  BY DEF KernelOK
<1>2. /\ Enqueue(d, q, t) \in KernelData
      /\ SameScheduling(d, Enqueue(d, q, t))
  <2> DEFINE e == Enqueue(d, q, t)
  <2>1. e \in KernelData /\ e = [d EXCEPT !.wait_queue = e.wait_queue, !.queue = e.queue]
    BY <1>1, EnqueueProps
  <2> HIDE DEF e
  <2>2. SameScheduling(d, e)
    BY <1>1, <2>1 DEF KernelData, SameScheduling
  <2> QED
    BY <2>1, <2>2 DEF e
<1> QED
  BY <1>2, SameSchedulingOK

\* wait(timeout): the timer is set with the thread asleep already, and may go
\* off at once.
LEMMA TimedSleepWaits ==
  ASSUME NEW d, KernelOK(d), WaitOK(d), d.current_thread \in Target,
         ~Sleeps(d, d.current_thread), NEW q \in Queue, NEW s
  PROVE  LET c == d.current_thread
             m == SetTimer(Sleep(d), "TIMEOUT")
         IN  /\ Sound(d, Enqueue(m, q, c)) /\ WaitsFor(d, Enqueue(m, q, c), q, s)
             /\ Sound(d, Alarm(m, c)) /\ WaitsFor(d, Alarm(m, c), q, s)
<1> DEFINE c == d.current_thread
           i == Sleep(d)
           m == SetTimer(i, "TIMEOUT")
           e == Enqueue(m, q, c)
           a == Alarm(m, c)
<1>1. /\ c \in Thread /\ d.state \in [Thread -> SUBSET StateBit]
      /\ d.queue \in [Thread -> Queue \cup {NoQueue}]
      /\ d.sleep_reason \in [Thread -> Reason] /\ d.wake_reason \in [Thread -> Reason]
      /\ "TIMEOUT" \in Reason /\ "TIMEOUT" \in {"WAIT", "DELAY", "TIMEOUT"}
  BY DEF KernelOK, KernelData, Reason
<1>2. /\ SameReasons(d, i)
      /\ i.state = [d.state EXCEPT ![c] = @ \cup {"SLEEPING"}]
      /\ KernelOK(i) /\ i.current_thread = c
      /\ QueuedExactly(i) /\ i.queue = d.queue
      /\ Sound(d, i)
  BY SleepFrame, SleepQueues, SleepSound DEF WaitOK
<1> HIDE DEF i
<1>3. /\ m.state = i.state
      /\ m.sleep_reason = [i.sleep_reason EXCEPT ![c] = "TIMEOUT"]
      /\ m.wake_reason = [i.wake_reason EXCEPT ![c] = "NONE"]
  BY <1>1, <1>2, SetTimerFrame
<1>4. KernelOK(m) /\ SameQueues(i, m) /\ Sound(d, m)
  BY <1>1, <1>2, TimerSound, TimerQueues, SoundTrans DEF Sound
<1> HIDE DEF m
<1>5. FallsAsleep(d, m, "TIMEOUT")
  BY <1>1, <1>2, <1>3 DEF FallsAsleep, SameReasons
<1>6. /\ m.queue = d.queue /\ QueuedExactly(m) /\ d.queue[c] = NoQueue
      /\ m \in KernelData /\ m.current_thread = c
      /\ m.queue = [d.queue EXCEPT ![c] = NoQueue]
  <2>1. d.queue[c] = NoQueue
    BY <1>1 DEF WaitOK, WaitOKAt, Sleeps, SLEEPSET
  <2> QED
    BY <1>1, <1>2, <1>4, <2>1, SameQueuesExact DEF SameQueues, KernelOK, Sound
<1>7. /\ QueuedExactly(e) /\ e.queue = [m.queue EXCEPT ![c] = q]
      /\ SameReasonsAndState(m, e)
  BY <1>1, <1>6, EnqueueExact
<1>8. Sound(d, e)
  BY <1>1, <1>4, <1>6, EnqueueSound, SoundTrans
<1> HIDE DEF e
<1>9. WaitsFor(d, e, q, s)
  <2>1. FallsAsleep(d, e, "TIMEOUT") /\ "COUNTSLEEP" \notin e.state[c]
    BY <1>1, <1>2, <1>3, <1>5, <1>7 DEF FallsAsleep, SameReasonsAndState, Sleeps, SLEEPSET
  <2>2. e.queue = [d.queue EXCEPT ![c] = q]
    BY <1>6, <1>7
  <2>3. Blocked(d, e, q)
    BY <1>1, <1>7, <2>1, <2>2, AsleepBlocked
  <2> QED
    BY <1>1, <2>3, BlockedWaits
<1>10. Blocked(d, m, NoQueue)
  BY <1>1, <1>5, <1>6, AsleepBlocked
<1>11. Sound(d, a) /\ Kept(m, a)
  BY <1>1, <1>4, <1>10, AlarmSound, AlarmKept, SoundTrans DEF Blocked
<1>12. /\ "SLEEPING" \notin a.state[c] /\ a.sleep_reason[c] = "NONE"
       /\ a.wake_reason[c] = "TIMEOUT"
  <2>1. m.sleep_reason[c] = "TIMEOUT"
    BY <1>1, <1>2, <1>3 DEF SameReasons
  <2>2. a = Wake(SetWakeReason(ClearTimer(m, c), c, "TIMEOUT"), c)
    BY <2>1 DEF Alarm
  <2>3. WokenWith(m, a, c, "TIMEOUT")
    BY <1>1, <1>4, <2>2, ClearWakeWith
  <2> QED
    BY <1>1, <1>4, <2>3 DEF WokenWith, KernelOK, KernelData, SLEEPSET
<1> HIDE DEF a
<1>13. WaitsFor(d, a, q, s)
  <2>1. \A t \in Thread \ {c} : KeptAt(d, a, t)
    BY <1>10, <1>11, KeptAtTrans DEF Blocked, Kept
  <2> QED
    BY <1>11, <1>12, <2>1 DEF WaitsFor, Kept, Broken
<1> QED
  BY <1>8, <1>9, <1>11, <1>13 DEF m, e, a, i
\* A condition wait without a timeout falls asleep.
LEMMA CondSleepWaits ==
  ASSUME NEW d, KernelOK(d), WaitOK(d), d.current_thread \in Target,
         ~Sleeps(d, d.current_thread), NEW q \in Queue, NEW s
  PROVE  LET e == Enqueue(Sleep(SetSleepReason(d, "WAIT")), q, d.current_thread)
         IN  /\ Sound(d, e) /\ WaitsFor(d, e, q, s) /\ Steady(d, e)
             /\ Alone(d, e, d.current_thread)
<1> DEFINE c == d.current_thread
           j == SetSleepReason(d, "WAIT")
           i == Sleep(j)
           e == Enqueue(i, q, c)
<1>1. c \in Thread /\ "WAIT" \in {"WAIT", "TIMEOUT"} /\ "WAIT" \in Reason
  BY DEF Target, Reason
<1>2. /\ Sound(d, i) /\ FallsAsleep(d, i, "WAIT")
      /\ i.state[c] = d.state[c] \cup {"SLEEPING"}
      /\ QueuedExactly(i) /\ i.queue = d.queue
  BY <1>1, SleepForProps
<1>3. Steady(d, i)
  <2>1. KernelOK(j) /\ j.current_thread = c /\ Steady(d, j)
    BY <1>1, ReasonSound, ReasonSteady DEF Sound
  <2> HIDE DEF j
  <2>2. Steady(j, i)
    BY <2>1, SleepSteady
  <2> HIDE DEF i
  <2> QED
    BY <2>1, <2>2, SteadyTrans
<1> HIDE DEF i
<1>4. d.queue[c] = NoQueue
  BY <1>1 DEF WaitOK, WaitOKAt, Sleeps, SLEEPSET
<1>5. i \in KernelData /\ KernelOK(i)
  BY <1>2 DEF Sound, KernelOK
<1>6. /\ QueuedExactly(e) /\ e.queue = [d.queue EXCEPT ![c] = q]
      /\ SameReasonsAndState(i, e)
  BY <1>1, <1>2, <1>4, <1>5, EnqueueExact
<1>7. Sound(d, e)
  BY <1>1, <1>2, <1>5, EnqueueSound, SoundTrans
<1>8. e.priority = i.priority
  BY <1>5 DEF Enqueue, KernelData
<1> HIDE DEF e
<1>9. Steady(d, e)
  BY <1>3, <1>6, <1>8, SameSteady, SteadyTrans DEF SameReasonsAndState
<1>10. FallsAsleep(d, e, "WAIT") /\ "COUNTSLEEP" \notin e.state[c]
  BY <1>1, <1>2, <1>6 DEF FallsAsleep, SameReasonsAndState, Sleeps, SLEEPSET
<1>11. Blocked(d, e, q)
  BY <1>1, <1>6, <1>10, AsleepBlocked
<1>12. Alone(d, e, c)
  BY <1>10 DEF FallsAsleep, Alone
<1> QED
  BY <1>1, <1>7, <1>9, <1>11, <1>12, BlockedWaits DEF e, i, j

LEMMA TimedSleepSteady ==
  ASSUME NEW d, KernelOK(d), d.current_thread \in Target, NEW q \in Queue
  PROVE  LET c == d.current_thread
             m == SetTimer(Sleep(d), "TIMEOUT")
         IN  /\ Steady(d, Enqueue(m, q, c)) /\ Steady(d, Alarm(m, c))
             /\ Alone(d, Enqueue(m, q, c), c) /\ Alone(d, Alarm(m, c), c)
<1> DEFINE c == d.current_thread
           i == Sleep(d)
           m == SetTimer(i, "TIMEOUT")
           e == Enqueue(m, q, c)
<1>1. c \in Thread /\ "TIMEOUT" \in Reason
  BY DEF Target, Reason
<1>2. Steady(d, i) /\ KernelOK(i) /\ i.current_thread = c /\ Alone(d, i, c)
  <2>1. i.state = [d.state EXCEPT ![c] = @ \cup {"SLEEPING"}]
    BY SleepFrame
  <2>2. Steady(d, i) /\ KernelOK(i) /\ i.current_thread = c
    BY SleepSteady, SleepSound DEF Sound
  <2> HIDE DEF i
  <2> QED
    BY <2>1, <2>2 DEF Alone, KernelOK, KernelData
<1> HIDE DEF i
<1>3. Steady(i, m) /\ KernelOK(m) /\ m.state = i.state
  BY <1>1, <1>2, ReasonSteady, TimerSound DEF Sound
<1> HIDE DEF m
<1>4. e.priority = m.priority /\ e.state = m.state
  BY <1>3 DEF Enqueue, KernelOK, KernelData
<1>5. Steady(m, Alarm(m, c)) /\ Alone(m, Alarm(m, c), c)
  BY <1>1, <1>3, AlarmSteady, AlarmAlone
<1> HIDE DEF e
<1>6. Steady(m, e)
  BY <1>4, SameSteady
<1>7. Steady(d, m)
  BY <1>2, <1>3, SteadyTrans
<1>8. Steady(d, e) /\ Steady(d, Alarm(m, c))
  BY <1>5, <1>6, <1>7, SteadyTrans
<1>9. Alone(d, e, c) /\ Alone(d, Alarm(m, c), c)
  BY <1>2, <1>3, <1>4, <1>5 DEF Alone
<1> QED
  BY <1>8, <1>9 DEF e, m, i

------------------------------------------------------------------------------
(***************************************************************************)
(* The first waiter is taken off a queue, and woken.                       *)
(***************************************************************************)
TakenOff(d, e, q) ==
  LET h == Head(d.wait_queue[q])
  IN  /\ h \in Target /\ d.queue[h] = q
      /\ "SLEEPING" \in d.state[h] /\ Interruptible(d, h)
      /\ Sound(d, e) /\ WaitOK(e) /\ SameSleep(d, e)
      /\ e.priority = d.priority
      /\ e.queue[h] = NoQueue
      /\ e.wait_queue[q] = Tail(d.wait_queue[q])
      /\ \A u \in Thread \ {h} : KeptAt(d, e, u) /\ e.queue[u] = d.queue[u]

LEMMA DequeueTakesOff ==
  ASSUME NEW d, KernelOK(d), WaitOK(d), NEW q \in Queue, d.wait_queue[q] # <<>>
  PROVE  TakenOff(d, Dequeue(d, q), q)
<1> DEFINE h == Head(d.wait_queue[q])
           e == Dequeue(d, q)
<1>1. /\ h \in Thread /\ d.queue[h] = q
      /\ Sound(d, e) /\ QueuedExactly(e)
      /\ e.queue = [d.queue EXCEPT ![h] = NoQueue]
      /\ SameSleep(d, e)
  BY DequeueProps
<1>2. e.wait_queue[q] = Tail(d.wait_queue[q]) /\ e.priority = d.priority
  <2> DEFINE w == [d.wait_queue EXCEPT ![q] = Tail(@)]
             f == [d.queue EXCEPT ![h] = NoQueue]
  <2>1. e = [d EXCEPT !.wait_queue = w, !.queue = f]
    BY DEF Dequeue
  <2> HIDE DEF e, w, f
  <2>2. e.wait_queue = w /\ e.priority = d.priority
    BY <2>1 DEF KernelOK, KernelData
  <2> QED
    BY <2>2 DEF w, KernelOK, KernelData
<1> HIDE DEF e, h
<1>3. /\ d.queue \in [Thread -> Queue \cup {NoQueue}] /\ Running(d, Idle)
      /\ q # NoQueue
  BY ThreadAssumption DEF KernelOK, KernelData
<1>4. "SLEEPING" \in d.state[h] /\ Interruptible(d, h) /\ h # Idle
  BY <1>1, <1>3 DEF WaitOK, WaitOKAt, Sleeps, SLEEPSET, Running, RUNNING
<1>5. /\ e.queue[h] = NoQueue
      /\ \A u \in Thread \ {h} : e.queue[u] = d.queue[u]
  BY <1>1, <1>3
<1>6. /\ e.state = d.state /\ e.sleep_reason = d.sleep_reason
      /\ e.wake_reason = d.wake_reason
  BY <1>1 DEF SameSleep, SameReasons
<1>7. WaitOK(e)
  <2>1. ASSUME NEW t \in Thread PROVE WaitOKAt(e, t)
    <3>1. WaitOKAt(d, t)
      BY DEF WaitOK
    <3> QED
      BY <1>5, <1>6, <3>1 DEF WaitOKAt, Sleeps, Interruptible
  <2> QED
    BY <1>1, <2>1 DEF WaitOK
<1>8. \A u \in Thread \ {h} : KeptAt(d, e, u)
  BY <1>5, <1>6 DEF KeptAt, StillWaits, Sleeps
<1> QED
  BY <1>1, <1>2, <1>4, <1>5, <1>7, <1>8 DEF TakenOff, Target, h, e

\* A thread that is on no queue is woken with a reason.
WokenOff(d, e, t, r) ==
  /\ Sound(d, e) /\ WaitOK(e) /\ SameQueues(d, e) /\ Steady(d, e) /\ Alone(d, e, t)
  /\ ~Sleeps(e, t) /\ e.sleep_reason[t] = "NONE" /\ e.wake_reason[t] = r
  /\ \A u \in Thread \ {t} : KeptAt(d, e, u)

LEMMA WakeOff ==
  ASSUME NEW d, KernelOK(d), WaitOK(d), NEW t \in Thread, NEW r \in Reason,
         d.queue[t] = NoQueue
  PROVE  WokenOff(d, Wake(SetWakeReason(d, t, r), t), t, r)
<1> DEFINE j == SetWakeReason(d, t, r)
           e == Wake(j, t)
<1>1. Sound(d, j) /\ SameQueues(d, j)
  BY ReasonSound, ReasonQueues DEF KernelOK
<1>2. WokenWith(d, e, t, r) /\ Steady(d, e) /\ Alone(d, e, t)
  <2>1. WokenWith(d, e, t, r) /\ Steady(d, e)
    BY WakeWithFrame, WakeWithSteady
  <2> HIDE DEF e
  <2> QED
    BY <2>1 DEF WokenWith, Alone, KernelOK, KernelData
<1> HIDE DEF j
<1>3. KernelOK(j) /\ QueuedExactly(j) /\ j.queue = d.queue /\ j \in KernelData
  BY <1>1, SameQueuesExact DEF SameQueues, Sound, WaitOK, KernelOK
<1>4. /\ QueuedExactly(e) /\ e.queue = [j.queue EXCEPT ![t] = NoQueue]
      /\ Sound(j, e)
  <2>1. j.queue[t] # NoQueue => "SLEEPING" \in j.state[t]
    BY <1>3
  <2> QED
    BY <1>3, <2>1, WakeExact, WakeSound
<1>5. SameQueues(j, e)
  BY <1>3, WakeOffQueue
<1> HIDE DEF e
<1>6. SameQueues(d, e) /\ Sound(d, e) /\ e.queue = [d.queue EXCEPT ![t] = NoQueue]
  BY <1>1, <1>3, <1>4, <1>5, SoundTrans DEF SameQueues
<1>7. /\ WaitOK(e)
      /\ \A u \in Thread \ {t} : KeptAt(d, e, u)
      /\ e.queue[t] = NoQueue /\ ~Sleeps(e, t)
      /\ e.sleep_reason[t] = "NONE" /\ e.wake_reason[t] = r
  <2>1. QueuedExactly(e) /\ e.queue = [d.queue EXCEPT ![t] = NoQueue]
    BY <1>4, <1>6
  <2>2. WokenWith(d, e, t, r)
    BY <1>2
  <2> QED
    BY <2>1, <2>2, WokenProps
<1> QED
  BY <1>2, <1>6, <1>7 DEF WokenOff, e, j

\* release() of the first waiter of a queue.
LEMMA ReleaseHead ==
  ASSUME NEW d, KernelOK(d), WaitOK(d), NEW q \in Queue, d.wait_queue[q] # <<>>
  PROVE  LET e == Release(Dequeue(d, q), Head(d.wait_queue[q]))
         IN  /\ Sound(d, e) /\ Kept(d, e) /\ Steady(d, e)
             /\ e.wait_queue[q] = Tail(d.wait_queue[q])
<1> DEFINE h == Head(d.wait_queue[q])
           i == Dequeue(d, q)
           e == Release(i, h)
<1>1. TakenOff(d, i, q)
  BY DequeueTakesOff
<1> HIDE DEF i
<1>2. /\ h \in Target /\ h \in Thread /\ d.queue[h] = q /\ Interruptible(d, h)
      /\ Sound(d, i) /\ WaitOK(i) /\ SameSleep(d, i) /\ i.priority = d.priority
      /\ i.queue[h] = NoQueue /\ i.wait_queue[q] = Tail(d.wait_queue[q])
      /\ \A u \in Thread \ {h} : KeptAt(d, i, u)
  BY <1>1 DEF TakenOff, Target
<1> HIDE DEF h
<1>3. e = Wake(SetWakeReason(i, h, "BREAK"), h)
  BY <1>2 DEF Release, Interruptible, SameSleep, SameReasons
<1>4. WokenOff(i, e, h, "BREAK")
  BY <1>2, <1>3, WakeOff DEF Reason, Sound
<1> HIDE DEF e
<1>5. Steady(d, e)
  BY <1>2, <1>4, SameSteady, SteadyTrans DEF WokenOff, SameSleep
<1>6. /\ Sound(d, e) /\ WaitOK(e) /\ e.wait_queue[q] = Tail(d.wait_queue[q])
      /\ ~Sleeps(e, h) /\ e.sleep_reason[h] = "NONE" /\ e.wake_reason[h] = "BREAK"
      /\ \A u \in Thread \ {h} : KeptAt(i, e, u)
  BY <1>2, <1>4, SoundTrans DEF WokenOff, SameQueues
<1>7. KeptAt(d, e, h)
  BY <1>2, <1>6 DEF KeptAt, StillWaits, Sleeps, SLEEPSET, Interruptible, Broken
<1>8. Kept(d, e)
  BY <1>2, <1>6, <1>7, KeptAtTrans DEF Kept
<1> QED
  BY <1>5, <1>6, <1>8 DEF e, i, h

LEMMA WakeFirstSteady ==
  ASSUME NEW d, KernelOK(d), WaitOK(d), NEW q \in Queue
  PROVE  Steady(d, WakeFirst(d, q))
<1>1. CASE d.wait_queue[q] = <<>>
  BY <1>1, SameSteady DEF WakeFirst
<1>2. CASE d.wait_queue[q] # <<>>
  <2> DEFINE h == Head(d.wait_queue[q])
             i == Dequeue(d, q)
             e == Wake(SetWakeReason(i, h, "DONE"), h)
  <2>1. WakeFirst(d, q) = e
    BY <1>2 DEF WakeFirst, WakeDone
  <2>2. TakenOff(d, i, q)
    BY <1>2, DequeueTakesOff
  <2> HIDE DEF i
  <2>3. h \in Thread /\ KernelOK(i) /\ i.priority = d.priority /\ i.state = d.state
    BY <2>2 DEF TakenOff, Target, Sound, SameSleep
  <2> HIDE DEF h
  <2>4. Steady(i, e)
    BY <2>3, WakeWithSteady DEF Reason
  <2>5. Steady(d, i)
    BY <2>3, SameSteady
  <2> HIDE DEF e
  <2> QED
    BY <2>1, <2>4, <2>5, SteadyTrans
<1> QED
  BY <1>1, <1>2
------------------------------------------------------------------------------
(***************************************************************************)
(* release() and broadcast() go through a whole queue: the fold is that of *)
(* a sequence of rounds, and what holds after each round holds at the end. *)
(***************************************************************************)
ReleaseAll(b, x, q) == FoldLeft(LAMBDA j, t : Release(Dequeue(j, x), t), b, q)

WakeAll(b, x, q) == FoldLeft(LAMBDA j, t : WakeFirst(j, x), b, q)

ReleaseRounds(f, b, x, q, N) ==
  /\ f[0] = b
  /\ \A n \in 1 .. N : f[n] = Release(Dequeue(f[n - 1], x), q[n])
  /\ ReleaseAll(b, x, q) = f[N]

LEMMA ReleaseSteps ==
  ASSUME NEW b, NEW x, NEW q, NEW N \in Nat, DOMAIN q = 1 .. N
  PROVE  \E f : ReleaseRounds(f, b, x, q, N)
<1> DEFINE D == 1 .. N
           Phi(g) == [s \in SUBSET D |-> IF s = {} THEN b
                                         ELSE Release(Dequeue(g[s \ {Max(s)}], x), q[Max(s)])]
           iter == CHOOSE g : g = Phi(g)
           Good(n) == \E g : \A s \in SUBSET D : s \subseteq 1 .. n => g[s] = Phi(g)[s]
           G == {n \in 0 .. N : Good(n)}
\* The recursive function that FoldLeft chooses exists.
<1>1. \A n \in 0 .. N : n \in G
  <2>1. Good(0)
    <3> DEFINE g == [s \in SUBSET D |-> b]
    <3>1. \A s \in SUBSET D : s \subseteq 1 .. 0 => g[s] = Phi(g)[s]
      OBVIOUS
    <3> QED
      BY <3>1
  <2>2. ASSUME NEW n \in 1 .. N, Good(n - 1) PROVE Good(n)
    <3>1. PICK g : \A s \in SUBSET D : s \subseteq 1 .. n - 1 => g[s] = Phi(g)[s]
      BY <2>2
    <3> DEFINE h == Phi(g)
    <3>2. ASSUME NEW s \in SUBSET D, s \subseteq 1 .. n PROVE h[s] = Phi(h)[s]
      <4>1. CASE s = {}
        BY <4>1
      <4>2. CASE s # {}
        <5> DEFINE r == s \ {Max(s)}
        <5>1. Max(s) \in s /\ (\A y \in s : y <= Max(s))
          BY <4>2, MaxOf
        <5>2. r \in SUBSET D /\ r \subseteq 1 .. n - 1
          <6>1. \A y \in r : y \in 1 .. n /\ y <= Max(s) /\ y # Max(s)
            BY <5>1, <3>2
          <6>2. Max(s) \in 1 .. n
            BY <5>1, <3>2
          <6>3. \A y \in r : y \in 1 .. n - 1
            BY <6>1, <6>2
          <6> QED
            BY <6>3
        <5>3. g[r] = h[r]
          BY <5>2, <3>1
        <5> QED
          BY <4>2, <5>3
      <4> QED
        BY <4>1, <4>2
    <3> HIDE DEF h
    <3> QED
      BY <3>2
  <2> HIDE DEF Good
  <2>3. 0 \in G /\ \A n \in 1 .. N : n - 1 \in G => n \in G
    BY <2>1, <2>2
  <2> HIDE DEF G
  <2> QED
    BY <2>3, Induction
<1>2. iter = Phi(iter)
  <2>1. PICK g : \A s \in SUBSET D : s \subseteq 1 .. N => g[s] = Phi(g)[s]
    <3>1. Good(N)
      <4> HIDE DEF Good
      <4> QED
        BY <1>1
    <3> QED
      BY <3>1
  <2> DEFINE h == Phi(g)
  <2>2. ASSUME NEW s \in SUBSET D, s # {} PROVE h[s \ {Max(s)}] = g[s \ {Max(s)}]
    <3>1. s \ {Max(s)} \in SUBSET D
      OBVIOUS
    <3> HIDE DEF Phi
    <3> QED
      BY <3>1, <2>1
  <2>3. h = Phi(h)
    <3> HIDE DEF h
    <3>1. Phi(h) = Phi(g)
      BY <2>2
    <3> QED
      BY <3>1 DEF h
  <2> HIDE DEF Phi, h
  <2> QED
    BY <2>3
<1>3. ReleaseAll(b, x, q) = iter[D]
  BY Zenon DEF ReleaseAll, FoldLeft, MapThenFoldSet
<1> DEFINE f == [n \in 0 .. N |-> iter[1 .. n]]
<1>4. f[0] = b
  <2>1. 1 .. 0 = {}
    OBVIOUS
  <2> HIDE DEF iter
  <2> QED
    BY <1>2, <2>1
<1>5. ASSUME NEW n \in 1 .. N PROVE f[n] = Release(Dequeue(f[n - 1], x), q[n])
  <2> HIDE DEF iter
  <2>1. Max(1 .. n) = n
    <3>1. 1 .. n \in SUBSET (1 .. N) /\ 1 .. n # {} /\ n \in 1 .. n
      BY SMTT(30)
    <3>2. Max(1 .. n) \in 1 .. n /\ n <= Max(1 .. n)
      BY <3>1, MaxOf
    <3> QED
      BY <3>2
  <2>2. (1 .. n) \ {n} = 1 .. n - 1
    OBVIOUS
  <2>3. iter[1 .. n] = Release(Dequeue(iter[(1 .. n) \ {Max(1 .. n)}], x), q[Max(1 .. n)])
    <3>1. 1 .. n \in SUBSET D /\ n \in 1 .. n
      OBVIOUS
    <3> QED
      BY <1>2, <3>1
  <2>4. f[n] = iter[1 .. n] /\ f[n - 1] = iter[1 .. n - 1]
    OBVIOUS
  <2> HIDE DEF f
  <2> QED
    BY <2>1, <2>2, <2>3, <2>4
<1> HIDE DEF iter
<1>6. f[N] = iter[D]
  OBVIOUS
<1> HIDE DEF f
<1>7. ReleaseRounds(f, b, x, q, N)
  BY <1>3, <1>4, <1>5, <1>6 DEF ReleaseRounds
<1> QED
  BY <1>7

WakeRounds(f, b, x, q, N) ==
  /\ f[0] = b
  /\ \A n \in 1 .. N : f[n] = WakeFirst(f[n - 1], x)
  /\ WakeAll(b, x, q) = f[N]

LEMMA WakeSteps ==
  ASSUME NEW b, NEW x, NEW q, NEW N \in Nat, DOMAIN q = 1 .. N
  PROVE  \E f : WakeRounds(f, b, x, q, N)
<1> DEFINE D == 1 .. N
           Phi(g) == [s \in SUBSET D |-> IF s = {} THEN b
                                         ELSE WakeFirst(g[s \ {Max(s)}], x)]
           iter == CHOOSE g : g = Phi(g)
           Good(n) == \E g : \A s \in SUBSET D : s \subseteq 1 .. n => g[s] = Phi(g)[s]
           G == {n \in 0 .. N : Good(n)}
\* The recursive function that FoldLeft chooses exists.
<1>1. \A n \in 0 .. N : n \in G
  <2>1. Good(0)
    <3> DEFINE g == [s \in SUBSET D |-> b]
    <3>1. \A s \in SUBSET D : s \subseteq 1 .. 0 => g[s] = Phi(g)[s]
      OBVIOUS
    <3> QED
      BY <3>1
  <2>2. ASSUME NEW n \in 1 .. N, Good(n - 1) PROVE Good(n)
    <3>1. PICK g : \A s \in SUBSET D : s \subseteq 1 .. n - 1 => g[s] = Phi(g)[s]
      BY <2>2
    <3> DEFINE h == Phi(g)
    <3>2. ASSUME NEW s \in SUBSET D, s \subseteq 1 .. n PROVE h[s] = Phi(h)[s]
      <4>1. CASE s = {}
        BY <4>1
      <4>2. CASE s # {}
        <5> DEFINE r == s \ {Max(s)}
        <5>1. Max(s) \in s /\ (\A y \in s : y <= Max(s))
          BY <4>2, MaxOf
        <5>2. r \in SUBSET D /\ r \subseteq 1 .. n - 1
          <6>1. \A y \in r : y \in 1 .. n /\ y <= Max(s) /\ y # Max(s)
            BY <5>1, <3>2
          <6>2. Max(s) \in 1 .. n
            BY <5>1, <3>2
          <6>3. \A y \in r : y \in 1 .. n - 1
            BY <6>1, <6>2
          <6> QED
            BY <6>3
        <5>3. g[r] = h[r]
          BY <5>2, <3>1
        <5> QED
          BY <4>2, <5>3
      <4> QED
        BY <4>1, <4>2
    <3> HIDE DEF h
    <3> QED
      BY <3>2
  <2> HIDE DEF Good
  <2>3. 0 \in G /\ \A n \in 1 .. N : n - 1 \in G => n \in G
    BY <2>1, <2>2
  <2> HIDE DEF G
  <2> QED
    BY <2>3, Induction
<1>2. iter = Phi(iter)
  <2>1. PICK g : \A s \in SUBSET D : s \subseteq 1 .. N => g[s] = Phi(g)[s]
    <3>1. Good(N)
      <4> HIDE DEF Good
      <4> QED
        BY <1>1
    <3> QED
      BY <3>1
  <2> DEFINE h == Phi(g)
  <2>2. ASSUME NEW s \in SUBSET D, s # {} PROVE h[s \ {Max(s)}] = g[s \ {Max(s)}]
    <3>1. s \ {Max(s)} \in SUBSET D
      OBVIOUS
    <3> HIDE DEF Phi
    <3> QED
      BY <3>1, <2>1
  <2>3. h = Phi(h)
    <3> HIDE DEF h
    <3>1. Phi(h) = Phi(g)
      BY <2>2
    <3> QED
      BY <3>1 DEF h
  <2> HIDE DEF Phi, h
  <2> QED
    BY <2>3
<1>3. WakeAll(b, x, q) = iter[D]
  BY Zenon DEF WakeAll, FoldLeft, MapThenFoldSet
<1> DEFINE f == [n \in 0 .. N |-> iter[1 .. n]]
<1>4. f[0] = b
  <2>1. 1 .. 0 = {}
    OBVIOUS
  <2> HIDE DEF iter
  <2> QED
    BY <1>2, <2>1
<1>5. ASSUME NEW n \in 1 .. N PROVE f[n] = WakeFirst(f[n - 1], x)
  <2> HIDE DEF iter
  <2>1. Max(1 .. n) = n
    <3>1. 1 .. n \in SUBSET (1 .. N) /\ 1 .. n # {} /\ n \in 1 .. n
      BY SMTT(30)
    <3>2. Max(1 .. n) \in 1 .. n /\ n <= Max(1 .. n)
      BY <3>1, MaxOf
    <3> QED
      BY <3>2
  <2>2. (1 .. n) \ {n} = 1 .. n - 1
    OBVIOUS
  <2>3. iter[1 .. n] = WakeFirst(iter[(1 .. n) \ {Max(1 .. n)}], x)
    <3>1. 1 .. n \in SUBSET D /\ n \in 1 .. n
      OBVIOUS
    <3> QED
      BY <1>2, <3>1
  <2>4. f[n] = iter[1 .. n] /\ f[n - 1] = iter[1 .. n - 1]
    OBVIOUS
  <2> HIDE DEF f
  <2> QED
    BY <2>1, <2>2, <2>3, <2>4
<1> HIDE DEF iter
<1>6. f[N] = iter[D]
  OBVIOUS
<1> HIDE DEF f
<1>7. WakeRounds(f, b, x, q, N)
  BY <1>3, <1>4, <1>5, <1>6 DEF WakeRounds
<1> QED
  BY <1>7

\* The rounds of release(): the waiters left are those not yet reached.
Released(b, d, x, q, n) ==
  /\ Sound(b, d) /\ Kept(b, d) /\ Steady(b, d)
  /\ Len(d.wait_queue[x]) = Len(q) - n
  /\ \A i \in 1 .. Len(q) - n : d.wait_queue[x][i] = q[n + i]

LEMMA NextRelease ==
  ASSUME NEW b, KernelOK(b), WaitOK(b), NEW x \in Queue,
         NEW q, q = b.wait_queue[x], NEW n \in 1 .. Len(q),
         NEW d, Released(b, d, x, q, n - 1)
  PROVE  Released(b, Release(Dequeue(d, x), q[n]), x, q, n)
<1> DEFINE s == d.wait_queue[x]
           e == Release(Dequeue(d, x), q[n])
<1>1. /\ q \in Seq(Thread) /\ Len(q) \in Nat
      /\ KernelOK(d) /\ WaitOK(d) /\ s \in Seq(Thread) /\ Len(s) \in Nat
  <2>1. KernelOK(d) /\ WaitOK(d)
    BY DEF Released, Sound, Kept
  <2>2. d \in KernelData /\ b \in KernelData
    BY <2>1 DEF KernelOK
  <2>3. d.wait_queue[x] \in Seq(Thread) /\ b.wait_queue[x] \in Seq(Thread)
    BY <2>2 DEF KernelData
  <2> QED
    BY <2>1, <2>3
<1>2. /\ Len(s) = Len(q) - (n - 1)
      /\ \A i \in 1 .. Len(q) - (n - 1) : s[i] = q[n - 1 + i]
  BY DEF Released
<1> HIDE DEF s
<1>3. /\ Len(s) >= 1 /\ 1 \in 1 .. Len(q) - (n - 1) /\ n - 1 + 1 = n
  BY <1>1, <1>2
<1>4. s # <<>> /\ Head(s) = q[n]
  BY <1>1, <1>2, <1>3
<1>5. /\ Sound(d, e) /\ Kept(d, e) /\ Steady(d, e)
      /\ e.wait_queue[x] = Tail(s)
  BY <1>1, <1>4, ReleaseHead DEF s
<1> HIDE DEF e
<1>6. /\ Sound(b, e) /\ Kept(b, e) /\ Steady(b, e)
  BY <1>5, SoundTrans, KeptTrans, SteadyTrans DEF Released
<1>7. Len(Tail(s)) = Len(q) - n
  BY <1>1, <1>2, <1>4
<1>8. ASSUME NEW i \in 1 .. Len(q) - n PROVE Tail(s)[i] = q[n + i]
  <2>1. /\ i \in 1 .. Len(Tail(s)) /\ i + 1 \in 1 .. Len(q) - (n - 1)
        /\ n - 1 + (i + 1) = n + i
    BY <1>1, <1>7
  <2>2. Tail(s)[i] = s[i + 1]
    BY <1>1, <1>4, <2>1
  <2> QED
    BY <1>2, <2>1, <2>2
<1> QED
  BY <1>5, <1>6, <1>7, <1>8 DEF Released, e

LEMMA AllReleased ==
  ASSUME NEW b, KernelOK(b), WaitOK(b), NEW x \in Queue
  PROVE  LET e == ReleaseAll(b, x, b.wait_queue[x])
         IN  Sound(b, e) /\ Kept(b, e) /\ Steady(b, e)
<1> DEFINE q == b.wait_queue[x]
           N == Len(q)
<1>1. q \in Seq(Thread) /\ N \in Nat /\ DOMAIN q = 1 .. N
  BY DEF KernelOK, KernelData
<1> HIDE DEF q
<1>2. PICK f : ReleaseRounds(f, b, x, q, N)
  BY <1>1, ReleaseSteps
<1>3. /\ f[0] = b
      /\ \A n \in 1 .. N : f[n] = Release(Dequeue(f[n - 1], x), q[n])
      /\ ReleaseAll(b, x, q) = f[N]
  BY <1>2 DEF ReleaseRounds
<1>4. Released(b, f[0], x, q, 0)
  <2>1. Sound(b, b) /\ Kept(b, b) /\ Steady(b, b)
    BY SoundRefl, KeptRefl, SameSteady
  <2>2. N - 0 = N /\ \A i \in Int : 0 + i = i
    BY <1>1
  <2> QED
    BY <1>3, <2>1, <2>2 DEF Released, q
<1> DEFINE G == {n \in 0 .. N : Released(b, f[n], x, q, n)}
<1>5. 0 \in G
  BY <1>1, <1>4
<1>6. ASSUME NEW n \in 1 .. N, n - 1 \in G PROVE n \in G
  <2>1. Released(b, f[n - 1], x, q, n - 1)
    BY <1>6
  <2>2. Released(b, Release(Dequeue(f[n - 1], x), q[n]), x, q, n)
    BY <2>1, NextRelease DEF q
  <2> QED
    BY <1>1, <1>3, <2>2
<1> HIDE DEF G
<1>7. N \in G
  <2> DEFINE M == N
  <2>1. M \in Nat /\ 0 \in G /\ \A n \in 1 .. M : n - 1 \in G => n \in G
    BY <1>1, <1>5, <1>6
  <2>2. M \in 0 .. M
    BY <2>1
  <2> HIDE DEF M
  <2>3. M \in G
    BY <2>1, <2>2, Induction
  <2> QED
    BY <2>3 DEF M
<1> QED
  BY <1>3, <1>7 DEF G, Released, q

LEMMA AllWoken ==
  ASSUME NEW b, KernelOK(b), WaitOK(b), NEW x \in Queue
  PROVE  LET e == WakeAll(b, x, b.wait_queue[x])
         IN  Sound(b, e) /\ Serves(b, e, x) /\ Steady(b, e)
<1> DEFINE q == b.wait_queue[x]
           N == Len(q)
           Good(d) == Sound(b, d) /\ Serves(b, d, x) /\ Steady(b, d)
<1>1. q \in Seq(Thread) /\ N \in Nat /\ DOMAIN q = 1 .. N
  BY DEF KernelOK, KernelData
<1> HIDE DEF q
<1>2. PICK f : WakeRounds(f, b, x, q, N)
  BY <1>1, WakeSteps
<1>3. /\ f[0] = b
      /\ \A n \in 1 .. N : f[n] = WakeFirst(f[n - 1], x)
      /\ WakeAll(b, x, q) = f[N]
  BY <1>2 DEF WakeRounds
<1>4. Good(b)
  BY SoundRefl, KeptRefl, SameSteady DEF Kept, Serves
<1>5. ASSUME NEW d, Good(d) PROVE Good(WakeFirst(d, x))
  <2>1. KernelOK(d) /\ WaitOK(d)
    BY <1>5 DEF Sound, Serves
  <2>2. /\ Sound(d, WakeFirst(d, x)) /\ Serves(d, WakeFirst(d, x), x)
        /\ Steady(d, WakeFirst(d, x))
    BY <2>1, WakeFirstServes, WakeFirstSteady
  <2> QED
    BY <1>5, <2>1, <2>2, SoundTrans, ServesTrans, SteadyTrans
<1> HIDE DEF Good
<1> DEFINE G == {n \in 0 .. N : Good(f[n])}
<1>6. 0 \in G
  BY <1>1, <1>3, <1>4
<1>7. ASSUME NEW n \in 1 .. N, n - 1 \in G PROVE n \in G
  BY <1>1, <1>3, <1>5, <1>7
<1> HIDE DEF G
<1>8. N \in G
  <2> DEFINE M == N
  <2>1. M \in Nat /\ 0 \in G /\ \A n \in 1 .. M : n - 1 \in G => n \in G
    BY <1>1, <1>6, <1>7
  <2>2. M \in 0 .. M
    BY <2>1
  <2> HIDE DEF M
  <2>3. M \in G
    BY <2>1, <2>2, Induction
  <2> QED
    BY <2>3 DEF M
<1> QED
  BY <1>3, <1>8 DEF G, Good, q
==============================================================================
