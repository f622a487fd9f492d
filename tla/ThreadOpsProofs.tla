--------------------------- MODULE ThreadOpsProofs ---------------------------
(***************************************************************************)
(* Lemmas about the operators of ThreadOps: each keeps the invariant       *)
(* KernelOK of the kernel data and leaves the current thread alone.        *)
(***************************************************************************)
EXTENDS ThreadOps, CListProofs
------------------------------------------------------------------------------
\* HAL_LSBIT_INDEX: a bit map that is not zero has a least bit.
LEMMA LeastBit ==
  ASSUME NEW m \in SUBSET Priority, m # {}
  PROVE  \E p \in m : \A q \in m : p <= q
<1>1. MinPriority \in Nat
  BY ThreadAssumption
<1>2. m \subseteq Nat
  BY <1>1 DEF Priority
<1> QED
  BY <1>2, Least
------------------------------------------------------------------------------
(***************************************************************************)
(* Run queues.                                                             *)
(***************************************************************************)
\* The run queues hold the threads of R, each once and at its priority.
\* RunQueuesExact is the case where R is the set of runnable threads; in the
\* middle of set_priority a runnable thread is on no queue.
QueuesHold(R, d) ==
  \A p \in Priority :
    /\ ToSet(d.run_queue[p]) = {t \in R : d.priority[t] = p}
    /\ IsInjective(d.run_queue[p])
    /\ p \in d.queue_map <=> d.run_queue[p] # <<>>

Runnable(d) == {t \in Thread : Running(d, t)}

LEMMA ExactIsHold ==
  ASSUME NEW d
  PROVE  RunQueuesExact(d) <=> QueuesHold(Runnable(d), d)
  BY DEF RunQueuesExact, QueuesHold, Runnable

\* rem_thread takes a queued thread off the run queues.
LEMMA RemThreadProps ==
  ASSUME NEW d \in KernelData, NEW R, QueuesHold(R, d), NEW t \in Thread
  PROVE  LET e == RemThread(d, t)
         IN  /\ e \in KernelData
             /\ QueuesHold(R \ {t}, e)
             /\ e = [d EXCEPT !.run_queue = e.run_queue,
                              !.queue_map = e.queue_map]
<1> DEFINE p == d.priority[t]
           s == Without(d.run_queue[p], t)
           rq == [d.run_queue EXCEPT ![p] = s]
           qm == IF s = <<>> THEN d.queue_map \ {p} ELSE d.queue_map
           e == [d EXCEPT !.run_queue = rq, !.queue_map = qm]
<1>1. /\ d.run_queue \in [Priority -> Seq(Thread)]
      /\ d.queue_map \in SUBSET Priority
      /\ p \in Priority
  BY DEF KernelData
<1>2. RemThread(d, t) = e
  BY DEF RemThread
<1>3. /\ ToSet(d.run_queue[p]) = {u \in R : d.priority[u] = p}
      /\ IsInjective(d.run_queue[p])
  BY <1>1 DEF QueuesHold
<1>4. /\ s \in Seq(Thread)
      /\ ToSet(s) = ToSet(d.run_queue[p]) \ {t}
      /\ IsInjective(s)
  BY <1>1, <1>3, WithoutProps
<1> HIDE DEF s
<1>5. rq \in [Priority -> Seq(Thread)] /\ qm \in SUBSET Priority
  BY <1>1, <1>4
<1>6. \A q \in Priority : rq[q] = IF q = p THEN s ELSE d.run_queue[q]
  BY <1>1
<1>7. \A q \in Priority : q \in qm <=> rq[q] # <<>>
  <2>1. \A q \in Priority : q \in d.queue_map <=> d.run_queue[q] # <<>>
    BY DEF QueuesHold
  <2>2. d.run_queue[p] = <<>> => s = <<>>
    BY DEF s, Without, ToSet
  <2> QED
    BY <1>1, <1>6, <2>1, <2>2
<1>8. /\ p = d.priority[t]
      /\ \A q \in Priority : ToSet(rq[q]) = {u \in R \ {t} : d.priority[u] = q}
  <2>1. \A q \in Priority : ToSet(d.run_queue[q]) = {u \in R : d.priority[u] = q}
    BY DEF QueuesHold
  <2> QED
    BY <1>4, <1>6, <2>1
<1>9. \A q \in Priority : IsInjective(rq[q])
  BY <1>4, <1>6 DEF QueuesHold
<1> HIDE DEF p, rq, qm
<1>10. /\ e.run_queue = rq /\ e.queue_map = qm /\ e.priority = d.priority
       /\ e \in KernelData
  BY <1>5 DEF KernelData
<1>11. QueuesHold(R \ {t}, e)
  BY <1>7, <1>8, <1>9, <1>10 DEF QueuesHold
<1> QED
  BY <1>2, <1>10, <1>11

\* Cyg_SchedThread::remove touches the wait queues alone.
LEMMA RemoveFromQueueProps ==
  ASSUME NEW d \in KernelData, NEW t \in Thread
  PROVE  LET e == RemoveFromQueue(d, t)
         IN  /\ e \in KernelData
             /\ e = [d EXCEPT !.wait_queue = e.wait_queue, !.queue = e.queue]
<1>1. CASE d.queue[t] = NoQueue
  BY <1>1 DEF RemoveFromQueue, KernelData
<1>2. CASE d.queue[t] # NoQueue
  <2> DEFINE q == d.queue[t]
             w == [d.wait_queue EXCEPT ![q] = Without(d.wait_queue[q], t)]
             f == [d.queue EXCEPT ![t] = NoQueue]
             e == [d EXCEPT !.wait_queue = w, !.queue = f]
  <2>1. RemoveFromQueue(d, t) = e
    BY <1>2 DEF RemoveFromQueue
  <2>2. /\ d.wait_queue \in [Queue -> Seq(Thread)]
        /\ d.queue \in [Thread -> Queue \cup {NoQueue}]
        /\ q \in Queue
    BY <1>2 DEF KernelData
  <2>3. Without(d.wait_queue[q], t) \in Seq(Thread)
    BY <2>2, WithoutType
  <2>4. w \in [Queue -> Seq(Thread)] /\ f \in [Thread -> Queue \cup {NoQueue}]
    BY <2>2, <2>3
  <2> HIDE DEF w, f
  <2>5. e \in KernelData /\ e.wait_queue = w /\ e.queue = f
    BY <2>4 DEF KernelData
  <2> QED
    BY <2>1, <2>5
<1> QED
  BY <1>1, <1>2

\* add_thread queues a thread at the tail of its priority and notes whether
\* it is better than the current one.
LEMMA AddThreadProps ==
  ASSUME NEW d \in KernelData, NEW R, QueuesHold(R, d), NEW t \in Thread,
         t \notin R
  PROVE  LET e == AddThread(d, t)
         IN  /\ e \in KernelData
             /\ QueuesHold(R \cup {t}, e)
             /\ e.need_reschedule = (d.need_reschedule \/ Preempts(d, t))
             /\ e.state = d.state
             /\ e.priority = d.priority
             /\ e.current_thread = d.current_thread
<1> DEFINE j == RemoveFromQueue(d, t)
           p == d.priority[t]
           s == Append(d.run_queue[p], t)
           rq == [d.run_queue EXCEPT ![p] = s]
           qm == d.queue_map \cup {p}
           ts == [d.timeslice EXCEPT ![t] = TimesliceTicks]
           nr == d.need_reschedule \/ Preempts(d, t)
           e == [j EXCEPT !.run_queue = rq, !.queue_map = qm,
                          !.need_reschedule = nr, !.timeslice = ts]
<1>1. /\ d.run_queue \in [Priority -> Seq(Thread)]
      /\ d.queue_map \in SUBSET Priority
      /\ d.timeslice \in [Thread -> 0 .. TicksWrap]
      /\ p \in Priority
  BY DEF KernelData
<1>2. /\ j \in KernelData
      /\ j.run_queue = d.run_queue /\ j.queue_map = d.queue_map
      /\ j.timeslice = d.timeslice /\ j.need_reschedule = d.need_reschedule
      /\ j.state = d.state /\ j.priority = d.priority
      /\ j.current_thread = d.current_thread
  <2>1. /\ j \in KernelData
        /\ j = [d EXCEPT !.wait_queue = j.wait_queue, !.queue = j.queue]
    BY RemoveFromQueueProps
  <2> HIDE DEF j
  <2> QED
    BY <2>1 DEF KernelData
<1>3. AddThread(d, t) = e
  BY <1>2 DEF AddThread
<1>4. /\ ToSet(d.run_queue[p]) = {u \in R : d.priority[u] = p}
      /\ IsInjective(d.run_queue[p])
  BY <1>1 DEF QueuesHold
<1>5. /\ s \in Seq(Thread)
      /\ ToSet(s) = ToSet(d.run_queue[p]) \cup {t}
      /\ IsInjective(s)
      /\ s # <<>>
  <2>1. t \notin ToSet(d.run_queue[p])
    BY <1>4
  <2> QED
    BY <1>1, <1>4, <2>1, AppendProps
<1> HIDE DEF s
<1>6. /\ rq \in [Priority -> Seq(Thread)]
      /\ qm \in SUBSET Priority
      /\ nr \in BOOLEAN
  BY <1>1, <1>5 DEF KernelData, Preempts, Running
<1>7. ts \in [Thread -> 0 .. TicksWrap]
  <2>1. TimesliceTicks \in 0 .. TicksWrap
    BY ThreadAssumption
  <2> QED
    BY <1>1, <2>1
<1>8. \A q \in Priority : rq[q] = IF q = p THEN s ELSE d.run_queue[q]
  BY <1>1
<1>9. \A q \in Priority : q \in qm <=> rq[q] # <<>>
  BY <1>5, <1>8 DEF QueuesHold
<1>10. \A q \in Priority :
         ToSet(rq[q]) = {u \in R \cup {t} : d.priority[u] = q}
  <2>1. \A q \in Priority : ToSet(d.run_queue[q]) = {u \in R : d.priority[u] = q}
    BY DEF QueuesHold
  <2> QED
    BY <1>5, <1>8, <2>1
<1>11. \A q \in Priority : IsInjective(rq[q])
  BY <1>5, <1>8 DEF QueuesHold
<1> HIDE DEF p, rq, qm, ts, nr, j
<1>12. /\ e.run_queue = rq /\ e.queue_map = qm /\ e.priority = d.priority
       /\ e.need_reschedule = nr /\ e.state = d.state
       /\ e.current_thread = d.current_thread
       /\ e \in KernelData
  BY <1>2, <1>6, <1>7 DEF KernelData
<1>13. QueuesHold(R \cup {t}, e)
  BY <1>9, <1>10, <1>11, <1>12 DEF QueuesHold
<1> QED
  BY <1>3, <1>12, <1>13 DEF nr
------------------------------------------------------------------------------
(***************************************************************************)
(* The invariant of the kernel data.                                       *)
(***************************************************************************)
\* The idle thread never stops being runnable, so there is always a thread
\* to schedule; and a preemption is never forgotten.
KernelOK(d) ==
  /\ d \in KernelData
  /\ RunQueuesExact(d)
  /\ Running(d, Idle)
  /\ d.priority[Idle] = MinPriority
  /\ PreemptionNoted(d)

\* What an operation does: it keeps the invariant and the current thread.
Sound(d, e) == KernelOK(e) /\ e.current_thread = d.current_thread

\* Operations that leave scheduling alone.
SameScheduling(d, e) ==
  /\ e.state = d.state
  /\ e.priority = d.priority
  /\ e.run_queue = d.run_queue
  /\ e.queue_map = d.queue_map
  /\ e.current_thread = d.current_thread
  /\ e.need_reschedule = d.need_reschedule

LEMMA SameSchedulingOK ==
  ASSUME NEW d, KernelOK(d), NEW e \in KernelData, SameScheduling(d, e)
  PROVE  Sound(d, e)
  BY DEF Sound, KernelOK, SameScheduling, RunQueuesExact, Running, PreemptionNoted

LEMMA SoundTrans ==
  ASSUME NEW d, NEW e, NEW f, Sound(d, e), Sound(e, f)
  PROVE  Sound(d, f)
  BY DEF Sound

LEMMA SoundRefl ==
  ASSUME NEW d, KernelOK(d)
  PROVE  Sound(d, d)
  BY DEF Sound

\* Every write of thread->state, with its queueing, keeps the invariant.
LEMMA SetStateSound ==
  ASSUME NEW d, KernelOK(d), NEW t \in Target, NEW s \in SUBSET StateBit
  PROVE  /\ Sound(d, SetState(d, t, s))
         /\ SetState(d, t, s).state = [d.state EXCEPT ![t] = s]
<1> DEFINE st == [d.state EXCEPT ![t] = s]
           j == [d EXCEPT !.state = st]
<1>1. t \in Thread /\ t # Idle /\ Idle \in Thread
  BY ThreadAssumption DEF Target
<1>2. /\ d.state \in [Thread -> SUBSET StateBit]
      /\ d.priority \in [Thread -> Priority]
      /\ d.current_thread \in Thread
      /\ d.need_reschedule \in BOOLEAN
  BY DEF KernelOK, KernelData
<1>3. st \in [Thread -> SUBSET StateBit]
  BY <1>2
<1>4. /\ j \in KernelData
      /\ j.state = st /\ j.priority = d.priority
      /\ j.run_queue = d.run_queue /\ j.queue_map = d.queue_map
      /\ j.current_thread = d.current_thread
      /\ j.need_reschedule = d.need_reschedule
  <2> HIDE DEF st
  <2> QED
    BY <1>3 DEF KernelOK, KernelData
<1>5. \A u \in Thread : st[u] = IF u = t THEN s ELSE d.state[u]
  BY <1>2
<1>6. QueuesHold(Runnable(d), j)
  <2>1. QueuesHold(Runnable(d), d)
    BY ExactIsHold DEF KernelOK
  <2> HIDE DEF j
  <2> QED
    BY <2>1, <1>4 DEF QueuesHold
<1>7. [d EXCEPT !.state[t] = s] = j
  OBVIOUS
<1> HIDE DEF st, j
<1>8. Idle \in Thread /\ st[Idle] = RUNNING /\ d.priority[Idle] = MinPriority
  BY <1>1, <1>5 DEF KernelOK, Running
<1>9. CASE Running(d, t) /\ s # RUNNING
  <2> DEFINE e == RemThread(j, t)
  <2>1. SetState(d, t, s) = e
    BY <1>7, <1>9 DEF SetState
  <2>2. /\ e \in KernelData
        /\ QueuesHold(Runnable(d) \ {t}, e)
        /\ e = [j EXCEPT !.run_queue = e.run_queue, !.queue_map = e.queue_map]
    BY <1>1, <1>4, <1>6, RemThreadProps
  <2> HIDE DEF e
  <2>3. /\ e.state = st /\ e.priority = d.priority
        /\ e.current_thread = d.current_thread
        /\ e.need_reschedule = d.need_reschedule
    BY <1>4, <2>2 DEF KernelData
  <2>4. Runnable(e) = Runnable(d) \ {t}
    BY <1>5, <1>9, <2>3 DEF Runnable, Running
  <2>5. RunQueuesExact(e)
    BY <2>2, <2>4, ExactIsHold
  <2>6. PreemptionNoted(e)
    BY <2>3, <2>4 DEF KernelOK, PreemptionNoted, Runnable
  <2> QED
    BY <1>8, <2>1, <2>2, <2>3, <2>5, <2>6 DEF Sound, KernelOK, Running, st
<1>10. CASE ~Running(d, t) /\ s = RUNNING
  <2> DEFINE e == AddThread(j, t)
  <2>1. SetState(d, t, s) = e
    BY <1>7, <1>10 DEF SetState
  <2>2. /\ e \in KernelData
        /\ QueuesHold(Runnable(d) \cup {t}, e)
        /\ e.need_reschedule = (j.need_reschedule \/ Preempts(j, t))
        /\ e.state = st /\ e.priority = d.priority
        /\ e.current_thread = d.current_thread
    <3>1. t \notin Runnable(d)
      BY <1>10 DEF Runnable
    <3> QED
      BY <1>1, <1>4, <1>6, <3>1, AddThreadProps
  <2> HIDE DEF e
  <2>3. Runnable(e) = Runnable(d) \cup {t}
    BY <1>1, <1>5, <1>10, <2>2 DEF Runnable, Running
  <2>4. RunQueuesExact(e)
    BY <2>2, <2>3, ExactIsHold
  <2>5. PreemptionNoted(e)
    <3> SUFFICES ASSUME ~e.need_reschedule, NEW u \in Runnable(e)
                 PROVE  d.priority[d.current_thread] <= d.priority[u]
      BY <2>2 DEF PreemptionNoted, Runnable
    <3>1. ~d.need_reschedule /\ ~(d.priority[d.current_thread] > d.priority[t])
      BY <1>2, <1>4, <2>2 DEF Preempts
    <3>2. CASE u = t
      BY <1>1, <1>2, <3>1, <3>2, ThreadAssumption DEF Priority
    <3>3. CASE u # t
      BY <2>3, <3>1, <3>3 DEF KernelOK, PreemptionNoted, Runnable
    <3> QED
      BY <3>2, <3>3
  <2> QED
    BY <1>8, <2>1, <2>2, <2>4, <2>5 DEF Sound, KernelOK, Running, st
<1>11. CASE Running(d, t) <=> s = RUNNING
  <2>1. SetState(d, t, s) = j
    BY <1>7, <1>11 DEF SetState
  <2>2. Runnable(j) = Runnable(d)
    BY <1>4, <1>5, <1>11 DEF Runnable, Running
  <2>3. RunQueuesExact(j)
    BY <1>6, <2>2, ExactIsHold
  <2>4. PreemptionNoted(j)
    BY <1>4, <2>2 DEF KernelOK, PreemptionNoted, Runnable
  <2> QED
    BY <1>4, <1>8, <2>1, <2>3, <2>4 DEF Sound, KernelOK, Running, st
<1> QED
  BY <1>9, <1>10, <1>11
------------------------------------------------------------------------------
(***************************************************************************)
(* Sleeping and waking.                                                    *)
(***************************************************************************)
LEMMA ReasonSound ==
  ASSUME NEW d, KernelOK(d), NEW t \in Thread, NEW r \in Reason
  PROVE  /\ Sound(d, SetSleepReason(d, r))
         /\ Sound(d, SetWakeReason(d, t, r))
         /\ SetSleepReason(d, r).state = d.state
         /\ SetWakeReason(d, t, r).state = d.state
<1> DEFINE c == d.current_thread
           a == [d.sleep_reason EXCEPT ![c] = r]
           b == [d.wake_reason EXCEPT ![c] = "NONE"]
           f == [d.sleep_reason EXCEPT ![t] = "NONE"]
           g == [d.wake_reason EXCEPT ![t] = r]
           x == [d EXCEPT !.sleep_reason = a, !.wake_reason = b]
           y == [d EXCEPT !.sleep_reason = f, !.wake_reason = g]
<1>1. /\ d.sleep_reason \in [Thread -> Reason]
      /\ d.wake_reason \in [Thread -> Reason]
      /\ c \in Thread
  BY DEF KernelOK, KernelData
<1>2. /\ a \in [Thread -> Reason] /\ b \in [Thread -> Reason]
      /\ f \in [Thread -> Reason] /\ g \in [Thread -> Reason]
  BY <1>1 DEF Reason
<1>3. SetSleepReason(d, r) = x /\ SetWakeReason(d, t, r) = y
  BY DEF SetSleepReason, SetWakeReason
<1> HIDE DEF a, b, f, g
<1>4. x \in KernelData /\ SameScheduling(d, x)
  BY <1>2 DEF KernelOK, KernelData, SameScheduling
<1>5. y \in KernelData /\ SameScheduling(d, y)
  BY <1>2 DEF KernelOK, KernelData, SameScheduling
<1> HIDE DEF x, y
<1> QED
  BY <1>3, <1>4, <1>5, SameSchedulingOK DEF SameScheduling

LEMMA TimerSound ==
  ASSUME NEW d, KernelOK(d), NEW t \in Thread, NEW r \in Reason
  PROVE  /\ Sound(d, SetTimer(d, r))
         /\ SetTimer(d, r).state = d.state
         /\ Sound(d, ClearTimer(d, t))
         /\ ClearTimer(d, t).state = d.state
<1> DEFINE j == SetSleepReason(d, r)
           a == j.timer \cup {d.current_thread}
           b == d.timer \ {t}
           x == [j EXCEPT !.timer = a]
           y == [d EXCEPT !.timer = b]
<1>1. Sound(d, j) /\ j.state = d.state
  BY ReasonSound
<1>2. SetTimer(d, r) = x /\ ClearTimer(d, t) = y
  BY <1>1 DEF SetTimer, ClearTimer, Sound
<1> HIDE DEF j
<1>3. a \in SUBSET Thread /\ b \in SUBSET Thread
  BY <1>1 DEF Sound, KernelOK, KernelData
<1> HIDE DEF a, b
<1>4. x \in KernelData /\ SameScheduling(j, x)
  BY <1>1, <1>3 DEF Sound, KernelOK, KernelData, SameScheduling
<1>5. y \in KernelData /\ SameScheduling(d, y)
  BY <1>3 DEF KernelOK, KernelData, SameScheduling
<1> HIDE DEF x, y
<1>6. Sound(d, x) /\ x.state = d.state
  BY <1>1, <1>4, SameSchedulingOK, SoundTrans DEF Sound, SameScheduling
<1>7. Sound(d, y) /\ y.state = d.state
  BY <1>5, SameSchedulingOK DEF SameScheduling
<1> QED
  BY <1>2, <1>6, <1>7

LEMMA CountSound ==
  ASSUME NEW d, KernelOK(d), NEW t \in Thread, NEW n \in Nat
  PROVE  /\ Sound(d, [d EXCEPT !.suspend_count[t] = n])
         /\ Sound(d, [d EXCEPT !.wakeup_count[t] = n])
         /\ [d EXCEPT !.suspend_count[t] = n].state = d.state
<1> DEFINE a == [d.suspend_count EXCEPT ![t] = n]
           b == [d.wakeup_count EXCEPT ![t] = n]
           x == [d EXCEPT !.suspend_count = a]
           y == [d EXCEPT !.wakeup_count = b]
<1>1. a \in [Thread -> Nat] /\ b \in [Thread -> Nat]
  BY DEF KernelOK, KernelData
<1>2. /\ [d EXCEPT !.suspend_count[t] = n] = x
      /\ [d EXCEPT !.wakeup_count[t] = n] = y
  OBVIOUS
<1> HIDE DEF a, b
<1>3. x \in KernelData /\ SameScheduling(d, x)
  BY <1>1 DEF KernelOK, KernelData, SameScheduling
<1>4. y \in KernelData /\ SameScheduling(d, y)
  BY <1>1 DEF KernelOK, KernelData, SameScheduling
<1> HIDE DEF x, y
<1> QED
  BY <1>2, <1>3, <1>4, SameSchedulingOK DEF SameScheduling

LEMMA RemoveFromQueueSound ==
  ASSUME NEW d, KernelOK(d), NEW t \in Thread
  PROVE  /\ Sound(d, RemoveFromQueue(d, t))
         /\ RemoveFromQueue(d, t).state = d.state
<1> DEFINE e == RemoveFromQueue(d, t)
<1>1. /\ d \in KernelData
      /\ e \in KernelData
      /\ e = [d EXCEPT !.wait_queue = e.wait_queue, !.queue = e.queue]
  BY RemoveFromQueueProps DEF KernelOK
<1> HIDE DEF e
<1>2. SameScheduling(d, e)
  BY <1>1 DEF KernelData, SameScheduling
<1>3. Sound(d, e) /\ e.state = d.state
  BY <1>1, <1>2, SameSchedulingOK DEF SameScheduling
<1> QED
  BY <1>3 DEF e

\* The idle thread is never asleep, so waking it does nothing.
LEMMA WakeSound ==
  ASSUME NEW d, KernelOK(d), NEW t \in Thread
  PROVE  Sound(d, Wake(d, t))
<1>1. CASE d.state[t] \cap SLEEPSET = {}
  BY <1>1, SoundRefl DEF Wake
<1>2. CASE d.state[t] \cap SLEEPSET # {}
  <2> DEFINE j == RemoveFromQueue(d, t)
             s == d.state[t] \ SLEEPSET
  <2>1. t \in Target
    BY <1>2 DEF Target, KernelOK, Running, RUNNING
  <2>2. s \in SUBSET StateBit
    BY DEF KernelOK, KernelData
  <2>3. Sound(d, j)
    BY RemoveFromQueueSound
  <2>4. Sound(j, SetState(j, t, s))
    <3>1. KernelOK(j)
      BY <2>3 DEF Sound
    <3> HIDE DEF j, s
    <3> QED
      BY <2>1, <2>2, <3>1, SetStateSound
  <2>5. Wake(d, t) = SetState(j, t, s)
    BY <1>2 DEF Wake
  <2> QED
    BY <2>3, <2>4, <2>5, SoundTrans
<1> QED
  BY <1>1, <1>2

\* A write of wake_reason and the wake() that follows it.
LEMMA WakeWithReasonSound ==
  ASSUME NEW d, KernelOK(d), NEW t \in Thread, NEW r \in Reason
  PROVE  Sound(d, Wake(SetWakeReason(d, t, r), t))
<1> DEFINE j == SetWakeReason(d, t, r)
<1>1. Sound(d, j)
  BY ReasonSound
<1> HIDE DEF j
<1>2. Sound(j, Wake(j, t))
  BY <1>1, WakeSound DEF Sound
<1> QED
  BY <1>1, <1>2, SoundTrans DEF j

LEMMA AlarmSound ==
  ASSUME NEW d, KernelOK(d), NEW t \in Thread
  PROVE  Sound(d, Alarm(d, t))
<1> DEFINE j == ClearTimer(d, t)
<1>1. Sound(d, j)
  BY TimerSound DEF Reason
<1>2. Sound(j, Wake(SetWakeReason(j, t, "DONE"), t))
  BY <1>1, WakeWithReasonSound DEF Sound, Reason
<1>3. Sound(j, Wake(SetWakeReason(j, t, "TIMEOUT"), t))
  BY <1>1, WakeWithReasonSound DEF Sound, Reason
<1>4. \/ Alarm(d, t) = j
      \/ Alarm(d, t) = Wake(SetWakeReason(j, t, "DONE"), t)
      \/ Alarm(d, t) = Wake(SetWakeReason(j, t, "TIMEOUT"), t)
  BY DEF Alarm
<1> QED
  BY <1>1, <1>2, <1>3, <1>4, SoundTrans

LEMMA SleepSound ==
  ASSUME NEW d, KernelOK(d), d.current_thread \in Target
  PROVE  /\ Sound(d, Sleep(d))
         /\ ~Running(Sleep(d), d.current_thread)
<1> DEFINE c == d.current_thread
           s == d.state[c] \cup {"SLEEPING"}
<1>1. s \in SUBSET StateBit /\ d.state \in [Thread -> SUBSET StateBit] /\ c \in Thread
  BY DEF KernelOK, KernelData, StateBit
<1>2. Sleep(d) = SetState(d, c, s)
  BY DEF Sleep
<1>3. Sound(d, SetState(d, c, s)) /\ SetState(d, c, s).state = [d.state EXCEPT ![c] = s]
  BY <1>1, SetStateSound
<1>4. [d.state EXCEPT ![c] = s][c] = s /\ s # RUNNING
  BY <1>1 DEF RUNNING
<1> QED
  BY <1>2, <1>3, <1>4 DEF Running

LEMMA AddCountSleepSound ==
  ASSUME NEW d, KernelOK(d), d.current_thread \in Target,
         ~Running(d, d.current_thread)
  PROVE  Sound(d, AddCountSleep(d))
<1> DEFINE c == d.current_thread
           s == d.state[c] \cup {"COUNTSLEEP"}
<1>1. s \in SUBSET StateBit /\ s # RUNNING
  BY DEF KernelOK, KernelData, StateBit, RUNNING
<1>2. AddCountSleep(d) = SetState(d, c, s)
  BY <1>1 DEF AddCountSleep, SetState
<1> HIDE DEF s
<1>3. Sound(d, SetState(d, c, s))
  BY <1>1, SetStateSound
<1> QED
  BY <1>2, <1>3

LEMMA DelaySound ==
  ASSUME NEW d, KernelOK(d), d.current_thread \in Target
  PROVE  Sound(d, Delay(d)) /\ Sound(d, DelayPast(d))
<1> DEFINE j == Sleep(d)
           e == Delay(d)
<1>1. Sound(d, j)
  BY SleepSound
<1>2. Sound(d, e)
  <2>1. Sound(j, SetTimer(j, "DELAY"))
    BY <1>1, TimerSound DEF Sound, Reason, Target
  <2>2. e = SetTimer(j, "DELAY")
    BY DEF Delay
  <2> QED
    BY <1>1, <2>1, <2>2, SoundTrans
<1> HIDE DEF e
<1>3. Sound(e, Alarm(e, d.current_thread))
  BY <1>2, AlarmSound DEF Sound, Target
<1>4. Sound(d, Alarm(e, d.current_thread))
  BY <1>2, <1>3, SoundTrans
<1> QED
  BY <1>2, <1>4 DEF e, DelayPast

LEMMA TakeWakeupSound ==
  ASSUME NEW d, KernelOK(d), d.wakeup_count[d.current_thread] # 0
  PROVE  Sound(d, TakeWakeup(d))
<1> DEFINE n == d.wakeup_count[d.current_thread] - 1
<1>1. n \in Nat /\ d.current_thread \in Thread
  BY DEF KernelOK, KernelData
<1>2. TakeWakeup(d) = [d EXCEPT !.wakeup_count[d.current_thread] = n]
  BY DEF TakeWakeup
<1> HIDE DEF n
<1> QED
  BY <1>1, <1>2, CountSound, ZenonT(60)

LEMMA CountedSleepSound ==
  ASSUME NEW d, KernelOK(d), d.current_thread \in Target
  PROVE  Sound(d, CountedSleep(d))
<1>1. CASE d.wakeup_count[d.current_thread] = 0
  <2> DEFINE i == SetSleepReason(d, "WAIT")
             j == Sleep(i)
             e == AddCountSleep(j)
  <2>1. CountedSleep(d) = e
    BY <1>1 DEF CountedSleep
  <2>2. Sound(d, i)
    BY ReasonSound DEF Reason, Target
  <2> HIDE DEF i
  <2>3. Sound(i, j) /\ ~Running(j, j.current_thread)
    BY <2>2, SleepSound DEF Sound
  <2> HIDE DEF j
  <2>4. Sound(j, e)
    BY <2>2, <2>3, AddCountSleepSound DEF Sound
  <2> QED
    BY <2>1, <2>2, <2>3, <2>4, SoundTrans
<1>2. CASE d.wakeup_count[d.current_thread] # 0
  BY <1>2, TakeWakeupSound DEF CountedSleep
<1> QED
  BY <1>1, <1>2

LEMMA TimedCountedSleepSound ==
  ASSUME NEW d, KernelOK(d), d.current_thread \in Target
  PROVE  Sound(d, TimedCountedSleep(d)) /\ Sound(d, TimedCountedSleepPast(d))
<1> DEFINE h == SetTimer(d, "TIMEOUT")
           i == SetSleepReason(h, "TIMEOUT")
           j == Sleep(i)
           e == AddCountSleep(j)
<1>1. TimedCountedSleep(d) = e /\ TimedCountedSleepPast(d) = Alarm(h, d.current_thread)
  BY DEF TimedCountedSleep, TimedCountedSleepPast
<1>2. Sound(d, h)
  BY TimerSound DEF Reason, Target
<1> HIDE DEF h
<1>3. Sound(h, i)
  BY <1>2, ReasonSound DEF Sound, Reason, Target
<1> HIDE DEF i
<1>4. Sound(i, j) /\ ~Running(j, j.current_thread)
  BY <1>2, <1>3, SleepSound DEF Sound
<1> HIDE DEF j
<1>5. Sound(j, e)
  BY <1>2, <1>3, <1>4, AddCountSleepSound DEF Sound
<1>6. Sound(h, Alarm(h, d.current_thread))
  BY <1>2, AlarmSound DEF Sound, Target
<1> QED
  BY <1>1, <1>2, <1>3, <1>4, <1>5, <1>6, SoundTrans

LEMMA CountedWakeSound ==
  ASSUME NEW d, KernelOK(d), NEW t \in Thread
  PROVE  Sound(d, CountedWake(d, t)) /\ Sound(d, CancelCountedWake(d, t))
<1>3. Sound(d, CancelCountedWake(d, t))
  BY CountSound DEF CancelCountedWake
<1>1. CASE "COUNTSLEEP" \notin d.state[t]
  <2> DEFINE n == d.wakeup_count[t] + 1
  <2>1. n \in Nat
    BY DEF KernelOK, KernelData
  <2>2. CountedWake(d, t) = [d EXCEPT !.wakeup_count[t] = n]
    BY <1>1 DEF CountedWake
  <2> HIDE DEF n
  <2>3. Sound(d, [d EXCEPT !.wakeup_count[t] = n])
    BY <2>1, CountSound
  <2> QED
    BY <1>3, <2>2, <2>3
<1>2. CASE "COUNTSLEEP" \in d.state[t]
  BY <1>2, <1>3, WakeWithReasonSound DEF CountedWake, Reason
<1> QED
  BY <1>1, <1>2
------------------------------------------------------------------------------
(***************************************************************************)
(* Suspension, release and death.                                          *)
(***************************************************************************)
LEMMA SuspendSound ==
  ASSUME NEW d, KernelOK(d), NEW t \in Target
  PROVE  Sound(d, Suspend(d, t))
<1> DEFINE n == d.suspend_count[t] + 1
           j == [d EXCEPT !.suspend_count[t] = n]
           s == d.state[t] \cup {"SUSPENDED"}
<1>1. n \in Nat /\ s \in SUBSET StateBit /\ t \in Thread
  BY DEF KernelOK, KernelData, StateBit, Target
<1>2. Suspend(d, t) = SetState(j, t, s)
  BY DEF Suspend
<1> HIDE DEF n, s
<1>3. Sound(d, j)
  BY <1>1, CountSound
<1> HIDE DEF j
<1>4. Sound(j, SetState(j, t, s))
  BY <1>1, <1>3, SetStateSound DEF Sound
<1> QED
  BY <1>2, <1>3, <1>4, SoundTrans

LEMMA ClearSuspensionSound ==
  ASSUME NEW d, KernelOK(d), NEW t \in Target
  PROVE  Sound(d, ClearSuspension(d, t))
<1> DEFINE j == [d EXCEPT !.suspend_count[t] = 0]
           s == d.state[t] \ {"SUSPENDED"}
<1>1. s \in SUBSET StateBit /\ t \in Thread
  BY DEF KernelOK, KernelData, Target
<1>2. ClearSuspension(d, t) = SetState(j, t, s)
  BY DEF ClearSuspension
<1> HIDE DEF s
<1>3. Sound(d, j)
  BY <1>1, CountSound
<1> HIDE DEF j
<1>4. Sound(j, SetState(j, t, s))
  BY <1>1, <1>3, SetStateSound DEF Sound
<1> QED
  BY <1>2, <1>3, <1>4, SoundTrans

LEMMA ResumeSound ==
  ASSUME NEW d, KernelOK(d), NEW t \in Target
  PROVE  Sound(d, Resume(d, t)) /\ Sound(d, ForceResume(d, t))
<1>1. Sound(d, d) /\ Sound(d, ClearSuspension(d, t))
  BY SoundRefl, ClearSuspensionSound
<1>2. ASSUME d.suspend_count[t] > 1
      PROVE  Sound(d, [d EXCEPT !.suspend_count[t] = @ - 1])
  <2> DEFINE n == d.suspend_count[t] - 1
  <2>1. n \in Nat
    BY <1>2 DEF KernelOK, KernelData, Target
  <2>2. [d EXCEPT !.suspend_count[t] = @ - 1] = [d EXCEPT !.suspend_count[t] = n]
    OBVIOUS
  <2> HIDE DEF n
  <2> QED
    BY <2>1, <2>2, CountSound DEF Target
<1>3. /\ \/ Resume(d, t) \in {d, ClearSuspension(d, t)}
         \/ /\ d.suspend_count[t] > 1
            /\ Resume(d, t) = [d EXCEPT !.suspend_count[t] = @ - 1]
      /\ ForceResume(d, t) \in {d, ClearSuspension(d, t)}
  BY DEF Resume, ForceResume
<1> QED
  BY <1>1, <1>2, <1>3

LEMMA ReleaseSound ==
  ASSUME NEW d, KernelOK(d), NEW t \in Thread
  PROVE  Sound(d, Release(d, t))
  BY SoundRefl, WakeWithReasonSound DEF Release, Reason

\* rem_thread of a thread that does not run finds it on no run queue, so what
\* exit() does is the common idiom.
LEMMA ExitIsSetState ==
  ASSUME NEW d, KernelOK(d), d.current_thread \in Target
  PROVE  LET j == ClearTimer(d, d.current_thread)
         IN  \/ Exit(d) = j /\ d.state[d.current_thread] = {"EXITED"}
             \/ Exit(d) = SetState(j, d.current_thread, {"EXITED"})
<1> DEFINE c == d.current_thread
           j == ClearTimer(d, c)
           e == [j EXCEPT !.state[c] = {"EXITED"}]
<1>1. \/ Exit(d) = j /\ d.state[c] = {"EXITED"}
      \/ Exit(d) = RemThread(e, c)
  BY DEF Exit
<1>2. c \in Thread /\ KernelOK(j)
  BY TimerSound DEF Target, Reason, Sound
<1> HIDE DEF j
<1>3. {"EXITED"} # RUNNING
  BY DEF RUNNING
<1>4. Running(j, c) => RemThread(e, c) = SetState(j, c, {"EXITED"})
  BY <1>3 DEF SetState
<1>5. ASSUME ~Running(j, c)
      PROVE  RemThread(e, c) = SetState(j, c, {"EXITED"})
  <2> DEFINE p == j.priority[c]
  <2>1. /\ j \in KernelData
        /\ p \in Priority
        /\ j.run_queue \in [Priority -> Seq(Thread)]
    BY <1>2 DEF KernelOK, KernelData
  <2>2. c \notin ToSet(j.run_queue[p]) /\ (p \in j.queue_map <=> j.run_queue[p] # <<>>)
    BY <1>2, <1>5, <2>1 DEF KernelOK, RunQueuesExact
  <2>3. /\ e.run_queue = j.run_queue
        /\ e.queue_map = j.queue_map
        /\ e.priority = j.priority
        /\ e = [e EXCEPT !.run_queue = j.run_queue, !.queue_map = j.queue_map]
    BY <2>1 DEF KernelData
  <2>4. Without(e.run_queue[p], c) = j.run_queue[p]
    BY <2>2, <2>3 DEF Without
  <2>5. /\ [e.run_queue EXCEPT ![p] = j.run_queue[p]] = j.run_queue
        /\ (IF j.run_queue[p] = <<>> THEN e.queue_map \ {p} ELSE e.queue_map)
             = j.queue_map
    BY <2>1, <2>2, <2>3
  <2>6. RemThread(e, c)
          = [e EXCEPT !.run_queue = [e.run_queue EXCEPT ![p] = j.run_queue[p]],
                      !.queue_map = IF j.run_queue[p] = <<>>
                                    THEN e.queue_map \ {p} ELSE e.queue_map]
    <3> HIDE DEF e
    <3> QED
      BY <2>3, <2>4 DEF RemThread
  <2>7. RemThread(e, c) = e
    BY <2>3, <2>5, <2>6
  <2>8. SetState(j, c, {"EXITED"}) = e
    BY <1>3, <1>5 DEF SetState
  <2> QED
    BY <2>7, <2>8
<1> QED
  BY <1>1, <1>4, <1>5 DEF j

LEMMA ExitSound ==
  ASSUME NEW d, KernelOK(d), d.current_thread \in Target
  PROVE  Sound(d, Exit(d))
<1> DEFINE c == d.current_thread
           j == ClearTimer(d, c)
<1>1. Sound(d, j)
  BY TimerSound DEF Target, Reason
<1>2. Exit(d) = j \/ Exit(d) = SetState(j, c, {"EXITED"})
  BY ExitIsSetState
<1> HIDE DEF j
<1>3. Sound(j, SetState(j, c, {"EXITED"}))
  BY <1>1, SetStateSound, ZenonT(60) DEF Sound, StateBit
<1> QED
  BY <1>1, <1>2, <1>3, SoundTrans

LEMMA KillSound ==
  ASSUME NEW d, KernelOK(d), NEW t \in Target
  PROVE  Sound(d, Kill(d, t))
<1> DEFINE i == ForceResume(d, t)
           j == ClearTimer(i, t)
           e == SetState(j, t, {"EXITED"})
<1>1. t \in Thread
  BY DEF Target
<1>2. \/ Kill(d, t) = j
      \/ Kill(d, t) = Wake(j, t)
      \/ Kill(d, t) = Wake(e, t)
      \/ Kill(d, t) = Wake(SetWakeReason(j, t, "EXIT"), t)
  BY DEF Kill
<1>3. Sound(d, i)
  BY ResumeSound
<1> HIDE DEF i
<1>4. Sound(i, j)
  BY <1>1, <1>3, TimerSound DEF Sound, Reason
<1>5. Sound(d, j)
  BY <1>3, <1>4, SoundTrans
<1> HIDE DEF j
<1>6. Sound(j, Wake(j, t)) /\ Sound(j, Wake(SetWakeReason(j, t, "EXIT"), t))
  BY <1>1, <1>5, WakeSound, WakeWithReasonSound DEF Sound, Reason
<1>7. Sound(j, e)
  BY <1>5, SetStateSound, ZenonT(60) DEF Sound, StateBit
<1> HIDE DEF e
<1>8. Sound(e, Wake(e, t))
  BY <1>1, <1>7, WakeSound DEF Sound
<1> QED
  BY <1>2, <1>5, <1>6, <1>7, <1>8, SoundTrans
------------------------------------------------------------------------------
(***************************************************************************)
(* Priorities, rotation and timeslices.                                    *)
(***************************************************************************)
\* Reordering a run queue keeps the invariant if need_reschedule stays up.
LEMMA RearrangeSound ==
  ASSUME NEW d, KernelOK(d), NEW e \in KernelData,
         NEW p \in Priority, NEW s \in Seq(Thread),
         ToSet(s) = ToSet(d.run_queue[p]), IsInjective(s),
         s = <<>> <=> d.run_queue[p] = <<>>,
         e.run_queue = [d.run_queue EXCEPT ![p] = s],
         e.state = d.state, e.priority = d.priority,
         e.queue_map = d.queue_map, e.current_thread = d.current_thread,
         d.need_reschedule => e.need_reschedule
  PROVE  Sound(d, e)
<1>1. d.run_queue \in [Priority -> Seq(Thread)]
  BY DEF KernelOK, KernelData
<1>2. \A q \in Priority : e.run_queue[q] = IF q = p THEN s ELSE d.run_queue[q]
  BY <1>1
<1>3. RunQueuesExact(e)
  BY <1>2 DEF KernelOK, RunQueuesExact, Running
<1>4. PreemptionNoted(e)
  BY DEF KernelOK, PreemptionNoted, Running
<1> QED
  BY <1>3, <1>4 DEF Sound, KernelOK, Running

\* The run queue of a priority, rotated.
LEMMA RunQueueRotated ==
  ASSUME NEW d, KernelOK(d), NEW p \in Priority
  PROVE  LET s == Rotated(d.run_queue[p])
         IN  /\ s \in Seq(Thread)
             /\ ToSet(s) = ToSet(d.run_queue[p])
             /\ IsInjective(s)
             /\ s = <<>> <=> d.run_queue[p] = <<>>
             /\ [d.run_queue EXCEPT ![p] = s] \in [Priority -> Seq(Thread)]
<1> DEFINE r == d.run_queue[p]
<1>1. /\ d.run_queue \in [Priority -> Seq(Thread)]
      /\ r \in Seq(Thread) /\ IsInjective(r)
  BY DEF KernelOK, KernelData, RunQueuesExact
<1> HIDE DEF r
<1>2. /\ Rotated(r) \in Seq(Thread)
      /\ ToSet(Rotated(r)) = ToSet(r)
      /\ IsInjective(Rotated(r))
      /\ Rotated(r) = <<>> <=> r = <<>>
  BY <1>1, RotatedProps
<1> QED
  BY <1>1, <1>2 DEF r

LEMMA TimesliceSound ==
  ASSUME NEW d, KernelOK(d)
  PROVE  Sound(d, Timeslice(d))
<1> DEFINE c == d.current_thread
           p == d.priority[c]
           n == IF d.timeslice_count = 0 THEN TicksWrap ELSE d.timeslice_count - 1
           s == Rotated(d.run_queue[p])
           rq == [d.run_queue EXCEPT ![p] = s]
           nr == d.need_reschedule \/ Head(s) # c
           x == [d EXCEPT !.run_queue = rq, !.need_reschedule = nr,
                          !.timeslice_count = TimesliceTicks]
           y == [d EXCEPT !.timeslice_count = n]
<1>1. Timeslice(d) = IF n = 0 /\ Running(d, c) THEN x ELSE y
  BY DEF Timeslice
<1>2. /\ n \in 0 .. TicksWrap
      /\ TimesliceTicks \in 0 .. TicksWrap
      /\ nr \in BOOLEAN
      /\ p \in Priority
  <2>1. d.timeslice_count \in 0 .. TicksWrap
    BY DEF KernelOK, KernelData
  <2>2. d.need_reschedule \in BOOLEAN /\ p \in Priority
    BY DEF KernelOK, KernelData
  <2> QED
    BY <2>1, <2>2, ThreadAssumption
<1>3. /\ s \in Seq(Thread)
      /\ ToSet(s) = ToSet(d.run_queue[p]) /\ IsInjective(s)
      /\ s = <<>> <=> d.run_queue[p] = <<>>
      /\ rq \in [Priority -> Seq(Thread)]
  BY <1>2, RunQueueRotated
<1>4. /\ d.need_reschedule => nr
      /\ rq = [d.run_queue EXCEPT ![p] = s]
  OBVIOUS
<1> HIDE DEF n, nr, rq, s, p
<1>5. /\ x \in KernelData
      /\ x.run_queue = rq /\ x.need_reschedule = nr
      /\ x.state = d.state /\ x.priority = d.priority
      /\ x.queue_map = d.queue_map /\ x.current_thread = c
  BY <1>2, <1>3 DEF KernelOK, KernelData
<1>6. y \in KernelData /\ SameScheduling(d, y)
  BY <1>2 DEF KernelOK, KernelData, SameScheduling
<1> HIDE DEF x, y
<1>7. Sound(d, x)
  BY <1>2, <1>3, <1>4, <1>5, RearrangeSound
<1>8. Sound(d, y)
  BY <1>6, SameSchedulingOK
<1> QED
  BY <1>1, <1>7, <1>8

LEMMA YieldSound ==
  ASSUME NEW d, KernelOK(d)
  PROVE  Sound(d, Yield(d))
<1> DEFINE c == d.current_thread
           p == d.priority[c]
           s == Rotated(d.run_queue[p])
           rq == [d.run_queue EXCEPT ![p] = s]
           ts == [d.timeslice EXCEPT ![c] = TimesliceTicks]
           x == [d EXCEPT !.run_queue = rq, !.need_reschedule = TRUE]
           y == [d EXCEPT !.run_queue = rq, !.timeslice = ts]
<1>1. Yield(d) \in {d, x, y}
  BY DEF Yield
<1>2. p \in Priority
  BY DEF KernelOK, KernelData
<1>3. ts \in [Thread -> 0 .. TicksWrap]
  BY ThreadAssumption DEF KernelOK, KernelData
<1>4. /\ s \in Seq(Thread)
      /\ ToSet(s) = ToSet(d.run_queue[p]) /\ IsInjective(s)
      /\ s = <<>> <=> d.run_queue[p] = <<>>
      /\ rq \in [Priority -> Seq(Thread)]
  BY <1>2, RunQueueRotated
<1>5. rq = [d.run_queue EXCEPT ![p] = s]
  OBVIOUS
<1> HIDE DEF ts, rq, s, p
<1>6. /\ x \in KernelData
      /\ x.run_queue = rq /\ x.need_reschedule = TRUE
      /\ x.state = d.state /\ x.priority = d.priority
      /\ x.queue_map = d.queue_map /\ x.current_thread = c
  BY <1>4 DEF KernelOK, KernelData
<1>7. /\ y \in KernelData
      /\ y.run_queue = rq /\ y.need_reschedule = d.need_reschedule
      /\ y.state = d.state /\ y.priority = d.priority
      /\ y.queue_map = d.queue_map /\ y.current_thread = c
  BY <1>3, <1>4 DEF KernelOK, KernelData
<1> HIDE DEF x, y
<1>8. Sound(d, x)
  BY <1>2, <1>4, <1>5, <1>6, RearrangeSound
<1>9. Sound(d, y)
  BY <1>2, <1>4, <1>5, <1>7, RearrangeSound
<1> QED
  BY <1>1, <1>8, <1>9, SoundRefl

LEMMA RotateQueueSound ==
  ASSUME NEW d, KernelOK(d), NEW p \in Priority
  PROVE  Sound(d, RotateQueue(d, p))
<1> DEFINE s == Rotated(d.run_queue[p])
           rq == [d.run_queue EXCEPT ![p] = s]
           x == [d EXCEPT !.run_queue = rq, !.need_reschedule = TRUE]
<1>1. RotateQueue(d, p) \in {d, x}
  BY DEF RotateQueue
<1>2. /\ s \in Seq(Thread)
      /\ ToSet(s) = ToSet(d.run_queue[p]) /\ IsInjective(s)
      /\ s = <<>> <=> d.run_queue[p] = <<>>
      /\ rq \in [Priority -> Seq(Thread)]
  BY RunQueueRotated
<1>3. rq = [d.run_queue EXCEPT ![p] = s]
  OBVIOUS
<1> HIDE DEF rq, s
<1>4. /\ x \in KernelData
      /\ x.run_queue = rq /\ x.need_reschedule = TRUE
      /\ x.state = d.state /\ x.priority = d.priority
      /\ x.queue_map = d.queue_map /\ x.current_thread = d.current_thread
  BY <1>2 DEF KernelOK, KernelData
<1> HIDE DEF x
<1>5. Sound(d, x)
  BY <1>2, <1>3, <1>4, RearrangeSound
<1> QED
  BY <1>1, <1>5, SoundRefl

LEMMA ToQueueHeadSound ==
  ASSUME NEW d, KernelOK(d), NEW t \in Thread
  PROVE  Sound(d, ToQueueHead(d, t))
<1> DEFINE p == d.priority[t]
           q == d.queue[t]
           s == ToHead(d.run_queue[p], t)
           rq == [d.run_queue EXCEPT ![p] = s]
           w == [d.wait_queue EXCEPT ![q] = ToHead(d.wait_queue[q], t)]
           j == [d EXCEPT !.run_queue = rq]
           x == [d EXCEPT !.wait_queue = w]
           nr == j.need_reschedule \/ Preempts(j, t)
           y == [j EXCEPT !.need_reschedule = nr]
<1>1. /\ p \in Priority
      /\ d.run_queue[p] \in Seq(Thread) /\ IsInjective(d.run_queue[p])
      /\ d.run_queue \in [Priority -> Seq(Thread)]
      /\ d.wait_queue \in [Queue -> Seq(Thread)]
      /\ q \in Queue \cup {NoQueue}
  <2>1. p \in Priority
    BY DEF KernelOK, KernelData
  <2> QED
    BY <2>1 DEF KernelOK, KernelData, RunQueuesExact
<1>2. /\ s \in Seq(Thread)
      /\ ToSet(s) = ToSet(d.run_queue[p]) /\ IsInjective(s)
      /\ s = <<>> <=> d.run_queue[p] = <<>>
  BY <1>1, ToHeadProps
<1>3. rq \in [Priority -> Seq(Thread)] /\ rq = [d.run_queue EXCEPT ![p] = s]
  BY <1>1, <1>2
<1>4. ASSUME q # NoQueue PROVE w \in [Queue -> Seq(Thread)]
  <2>1. q \in Queue /\ d.wait_queue[q] \in Seq(Thread)
    BY <1>1, <1>4
  <2>2. ToHead(d.wait_queue[q], t) \in Seq(Thread)
    BY <2>1, ToHeadType
  <2> QED
    BY <1>1, <2>2
<1>5. ToQueueHead(d, t) \in {d, y} \/ (q # NoQueue /\ ToQueueHead(d, t) = x)
  BY DEF ToQueueHead, SetNeedReschedule
<1> HIDE DEF rq, s, w, p, q
<1>6. /\ j \in KernelData /\ j.need_reschedule = d.need_reschedule
  BY <1>3 DEF KernelOK, KernelData
<1>7. nr \in BOOLEAN /\ (d.need_reschedule => nr)
  BY <1>6 DEF KernelData, Preempts, Running
<1> HIDE DEF nr
<1>8. /\ y \in KernelData
      /\ y.run_queue = rq /\ y.need_reschedule = nr
      /\ y.state = d.state /\ y.priority = d.priority
      /\ y.queue_map = d.queue_map /\ y.current_thread = d.current_thread
  BY <1>3, <1>7 DEF KernelOK, KernelData
<1>9. ASSUME q # NoQueue PROVE x \in KernelData /\ SameScheduling(d, x)
  BY <1>4, <1>9 DEF KernelOK, KernelData, SameScheduling
<1> HIDE DEF x, y
<1>10. Sound(d, y)
  BY <1>1, <1>2, <1>3, <1>7, <1>8, RearrangeSound
<1>11. ASSUME q # NoQueue PROVE Sound(d, x)
  BY <1>9, <1>11, SameSchedulingOK
<1> QED
  BY <1>5, <1>10, <1>11, SoundRefl

LEMMA EnqueueProps ==
  ASSUME NEW d \in KernelData, NEW q \in Queue, NEW t \in Thread
  PROVE  LET e == Enqueue(d, q, t)
         IN  /\ e \in KernelData
             /\ e = [d EXCEPT !.wait_queue = e.wait_queue, !.queue = e.queue]
<1> DEFINE w == [d.wait_queue EXCEPT ![q] = Append(d.wait_queue[q], t)]
           f == [d.queue EXCEPT ![t] = q]
           e == [d EXCEPT !.wait_queue = w, !.queue = f]
<1>1. Enqueue(d, q, t) = e
  BY DEF Enqueue
<1>2. /\ d.wait_queue \in [Queue -> Seq(Thread)]
      /\ d.queue \in [Thread -> Queue \cup {NoQueue}]
  BY DEF KernelData
<1>3. /\ w \in [Queue -> Seq(Thread)]
      /\ f \in [Thread -> Queue \cup {NoQueue}]
  BY <1>2
<1> HIDE DEF w, f
<1>4. e \in KernelData /\ e.wait_queue = w /\ e.queue = f
  BY <1>3 DEF KernelData
<1> QED
  BY <1>1, <1>4

\* set_priority takes the thread off its queue, a runnable one too, for the
\* time of the write, and puts it back at its new place.
LEMMA SetPrioritySound ==
  ASSUME NEW d, KernelOK(d), NEW t \in Target, NEW p \in Priority
  PROVE  Sound(d, SetPriority(d, t, p))
<1> DEFINE asleep == "SLEEPING" \in d.state[t]
           q == d.queue[t]
           R == Runnable(d)
           out == CASE Running(d, t) -> RemThread(d, t)
                    [] asleep        -> RemoveFromQueue(d, t)
                    [] OTHER         -> d
           pr == [d.priority EXCEPT ![t] = p]
           moved == [out EXCEPT !.priority = pr]
           back == CASE Running(d, t)         -> AddThread(moved, t)
                     [] asleep /\ q # NoQueue -> Enqueue(moved, q, t)
                     [] OTHER                 -> moved
           nr == back.need_reschedule \/ Preempts(back, t)
           x == [back EXCEPT !.need_reschedule = TRUE]
           y == [back EXCEPT !.need_reschedule = nr]
<1>1. /\ t \in Thread /\ t # Idle /\ Idle \in Thread
      /\ d \in KernelData
      /\ d.priority \in [Thread -> Priority]
      /\ d.current_thread \in Thread
      /\ QueuesHold(R, d)
  BY ExactIsHold, ThreadAssumption DEF KernelOK, KernelData, Target
<1>2. Running(d, t) => ~asleep
  BY DEF Running, RUNNING
<1>3. /\ out \in KernelData
      /\ QueuesHold(R \ {t}, out)
      /\ out.state = d.state /\ out.priority = d.priority
      /\ out.current_thread = d.current_thread
      /\ out.need_reschedule = d.need_reschedule
  <2>1. CASE Running(d, t)
    <3> DEFINE e == RemThread(d, t)
    <3>1. out = e
      BY <1>2, <2>1
    <3>2. /\ e \in KernelData /\ QueuesHold(R \ {t}, e)
          /\ e = [d EXCEPT !.run_queue = e.run_queue, !.queue_map = e.queue_map]
      BY <1>1, RemThreadProps
    <3> HIDE DEF e, out, R
    <3> QED
      BY <1>1, <3>1, <3>2 DEF KernelData
  <2>2. CASE asleep
    <3> DEFINE e == RemoveFromQueue(d, t)
    <3>1. out = e
      BY <1>2, <2>2
    <3>2. /\ e \in KernelData
          /\ e = [d EXCEPT !.wait_queue = e.wait_queue, !.queue = e.queue]
      BY <1>1, RemoveFromQueueProps
    <3>3. R \ {t} = R
      BY <1>2, <2>2 DEF Runnable
    <3> HIDE DEF e, out, R
    <3>4. /\ e.state = d.state /\ e.priority = d.priority
          /\ e.run_queue = d.run_queue /\ e.queue_map = d.queue_map
          /\ e.current_thread = d.current_thread
          /\ e.need_reschedule = d.need_reschedule
      BY <1>1, <3>2 DEF KernelData
    <3> QED
      BY <1>1, <3>1, <3>2, <3>3, <3>4 DEF QueuesHold
  <2>3. CASE ~Running(d, t) /\ ~asleep
    <3>1. R \ {t} = R /\ out = d
      BY <2>3 DEF Runnable
    <3> QED
      BY <1>1, <3>1
  <2> QED
    BY <2>1, <2>2, <2>3
<1>4. pr \in [Thread -> Priority] /\ \A u \in Thread : u # t => pr[u] = d.priority[u]
  BY <1>1
<1>5. pr[t] = p
  BY <1>1
<1> HIDE DEF out, pr
<1>6. /\ moved \in KernelData
      /\ moved.state = d.state /\ moved.priority = pr
      /\ moved.run_queue = out.run_queue /\ moved.queue_map = out.queue_map
      /\ moved.current_thread = d.current_thread
      /\ moved.need_reschedule = d.need_reschedule
  BY <1>3, <1>4 DEF KernelData
<1> HIDE DEF moved
<1>7. QueuesHold(R \ {t}, moved)
  BY <1>1, <1>3, <1>4, <1>6 DEF QueuesHold, Runnable
<1>8. /\ back \in KernelData
      /\ QueuesHold(R, back)
      /\ back.state = d.state /\ back.priority = pr
      /\ back.current_thread = d.current_thread
      /\ d.need_reschedule => back.need_reschedule
  <2>1. CASE Running(d, t)
    <3> DEFINE e == AddThread(moved, t)
    <3>1. back = e
      BY <1>2, <2>1
    <3>2. /\ e \in KernelData
          /\ QueuesHold((R \ {t}) \cup {t}, e)
          /\ e.need_reschedule = (moved.need_reschedule \/ Preempts(moved, t))
          /\ e.state = moved.state /\ e.priority = moved.priority
          /\ e.current_thread = moved.current_thread
      BY <1>1, <1>6, <1>7, AddThreadProps
    <3>3. (R \ {t}) \cup {t} = R
      BY <1>1, <2>1 DEF Runnable
    <3> HIDE DEF e, back, R
    <3> QED
      BY <1>6, <3>1, <3>2, <3>3
  <2>2. CASE ~Running(d, t)
    <3>1. R \ {t} = R
      BY <2>2 DEF Runnable
    <3>2. CASE asleep /\ q # NoQueue
      <4> DEFINE e == Enqueue(moved, q, t)
      <4>1. back = e
        BY <2>2, <3>2
      <4>2. q \in Queue
        BY <1>1, <3>2 DEF KernelData
      <4> HIDE DEF q
      <4>3. /\ e \in KernelData
            /\ e = [moved EXCEPT !.wait_queue = e.wait_queue, !.queue = e.queue]
        BY <1>1, <1>6, <4>2, EnqueueProps
      <4> HIDE DEF e, back, R
      <4>4. /\ e.state = moved.state /\ e.priority = moved.priority
            /\ e.run_queue = moved.run_queue /\ e.queue_map = moved.queue_map
            /\ e.current_thread = moved.current_thread
            /\ e.need_reschedule = moved.need_reschedule
        BY <1>6, <4>3 DEF KernelData
      <4> QED
        BY <1>6, <1>7, <3>1, <4>1, <4>3, <4>4 DEF QueuesHold
    <3>3. CASE ~(asleep /\ q # NoQueue)
      <4>1. back = moved
        BY <2>2, <3>3
      <4> HIDE DEF back, R
      <4> QED
        BY <1>6, <1>7, <3>1, <4>1
    <3> QED
      BY <3>2, <3>3
  <2> QED
    BY <2>1, <2>2
<1>9. SetPriority(d, t, p) = IF t = d.current_thread THEN x ELSE y
  <2>1. moved = [out EXCEPT !.priority[t] = p]
    BY <1>3 DEF moved, pr
  <2> HIDE DEF moved
  <2> QED
    BY <2>1 DEF SetPriority, SetNeedReschedule, back, out
<1> HIDE DEF back, R
<1>10. nr \in BOOLEAN
  BY <1>8 DEF KernelData, Preempts, Running
<1>11. d.need_reschedule => nr
  BY <1>8
<1>12. /\ x \in KernelData
       /\ x.state = d.state /\ x.priority = pr
       /\ x.run_queue = back.run_queue /\ x.queue_map = back.queue_map
       /\ x.current_thread = d.current_thread
       /\ x.need_reschedule = TRUE
  BY <1>8 DEF KernelData
<1>13. /\ y.state = d.state /\ y.priority = pr
       /\ y.run_queue = back.run_queue /\ y.queue_map = back.queue_map
       /\ y.current_thread = d.current_thread
       /\ y.need_reschedule = nr
       /\ y \in KernelData
  <2> HIDE DEF nr
  <2> QED
    BY <1>8, <1>10 DEF KernelData
<1>14. Runnable(x) = R /\ Runnable(y) = R
  <2> HIDE DEF x, y
  <2> QED
    BY <1>12, <1>13 DEF R, Runnable, Running
<1> HIDE DEF x, y
<1>15. RunQueuesExact(x) /\ RunQueuesExact(y)
  <2>1. QueuesHold(R, x) /\ QueuesHold(R, y)
    BY <1>8, <1>12, <1>13 DEF QueuesHold
  <2> QED
    BY <1>14, <2>1, ExactIsHold
<1>16. d.state[Idle] = RUNNING /\ pr[Idle] = MinPriority
  BY <1>1, <1>4 DEF KernelOK, Running
<1>17. PreemptionNoted(x)
  BY <1>12 DEF PreemptionNoted
<1>18. ASSUME t # d.current_thread PROVE PreemptionNoted(y)
  <2> SUFFICES ASSUME ~nr, NEW u \in R
               PROVE  pr[d.current_thread] <= pr[u]
    BY <1>13, <1>14 DEF PreemptionNoted, Runnable
  <2>1. ~d.need_reschedule /\ ~(pr[d.current_thread] > pr[t])
    BY <1>8, <1>11 DEF Preempts
  <2>2. CASE u = t
    BY <1>1, <1>4, <2>1, <2>2, ThreadAssumption DEF Priority
  <2>3. CASE u # t
    <3>1. d.priority[d.current_thread] <= d.priority[u] /\ u \in Thread
      BY <2>1 DEF R, Runnable, KernelOK, PreemptionNoted
    <3> QED
      BY <1>1, <1>4, <1>18, <2>3, <3>1
  <2> QED
    BY <2>2, <2>3
<1>19. Sound(d, x)
  BY <1>12, <1>15, <1>16, <1>17 DEF Sound, KernelOK, Running
<1>20. ASSUME t # d.current_thread PROVE Sound(d, y)
  BY <1>13, <1>15, <1>16, <1>18, <1>20 DEF Sound, KernelOK, Running
<1> QED
  BY <1>9, <1>19, <1>20
------------------------------------------------------------------------------
(***************************************************************************)
(* Scheduling.                                                             *)
(***************************************************************************)
\* schedule() always finds a thread, and it finds one that is runnable and
\* has the best priority among the runnable ones.
THEOREM ScheduleIsBest ==
  ASSUME NEW d, KernelOK(d)
  PROVE  /\ Schedule(d) \in Thread
         /\ Running(d, Schedule(d))
         /\ \A t \in Thread :
              Running(d, t) => d.priority[Schedule(d)] <= d.priority[t]
<1> DEFINE p == TopPriority(d)
           s == d.run_queue[p]
<1>1. /\ MinPriority \in Priority /\ Idle \in Thread
      /\ d.queue_map \in SUBSET Priority
      /\ d.run_queue \in [Priority -> Seq(Thread)]
      /\ d.priority \in [Thread -> Priority]
  BY ThreadAssumption DEF Priority, KernelOK, KernelData
<1>2. \A t \in Thread : Running(d, t) => d.priority[t] \in d.queue_map
  <2> SUFFICES ASSUME NEW t \in Thread, Running(d, t)
               PROVE  d.priority[t] \in d.queue_map
    OBVIOUS
  <2>1. d.priority[t] \in Priority
    BY <1>1
  <2>2. t \in ToSet(d.run_queue[d.priority[t]])
    BY <2>1 DEF KernelOK, RunQueuesExact
  <2>3. d.run_queue[d.priority[t]] # <<>>
    BY <2>2 DEF ToSet
  <2> QED
    BY <2>1, <2>3 DEF KernelOK, RunQueuesExact
<1>3. d.queue_map # {}
  BY <1>1, <1>2 DEF KernelOK
<1>4. p \in d.queue_map /\ \A q \in d.queue_map : p <= q
  BY <1>1, <1>3, LeastBit DEF TopPriority
<1> HIDE DEF p
<1>5. s # <<>> /\ ToSet(s) = {t \in Thread : Running(d, t) /\ d.priority[t] = p}
  BY <1>1, <1>4 DEF KernelOK, RunQueuesExact
<1>6. s \in Seq(Thread)
  BY <1>1, <1>4
<1>7. Schedule(d) = Head(s)
  BY DEF Schedule, p
<1> HIDE DEF s
<1>8. Head(s) \in ToSet(s)
  <2>1. Head(s) = s[1] /\ 1 \in DOMAIN s
    BY <1>5, <1>6
  <2> QED
    BY <2>1 DEF ToSet
<1> QED
  BY <1>2, <1>4, <1>5, <1>7, <1>8
==============================================================================
