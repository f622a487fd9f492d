------------------------------ MODULE SleepProofs ------------------------------
(***************************************************************************)
(* Sleeping, waking and killing: a sleeper can always be woken, a queued   *)
(* wakeup is never slept through, a killed thread never runs on.           *)
(*                                                                         *)
(* SleepOK says of each thread that its state bits, its two reasons and    *)
(* its timer agree.  Every operation keeps it, and all but the calls that  *)
(* block only ever end a sleep (Gentle): that, with where each thread is   *)
(* in its call (InCall), gives the three properties.                       *)
(***************************************************************************)
EXTENDS SchedulerProofs

Sleeps(d, t) == d.state[t] \cap SLEEPSET # {}

SleepOKAt(d, t) ==
  /\ Sleeps(d, t) <=> Interruptible(d, t)
  /\ d.sleep_reason[t] \in {"NONE", "WAIT", "TIMEOUT", "DELAY"}
  /\ d.sleep_reason[t] \in {"DELAY", "TIMEOUT"} => t \in d.timer
  /\ "COUNTSLEEP" \in d.state[t] => d.wakeup_count[t] = 0
  /\ d.wake_reason[t] = "EXIT" => d.sleep_reason[t] = "NONE"
  /\ d.suspend_count[t] > 0 => "SUSPENDED" \in d.state[t] \/ "EXITED" \in d.state[t]

SleepOK(d) == \A t \in Thread : SleepOKAt(d, t)

\* t is not put to sleep, nor told to exit unless it sleeps; it does not come
\* back from its exit, nor forget that it was told to.
NotDisturbed(d, e, t) ==
  /\ Interruptible(e, t) => Interruptible(d, t)
  /\ e.wake_reason[t] = "EXIT" => d.wake_reason[t] = "EXIT" \/ Interruptible(d, t)
  /\ d.wake_reason[t] = "EXIT" => e.wake_reason[t] = "EXIT"
  /\ "EXITED" \in d.state[t] => "EXITED" \in e.state[t]

\* What the operations do that do not block, and those that do.
Gentle(d, e) == SleepOK(e) /\ \A t \in Thread : NotDisturbed(d, e, t)

Blocking(d, e) ==
  /\ SleepOK(e)
  /\ \A t \in Thread \ {d.current_thread} : NotDisturbed(d, e, t)
  /\ "EXITED" \in d.state[d.current_thread] => "EXITED" \in e.state[d.current_thread]

\* A thread that sleeps, or has been told to exit, is inside a call; the one
\* that runs its own code does not sleep.
InCall ==
  /\ \A t \in Thread :
       k.wake_reason[t] = "EXIT" \/ Interruptible(k, t) => cont[t] # "user"
  /\ pc \in {"boot", "user"} => ~Interruptible(k, Current)

SleepInv == SleepOK(k) /\ InCall
------------------------------------------------------------------------------
(***************************************************************************)
(* What the helpers leave alone.                                           *)
(***************************************************************************)
SameReasons(d, e) ==
  /\ e.sleep_reason = d.sleep_reason
  /\ e.wake_reason = d.wake_reason
  /\ e.timer = d.timer
  /\ e.wakeup_count = d.wakeup_count
  /\ e.suspend_count = d.suspend_count

SameSleep(d, e) == SameReasons(d, e) /\ e.state = d.state

LEMMA GentleTrans ==
  ASSUME NEW d, NEW e, NEW f, Gentle(d, e), Gentle(e, f)
  PROVE  Gentle(d, f)
  BY DEF Gentle, NotDisturbed

LEMMA SameSleepGentle ==
  ASSUME NEW d, NEW e, SleepOK(d), SameSleep(d, e)
  PROVE  Gentle(d, e)
  BY DEF SameSleep, SameReasons, SleepOK, SleepOKAt, Gentle, NotDisturbed,
         Sleeps, Interruptible

LEMMA RemThreadFrame ==
  ASSUME NEW d \in KernelData, NEW t \in Thread
  PROVE  SameSleep(d, RemThread(d, t))
<1> DEFINE p == d.priority[t]
           s == Without(d.run_queue[p], t)
           rq == [d.run_queue EXCEPT ![p] = s]
           qm == IF s = <<>> THEN d.queue_map \ {p} ELSE d.queue_map
<1>1. RemThread(d, t) = [d EXCEPT !.run_queue = rq, !.queue_map = qm]
  BY DEF RemThread
<1> HIDE DEF rq, qm
<1> QED
  BY <1>1 DEF SameSleep, SameReasons, KernelData

LEMMA RemoveFromQueueFrame ==
  ASSUME NEW d \in KernelData, NEW t \in Thread
  PROVE  /\ RemoveFromQueue(d, t) \in KernelData
         /\ SameSleep(d, RemoveFromQueue(d, t))
<1> DEFINE e == RemoveFromQueue(d, t)
<1>1. /\ e \in KernelData
      /\ e = [d EXCEPT !.wait_queue = e.wait_queue, !.queue = e.queue]
  BY RemoveFromQueueProps
<1> HIDE DEF e
<1>2. SameSleep(d, e)
  BY <1>1 DEF SameSleep, SameReasons, KernelData
<1> QED
  BY <1>1, <1>2 DEF e

LEMMA AddThreadFrame ==
  ASSUME NEW d \in KernelData, NEW t \in Thread
  PROVE  AddThread(d, t) \in KernelData /\ SameSleep(d, AddThread(d, t))
<1> DEFINE j == RemoveFromQueue(d, t)
           p == d.priority[t]
           rq == [j.run_queue EXCEPT ![p] = Append(@, t)]
           qm == j.queue_map \cup {p}
           nr == j.need_reschedule \/ Preempts(d, t)
           ts == [j.timeslice EXCEPT ![t] = TimesliceTicks]
<1>1. AddThread(d, t) = [j EXCEPT !.run_queue = rq, !.queue_map = qm,
                                  !.need_reschedule = nr, !.timeslice = ts]
  BY DEF AddThread
<1>2. j \in KernelData /\ SameSleep(d, j)
  BY RemoveFromQueueFrame
<1>3. /\ rq \in [Priority -> Seq(Thread)] /\ qm \in SUBSET Priority
      /\ ts \in [Thread -> 0 .. TicksWrap] /\ nr \in BOOLEAN
  <2> HIDE DEF j
  <2>1. p \in Priority /\ j.run_queue[p] \in Seq(Thread)
    BY <1>2 DEF KernelData
  <2>2. Append(j.run_queue[p], t) \in Seq(Thread)
    BY <2>1, AppendProperties
  <2>3. rq \in [Priority -> Seq(Thread)]
    <3> HIDE DEF p
    <3> QED
      BY <1>2, <2>1, <2>2 DEF KernelData
  <2>4. ts \in [Thread -> 0 .. TicksWrap] /\ TimesliceTicks \in 0 .. TicksWrap
    BY <1>2, ThreadAssumption DEF KernelData
  <2>5. nr \in BOOLEAN
    OBVIOUS
  <2> QED
    BY <1>2, <2>1, <2>3, <2>4, <2>5 DEF KernelData
<1> HIDE DEF j, rq, qm, nr, ts
<1> QED
  BY <1>1, <1>2, <1>3, ZenonT(60) DEF SameSleep, SameReasons, KernelData

LEMMA SetStateFrame ==
  ASSUME NEW d, KernelOK(d), NEW t \in Target, NEW s \in SUBSET StateBit
  PROVE  /\ SameReasons(d, SetState(d, t, s))
         /\ SetState(d, t, s).state = [d.state EXCEPT ![t] = s]
<1> DEFINE st == [d.state EXCEPT ![t] = s]
           j == [d EXCEPT !.state = st]
<1>1. t \in Thread /\ st \in [Thread -> SUBSET StateBit]
  BY DEF Target, KernelOK, KernelData
<1>2. SetState(d, t, s) \in {RemThread(j, t), AddThread(j, t), j}
  BY DEF SetState
<1> HIDE DEF st
<1>3. j \in KernelData /\ SameReasons(d, j)
  BY <1>1 DEF KernelOK, KernelData, SameReasons
<1> HIDE DEF j
<1>4. SameReasons(d, SetState(d, t, s))
  BY <1>1, <1>2, <1>3, RemThreadFrame, AddThreadFrame DEF SameSleep, SameReasons
<1> QED
  BY <1>4, SetStateSound

\* wake() clears the sleep bits and nothing else of these.
LEMMA WakeFrame ==
  ASSUME NEW d, KernelOK(d), NEW t \in Thread
  PROVE  /\ SameReasons(d, Wake(d, t))
         /\ Wake(d, t).state = [d.state EXCEPT ![t] = @ \ SLEEPSET]
<1>0. d \in KernelData /\ d.state \in [Thread -> SUBSET StateBit]
  BY DEF KernelOK, KernelData
<1>1. CASE d.state[t] \cap SLEEPSET = {}
  <2>1. d.state[t] \ SLEEPSET = d.state[t]
    BY <1>1
  <2>2. [d.state EXCEPT ![t] = d.state[t] \ SLEEPSET] = d.state
    BY <1>0, <2>1
  <2> QED
    BY <1>1, <2>2 DEF Wake, SameReasons
<1>2. CASE d.state[t] \cap SLEEPSET # {}
  <2> DEFINE j == RemoveFromQueue(d, t)
             s == d.state[t] \ SLEEPSET
  <2>1. t \in Target
    BY <1>2 DEF Target, KernelOK, Running, RUNNING
  <2>2. s \in SUBSET StateBit
    BY <1>0
  <2>3. KernelOK(j) /\ SameSleep(d, j)
    BY <1>0, RemoveFromQueueSound, RemoveFromQueueFrame DEF Sound
  <2>4. Wake(d, t) = SetState(j, t, s)
    BY <1>2 DEF Wake
  <2> HIDE DEF j
  <2>5. /\ SameReasons(j, SetState(j, t, s))
        /\ SetState(j, t, s).state = [j.state EXCEPT ![t] = s]
    <3> HIDE DEF s
    <3> QED
      BY <2>1, <2>2, <2>3, SetStateFrame
  <2> QED
    BY <2>3, <2>4, <2>5 DEF SameSleep, SameReasons
<1> QED
  BY <1>1, <1>2

LEMMA ReasonFrame ==
  ASSUME NEW d \in KernelData, NEW t \in Thread, NEW r \in Reason
  PROVE  /\ SetWakeReason(d, t, r).state = d.state
         /\ SetWakeReason(d, t, r).timer = d.timer
         /\ SetWakeReason(d, t, r).wakeup_count = d.wakeup_count
         /\ SetWakeReason(d, t, r).suspend_count = d.suspend_count
         /\ SetWakeReason(d, t, r).sleep_reason = [d.sleep_reason EXCEPT ![t] = "NONE"]
         /\ SetWakeReason(d, t, r).wake_reason = [d.wake_reason EXCEPT ![t] = r]
<1> DEFINE f == [d.sleep_reason EXCEPT ![t] = "NONE"]
           g == [d.wake_reason EXCEPT ![t] = r]
<1>1. SetWakeReason(d, t, r) = [d EXCEPT !.sleep_reason = f, !.wake_reason = g]
  BY DEF SetWakeReason
<1> HIDE DEF f, g
<1>2. LET e == [d EXCEPT !.sleep_reason = f, !.wake_reason = g]
      IN  /\ e.state = d.state /\ e.timer = d.timer
          /\ e.wakeup_count = d.wakeup_count
          /\ e.suspend_count = d.suspend_count
          /\ e.sleep_reason = f /\ e.wake_reason = g
  BY DEF KernelData
<1> QED
  BY <1>1, <1>2 DEF f, g

LEMMA SleepReasonFrame ==
  ASSUME NEW d \in KernelData, NEW r \in Reason
  PROVE  LET e == SetSleepReason(d, r)
             c == d.current_thread
         IN  /\ e.state = d.state /\ e.timer = d.timer
             /\ e.wakeup_count = d.wakeup_count
             /\ e.suspend_count = d.suspend_count
             /\ e.current_thread = c
             /\ e.sleep_reason = [d.sleep_reason EXCEPT ![c] = r]
             /\ e.wake_reason = [d.wake_reason EXCEPT ![c] = "NONE"]
<1> DEFINE c == d.current_thread
           f == [d.sleep_reason EXCEPT ![c] = r]
           g == [d.wake_reason EXCEPT ![c] = "NONE"]
<1>1. SetSleepReason(d, r) = [d EXCEPT !.sleep_reason = f, !.wake_reason = g]
  BY DEF SetSleepReason
<1> HIDE DEF f, g
<1>2. LET e == [d EXCEPT !.sleep_reason = f, !.wake_reason = g]
      IN  /\ e.state = d.state /\ e.timer = d.timer
          /\ e.wakeup_count = d.wakeup_count
          /\ e.suspend_count = d.suspend_count
          /\ e.current_thread = d.current_thread
          /\ e.sleep_reason = f /\ e.wake_reason = g
  BY DEF KernelData
<1> QED
  BY <1>1, <1>2 DEF f, g

LEMMA ClearTimerFrame ==
  ASSUME NEW d \in KernelData, NEW t \in Thread
  PROVE  LET e == ClearTimer(d, t)
         IN  /\ e.state = d.state /\ e.timer = d.timer \ {t}
             /\ e.wakeup_count = d.wakeup_count
             /\ e.suspend_count = d.suspend_count
             /\ e.sleep_reason = d.sleep_reason
             /\ e.wake_reason = d.wake_reason
<1> DEFINE b == d.timer \ {t}
<1>1. ClearTimer(d, t) = [d EXCEPT !.timer = b]
  BY DEF ClearTimer
<1> HIDE DEF b
<1>2. LET e == [d EXCEPT !.timer = b]
      IN  /\ e.state = d.state /\ e.timer = b
          /\ e.wakeup_count = d.wakeup_count
          /\ e.suspend_count = d.suspend_count
          /\ e.sleep_reason = d.sleep_reason
          /\ e.wake_reason = d.wake_reason
  BY DEF KernelData
<1> QED
  BY <1>1, <1>2 DEF b

LEMMA SetTimerFrame ==
  ASSUME NEW d, KernelOK(d), NEW r \in Reason
  PROVE  LET e == SetTimer(d, r)
             c == d.current_thread
         IN  /\ e.state = d.state /\ e.timer = d.timer \cup {c}
             /\ e.wakeup_count = d.wakeup_count
             /\ e.suspend_count = d.suspend_count
             /\ e.current_thread = c
             /\ e.sleep_reason = [d.sleep_reason EXCEPT ![c] = r]
             /\ e.wake_reason = [d.wake_reason EXCEPT ![c] = "NONE"]
<1> DEFINE c == d.current_thread
           j == SetSleepReason(d, r)
           a == j.timer \cup {c}
<1>1. SetTimer(d, r) = [j EXCEPT !.timer = a]
  BY DEF SetTimer
<1>2. j \in KernelData
  <2>1. d.current_thread \in Thread
    BY DEF KernelOK, KernelData
  <2> QED
    BY <2>1, ReasonSound DEF Sound, KernelOK
<1>3. /\ j.state = d.state /\ j.timer = d.timer
      /\ j.wakeup_count = d.wakeup_count
      /\ j.suspend_count = d.suspend_count
      /\ j.current_thread = c
      /\ j.sleep_reason = [d.sleep_reason EXCEPT ![c] = r]
      /\ j.wake_reason = [d.wake_reason EXCEPT ![c] = "NONE"]
  BY SleepReasonFrame DEF KernelOK
<1> HIDE DEF j, a
<1>4. LET e == [j EXCEPT !.timer = a]
      IN  /\ e.state = j.state /\ e.timer = a
          /\ e.wakeup_count = j.wakeup_count
          /\ e.suspend_count = j.suspend_count
          /\ e.current_thread = j.current_thread
          /\ e.sleep_reason = j.sleep_reason
          /\ e.wake_reason = j.wake_reason
  BY <1>2 DEF KernelData
<1> QED
  BY <1>1, <1>3, <1>4 DEF a
------------------------------------------------------------------------------
(***************************************************************************)
(* Operations that end a sleep or have nothing to do with one.             *)
(***************************************************************************)
\* What a write of wake_reason and the wake() that follows it leave.
WokenWith(d, e, t, r) ==
  /\ e.state = [d.state EXCEPT ![t] = @ \ SLEEPSET]
  /\ e.sleep_reason = [d.sleep_reason EXCEPT ![t] = "NONE"]
  /\ e.wake_reason = [d.wake_reason EXCEPT ![t] = r]
  /\ e.wakeup_count = d.wakeup_count
  /\ e.suspend_count = d.suspend_count
  /\ d.timer \ {t} \subseteq e.timer

LEMMA WakeWithFrame ==
  ASSUME NEW d, KernelOK(d), NEW t \in Thread, NEW r \in Reason
  PROVE  WokenWith(d, Wake(SetWakeReason(d, t, r), t), t, r)
<1> DEFINE j == SetWakeReason(d, t, r)
<1>1. KernelOK(j)
  BY ReasonSound DEF Sound
<1>2. /\ j.state = d.state /\ j.timer = d.timer
      /\ j.wakeup_count = d.wakeup_count
      /\ j.suspend_count = d.suspend_count
      /\ j.sleep_reason = [d.sleep_reason EXCEPT ![t] = "NONE"]
      /\ j.wake_reason = [d.wake_reason EXCEPT ![t] = r]
  BY ReasonFrame DEF KernelOK
<1> HIDE DEF j
<1>3. /\ SameReasons(j, Wake(j, t))
      /\ Wake(j, t).state = [j.state EXCEPT ![t] = @ \ SLEEPSET]
  BY <1>1, WakeFrame
<1>4. WokenWith(d, Wake(j, t), t, r)
  BY <1>2, <1>3 DEF WokenWith, SameReasons
<1> QED
  BY <1>4 DEF j

\* Whatever the woken thread's own state was, it is in order now.
LEMMA WokenOK ==
  ASSUME NEW d, KernelOK(d), NEW e, NEW t \in Thread, NEW r \in Reason,
         \A u \in Thread \ {t} : SleepOKAt(d, u), WokenWith(d, e, t, r),
         d.suspend_count[t] > 0 => "SUSPENDED" \in d.state[t] \/ "EXITED" \in d.state[t]
  PROVE  /\ SleepOK(e)
         /\ \A u \in Thread \ {t} : NotDisturbed(d, e, u)
         /\ ~Interruptible(e, t) /\ e.wake_reason[t] = r
         /\ "EXITED" \in d.state[t] => "EXITED" \in e.state[t]
<1>1. /\ d.state \in [Thread -> SUBSET StateBit]
      /\ d.sleep_reason \in [Thread -> Reason]
      /\ d.wake_reason \in [Thread -> Reason]
  BY DEF KernelOK, KernelData
<1>2. ASSUME NEW u \in Thread \ {t}
      PROVE  SleepOKAt(e, u) /\ NotDisturbed(d, e, u)
  <2>1. /\ e.state[u] = d.state[u] /\ e.sleep_reason[u] = d.sleep_reason[u]
        /\ e.wake_reason[u] = d.wake_reason[u]
        /\ e.wakeup_count[u] = d.wakeup_count[u]
        /\ e.suspend_count[u] = d.suspend_count[u]
        /\ u \in d.timer => u \in e.timer
    BY <1>1, <1>2 DEF WokenWith
  <2> QED
    BY <2>1 DEF SleepOKAt, NotDisturbed, Sleeps, Interruptible
<1>3. /\ e.state[t] = d.state[t] \ SLEEPSET /\ e.sleep_reason[t] = "NONE"
      /\ e.wake_reason[t] = r /\ e.suspend_count[t] = d.suspend_count[t]
  BY <1>1 DEF WokenWith
<1>4. /\ SleepOKAt(e, t) /\ ~Interruptible(e, t)
      /\ "EXITED" \in d.state[t] => "EXITED" \in e.state[t]
  BY <1>3 DEF SleepOKAt, Sleeps, Interruptible, SLEEPSET
<1> QED
  BY <1>2, <1>3, <1>4 DEF SleepOK

LEMMA WokenGentle ==
  ASSUME NEW d, KernelOK(d), NEW e, NEW t \in Thread, NEW r \in Reason,
         SleepOK(d), WokenWith(d, e, t, r), Interruptible(d, t)
  PROVE  Gentle(d, e)
<1>1. /\ SleepOK(e)
      /\ \A u \in Thread \ {t} : NotDisturbed(d, e, u)
      /\ ~Interruptible(e, t)
      /\ "EXITED" \in d.state[t] => "EXITED" \in e.state[t]
  BY WokenOK DEF SleepOK, SleepOKAt
<1>2. d.wake_reason[t] # "EXIT"
  BY DEF SleepOK, SleepOKAt, Interruptible
<1> QED
  BY <1>1, <1>2 DEF Gentle, NotDisturbed

LEMMA WakeWithGentle ==
  ASSUME NEW d, KernelOK(d), NEW t \in Thread, NEW r \in Reason,
         SleepOK(d), Interruptible(d, t)
  PROVE  Gentle(d, Wake(SetWakeReason(d, t, r), t))
  BY WakeWithFrame, WokenGentle

\* The timer of a thread is cleared first: that matters only if it sleeps on.
LEMMA ClearWakeWith ==
  ASSUME NEW d, KernelOK(d), NEW t \in Thread, NEW r \in Reason
  PROVE  WokenWith(d, Wake(SetWakeReason(ClearTimer(d, t), t, r), t), t, r)
<1> DEFINE j == ClearTimer(d, t)
<1>1. KernelOK(j)
  BY TimerSound DEF Sound, Reason
<1>2. /\ j.state = d.state /\ j.timer = d.timer \ {t}
      /\ j.wakeup_count = d.wakeup_count
      /\ j.suspend_count = d.suspend_count
      /\ j.sleep_reason = d.sleep_reason
      /\ j.wake_reason = d.wake_reason
  BY ClearTimerFrame DEF KernelOK
<1> HIDE DEF j
<1>3. WokenWith(j, Wake(SetWakeReason(j, t, r), t), t, r)
  BY <1>1, WakeWithFrame
<1> QED
  BY <1>2, <1>3 DEF WokenWith, j

LEMMA ClearTimerGentle ==
  ASSUME NEW d, KernelOK(d), NEW t \in Thread, SleepOK(d), ~Interruptible(d, t)
  PROVE  Gentle(d, ClearTimer(d, t))
<1> DEFINE e == ClearTimer(d, t)
<1>1. /\ e.state = d.state /\ e.timer = d.timer \ {t}
      /\ e.wakeup_count = d.wakeup_count
      /\ e.suspend_count = d.suspend_count
      /\ e.sleep_reason = d.sleep_reason
      /\ e.wake_reason = d.wake_reason
  BY ClearTimerFrame DEF KernelOK
<1> HIDE DEF e
<1>2. \A u \in Thread : SleepOKAt(e, u) /\ NotDisturbed(d, e, u)
  BY <1>1 DEF SleepOK, SleepOKAt, NotDisturbed, Sleeps, Interruptible
<1> QED
  BY <1>2 DEF Gentle, SleepOK, e

LEMMA AlarmGentle ==
  ASSUME NEW d, KernelOK(d), NEW t \in Thread, SleepOK(d)
  PROVE  Gentle(d, Alarm(d, t))
<1>1. CASE d.sleep_reason[t] \in {"DELAY", "TIMEOUT"}
  <2>1. PICK r \in {"DONE", "TIMEOUT"} :
          Alarm(d, t) = Wake(SetWakeReason(ClearTimer(d, t), t, r), t)
    BY <1>1 DEF Alarm
  <2>2. r \in Reason /\ Interruptible(d, t)
    BY <1>1 DEF Reason, Interruptible
  <2> QED
    BY <2>1, <2>2, ClearWakeWith, WokenGentle
<1>2. CASE d.sleep_reason[t] \notin {"DELAY", "TIMEOUT"}
  <2> DEFINE e == ClearTimer(d, t)
  <2>1. Alarm(d, t) = e
    BY <1>2 DEF Alarm
  <2>2. /\ e.state = d.state /\ e.timer = d.timer \ {t}
        /\ e.wakeup_count = d.wakeup_count
        /\ e.suspend_count = d.suspend_count
        /\ e.sleep_reason = d.sleep_reason
        /\ e.wake_reason = d.wake_reason
    BY ClearTimerFrame DEF KernelOK
  <2> HIDE DEF e
  <2>3. \A u \in Thread : SleepOKAt(e, u) /\ NotDisturbed(d, e, u)
    BY <1>2, <2>2 DEF SleepOK, SleepOKAt, NotDisturbed, Sleeps, Interruptible
  <2> QED
    BY <2>1, <2>3 DEF Gentle, SleepOK
<1> QED
  BY <1>1, <1>2

LEMMA ReleaseGentle ==
  ASSUME NEW d, KernelOK(d), NEW t \in Thread, SleepOK(d)
  PROVE  Gentle(d, Release(d, t))
<1>1. Gentle(d, d)
  BY SameSleepGentle DEF SameSleep, SameReasons
<1>2. Interruptible(d, t) => Gentle(d, Wake(SetWakeReason(d, t, "BREAK"), t))
  BY WakeWithGentle DEF Reason
<1> QED
  BY <1>1, <1>2 DEF Release

LEMMA WakeupCountGentle ==
  ASSUME NEW d, KernelOK(d), NEW t \in Thread, NEW n \in Nat, SleepOK(d),
         n = 0 \/ "COUNTSLEEP" \notin d.state[t]
  PROVE  Gentle(d, [d EXCEPT !.wakeup_count[t] = n])
<1> DEFINE b == [d.wakeup_count EXCEPT ![t] = n]
           y == [d EXCEPT !.wakeup_count = b]
<1>1. \A u \in Thread : b[u] = IF u = t THEN n ELSE d.wakeup_count[u]
  BY DEF KernelOK, KernelData
<1>2. [d EXCEPT !.wakeup_count[t] = n] = y
  OBVIOUS
<1> HIDE DEF b
<1>3. /\ y.state = d.state /\ y.timer = d.timer /\ y.wakeup_count = b
      /\ y.sleep_reason = d.sleep_reason /\ y.wake_reason = d.wake_reason
      /\ y.suspend_count = d.suspend_count
  BY DEF KernelOK, KernelData
<1> HIDE DEF y
<1>4. ASSUME NEW u \in Thread
      PROVE  SleepOKAt(y, u) /\ NotDisturbed(d, y, u)
  BY <1>1, <1>3 DEF SleepOK, SleepOKAt, NotDisturbed, Sleeps, Interruptible
<1> QED
  BY <1>2, <1>4 DEF Gentle, SleepOK

LEMMA TakeWakeupGentle ==
  ASSUME NEW d, KernelOK(d), SleepOK(d), d.wakeup_count[d.current_thread] # 0
  PROVE  Gentle(d, TakeWakeup(d))
<1> DEFINE c == d.current_thread
           n == d.wakeup_count[c] - 1
<1>1. n \in Nat /\ c \in Thread
  BY DEF KernelOK, KernelData
<1>2. TakeWakeup(d) = [d EXCEPT !.wakeup_count[c] = n]
  BY DEF TakeWakeup
<1>3. "COUNTSLEEP" \notin d.state[c]
  BY <1>1 DEF SleepOK, SleepOKAt
<1> HIDE DEF n
<1>4. Gentle(d, [d EXCEPT !.wakeup_count[c] = n])
  BY <1>1, <1>3, WakeupCountGentle
<1> QED
  BY <1>2, <1>4

LEMMA CountedWakeGentle ==
  ASSUME NEW d, KernelOK(d), NEW t \in Thread, SleepOK(d)
  PROVE  Gentle(d, CountedWake(d, t)) /\ Gentle(d, CancelCountedWake(d, t))
<1>1. Gentle(d, CancelCountedWake(d, t))
  BY WakeupCountGentle DEF CancelCountedWake
<1>2. CASE "COUNTSLEEP" \notin d.state[t]
  <2> DEFINE n == d.wakeup_count[t] + 1
  <2>1. n \in Nat
    BY DEF KernelOK, KernelData
  <2>2. CountedWake(d, t) = [d EXCEPT !.wakeup_count[t] = n]
    BY <1>2 DEF CountedWake
  <2> HIDE DEF n
  <2>3. Gentle(d, [d EXCEPT !.wakeup_count[t] = n])
    BY <1>2, <2>1, WakeupCountGentle
  <2> QED
    BY <1>1, <2>2, <2>3
<1>3. CASE "COUNTSLEEP" \in d.state[t]
  <2>1. Interruptible(d, t)
    BY <1>3 DEF SleepOK, SleepOKAt, Sleeps, SLEEPSET
  <2> QED
    BY <1>1, <1>3, <2>1, WakeWithGentle DEF CountedWake, Reason
<1> QED
  BY <1>2, <1>3
------------------------------------------------------------------------------
(***************************************************************************)
(* Suspension and death.                                                   *)
(***************************************************************************)
\* A write of a thread's suspend_count and state that leaves the sleep bits as
\* they are.
LEMMA StateGentle ==
  ASSUME NEW d, KernelOK(d), SleepOK(d), NEW t \in Target, NEW n \in Nat,
         NEW s \in SUBSET StateBit, s \cap SLEEPSET = d.state[t] \cap SLEEPSET,
         "EXITED" \in d.state[t] => "EXITED" \in s,
         n > 0 => "SUSPENDED" \in s \/ "EXITED" \in s
  PROVE  Gentle(d, SetState([d EXCEPT !.suspend_count[t] = n], t, s))
<1> DEFINE a == [d.suspend_count EXCEPT ![t] = n]
           j == [d EXCEPT !.suspend_count = a]
           e == SetState(j, t, s)
<1>1. /\ \A u \in Thread : a[u] = IF u = t THEN n ELSE d.suspend_count[u]
      /\ [d EXCEPT !.suspend_count[t] = n] = j
      /\ t \in Thread
  BY DEF KernelOK, KernelData, Target
<1>2. KernelOK(j)
  BY <1>1, CountSound DEF Sound
<1> HIDE DEF a
<1>3. /\ j.state = d.state /\ j.timer = d.timer /\ j.suspend_count = a
      /\ j.sleep_reason = d.sleep_reason /\ j.wake_reason = d.wake_reason
      /\ j.wakeup_count = d.wakeup_count
  BY DEF KernelOK, KernelData
<1> HIDE DEF j
<1>4. SameReasons(j, e) /\ e.state = [d.state EXCEPT ![t] = s]
  BY <1>2, <1>3, SetStateFrame
<1> HIDE DEF e
<1>5. ASSUME NEW u \in Thread
      PROVE  SleepOKAt(e, u) /\ NotDisturbed(d, e, u)
  <2>1. e.state[u] = IF u = t THEN s ELSE d.state[u]
    BY <1>1, <1>4 DEF KernelOK, KernelData
  <2>2. e.state[u] \cap SLEEPSET = d.state[u] \cap SLEEPSET
    BY <2>1
  <2>3. "COUNTSLEEP" \in e.state[u] <=> "COUNTSLEEP" \in d.state[u]
    BY <2>2 DEF SLEEPSET
  <2>4. Sleeps(e, u) <=> Sleeps(d, u)
    BY <2>2 DEF Sleeps
  <2>5. /\ e.sleep_reason = d.sleep_reason /\ e.wake_reason = d.wake_reason
        /\ e.timer = d.timer /\ e.wakeup_count = d.wakeup_count
        /\ e.suspend_count[u] = IF u = t THEN n ELSE d.suspend_count[u]
    BY <1>1, <1>3, <1>4 DEF SameReasons
  <2>6. SleepOKAt(d, u)
    BY DEF SleepOK
  <2> QED
    BY <2>1, <2>3, <2>4, <2>5, <2>6 DEF SleepOKAt, NotDisturbed, Interruptible
<1> QED
  BY <1>1, <1>5 DEF Gentle, SleepOK, e

LEMMA ExitedGentle ==
  ASSUME NEW d, KernelOK(d), SleepOK(d), NEW t \in Target,
         d.state[t] \cap SLEEPSET = {}
  PROVE  Gentle(d, SetState(d, t, {"EXITED"}))
<1> DEFINE n == d.suspend_count[t]
           a == [d.suspend_count EXCEPT ![t] = n]
<1>1. n \in Nat /\ a = d.suspend_count
  BY DEF KernelOK, KernelData, Target
<1>2. [d EXCEPT !.suspend_count = a] = d
  BY <1>1 DEF KernelOK, KernelData
<1>3. [d EXCEPT !.suspend_count[t] = n] = d
  BY <1>2
<1> HIDE DEF n
<1>4. /\ {"EXITED"} \in SUBSET StateBit
      /\ {"EXITED"} \cap SLEEPSET = {}
  BY DEF StateBit, SLEEPSET
<1>5. Gentle(d, SetState([d EXCEPT !.suspend_count[t] = n], t, {"EXITED"}))
  BY <1>1, <1>4, StateGentle
<1> QED
  BY <1>3, <1>5

LEMMA SuspendGentle ==
  ASSUME NEW d, KernelOK(d), SleepOK(d), NEW t \in Target
  PROVE  Gentle(d, Suspend(d, t))
<1> DEFINE n == d.suspend_count[t] + 1
           s == d.state[t] \cup {"SUSPENDED"}
<1>1. /\ n \in Nat /\ s \in SUBSET StateBit /\ t \in Thread
      /\ s \cap SLEEPSET = d.state[t] \cap SLEEPSET
      /\ "SUSPENDED" \in s /\ d.state[t] \subseteq s
  BY DEF KernelOK, KernelData, StateBit, Target, SLEEPSET
<1>2. Suspend(d, t) = SetState([d EXCEPT !.suspend_count[t] = n], t, s)
  BY DEF Suspend
<1> HIDE DEF n, s
<1> QED
  BY <1>1, <1>2, StateGentle

LEMMA ClearSuspensionGentle ==
  ASSUME NEW d, KernelOK(d), SleepOK(d), NEW t \in Target
  PROVE  Gentle(d, ClearSuspension(d, t))
<1> DEFINE s == d.state[t] \ {"SUSPENDED"}
<1>1. /\ s \in SUBSET StateBit
      /\ s \cap SLEEPSET = d.state[t] \cap SLEEPSET
      /\ "EXITED" \in d.state[t] => "EXITED" \in s
  BY DEF KernelOK, KernelData, Target, SLEEPSET
<1>2. ClearSuspension(d, t) = SetState([d EXCEPT !.suspend_count[t] = 0], t, s)
  BY DEF ClearSuspension
<1> HIDE DEF s
<1> QED
  BY <1>1, <1>2, StateGentle

\* One of several suspensions taken back.
LEMMA OneSuspensionGentle ==
  ASSUME NEW d, KernelOK(d), SleepOK(d), NEW t \in Target,
         d.suspend_count[t] > 1
  PROVE  Gentle(d, [d EXCEPT !.suspend_count[t] = @ - 1])
<1> DEFINE a == [d.suspend_count EXCEPT ![t] = @ - 1]
           j == [d EXCEPT !.suspend_count = a]
<1>1. /\ \A u \in Thread :
           a[u] = IF u = t THEN d.suspend_count[t] - 1 ELSE d.suspend_count[u]
      /\ [d EXCEPT !.suspend_count[t] = @ - 1] = j
      /\ d.suspend_count \in [Thread -> Nat]
  BY DEF KernelOK, KernelData, Target
<1> HIDE DEF a
<1>2. /\ j.state = d.state /\ j.timer = d.timer /\ j.suspend_count = a
      /\ j.sleep_reason = d.sleep_reason /\ j.wake_reason = d.wake_reason
      /\ j.wakeup_count = d.wakeup_count
  BY DEF KernelOK, KernelData
<1> HIDE DEF j
<1>3. ASSUME NEW u \in Thread
      PROVE  SleepOKAt(j, u) /\ NotDisturbed(d, j, u)
  <2>1. j.suspend_count[u] > 0 => d.suspend_count[u] > 0
    BY <1>1, <1>2
  <2> QED
    BY <1>2, <2>1 DEF SleepOK, SleepOKAt, NotDisturbed, Sleeps, Interruptible
<1> QED
  BY <1>1, <1>3 DEF Gentle, SleepOK

LEMMA ResumeGentle ==
  ASSUME NEW d, KernelOK(d), SleepOK(d), NEW t \in Target
  PROVE  Gentle(d, Resume(d, t)) /\ Gentle(d, ForceResume(d, t))
<1>1. Gentle(d, d) /\ Gentle(d, ClearSuspension(d, t))
  BY SameSleepGentle, ClearSuspensionGentle DEF SameSleep, SameReasons
<1>2. /\ \/ Resume(d, t) \in {d, ClearSuspension(d, t)}
         \/ /\ d.suspend_count[t] > 1
            /\ Resume(d, t) = [d EXCEPT !.suspend_count[t] = @ - 1]
      /\ ForceResume(d, t) \in {d, ClearSuspension(d, t)}
  BY DEF Resume, ForceResume
<1> QED
  BY <1>1, <1>2, OneSuspensionGentle

\* A thread that exits is not asleep: it runs.
LEMMA ExitGentle ==
  ASSUME NEW d, KernelOK(d), SleepOK(d), d.current_thread \in Target,
         ~Interruptible(d, d.current_thread)
  PROVE  Gentle(d, Exit(d))
<1> DEFINE c == d.current_thread
           j == ClearTimer(d, c)
<1>1. c \in Thread
  BY DEF Target
<1>2. KernelOK(j) /\ j.state = d.state /\ Gentle(d, j)
  BY <1>1, TimerSound, ClearTimerGentle DEF Sound, Reason
<1>3. Exit(d) = j \/ Exit(d) = SetState(j, c, {"EXITED"})
  BY ExitIsSetState
<1> HIDE DEF j
<1>4. Gentle(j, SetState(j, c, {"EXITED"}))
  <2>1. j.state[c] \cap SLEEPSET = {}
    BY <1>1, <1>2 DEF SleepOK, SleepOKAt, Sleeps
  <2> QED
    BY <1>2, <2>1, ExitedGentle DEF Gentle
<1> QED
  BY <1>2, <1>3, <1>4, GentleTrans

LEMMA WakeOfAwake ==
  ASSUME NEW d, NEW t \in Thread, SleepOK(d), ~Interruptible(d, t)
  PROVE  Wake(d, t) = d
  BY DEF Wake, SleepOK, SleepOKAt, Sleeps

\* kill() tells a thread to exit only if it sleeps, and wakes it; one that
\* does not sleep exits there and then.
LEMMA KillGentle ==
  ASSUME NEW d, KernelOK(d), SleepOK(d), NEW t \in Target
  PROVE  Gentle(d, Kill(d, t))
<1> DEFINE i == ForceResume(d, t)
           j == ClearTimer(i, t)
           e == SetState(j, t, {"EXITED"})
           w == Wake(SetWakeReason(j, t, "EXIT"), t)
<1>1. t \in Thread
  BY DEF Target
<1>2. KernelOK(i) /\ Gentle(d, i)
  BY ResumeSound, ResumeGentle DEF Sound
<1>3. SleepOK(i)
  BY <1>2 DEF Gentle
<1>4. Kill(d, t) = CASE j.wake_reason[t] = "EXIT"  -> Wake(j, t)
        [] j.wake_reason[t] # "EXIT" /\ j.sleep_reason[t] = "NONE" -> Wake(e, t)
        [] j.wake_reason[t] # "EXIT" /\ Interruptible(j, t) -> w
        [] OTHER -> j
  BY DEF Kill
<1> HIDE DEF i
<1>5. KernelOK(j)
  BY <1>1, <1>2, TimerSound DEF Sound, Reason
<1>6. /\ j.sleep_reason = i.sleep_reason /\ j.wake_reason = i.wake_reason
      /\ j.state = i.state
  BY <1>1, <1>2, ClearTimerFrame DEF KernelOK
<1>7. CASE Interruptible(i, t)
  <2>1. j.wake_reason[t] # "EXIT" /\ j.sleep_reason[t] # "NONE" /\ Interruptible(j, t)
    BY <1>1, <1>3, <1>6, <1>7 DEF SleepOK, SleepOKAt, Interruptible
  <2>2. Kill(d, t) = w
    BY <1>4, <2>1
  <2>3. Gentle(i, w)
    <3>1. "EXIT" \in Reason
      BY DEF Reason
    <3> QED
      BY <1>1, <1>2, <1>3, <1>7, <3>1, ClearWakeWith, WokenGentle
  <2> QED
    BY <1>2, <2>2, <2>3, GentleTrans
<1>8. CASE ~Interruptible(i, t)
  <2>1. Gentle(i, j)
    BY <1>1, <1>2, <1>3, <1>8, ClearTimerGentle
  <2> HIDE DEF j
  <2>2. SleepOK(j) /\ ~Interruptible(j, t) /\ j.sleep_reason[t] = "NONE"
    <3>1. SleepOK(j) /\ ~Interruptible(j, t)
      BY <1>1, <1>8, <2>1 DEF Gentle, NotDisturbed
    <3> QED
      BY <1>1, <3>1 DEF SleepOK, SleepOKAt, Interruptible
  <2>3. Gentle(j, e)
    <3>1. j.state[t] \cap SLEEPSET = {}
      BY <1>1, <2>2 DEF SleepOK, SleepOKAt, Sleeps
    <3> QED
      BY <1>5, <2>2, <3>1, ExitedGentle
  <2> HIDE DEF e
  <2>4. Wake(j, t) = j /\ Wake(e, t) = e
    BY <1>1, <2>2, <2>3, WakeOfAwake DEF Gentle, NotDisturbed
  <2>5. Kill(d, t) = j \/ Kill(d, t) = e
    BY <1>4, <2>2, <2>4
  <2> QED
    BY <1>2, <2>1, <2>3, <2>5, GentleTrans
<1> QED
  BY <1>7, <1>8
------------------------------------------------------------------------------
(***************************************************************************)
(* Scheduling: none of it touches a sleep.                                 *)
(***************************************************************************)
LEMMA TimesliceFrame ==
  ASSUME NEW d, KernelOK(d)
  PROVE  SameSleep(d, Timeslice(d))
<1> DEFINE c == d.current_thread
           p == d.priority[c]
           n == IF d.timeslice_count = 0 THEN TicksWrap ELSE d.timeslice_count - 1
           s == Rotated(d.run_queue[p])
           rq == [d.run_queue EXCEPT ![p] = s]
           nr == d.need_reschedule \/ Head(s) # c
<1>1. \/ Timeslice(d) = [d EXCEPT !.run_queue = rq, !.need_reschedule = nr,
                                  !.timeslice_count = TimesliceTicks]
      \/ Timeslice(d) = [d EXCEPT !.timeslice_count = n]
  BY DEF Timeslice
<1> HIDE DEF n, rq, nr
<1> QED
  BY <1>1 DEF KernelOK, KernelData, SameSleep, SameReasons

LEMMA YieldFrame ==
  ASSUME NEW d, KernelOK(d)
  PROVE  SameSleep(d, Yield(d))
<1> DEFINE c == d.current_thread
           p == d.priority[c]
           s == Rotated(d.run_queue[p])
           rq == [d.run_queue EXCEPT ![p] = s]
           ts == [d.timeslice EXCEPT ![c] = TimesliceTicks]
<1>1. \/ Yield(d) = d
      \/ Yield(d) = [d EXCEPT !.run_queue = rq, !.need_reschedule = TRUE]
      \/ Yield(d) = [d EXCEPT !.run_queue = rq, !.timeslice = ts]
  BY DEF Yield
<1> HIDE DEF rq, ts
<1> QED
  BY <1>1 DEF KernelOK, KernelData, SameSleep, SameReasons

LEMMA RotateQueueFrame ==
  ASSUME NEW d, KernelOK(d), NEW p \in Priority
  PROVE  SameSleep(d, RotateQueue(d, p))
<1> DEFINE rq == [d.run_queue EXCEPT ![p] = Rotated(@)]
<1>1. \/ RotateQueue(d, p) = d
      \/ RotateQueue(d, p) = [d EXCEPT !.run_queue = rq, !.need_reschedule = TRUE]
  BY DEF RotateQueue
<1> HIDE DEF rq
<1> QED
  BY <1>1 DEF KernelOK, KernelData, SameSleep, SameReasons

LEMMA ToQueueHeadFrame ==
  ASSUME NEW d, KernelOK(d), NEW t \in Thread
  PROVE  SameSleep(d, ToQueueHead(d, t))
<1> DEFINE p == d.priority[t]
           wq == [d.wait_queue EXCEPT ![d.queue[t]] = ToHead(@, t)]
           rq == [d.run_queue EXCEPT ![p] = ToHead(@, t)]
           j == [d EXCEPT !.run_queue = rq]
           nr == j.need_reschedule \/ Preempts(j, t)
<1>1. \/ ToQueueHead(d, t) = d
      \/ ToQueueHead(d, t) = [d EXCEPT !.wait_queue = wq]
      \/ ToQueueHead(d, t) = [j EXCEPT !.need_reschedule = nr]
  BY DEF ToQueueHead, SetNeedReschedule
<1> HIDE DEF rq, wq, nr
<1> QED
  BY <1>1 DEF KernelOK, KernelData, SameSleep, SameReasons

LEMMA EnqueueFrame ==
  ASSUME NEW d \in KernelData, NEW q \in Queue, NEW t \in Thread
  PROVE  Enqueue(d, q, t) \in KernelData /\ SameSleep(d, Enqueue(d, q, t))
<1> DEFINE wq == [d.wait_queue EXCEPT ![q] = Append(@, t)]
           f == [d.queue EXCEPT ![t] = q]
<1>1. Enqueue(d, q, t) = [d EXCEPT !.wait_queue = wq, !.queue = f]
  BY DEF Enqueue
<1>2. wq \in [Queue -> Seq(Thread)] /\ f \in [Thread -> Queue \cup {NoQueue}]
  BY AppendProperties DEF KernelData
<1> HIDE DEF wq, f
<1> QED
  BY <1>1, <1>2 DEF KernelData, SameSleep, SameReasons

\* A thread that changes its priority is taken off its queue and put back.
LEMMA SetPriorityFrame ==
  ASSUME NEW d, KernelOK(d), NEW t \in Thread, NEW p \in Priority
  PROVE  SameSleep(d, SetPriority(d, t, p))
<1> DEFINE asleep == "SLEEPING" \in d.state[t]
           q == d.queue[t]
           out == CASE Running(d, t) -> RemThread(d, t)
                    [] ~Running(d, t) /\ asleep -> RemoveFromQueue(d, t)
                    [] OTHER -> d
           moved == [out EXCEPT !.priority[t] = p]
           back == CASE Running(d, t) -> AddThread(moved, t)
                     [] ~Running(d, t) /\ asleep /\ q # NoQueue -> Enqueue(moved, q, t)
                     [] OTHER -> moved
           nr == back.need_reschedule \/ Preempts(back, t)
<1>1. SetPriority(d, t, p) \in {[back EXCEPT !.need_reschedule = TRUE],
                                [back EXCEPT !.need_reschedule = nr]}
  <2>1. Running(d, t) => ~asleep
    BY DEF Running, RUNNING
  <2>2. /\ out = CASE Running(d, t) -> RemThread(d, t)
                   [] asleep -> RemoveFromQueue(d, t)
                   [] OTHER -> d
        /\ back = CASE Running(d, t) -> AddThread(moved, t)
                    [] asleep /\ q # NoQueue -> Enqueue(moved, q, t)
                    [] OTHER -> moved
    BY <2>1
  <2> QED
    BY <2>2 DEF SetPriority, SetNeedReschedule
<1>2. d \in KernelData /\ d.priority \in [Thread -> Priority]
  BY DEF KernelOK, KernelData
<1>3. out \in KernelData /\ SameSleep(d, out)
  <2>1. CASE Running(d, t)
    <3>1. RemThread(d, t) \in KernelData
      <4>1. QueuesHold(Runnable(d), d)
        BY ExactIsHold DEF KernelOK
      <4> QED
        BY <1>2, <4>1, RemThreadProps
    <3> QED
      BY <1>2, <2>1, <3>1, RemThreadFrame
  <2>2. CASE ~Running(d, t) /\ asleep
    BY <1>2, <2>2, RemoveFromQueueFrame
  <2>3. CASE ~Running(d, t) /\ ~asleep
    BY <1>2, <2>3 DEF SameSleep, SameReasons
  <2> QED
    BY <2>1, <2>2, <2>3
<1> HIDE DEF out
<1>4. moved \in KernelData /\ SameSleep(out, moved)
  <2> DEFINE pr == [out.priority EXCEPT ![t] = p]
  <2>1. pr \in [Thread -> Priority]
    BY <1>3 DEF KernelData
  <2>2. moved = [out EXCEPT !.priority = pr]
    OBVIOUS
  <2> HIDE DEF pr, moved
  <2> QED
    BY <1>3, <2>1, <2>2 DEF KernelData, SameSleep, SameReasons
<1> HIDE DEF moved
<1>5. back \in KernelData /\ SameSleep(moved, back)
  <2>1. CASE Running(d, t)
    BY <1>4, <2>1, AddThreadFrame
  <2>2. CASE ~Running(d, t) /\ asleep /\ q # NoQueue
    <3>1. q \in Queue
      BY <1>2, <2>2 DEF KernelData
    <3>2. back = Enqueue(moved, q, t)
      BY <2>2
    <3> HIDE DEF q, back
    <3> QED
      BY <1>4, <3>1, <3>2, EnqueueFrame
  <2>3. CASE ~Running(d, t) /\ ~(asleep /\ q # NoQueue)
    BY <1>4, <2>3 DEF SameSleep, SameReasons
  <2> QED
    BY <2>1, <2>2, <2>3
<1> HIDE DEF back, nr
<1>6. /\ SameSleep(back, [back EXCEPT !.need_reschedule = TRUE])
      /\ SameSleep(back, [back EXCEPT !.need_reschedule = nr])
  BY <1>5 DEF KernelData, SameSleep, SameReasons
<1> QED
  BY <1>1, <1>3, <1>4, <1>5, <1>6 DEF SameSleep, SameReasons
------------------------------------------------------------------------------
(***************************************************************************)
(* The calls that block.                                                   *)
(***************************************************************************)
\* What a call that blocks leaves of its caller c, for the reason r.
AsleepFor(d, e, c, r) ==
  /\ "SLEEPING" \in e.state[c]
  /\ "COUNTSLEEP" \in e.state[c] => d.wakeup_count[c] = 0
  /\ d.state[c] \subseteq e.state[c]
  /\ \A u \in Thread \ {c} : e.state[u] = d.state[u]
  /\ e.sleep_reason = [d.sleep_reason EXCEPT ![c] = r]
  /\ e.wake_reason = [d.wake_reason EXCEPT ![c] = "NONE"]
  /\ e.wakeup_count = d.wakeup_count
  /\ e.suspend_count = d.suspend_count
  /\ d.timer \subseteq e.timer
  /\ r # "WAIT" => c \in e.timer

LEMMA AsleepBlocking ==
  ASSUME NEW d, KernelOK(d), SleepOK(d), NEW e,
         NEW r \in {"WAIT", "DELAY", "TIMEOUT"},
         AsleepFor(d, e, d.current_thread, r)
  PROVE  Blocking(d, e)
<1> DEFINE c == d.current_thread
<1>1. /\ c \in Thread
      /\ d.sleep_reason \in [Thread -> Reason]
      /\ d.wake_reason \in [Thread -> Reason]
  BY DEF KernelOK, KernelData
<1>2. ASSUME NEW u \in Thread \ {c}
      PROVE  SleepOKAt(e, u) /\ NotDisturbed(d, e, u)
  <2>1. /\ e.state[u] = d.state[u] /\ e.sleep_reason[u] = d.sleep_reason[u]
        /\ e.wake_reason[u] = d.wake_reason[u]
        /\ e.wakeup_count[u] = d.wakeup_count[u]
        /\ e.suspend_count[u] = d.suspend_count[u]
        /\ u \in d.timer => u \in e.timer
    BY <1>1, <1>2 DEF AsleepFor
  <2> QED
    BY <1>2, <2>1 DEF SleepOK, SleepOKAt, NotDisturbed, Sleeps, Interruptible
<1>3. SleepOKAt(e, c)
  <2>1. e.sleep_reason[c] = r /\ e.wake_reason[c] = "NONE" /\ Sleeps(e, c)
    BY <1>1 DEF AsleepFor, Sleeps, SLEEPSET
  <2>2. d.suspend_count[c] > 0 => "SUSPENDED" \in d.state[c] \/ "EXITED" \in d.state[c]
    BY <1>1 DEF SleepOK, SleepOKAt
  <2> QED
    BY <2>1, <2>2 DEF AsleepFor, SleepOKAt, Interruptible
<1> QED
  BY <1>1, <1>2, <1>3 DEF Blocking, SleepOK, AsleepFor

LEMMA SleepFrame ==
  ASSUME NEW d, KernelOK(d), d.current_thread \in Target
  PROVE  LET e == Sleep(d)
             c == d.current_thread
         IN  /\ SameReasons(d, e)
             /\ e.state = [d.state EXCEPT ![c] = @ \cup {"SLEEPING"}]
             /\ KernelOK(e) /\ e.current_thread = c
<1> DEFINE c == d.current_thread
           s == d.state[c] \cup {"SLEEPING"}
<1>1. s \in SUBSET StateBit
  BY DEF KernelOK, KernelData, StateBit
<1>2. Sleep(d) = SetState(d, c, s)
  BY DEF Sleep
<1>3. /\ SameReasons(d, SetState(d, c, s))
      /\ SetState(d, c, s).state = [d.state EXCEPT ![c] = s]
  <2> HIDE DEF s
  <2> QED
    BY <1>1, SetStateFrame
<1> QED
  BY <1>2, <1>3, SleepSound DEF Sound

LEMMA DelayBlocking ==
  ASSUME NEW d, KernelOK(d), SleepOK(d), d.current_thread \in Target
  PROVE  Blocking(d, Delay(d)) /\ Blocking(d, DelayPast(d))
<1> DEFINE c == d.current_thread
           i == Sleep(d)
           e == SetTimer(i, "DELAY")
<1>1. c \in Thread /\ d.state \in [Thread -> SUBSET StateBit]
  BY DEF KernelOK, KernelData
<1>2. Delay(d) = e /\ DelayPast(d) = Alarm(e, c)
  BY DEF Delay, DelayPast
<1>3. /\ SameReasons(d, i)
      /\ i.state = [d.state EXCEPT ![c] = @ \cup {"SLEEPING"}]
      /\ KernelOK(i) /\ i.current_thread = c
  BY SleepFrame
<1> HIDE DEF i
<1>4. /\ e.state = i.state /\ e.timer = i.timer \cup {c}
      /\ e.wakeup_count = i.wakeup_count
      /\ e.suspend_count = i.suspend_count
      /\ e.current_thread = c
      /\ e.sleep_reason = [i.sleep_reason EXCEPT ![c] = "DELAY"]
      /\ e.wake_reason = [i.wake_reason EXCEPT ![c] = "NONE"]
  <2>1. "DELAY" \in Reason
    BY DEF Reason
  <2> QED
    BY <1>3, <2>1, SetTimerFrame
<1>5. KernelOK(e)
  BY <1>1, <1>3, TimerSound DEF Sound, Reason
<1> HIDE DEF e
<1>6. AsleepFor(d, e, c, "DELAY")
  BY <1>1, <1>3, <1>4 DEF AsleepFor, SameReasons, SleepOK, SleepOKAt
<1>7. Blocking(d, e)
  BY <1>6, AsleepBlocking
<1>8. Gentle(e, Alarm(e, c))
  BY <1>1, <1>5, <1>7, AlarmGentle DEF Blocking
<1> QED
  BY <1>1, <1>2, <1>7, <1>8 DEF Blocking, Gentle, NotDisturbed

\* The bit of a counted sleep, added to a thread that sleeps already.
LEMMA AddCountSleepFrame ==
  ASSUME NEW d, KernelOK(d)
  PROVE  LET e == AddCountSleep(d)
             c == d.current_thread
         IN  /\ SameReasons(d, e)
             /\ e.state = [d.state EXCEPT ![c] = @ \cup {"COUNTSLEEP"}]
<1> DEFINE st == [d.state EXCEPT ![d.current_thread] = @ \cup {"COUNTSLEEP"}]
<1>1. AddCountSleep(d) = [d EXCEPT !.state = st]
  BY DEF AddCountSleep
<1> HIDE DEF st
<1>2. LET e == [d EXCEPT !.state = st]
      IN  SameReasons(d, e) /\ e.state = st
  BY DEF KernelOK, KernelData, SameReasons
<1> QED
  BY <1>1, <1>2 DEF st

LEMMA CountedSleepBlocking ==
  ASSUME NEW d, KernelOK(d), SleepOK(d), d.current_thread \in Target
  PROVE  Blocking(d, CountedSleep(d))
<1> DEFINE c == d.current_thread
<1>1. c \in Thread /\ d.state \in [Thread -> SUBSET StateBit]
  BY DEF KernelOK, KernelData
<1>2. CASE d.wakeup_count[c] = 0
  <2> DEFINE i == SetSleepReason(d, "WAIT")
             j == Sleep(i)
             e == AddCountSleep(j)
  <2>1. CountedSleep(d) = e
    BY <1>2 DEF CountedSleep
  <2>2. KernelOK(i)
    BY <1>1, ReasonSound DEF Sound, Reason
  <2>3. /\ i.state = d.state /\ i.timer = d.timer
        /\ i.wakeup_count = d.wakeup_count
        /\ i.suspend_count = d.suspend_count
        /\ i.current_thread = c
        /\ i.sleep_reason = [d.sleep_reason EXCEPT ![c] = "WAIT"]
        /\ i.wake_reason = [d.wake_reason EXCEPT ![c] = "NONE"]
    BY SleepReasonFrame DEF KernelOK, Reason
  <2> HIDE DEF i
  <2>4. /\ SameReasons(i, j)
        /\ j.state = [i.state EXCEPT ![c] = @ \cup {"SLEEPING"}]
        /\ KernelOK(j) /\ j.current_thread = c
    BY <2>2, <2>3, SleepFrame
  <2> HIDE DEF j
  <2>5. /\ SameReasons(j, e)
        /\ e.state = [j.state EXCEPT ![c] = @ \cup {"COUNTSLEEP"}]
    BY <2>4, AddCountSleepFrame
  <2> HIDE DEF e
  <2>6. AsleepFor(d, e, c, "WAIT")
    BY <1>1, <1>2, <2>3, <2>4, <2>5 DEF AsleepFor, SameReasons
  <2> QED
    BY <2>1, <2>6, AsleepBlocking
<1>3. CASE d.wakeup_count[c] # 0
  <2>1. CountedSleep(d) = TakeWakeup(d)
    BY <1>3 DEF CountedSleep
  <2> QED
    BY <1>1, <1>3, <2>1, TakeWakeupGentle DEF Gentle, Blocking, NotDisturbed
<1> QED
  BY <1>2, <1>3

LEMMA TimedCountedSleepBlocking ==
  ASSUME NEW d, KernelOK(d), SleepOK(d), d.current_thread \in Target,
         d.wakeup_count[d.current_thread] = 0,
         ~Interruptible(d, d.current_thread),
         d.wake_reason[d.current_thread] # "EXIT"
  PROVE  /\ Blocking(d, TimedCountedSleep(d))
         /\ Gentle(d, TimedCountedSleepPast(d))
<1> DEFINE c == d.current_thread
           h == SetTimer(d, "TIMEOUT")
           i == SetSleepReason(h, "TIMEOUT")
           j == Sleep(i)
           e == AddCountSleep(j)
<1>1. c \in Thread /\ d.state \in [Thread -> SUBSET StateBit]
  BY DEF KernelOK, KernelData
<1>2. /\ TimedCountedSleep(d) = e
      /\ TimedCountedSleepPast(d) = Alarm(h, c)
  BY DEF TimedCountedSleep, TimedCountedSleepPast
<1>3. KernelOK(h)
  BY <1>1, TimerSound DEF Sound, Reason
<1>4. /\ h.state = d.state /\ h.timer = d.timer \cup {c}
      /\ h.wakeup_count = d.wakeup_count
      /\ h.suspend_count = d.suspend_count
      /\ h.current_thread = c
      /\ h.sleep_reason = [d.sleep_reason EXCEPT ![c] = "TIMEOUT"]
      /\ h.wake_reason = [d.wake_reason EXCEPT ![c] = "NONE"]
  BY SetTimerFrame DEF Reason
<1> HIDE DEF h
<1>5. KernelOK(i)
  BY <1>1, <1>3, ReasonSound DEF Sound, Reason
<1>6. /\ i.state = h.state /\ i.timer = h.timer
      /\ i.wakeup_count = h.wakeup_count
      /\ i.suspend_count = h.suspend_count
      /\ i.current_thread = c
      /\ i.sleep_reason = [h.sleep_reason EXCEPT ![c] = "TIMEOUT"]
      /\ i.wake_reason = [h.wake_reason EXCEPT ![c] = "NONE"]
  <2>1. h \in KernelData /\ "TIMEOUT" \in Reason
    BY <1>3 DEF KernelOK, Reason
  <2> QED
    BY <1>4, <2>1, SleepReasonFrame
<1> HIDE DEF i
<1>7. /\ SameReasons(i, j)
      /\ j.state = [i.state EXCEPT ![c] = @ \cup {"SLEEPING"}]
      /\ KernelOK(j) /\ j.current_thread = c
  BY <1>5, <1>6, SleepFrame
<1> HIDE DEF j
<1>8. /\ SameReasons(j, e)
      /\ e.state = [j.state EXCEPT ![c] = @ \cup {"COUNTSLEEP"}]
  BY <1>7, AddCountSleepFrame
<1> HIDE DEF e
<1>9. AsleepFor(d, e, c, "TIMEOUT")
  <2>1. /\ e.sleep_reason = [d.sleep_reason EXCEPT ![c] = "TIMEOUT"]
        /\ e.wake_reason = [d.wake_reason EXCEPT ![c] = "NONE"]
    BY <1>1, <1>4, <1>6, <1>7, <1>8 DEF SameReasons
  <2>2. /\ e.timer = d.timer \cup {c} /\ e.wakeup_count = d.wakeup_count
        /\ e.suspend_count = d.suspend_count
    BY <1>4, <1>6, <1>7, <1>8 DEF SameReasons
  <2>3. /\ "SLEEPING" \in e.state[c] /\ d.state[c] \subseteq e.state[c]
        /\ \A u \in Thread \ {c} : e.state[u] = d.state[u]
    BY <1>1, <1>4, <1>6, <1>7, <1>8
  <2> QED
    BY <2>1, <2>2, <2>3 DEF AsleepFor
<1>10. Blocking(d, e)
  BY <1>9, AsleepBlocking
<1>11. Gentle(d, Alarm(h, c))
  <2> DEFINE w == Wake(SetWakeReason(ClearTimer(h, c), c, "TIMEOUT"), c)
  <2>1. Alarm(h, c) = w
    <3>1. h.sleep_reason[c] = "TIMEOUT"
      BY <1>1, <1>4 DEF KernelOK, KernelData
    <3> QED
      BY <3>1 DEF Alarm
  <2>2. WokenWith(h, w, c, "TIMEOUT")
    BY <1>1, <1>3, ClearWakeWith DEF Reason
  <2> HIDE DEF w
  <2>3. ASSUME NEW u \in Thread \ {c}
        PROVE  /\ SleepOKAt(h, u)
               /\ Interruptible(h, u) <=> Interruptible(d, u)
               /\ h.wake_reason[u] = d.wake_reason[u]
    <3>1. /\ h.state[u] = d.state[u] /\ h.sleep_reason[u] = d.sleep_reason[u]
          /\ h.wake_reason[u] = d.wake_reason[u]
          /\ h.wakeup_count[u] = d.wakeup_count[u]
          /\ h.suspend_count[u] = d.suspend_count[u]
          /\ u \in d.timer => u \in h.timer
      BY <1>1, <1>4, <2>3 DEF KernelOK, KernelData
    <3> QED
      BY <3>1, <2>3 DEF SleepOK, SleepOKAt, Sleeps, Interruptible
  <2>4. /\ SleepOK(w)
        /\ \A u \in Thread \ {c} : NotDisturbed(h, w, u)
        /\ ~Interruptible(w, c) /\ w.wake_reason[c] = "TIMEOUT"
        /\ "EXITED" \in h.state[c] => "EXITED" \in w.state[c]
    <3>1. h.suspend_count[c] > 0 =>
            "SUSPENDED" \in h.state[c] \/ "EXITED" \in h.state[c]
      BY <1>1, <1>4 DEF SleepOK, SleepOKAt
    <3> QED
      BY <1>1, <1>3, <2>2, <2>3, <3>1, WokenOK DEF Reason
  <2>5. NotDisturbed(d, w, c)
    BY <1>4, <2>4 DEF NotDisturbed
  <2>6. \A u \in Thread \ {c} : h.state[u] = d.state[u]
    BY <1>4
  <2> HIDE DEF c, w
  <2>7. \A u \in Thread \ {c} : NotDisturbed(d, w, u)
    BY <2>3, <2>4, <2>6 DEF NotDisturbed
  <2> QED
    BY <2>1, <2>4, <2>5, <2>7 DEF Gentle
<1> QED
  BY <1>2, <1>10, <1>11
------------------------------------------------------------------------------
(***************************************************************************)
(* The steps.                                                              *)
(***************************************************************************)
\* What was said to a thread, and its exit, last.
Lasting(d, e) ==
  \A t \in Thread :
    /\ d.wake_reason[t] = "EXIT" => e.wake_reason[t] = "EXIT"
    /\ "EXITED" \in d.state[t] => "EXITED" \in e.state[t]

\* A step that is gentle to every thread, and where the caller does not go
\* back to its own code.
LEMMA GentleStep ==
  ASSUME SleepInv, Gentle(k, k'), Current \in Thread,
         \A t \in Thread : cont[t] # "user" => cont'[t] # "user",
         pc' \in {"boot", "user"} => pc \in {"boot", "user"} /\ Current' = Current
  PROVE  SleepInv' /\ Lasting(k, k')
<1>1. Lasting(k, k')
  BY DEF Gentle, NotDisturbed, Lasting
<1>2. SleepInv'
  BY DEF SleepInv, InCall, Gentle, NotDisturbed, SleepOK, SleepOKAt, Sleeps,
         Interruptible, Current
<1> QED
  BY <1>1, <1>2

\* A call that blocks: its caller is in the call, and in unlock_inner.
LEMMA BlockingStep ==
  ASSUME SleepInv, Blocking(k, k'), Current \in Thread, Current' = Current,
         pc' = "unlock",
         \A t \in Thread \ {Current} : cont'[t] = cont[t],
         cont'[Current] # "user", k.wake_reason[Current] # "EXIT"
  PROVE  SleepInv' /\ Lasting(k, k')
<1>1. SleepOK(k')
  BY DEF Blocking
<1>2. ASSUME NEW t \in Thread, k'.wake_reason[t] = "EXIT" \/ Interruptible(k', t)
      PROVE  cont'[t] # "user"
  BY <1>2 DEF SleepInv, InCall, Blocking, NotDisturbed, Current
<1>3. Lasting(k, k')
  BY DEF Blocking, NotDisturbed, Lasting, Current
<1> QED
  BY <1>1, <1>2, <1>3 DEF SleepInv, InCall, SleepOK, SleepOKAt, Sleeps, Interruptible

\* The thread the CPU is given to, or left with, does not sleep.
LEMMA RunnerAwake ==
  ASSUME IInv, SleepInv, pc \in {"zero", "recheck"}
  PROVE  ~Interruptible(k, Current)
<1>1. Running(k, Current) /\ Current \in Thread
  BY DEF IInv, Settled, KernelInv, KernelOK, KernelData, Current
<1> QED
  BY <1>1 DEF SleepInv, SleepOK, SleepOKAt, Sleeps, Running, RUNNING, SLEEPSET

\* The switch, and what the CPU does between the calls.
LEMMA CpuStep ==
  ASSUME IInv, SleepInv, SameSleep(k, k'), cont' = cont,
         \/ pc' \notin {"boot", "user"}
         \/ UNCHANGED pc /\ Current' = Current
         \/ pc \in {"zero", "recheck"} /\ Current' = Current
  PROVE  SleepInv' /\ Lasting(k, k')
<1>1. Current \in Thread
  BY DEF IInv, KernelInv, KernelOK, KernelData, Current
<1>2. Gentle(k, k')
  BY SameSleepGentle DEF SleepInv
<1>3. \A t \in Thread : Interruptible(k', t) <=> Interruptible(k, t)
  BY DEF SameSleep, SameReasons, Interruptible
<1>4. SleepOK(k')
  BY <1>2 DEF Gentle
<1>5. \A t \in Thread :
        k'.wake_reason[t] = "EXIT" \/ Interruptible(k', t) => cont'[t] # "user"
  BY <1>3 DEF SleepInv, InCall, SameSleep, SameReasons
<1>6. pc' \in {"boot", "user"} => ~Interruptible(k', Current')
  BY <1>1, <1>3, RunnerAwake DEF SleepInv, InCall
<1>7. Lasting(k, k')
  BY <1>2 DEF Gentle, NotDisturbed, Lasting
<1> QED
  BY <1>4, <1>5, <1>6, <1>7 DEF SleepInv, InCall, SleepOK, SleepOKAt, Sleeps,
     Interruptible

LEMMA SwitchFrame ==
  ASSUME NEW d \in KernelData, NEW t \in Thread,
         NEW ts \in [Thread -> 0 .. TicksWrap]
  PROVE  LET j == [d EXCEPT !.timeslice = ts]
         IN  SameSleep(d, Enter(j, t)) /\ SameSleep(d, Continue(j, t))
<1> DEFINE us == [ts EXCEPT ![t] = TimesliceTicks]
           x == [d EXCEPT !.current_thread = t, !.need_reschedule = FALSE,
                          !.timeslice = us, !.timeslice_count = TimesliceTicks]
           y == [d EXCEPT !.current_thread = t, !.need_reschedule = FALSE,
                          !.timeslice = ts, !.timeslice_count = ts[t]]
           j == [d EXCEPT !.timeslice = ts]
<1>1. Enter(j, t) = x /\ Continue(j, t) = y
  BY DEF Enter, Continue, KernelData
<1> HIDE DEF us
<1>2. SameSleep(d, x) /\ SameSleep(d, y)
  BY DEF SameSleep, SameReasons, KernelData
<1> QED
  BY <1>1, <1>2

LEMMA SleepStep ==
  ASSUME IInv, SleepInv, [Next]_vars
  PROVE  SleepInv' /\ Lasting(k, k')
<1> USE DEF cpu, ctx, vars
<1>0. /\ KernelInv /\ KernelOK(k) /\ k \in KernelData
      /\ Current \in Thread /\ cont \in [Thread -> Cont]
      /\ SleepOK(k) /\ InCall
      /\ Current = k.current_thread
  BY DEF IInv, KernelInv, TypeOK, KernelOK, KernelData, Current, SleepInv
<1>a. \/ Current' = Current
      \/ StartScheduler \/ SwitchBack \/ SwitchToFresh
  BY <1>0, DataStep
<1>b. UNCHANGED k => SameSleep(k, k') /\ Current' = Current
  BY DEF SameSleep, SameReasons, Current
<1>1. CASE UNCHANGED vars \/ CallPendingDSRs \/ NoDSRs \/ TakeDSR \/ DSRsDone
           \/ ZeroLock \/ RestoreLock \/ GoRound \/ Return
  <2>1. /\ UNCHANGED <<k, cont>>
        /\ \/ UNCHANGED pc
           \/ pc' \notin {"boot", "user"}
           \/ pc \in {"zero", "recheck"}
    BY <1>1 DEF CallPendingDSRs, NoDSRs, TakeDSR, DSRsDone, ZeroLock,
       RestoreLock, GoRound, Return, UnlockInner
  <2> QED
    BY <1>b, <2>1, CpuStep
<1>2. ASSUME NEW i \in Intr, Interrupt(i) PROVE SleepInv' /\ Lasting(k, k')
  <2>1. UNCHANGED <<k, cont>> /\ (UNCHANGED pc \/ pc' = "unlock")
    BY <1>2 DEF Interrupt, UnlockInner
  <2> QED
    BY <1>b, <2>1, CpuStep
<1>3. CASE Stay
  <2>1. k' = [k EXCEPT !.need_reschedule = FALSE] \/ k' = k
    BY <1>3 DEF Stay
  <2>2. SameSleep(k, k')
    BY <1>0, <2>1 DEF KernelData, SameSleep, SameReasons
  <2> QED
    BY <1>3, <2>2, CpuStep DEF Stay
<1>4. CASE StartScheduler \/ SwitchBack \/ SwitchToFresh
  <2>1. Schedule(k) \in Thread
    BY <1>0, ScheduleIsBest
  <2>2. CASE StartScheduler
    <3>1. k.timeslice \in [Thread -> 0 .. TicksWrap]
      BY <1>0 DEF KernelData
    <3>2. [k EXCEPT !.timeslice = k.timeslice] = k
      BY <1>0 DEF KernelData
    <3>3. SameSleep(k, Enter(k, Schedule(k)))
      BY <1>0, <2>1, <3>1, <3>2, SwitchFrame
    <3> QED
      BY <2>2, <3>3, CpuStep DEF StartScheduler
  <2>3. CASE SwitchBack \/ SwitchToFresh
    <3> DEFINE ts == [k.timeslice EXCEPT ![k.current_thread] = k.timeslice_count]
    <3>1. ts \in [Thread -> 0 .. TicksWrap]
      BY <1>0, SaveType
    <3>2. TimesliceSave = [k EXCEPT !.timeslice = ts]
      BY DEF TimesliceSave, Current
    <3> HIDE DEF ts
    <3>3. /\ SameSleep(k, Enter(TimesliceSave, Schedule(k)))
          /\ SameSleep(k, Continue(TimesliceSave, Schedule(k)))
      BY <1>0, <2>1, <3>1, <3>2, SwitchFrame
    <3>4. /\ k' \in {Enter(TimesliceSave, Schedule(k)),
                     Continue(TimesliceSave, Schedule(k))}
          /\ pc' \in {"zero", "unlock"} /\ cont' = cont
      BY <2>3 DEF SwitchBack, SwitchToFresh, UnlockInner
    <3> QED
      BY <3>3, <3>4, CpuStep
  <2> QED
    BY <1>4, <2>2, <2>3
<1>5. ASSUME Gentle(k, k'), cont' = cont,
             pc' \in {"boot", "user"} => pc \in {"boot", "user"},
             ~(StartScheduler \/ SwitchBack \/ SwitchToFresh)
      PROVE  SleepInv' /\ Lasting(k, k')
  BY <1>0, <1>5, <1>a, GentleStep
<1>6. CASE (\E t \in Target : BootResume(t)) \/ (\E t \in Thread : ClockAlarm(t))
           \/ ClockTimeslice \/ (\E t \in Target : DeviceDSR(t))
  <2>1. cont' = cont /\ pc' = pc
    BY <1>6 DEF BootResume, ClockAlarm, ClockTimeslice, DeviceDSR
  <2>2. ~(StartScheduler \/ SwitchBack \/ SwitchToFresh)
    BY <2>1 DEF StartScheduler, SwitchBack, SwitchToFresh, UnlockInner
  <2>3. Gentle(k, k')
    <3>1. ASSUME NEW t \in Target, BootResume(t) PROVE Gentle(k, k')
      BY <1>0, <3>1, ResumeGentle DEF BootResume
    <3>2. ASSUME NEW t \in Thread, ClockAlarm(t) PROVE Gentle(k, k')
      BY <1>0, <3>2, AlarmGentle DEF ClockAlarm
    <3>3. CASE ClockTimeslice
      BY <1>0, <3>3, TimesliceFrame, SameSleepGentle DEF ClockTimeslice
    <3>4. ASSUME NEW t \in Target, DeviceDSR(t) PROVE Gentle(k, k')
      <4>1. t \in Thread
        BY DEF Target
      <4>2. k' \in {k, Resume(k, t), Release(k, t), CountedWake(k, t), Suspend(k, t)}
        BY <3>4 DEF DeviceDSR, DeviceEffect
      <4>3. Gentle(k, k)
        BY <1>0, SameSleepGentle DEF SameSleep, SameReasons
      <4> QED
        BY <1>0, <4>1, <4>2, <4>3, ResumeGentle, ReleaseGentle,
           CountedWakeGentle, SuspendGentle
    <3> QED
      BY <1>6, <3>1, <3>2, <3>3, <3>4
  <2> QED
    BY <1>5, <2>1, <2>2, <2>3
\* From here on the step is a thread's, and no switch.
<1>7. ASSUME pc = "user" PROVE ~(StartScheduler \/ SwitchBack \/ SwitchToFresh)
  BY <1>7 DEF StartScheduler, SwitchBack, SwitchToFresh
<1>8. ASSUME pc = "user" PROVE ~Interruptible(k, Current) /\ Current' = Current
  BY <1>0, <1>7, <1>8, <1>a DEF InCall
<1>21. cont[Current] = "user" => k.wake_reason[Current] # "EXIT"
  BY <1>0 DEF InCall
<1>9. CASE SchedLock \/ SchedUnlock
  <2>1. /\ UNCHANGED <<k, cont>> /\ (UNCHANGED pc \/ pc' = "unlock")
    BY <1>9 DEF SchedLock, SchedUnlock, LockedUpdate, UnlockInner
  <2> QED
    BY <1>b, <2>1, CpuStep
<1>10. CASE CheckNotKilled
  <2>1. /\ UNCHANGED <<k, pc>> /\ pc = "user"
        /\ cont' = [cont EXCEPT ![Current] = "user"]
        /\ k.wake_reason[Current] # "EXIT"
    BY <1>10 DEF CheckNotKilled
  <2>2. \A t \in Thread : t # Current => cont'[t] = cont[t]
    BY <1>0, <2>1
  <2>3. Lasting(k, k')
    BY <2>1 DEF Lasting
  <2> QED
    BY <1>0, <1>8, <2>1, <2>2, <2>3 DEF SleepInv, SleepOK, SleepOKAt, Sleeps, InCall,
       Interruptible
<1>11. ASSUME pc = "user", Current \in Target,
              YieldThread \/ \E p \in Priority : RotateRunQueue(p)
       PROVE  SleepInv' /\ Lasting(k, k')
  <2>1. Gentle(k, k') /\ cont' = cont
    <3>1. CASE YieldThread
      BY <1>0, <3>1, YieldFrame, SameSleepGentle DEF YieldThread
    <3>2. ASSUME NEW p \in Priority, RotateRunQueue(p)
          PROVE  Gentle(k, k') /\ cont' = cont
      BY <1>0, <3>2, RotateQueueFrame, SameSleepGentle
         DEF RotateRunQueue, Update, LockedUpdate
    <3> QED
      BY <1>11, <3>1, <3>2
  <2> QED
    BY <1>5, <1>7, <1>11, <2>1
<1>12. ASSUME NEW t \in Target, pc = "user",
              \/ SuspendThread(t) \/ ResumeThread(t) \/ ReleaseThread(t)
              \/ KillThread(t) \/ ThreadToQueueHead(t)
              \/ CountedWakeThread(t) \/ CancelWakeups(t)
              \/ \E p \in Priority : SetThreadPriority(t, p)
       PROVE  SleepInv' /\ Lasting(k, k')
  <2>1. t \in Thread
    BY DEF Target
  <2>2. cont' = cont
    BY <1>12 DEF SuspendThread, ResumeThread, ReleaseThread, KillThread,
       ThreadToQueueHead, CountedWakeThread, CancelWakeups, SetThreadPriority,
       Update
  <2>3. \/ k' \in {Suspend(k, t), Resume(k, t), Release(k, t), Kill(k, t),
                   ToQueueHead(k, t), CountedWake(k, t), CancelCountedWake(k, t)}
        \/ \E p \in Priority : k' = SetPriority(k, t, p)
    BY <1>12 DEF SuspendThread, ResumeThread, ReleaseThread, KillThread,
       ThreadToQueueHead, CountedWakeThread, CancelWakeups, SetThreadPriority,
       Update, LockedUpdate
  <2>4. /\ Gentle(k, Suspend(k, t)) /\ Gentle(k, Resume(k, t))
        /\ Gentle(k, Release(k, t)) /\ Gentle(k, Kill(k, t))
        /\ Gentle(k, CountedWake(k, t)) /\ Gentle(k, CancelCountedWake(k, t))
    BY <1>0, <2>1, SuspendGentle, ResumeGentle, ReleaseGentle, KillGentle,
       CountedWakeGentle
  <2>5. /\ Gentle(k, ToQueueHead(k, t))
        /\ \A p \in Priority : Gentle(k, SetPriority(k, t, p))
    BY <1>0, <2>1, ToQueueHeadFrame, SetPriorityFrame, SameSleepGentle
  <2> QED
    BY <1>5, <1>7, <1>12, <2>2, <2>3, <2>4, <2>5
\* What a call that goes on after its unlock does.
<1>13. ASSUME NEW n, n # "user", pc = "user",
              cont' = [cont EXCEPT ![Current] = n], Gentle(k, k')
       PROVE  SleepInv' /\ Lasting(k, k')
  <2>1. \A t \in Thread : cont'[t] = IF t = Current THEN n ELSE cont[t]
    BY <1>0, <1>13
  <2> QED
    BY <1>0, <1>8, <1>13, <2>1, GentleStep
<1>14. ASSUME NEW n, n # "user", pc = "user", cont[Current] = "user", pc' = "unlock",
              cont' = [cont EXCEPT ![Current] = n], Blocking(k, k')
       PROVE  SleepInv' /\ Lasting(k, k')
  <2>1. \A t \in Thread : cont'[t] = IF t = Current THEN n ELSE cont[t]
    BY <1>0, <1>14
  <2> QED
    BY <1>0, <1>8, <1>21, <1>14, <2>1, BlockingStep
<1>15. CASE DelayClear \/ TimedCountedSleepClear
  <2>1. /\ pc = "user" /\ k' = ClearTimer(k, Current)
        /\ cont' = [cont EXCEPT ![Current] = "check"]
    BY <1>15 DEF DelayClear, TimedCountedSleepClear, UpdateThen, LockedUpdate
  <2>2. Gentle(k, k')
    BY <1>0, <1>8, <2>1, ClearTimerGentle
  <2> QED
    BY <1>13, <2>1, <2>2
<1>16. CASE CheckKilled \/ ExitThread
  <2>1. /\ pc = "user" /\ k' = Exit(k) /\ Current \in Target
        /\ cont' = [cont EXCEPT ![Current] = "dead"]
    BY <1>0, <1>16, CallerIsTarget DEF CheckKilled, ExitThread, RescheduleThen,
       Calling
  <2>2. Gentle(k, k')
    BY <1>0, <1>8, <2>1, ExitGentle
  <2> QED
    BY <1>13, <2>1, <2>2
<1>17. CASE DelayThread \/ DelayThreadPast \/ CountedSleepThread
  <2>1. /\ pc = "user" /\ cont[Current] = "user" /\ Current \in Target
        /\ k' \in {Delay(k), DelayPast(k), CountedSleep(k)}
        /\ \E n \in {"delay", "check"} : cont' = [cont EXCEPT ![Current] = n]
        /\ pc' = "unlock"
    BY <1>0, <1>17, CallerIsTarget DEF DelayThread, DelayThreadPast,
       CountedSleepThread, UpdateThen, LockedUpdate, UnlockInner, Calling
  <2>2. Blocking(k, k')
    BY <1>0, <2>1, DelayBlocking, CountedSleepBlocking
  <2> QED
    BY <1>14, <2>1, <2>2
<1>18. CASE TimedCountedSleepThread
  <2>1. pc = "user" /\ cont[Current] = "user" /\ Current \in Target
    BY <1>0, <1>18, CallerIsTarget DEF TimedCountedSleepThread, Calling
  <2>2. CASE k.wakeup_count[Current] # 0
    <3>1. k' = TakeWakeup(k) /\ cont' = [cont EXCEPT ![Current] = "check"]
      BY <1>18, <2>2 DEF TimedCountedSleepThread, UpdateThen, LockedUpdate
    <3>2. Gentle(k, k')
      BY <1>0, <2>2, <3>1, TakeWakeupGentle
    <3> QED
      BY <1>13, <2>1, <3>1, <3>2
  <2>3. CASE k.wakeup_count[Current] = 0
    <3>1. /\ Blocking(k, TimedCountedSleep(k))
          /\ Gentle(k, TimedCountedSleepPast(k))
      BY <1>0, <1>8, <1>21, <2>1, <2>3, TimedCountedSleepBlocking
    <3>2. CASE RescheduleThen(TimedCountedSleep(k), "csleep")
      BY <1>14, <2>1, <3>1, <3>2 DEF RescheduleThen, UnlockInner
    <3>3. CASE UpdateThen(TimedCountedSleepPast(k), "check")
      <4>1. k' = TimedCountedSleepPast(k) /\ cont' = [cont EXCEPT ![Current] = "check"]
        BY <3>3 DEF UpdateThen, LockedUpdate
      <4> QED
        BY <1>13, <2>1, <3>1, <4>1
    <3> QED
      BY <1>18, <2>3, <3>2, <3>3 DEF TimedCountedSleepThread
  <2> QED
    BY <2>2, <2>3
<1>19. CASE YieldThread \/ \E p \in Priority : RotateRunQueue(p)
  <2>1. pc = "user" /\ Current \in Target
    BY <1>0, <1>19, CallerIsTarget DEF YieldThread, RotateRunQueue, Calling
  <2> QED
    BY <1>11, <1>19, <2>1
<1>20. ASSUME NEW t \in Target,
              \/ SuspendThread(t) \/ ResumeThread(t) \/ ReleaseThread(t)
              \/ KillThread(t) \/ ThreadToQueueHead(t)
              \/ CountedWakeThread(t) \/ CancelWakeups(t)
              \/ \E p \in Priority : SetThreadPriority(t, p)
       PROVE  SleepInv' /\ Lasting(k, k')
  <2>1. pc = "user"
    BY <1>20 DEF SuspendThread, ResumeThread, ReleaseThread, KillThread,
       ThreadToQueueHead, CountedWakeThread, CancelWakeups, SetThreadPriority,
       Calling
  <2> QED
    BY <1>12, <1>20, <2>1
<1> QED
  BY <1>1, <1>2, <1>3, <1>4, <1>6, <1>9, <1>10, <1>15, <1>16, <1>17, <1>18,
     <1>19, <1>20 DEF Next, KernelStep, ApiCall
------------------------------------------------------------------------------
LEMMA SleepInit == Init => SleepInv
<1> SUFFICES ASSUME Init PROVE SleepInv
  OBVIOUS
<1>1. /\ k = InitialData /\ cont = [t \in Thread |-> "user"] /\ pc = "boot"
      /\ Idle \in Thread
  BY ThreadAssumption DEF Init
<1>2. \A t \in Thread : \/ k.state[t] = RUNNING /\ k.suspend_count[t] = 0
                        \/ k.state[t] = {"SUSPENDED"}
  BY <1>1 DEF InitialData
<1>3. \A t \in Thread : k.sleep_reason[t] = "NONE" /\ k.wake_reason[t] = "NONE"
  BY <1>1 DEF InitialData
<1>4. Current = Idle
  BY <1>1 DEF Current, InitialData
<1>5. SleepOK(k)
  BY <1>2, <1>3 DEF SleepOK, SleepOKAt, Sleeps, Interruptible, RUNNING, SLEEPSET
<1> QED
  BY <1>1, <1>3, <1>4, <1>5 DEF SleepInv, InCall, Interruptible

LEMMA SleepInvariance == Spec => []SleepInv
<1>1. IInv /\ SleepInv /\ [Next]_vars => SleepInv'
  BY SleepStep
<1> QED
  BY <1>1, SleepInit, Invariance, PTL DEF Spec

\* No order of sleeping, suspending, releasing and killing strands a thread:
\* release() and kill() act on every sleeper, and a delay or timeout has its
\* timer armed (thread.cxx, release, kill, Cyg_ThreadTimer).
THEOREM SleepersCanBeWoken == Spec => []SleeperCanBeWoken
<1>1. SleepInv => SleeperCanBeWoken
  BY DEF SleepInv, SleepOK, SleepOKAt, Sleeps, SleeperCanBeWoken
<1> QED
  BY <1>1, SleepInvariance, PTL

\* A wakeup is never queued for a thread that sleeps for one (thread.cxx,
\* counted_sleep and counted_wake).
THEOREM NoCountedWakeupLost == Spec => []NoCountedWakeupMissed
<1>1. SleepInv => NoCountedWakeupMissed
  BY DEF SleepInv, SleepOK, SleepOKAt, NoCountedWakeupMissed
<1> QED
  BY <1>1, SleepInvariance, PTL

\* kill() leaves EXIT only with a thread that is inside a sleeping call, which
\* then exits instead of returning (thread.cxx, the switch on wake_reason).
THEOREM KilledThreadsExit == Spec => []KilledNeverRunsOn
<1>1. SleepInv => KilledNeverRunsOn
  BY DEF SleepInv, InCall, KilledNeverRunsOn
<1> QED
  BY <1>1, SleepInvariance, PTL

\* EXIT stays with a thread killed in its sleep: no alarm, release, counted
\* wakeup or second kill that comes before it runs takes it back (thread.cxx,
\* the sleeping calls set wake_reason before they sleep and not after).
THEOREM KillsAreNotForgotten == Spec => KillNotForgotten
<1>1. IInv /\ SleepInv /\ [Next]_vars =>
        [\A t \in Thread :
           k.wake_reason[t] = "EXIT" => k'.wake_reason[t] = "EXIT"]_vars
  BY SleepStep DEF Lasting
<1> QED
  BY <1>1, SleepInvariance, Invariance, PTL DEF Spec, KillNotForgotten
------------------------------------------------------------------------------
(***************************************************************************)
(* Who is given the CPU.                                                   *)
(***************************************************************************)
\* A step that changes the current thread leaves a runnable one current.
LEMMA Dispatched ==
  ASSUME IInv, SleepInv, Next, Current' # Current
  PROVE  /\ k'.suspend_count[Current'] = 0
         /\ k'.state[Current'] = RUNNING /\ k.state[Current'] = RUNNING
<1> DEFINE s == Schedule(k)
           ts == [k.timeslice EXCEPT ![k.current_thread] = k.timeslice_count]
<1>1. /\ KernelOK(k) /\ k \in KernelData /\ SleepOK(k)
      /\ k.timeslice \in [Thread -> 0 .. TicksWrap]
  BY DEF IInv, KernelInv, KernelOK, KernelData, SleepInv
<1>2. s \in Thread /\ Running(k, s)
  BY <1>1, ScheduleIsBest
<1>3. ts \in [Thread -> 0 .. TicksWrap]
  BY <1>1, SaveType DEF IInv, KernelInv
<1>4. TimesliceSave = [k EXCEPT !.timeslice = ts]
  BY DEF TimesliceSave, Current
<1>5. k = [k EXCEPT !.timeslice = k.timeslice]
  BY <1>1 DEF KernelData
<1>6. StartScheduler \/ SwitchBack \/ SwitchToFresh
  BY DataStep DEF IInv, KernelInv, vars
<1>7. k' \in {Enter(k, s), Enter(TimesliceSave, s), Continue(TimesliceSave, s)}
  BY <1>6 DEF StartScheduler, SwitchBack, SwitchToFresh
<1> HIDE DEF ts, s
<1>8. SameSleep(k, k')
  BY <1>1, <1>2, <1>3, <1>4, <1>5, <1>7, SwitchFrame
<1>9. Current' = s
  BY <1>1, <1>4, <1>7 DEF Enter, Continue, Current, KernelData
<1>10. k.state[s] = RUNNING /\ k.suspend_count[s] = 0
  <2>1. k.suspend_count[s] \in Nat
    BY <1>1, <1>2 DEF KernelData
  <2> QED
    BY <1>1, <1>2, <2>1 DEF SleepOK, SleepOKAt, Running, RUNNING
<1> QED
  BY <1>8, <1>9, <1>10 DEF SameSleep, SameReasons

\* "The scheduler will never run a thread with a non-zero suspend counter"
\* (kernel.sgml), nor one that sleeps or has exited: the CPU goes only to a
\* thread whose state is RUNNING (mlqueue.cxx, schedule).
THEOREM SuspendedStayOff == Spec => SuspendedNeverDispatched
<1>1. IInv /\ SleepInv /\ [Next]_vars =>
        [Current' # Current => /\ k'.suspend_count[Current'] = 0
                               /\ k'.state[Current'] = RUNNING]_vars
  BY Dispatched
<1> QED
  BY <1>1, SleepInvariance, Invariance, PTL DEF Spec, SuspendedNeverDispatched

\* A thread that has exited stays so, whatever is called on it, and is never
\* switched to again (thread.cxx, exit and kill).
THEOREM ExitsAreFinal == Spec => ExitIsFinal
<1>1. IInv /\ SleepInv /\ [Next]_vars =>
        [\A t \in Thread :
           "EXITED" \in k.state[t] => /\ "EXITED" \in k'.state[t]
                                      /\ Current' = t => Current = t]_vars
  BY SleepStep, Dispatched DEF Lasting, RUNNING
<1> QED
  BY <1>1, SleepInvariance, Invariance, PTL DEF Spec, ExitIsFinal
==============================================================================
