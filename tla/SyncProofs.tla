------------------------------ MODULE SyncProofs ------------------------------
(***************************************************************************)
(* The synchronization objects, for any number of threads, priorities,     *)
(* interrupts and semaphores, any mail box and any flag, over the whole of *)
(* the scheduler: each by itself, and side by side.                        *)
(*                                                                         *)
(* Each object's invariant is inductive together with those of the         *)
(* scheduler (IInv) and of the waits (WaitInv).  A step of one object, or  *)
(* of the scheduler, is quiet for the others (Quiet): their waiters may    *)
(* only be broken off.                                                     *)
(***************************************************************************)
EXTENDS Sync, WaitingProofs

\* What a step does to the waits on an object it does not belong to.
QuietFor(r) ==
  /\ Woken(r)' = Woken(r)
  /\ ToSet(k'.wait_queue[r]) \subseteq ToSet(k.wait_queue[r])
  /\ \A t \in Thread : waits'[t].queue = r => waits[t].queue = r

\* A step on the queues of Q alone.
Quiet(Q) == \A r \in Queue \ Q : QuietFor(r)
------------------------------------------------------------------------------
LEMMA QuietFrom ==
  ASSUME WaitInv, Current \in Thread, NEW Q, waits[Current].queue \in Q \cup {NoQueue},
         \A r \in Queue : /\ Woken(r) \ {Current} \subseteq Woken(r)'
                          /\ r \notin Q => ToSet(k'.wait_queue[r])
                                             \subseteq ToSet(k.wait_queue[r]),
         NEW s \in Q \cup {NoQueue}, NoneServed(s),
         \/ waits' = waits
         \/ \E w : /\ w.queue \in Q \cup {NoQueue}
                   /\ waits' = [waits EXCEPT ![Current] = w]
  PROVE  Quiet(Q)
<1> SUFFICES ASSUME NEW r \in Queue \ Q PROVE QuietFor(r)
  BY DEF Quiet
<1>1. r # NoQueue /\ r # s /\ waits[Current].queue # r
  BY ThreadAssumption
<1>2. Current \notin Woken(r) /\ Woken(r) \subseteq Thread /\ Woken(r)' \subseteq Thread
  BY <1>1 DEF Woken
<1>3. Woken(r)' = Woken(r)
  BY <1>1, <1>2 DEF NoneServed
<1>4. ASSUME NEW t \in Thread, waits'[t].queue = r PROVE waits[t].queue = r
  <2>1. DOMAIN waits = Thread
    BY DEF WaitInv
  <2>2. CASE t = Current
    BY <1>1, <1>4, <2>1, <2>2
  <2>3. CASE t # Current
    BY <1>4, <2>1, <2>3
  <2> QED
    BY <2>2, <2>3
<1> QED
  BY <1>3, <1>4 DEF QuietFor

\* A wait ends; a waiter of s may be woken.
LEMMA EndServes ==
  ASSUME IInv, WaitInv, Current \in Target, pc = "user",
         cont[Current] \in {"user", "wait"},
         NEW j, Sound(k, j), NEW timed \in BOOLEAN, Finish(j, timed),
         NEW Q, waits[Current].queue \in Q \cup {NoQueue},
         NEW s \in Q \cup {NoQueue}, ServesOthers(k, j, s)
  PROVE  IInv' /\ WaitInv' /\ NobodyLost({Current}) /\ Quiet(Q)
<1>1. IInv' /\ WaitInv' /\ NobodyLost({Current}) /\ NoneServed(s)
  BY EndWait
<1>2. /\ waits' = [waits EXCEPT ![Current] = NoWait] /\ NoWait.queue = NoQueue
      /\ Current \in Thread
  BY DEF Finish, NoWait, Target
<1>3. \A r \in Queue : /\ Woken(r) \ {Current} \subseteq Woken(r)'
                       /\ r \notin Q => ToSet(k'.wait_queue[r])
                                          \subseteq ToSet(k.wait_queue[r])
  BY <1>1 DEF NobodyLost
<1>4. \/ waits' = waits
      \/ \E w : /\ w.queue \in Q \cup {NoQueue}
                /\ waits' = [waits EXCEPT ![Current] = w]
  BY <1>2
<1> QED
  BY <1>1, <1>2, <1>3, <1>4, QuietFrom

LEMMA Ends ==
  ASSUME IInv, WaitInv, Current \in Target, pc = "user",
         cont[Current] \in {"user", "wait"},
         NEW j, Sound(k, j), KeptOthers(k, j),
         NEW timed \in BOOLEAN, Finish(j, timed),
         NEW Q, waits[Current].queue \in Q \cup {NoQueue}
  PROVE  IInv' /\ WaitInv' /\ NobodyLost({Current}) /\ Quiet(Q)
<1>1. ServesOthers(k, j, NoQueue)
  BY KeptServes
<1> QED
  BY <1>1, EndServes

\* ... and the first waiter of q is, if there is one.
LEMMA EndsHandingOver ==
  ASSUME IInv, WaitInv, Current \in Target, pc = "user",
         cont[Current] \in {"user", "wait"},
         NEW j, Sound(k, j), KeptOthers(k, j), NEW q \in Queue,
         NEW timed \in BOOLEAN, Finish(WakeFirst(j, q), timed),
         NEW Q, waits[Current].queue \in Q \cup {NoQueue}, q \in Q
  PROVE  /\ IInv' /\ WaitInv' /\ NobodyLost({Current}) /\ Quiet(Q)
         /\ k'.wait_queue[q] # <<>> => OneMore(q)
<1>1. /\ IInv' /\ WaitInv' /\ NobodyLost({Current}) /\ NoneServed(q)
      /\ k'.wait_queue[q] # <<>> => OneMore(q)
  BY HandOver
<1>2. /\ waits' = [waits EXCEPT ![Current] = NoWait] /\ NoWait.queue = NoQueue
      /\ Current \in Thread /\ q \in Q \cup {NoQueue}
  BY DEF Finish, NoWait, Target
<1>3. \A r \in Queue : /\ Woken(r) \ {Current} \subseteq Woken(r)'
                       /\ r \notin Q => ToSet(k'.wait_queue[r])
                                          \subseteq ToSet(k.wait_queue[r])
  BY <1>1 DEF NobodyLost
<1>4. \/ waits' = waits
      \/ \E w : /\ w.queue \in Q \cup {NoQueue}
                /\ waits' = [waits EXCEPT ![Current] = w]
  BY <1>2
<1> QED
  BY <1>1, <1>2, <1>3, <1>4, QuietFrom

\* A wait begins.
LEMMA Begins ==
  ASSUME IInv, WaitInv, Current \in Target, pc = "user",
         NEW j, Sound(k, j), KeptOthers(k, j),
         NEW q \in Queue, NEW timed \in BOOLEAN,
         BlockOn(GoToSleep(j, q, timed), q, timed),
         NEW Q, waits[Current].queue \in Q \cup {NoQueue}, q \in Q
  PROVE  /\ IInv' /\ WaitInv' /\ Quiet(Q)
         /\ \A r \in Queue : /\ Woken(r) \ {Current} \subseteq Woken(r)'
                             /\ r # q => ToSet(k'.wait_queue[r])
                                           \subseteq ToSet(k.wait_queue[r])
                             /\ ToSet(k'.wait_queue[r]) \ {Current}
                                  \subseteq ToSet(k.wait_queue[r])
<1>1. /\ IInv' /\ WaitInv' /\ NoneServed(NoQueue)
      /\ \A r \in Queue : /\ Woken(r) \ {Current} \subseteq Woken(r)'
                          /\ r # q => ToSet(k'.wait_queue[r])
                                        \subseteq ToSet(k.wait_queue[r])
                          /\ ToSet(k'.wait_queue[r]) \ {Current}
                               \subseteq ToSet(k.wait_queue[r])
  BY BeginWait
<1>2. /\ waits' = [waits EXCEPT ![Current] = Wait(q, timed)]
      /\ Wait(q, timed).queue = q /\ Current \in Thread /\ NoQueue \in Q \cup {NoQueue}
  BY DEF BlockOn, Wait, Target
<1>3. \A r \in Queue : /\ Woken(r) \ {Current} \subseteq Woken(r)'
                       /\ r \notin Q => ToSet(k'.wait_queue[r])
                                          \subseteq ToSet(k.wait_queue[r])
  BY <1>1
<1>4. \/ waits' = waits
      \/ \E w : /\ w.queue \in Q \cup {NoQueue}
                /\ waits' = [waits EXCEPT ![Current] = w]
  BY <1>2
<1> QED
  BY <1>1, <1>2, <1>3, <1>4, QuietFrom

\* A call, or a DSR's, that blocks nobody; it may wake from the queue q.
LEMMA CallServes ==
  ASSUME IInv, WaitInv, NEW j, Sound(k, j),
         NEW Q, NEW q \in Q \cup {NoQueue}, Serves(k, j, q), NEW name,
         \/ Calling(name) /\ Update(j)
         \/ DeviceCalling(name) /\ DeviceUpdate(j),
         waits' = waits
  PROVE  IInv' /\ WaitInv' /\ NobodyLost({}) /\ Quiet(Q) /\ k' = j
<1>0. NobodyLost({}) /\ NoneServed(q) => Quiet(Q)
  <2>1. \A r \in Queue \ Q : r \in Queue \ {q}
    BY ThreadAssumption
  <2>2. \A r \in Queue : Woken(r) \ {} = Woken(r)
    OBVIOUS
  <2> QED
    BY <2>1, <2>2 DEF NobodyLost, NoneServed, Quiet, QuietFor
<1>1. KernelInv
  BY DEF IInv
<1>2. CASE Calling(name) /\ Update(j)
  <2>1. Current \in Target /\ pc = "user" /\ cont[Current] = "user"
    BY <1>1, <1>2, CallerIsTarget DEF Calling
  <2>2. IInv' /\ WaitInv' /\ NobodyLost({}) /\ NoneServed(q) /\ k' = j
    BY <1>2, <2>1, QuietCall DEF Update, LockedUpdate
  <2> QED
    BY <1>0, <2>2
<1>3. CASE DeviceCalling(name) /\ DeviceUpdate(j)
  <2>1. pc = "dsr" /\ k' = j
    BY <1>3 DEF DeviceCalling, DeviceUpdate
  <2>2. IInv' /\ WaitInv' /\ NobodyLost({}) /\ NoneServed(q)
    BY <1>3, <2>1, QuietDSR
  <2> QED
    BY <1>0, <2>1, <2>2
<1> QED
  BY <1>2, <1>3

\* A thread that is at no place of a wait has none.
LEMMA InNoWait ==
  ASSUME WaitInv, Current \in Thread, cont[Current] = "user"
  PROVE  waits[Current].queue = NoQueue
  BY DEF WaitInv, InAWait

\* Who makes the calls, and who is back in a wait.
LEMMA Caller ==
  ASSUME IInv, WaitInv, NEW name, Calling(name)
  PROVE  /\ Current \in Target /\ Current \in Thread
         /\ pc = "user" /\ cont[Current] = "user"
         /\ waits[Current].queue = NoQueue
         /\ \A r \in Queue : Current \notin Woken(r)
<1>1. Current \in Target /\ Current \in Thread /\ pc = "user" /\ cont[Current] = "user"
  BY CallerIsTarget DEF Calling, IInv, Target
<1>2. waits[Current].queue = NoQueue
  BY <1>1, InNoWait
<1> QED
  BY <1>1, <1>2, ThreadAssumption DEF Woken

LEMMA Waiter ==
  ASSUME IInv, WaitInv, NEW Q, InWait(Q)
  PROVE  /\ Current \in Target /\ Current \in Thread
         /\ pc = "user" /\ cont[Current] = "wait"
         /\ waits[Current].queue \in Q /\ waits[Current].timed \in BOOLEAN
<1>1. cont[Current] = "wait" /\ pc = "user" /\ waits[Current].queue \in Q
  BY DEF InWait
<1>2. Current \in Target /\ Current \in Thread
  BY <1>1, CallerIsTarget DEF IInv, Target
<1> QED
  BY <1>1, <1>2 DEF WaitInv

LEMMA SameServes ==
  ASSUME IInv, WaitInv
  PROVE  /\ Sound(k, k) /\ Kept(k, k) /\ KeptOthers(k, k)
         /\ \A q : Serves(k, k, q)
<1>1. KernelOK(k) /\ WaitOK(k) /\ k.current_thread \in Thread
  BY DEF IInv, KernelInv, KernelOK, KernelData, WaitInv
<1>2. Kept(k, k)
  BY <1>1, KeptRefl
<1> QED
  BY <1>1, <1>2, SoundRefl, KeptServes DEF Kept, KeptOthers, KeptAt

\* The steps that belong to no object.
LEMMA OtherStep ==
  ASSUME IInv, WaitInv, WokenToExit \/ ([Next]_vars /\ waits' = waits)
  PROVE  IInv' /\ WaitInv' /\ Quiet({})
<1>1. \A r \in Queue : r # NoQueue
  BY ThreadAssumption
<1>2. CASE WokenToExit
  <2>1. IInv' /\ WaitInv' /\ NobodyLost({}) /\ NoneServed(NoQueue)
    BY <1>2, ExitWait
  <2>2. \A t \in Thread : waits'[t].queue # NoQueue => waits'[t] = waits[t]
    BY <1>2 DEF WokenToExit, NoWait, WaitInv
  <2> QED
    BY <1>1, <2>1, <2>2 DEF NobodyLost, NoneServed, Quiet, QuietFor
<1>3. CASE [Next]_vars /\ waits' = waits
  <2>1. IInv' /\ WaitInv' /\ NobodyLost({}) /\ NoneServed(NoQueue)
    BY <1>3, NextIInv, WaitStep
  <2> QED
    BY <1>1, <1>3, <2>1 DEF NobodyLost, NoneServed, Quiet, QuietFor
<1> QED
  BY <1>2, <1>3
------------------------------------------------------------------------------
(***************************************************************************)
(* Counting semaphores.  NoPostLost is inductive: each step changes the    *)
(* count by at most as much as it changes the number of the woken waiters. *)
(***************************************************************************)
SemInv ==
  /\ IInv
  /\ WaitInv
  /\ count \in [Semaphores -> Nat]
  /\ NoPostLost
------------------------------------------------------------------------------
(***************************************************************************)
(* What a step does to a semaphore's account.                              *)
(***************************************************************************)
Account(s) == Covered(s, count[s])

\* A step that leaves the count alone and loses no woken waiter.
LEMMA SameAccount ==
  ASSUME SemInv, IInv', NEW s \in Semaphores, count'[s] = count[s],
         Woken(s) \subseteq Woken(s)',
         ToSet(k'.wait_queue[s]) \subseteq ToSet(k.wait_queue[s])
  PROVE  Account(s)'
<1>1. s \in Queue /\ count[s] \in Nat /\ Covered(s, count[s]) /\ IInv
  BY SemaphoreAssumption DEF SemInv, NoPostLost, Covered
<1> QED
  BY <1>1, StillCovered DEF Account, Covered

\* The running thread takes a unit; it may have been one of the woken.
LEMMA TakenAccount ==
  ASSUME SemInv, IInv', NEW s \in Semaphores, count[s] > 0,
         count' = [count EXCEPT ![s] = @ - 1],
         Woken(s) \ {Current} \subseteq Woken(s)',
         ToSet(k'.wait_queue[s]) \subseteq ToSet(k.wait_queue[s])
  PROVE  Account(s)'
<1>1. /\ s \in Queue /\ count \in [Semaphores -> Nat] /\ IInv
      /\ Covered(s, count[s])
  BY SemaphoreAssumption DEF SemInv, NoPostLost, Covered
<1>2. count[s] \in Nat /\ count'[s] \in Nat /\ count'[s] + 1 <= count[s]
  BY <1>1
<1> QED
  BY <1>1, <1>2, StillCovered DEF Account, Covered

\* A unit is posted: if there are waiters, one more is on its way.
LEMMA PostedAccount ==
  ASSUME SemInv, IInv', NEW s \in Semaphores,
         count' = [count EXCEPT ![s] = @ + 1],
         k' = WakeFirst(k, s), waits' = waits, NobodyLost({})
  PROVE  Account(s)'
<1>1. /\ s \in Queue /\ count \in [Semaphores -> Nat] /\ IInv /\ WaitInv
      /\ Covered(s, count[s])
  BY SemaphoreAssumption DEF SemInv, NoPostLost, Covered
<1>2. count[s] \in Nat /\ count'[s] \in Nat /\ count'[s] <= count[s] + 1
  BY <1>1
<1>3. Woken(s) \subseteq Woken(s)' /\ ToSet(k'.wait_queue[s]) \subseteq ToSet(k.wait_queue[s])
  BY <1>1 DEF NobodyLost
<1> SUFFICES ASSUME k'.wait_queue[s] # <<>> PROVE Account(s)'
  BY DEF Account, Covered
<1>4. k.wait_queue[s] # <<>>
  BY <1>1, <1>3, StillQueued DEF IInv, KernelInv, KernelOK
<1>5. OneMore(s)
  BY <1>1, <1>4, OneMoreWoken DEF OneMore
<1> QED
  BY <1>1, <1>2, <1>3, <1>5, StillCovered DEF Account, Covered
------------------------------------------------------------------------------
(***************************************************************************)
(* The steps.                                                              *)
(***************************************************************************)
\* Of two states: the invariant of the second, from the accounts.
LEMMA SemInvFrom ==
  ASSUME IInv', WaitInv', count' \in [Semaphores -> Nat],
         \A s \in Semaphores : Account(s)'
  PROVE  SemInv'
  BY DEF SemInv, NoPostLost, Account, Covered

\* A step of another object, or of the scheduler.
LEMMA SemAside ==
  ASSUME SemInv, IInv', WaitInv', NEW Q, Quiet(Q), Semaphores \cap Q = {},
         count' = count
  PROVE  SemInv'
<1>1. ASSUME NEW s \in Semaphores PROVE Account(s)'
  <2>1. s \in Queue \ Q
    BY SemaphoreAssumption
  <2> QED
    BY <2>1, SameAccount DEF Quiet, QuietFor
<1> QED
  BY <1>1, SemInvFrom DEF SemInv

\* The loop of wait(), entered with the data left as j.
LEMMA WaitLoopStep ==
  ASSUME SemInv, Current \in Target, pc = "user",
         NEW s \in Semaphores, NEW timed \in BOOLEAN,
         \/ cont[Current] = "user"
         \/ cont[Current] = "wait" /\ waits[Current].queue = s,
         NEW j, Sound(k, j), KeptOthers(k, j), WaitLoop(j, s, timed)
  PROVE  SemInv' /\ Quiet(Semaphores)
<1>1. /\ IInv /\ WaitInv /\ Current \in Thread /\ s \in Queue
      /\ Semaphores \subseteq Queue
      /\ count \in [Semaphores -> Nat] /\ cont[Current] \in {"user", "wait"}
  BY SemaphoreAssumption DEF SemInv, Target
<1>2. waits[Current].queue \in {s, NoQueue}
  BY <1>1, InNoWait
<1>3. ASSUME NEW r \in Semaphores, r # s PROVE Current \notin Woken(r)
  <2>1. waits[Current].queue # r
    BY <1>2, <1>1, <1>3, ThreadAssumption
  <2> QED
    BY <2>1 DEF Woken
<1>4. CASE /\ count[s] > 0
           /\ count' = [count EXCEPT ![s] = @ - 1]
           /\ Finish(j, timed)
  <2>1. IInv' /\ WaitInv' /\ NobodyLost({Current}) /\ Quiet(Semaphores)
    BY <1>1, <1>4, <1>2, Ends
  <2>2. count' \in [Semaphores -> Nat] /\ \A r \in Semaphores : r # s => count'[r] = count[r]
    BY <1>1, <1>4
  <2>3. ASSUME NEW r \in Semaphores PROVE Account(r)'
    <3>1. /\ Woken(r) \ {Current} \subseteq Woken(r)'
          /\ ToSet(k'.wait_queue[r]) \subseteq ToSet(k.wait_queue[r])
      BY <1>1, <2>1 DEF NobodyLost
    <3>2. CASE r = s
      BY <1>4, <2>1, <3>1, <3>2, TakenAccount
    <3>3. CASE r # s
      BY <1>3, <2>1, <2>2, <3>1, <3>3, SameAccount
    <3> QED
      BY <3>2, <3>3
  <2> QED
    BY <2>1, <2>2, <2>3, SemInvFrom
<1>5. CASE /\ count[s] = 0
           /\ BlockOn(GoToSleep(j, s, timed), s, timed)
           /\ UNCHANGED count
  <2>1. /\ IInv' /\ WaitInv' /\ Quiet(Semaphores)
        /\ \A r \in Queue : /\ Woken(r) \ {Current} \subseteq Woken(r)'
                            /\ r # s => ToSet(k'.wait_queue[r])
                                          \subseteq ToSet(k.wait_queue[r])
    BY <1>1, <1>5, <1>2, Begins
  <2>2. ASSUME NEW r \in Semaphores PROVE Account(r)'
    <3>1. CASE r = s
      <4>1. Woken(r)' \in SUBSET Thread
        BY DEF Woken
      <4>2. Cardinality(Woken(r)') \in Nat
        BY <4>1, WokenCount
      <4> QED
        BY <1>5, <3>1, <4>2 DEF Account, Covered
    <3>2. CASE r # s
      BY <1>1, <1>3, <1>5, <2>1, <3>2, SameAccount
    <3> QED
      BY <3>1, <3>2
  <2> QED
    BY <1>1, <1>5, <2>1, <2>2, SemInvFrom
<1> QED
  BY <1>4, <1>5 DEF WaitLoop

\* The wait is given up by a thread that is not one of the woken.
LEMMA GiveUpStep ==
  ASSUME SemInv, Current \in Target, pc = "user",
         cont[Current] \in {"user", "wait"},
         \A s \in Semaphores : Current \notin Woken(s),
         NEW j, Sound(k, j), KeptOthers(k, j), NEW timed \in BOOLEAN,
         GiveUp(j, timed), waits[Current].queue \in Semaphores \cup {NoQueue}
  PROVE  SemInv' /\ Quiet(Semaphores)
<1>1. /\ IInv' /\ WaitInv' /\ NobodyLost({Current}) /\ Quiet(Semaphores)
      /\ count' = count
  BY Ends DEF GiveUp, SemInv
<1>2. ASSUME NEW s \in Semaphores PROVE Account(s)'
  <2>1. s \in Queue
    BY SemaphoreAssumption
  <2> QED
    BY <1>1, <2>1, SameAccount DEF NobodyLost
<1> QED
  BY <1>1, <1>2, SemInvFrom DEF SemInv

LEMMA SemStepInv ==
  ASSUME SemInv, SemStep
  PROVE  SemInv' /\ Quiet(Semaphores)
<1>0. /\ IInv /\ WaitInv /\ KernelInv /\ KernelOK(k) /\ WaitOK(k)
      /\ Current = k.current_thread /\ Semaphores \subseteq Queue
      /\ count \in [Semaphores -> Nat]
      /\ NoQueue \notin Queue
  BY SemaphoreAssumption, ThreadAssumption
     DEF SemInv, WaitInv, IInv, KernelInv, Current
<1>1. Sound(k, k) /\ KeptOthers(k, k) /\ Kept(k, k)
  BY <1>0, SameServes
\* A call of a thread that is in no wait.
<1>2. ASSUME NEW name, Calling(name)
      PROVE  /\ Current \in Target /\ pc = "user" /\ cont[Current] = "user"
             /\ waits[Current].queue \in Semaphores \cup {NoQueue}
             /\ \A s \in Semaphores : Current \notin Woken(s)
  BY <1>0, <1>2, Caller
<1>3. ASSUME InWait(Semaphores)
      PROVE  /\ Current \in Target /\ pc = "user" /\ cont[Current] = "wait"
             /\ waits[Current].queue \in Semaphores
             /\ waits[Current].timed \in BOOLEAN
  BY <1>0, <1>3, Waiter
<1>4. CASE WokenToGiveUp
  <2>1. /\ InWait(Semaphores) /\ k.wake_reason[Current] \in {"BREAK", "TIMEOUT"}
        /\ GiveUp(k, waits[Current].timed)
    BY <1>4 DEF WokenToGiveUp, BrokenOff
  <2>2. \A s \in Semaphores : Current \notin Woken(s)
    BY <2>1 DEF Woken
  <2> QED
    BY <1>1, <1>3, <2>1, <2>2, GiveUpStep
<1>5. CASE WokenToRetry
  <2>1. /\ InWait(Semaphores)
        /\ WaitLoop(k, waits[Current].queue, waits[Current].timed)
    BY <1>5 DEF WokenToRetry
  <2> QED
    BY <1>1, <1>3, <2>1, WaitLoopStep
<1>6. ASSUME NEW s \in Semaphores, SemWait(s)
      PROVE  SemInv' /\ Quiet(Semaphores)
  BY <1>1, <1>2, <1>6, WaitLoopStep DEF SemWait
\* The timer of a timed wait, set in the future or in the past.
<1>7. LET i == SetTimer(k, "TIMEOUT")
      IN  /\ Sound(k, i) /\ KeptOthers(k, i)
          /\ Sound(k, Alarm(i, Current)) /\ KeptOthers(k, Alarm(i, Current))
  BY <1>0, TimerForWait
<1>8. ASSUME NEW s \in Semaphores, SemTimedWait(s)
      PROVE  SemInv' /\ Quiet(Semaphores)
  BY <1>2, <1>7, <1>8, WaitLoopStep DEF SemTimedWait
<1>9. ASSUME NEW s \in Semaphores, SemTimedWaitPast(s)
      PROVE  SemInv' /\ Quiet(Semaphores)
  <2> DEFINE j == Alarm(SetTimer(k, "TIMEOUT"), Current)
  <2>1. Sound(k, j) /\ KeptOthers(k, j)
    BY <1>7
  <2>2. Calling("timed_wait") /\ (GiveUp(j, TRUE) \/ WaitLoop(j, s, TRUE))
    BY <1>9 DEF SemTimedWaitPast
  <2> HIDE DEF j
  <2>3. /\ Current \in Target /\ pc = "user" /\ cont[Current] = "user"
        /\ waits[Current].queue \in Semaphores \cup {NoQueue}
        /\ \A r \in Semaphores : Current \notin Woken(r)
    BY <1>2, <2>2
  <2> QED
    BY <2>1, <2>2, <2>3, GiveUpStep, WaitLoopStep
<1>10. ASSUME NEW s \in Semaphores, SemTryWait(s)
       PROVE  SemInv' /\ Quiet(Semaphores)
  <2>1. /\ Calling("trywait") /\ Update(k) /\ waits' = waits
        /\ count' = [count EXCEPT ![s] = IF @ > 0 THEN @ - 1 ELSE @]
    BY <1>10 DEF SemTryWait
  <2>2. IInv' /\ WaitInv' /\ NobodyLost({}) /\ Quiet(Semaphores) /\ Quiet({})
    BY <1>0, <1>1, <2>1, SameServes, CallServes
  <2>3. CASE count[s] > 0
    <3>1. count' = [count EXCEPT ![s] = @ - 1]
      BY <1>0, <2>1, <2>3
    <3>2. count' \in [Semaphores -> Nat] /\ \A r \in Semaphores : r # s => count'[r] = count[r]
      BY <1>0, <2>3, <3>1
    <3>3. ASSUME NEW r \in Semaphores PROVE Account(r)'
      <4>1. /\ Woken(r) \subseteq Woken(r)'
            /\ ToSet(k'.wait_queue[r]) \subseteq ToSet(k.wait_queue[r])
        BY <1>0, <2>2 DEF NobodyLost
      <4>2. CASE r = s
        BY <2>2, <2>3, <3>1, <4>1, <4>2, TakenAccount
      <4>3. CASE r # s
        BY <2>2, <3>2, <4>1, <4>3, SameAccount
      <4> QED
        BY <4>2, <4>3
    <3> QED
      BY <2>2, <3>2, <3>3, SemInvFrom
  <2>4. CASE ~(count[s] > 0)
    <3>1. count' = count
      BY <1>0, <2>1, <2>4
    <3> QED
      BY <1>0, <2>2, <3>1, SemAside
  <2> QED
    BY <2>3, <2>4
\* A post, by a thread or a DSR.
<1>11. ASSUME NEW s \in Semaphores, Posted(s), k' = WakeFirst(k, s),
              waits' = waits, IInv', WaitInv', NobodyLost({})
       PROVE  SemInv'
  <2>1. count' = [count EXCEPT ![s] = @ + 1]
    BY <1>11 DEF Posted
  <2>2. count' \in [Semaphores -> Nat] /\ \A r \in Semaphores : r # s => count'[r] = count[r]
    BY <1>0, <2>1
  <2>3. ASSUME NEW r \in Semaphores PROVE Account(r)'
    <3>1. CASE r = s
      BY <1>11, <2>1, <3>1, PostedAccount
    <3>2. CASE r # s
      BY <1>0, <1>11, <2>2, <3>2, SameAccount DEF NobodyLost
    <3> QED
      BY <3>1, <3>2
  <2> QED
    BY <1>11, <2>2, <2>3, SemInvFrom
<1>12. ASSUME NEW s \in Semaphores, SemPost(s) \/ SemPostDSR(s)
       PROVE  SemInv' /\ Quiet(Semaphores)
  <2> DEFINE j == WakeFirst(k, s)
  <2>1. /\ Posted(s) /\ waits' = waits
        /\ \/ Calling("post") /\ Update(j)
           \/ DeviceCalling("post") /\ DeviceUpdate(j)
    BY <1>12 DEF SemPost, SemPostDSR
  <2>2. Sound(k, j) /\ Serves(k, j, s)
    BY <1>0, WakeFirstServes
  <2> HIDE DEF j
  <2>3. IInv' /\ WaitInv' /\ NobodyLost({}) /\ Quiet(Semaphores) /\ k' = j
    BY <1>0, <2>1, <2>2, CallServes
  <2> QED
    BY <1>11, <2>1, <2>3 DEF j
<1> QED
  BY <1>4, <1>5, <1>6, <1>8, <1>9, <1>10, <1>12 DEF SemStep
------------------------------------------------------------------------------
LEMMA InitialSemInv == SemInit => SemInv
<1> SUFFICES ASSUME SemInit PROVE SemInv
  OBVIOUS
<1>1. Init /\ waits = [t \in Thread |-> NoWait] /\ count = InitCount
  BY DEF SemInit
<1>2. IInv /\ WaitInv
  BY <1>1, InitIInv, WaitInit
<1>3. count \in [Semaphores -> Nat]
  BY <1>1, SemaphoreAssumption
<1>4. NoPostLost
  BY <1>1, SemaphoreAssumption DEF NoPostLost, Init, InitialData
<1> QED
  BY <1>2, <1>3, <1>4 DEF SemInv

LEMMA SemInvariance == SemSpec => []SemInv
<1>1. SemInv /\ [SemNext]_<<vars, semvars>> => SemInv'
  <2> SUFFICES ASSUME SemInv, [SemNext]_<<vars, semvars>> PROVE SemInv'
    OBVIOUS
  <2>1. CASE SemStep
    BY <2>1, SemStepInv
  <2>2. CASE \/ WokenToExit /\ UNCHANGED count
             \/ [Next]_vars /\ UNCHANGED semvars
    <3>1. IInv' /\ WaitInv' /\ Quiet({}) /\ count' = count
      BY <2>2, OtherStep DEF SemInv, semvars
    <3> QED
      BY <3>1, SemAside
  <2> QED
    BY <2>1, <2>2 DEF SemNext
<1> QED
  BY <1>1, InitialSemInv, PTL DEF SemSpec

\* No variable of a semaphore leaves its type: its count is never negative,
\* whoever takes and posts (cnt_sem.cxx, CYG_ASSERTs on count).
THEOREM SemTypeCorrect == SemSpec => []SemTypeOK
<1>1. SemInv => SemTypeOK
  BY DEF SemInv, IInv, KernelInv, WaitInv, SemTypeOK
<1> QED
  BY <1>1, SemInvariance, PTL

\* Preemption is not lost over semaphores either: their waits, posts and
\* timeouts leave the scheduler's own promise as it was (sched.cxx).
THEOREM SemTopPriority == SemSpec => []TopPriorityRuns
<1>1. SemInv => TopPriorityRuns
  BY DEF SemInv, IInv, KernelInv, KernelOK, Settled, PreemptionNoted,
     TopPriorityRuns, Current
<1> QED
  BY <1>1, SemInvariance, PTL

\* A semaphore's queue holds exactly the threads that sleep in a wait on it,
\* whatever wakes, kills, suspends or moves them (cnt_sem.cxx, mlqueue.cxx).
THEOREM SemWaitersExact == SemSpec => []WaitersExact
<1>1. SemInv => WaitersExact
  BY ExactWaiters DEF SemInv
<1> QED
  BY <1>1, SemInvariance, PTL

\* No unit is left over while threads sleep for it, unless a woken waiter is
\* on its way to take it (cnt_sem.cxx, wait and post).
THEOREM PostsAreNotLost == SemSpec => []NoPostLost
<1>1. SemInv => NoPostLost
  BY DEF SemInv
<1> QED
  BY <1>1, SemInvariance, PTL
------------------------------------------------------------------------------
(***************************************************************************)
(* A binary semaphore.                                                     *)
(***************************************************************************)
BinInv ==
  /\ IInv
  /\ WaitInv
  /\ state \in BOOLEAN
  /\ BinNotStranded
------------------------------------------------------------------------------
\* A step that does not set the state, and loses none of the woken.
LEMMA StillNotStranded ==
  ASSUME BinInv, IInv', WaitInv', state' \in BOOLEAN, state' => state,
         state' => /\ Woken(BinQueue) \subseteq Woken(BinQueue)'
                   /\ ToSet(k'.wait_queue[BinQueue])
                        \subseteq ToSet(k.wait_queue[BinQueue])
  PROVE  BinInv'
<1>1. k \in KernelData /\ k' \in KernelData /\ BinQueue \in Queue
  BY BinarySemaphoreAssumption DEF BinInv, IInv, KernelInv, KernelOK
<1> SUFFICES ASSUME state', k'.wait_queue[BinQueue] # <<>>
             PROVE  Woken(BinQueue)' # {}
  BY DEF BinInv, BinNotStranded
<1>2. k.wait_queue[BinQueue] # <<>>
  BY <1>1, StillQueued
<1> QED
  BY <1>2 DEF BinInv, BinNotStranded

\* The loop of wait(), entered with the data left as j.
LEMMA BinLoopStep ==
  ASSUME BinInv, Current \in Target, pc = "user",
         cont[Current] \in {"user", "wait"}, NEW timed \in BOOLEAN,
         waits[Current].queue \in {BinQueue} \cup {NoQueue},
         NEW j, Sound(k, j), KeptOthers(k, j), BinLoop(j, timed)
  PROVE  BinInv' /\ Quiet({BinQueue})
<1>1. BinQueue \in Queue /\ IInv /\ WaitInv
  BY BinarySemaphoreAssumption DEF BinInv
<1>2. CASE state' = FALSE /\ Finish(j, timed)
  <2>1. IInv' /\ WaitInv' /\ Quiet({BinQueue})
    BY <1>1, <1>2, Ends
  <2> QED
    BY <1>2, <2>1, StillNotStranded
<1>3. CASE /\ ~state
           /\ BlockOn(GoToSleep(j, BinQueue, timed), BinQueue, timed)
           /\ UNCHANGED state
  <2>1. IInv' /\ WaitInv' /\ Quiet({BinQueue})
    BY <1>1, <1>3, Begins
  <2> QED
    BY <1>3, <2>1, StillNotStranded DEF BinInv
<1> QED
  BY <1>2, <1>3 DEF BinLoop

\* A post: whoever waits first is on its way.
LEMMA BinPostStep ==
  ASSUME BinInv, IInv', WaitInv', NobodyLost({}), state' = TRUE,
         k' = WakeFirst(k, BinQueue), waits' = waits
  PROVE  BinInv'
<1>1. /\ k \in KernelData /\ k' \in KernelData /\ BinQueue \in Queue
      /\ IInv /\ WaitInv
  BY BinarySemaphoreAssumption DEF BinInv, IInv, KernelInv, KernelOK
<1> SUFFICES ASSUME k'.wait_queue[BinQueue] # <<>>
             PROVE  Woken(BinQueue)' # {}
  BY DEF BinInv, BinNotStranded
<1>2. k.wait_queue[BinQueue] # <<>>
  BY <1>1, StillQueued DEF NobodyLost
<1> QED
  BY <1>1, <1>2, OneMoreWoken

\* A step of another object, or of the scheduler.
LEMMA BinAside ==
  ASSUME BinInv, IInv', WaitInv', NEW Q, Quiet(Q), BinQueue \notin Q, state' = state
  PROVE  BinInv'
<1>1. BinQueue \in Queue \ Q
  BY BinarySemaphoreAssumption
<1> QED
  BY <1>1, StillNotStranded DEF BinInv, Quiet, QuietFor

LEMMA BinStepInv ==
  ASSUME BinInv, BinStep
  PROVE  BinInv' /\ Quiet({BinQueue})
<1>0. /\ IInv /\ WaitInv /\ KernelOK(k) /\ WaitOK(k) /\ state \in BOOLEAN
      /\ Current = k.current_thread /\ BinQueue \in Queue
  BY BinarySemaphoreAssumption
     DEF BinInv, WaitInv, IInv, KernelInv, Current
<1>1. Sound(k, k) /\ KeptOthers(k, k) /\ \A q : Serves(k, k, q)
  BY <1>0, SameServes
<1>2. LET i == SetTimer(k, "TIMEOUT")
      IN  /\ Sound(k, i) /\ KeptOthers(k, i)
          /\ Sound(k, Alarm(i, Current)) /\ KeptOthers(k, Alarm(i, Current))
  BY <1>0, TimerForWait
<1>3. CASE BinWait
  BY <1>0, <1>1, <1>3, Caller, BinLoopStep DEF BinWait
<1>4. CASE BinTimedWait
  <2> DEFINE i == SetTimer(k, "TIMEOUT")
             past == Alarm(i, Current)
  <2>1. /\ Current \in Target /\ pc = "user" /\ cont[Current] = "user"
        /\ waits[Current].queue \in {BinQueue} \cup {NoQueue}
        /\ \/ BinLoop(i, TRUE)
           \/ Finish(past, TRUE) /\ state' = FALSE
    BY <1>0, <1>4, Caller DEF BinTimedWait
  <2>2. /\ Sound(k, i) /\ KeptOthers(k, i)
        /\ Sound(k, past) /\ KeptOthers(k, past)
    BY <1>2
  <2> HIDE DEF i, past
  <2>3. CASE BinLoop(i, TRUE)
    BY <2>1, <2>2, <2>3, BinLoopStep
  <2>4. CASE Finish(past, TRUE) /\ state' = FALSE
    <3>1. IInv' /\ WaitInv' /\ Quiet({BinQueue})
      BY <1>0, <2>1, <2>2, <2>4, Ends
    <3> QED
      BY <2>4, <3>1, StillNotStranded
  <2> QED
    BY <2>1, <2>3, <2>4
<1>5. CASE BinWoken
  <2>1. /\ Current \in Target /\ pc = "user" /\ cont[Current] = "wait"
        /\ waits[Current].queue = BinQueue /\ waits[Current].timed \in BOOLEAN
    BY <1>0, <1>5, Waiter DEF BinWoken
  <2>2. CASE BrokenOff /\ Finish(k, waits[Current].timed) /\ UNCHANGED state
    <3>1. IInv' /\ WaitInv' /\ NobodyLost({Current}) /\ Quiet({BinQueue})
      BY <1>0, <1>1, <2>1, <2>2, Ends
    <3>2. Current \notin Woken(BinQueue)
      BY <2>2 DEF BrokenOff, Woken
    <3> QED
      BY <1>0, <2>2, <3>1, <3>2, StillNotStranded DEF NobodyLost
  <2>3. CASE BinLoop(k, waits[Current].timed)
    BY <1>1, <2>1, <2>3, BinLoopStep
  <2> QED
    BY <1>5, <2>2, <2>3 DEF BinWoken
<1>6. CASE BinTryWait
  <2>1. Calling("bin_trywait") /\ state' = FALSE /\ Update(k) /\ waits' = waits
    BY <1>6 DEF BinTryWait
  <2>2. IInv' /\ WaitInv' /\ Quiet({BinQueue})
    BY <1>0, <1>1, <2>1, CallServes
  <2> QED
    BY <2>1, <2>2, StillNotStranded
<1>7. CASE BinPost \/ BinPostDSR
  <2> DEFINE j == WakeFirst(k, BinQueue)
  <2>1. /\ state' = TRUE /\ waits' = waits
        /\ \/ Calling("bin_post") /\ Update(j)
           \/ DeviceCalling("bin_post") /\ DeviceUpdate(j)
    BY <1>7 DEF BinPost, BinPostDSR
  <2>2. Sound(k, j) /\ Serves(k, j, BinQueue)
    BY <1>0, WakeFirstServes
  <2> HIDE DEF j
  <2>3. IInv' /\ WaitInv' /\ NobodyLost({}) /\ Quiet({BinQueue}) /\ k' = j
    BY <1>0, <2>1, <2>2, CallServes
  <2> QED
    BY <2>1, <2>3, BinPostStep DEF j
<1> QED
  BY <1>3, <1>4, <1>5, <1>6, <1>7 DEF BinStep
------------------------------------------------------------------------------
LEMMA InitialBinInv == BinInit => BinInv
<1> SUFFICES ASSUME BinInit PROVE BinInv
  OBVIOUS
<1>1. IInv /\ WaitInv
  BY InitIInv, WaitInit DEF BinInit
<1> QED
  BY <1>1 DEF BinInv, BinNotStranded, BinInit

LEMMA BinInvariance == BinSpec => []BinInv
<1>1. BinInv /\ [BinNext]_<<vars, state, waits>> => BinInv'
  <2> SUFFICES ASSUME BinInv, [BinNext]_<<vars, state, waits>> PROVE BinInv'
    OBVIOUS
  <2>1. CASE BinStep
    BY <2>1, BinStepInv
  <2>2. CASE \/ WokenToExit /\ UNCHANGED state
             \/ [Next]_vars /\ UNCHANGED <<state, waits>>
    <3>1. IInv' /\ WaitInv' /\ Quiet({}) /\ state' = state
      BY <2>2, OtherStep DEF BinInv
    <3> QED
      BY <3>1, BinAside
  <2> QED
    BY <2>1, <2>2 DEF BinNext
<1> QED
  BY <1>1, InitialBinInv, PTL DEF BinSpec

\* While a binary semaphore is posted and threads sleep for it, one has been
\* woken to take it (bin_sem.cxx, wait and post).
THEOREM BinPostsAreNotLost == BinSpec => []BinNotStranded
<1>1. BinInv => BinNotStranded
  BY DEF BinInv
<1> QED
  BY <1>1, BinInvariance, PTL
------------------------------------------------------------------------------
(***************************************************************************)
(* A mail box, of any size: its ring is a bounded buffer, and nothing is   *)
(* left in it, nor free in it, with a thread asleep for it and none on its *)
(* way.                                                                    *)
(***************************************************************************)
\* What a thread wants to put while it waits.
Offers == \A t \in Thread : waits[t].queue = PutQueue => item[t] \in Item

BoxInv ==
  /\ IInv
  /\ WaitInv
  /\ BoxTypeOK
  /\ Offers
  /\ NothingStranded

\* What a step may do to the ring.
RingStep ==
  \/ UNCHANGED <<box, got>>
  \/ box.count > 0 /\ TakeItem
  \/ \E i \in Item : box.count < Size /\ StoreItem(i)
------------------------------------------------------------------------------
(***************************************************************************)
(* The ring.                                                               *)
(***************************************************************************)
\* The fields of the box, before and after.
RingOK ==
  /\ box.base \in Slot
  /\ box.count \in 0 .. Size
  /\ box.itemqueue \in [Slot -> Item \cup {NoItem}]
  /\ got \in Item \cup {NoItem}

Taken ==
  /\ got' = box.itemqueue[box.base]
  /\ box'.itemqueue = box.itemqueue
  /\ box'.count = box.count - 1
  /\ box'.base = IF box.base + 1 >= Size THEN 0 ELSE box.base + 1

Stored(i) ==
  /\ got' = got
  /\ box'.itemqueue = [box.itemqueue EXCEPT ![InSlot] = i]
  /\ box'.count = box.count + 1
  /\ box'.base = box.base

Boxes == [base : Slot, count : 0 .. Size, itemqueue : [Slot -> Item \cup {NoItem}]]

LEMMA RingFields ==
  ASSUME BoxTypeOK
  PROVE  /\ RingOK
         /\ TakeItem => /\ Taken
                        /\ box' = [base |-> box'.base, count |-> box'.count,
                                   itemqueue |-> box'.itemqueue]
         /\ \A i : StoreItem(i) => /\ Stored(i)
                                   /\ box' = [base |-> box'.base,
                                              count |-> box'.count,
                                              itemqueue |-> box'.itemqueue]
<1>1. box \in Boxes /\ RingOK
  BY DEF BoxTypeOK, RingOK, Boxes
<1>2. ASSUME TakeItem
      PROVE  Taken /\ box' = [base |-> box'.base, count |-> box'.count,
                              itemqueue |-> box'.itemqueue]
  BY <1>1, <1>2 DEF TakeItem, Taken, Boxes
<1>3. ASSUME NEW i, StoreItem(i)
      PROVE  Stored(i) /\ box' = [base |-> box'.base, count |-> box'.count,
                                  itemqueue |-> box'.itemqueue]
  <2>1. box = [base |-> box.base, count |-> box.count, itemqueue |-> box.itemqueue]
    BY <1>1 DEF Boxes
  <2>2. /\ box' = [base |-> box.base, count |-> box.count + 1,
                  itemqueue |-> [box.itemqueue EXCEPT ![InSlot] = i]]
        /\ got' = got
    BY <1>3, <2>1 DEF StoreItem, InSlot
  <2> QED
    BY <2>2 DEF Stored
<1> QED
  BY <1>1, <1>2, <1>3

LEMMA RingType ==
  ASSUME BoxTypeOK, RingStep, item' \in [Thread -> Item \cup {NoItem}]
  PROVE  BoxTypeOK'
<1>1. Size \in Nat /\ Size > 0 /\ RingOK
  BY MailboxAssumption, RingFields
<1>2. CASE UNCHANGED <<box, got>>
  BY <1>2 DEF BoxTypeOK, Slot
<1>3. CASE box.count > 0 /\ TakeItem
  <2>1. /\ Taken
        /\ box' = [base |-> box'.base, count |-> box'.count,
                   itemqueue |-> box'.itemqueue]
    BY <1>3, RingFields
  <2>2. /\ box'.base \in Slot /\ box'.count \in 0 .. Size
        /\ box'.itemqueue \in [Slot -> Item \cup {NoItem}]
        /\ got' \in Item \cup {NoItem}
    BY <1>1, <1>3, <2>1 DEF Taken, RingOK, Slot
  <2> QED
    BY <2>1, <2>2 DEF BoxTypeOK, Slot
<1>4. CASE \E i \in Item : box.count < Size /\ StoreItem(i)
  <2> PICK i \in Item : box.count < Size /\ StoreItem(i)
    BY <1>4
  <2>1. /\ Stored(i)
        /\ box' = [base |-> box'.base, count |-> box'.count,
                   itemqueue |-> box'.itemqueue]
    BY RingFields
  <2>2. InSlot \in Slot
    BY <1>1 DEF RingOK, InSlot, Slot
  <2>3. box'.base \in Slot /\ box'.count \in 0 .. Size /\ got' \in Item \cup {NoItem}
    BY <1>1, <2>1 DEF Stored, RingOK
  <2>4. box'.itemqueue \in [Slot -> Item \cup {NoItem}]
    BY <1>1, <2>1, <2>2 DEF Stored, RingOK
  <2> QED
    BY <2>1, <2>3, <2>4 DEF BoxTypeOK
<1> QED
  BY <1>2, <1>3, <1>4 DEF RingStep

\* The slot an index stands for.
LEMMA Wrap ==
  ASSUME NEW n \in Nat, n < Size + Size
  PROVE  n % Size = IF n < Size THEN n ELSE n - Size
<1>1. Size \in Nat /\ Size > 0
  BY MailboxAssumption
<1> QED
  BY <1>1, SMTT(60)

(***************************************************************************)
(* The ring is a buffer.                                                   *)
(***************************************************************************)
ContentsOf(b) == [n \in 1 .. b.count |-> b.itemqueue[(b.base + n - 1) % Size]]

At(b, n) == IF b.base + n - 1 < Size THEN b.base + n - 1
            ELSE b.base + n - 1 - Size

LEMMA ContentsAt ==
  ASSUME NEW b, b.base \in Slot, b.count \in 0 .. Size,
         b.itemqueue \in [Slot -> Item \cup {NoItem}]
  PROVE  /\ ContentsOf(b) \in Seq(Item \cup {NoItem})
         /\ Len(ContentsOf(b)) = b.count
         /\ \A n \in 1 .. b.count : ContentsOf(b)[n] = b.itemqueue[At(b, n)]
<1>1. Size \in Nat /\ Size > 0
  BY MailboxAssumption
<1>2. ASSUME NEW n \in 1 .. b.count
      PROVE  (b.base + n - 1) % Size = At(b, n) /\ At(b, n) \in Slot
  <2>1. b.base + n - 1 \in Nat /\ b.base + n - 1 < Size + Size
    BY <1>1 DEF Slot
  <2> QED
    BY <1>1, <2>1, Wrap DEF Slot, At
<1>3. ContentsOf(b) = [n \in 1 .. b.count |-> b.itemqueue[At(b, n)]]
  BY <1>2 DEF ContentsOf
<1>4. \A n \in 1 .. b.count : b.itemqueue[At(b, n)] \in Item \cup {NoItem}
  BY <1>2
<1>5. b.count \in Nat
  BY <1>1
<1>6. ContentsOf(b) \in Seq(Item \cup {NoItem}) /\ Len(ContentsOf(b)) = b.count
  BY <1>3, <1>4, <1>5
<1> QED
  BY <1>3, <1>6

LEMMA TakeIsGet ==
  ASSUME BoxTypeOK, BoxTypeOK', box.count > 0, TakeItem
  PROVE  Fifo!Get
<1>1. RingOK /\ RingOK' /\ Taken /\ Size \in Nat /\ Size > 0
  BY RingFields, MailboxAssumption DEF BoxTypeOK, RingOK
<1>2. /\ Contents \in Seq(Item \cup {NoItem}) /\ Len(Contents) = box.count
      /\ \A n \in 1 .. box.count : Contents[n] = box.itemqueue[At(box, n)]
  BY <1>1, ContentsAt DEF Contents, ContentsOf, RingOK
<1>3. /\ Contents' \in Seq(Item \cup {NoItem}) /\ Len(Contents') = box'.count
      /\ \A n \in 1 .. box'.count : Contents'[n] = box'.itemqueue[At(box', n)]
  BY <1>1, ContentsAt DEF Contents, ContentsOf, RingOK
<1>4. Contents # <<>> /\ Head(Contents) = got'
  <2>1. Contents # <<>> /\ Head(Contents) = Contents[1] /\ 1 \in 1 .. box.count
    BY <1>1, <1>2 DEF RingOK
  <2>2. At(box, 1) = box.base
    BY <1>1 DEF RingOK, Slot, At
  <2> QED
    BY <1>1, <1>2, <2>1, <2>2 DEF Taken
<1>5. Contents' = Tail(Contents)
  <2>1. Len(Contents') = Len(Tail(Contents)) /\ Tail(Contents) \in Seq(Item \cup {NoItem})
    BY <1>1, <1>2, <1>3 DEF Taken, RingOK
  <2>2. ASSUME NEW n \in 1 .. Len(Contents')
        PROVE  Contents'[n] = Tail(Contents)[n]
    <3>1. n + 1 \in 1 .. box.count /\ n \in 1 .. box'.count
      BY <1>1, <1>3 DEF Taken, RingOK
    <3>2. Tail(Contents)[n] = Contents[n + 1]
      BY <1>2, <1>4, <3>1
    <3>3. /\ Contents'[n] = box'.itemqueue[At(box', n)]
          /\ Contents[n + 1] = box.itemqueue[At(box, n + 1)]
      BY <1>2, <1>3, <3>1
    <3>4. At(box', n) = At(box, n + 1)
      BY <1>1, <3>1, SMTT(30) DEF Taken, RingOK, Slot, At
    <3> QED
      BY <1>1, <3>2, <3>3, <3>4 DEF Taken
  <2> QED
    BY <1>3, <2>1, <2>2, SeqEqual
<1> QED
  BY <1>4, <1>5 DEF Fifo!Get

LEMMA StoreIsPut ==
  ASSUME BoxTypeOK, BoxTypeOK', NEW i \in Item, box.count < Size, StoreItem(i)
  PROVE  Fifo!Put(i)
<1>1. RingOK /\ RingOK' /\ Stored(i) /\ Size \in Nat /\ Size > 0
  BY RingFields, MailboxAssumption DEF BoxTypeOK, RingOK
<1>2. /\ Contents \in Seq(Item \cup {NoItem}) /\ Len(Contents) = box.count
      /\ \A n \in 1 .. box.count : Contents[n] = box.itemqueue[At(box, n)]
  BY <1>1, ContentsAt DEF Contents, ContentsOf, RingOK
<1>3. /\ Contents' \in Seq(Item \cup {NoItem}) /\ Len(Contents') = box'.count
      /\ \A n \in 1 .. box'.count : Contents'[n] = box'.itemqueue[At(box', n)]
  BY <1>1, ContentsAt DEF Contents, ContentsOf, RingOK
<1>4. Contents' = Append(Contents, i)
  <2>1. /\ Append(Contents, i) \in Seq(Item \cup {NoItem})
        /\ Len(Contents') = Len(Append(Contents, i))
    BY <1>1, <1>2, <1>3 DEF Stored, RingOK
  <2>2. ASSUME NEW n \in 1 .. Len(Contents')
        PROVE  Contents'[n] = Append(Contents, i)[n]
    <3>1. /\ n \in 1 .. box.count + 1 /\ n \in 1 .. box'.count
          /\ At(box', n) = At(box, n)
      BY <1>1, <1>3 DEF Stored, RingOK, At
    <3>2. InSlot \in Slot
      BY <1>1 DEF RingOK, InSlot, Slot
    <3>3. Contents'[n] = box'.itemqueue[At(box, n)]
      BY <1>3, <3>1
    <3>4. CASE n = box.count + 1
      <4>1. At(box, n) = InSlot
        BY <1>1, <3>1, <3>4, SMTT(30) DEF RingOK, InSlot, Slot, At
      <4>2. box'.itemqueue[InSlot] = i
        BY <1>1, <3>2 DEF Stored, RingOK
      <4> QED
        BY <1>2, <3>3, <3>4, <4>1, <4>2
    <3>5. CASE n \in 1 .. box.count
      <4>1. At(box, n) # InSlot /\ At(box, n) \in Slot
        BY <1>1, <3>5, SMTT(30) DEF RingOK, InSlot, Slot, At
      <4>2. box'.itemqueue[At(box, n)] = box.itemqueue[At(box, n)]
        BY <1>1, <3>2, <4>1 DEF Stored, RingOK
      <4>3. Append(Contents, i)[n] = Contents[n]
        BY <1>2, <3>5
      <4> QED
        BY <1>2, <3>3, <3>5, <4>2, <4>3
    <3>6. n = box.count + 1 \/ n \in 1 .. box.count
      BY <1>1, <3>1 DEF RingOK
    <3> QED
      BY <3>4, <3>5, <3>6
  <2> QED
    BY <1>3, <2>1, <2>2, SeqEqual
<1> QED
  BY <1>1, <1>2, <1>4 DEF Fifo!Put, Stored

LEMMA RingRefines ==
  ASSUME BoxTypeOK, BoxTypeOK', RingStep
  PROVE  [Fifo!Next]_<<Contents, got>>
<1>1. CASE UNCHANGED <<box, got>>
  BY <1>1 DEF Contents
<1>2. CASE box.count > 0 /\ TakeItem
  BY <1>2, TakeIsGet DEF Fifo!Next
<1>3. CASE \E i \in Item : box.count < Size /\ StoreItem(i)
  BY <1>3, StoreIsPut DEF Fifo!Next
<1> QED
  BY <1>1, <1>2, <1>3 DEF RingStep
------------------------------------------------------------------------------
(***************************************************************************)
(* The waits.                                                              *)
(***************************************************************************)
\* The invariant of the second of two states, and what the ring went through.
LEMMA BoxInvFrom ==
  ASSUME BoxInv, IInv', WaitInv', RingStep, item' \in [Thread -> Item \cup {NoItem}],
         Offers',
         k'.wait_queue[GetQueue] # <<>> => box'.count <= Cardinality(Woken(GetQueue)'),
         k'.wait_queue[PutQueue] # <<>> =>
           Size - box'.count <= Cardinality(Woken(PutQueue)')
  PROVE  BoxInv' /\ RingStep
  BY RingType DEF BoxInv, NothingStranded

\* What BoxInv says of the numbers, and of the next state's once BoxTypeOK'.
LEMMA BoxFacts ==
  ASSUME BoxInv
  PROVE  /\ IInv /\ WaitInv /\ GetQueue \in Queue /\ PutQueue \in Queue
         /\ GetQueue # PutQueue
         /\ GetQueue # NoQueue /\ PutQueue # NoQueue
         /\ box.count \in Nat /\ Size - box.count \in Nat
         /\ Covered(GetQueue, box.count) /\ Covered(PutQueue, Size - box.count)
         /\ item \in [Thread -> Item \cup {NoItem}] /\ Offers
  BY MailboxAssumption, ThreadAssumption
     DEF BoxInv, BoxTypeOK, NothingStranded, Covered

\* The numbers that the ring's steps change.
LEMMA RingCounts ==
  ASSUME BoxInv
  PROVE  /\ box.count > 0 /\ TakeItem =>
              /\ box'.count \in Nat /\ box'.count + 1 <= box.count
              /\ Size - box'.count \in Nat
              /\ Size - box'.count <= (Size - box.count) + 1
         /\ \A i : box.count < Size /\ StoreItem(i) =>
              /\ box'.count \in Nat /\ box'.count <= box.count + 1
              /\ Size - box'.count \in Nat
              /\ (Size - box'.count) + 1 <= Size - box.count
<1>1. BoxTypeOK /\ RingOK /\ Size \in Nat
  BY RingFields, MailboxAssumption DEF BoxInv
<1>2. ASSUME box.count > 0, TakeItem
      PROVE  /\ box'.count \in Nat /\ box'.count + 1 <= box.count
             /\ Size - box'.count \in Nat
             /\ Size - box'.count <= (Size - box.count) + 1
  <2>1. Taken
    BY <1>1, <1>2, RingFields
  <2> QED
    BY <1>1, <1>2, <2>1 DEF RingOK, Taken
<1>3. ASSUME NEW i, box.count < Size, StoreItem(i)
      PROVE  /\ box'.count \in Nat /\ box'.count <= box.count + 1
             /\ Size - box'.count \in Nat
             /\ (Size - box'.count) + 1 <= Size - box.count
  <2>1. Stored(i)
    BY <1>1, <1>3, RingFields
  <2> QED
    BY <1>1, <1>3, <2>1 DEF RingOK, Stored
<1> QED
  BY <1>2, <1>3

BoxQueues == {GetQueue, PutQueue}

\* A step that leaves the box alone and loses none of the woken.
LEMMA BoxQuiet ==
  ASSUME BoxInv, IInv', WaitInv', UNCHANGED <<box, got>>,
         item' \in [Thread -> Item \cup {NoItem}], Offers',
         \A q \in {GetQueue, PutQueue} :
           /\ Woken(q) \subseteq Woken(q)'
           /\ ToSet(k'.wait_queue[q]) \subseteq ToSet(k.wait_queue[q])
  PROVE  BoxInv' /\ RingStep
<1>1. /\ GetQueue \in Queue /\ PutQueue \in Queue /\ IInv
      /\ box'.count = box.count
      /\ box.count \in Nat /\ Size - box.count \in Nat
      /\ Covered(GetQueue, box.count) /\ Covered(PutQueue, Size - box.count)
  BY BoxFacts
<1>2. box.count <= box.count /\ Size - box.count <= Size - box.count
  BY <1>1
<1>3. k'.wait_queue[GetQueue] # <<>> => box'.count <= Cardinality(Woken(GetQueue)')
  BY <1>1, <1>2, StillCovered
<1>4. k'.wait_queue[PutQueue] # <<>> =>
        Size - box'.count <= Cardinality(Woken(PutQueue)')
  BY <1>1, <1>2, StillCovered
<1> QED
  BY <1>3, <1>4, BoxInvFrom DEF RingStep

\* An item is taken, by the running thread if it waits at all for one, and a
\* putter told.
LEMMA TakenStep ==
  ASSUME BoxInv, IInv', WaitInv', box.count > 0, TakeItem,
         item' \in [Thread -> Item \cup {NoItem}], Offers',
         Woken(GetQueue) \ {Current} \subseteq Woken(GetQueue)',
         Woken(PutQueue) \subseteq Woken(PutQueue)',
         \A q \in {GetQueue, PutQueue} :
           ToSet(k'.wait_queue[q]) \subseteq ToSet(k.wait_queue[q]),
         k'.wait_queue[PutQueue] # <<>> => OneMore(PutQueue)
  PROVE  BoxInv' /\ RingStep
<1>1. /\ GetQueue \in Queue /\ PutQueue \in Queue /\ IInv
      /\ box.count \in Nat /\ Size - box.count \in Nat
      /\ Covered(GetQueue, box.count) /\ Covered(PutQueue, Size - box.count)
  BY BoxFacts
<1>2. /\ box'.count \in Nat /\ box'.count + 1 <= box.count
      /\ Size - box'.count \in Nat
      /\ Size - box'.count <= (Size - box.count) + 1
  BY RingCounts
<1>3. k'.wait_queue[GetQueue] # <<>> => box'.count <= Cardinality(Woken(GetQueue)')
  BY <1>1, <1>2, StillCovered
<1>4. k'.wait_queue[PutQueue] # <<>> =>
        Size - box'.count <= Cardinality(Woken(PutQueue)')
  BY <1>1, <1>2, StillCovered
<1> QED
  BY <1>3, <1>4, BoxInvFrom DEF RingStep

\* An item is stored, and a getter told.
LEMMA StoredStep ==
  ASSUME BoxInv, IInv', WaitInv', box.count < Size, NEW i \in Item, StoreItem(i),
         item' \in [Thread -> Item \cup {NoItem}], Offers',
         Woken(PutQueue) \ {Current} \subseteq Woken(PutQueue)',
         Woken(GetQueue) \subseteq Woken(GetQueue)',
         \A q \in {GetQueue, PutQueue} :
           ToSet(k'.wait_queue[q]) \subseteq ToSet(k.wait_queue[q]),
         k'.wait_queue[GetQueue] # <<>> => OneMore(GetQueue)
  PROVE  BoxInv' /\ RingStep
<1>1. /\ GetQueue \in Queue /\ PutQueue \in Queue /\ IInv
      /\ box.count \in Nat /\ Size - box.count \in Nat
      /\ Covered(GetQueue, box.count) /\ Covered(PutQueue, Size - box.count)
  BY BoxFacts
<1>2. /\ box'.count \in Nat /\ box'.count <= box.count + 1
      /\ Size - box'.count \in Nat
      /\ (Size - box'.count) + 1 <= Size - box.count
  BY RingCounts
<1>3. k'.wait_queue[GetQueue] # <<>> => box'.count <= Cardinality(Woken(GetQueue)')
  BY <1>1, <1>2, StillCovered
<1>4. k'.wait_queue[PutQueue] # <<>> =>
        Size - box'.count <= Cardinality(Woken(PutQueue)')
  BY <1>1, <1>2, StillCovered
<1> QED
  BY <1>3, <1>4, BoxInvFrom DEF RingStep

\* A wait on either queue ends or begins: what the threads offer.
LEMMA OffersKept ==
  ASSUME BoxInv, Current \in Thread,
         \/ /\ waits' \in {waits, [waits EXCEPT ![Current] = NoWait]}
            /\ item' \in {item, [item EXCEPT ![Current] = NoItem]}
            /\ waits' = waits => item' = item
         \/ \E timed \in BOOLEAN :
              /\ waits' = [waits EXCEPT ![Current] = Wait(GetQueue, timed)]
              /\ item' = item
         \/ \E timed \in BOOLEAN : \E i \in Item :
              /\ waits' = [waits EXCEPT ![Current] = Wait(PutQueue, timed)]
              /\ item' = [item EXCEPT ![Current] = i]
  PROVE  item' \in [Thread -> Item \cup {NoItem}] /\ Offers'
<1>1. /\ item \in [Thread -> Item \cup {NoItem}] /\ Offers
      /\ GetQueue # PutQueue /\ PutQueue # NoQueue
      /\ waits \in [Thread -> [queue : Queue \cup {NoQueue}, timed : BOOLEAN]]
  BY BoxFacts DEF BoxInv, WaitInv
<1> QED
  BY <1>1 DEF Offers, NoWait, Wait

\* The loop of get(), entered with the data left as j.
LEMMA GetLoopStep ==
  ASSUME BoxInv, Current \in Target, pc = "user", NEW timed \in BOOLEAN,
         \/ cont[Current] = "user"
         \/ cont[Current] = "wait" /\ waits[Current].queue = GetQueue,
         NEW j, Sound(k, j), KeptOthers(k, j), GetLoop(j, timed)
  PROVE  BoxInv' /\ RingStep /\ Quiet(BoxQueues)
<1>1. /\ IInv /\ WaitInv /\ Current \in Thread /\ cont[Current] \in {"user", "wait"}
      /\ GetQueue \in Queue /\ PutQueue \in Queue
      /\ GetQueue # PutQueue /\ PutQueue # NoQueue
  BY BoxFacts DEF Target
<1>2. /\ waits[Current].queue \in BoxQueues \cup {NoQueue}
      /\ Current \notin Woken(PutQueue)
  <2>1. waits[Current].queue \in {GetQueue, NoQueue}
    BY <1>1, InNoWait
  <2> QED
    BY <1>1, <2>1 DEF Woken, BoxQueues
<1>3. CASE /\ box.count > 0
           /\ TakeItem
           /\ Finish(WakeFirst(j, PutQueue), timed)
           /\ UNCHANGED item
  <2>1. /\ IInv' /\ WaitInv' /\ NobodyLost({Current}) /\ Quiet(BoxQueues)
        /\ k'.wait_queue[PutQueue] # <<>> => OneMore(PutQueue)
    BY <1>1, <1>2, <1>3, EndsHandingOver DEF BoxQueues
  <2>2. item' \in [Thread -> Item \cup {NoItem}] /\ Offers'
    BY <1>1, <1>3, OffersKept DEF Finish
  <2>3. /\ Woken(GetQueue) \ {Current} \subseteq Woken(GetQueue)'
        /\ Woken(PutQueue) \subseteq Woken(PutQueue)'
        /\ \A q \in {GetQueue, PutQueue} :
             ToSet(k'.wait_queue[q]) \subseteq ToSet(k.wait_queue[q])
    BY <1>1, <1>2, <2>1 DEF NobodyLost
  <2> QED
    BY <1>3, <2>1, <2>2, <2>3, TakenStep
<1>4. CASE /\ box.count = 0
           /\ BlockOn(GoToSleep(j, GetQueue, timed), GetQueue, timed)
           /\ UNCHANGED boxvars
  <2>1. /\ IInv' /\ WaitInv' /\ Quiet(BoxQueues)
        /\ \A r \in Queue : /\ Woken(r) \ {Current} \subseteq Woken(r)'
                            /\ r # GetQueue => ToSet(k'.wait_queue[r])
                                                 \subseteq ToSet(k.wait_queue[r])
    BY <1>1, <1>2, <1>4, Begins DEF BoxQueues
  <2>2. item' \in [Thread -> Item \cup {NoItem}] /\ Offers'
    BY <1>1, <1>4, OffersKept DEF BlockOn, boxvars
  <2>3. /\ UNCHANGED <<box, got>>
        /\ box.count \in Nat /\ Size - box.count \in Nat
        /\ Covered(PutQueue, Size - box.count)
    BY <1>4, BoxFacts DEF boxvars
  <2>4. k'.wait_queue[PutQueue] # <<>> =>
          Size - box'.count <= Cardinality(Woken(PutQueue)')
    <3>1. /\ Woken(PutQueue) \subseteq Woken(PutQueue)'
          /\ ToSet(k'.wait_queue[PutQueue]) \subseteq ToSet(k.wait_queue[PutQueue])
          /\ Size - box.count <= Size - box.count
          /\ box'.count = box.count
      BY <1>1, <1>2, <2>1, <2>3
    <3> QED
      BY <1>1, <2>1, <2>3, <3>1, StillCovered
  <2>5. box'.count <= Cardinality(Woken(GetQueue)')
    <3>1. Woken(GetQueue)' \in SUBSET Thread
      BY DEF Woken
    <3>2. Cardinality(Woken(GetQueue)') \in Nat
      BY <3>1, WokenCount
    <3> QED
      BY <1>4, <2>3, <3>2
  <2> QED
    BY <2>1, <2>2, <2>3, <2>4, <2>5, BoxInvFrom DEF RingStep
<1> QED
  BY <1>3, <1>4 DEF GetLoop

\* The loop of put(), likewise.
LEMMA PutLoopStep ==
  ASSUME BoxInv, Current \in Target, pc = "user", NEW timed \in BOOLEAN,
         \/ cont[Current] = "user"
         \/ cont[Current] = "wait" /\ waits[Current].queue = PutQueue,
         NEW i \in Item,
         NEW j, Sound(k, j), KeptOthers(k, j), PutLoop(j, i, timed)
  PROVE  BoxInv' /\ RingStep /\ Quiet(BoxQueues)
<1>1. /\ IInv /\ WaitInv /\ Current \in Thread /\ cont[Current] \in {"user", "wait"}
      /\ GetQueue \in Queue /\ PutQueue \in Queue
      /\ GetQueue # PutQueue /\ GetQueue # NoQueue
  BY BoxFacts DEF Target
<1>2. /\ waits[Current].queue \in BoxQueues \cup {NoQueue}
      /\ Current \notin Woken(GetQueue)
  <2>1. waits[Current].queue \in {PutQueue, NoQueue}
    BY <1>1, InNoWait
  <2> QED
    BY <1>1, <2>1 DEF Woken, BoxQueues
<1>3. CASE /\ box.count < Size
           /\ StoreItem(i)
           /\ Finish(WakeFirst(j, GetQueue), timed)
           /\ item' = [item EXCEPT ![Current] = NoItem]
  <2>1. /\ IInv' /\ WaitInv' /\ NobodyLost({Current}) /\ Quiet(BoxQueues)
        /\ k'.wait_queue[GetQueue] # <<>> => OneMore(GetQueue)
    BY <1>1, <1>2, <1>3, EndsHandingOver DEF BoxQueues
  <2>2. item' \in [Thread -> Item \cup {NoItem}] /\ Offers'
    <3>1. waits' = [waits EXCEPT ![Current] = NoWait]
      BY <1>3 DEF Finish
    <3>2. /\ item \in [Thread -> Item \cup {NoItem}] /\ Offers /\ PutQueue # NoQueue
          /\ waits \in [Thread -> [queue : Queue \cup {NoQueue}, timed : BOOLEAN]]
      BY BoxFacts DEF WaitInv
    <3> QED
      BY <1>1, <1>3, <3>1, <3>2 DEF Offers, NoWait
  <2>3. /\ Woken(PutQueue) \ {Current} \subseteq Woken(PutQueue)'
        /\ Woken(GetQueue) \subseteq Woken(GetQueue)'
        /\ \A q \in {GetQueue, PutQueue} :
             ToSet(k'.wait_queue[q]) \subseteq ToSet(k.wait_queue[q])
    BY <1>1, <1>2, <2>1 DEF NobodyLost
  <2> QED
    BY <1>3, <2>1, <2>2, <2>3, StoredStep
<1>4. CASE /\ box.count = Size
           /\ BlockOn(GoToSleep(j, PutQueue, timed), PutQueue, timed)
           /\ item' = [item EXCEPT ![Current] = i]
           /\ UNCHANGED <<box, got>>
  <2>1. /\ IInv' /\ WaitInv' /\ Quiet(BoxQueues)
        /\ \A r \in Queue : /\ Woken(r) \ {Current} \subseteq Woken(r)'
                            /\ r # PutQueue => ToSet(k'.wait_queue[r])
                                                 \subseteq ToSet(k.wait_queue[r])
    BY <1>1, <1>2, <1>4, Begins DEF BoxQueues
  <2>2. item' \in [Thread -> Item \cup {NoItem}] /\ Offers'
    BY <1>1, <1>4, OffersKept DEF BlockOn
  <2>3. /\ box.count \in Nat /\ Size - box.count \in Nat
        /\ Covered(GetQueue, box.count)
    BY BoxFacts
  <2>4. k'.wait_queue[GetQueue] # <<>> => box'.count <= Cardinality(Woken(GetQueue)')
    <3>1. /\ Woken(GetQueue) \subseteq Woken(GetQueue)'
          /\ ToSet(k'.wait_queue[GetQueue]) \subseteq ToSet(k.wait_queue[GetQueue])
          /\ box.count <= box.count
          /\ box'.count = box.count
      BY <1>1, <1>2, <1>4, <2>1, <2>3
    <3> QED
      BY <1>1, <2>1, <2>3, <3>1, StillCovered
  <2>5. Size - box'.count <= Cardinality(Woken(PutQueue)')
    <3>1. Woken(PutQueue)' \in SUBSET Thread
      BY DEF Woken
    <3>2. Cardinality(Woken(PutQueue)') \in Nat
      BY <3>1, WokenCount
    <3> QED
      BY <1>4, <2>3, <3>2
  <2> QED
    BY <1>4, <2>1, <2>2, <2>4, <2>5, BoxInvFrom DEF RingStep
<1> QED
  BY <1>3, <1>4 DEF PutLoop

\* tryget() and tryput(), by whoever makes the call.
LEMMA TryGetStep ==
  ASSUME BoxInv, IInv', WaitInv', NobodyLost({}), TryGet(k'), waits' = waits
  PROVE  BoxInv' /\ RingStep
<1>1. /\ IInv /\ WaitInv /\ GetQueue \in Queue /\ PutQueue \in Queue
      /\ Current \in Thread
  BY BoxFacts DEF BoxInv, IInv, KernelInv, KernelOK, KernelData, Current
<1>2. item' = item
  BY DEF TryGet, boxvars
<1>3. item' \in [Thread -> Item \cup {NoItem}] /\ Offers'
  BY <1>1, <1>2, OffersKept
<1>4. \A q \in {GetQueue, PutQueue} :
        /\ Woken(q) \subseteq Woken(q)'
        /\ ToSet(k'.wait_queue[q]) \subseteq ToSet(k.wait_queue[q])
  BY <1>1 DEF NobodyLost
<1>5. CASE UNCHANGED boxvars
  BY <1>3, <1>4, <1>5, BoxQuiet DEF boxvars
<1>6. CASE box.count > 0 /\ k' = WakeFirst(k, PutQueue) /\ TakeItem
  <2>1. k'.wait_queue[PutQueue] # <<>> => OneMore(PutQueue)
    <3>1. k \in KernelData /\ k' \in KernelData
      BY <1>1 DEF IInv, KernelInv, KernelOK
    <3>2. k'.wait_queue[PutQueue] # <<>> => k.wait_queue[PutQueue] # <<>>
      BY <1>1, <1>4, <3>1, StillQueued
    <3> QED
      BY <1>1, <1>6, <3>2, OneMoreWoken DEF OneMore
  <2> QED
    BY <1>3, <1>4, <1>6, <2>1, TakenStep
<1> QED
  BY <1>5, <1>6 DEF TryGet

LEMMA TryPutStep ==
  ASSUME BoxInv, IInv', WaitInv', NobodyLost({}), NEW i \in Item,
         TryPut(k', i), waits' = waits
  PROVE  BoxInv' /\ RingStep
<1>1. /\ IInv /\ WaitInv /\ GetQueue \in Queue /\ PutQueue \in Queue
      /\ Current \in Thread
  BY BoxFacts DEF BoxInv, IInv, KernelInv, KernelOK, KernelData, Current
<1>2. item' = item
  BY DEF TryPut, boxvars
<1>3. item' \in [Thread -> Item \cup {NoItem}] /\ Offers'
  BY <1>1, <1>2, OffersKept
<1>4. \A q \in {GetQueue, PutQueue} :
        /\ Woken(q) \subseteq Woken(q)'
        /\ ToSet(k'.wait_queue[q]) \subseteq ToSet(k.wait_queue[q])
  BY <1>1 DEF NobodyLost
<1>5. CASE UNCHANGED boxvars
  BY <1>3, <1>4, <1>5, BoxQuiet DEF boxvars
<1>6. CASE box.count < Size /\ k' = WakeFirst(k, GetQueue) /\ StoreItem(i)
  <2>1. k'.wait_queue[GetQueue] # <<>> => OneMore(GetQueue)
    <3>1. k \in KernelData /\ k' \in KernelData
      BY <1>1 DEF IInv, KernelInv, KernelOK
    <3>2. k'.wait_queue[GetQueue] # <<>> => k.wait_queue[GetQueue] # <<>>
      BY <1>1, <1>4, <3>1, StillQueued
    <3> QED
      BY <1>1, <1>6, <3>2, OneMoreWoken DEF OneMore
  <2> QED
    BY <1>3, <1>4, <1>6, <2>1, StoredStep
<1> QED
  BY <1>5, <1>6 DEF TryPut

\* A step of another object, or of the scheduler.
LEMMA BoxAside ==
  ASSUME BoxInv, IInv', WaitInv', NEW Q, Quiet(Q), Q \cap BoxQueues = {},
         UNCHANGED boxvars
  PROVE  BoxInv' /\ RingStep
<1>1. \A q \in {GetQueue, PutQueue} : q \in Queue \ Q
  BY BoxFacts DEF BoxQueues
<1>2. \A q \in {GetQueue, PutQueue} : QuietFor(q)
  BY <1>1 DEF Quiet
<1>3. item' \in [Thread -> Item \cup {NoItem}] /\ Offers'
  BY <1>2, BoxFacts DEF boxvars, QuietFor, Offers
<1> QED
  BY <1>2, <1>3, BoxQuiet DEF QuietFor, boxvars

LEMMA BoxStepInv ==
  ASSUME BoxInv, BoxStep
  PROVE  BoxInv' /\ RingStep /\ Quiet(BoxQueues)
<1> DEFINE Goal == BoxInv' /\ RingStep /\ Quiet(BoxQueues)
<1> SUFFICES Goal
  OBVIOUS
<1>0. /\ IInv /\ WaitInv /\ KernelOK(k) /\ WaitOK(k)
      /\ Current = k.current_thread /\ Current \in Thread
      /\ GetQueue \in Queue /\ PutQueue \in Queue
  BY BoxFacts DEF WaitInv, IInv, KernelInv, KernelOK, KernelData, Current
<1>1. Sound(k, k) /\ KeptOthers(k, k) /\ \A q : Serves(k, k, q)
  BY <1>0, SameServes
<1>2. ASSUME NEW name, Calling(name)
      PROVE  Current \in Target /\ pc = "user" /\ cont[Current] = "user"
  BY <1>0, <1>2, Caller
<1>3. ASSUME NEW Q, InWait(Q)
      PROVE  /\ Current \in Target /\ pc = "user" /\ cont[Current] = "wait"
             /\ waits[Current].queue \in Q /\ waits[Current].timed \in BOOLEAN
  BY <1>0, <1>3, Waiter
<1>4. LET i == SetTimer(k, "TIMEOUT")
      IN  /\ Sound(k, i) /\ KeptOthers(k, i)
          /\ Sound(k, Alarm(i, Current)) /\ KeptOthers(k, Alarm(i, Current))
  BY <1>0, TimerForWait
\* The calls.
<1>5. CASE BoxGet
  BY <1>1, <1>2, <1>5, GetLoopStep DEF BoxGet
<1>6. CASE BoxTimedGet
  BY <1>2, <1>4, <1>6, GetLoopStep DEF BoxTimedGet
<1>7. ASSUME NEW i \in Item, BoxPut(i) PROVE Goal
  BY <1>1, <1>2, <1>7, PutLoopStep DEF BoxPut
<1>8. ASSUME NEW i \in Item, BoxTimedPut(i) PROVE Goal
  BY <1>2, <1>4, <1>8, PutLoopStep DEF BoxTimedPut
\* A wait that ends with nothing got or put, of a thread not counted.
<1>9. ASSUME NEW j, Sound(k, j), KeptOthers(k, j), NEW timed \in BOOLEAN,
              Current \in Target, pc = "user", cont[Current] \in {"user", "wait"},
              waits[Current].queue \in BoxQueues \cup {NoQueue},
              Current \notin Woken(GetQueue), Current \notin Woken(PutQueue),
              Finish(j, timed), UNCHANGED <<box, got>>,
              item' \in {item, [item EXCEPT ![Current] = NoItem]}
       PROVE  Goal
  <2>1. IInv' /\ WaitInv' /\ NobodyLost({Current}) /\ Quiet(BoxQueues)
    BY <1>0, <1>9, Ends
  <2>2. item' \in [Thread -> Item \cup {NoItem}] /\ Offers'
    <3>1. waits' = [waits EXCEPT ![Current] = NoWait]
      BY <1>9 DEF Finish
    <3>2. Offers /\ PutQueue # NoQueue /\ item \in [Thread -> Item \cup {NoItem}]
      BY BoxFacts
    <3> QED
      BY <1>0, <1>9, <3>1, <3>2 DEF Offers, NoWait, WaitInv
  <2>3. \A q \in {GetQueue, PutQueue} :
          /\ Woken(q) \subseteq Woken(q)'
          /\ ToSet(k'.wait_queue[q]) \subseteq ToSet(k.wait_queue[q])
    BY <1>0, <1>9, <2>1 DEF NobodyLost
  <2> QED
    BY <1>9, <2>1, <2>2, <2>3, BoxQuiet
<1>10. CASE BoxPast
  <2> DEFINE past == Alarm(SetTimer(k, "TIMEOUT"), Current)
  <2>1. /\ Current \in Target /\ pc = "user" /\ cont[Current] = "user"
        /\ Finish(past, TRUE) /\ UNCHANGED boxvars
    BY <1>2, <1>10 DEF BoxPast
  <2>2. Sound(k, past) /\ KeptOthers(k, past)
    BY <1>4
  <2> HIDE DEF past
  <2>3. /\ waits[Current].queue \in BoxQueues \cup {NoQueue}
        /\ Current \notin Woken(GetQueue) /\ Current \notin Woken(PutQueue)
    <3>1. waits[Current].queue = NoQueue
      BY <1>0, <2>1, InNoWait
    <3>2. GetQueue # NoQueue /\ PutQueue # NoQueue
      BY BoxFacts
    <3> QED
      BY <3>1, <3>2 DEF Woken
  <2>4. UNCHANGED <<box, got>> /\ item' = item
    BY <2>1 DEF boxvars
  <2> QED
    BY <1>9, <2>1, <2>2, <2>3, <2>4
<1>11. CASE BoxGiveUp
  <2>1. /\ InWait({GetQueue, PutQueue}) /\ BrokenOff
        /\ Finish(k, waits[Current].timed)
        /\ item' = [item EXCEPT ![Current] = NoItem] /\ UNCHANGED <<box, got>>
    BY <1>11 DEF BoxGiveUp
  <2>2. Current \notin Woken(GetQueue) /\ Current \notin Woken(PutQueue)
    BY <2>1 DEF BrokenOff, Woken
  <2>3. /\ Current \in Target /\ pc = "user" /\ cont[Current] = "wait"
        /\ waits[Current].timed \in BOOLEAN
        /\ waits[Current].queue \in BoxQueues \cup {NoQueue}
    BY <1>3, <2>1 DEF BoxQueues
  <2> QED
    BY <1>1, <1>9, <2>1, <2>2, <2>3
<1>12. CASE BoxRetry
  <2>1. CASE InWait({GetQueue}) /\ GetLoop(k, waits[Current].timed)
    <3>1. /\ Current \in Target /\ pc = "user" /\ cont[Current] = "wait"
          /\ waits[Current].queue = GetQueue /\ waits[Current].timed \in BOOLEAN
      BY <1>3, <2>1
    <3> QED
      BY <1>1, <2>1, <3>1, GetLoopStep
  <2>2. CASE InWait({PutQueue}) /\ PutLoop(k, item[Current], waits[Current].timed)
    <3>1. /\ Current \in Target /\ pc = "user" /\ cont[Current] = "wait"
          /\ waits[Current].queue = PutQueue /\ waits[Current].timed \in BOOLEAN
      BY <1>3, <2>2
    <3>2. item[Current] \in Item
      BY <1>0, <3>1, BoxFacts DEF Offers
    <3> QED
      BY <1>1, <2>2, <3>1, <3>2, PutLoopStep
  <2> QED
    BY <1>12, <2>1, <2>2 DEF BoxRetry
<1>13. ASSUME NEW q \in {GetQueue, PutQueue}
       PROVE  /\ Sound(k, WakeFirst(k, q)) /\ Serves(k, WakeFirst(k, q), q)
              /\ q \in BoxQueues
  BY <1>0, <1>13, WakeFirstServes DEF BoxQueues
<1>14. CASE BoxTryGet \/ BoxTryGetDSR
  <2> PICK j \in {k, WakeFirst(k, PutQueue)} :
        /\ TryGet(j) /\ waits' = waits
        /\ \/ Calling("tryget") /\ Update(j)
           \/ DeviceCalling("tryget") /\ DeviceUpdate(j)
    BY <1>14 DEF BoxTryGet, BoxTryGetDSR
  <2>1. Sound(k, j) /\ Serves(k, j, PutQueue) /\ PutQueue \in BoxQueues \cup {NoQueue}
    BY <1>1, <1>13
  <2>2. IInv' /\ WaitInv' /\ NobodyLost({}) /\ Quiet(BoxQueues) /\ k' = j
    BY <1>0, <2>1, CallServes
  <2> QED
    BY <2>2, TryGetStep
<1>15. ASSUME NEW i \in Item, BoxTryPut(i) \/ BoxTryPutDSR(i)
       PROVE  Goal
  <2> PICK j \in {k, WakeFirst(k, GetQueue)} :
        /\ TryPut(j, i) /\ waits' = waits
        /\ \/ Calling("tryput") /\ Update(j)
           \/ DeviceCalling("tryput") /\ DeviceUpdate(j)
    BY <1>15 DEF BoxTryPut, BoxTryPutDSR
  <2>1. Sound(k, j) /\ Serves(k, j, GetQueue) /\ GetQueue \in BoxQueues \cup {NoQueue}
    BY <1>1, <1>13
  <2>2. IInv' /\ WaitInv' /\ NobodyLost({}) /\ Quiet(BoxQueues) /\ k' = j
    BY <1>0, <2>1, CallServes
  <2> QED
    BY <2>2, TryPutStep
<1> QED
  BY <1>5, <1>6, <1>7, <1>8, <1>10, <1>11, <1>12, <1>14, <1>15
     DEF BoxStep
------------------------------------------------------------------------------
LEMMA InitialBoxInv ==
  ASSUME Init, BoxInit, waits = [t \in Thread |-> NoWait]
  PROVE  BoxInv /\ Fifo!Init
<1>1. IInv /\ WaitInv
  BY InitIInv, WaitInit
<1>2. Size \in Nat /\ Size > 0
  BY MailboxAssumption
<1>3. BoxTypeOK
  BY <1>2 DEF BoxInit, BoxTypeOK, Slot
<1>4. Offers
  BY ThreadAssumption, MailboxAssumption DEF Offers, NoWait
<1>5. NothingStranded
  BY MailboxAssumption DEF NothingStranded, Init, InitialData
<1>6. Fifo!Init
  <2>1. RingOK /\ box.count = 0 /\ got = NoItem
    BY <1>3, RingFields DEF BoxInit
  <2>2. Contents \in Seq(Item \cup {NoItem}) /\ Len(Contents) = 0
    BY <2>1, ContentsAt DEF RingOK, Contents, ContentsOf
  <2> QED
    BY <2>1, <2>2 DEF Fifo!Init
<1> QED
  BY <1>1, <1>3, <1>4, <1>5, <1>6 DEF BoxInv

LEMMA BoxNextInv ==
  ASSUME BoxInv, [BoxNext]_<<vars, boxvars, waits>>
  PROVE  BoxInv' /\ RingStep
<1>1. CASE BoxStep
  BY <1>1, BoxStepInv
<1>2. CASE \/ WokenToExit /\ UNCHANGED boxvars
           \/ [Next]_vars /\ UNCHANGED <<boxvars, waits>>
  <2>1. IInv' /\ WaitInv' /\ Quiet({}) /\ UNCHANGED boxvars
    BY <1>2, OtherStep DEF BoxInv
  <2> QED
    BY <2>1, BoxAside
<1> QED
  BY <1>1, <1>2 DEF BoxNext

LEMMA BoxInvariance == BoxSpec => []BoxInv
<1>1. Init /\ BoxInit /\ waits = [t \in Thread |-> NoWait] => BoxInv
  BY InitialBoxInv
<1>2. BoxInv /\ [BoxNext]_<<vars, boxvars, waits>> => BoxInv'
  BY BoxNextInv
<1> QED
  BY <1>1, <1>2, PTL DEF BoxSpec

\* No item lies in a mail box, and no slot is free in it, with a thread asleep
\* for it and none woken to come (mboxt.inl, get and put).
THEOREM BoxNothingStranded == BoxSpec => []NothingStranded
<1>1. BoxInv => NothingStranded
  BY DEF BoxInv
<1> QED
  BY <1>1, BoxInvariance, PTL

\* The mail box implements a bounded first-in first-out buffer, whatever the
\* threads, DSRs and timeouts around it do (mboxt.inl, the ring).
THEOREM BoxImplementsBuffer == BoxSpec => ImplementsBuffer
<1>1. Init /\ BoxInit /\ waits = [t \in Thread |-> NoWait] => Fifo!Init
  BY InitialBoxInv
<1>2. /\ BoxInv /\ BoxInv'
      /\ [BoxNext]_<<vars, boxvars, waits>>
      => [Fifo!Next]_<<Contents, got>>
  BY BoxNextInv, RingRefines DEF BoxInv
<1> QED
  BY <1>1, <1>2, BoxInvariance, PTL DEF BoxSpec, ImplementsBuffer, Fifo!Spec
------------------------------------------------------------------------------
(***************************************************************************)
(* A flag.  setbits() goes over the queue by rounds, a fold: the value of  *)
(* the fold is that of a sequence of rounds (ServeSteps), and what holds   *)
(* after each round, by induction, is RoundsDone.                          *)
(***************************************************************************)
FlagInv ==
  /\ IInv
  /\ WaitInv
  /\ FlagTypeOK
  /\ NoSatisfiedSleeper
  /\ \A t \in Woken(FlagQueue) : info[t].value_out # {}

FlagData == [k : KernelData, value : SUBSET Bit, info : [Thread -> WaitInfo]]

\* After n rounds over the queue q of b the data is d.  Threads still queued
\* and those never queued have the info they had; those served have a value.
\* A thread looked at and left does not match; once a thread was served whose
\* wait clears the value there is none, and none behind it was served.
RoundsDone(b, d, q, n) ==
  /\ d \in FlagData
  /\ Sound(b.k, d.k)
  /\ Serves(b.k, d.k, FlagQueue)
  /\ Len(d.k.wait_queue[FlagQueue]) >= Len(q) - n
  /\ \A i \in 1 .. Len(q) - n : d.k.wait_queue[FlagQueue][i] = q[n + i]
  /\ \A t \in Thread :
       /\ d.k.queue[t] = FlagQueue \/ b.k.queue[t] # FlagQueue => d.info[t] = b.info[t]
       /\ d.k.queue[t] # FlagQueue /\ b.k.queue[t] = FlagQueue =>
            d.info[t].value_out # {}
  /\ \A i \in 1 .. n :
       /\ d.k.queue[q[i]] = FlagQueue => ~Matches(d.value, b.info[q[i]])
       /\ d.k.queue[q[i]] # FlagQueue /\ b.info[q[i]].do_clear => d.value = {}
  /\ \A i, j \in 1 .. n :
       i < j /\ d.k.queue[q[i]] # FlagQueue /\ b.info[q[i]].do_clear =>
         d.k.queue[q[j]] = FlagQueue
------------------------------------------------------------------------------
(***************************************************************************)
(* The rounds of setbits().                                                *)
(***************************************************************************)
Rounds(b, q) == FoldLeft(Serve, b, q)

IsRounds(f, b, q, N) ==
  /\ f[0] = b
  /\ \A n \in 1 .. N : f[n] = Serve(f[n - 1], q[n])
  /\ Rounds(b, q) = f[N]

LEMMA ServeSteps ==
  ASSUME NEW b, NEW q, NEW N \in Nat, DOMAIN q = 1 .. N
  PROVE  \E f : IsRounds(f, b, q, N)
<1> DEFINE D == 1 .. N
           Phi(g) == [s \in SUBSET D |-> IF s = {} THEN b
                                         ELSE Serve(g[s \ {Max(s)}], q[Max(s)])]
           iter == CHOOSE g : g = Phi(g)
           Good(n) == \E g : \A s \in SUBSET D : s \subseteq 1 .. n => g[s] = Phi(g)[s]
           G == {n \in 0 .. N : Good(n)}
\* The recursive function that FoldLeft chooses exists.
<1>1. \A n \in 0 .. N : n \in G
  <2>1. Good(0)
    <3> DEFINE g == [s \in SUBSET D |-> b]
    <3>1. \A s \in SUBSET D : s \subseteq 1 .. 0 => g[s] = Phi(g)[s]
      OBVIOUS
    <3> QED
      BY <3>1
  <2>2. ASSUME NEW n \in 1 .. N, Good(n - 1) PROVE Good(n)
    <3>1. PICK g : \A s \in SUBSET D : s \subseteq 1 .. n - 1 => g[s] = Phi(g)[s]
      BY <2>2
    <3> DEFINE h == Phi(g)
    <3>2. ASSUME NEW s \in SUBSET D, s \subseteq 1 .. n PROVE h[s] = Phi(h)[s]
      <4>1. CASE s = {}
        BY <4>1
      <4>2. CASE s # {}
        <5> DEFINE r == s \ {Max(s)}
        <5>1. Max(s) \in s /\ (\A x \in s : x <= Max(s))
          BY <4>2, MaxOf
        <5>2. r \in SUBSET D /\ r \subseteq 1 .. n - 1
          <6>1. \A x \in r : x \in 1 .. n /\ x <= Max(s) /\ x # Max(s)
            BY <5>1, <3>2
          <6>2. Max(s) \in 1 .. n
            BY <5>1, <3>2
          <6>3. \A x \in r : x \in 1 .. n - 1
            BY <6>1, <6>2
          <6> QED
            BY <6>3
        <5>3. g[r] = h[r]
          BY <5>2, <3>1
        <5> QED
          BY <4>2, <5>3
      <4> QED
        BY <4>1, <4>2
    <3> HIDE DEF h
    <3> QED
      BY <3>2
  <2> HIDE DEF Good
  <2>3. 0 \in G /\ \A n \in 1 .. N : n - 1 \in G => n \in G
    BY <2>1, <2>2
  <2> HIDE DEF G
  <2> QED
    BY <2>3, Induction
<1>2. iter = Phi(iter)
  <2>1. PICK g : \A s \in SUBSET D : s \subseteq 1 .. N => g[s] = Phi(g)[s]
    <3>1. Good(N)
      <4> HIDE DEF Good
      <4> QED
        BY <1>1
    <3> QED
      BY <3>1
  <2> DEFINE h == Phi(g)
  <2>2. ASSUME NEW s \in SUBSET D, s # {} PROVE h[s \ {Max(s)}] = g[s \ {Max(s)}]
    <3>1. s \ {Max(s)} \in SUBSET D
      OBVIOUS
    <3> HIDE DEF Phi
    <3> QED
      BY <3>1, <2>1
  <2>3. h = Phi(h)
    <3> HIDE DEF h
    <3>1. Phi(h) = Phi(g)
      BY <2>2
    <3> QED
      BY <3>1 DEF h
  <2> HIDE DEF Phi, h
  <2> QED
    BY <2>3
<1>3. Rounds(b, q) = iter[D]
  BY Zenon DEF Rounds, FoldLeft, MapThenFoldSet
<1> DEFINE f == [n \in 0 .. N |-> iter[1 .. n]]
<1>4. f[0] = b
  <2>1. 1 .. 0 = {}
    OBVIOUS
  <2> HIDE DEF iter
  <2> QED
    BY <1>2, <2>1
<1>5. ASSUME NEW n \in 1 .. N PROVE f[n] = Serve(f[n - 1], q[n])
  <2> HIDE DEF iter
  <2>1. Max(1 .. n) = n
    <3>1. 1 .. n \in SUBSET (1 .. N) /\ 1 .. n # {} /\ n \in 1 .. n
      BY SMTT(30)
    <3>2. Max(1 .. n) \in 1 .. n /\ n <= Max(1 .. n)
      BY <3>1, MaxOf
    <3> QED
      BY <3>2
  <2>2. (1 .. n) \ {n} = 1 .. n - 1
    OBVIOUS
  <2>3. iter[1 .. n] = Serve(iter[(1 .. n) \ {Max(1 .. n)}], q[Max(1 .. n)])
    <3>1. 1 .. n \in SUBSET D /\ n \in 1 .. n
      OBVIOUS
    <3> QED
      BY <1>2, <3>1
  <2>4. f[n] = iter[1 .. n] /\ f[n - 1] = iter[1 .. n - 1]
    OBVIOUS
  <2> HIDE DEF f
  <2> QED
    BY <2>1, <2>2, <2>3, <2>4
<1> HIDE DEF iter
<1>6. f[N] = iter[D]
  OBVIOUS
<1> HIDE DEF f
<1>7. IsRounds(f, b, q, N)
  BY <1>3, <1>4, <1>5, <1>6 DEF IsRounds
<1> QED
  BY <1>7

\* No value satisfies a request but one that has bits.
LEMMA MatchesSome ==
  ASSUME NEW v, NEW i, Matches(v, i)
  PROVE  v # {}
  BY DEF Matches

LEMMA MatchesFewer ==
  ASSUME NEW v, NEW w \in SUBSET v, NEW i, Matches(w, i)
  PROVE  Matches(v, i)
  BY DEF Matches

\* One round.
\* The head of a queue goes to its tail.
Requeued(d, q, e) ==
  /\ Sound(d, e) /\ Kept(d, e)
  /\ e.queue = d.queue
  /\ e.wait_queue[q] = Append(Tail(d.wait_queue[q]), Head(d.wait_queue[q]))

LEMMA RequeueHead ==
  ASSUME NEW d, KernelOK(d), WaitOK(d), NEW q, q \in Queue, d.wait_queue[q] # <<>>
  PROVE  Requeued(d, q, Enqueue(Dequeue(d, q), q, Head(d.wait_queue[q])))
BY Requeue DEF Requeued

LEMMA RoundArithmetic ==
  ASSUME NEW m \in Nat, NEW N \in Nat, NEW n \in 1 .. N, m >= N - (n - 1)
  PROVE  /\ m >= 1 /\ 1 \in 1 .. N - (n - 1) /\ n - 1 + 1 = n
         /\ m - 1 >= N - n
         /\ \A i \in 1 .. N - n :
              /\ i \in 1 .. m - 1
              /\ i + 1 \in 1 .. N - (n - 1)
              /\ n - 1 + (i + 1) = n + i
<1>1. m >= 1 /\ 1 \in 1 .. N - (n - 1) /\ n - 1 + 1 = n /\ m - 1 >= N - n
  OBVIOUS
<1>2. ASSUME NEW i \in 1 .. N - n
      PROVE  /\ i \in 1 .. m - 1
             /\ i + 1 \in 1 .. N - (n - 1)
             /\ n - 1 + (i + 1) = n + i
  OBVIOUS
<1> QED
  BY <1>1, <1>2

LEMMA NextRound ==
  ASSUME NEW b, b \in FlagData, KernelOK(b.k), WaitOK(b.k),
         NEW q, q = b.k.wait_queue[FlagQueue], NEW n \in 1 .. Len(q),
         NEW d, RoundsDone(b, d, q, n - 1)
  PROVE  RoundsDone(b, Serve(d, q[n]), q, n)
<1> DEFINE h == q[n]
           w == d.k.wait_queue[FlagQueue]
           e == Serve(d, h)
<1>1. /\ FlagQueue \in Queue /\ FlagQueue # NoQueue
      /\ KernelOK(d.k) /\ WaitOK(d.k) /\ d \in FlagData
      /\ d.k \in KernelData /\ d.value \in SUBSET Bit /\ d.info \in [Thread -> WaitInfo]
      /\ Sound(b.k, d.k) /\ Serves(b.k, d.k, FlagQueue)
      /\ b.k.queue \in [Thread -> Queue \cup {NoQueue}]
      /\ d.k.queue \in [Thread -> Queue \cup {NoQueue}]
      /\ d.k.wait_queue \in [Queue -> Seq(Thread)]
  BY FlagAssumption, ThreadAssumption
     DEF RoundsDone, Sound, Serves, FlagData, KernelOK, KernelData
<1>2. /\ q \in Seq(Thread) /\ Len(q) \in Nat /\ DOMAIN q = 1 .. Len(q)
      /\ \A i, j \in 1 .. Len(q) : q[i] = q[j] => i = j
      /\ \A i \in 1 .. Len(q) : q[i] \in Thread /\ b.k.queue[q[i]] = FlagQueue
  <2>1. q \in Seq(Thread) /\ IsInjective(q) /\ ToSet(q) = {t \in Thread : b.k.queue[t] = FlagQueue}
    BY <1>1 DEF WaitOK, QueuedExactly, KernelOK, KernelData
  <2> QED
    BY <2>1 DEF IsInjective, ToSet
<1>3. /\ w \in Seq(Thread) /\ Len(w) \in Nat /\ DOMAIN w = 1 .. Len(w)
      /\ \A i \in 1 .. Len(w) : d.k.queue[w[i]] = FlagQueue
  <2>1. w \in Seq(Thread) /\ ToSet(w) = {t \in Thread : d.k.queue[t] = FlagQueue}
    BY <1>1 DEF WaitOK, QueuedExactly
  <2> HIDE DEF w
  <2> QED
    BY <2>1 DEF ToSet
<1>4. /\ Len(w) >= Len(q) - (n - 1)
      /\ \A i \in 1 .. Len(q) - (n - 1) : w[i] = q[n - 1 + i]
      /\ \A t \in Thread :
           /\ d.k.queue[t] = FlagQueue \/ b.k.queue[t] # FlagQueue => d.info[t] = b.info[t]
           /\ d.k.queue[t] # FlagQueue /\ b.k.queue[t] = FlagQueue =>
                d.info[t].value_out # {}
      /\ \A i \in 1 .. n - 1 :
           /\ d.k.queue[q[i]] = FlagQueue => ~Matches(d.value, b.info[q[i]])
           /\ d.k.queue[q[i]] # FlagQueue /\ b.info[q[i]].do_clear => d.value = {}
      /\ \A i, j \in 1 .. n - 1 :
           i < j /\ d.k.queue[q[i]] # FlagQueue /\ b.info[q[i]].do_clear =>
             d.k.queue[q[j]] = FlagQueue
  BY DEF RoundsDone
<1> HIDE DEF w
<1>0. /\ Len(w) >= 1 /\ 1 \in 1 .. Len(q) - (n - 1) /\ n - 1 + 1 = n
      /\ Len(w) - 1 >= Len(q) - n
      /\ \A i \in 1 .. Len(q) - n :
           /\ i \in 1 .. Len(w) - 1
           /\ i + 1 \in 1 .. Len(q) - (n - 1)
           /\ n - 1 + (i + 1) = n + i
  <2>1. Len(w) \in Nat /\ Len(q) \in Nat /\ n \in 1 .. Len(q)
    BY <1>2, <1>3
  <2>2. Len(w) >= Len(q) - (n - 1)
    BY <1>4
  <2> QED
    BY <2>1, <2>2, RoundArithmetic
\* The thread of this round is the head of the queue.
<1>5. /\ Len(w) >= 1 /\ w # <<>> /\ h = w[1] /\ h = Head(w)
      /\ Tail(w) \in Seq(Thread) /\ Len(Tail(w)) = Len(w) - 1
      /\ \A i \in 1 .. Len(w) - 1 : Tail(w)[i] = w[i + 1]
  <2>1. w[1] = q[n]
    BY <1>0, <1>4
  <2> QED
    BY <1>0, <1>3, <2>1, HeadTailProperties, EmptySeq
<1>6. /\ h \in Thread /\ b.k.queue[h] = FlagQueue /\ d.k.queue[h] = FlagQueue
      /\ d.info[h] = b.info[h]
      /\ \A i \in 1 .. n - 1 : q[i] # h /\ q[i] \in Thread
  <2>1. h \in Thread /\ b.k.queue[h] = FlagQueue
    BY <1>2
  <2>2. 1 \in 1 .. Len(w)
    BY <1>3, <1>5
  <2>3. d.k.queue[h] = FlagQueue
    BY <1>3, <1>5, <2>2
  <2>4. \A i \in 1 .. n - 1 : i \in 1 .. Len(q) /\ i # n
    BY <1>2
  <2> QED
    BY <1>2, <1>4, <2>1, <2>3, <2>4
<1>7. \A i \in 1 .. Len(q) - n :
        i \in 1 .. Len(w) - 1 /\ Tail(w)[i] = q[n + i]
  <2> SUFFICES ASSUME NEW i \in 1 .. Len(q) - n
               PROVE  i \in 1 .. Len(w) - 1 /\ Tail(w)[i] = q[n + i]
    OBVIOUS
  <2>1. /\ i \in 1 .. Len(w) - 1 /\ i + 1 \in 1 .. Len(q) - (n - 1)
        /\ n - 1 + (i + 1) = n + i
    BY <1>0
  <2> QED
    BY <1>4, <1>5, <2>1
<1>8. Len(w) - 1 >= Len(q) - n
  BY <1>0
<1>9. \A i \in 1 .. n : i = n \/ i \in 1 .. n - 1
  BY <1>2
\* Of the two outcomes: what the round leaves of the queue and of the info.
<1>10. ASSUME Matches(d.value, b.info[h])
       PROVE  RoundsDone(b, e, q, n)
  <2> DEFINE x == WakeFirst(d.k, FlagQueue)
             v == IF d.info[h].do_clear THEN {} ELSE d.value
             inf == [d.info EXCEPT ![h].value_out = d.value]
  <2>1. /\ x = WakeDone(Dequeue(d.k, FlagQueue), h)
        /\ x.wait_queue[FlagQueue] = Tail(w)
        /\ x.queue[h] = NoQueue
        /\ \A t \in Thread : t # h => x.queue[t] = d.k.queue[t]
    <3>1. /\ d.k.wait_queue[FlagQueue] # <<>>
          /\ h = Head(d.k.wait_queue[FlagQueue])
      BY <1>5 DEF w
    <3> HIDE DEF h
    <3> QED
      BY <1>1, <3>1, WakeFirstQueue DEF w
  <2>2. Sound(d.k, x) /\ Serves(d.k, x, FlagQueue)
    BY <1>1, WakeFirstServes
  <2>3. e = [k |-> x, value |-> v, info |-> inf]
    BY <1>6, <1>10, <2>1 DEF Serve
  <2> HIDE DEF x
  <2>5. Sound(b.k, x) /\ Serves(b.k, x, FlagQueue)
    BY <1>1, <2>2, SoundTrans, ServesTrans
  <2>6. /\ v \in SUBSET Bit /\ v \in SUBSET d.value
        /\ b.info[h].do_clear => v = {}
        /\ d.value # {}
    BY <1>1, <1>6, <1>10, MatchesSome
  <2>7. /\ inf \in [Thread -> WaitInfo]
        /\ inf[h].value_out # {}
        /\ \A t \in Thread : t # h => inf[t] = d.info[t]
    BY <1>1, <1>6, <2>6, ZenonT(60) DEF WaitInfo
  <2> HIDE DEF v, inf
  <2>8. e \in FlagData /\ e.k = x /\ e.value = v /\ e.info = inf
    BY <2>2, <2>3, <2>6, <2>7 DEF FlagData, Sound, KernelOK
  <2> HIDE DEF h, e
  <2>9. /\ Len(x.wait_queue[FlagQueue]) >= Len(q) - n
        /\ \A i \in 1 .. Len(q) - n : x.wait_queue[FlagQueue][i] = q[n + i]
    BY <1>5, <1>7, <1>8, <2>1
  <2>10. ASSUME NEW t \in Thread
         PROVE  /\ x.queue[t] = FlagQueue \/ b.k.queue[t] # FlagQueue => inf[t] = b.info[t]
                /\ x.queue[t] # FlagQueue /\ b.k.queue[t] = FlagQueue =>
                     inf[t].value_out # {}
    <3>1. CASE t = h
      BY <1>1, <1>6, <2>1, <2>7, <3>1
    <3>2. CASE t # h
      BY <1>4, <2>1, <2>7, <3>2
    <3> QED
      BY <3>1, <3>2
  <2>11. ASSUME NEW i \in 1 .. n
         PROVE  /\ x.queue[q[i]] = FlagQueue => ~Matches(v, b.info[q[i]])
                /\ x.queue[q[i]] # FlagQueue /\ b.info[q[i]].do_clear => v = {}
    <3>1. CASE i = n
      BY <1>1, <2>1, <2>6, <3>1 DEF h
    <3>2. CASE i \in 1 .. n - 1
      <4>1. x.queue[q[i]] = d.k.queue[q[i]]
        BY <1>6, <2>1, <3>2
      <4> QED
        BY <1>4, <2>6, <3>2, <4>1, MatchesFewer
    <3> QED
      BY <1>9, <3>1, <3>2
  <2>12. ASSUME NEW i \in 1 .. n, NEW j \in 1 .. n, i < j,
                x.queue[q[i]] # FlagQueue, b.info[q[i]].do_clear
         PROVE  x.queue[q[j]] = FlagQueue
    <3>1. i \in 1 .. n - 1
      BY <1>2, <2>12
    <3>2. x.queue[q[i]] = d.k.queue[q[i]]
      BY <1>6, <2>1, <3>1
    <3>3. d.value = {}
      BY <1>4, <2>12, <3>1, <3>2
    <3> QED
      BY <2>6, <3>3
  <2> QED
    BY <2>5, <2>8, <2>9, <2>10, <2>11, <2>12 DEF RoundsDone
<1>11. ASSUME ~Matches(d.value, b.info[h])
       PROVE  RoundsDone(b, e, q, n)
  <2> DEFINE x == Enqueue(Dequeue(d.k, FlagQueue), FlagQueue, h)
  <2>1. /\ Sound(d.k, x) /\ Kept(d.k, x)
        /\ x.queue = d.k.queue
        /\ x.wait_queue[FlagQueue] = Append(Tail(w), h)
    <3>1. /\ d.k.wait_queue[FlagQueue] # <<>>
          /\ h = Head(d.k.wait_queue[FlagQueue])
      BY <1>5 DEF w
    <3>2. KernelOK(d.k) /\ WaitOK(d.k) /\ FlagQueue \in Queue
      BY <1>1
    <3>3. x = Enqueue(Dequeue(d.k, FlagQueue), FlagQueue, h)
      OBVIOUS
    <3> HIDE DEF h, x
    <3>4. Requeued(d.k, FlagQueue, x)
      BY <3>1, <3>2, <3>3, RequeueHead
    <3> QED
      BY <3>1, <3>4 DEF w, Requeued
  <2>2. e = [d EXCEPT !.k = x]
    BY <1>6, <1>11 DEF Serve
  <2> HIDE DEF x
  <2>3. Sound(b.k, x) /\ Serves(b.k, x, FlagQueue)
    <3>1. Serves(d.k, x, FlagQueue)
      BY <2>1 DEF Kept, Serves
    <3> QED
      BY <1>1, <2>1, <3>1, SoundTrans, ServesTrans
  <2>4. e \in FlagData /\ e.k = x /\ e.value = d.value /\ e.info = d.info
    BY <1>1, <2>1, <2>2 DEF FlagData, Sound, KernelOK
  <2> HIDE DEF e
  <2>5. /\ Len(x.wait_queue[FlagQueue]) >= Len(q) - n
        /\ \A i \in 1 .. Len(q) - n : x.wait_queue[FlagQueue][i] = q[n + i]
    <3>1. /\ Len(Append(Tail(w), h)) = Len(w)
          /\ \A i \in 1 .. Len(w) - 1 : Append(Tail(w), h)[i] = Tail(w)[i]
      <4> HIDE DEF h
      <4> QED
        BY <1>3, <1>5, <1>6, AppendProperties
    <3>2. Len(w) >= Len(q) - n
      BY <1>2, <1>3, <1>8
    <3> QED
      BY <1>7, <2>1, <3>1, <3>2
  <2>6. ASSUME NEW i \in 1 .. n
        PROVE  /\ x.queue[q[i]] = FlagQueue => ~Matches(d.value, b.info[q[i]])
               /\ x.queue[q[i]] # FlagQueue /\ b.info[q[i]].do_clear => d.value = {}
    <3>1. CASE i = n
      BY <1>6, <1>11, <2>1, <3>1
    <3>2. CASE i \in 1 .. n - 1
      BY <1>4, <2>1, <3>2
    <3> QED
      BY <1>9, <3>1, <3>2
  <2>7. ASSUME NEW i \in 1 .. n, NEW j \in 1 .. n, i < j,
               x.queue[q[i]] # FlagQueue, b.info[q[i]].do_clear
        PROVE  x.queue[q[j]] = FlagQueue
    <3>1. i \in 1 .. n - 1
      BY <1>2, <2>7
    <3>2. CASE j = n
      BY <1>6, <2>1, <3>2
    <3>3. CASE j \in 1 .. n - 1
      <4>1. x.queue = d.k.queue
        BY <2>1
      <4>2. i < j /\ d.k.queue[q[i]] # FlagQueue /\ b.info[q[i]].do_clear
        BY <2>7, <4>1
      <4>3. \A s, t \in 1 .. n - 1 :
              s < t /\ d.k.queue[q[s]] # FlagQueue /\ b.info[q[s]].do_clear =>
                d.k.queue[q[t]] = FlagQueue
        BY <1>4
      <4> QED
        BY <3>1, <3>3, <4>1, <4>2, <4>3
    <3> QED
      BY <1>9, <3>2, <3>3
  <2>8. \A t \in Thread :
          /\ x.queue[t] = FlagQueue \/ b.k.queue[t] # FlagQueue => d.info[t] = b.info[t]
          /\ x.queue[t] # FlagQueue /\ b.k.queue[t] = FlagQueue =>
               d.info[t].value_out # {}
    BY <1>4, <2>1
  <2> HIDE DEF h
  <2> QED
    BY <2>3, <2>4, <2>5, <2>6, <2>7, <2>8, ZenonT(60) DEF RoundsDone
<1> QED
  BY <1>10, <1>11

\* All of them.
LEMMA FromRounds ==
  ASSUME NEW b, b \in FlagData, KernelOK(b.k), WaitOK(b.k),
         NEW q, q = b.k.wait_queue[FlagQueue],
         NEW N \in Nat, Len(q) = N, DOMAIN q = 1 .. N
  PROVE  RoundsDone(b, Rounds(b, q), q, N)
<1>1. PICK f : IsRounds(f, b, q, N)
  BY ServeSteps
<1>4. /\ f[0] = b
      /\ \A n \in 1 .. N : f[n] = Serve(f[n - 1], q[n])
      /\ Rounds(b, q) = f[N]
  BY <1>1 DEF IsRounds
<1>5. RoundsDone(b, f[0], q, 0)
  <2>1. Sound(b.k, b.k) /\ Serves(b.k, b.k, FlagQueue)
    BY SoundRefl, KeptRefl DEF Kept, Serves
  <2>2. N - 0 = N /\ 1 .. 0 = {} /\ \A i \in Int : 0 + i = i
    OBVIOUS
  <2> QED
    BY <1>4, <2>1, <2>2 DEF RoundsDone
<1> DEFINE G == {n \in 0 .. N : RoundsDone(b, f[n], q, n)}
<1>6. 0 \in G
  BY <1>5
<1>7. ASSUME NEW n \in 1 .. N, n - 1 \in G PROVE n \in G
  <2>1. RoundsDone(b, f[n - 1], q, n - 1) /\ n \in 1 .. Len(q)
    BY <1>7
  <2>2. RoundsDone(b, Serve(f[n - 1], q[n]), q, n)
    BY <2>1, NextRound
  <2> QED
    BY <1>4, <2>2
<1> HIDE DEF G
<1>8. N \in G
  <2> DEFINE M == N
  <2>1. M \in Nat /\ 0 \in G /\ \A n \in 1 .. M : n - 1 \in G => n \in G
    BY <1>6, <1>7
  <2>2. M \in 0 .. M
    BY <2>1
  <2> HIDE DEF M
  <2>3. M \in G
    BY <2>1, <2>2, Induction
  <2> QED
    BY <2>3 DEF M
<1> QED
  BY <1>4, <1>8 DEF G

LEMMA AllRounds ==
  ASSUME FlagInv, NEW arg \in SUBSET Bit, NEW q, q = k.wait_queue[FlagQueue],
         NEW b, b = [k |-> k, value |-> value \cup arg, info |-> info]
  PROVE  RoundsDone(b, SetBits(arg), q, Len(q))
<1>1. /\ FlagQueue \in Queue /\ KernelOK(k) /\ WaitOK(k) /\ k \in KernelData
      /\ k.wait_queue \in [Queue -> Seq(Thread)]
      /\ value \in SUBSET Bit /\ info \in [Thread -> WaitInfo]
  BY FlagAssumption
     DEF FlagInv, FlagTypeOK, IInv, KernelInv, WaitInv, KernelOK, KernelData
<1>2. /\ b.k = k /\ b \in FlagData
      /\ Len(q) \in Nat /\ DOMAIN q = 1 .. Len(q)
  BY <1>1 DEF FlagData
<1>3. SetBits(arg) = Rounds(b, q)
  BY DEF SetBits, Rounds
<1> QED
  BY <1>1, <1>2, <1>3, FromRounds
------------------------------------------------------------------------------
(***************************************************************************)
(* The steps.                                                              *)
(***************************************************************************)
\* ClearedForOne, of one step.
ClearedOnce ==
  LET q == k.wait_queue[FlagQueue]
  IN  \A m, n \in DOMAIN q :
        /\ m < n
        /\ info[q[m]].do_clear
        /\ info'[q[m]].value_out # {}
        => info'[q[n]].value_out = {}

FlagKept == FlagInv' /\ ClearedOnce

\* A step that hands nothing out.
LEMMA HandsNothing ==
  ASSUME FlagInv, IInv', WaitInv',
         value' \in SUBSET value, info' \in [Thread -> WaitInfo],
         \A t \in Thread \ {Current} : info'[t] = info[t],
         info'[Current].value_out = {} \/ info' = info,
         ToSet(k'.wait_queue[FlagQueue]) \ {Current}
           \subseteq ToSet(k.wait_queue[FlagQueue]),
         \/ ToSet(k'.wait_queue[FlagQueue]) \subseteq ToSet(k.wait_queue[FlagQueue])
            /\ info' = info
         \/ info'[Current].value_out = {} /\ ~Matches(value', info'[Current]),
         Woken(FlagQueue)' \subseteq Woken(FlagQueue),
         info' = info \/ Current \notin Woken(FlagQueue)'
  PROVE  FlagKept
<1>1. /\ value \in SUBSET Bit /\ info \in [Thread -> WaitInfo]
      /\ \A t \in ToSet(k.wait_queue[FlagQueue]) :
           info[t].value_out = {} /\ ~Matches(value, info[t])
      /\ \A t \in Woken(FlagQueue) : info[t].value_out # {}
      /\ Woken(FlagQueue) \subseteq Thread
  BY DEF FlagInv, FlagTypeOK, NoSatisfiedSleeper, Woken
<1>2. /\ k.wait_queue[FlagQueue] \in Seq(Thread)
      /\ k'.wait_queue[FlagQueue] \in Seq(Thread)
  BY FlagAssumption DEF FlagInv, IInv, KernelInv, KernelOK, KernelData
<1>3. /\ ToSet(k.wait_queue[FlagQueue]) \subseteq Thread
      /\ ToSet(k'.wait_queue[FlagQueue]) \subseteq Thread
  BY <1>2 DEF ToSet
<1>4. FlagTypeOK'
  BY <1>1 DEF FlagTypeOK
<1>5. NoSatisfiedSleeper'
  <2> SUFFICES ASSUME NEW t \in ToSet(k'.wait_queue[FlagQueue])
               PROVE  info'[t].value_out = {} /\ ~Matches(value', info'[t])
    BY DEF NoSatisfiedSleeper, Matches
  <2>1. CASE (t # Current \/ info' = info) /\ t \in ToSet(k.wait_queue[FlagQueue])
    <3>1. t \in ToSet(k.wait_queue[FlagQueue]) /\ info'[t] = info[t]
      BY <1>3, <2>1
    <3> QED
      BY <1>1, <3>1, MatchesFewer
  <2>2. CASE t = Current /\ info'[Current].value_out = {} /\ ~Matches(value', info'[Current])
    BY <2>2
  <2> QED
    BY <2>1, <2>2
<1>6. \A t \in Woken(FlagQueue)' : info'[t].value_out # {}
  BY <1>1
<1>7. ClearedOnce
  <2> SUFFICES ASSUME NEW n \in DOMAIN k.wait_queue[FlagQueue]
               PROVE  info'[k.wait_queue[FlagQueue][n]].value_out = {}
    BY DEF ClearedOnce
  <2>1. k.wait_queue[FlagQueue][n] \in ToSet(k.wait_queue[FlagQueue])
    BY DEF ToSet
  <2> QED
    BY <1>1, <1>3, <2>1
<1>8. FlagInv'
  BY <1>4, <1>5, <1>6 DEF FlagInv
<1> QED
  BY <1>7, <1>8 DEF FlagKept

\* A step of another object, or of the scheduler.
LEMMA FlagAside ==
  ASSUME FlagInv, IInv', WaitInv', NEW Q, Quiet(Q), FlagQueue \notin Q,
         UNCHANGED flagvars
  PROVE  FlagKept
<1>1. QuietFor(FlagQueue)
  BY FlagAssumption DEF Quiet
<1>2. /\ Woken(FlagQueue)' \subseteq Woken(FlagQueue)
      /\ ToSet(k'.wait_queue[FlagQueue]) \subseteq ToSet(k.wait_queue[FlagQueue])
  BY <1>1 DEF QuietFor
<1>3. /\ value' = value /\ info' = info /\ info \in [Thread -> WaitInfo]
  BY DEF flagvars, FlagInv, FlagTypeOK
<1> QED
  BY <1>2, <1>3, HandsNothing

\* A thread goes to sleep on bits that are not there.
LEMMA FlagSleeps ==
  ASSUME FlagInv, NEW name, Calling(name), NEW j, Sound(k, j), KeptOthers(k, j),
         NEW i \in Request, ~Matches(value, i), NEW timed \in BOOLEAN,
         FlagSleep(j, timed), info' = [info EXCEPT ![Current] = i], value' = value
  PROVE  FlagKept /\ Quiet({FlagQueue})
<1>1. /\ IInv /\ WaitInv /\ Current \in Target /\ pc = "user" /\ Current \in Thread
      /\ waits[Current].queue = NoQueue /\ FlagQueue \in Queue
      /\ Current \notin Woken(FlagQueue) /\ info \in [Thread -> WaitInfo]
  BY FlagAssumption, Caller DEF FlagInv, FlagTypeOK
<1>2. BlockOn(GoToSleep(j, FlagQueue, timed), FlagQueue, timed)
  BY DEF FlagSleep
<1>3. /\ IInv' /\ WaitInv' /\ Quiet({FlagQueue})
      /\ ToSet(k'.wait_queue[FlagQueue]) \ {Current}
           \subseteq ToSet(k.wait_queue[FlagQueue])
  <2>1. waits[Current].queue \in {FlagQueue} \cup {NoQueue} /\ FlagQueue \in {FlagQueue}
    BY <1>1
  <2> QED
    BY <1>1, <1>2, <2>1, Begins
<1>4. Woken(FlagQueue)' \subseteq Woken(FlagQueue)
  <2>1. NoneServed(NoQueue)
    BY <1>1, <1>2, BeginWait
  <2>2. FlagQueue # NoQueue
    BY <1>1, ThreadAssumption
  <2> QED
    BY <1>1, <2>1, <2>2 DEF NoneServed
<1>5. /\ info' \in [Thread -> WaitInfo] /\ info'[Current] = i /\ i.value_out = {}
      /\ \A t \in Thread \ {Current} : info'[t] = info[t]
  BY <1>1 DEF Request
<1>6. value' \in SUBSET value /\ ~Matches(value', info'[Current])
  BY <1>5
<1> HIDE DEF Current
<1> QED
  BY <1>1, <1>3, <1>4, <1>5, <1>6, HandsNothing

LEMMA FlagWokenKept ==
  ASSUME FlagInv, FlagWoken
  PROVE  FlagKept /\ Quiet({FlagQueue})
<1>1. /\ IInv /\ WaitInv /\ info \in [Thread -> WaitInfo]
      /\ InWait({FlagQueue}) /\ k.wake_reason[Current] # "EXIT" /\ value' = value
      /\ FlagQueue \in Queue /\ FlagQueue # NoQueue
  BY FlagAssumption, ThreadAssumption DEF FlagInv, FlagTypeOK, FlagWoken
<1>2. /\ Current \in Target /\ Current \in Thread /\ pc = "user" /\ cont[Current] = "wait"
      /\ waits[Current].queue = FlagQueue /\ waits[Current].timed \in BOOLEAN
  BY <1>1, Waiter
\* Nothing else ends the sleep than what breaks it off and what satisfies it.
<1>3. BrokenOff \/ info[Current].value_out # {}
  <2>1. ~Asleep(Current)
    BY <1>2 DEF WaitInv, FlagInv, Sleeps, SLEEPSET, Asleep
  <2>2. k.wake_reason[Current] \in Broken \cup {"DONE"}
    BY <1>1, <1>2, <2>1 DEF WaitInv
  <2>3. CASE k.wake_reason[Current] = "DONE"
    BY <1>2, <2>1, <2>3 DEF Woken, FlagInv
  <2> QED
    BY <1>1, <2>2, <2>3 DEF Broken, BrokenOff
<1>4. /\ Finish(k, waits[Current].timed)
      /\ info' = [info EXCEPT ![Current] = NoInfo]
  BY <1>3 DEF FlagWoken
<1>5. Sound(k, k) /\ KeptOthers(k, k) /\ ServesOthers(k, k, NoQueue)
  BY <1>1, SameServes, KeptServes
<1>6. /\ IInv' /\ WaitInv' /\ NobodyLost({Current}) /\ Quiet({FlagQueue})
  <2>1. /\ waits[Current].queue \in {FlagQueue} \cup {NoQueue}
        /\ cont[Current] \in {"user", "wait"}
    BY <1>2
  <2> QED
    BY <1>1, <1>2, <1>4, <1>5, <2>1, Ends
<1>7. Woken(FlagQueue)' \subseteq Woken(FlagQueue)
  <2>1. NoneServed(NoQueue)
    BY <1>1, <1>2, <1>4, <1>5, EndWait
  <2> QED
    BY <1>1, <2>1 DEF NoneServed
<1>8. Current \notin Woken(FlagQueue)'
  <2>1. waits'[Current].queue = NoQueue
    <3>1. waits' = [waits EXCEPT ![Current] = NoWait]
      BY <1>4 DEF Finish
    <3> QED
      BY <1>1, <1>2, <3>1 DEF WaitInv, NoWait
  <2> QED
    BY <1>1, <2>1 DEF Woken
<1>9. /\ info' \in [Thread -> WaitInfo] /\ info'[Current] = NoInfo
      /\ NoInfo.value_out = {} /\ ~Matches(value', NoInfo)
      /\ \A t \in Thread \ {Current} : info'[t] = info[t]
  BY <1>1, <1>2, <1>4 DEF NoInfo, WaitInfo, Matches
<1>10. ToSet(k'.wait_queue[FlagQueue]) \subseteq ToSet(k.wait_queue[FlagQueue])
  BY <1>1, <1>6 DEF NobodyLost
<1> HIDE DEF Current
<1> QED
  BY <1>1, <1>6, <1>7, <1>8, <1>9, <1>10, HandsNothing

\* setbits(), by a thread or a DSR.
LEMMA FlagSet ==
  ASSUME FlagInv, NEW arg \in SUBSET Bit, NEW d, d = SetBits(arg),
         NEW name,
         \/ Calling(name) /\ Update(d.k)
         \/ DeviceCalling(name) /\ DeviceUpdate(d.k),
         value' = d.value, info' = d.info, waits' = waits
  PROVE  FlagKept /\ Quiet({FlagQueue})
<1> DEFINE q == k.wait_queue[FlagQueue]
           b == [k |-> k, value |-> value \cup arg, info |-> info]
<1>1. b.k = k /\ b.info = info
  OBVIOUS
<1>2. RoundsDone(b, d, q, Len(q))
  BY AllRounds
<1> HIDE DEF b
<1>3. /\ IInv /\ WaitInv /\ WaitOK(k) /\ FlagQueue \in Queue /\ FlagQueue # NoQueue
      /\ value \in SUBSET Bit /\ info \in [Thread -> WaitInfo]
      /\ k.wait_queue \in [Queue -> Seq(Thread)]
  BY FlagAssumption, ThreadAssumption
     DEF FlagInv, FlagTypeOK, WaitInv, IInv, KernelInv, KernelOK, KernelData
<1>4. /\ Sound(k, d.k) /\ Serves(k, d.k, FlagQueue) /\ d \in FlagData
  BY <1>1, <1>2 DEF RoundsDone
<1>5. IInv' /\ WaitInv' /\ NobodyLost({}) /\ Quiet({FlagQueue}) /\ k' = d.k
  <2>1. FlagQueue \in {FlagQueue} \cup {NoQueue}
    OBVIOUS
  <2> QED
    BY <1>3, <1>4, <2>1, CallServes
<1>6. /\ q \in Seq(Thread) /\ Len(q) \in Nat /\ DOMAIN q = 1 .. Len(q)
      /\ ToSet(q) = {t \in Thread : k.queue[t] = FlagQueue}
      /\ \A i \in 1 .. Len(q) : q[i] \in ToSet(q)
      /\ \A t \in ToSet(q) : \E i \in 1 .. Len(q) : q[i] = t
      /\ \A t \in ToSet(q) : info[t].value_out = {}
  <2>1. q \in Seq(Thread) /\ ToSet(q) = {t \in Thread : k.queue[t] = FlagQueue}
    BY <1>3 DEF WaitOK, QueuedExactly
  <2>2. \A t \in ToSet(q) : info[t].value_out = {}
    BY DEF FlagInv, NoSatisfiedSleeper
  <2> HIDE DEF q
  <2> QED
    BY <2>1, <2>2 DEF ToSet
<1>7. /\ \A t \in Thread :
           /\ k'.queue[t] = FlagQueue \/ k.queue[t] # FlagQueue => info'[t] = info[t]
           /\ k'.queue[t] # FlagQueue /\ k.queue[t] = FlagQueue =>
                info'[t].value_out # {}
      /\ \A i \in 1 .. Len(q) :
           k'.queue[q[i]] = FlagQueue => ~Matches(value', info[q[i]])
      /\ \A i, j \in 1 .. Len(q) :
           i < j /\ k'.queue[q[i]] # FlagQueue /\ info[q[i]].do_clear =>
             k'.queue[q[j]] = FlagQueue
  BY <1>1, <1>2, <1>5 DEF RoundsDone
<1> HIDE DEF q
<1>8. FlagTypeOK'
  BY <1>4 DEF FlagData, FlagTypeOK
<1>9. NoSatisfiedSleeper'
  <2> SUFFICES ASSUME NEW t \in ToSet(k'.wait_queue[FlagQueue])
               PROVE  info'[t].value_out = {} /\ ~Matches(value', info'[t])
    BY DEF NoSatisfiedSleeper, Matches
  <2>1. t \in Thread /\ k'.queue[t] = FlagQueue
    BY <1>3, <1>5 DEF WaitInv, WaitOK, QueuedExactly
  <2>2. t \in ToSet(q)
    BY <1>3, <1>5 DEF NobodyLost, q
  <2>3. info'[t] = info[t]
    BY <1>7, <2>1
  <2> QED
    BY <1>6, <1>7, <2>1, <2>2, <2>3
<1>10. ASSUME NEW t \in Woken(FlagQueue)' PROVE info'[t].value_out # {}
  <2>1. /\ t \in Thread /\ waits[t].queue = FlagQueue
        /\ "SLEEPING" \notin k'.state[t] /\ k'.wake_reason[t] = "DONE"
    BY <1>10 DEF Woken, Asleep
  <2>2. k'.queue[t] # FlagQueue
    BY <1>3, <1>5, <2>1 DEF WaitInv, WaitOK, WaitOKAt
  <2>3. CASE k.queue[t] = FlagQueue
    BY <1>7, <2>1, <2>2, <2>3
  <2>4. CASE k.queue[t] # FlagQueue
    <3>1. ~Asleep(t)
      BY <1>3, <2>1, <2>4 DEF WaitInv
    <3>2. k.sleep_reason[t] = "NONE"
      BY <1>3, <2>1, <3>1 DEF WaitInv
    <3>3. KeptAt(k, k', t)
      BY <1>4, <1>5, <2>1, <2>4 DEF Serves, ServedAt
    <3>4. t \in Woken(FlagQueue)
      BY <2>1, <3>1, <3>2, <3>3 DEF KeptAt, Woken
    <3>5. info'[t] = info[t]
      BY <1>7, <2>1, <2>4
    <3> QED
      BY <3>4, <3>5 DEF FlagInv
  <2> QED
    BY <2>3, <2>4
<1>11. ClearedOnce
  <2> SUFFICES ASSUME NEW m \in DOMAIN q, NEW n \in DOMAIN q, m < n,
                      info[q[m]].do_clear, info'[q[m]].value_out # {}
               PROVE  info'[q[n]].value_out = {}
    BY DEF ClearedOnce, q
  <2>1. /\ m \in 1 .. Len(q) /\ n \in 1 .. Len(q)
        /\ q[m] \in Thread /\ q[m] \in ToSet(q)
        /\ q[n] \in Thread /\ q[n] \in ToSet(q)
    BY <1>6
  <2>2. k'.queue[q[m]] # FlagQueue
    BY <1>6, <1>7, <2>1
  <2>3. k'.queue[q[n]] = FlagQueue
    BY <1>7, <2>1, <2>2
  <2> QED
    BY <1>6, <1>7, <2>1, <2>3
<1>12. FlagInv'
  BY <1>5, <1>8, <1>9, <1>10 DEF FlagInv
<1> QED
  BY <1>5, <1>11, <1>12 DEF FlagKept

\* The calls that change nothing but the value, to fewer bits.
LEMMA FlagLess ==
  ASSUME FlagInv, NEW name, Calling(name), Update(k), waits' = waits,
         info' = info, value' \in SUBSET value
  PROVE  FlagKept /\ Quiet({FlagQueue})
<1>1. IInv /\ WaitInv /\ Sound(k, k) /\ Serves(k, k, NoQueue)
      /\ info \in [Thread -> WaitInfo] /\ FlagQueue \in Queue
  BY SameServes, FlagAssumption DEF FlagInv, FlagTypeOK
<1>2. IInv' /\ WaitInv' /\ Quiet({FlagQueue}) /\ k' = k
  <2>1. NoQueue \in {FlagQueue} \cup {NoQueue}
    OBVIOUS
  <2> QED
    BY <1>1, <2>1, CallServes
<1>3. Woken(FlagQueue)' = Woken(FlagQueue)
  BY <1>2 DEF Woken, Asleep
<1> QED
  BY <1>1, <1>2, <1>3, HandsNothing

LEMMA FlagStepInv ==
  ASSUME FlagInv, FlagStep
  PROVE  FlagKept /\ Quiet({FlagQueue})
<1>0. /\ IInv /\ WaitInv /\ KernelOK(k) /\ WaitOK(k) /\ Current = k.current_thread
      /\ value \in SUBSET Bit
  BY DEF FlagInv, FlagTypeOK, IInv, KernelInv, WaitInv, Current
<1>1. Sound(k, k) /\ KeptOthers(k, k)
  BY <1>0, SameServes
<1>2. ASSUME NEW arg \in SUBSET Bit, FlagSetBits(arg) \/ FlagSetBitsDSR(arg)
      PROVE  FlagKept /\ Quiet({FlagQueue})
  BY <1>2, FlagSet DEF FlagSetBits, FlagSetBitsDSR
<1>3. ASSUME NEW arg \in SUBSET Bit, FlagMaskBits(arg)
      PROVE  FlagKept /\ Quiet({FlagQueue})
  <2>1. value' \in SUBSET value
    BY <1>3 DEF FlagMaskBits
  <2> QED
    BY <1>3, <2>1, FlagLess DEF FlagMaskBits
<1>4. ASSUME NEW i \in Request, FlagPoll(i)
      PROVE  FlagKept /\ Quiet({FlagQueue})
  <2>1. value' \in SUBSET value /\ \E name : Calling(name)
    BY <1>4 DEF FlagPoll, Cleared
  <2> QED
    BY <1>4, <2>1, FlagLess DEF FlagPoll
<1>5. ASSUME NEW i \in Request, FlagWait(i)
      PROVE  FlagKept /\ Quiet({FlagQueue})
  BY <1>1, <1>5, FlagSleeps DEF FlagWait
<1>6. ASSUME NEW i \in Request, FlagTimedWait(i)
      PROVE  FlagKept /\ Quiet({FlagQueue})
  <2> DEFINE a == SetTimer(k, "TIMEOUT")
             z == Alarm(a, Current)
  <2>1. Sound(k, a) /\ KeptOthers(k, a) /\ Sound(k, z) /\ KeptOthers(k, z)
    BY <1>0, TimerForWait
  <2>2. /\ Calling("flag_timed_wait") /\ ~Matches(value, i) /\ value' = value
        /\ \/ FlagSleep(a, TRUE) /\ info' = [info EXCEPT ![Current] = i]
           \/ Finish(z, TRUE) /\ info' = info
    BY <1>6 DEF FlagTimedWait
  <2> HIDE DEF a, z
  <2>3. CASE FlagSleep(a, TRUE) /\ info' = [info EXCEPT ![Current] = i]
    BY <2>1, <2>2, <2>3, FlagSleeps
  <2>4. CASE Finish(z, TRUE) /\ info' = info
    <3>1. /\ Current \in Target /\ pc = "user" /\ cont[Current] \in {"user", "wait"}
          /\ waits[Current].queue \in {} \cup {NoQueue}
      BY <1>0, <2>2, Caller
    <3>2. IInv' /\ WaitInv' /\ Quiet({})
      BY <1>0, <2>1, <2>4, <3>1, Ends
    <3>3. Quiet({FlagQueue})
      BY <3>2 DEF Quiet
    <3> QED
      BY <2>2, <2>4, <3>2, <3>3, FlagAside DEF flagvars
  <2> QED
    BY <2>2, <2>3, <2>4
<1>7. CASE FlagWoken
  BY <1>7, FlagWokenKept
<1> QED
  BY <1>2, <1>3, <1>4, <1>5, <1>6, <1>7 DEF FlagStep

LEMMA InitialFlagInv ==
  ASSUME Init, waits = [t \in Thread |-> NoWait], FlagInit
  PROVE  FlagInv
<1>1. IInv /\ WaitInv
  BY InitIInv, WaitInit
<1>2. FlagTypeOK
  BY DEF FlagInit, FlagTypeOK, NoInfo, WaitInfo
<1>3. k.wait_queue[FlagQueue] = <<>>
  BY FlagAssumption DEF Init, InitialData
<1>4. NoSatisfiedSleeper
  BY <1>3 DEF NoSatisfiedSleeper, ToSet
<1>5. Woken(FlagQueue) = {}
  BY FlagAssumption, ThreadAssumption DEF Woken, NoWait
<1> QED
  BY <1>1, <1>2, <1>4, <1>5 DEF FlagInv
------------------------------------------------------------------------------
(***************************************************************************)
(* All of them over one scheduler.                                         *)
(***************************************************************************)
SyncInv == SemInv /\ BinInv /\ BoxInv /\ FlagInv

\* What a step leaves true of each.
SyncKept == SyncInv' /\ RingStep /\ ClearedOnce

LEMMA SyncStepInv ==
  ASSUME SyncInv, [SyncNext]_<<vars, objects, waits>>
  PROVE  SyncKept
<1>1. IInv /\ WaitInv /\ SemInv /\ BinInv /\ BoxInv /\ FlagInv
  BY DEF SyncInv, SemInv
<1>2. SemInv' => IInv' /\ WaitInv'
  BY DEF SemInv
<1>3. BinInv' => IInv' /\ WaitInv'
  BY DEF BinInv
<1>4. BoxInv' => IInv' /\ WaitInv'
  BY DEF BoxInv
<1>5. FlagInv' => IInv' /\ WaitInv'
  BY DEF FlagInv
<1>6. /\ Semaphores \cap {BinQueue} = {} /\ Semaphores \cap BoxQueues = {}
      /\ Semaphores \cap {FlagQueue} = {} /\ Semaphores \cap {} = {}
      /\ BoxQueues \cap Semaphores = {}
      /\ BinQueue \notin Semaphores /\ BinQueue \notin BoxQueues
      /\ BinQueue \notin {FlagQueue} /\ BinQueue \notin {}
      /\ {BinQueue} \cap BoxQueues = {} /\ {FlagQueue} \cap BoxQueues = {}
      /\ {} \cap BoxQueues = {}
      /\ FlagQueue \notin Semaphores /\ FlagQueue \notin {BinQueue}
      /\ FlagQueue \notin BoxQueues /\ FlagQueue \notin {}
  BY SyncAssumption DEF BoxQueues
<1>7. CASE SemStep /\ UNCHANGED <<state, boxvars, flagvars>>
  <2>1. SemInv' /\ Quiet(Semaphores)
    BY <1>1, <1>7, SemStepInv
  <2>2. BinInv'
    BY <1>1, <1>2, <1>6, <1>7, <2>1, BinAside
  <2>3. BoxInv' /\ RingStep
    BY <1>1, <1>2, <1>6, <1>7, <2>1, BoxAside
  <2>4. FlagKept
    BY <1>1, <1>2, <1>6, <1>7, <2>1, FlagAside
  <2> QED
    BY <2>1, <2>2, <2>3, <2>4 DEF SyncKept, SyncInv, FlagKept
<1>8. CASE BinStep /\ UNCHANGED <<count, boxvars, flagvars>>
  <2>1. BinInv' /\ Quiet({BinQueue})
    BY <1>1, <1>8, BinStepInv
  <2>2. SemInv'
    BY <1>1, <1>3, <1>6, <1>8, <2>1, SemAside
  <2>3. BoxInv' /\ RingStep
    BY <1>1, <1>3, <1>6, <1>8, <2>1, BoxAside
  <2>4. FlagKept
    BY <1>1, <1>3, <1>6, <1>8, <2>1, FlagAside
  <2> QED
    BY <2>1, <2>2, <2>3, <2>4 DEF SyncKept, SyncInv, FlagKept
<1>9. CASE BoxStep /\ UNCHANGED <<count, state, flagvars>>
  <2>1. BoxInv' /\ RingStep /\ Quiet(BoxQueues)
    BY <1>1, <1>9, BoxStepInv
  <2>2. SemInv'
    BY <1>1, <1>4, <1>6, <1>9, <2>1, SemAside
  <2>3. BinInv'
    BY <1>1, <1>4, <1>6, <1>9, <2>1, BinAside
  <2>4. FlagKept
    BY <1>1, <1>4, <1>6, <1>9, <2>1, FlagAside
  <2> QED
    BY <2>1, <2>2, <2>3, <2>4 DEF SyncKept, SyncInv, FlagKept
<1>10. CASE FlagStep /\ UNCHANGED <<count, state, boxvars>>
  <2>1. FlagKept /\ FlagInv' /\ Quiet({FlagQueue})
    BY <1>1, <1>10, FlagStepInv DEF FlagKept
  <2>2. SemInv'
    BY <1>1, <1>5, <1>6, <1>10, <2>1, SemAside
  <2>3. BinInv'
    BY <1>1, <1>5, <1>6, <1>10, <2>1, BinAside
  <2>4. BoxInv' /\ RingStep
    BY <1>1, <1>5, <1>6, <1>10, <2>1, BoxAside
  <2> QED
    BY <2>1, <2>2, <2>3, <2>4 DEF SyncKept, SyncInv, FlagKept
<1>11. CASE \/ WokenToExit /\ UNCHANGED objects
            \/ [Next]_vars /\ UNCHANGED <<objects, waits>>
  <2>1. IInv' /\ WaitInv' /\ Quiet({})
    BY <1>1, <1>11, OtherStep
  <2>2. count' = count /\ state' = state /\ UNCHANGED boxvars /\ UNCHANGED flagvars
    BY <1>11 DEF objects
  <2>3. SemInv'
    BY <1>1, <1>6, <2>1, <2>2, SemAside
  <2>4. BinInv'
    BY <1>1, <1>6, <2>1, <2>2, BinAside
  <2>5. BoxInv' /\ RingStep
    BY <1>1, <1>6, <2>1, <2>2, BoxAside
  <2>6. FlagKept
    BY <1>1, <1>6, <2>1, <2>2, FlagAside
  <2> QED
    BY <2>3, <2>4, <2>5, <2>6 DEF SyncKept, SyncInv, FlagKept
<1> QED
  BY <1>7, <1>8, <1>9, <1>10, <1>11 DEF SyncNext

LEMMA InitialSyncInv ==
  ASSUME SyncInit
  PROVE  SyncInv /\ Fifo!Init
<1>1. Init /\ waits = [t \in Thread |-> NoWait]
  BY DEF SyncInit, SemInit
<1>2. SemInv
  BY InitialSemInv DEF SyncInit
<1>3. BinInv
  <2>1. BinInit
    BY <1>1 DEF SyncInit, BinInit
  <2> QED
    BY <2>1, InitialBinInv
<1>4. BoxInv /\ Fifo!Init
  BY <1>1, InitialBoxInv DEF SyncInit
<1>5. FlagInv
  BY <1>1, InitialFlagInv DEF SyncInit
<1> QED
  BY <1>2, <1>3, <1>4, <1>5 DEF SyncInv

\* The objects beside each other keep what each keeps by itself.
THEOREM SyncInvariance == SyncSpec => []SyncInv
<1>1. SyncInv /\ [SyncNext]_<<vars, objects, waits>> => SyncInv'
  BY SyncStepInv DEF SyncKept
<1>2. SyncInit => SyncInv
  BY InitialSyncInv
<1> QED
  BY <1>1, <1>2, PTL DEF SyncSpec

\* Every variable of the scheduler and of every object keeps its type: no count
\* leaves its range (cnt_sem.cxx, bin_sem.cxx, mboxt.inl, flag.cxx).
THEOREM SyncTypeCorrect == SyncSpec => []SyncTypeOK
<1>1. SyncInv => SyncTypeOK
  BY DEF SyncInv, SemInv, BinInv, BoxInv, FlagInv, IInv, KernelInv, WaitInv,
     SemTypeOK, SyncTypeOK
<1> QED
  BY <1>1, SyncInvariance, PTL

\* With all the objects in use preemption is not lost (sched.cxx).
THEOREM SyncTopPriority == SyncSpec => []TopPriorityRuns
<1>1. SyncInv => TopPriorityRuns
  BY DEF SyncInv, SemInv, IInv, KernelInv, KernelOK, Settled, PreemptionNoted,
     TopPriorityRuns, Current
<1> QED
  BY <1>1, SyncInvariance, PTL

\* The waits, which block with the lock claimed, keep the lock a variable of
\* each thread (sched.cxx, unlock_inner).
THEOREM SyncLockPerThread == SyncSpec => []LockIsPerThread
<1>1. SyncInv => LockIsPerThread
  BY DEF SyncInv, SemInv, IInv, LockOK, LockIsPerThread
<1> QED
  BY <1>1, SyncInvariance, PTL

\* The queue of each object holds exactly the threads asleep in a wait on it
\* (mlqueue.cxx, and the wait of each object).
THEOREM SyncWaitersExact == SyncSpec => []WaitersExact
<1>1. SyncInv => WaitersExact
  BY ExactWaiters DEF SyncInv, SemInv
<1> QED
  BY <1>1, SyncInvariance, PTL

\* Whatever the other objects' waiters, posts and wakeups do, nothing that was
\* posted or put is stranded with a thread asleep for it (post(), put(), get()).
THEOREM SyncNothingLost ==
  SyncSpec => [](NoPostLost /\ BinNotStranded /\ NothingStranded)
<1>1. SyncInv => NoPostLost /\ BinNotStranded /\ NothingStranded
  BY DEF SyncInv, SemInv, BinInv, BoxInv
<1> QED
  BY <1>1, SyncInvariance, PTL

\* setbits() leaves no thread asleep whose pattern the value satisfies, however
\* many there are and whatever mixture of patterns they wait for (flag.cxx).
THEOREM NoSleeperIsSatisfied == SyncSpec => []NoSatisfiedSleeper
<1>1. SyncInv => NoSatisfiedSleeper
  BY DEF SyncInv, FlagInv
<1> QED
  BY <1>1, SyncInvariance, PTL

\* Bits cleared for one waiter are given to none behind it (flag.cxx, setbits()).
THEOREM BitsClearedForOne == SyncSpec => ClearedForOne
<1>1. SyncInv /\ [SyncNext]_<<vars, objects, waits>> => ClearedOnce
  BY SyncStepInv DEF SyncKept
<1>2. ClearedOnce
      => [LET q == k.wait_queue[FlagQueue]
          IN  \A m, n \in DOMAIN q :
                /\ m < n
                /\ info[q[m]].do_clear
                /\ info'[q[m]].value_out # {}
                => info'[q[n]].value_out = {}]_<<k, info>>
  BY DEF ClearedOnce
<1> QED
  BY <1>1, <1>2, SyncInvariance, PTL DEF SyncSpec, ClearedForOne

\* The refinement stands with the other objects there: the ring of the mail box
\* is the bounded Buffer (mboxt.inl).
THEOREM SyncImplementsBuffer == SyncSpec => ImplementsBuffer
<1>1. SyncInit => Fifo!Init
  BY InitialSyncInv
<1>2. SyncInv /\ SyncInv' /\ [SyncNext]_<<vars, objects, waits>>
      => [Fifo!Next]_<<Contents, got>>
  <2> SUFFICES ASSUME SyncInv, SyncInv', [SyncNext]_<<vars, objects, waits>>
               PROVE  [Fifo!Next]_<<Contents, got>>
    OBVIOUS
  <2>1. RingStep
    BY SyncStepInv DEF SyncKept
  <2> QED
    BY <2>1, RingRefines DEF SyncInv, BoxInv
<1> QED
  BY <1>1, <1>2, SyncInvariance, PTL DEF SyncSpec, ImplementsBuffer, Fifo!Spec
==============================================================================
