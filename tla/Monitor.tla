------------------------------ MODULE Monitor ------------------------------
(***************************************************************************)
(* What mutexes and condition variables promise together: a monitor whose  *)
(* waiters are woken to compete for the lock again.  Who waits for what is *)
(* all there is; queues, priorities and the scheduler are not seen.        *)
(***************************************************************************)
CONSTANTS Thread, Lock, NoThread, NoLock

VARIABLES
  holder,  \* who holds each lock
  place,   \* where each thread is, with respect to the locks
  wants    \* the lock a thread that is not outside is to hold next

monitor == <<holder, place, wants>>

Init ==
  /\ holder = [x \in Lock |-> NoThread]
  /\ place = [t \in Thread |-> "outside"]
  /\ wants = [t \in Thread |-> NoLock]

Move(t, p, x) ==
  /\ place' = [place EXCEPT ![t] = p]
  /\ wants' = [wants EXCEPT ![t] = x]

\* A free lock is taken: by a newcomer, by a thread that asked for it before,
\* by one that returns from a wait.
Acquire(t, x) ==
  /\ holder[x] = NoThread
  /\ \/ place[t] = "outside"
     \/ place[t] \in {"entering", "returning"} /\ wants[t] = x
  /\ holder' = [holder EXCEPT ![x] = t]
  /\ Move(t, "outside", NoLock)

Ask(t, x) ==
  /\ place[t] = "outside"
  /\ holder[x] \notin {t, NoThread}
  /\ Move(t, "entering", x)
  /\ UNCHANGED holder

\* Only a thread that asked for the lock may go away without it.
GiveUp(t) ==
  /\ place[t] = "entering"
  /\ Move(t, "outside", NoLock)
  /\ UNCHANGED holder

Release(t, x) ==
  /\ place[t] = "outside"
  /\ holder[x] = t
  /\ holder' = [holder EXCEPT ![x] = NoThread]
  /\ UNCHANGED <<place, wants>>

\* The lock is given up and the wait begun in one step; the wait may be over
\* at once.
Wait(t, x) ==
  /\ place[t] = "outside"
  /\ holder[x] = t
  /\ holder' = [holder EXCEPT ![x] = NoThread]
  /\ \E p \in {"waiting", "returning"} : Move(t, p, x)

\* Some of the waiters are woken, for whatever reason.
WakeUp(S) ==
  /\ \A t \in S : place[t] = "waiting"
  /\ place' = [t \in Thread |-> IF t \in S THEN "returning" ELSE place[t]]
  /\ UNCHANGED <<holder, wants>>

\* A thread dies, and keeps what it holds.
Die(t) ==
  /\ place[t] # "waiting"
  /\ Move(t, "dead", NoLock)
  /\ UNCHANGED holder

Next ==
  \/ \E t \in Thread :
       \/ GiveUp(t) \/ Die(t)
       \/ \E x \in Lock : Acquire(t, x) \/ Ask(t, x) \/ Release(t, x) \/ Wait(t, x)
  \/ \E S \in SUBSET Thread : WakeUp(S)

Spec == Init /\ [][Next]_monitor
==============================================================================
