------------------------------ MODULE MCMutex ------------------------------
(***************************************************************************)
(* Mutex on a small instance: three threads of three priorities and the    *)
(* idle thread, a mutex with inheritance, one with a ceiling, a condition  *)
(* variable, the clock and a device.                                       *)
(***************************************************************************)
EXTENDS Mutex

CONSTANTS t1, t2, m1

VARIABLE scenario

\* t1 before t2 before the others; the idle thread is alone at the worst.
ThreeLevels == [t \in Thread |-> CASE t = t1 -> 0
                                   [] t = t2 -> 1
                                   [] t = Idle -> MinPriority
                                   [] OTHER -> MinPriority - 1]

\* The ceiling is below t1, who locks m2 all the same.
Protocols == [x \in Mutexes |-> IF x = m1 THEN "INHERIT" ELSE "CEILING"]
Ceilings  == [x \in Mutexes |-> 1]

\* What each thread calls, mutex_lock and mutex_unlock apart: the best thread
\* disturbs the others, the worst is the one they wait for.
Roles ==
  [t \in Target |-> {"mutex_lock", "mutex_unlock"} \cup
     CASE t = t1 -> {"kill", "change_priority", "cond_wait"}
       [] t = t2 -> {"cond_timed_wait"}
       [] OTHER  -> {"mutex_trylock", "mutex_release", "cond_signal",
                     "cond_broadcast"}]

\* To have the sum of the cases and not their product, a behaviour nests the
\* two mutexes, or changes a priority, or waits on the condition variable with
\* the first mutex and has a thread killed.
OneMutex == \A x \in Mutexes : x # m1 => Free(x)
NoWaits  == \A t \in Thread : mutex[t] = NoQueue
Killed   == {t \in Thread : Gone(t) \/ k.wake_reason[t] = "EXIT"}

\* The order of DSRs is the subject of other runs.  Without a wait the clock
\* does no more than take turns between threads of one priority.
OneDsrPending == Cardinality({i \in Intr : dsr_count[i] > 0}) <= 1

InScenario ==
  /\ OneDsrPending
  /\ scenario # "waiting" => dsr_count[Clock] = 0
  /\ CASE scenario = "nesting"  -> NoWaits /\ Killed = {} /\ changes = 0
       [] scenario = "changing" -> NoWaits /\ Killed = {} /\ OneMutex
       [] scenario = "waiting"  -> OneMutex /\ changes = 0 /\ Cardinality(Killed) <= 1

MCInit == MutexInit /\ scenario \in {"nesting", "changing", "waiting"}

MCNext == MutexNext /\ scenario' = scenario /\ InScenario'

MCSpec == MCInit /\ [][MCNext]_<<vars, mutexvars, scenario>>
==============================================================================
