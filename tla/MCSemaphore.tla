---------------------------- MODULE MCSemaphore ----------------------------
(***************************************************************************)
(* Semaphore on a small instance: two threads, the idle thread, one        *)
(* semaphore, the clock and a device that posts.  Each configuration       *)
(* exhibits one fault; module MCSync checks what holds.                    *)
(***************************************************************************)
EXTENDS Semaphore

CONSTANT t1

\* t1 has the best priority, the idle thread is alone at the worst.
TwoLevels == [t \in Thread |-> CASE t = t1 -> 0
                                 [] t = Idle -> MinPriority
                                 [] OTHER -> 1]

ZeroCount == [s \in Semaphores |-> 0]

\* The calls of each configuration.
Everyone(names) == [t \in Target |-> names]

TimeoutCalls == Everyone({"timed_wait", "trywait", "delay"})
KillCalls    == Everyone({"timed_wait", "kill", "delay"})
==============================================================================
