----------------------------- MODULE MCScheduler -----------------------------
(***************************************************************************)
(* Scheduler on small instances: two or three threads and the idle thread, *)
(* the clock and one device.                                               *)
(***************************************************************************)
EXTENDS Scheduler

CONSTANT t1

\* t1 has the best priority, the idle thread is alone at the worst.
TwoLevels == [t \in Thread |-> CASE t = t1 -> 0
                                 [] t = Idle -> MinPriority
                                 [] OTHER -> 1]

\* All but the idle thread share a priority.
OneLevel == [t \in Thread |-> IF t = Idle THEN MinPriority ELSE 0]

Everyone(names) == [t \in Target |-> names]

\* The calls of each configuration.
ApiCalls == Everyone({"suspend", "resume", "release", "kill", "exit",
                      "delay", "delay_0"})

\* Both threads lock, sleep and wake; t1 kills t2, t2 moves priorities and
\* queues about.
LockCalls ==
  [t \in Target |->
     {"lock", "yield", "timed_counted_sleep", "counted_wake"} \cup
     IF t = t1 THEN {"kill", "cancel_wakeup"}
     ELSE {"counted_sleep", "set_priority", "rotate_queue", "to_queue_head"}]

FairCalls    == Everyone({"lock"})
DelayCalls   == Everyone({"delay_0"})
QuantumCalls == Everyone({"delay"})
==============================================================================
