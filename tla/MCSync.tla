------------------------------- MODULE MCSync -------------------------------
(***************************************************************************)
(* Sync on a small instance: two threads and the idle thread, one object   *)
(* of each kind, the clock and a device.                                   *)
(***************************************************************************)
EXTENDS Sync

CONSTANTS t1

VARIABLE scenario

\* t1 has the best priority, the idle thread is alone at the worst.
TwoLevels == [t \in Thread |-> CASE t = t1 -> 0
                                 [] t = Idle -> MinPriority
                                 [] OTHER -> 1]

ZeroCount == [s \in Semaphores |-> 0]

SyncCalls ==
  [t \in Target |->
     {"wait", "timed_wait", "trywait", "post", "kill", "set_priority",
      "bin_wait", "bin_timed_wait", "bin_trywait", "bin_post",
      "get", "timed_get", "tryget", "put", "timed_put", "tryput",
      "flag_wait", "flag_timed_wait", "flag_poll", "setbits", "maskbits"}]

\* To have the sum of the objects' states and not their product, a behaviour
\* uses the objects of one kind.
Users(queues) == {t \in Thread : waits[t].queue \in queues}

NotUsed(kind) ==
  CASE kind = "sem"  -> count = InitCount /\ Users(Semaphores) = {}
    [] kind = "bin"  -> ~state /\ Users({BinQueue}) = {}
    [] kind = "box"  -> /\ box.count = 0 /\ box.base = 0
                        /\ Users({GetQueue, PutQueue}) = {}
    [] kind = "flag" -> value = {} /\ Users({FlagQueue}) = {}

Kinds == {"sem", "bin", "box", "flag"}

\* The semaphores' waiters have their priorities changed, or are killed as the
\* binary semaphore's are.
Scenario ==
  {[used |-> u, kills |-> u \in {"sem", "bin"}, prios |-> FALSE] : u \in Kinds}
  \cup {[used |-> "sem", kills |-> FALSE, prios |-> TRUE]}

\* The order of DSRs is the subject of other runs.
OneDsrPending == Cardinality({i \in Intr : dsr_count[i] > 0}) <= 1

\* Any of one bit is all of it.
AnyOfSeveral == \A t \in Thread : info[t].any => info[t].pattern = Bit

\* Priorities are changed of one thread at a time; at the idle thread's it
\* stays ready, once woken, while posts go on.
OnePriority ==
  \E t \in Target : \A u \in Thread \ {t} : k.priority[u] = InitPriority[u]

InScenario ==
  /\ OneDsrPending /\ AnyOfSeveral /\ OnePriority
  /\ \A kind \in Kinds : kind # scenario.used => NotUsed(kind)
  /\ ~scenario.prios => k.priority = InitPriority
  /\ ~scenario.kills => \A t \in Thread : ~Gone(t) /\ k.wake_reason[t] # "EXIT"

MCInit == SyncInit /\ scenario \in Scenario

MCNext == SyncNext /\ scenario' = scenario /\ InScenario'

MCSpec == MCInit /\ [][MCNext]_<<vars, objects, waits, scenario>>
==============================================================================
