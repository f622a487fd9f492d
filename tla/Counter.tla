------------------------------- MODULE Counter -------------------------------
(***************************************************************************)
(* A counter and its alarms (clock.cxx, one unsorted list): ticks, the     *)
(* alarm functions they call, and the calls those functions make in their  *)
(* turn on any alarm of the counter.                                       *)
(*                                                                         *)
(* Everything here runs with the scheduler locked, so a tick, or a call    *)
(* from a thread, is over before the next one starts; but an alarm         *)
(* function may call initialize(), enable() and disable(), and those may   *)
(* call an alarm function at once, inside add_alarm().  calls is the stack *)
(* of the alarm functions being executed.                                  *)
(***************************************************************************)
EXTENDS CList

CONSTANTS
  Alarms,
  Increment,   \* the counter's increment
  Modulus,     \* of cyg_tick_count
  Intervals,   \* the intervals given to initialize()
  MaxDelay,    \* bound: how far ahead the first trigger is
  MaxCount,    \* bound on counter
  MaxCalls,    \* bound on the nesting of alarm functions
  Rearm        \* an alarm that is being added may be armed by its function

ASSUME CounterAssumption ==
  /\ Increment \in Nat \ {0}
  /\ Intervals \subseteq Nat
  /\ MaxDelay \in Nat
  /\ MaxCount \in Nat
  /\ MaxCalls \in Nat
  /\ Rearm \in BOOLEAN
  /\ Modulus \in Nat \ {0}
  /\ MaxCount + MaxDelay < Modulus

VARIABLES
  counter,   \* Cyg_Counter::counter
  alarms,    \* the list and the alarms' members
  ticking,   \* inside tick(): its loop over the list
  calls,     \* the alarm functions being executed
  first      \* history: the trigger last given to initialize()

vars == <<counter, alarms, ticking, calls, first>>

AlarmData ==
  [trigger    : [Alarms -> 0 .. Modulus - 1],
   interval   : [Alarms -> Nat],
   enabled    : [Alarms -> BOOLEAN],
   alarm_list : Seq(Alarms)]

\* The function of the alarm runs, called by tick() or by add_alarm();
\* "requeue" is tick() itself, waiting for the add_alarm() it called.
Frame == [by : {"tick", "add", "requeue"}, alarm : Alarms]

Call(by, a) == [by |-> by, alarm |-> a]

Init ==
  /\ counter = 0
  /\ alarms = [trigger    |-> [a \in Alarms |-> 0],
               interval   |-> [a \in Alarms |-> 0],
               enabled    |-> [a \in Alarms |-> FALSE],
               alarm_list |-> <<>>]
  /\ ticking = FALSE
  /\ calls = <<>>
  /\ first = [a \in Alarms |-> 0]
------------------------------------------------------------------------------
(***************************************************************************)
(* Cyg_Counter::add_alarm and rem_alarm, Cyg_Alarm::synchronize.           *)
(***************************************************************************)
\* Cyg_CList::remove: no effect on an alarm that is not in the list
Unlist(j, a) == [j EXCEPT !.alarm_list = Without(@, a)]

RemAlarm(j, a) == [Unlist(j, a) EXCEPT !.enabled[a] = FALSE]

Expired(j, a) == j.trigger[a] <= counter

\* The first part of add_alarm, the caller's stack being s: the alarm is
\* listed, or its function is called at once.
AddAlarm(j, a, s) ==
  LET e == [j EXCEPT !.enabled[a] = TRUE]
  IN  \/ /\ Expired(j, a)
         /\ alarms' = e
         /\ calls' = Append(s, Call("add", a))
      \/ /\ ~Expired(j, a)
         /\ alarms' = [e EXCEPT !.alarm_list = Append(@, a)]
         /\ calls' = s

\* Mutants of Synchronize: one interval from now; the number of intervals
\* that have passed is not divided out, and the sum not truncated.
SynchronizeUndivided(j, a) ==
  LET i == j.interval[a]
      d == counter + i - j.trigger[a]
  IN  IF i # 0 /\ d > i THEN [j EXCEPT !.trigger[a] = @ + i * (d - 1)] ELSE j

SynchronizeFromNow(j, a) ==
  IF j.interval[a] # 0 /\ Expired(j, a)
  THEN [j EXCEPT !.trigger[a] = counter + j.interval[a]]
  ELSE j

\* The difference is unsigned: a trigger more than an interval ahead makes
\* it wrap.
Synchronize(j, a) ==
  LET i == j.interval[a]
      d == (counter + i - j.trigger[a]) % Modulus
  IN  IF i # 0 /\ d > i
      THEN [j EXCEPT !.trigger[a] = (@ + i * ((d - 1) \div i)) % Modulus]
      ELSE j

Retrigger(j, a) ==
  [j EXCEPT !.trigger[a] = (@ + j.interval[a]) % Modulus]
------------------------------------------------------------------------------
(***************************************************************************)
(* Cyg_Counter::tick.                                                      *)
(***************************************************************************)
Tick ==
  /\ calls = <<>>
  /\ ~ticking
  /\ counter + Increment <= MaxCount
  /\ counter' = counter + Increment
  /\ ticking' = TRUE
  /\ UNCHANGED <<alarms, calls, first>>

Due == {n \in DOMAIN alarms.alarm_list : Expired(alarms, alarms.alarm_list[n])}

\* Scanning the list from its head: the first alarm that is due.
FirstDue ==
  alarms.alarm_list[CHOOSE n \in Due : \A m \in Due : n <= m]

\* It is removed and, if it repeats, added again; its function is called.
CallOnce ==
  LET a == FirstDue
  IN  /\ calls = <<>>
      /\ ticking
      /\ Due # {}
      /\ alarms.interval[a] = 0
      /\ alarms' = RemAlarm(alarms, a)
      /\ calls' = <<Call("tick", a)>>
      /\ UNCHANGED <<counter, ticking, first>>

CallRepeating ==
  LET a == FirstDue
  IN  /\ calls = <<>>
      /\ ticking
      /\ Due # {}
      /\ alarms.interval[a] # 0
      /\ AddAlarm(Retrigger(Unlist(alarms, a), a), a, <<Call("requeue", a)>>)
      /\ UNCHANGED <<counter, ticking, first>>

Requeued ==
  /\ calls # <<>>
  /\ Last(calls).by = "requeue"
  /\ calls' = Append(Front(calls), Call("tick", Last(calls).alarm))
  /\ UNCHANGED <<counter, alarms, ticking, first>>

\* Mutant of TickDone: after one alarm the list is not scanned again.
TickDoneAfterOne ==
  /\ calls = <<>>
  /\ ticking
  /\ ticking' = FALSE
  /\ UNCHANGED <<counter, alarms, calls, first>>

TickDone ==
  /\ calls = <<>>
  /\ ticking
  /\ Due = {}
  /\ ticking' = FALSE
  /\ UNCHANGED <<counter, alarms, calls, first>>
------------------------------------------------------------------------------
(***************************************************************************)
(* The return of an alarm function.                                        *)
(***************************************************************************)
\* ... to tick(), which scans the list again
ReturnToTick ==
  /\ calls # <<>>
  /\ Last(calls).by = "tick"
  /\ calls' = Front(calls)
  /\ UNCHANGED <<counter, alarms, ticking, first>>

\* Mutant of ReturnToAdd: no look at whether the function disabled the alarm.
ReturnToAddRegardless ==
  LET a == Last(calls).alarm
      j == Synchronize(Retrigger(alarms, a), a)
  IN  /\ calls # <<>>
      /\ Last(calls).by = "add"
      /\ calls' = Front(calls)
      /\ alarms' = IF alarms.interval[a] # 0
                   THEN [j EXCEPT !.alarm_list = Append(@, a)]
                   ELSE [alarms EXCEPT !.enabled[a] = FALSE]
      /\ UNCHANGED <<counter, ticking, first>>

\* ... to add_alarm(): the rest of it
ReturnToAdd ==
  LET a == Last(calls).alarm
      j == Synchronize(Retrigger(alarms, a), a)
  IN  /\ calls # <<>>
      /\ Last(calls).by = "add"
      /\ calls' = Front(calls)
      /\ alarms' = IF alarms.interval[a] # 0 /\ alarms.enabled[a]
                   THEN [j EXCEPT !.alarm_list = Append(@, a)]
                   ELSE [alarms EXCEPT !.enabled[a] = FALSE]
      /\ UNCHANGED <<counter, ticking, first>>
------------------------------------------------------------------------------
(***************************************************************************)
(* Cyg_Alarm's methods, called by a thread or by an alarm function.        *)
(***************************************************************************)
MayCall ==
  IF calls = <<>> THEN ~ticking
  ELSE Last(calls).by # "requeue" /\ Len(calls) < MaxCalls

BeingAdded(a) == \E n \in DOMAIN calls : calls[n] = Call("add", a)

MayArm(a) == MayCall /\ (Rearm \/ ~BeingAdded(a))

Initialize(a, t, i) ==
  LET j == IF alarms.enabled[a] THEN RemAlarm(alarms, a) ELSE alarms
  IN  /\ MayArm(a)
      /\ AddAlarm([j EXCEPT !.trigger[a] = t, !.interval[a] = i], a, calls)
      /\ first' = [first EXCEPT ![a] = t]
      /\ UNCHANGED <<counter, ticking>>

Enable(a) ==
  /\ MayArm(a)
  /\ ~alarms.enabled[a]
  /\ AddAlarm(Synchronize(alarms, a), a, calls)
  /\ UNCHANGED <<counter, ticking, first>>

Disable(a) ==
  /\ MayCall
  /\ alarms.enabled[a]
  /\ alarms' = RemAlarm(alarms, a)
  /\ UNCHANGED <<counter, ticking, calls, first>>
------------------------------------------------------------------------------
Next ==
  \/ Tick \/ CallOnce \/ CallRepeating \/ Requeued \/ TickDone
  \/ ReturnToTick \/ ReturnToAdd
  \/ \E a \in Alarms :
       \/ Enable(a) \/ Disable(a)
       \/ \E t \in 0 .. counter + MaxDelay, i \in Intervals : Initialize(a, t, i)

Spec == Init /\ [][Next]_vars
------------------------------------------------------------------------------
(***************************************************************************)
(* Safety.                                                                 *)
(***************************************************************************)
\* Every variable keeps its type; tick counts keep their width.
CounterTypeOK ==
  /\ counter \in 0 .. MaxCount
  /\ alarms \in AlarmData
  /\ ticking \in BOOLEAN
  /\ calls \in Seq(Frame)
  /\ first \in [Alarms -> Nat]

\* The list holds the enabled alarms, each once, whatever alarm functions do
\* to it while tick() or add_alarm() is at work on it; an alarm is enabled
\* and not listed only while its function runs inside add_alarm().
ListedExact ==
  /\ IsInjective(alarms.alarm_list)
  /\ ToSet(alarms.alarm_list) =
       {a \in Alarms : alarms.enabled[a] /\ ~BeingAdded(a)}

\* A tick leaves no alarm behind: when it is over every alarm of the list is
\* due now at the earliest, however its functions changed the list.
NothingOverdue ==
  ~ticking => \A a \in ToSet(alarms.alarm_list) : alarms.trigger[a] >= counter

\* A repeating alarm keeps its phase, also through enable() and calls that
\* came late: its trigger is a whole number of intervals from the one that
\* initialize() set, and the next such time.
InPhase(a) ==
  alarms.interval[a] # 0 =>
    (alarms.trigger[a] - first[a]) % alarms.interval[a] = 0

OnSchedule ==
  ~ticking =>
    \A a \in ToSet(alarms.alarm_list) :
      /\ InPhase(a)
      /\ alarms.interval[a] # 0 =>
           alarms.trigger[a] <= counter + alarms.interval[a]

\* "Alarms will continue at the same intervals as if they had never been
\* disabled" (clock.cxx:738), whenever the alarm is first due.
PhaseKept == \A a \in Alarms : InPhase(a)

\* "Set this now to allow an immediate handler call to manipulate this alarm
\* sensibly" (clock.cxx:289): when all calls are over the listed alarms are
\* the enabled ones, each listed once.
ManipulatedSensibly ==
  calls = <<>> =>
    /\ IsInjective(alarms.alarm_list)
    /\ ToSet(alarms.alarm_list) = {a \in Alarms : alarms.enabled[a]}
==============================================================================
