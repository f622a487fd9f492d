---------------------------- MODULE CounterProofs ----------------------------
(***************************************************************************)
(* The invariants of a counter and its alarms.                             *)
(*                                                                         *)
(* A counter counts with the width of its type: the proofs assume that no  *)
(* trigger reaches the Modulus.  Where it matters they also assume that an *)
(* alarm is not first due later than an interval from now, and that its    *)
(* own function does not arm an alarm that is being added.                 *)
(***************************************************************************)
EXTENDS Counter, CListProofs

\* Neither a count nor a trigger overflows.
NoWrap == \A i \in Intervals : MaxCount + i < Modulus

\* The first trigger is at most one interval away.
Near == \A i \in Intervals : i # 0 => MaxDelay <= i
------------------------------------------------------------------------------
(***************************************************************************)
(* The stack of alarm functions.                                           *)
(***************************************************************************)
Added(s) == {a \in Alarms : \E n \in DOMAIN s : s[n] = Call("add", a)}

\* No alarm is being added twice.
AddedOnce(s) ==
  \A m, n \in DOMAIN s : s[m] = s[n] /\ s[m].by = "add" => m = n

LEMMA BeingAddedIsAdded ==
  \A a \in Alarms : BeingAdded(a) <=> a \in Added(calls)
  BY DEF BeingAdded, Added

LEMMA CallType == \A a \in Alarms, by \in {"tick", "add", "requeue"} :
                    /\ Call(by, a) \in Frame
                    /\ Call(by, a).by = by /\ Call(by, a).alarm = a
  BY DEF Call, Frame

LEMMA FrameIsCall == \A f \in Frame : f = Call(f.by, f.alarm)
  BY DEF Call, Frame

\* A function is called.
LEMMA Push ==
  ASSUME NEW s \in Seq(Frame), AddedOnce(s), NEW f \in Frame,
         f.by = "add" => f.alarm \notin Added(s)
  PROVE  /\ Append(s, f) \in Seq(Frame)
         /\ AddedOnce(Append(s, f))
         /\ Added(Append(s, f)) =
              IF f.by = "add" THEN Added(s) \cup {f.alarm} ELSE Added(s)
<1> DEFINE r == Append(s, f)
<1>1. /\ r \in Seq(Frame) /\ Len(r) = Len(s) + 1 /\ r[Len(s) + 1] = f
      /\ \A i \in 1 .. Len(s) : r[i] = s[i]
  BY AppendProperties
<1>2. f = Call(f.by, f.alarm) /\ f.alarm \in Alarms
  BY FrameIsCall DEF Frame
<1> HIDE DEF r
<1>3. \A n \in 1 .. Len(s) : s[n] \in Frame
  OBVIOUS
<1>4. \A n \in 1 .. Len(s) : s[n] = f => f.by # "add"
  BY <1>2 DEF Added
<1>5. AddedOnce(r)
  <2> SUFFICES ASSUME NEW m \in DOMAIN r, NEW n \in DOMAIN r, r[m] = r[n],
                      r[m].by = "add"
               PROVE  m = n
    BY DEF AddedOnce
  <2>1. m \in 1 .. Len(s) + 1 /\ n \in 1 .. Len(s) + 1
    BY <1>1
  <2>2. CASE m \in 1 .. Len(s) /\ n \in 1 .. Len(s)
    BY <1>1, <2>2 DEF AddedOnce
  <2>3. CASE m = Len(s) + 1 \/ n = Len(s) + 1
    BY <1>1, <1>4, <2>1, <2>3
  <2> QED
    BY <2>1, <2>2, <2>3
<1>6. ASSUME NEW a \in Alarms
      PROVE  a \in Added(r) <=> a \in Added(s) \/ f = Call("add", a)
  <2>1. ASSUME NEW n \in DOMAIN r, r[n] = Call("add", a)
        PROVE  a \in Added(s) \/ f = Call("add", a)
    BY <1>1, <2>1 DEF Added
  <2>2. ASSUME NEW n \in DOMAIN s, s[n] = Call("add", a) PROVE a \in Added(r)
    <3>1. n \in DOMAIN r /\ r[n] = s[n]
      BY <1>1
    <3> QED
      BY <2>2, <3>1 DEF Added
  <2>3. ASSUME f = Call("add", a) PROVE a \in Added(r)
    <3>1. Len(s) + 1 \in DOMAIN r
      BY <1>1
    <3> QED
      BY <1>1, <2>3, <3>1 DEF Added
  <2> QED
    BY <2>1, <2>2, <2>3 DEF Added
<1>7. \A a \in Alarms : f = Call("add", a) <=> f.by = "add" /\ f.alarm = a
  BY <1>2, CallType
<1>8. Added(r) = IF f.by = "add" THEN Added(s) \cup {f.alarm} ELSE Added(s)
  <2>1. Added(r) \subseteq Alarms /\ Added(s) \subseteq Alarms
    BY DEF Added
  <2> QED
    BY <1>2, <1>6, <1>7, <2>1
<1> QED
  BY <1>1, <1>5, <1>8 DEF r

\* A function returns.
LEMMA Pop ==
  ASSUME NEW s \in Seq(Frame), AddedOnce(s), s # <<>>
  PROVE  /\ Front(s) \in Seq(Frame)
         /\ Last(s) \in Frame
         /\ AddedOnce(Front(s))
         /\ Added(Front(s)) =
              IF Last(s).by = "add" THEN Added(s) \ {Last(s).alarm} ELSE Added(s)
         /\ Last(s).by = "add" => Last(s).alarm \in Added(s)
<1> DEFINE r == Front(s)
           f == Last(s)
<1>1. /\ r \in Seq(Frame) /\ Len(r) = Len(s) - 1
      /\ \A i \in 1 .. Len(s) - 1 : r[i] = s[i]
  <2>1. 1 \in Int /\ Len(s) - 1 \in 0 .. Len(s)
    BY EmptySeq
  <2>2. r = SubSeq(s, 1, Len(s) - 1)
    BY DEF Front
  <2> DEFINE m == Len(s) - 1
  <2>3. m \in Int /\ m = Len(s) - 1 /\ \A i \in 1 .. m : s[i] \in Frame
    BY <2>1
  <2> HIDE DEF m
  <2>4. /\ SubSeq(s, 1, m) \in Seq(Frame)
        /\ Len(SubSeq(s, 1, m)) = IF 1 <= m THEN m - 1 + 1 ELSE 0
        /\ \A i \in 1 .. m - 1 + 1 : SubSeq(s, 1, m)[i] = s[1 + i - 1]
    BY <2>3, SubSeqProperties
  <2>5. r = SubSeq(s, 1, m)
    BY <2>2 DEF m
  <2> QED
    BY <2>1, <2>3, <2>4, <2>5
<1>2. Len(s) \in DOMAIN s /\ s[Len(s)] = f /\ f \in Frame
  BY DEF Last
<1>3. f = Call(f.by, f.alarm) /\ f.alarm \in Alarms
  BY <1>2, FrameIsCall DEF Frame
<1> HIDE DEF r, f
<1>4. AddedOnce(r)
  BY <1>1 DEF AddedOnce
<1>5. f.by = "add" => f.alarm \in Added(s)
  BY <1>2, <1>3 DEF Added
<1>6. \A a \in Alarms : f = Call("add", a) <=> f.by = "add" /\ f.alarm = a
  BY <1>3, CallType
<1>7. ASSUME NEW a \in Alarms
      PROVE  a \in Added(r) <=> a \in Added(s) /\ ~(f.by = "add" /\ f.alarm = a)
  <2>1. ASSUME NEW n \in DOMAIN r, r[n] = Call("add", a)
        PROVE  a \in Added(s) /\ ~(f.by = "add" /\ f.alarm = a)
    <3>1. n \in DOMAIN s /\ s[n] = Call("add", a) /\ n # Len(s)
      BY <1>1, <2>1
    <3>2. f # Call("add", a)
      <4>1. s[n].by = "add"
        BY <3>1, CallType
      <4> QED
        BY <1>2, <3>1, <4>1 DEF AddedOnce
    <3> QED
      BY <1>6, <3>1, <3>2 DEF Added
  <2>2. ASSUME NEW n \in DOMAIN s, s[n] = Call("add", a), f # Call("add", a)
        PROVE  a \in Added(r)
    <3>1. n \in DOMAIN r /\ r[n] = s[n]
      BY <1>1, <1>2, <2>2
    <3> QED
      BY <2>2, <3>1 DEF Added
  <2> QED
    BY <1>6, <2>1, <2>2 DEF Added
<1>8. Added(r) = IF f.by = "add" THEN Added(s) \ {f.alarm} ELSE Added(s)
  <2>1. Added(r) \subseteq Alarms /\ Added(s) \subseteq Alarms
    BY DEF Added
  <2> QED
    BY <1>3, <1>7, <2>1
<1> QED
  BY <1>1, <1>2, <1>4, <1>5, <1>8 DEF r, f
------------------------------------------------------------------------------
(***************************************************************************)
(* What the data of an operation must be, the stack being s and the count  *)
(* c: the list is that of the enabled alarms.                              *)
(***************************************************************************)
Listed(j, s) ==
  /\ IsInjective(j.alarm_list)
  /\ ToSet(j.alarm_list) = {a \in Alarms : j.enabled[a] /\ a \notin Added(s)}

\* The same while alarm a is off the list, its flag not yet cleared or set.
ListedBut(j, s, a) ==
  /\ IsInjective(j.alarm_list)
  /\ ToSet(j.alarm_list) =
       {b \in Alarms : j.enabled[b] /\ b \notin Added(s) /\ b # a}

LEMMA UnlistProps ==
  ASSUME NEW j \in AlarmData, NEW s, Listed(j, s), NEW a \in Alarms
  PROVE  /\ Unlist(j, a) \in AlarmData
         /\ ListedBut(Unlist(j, a), s, a)
         /\ Unlist(j, a) = [j EXCEPT !.alarm_list = Unlist(j, a).alarm_list]
         /\ RemAlarm(j, a) \in AlarmData
         /\ Listed(RemAlarm(j, a), s)
         /\ RemAlarm(j, a) = [j EXCEPT !.alarm_list = Unlist(j, a).alarm_list,
                                       !.enabled[a] = FALSE]
         /\ ToSet(Unlist(j, a).alarm_list) \subseteq ToSet(j.alarm_list)
<1> DEFINE l == Without(j.alarm_list, a)
           d == [j EXCEPT !.alarm_list = l]
           e == [j EXCEPT !.alarm_list = l, !.enabled[a] = FALSE]
<1>1. /\ l \in Seq(Alarms) /\ IsInjective(l)
      /\ ToSet(l) = ToSet(j.alarm_list) \ {a}
  BY WithoutProps DEF AlarmData, Listed
<1>2. Unlist(j, a) = d /\ RemAlarm(j, a) = [d EXCEPT !.enabled[a] = FALSE]
  BY DEF Unlist, RemAlarm
<1> HIDE DEF l
<1>3. d \in AlarmData /\ d.alarm_list = l /\ d.enabled = j.enabled
  BY <1>1 DEF AlarmData
<1>4. /\ e \in AlarmData /\ e.alarm_list = l
      /\ e.enabled = [j.enabled EXCEPT ![a] = FALSE]
      /\ [d EXCEPT !.enabled[a] = FALSE] = e
  BY <1>1 DEF AlarmData
<1>5. ListedBut(d, s, a)
  BY <1>1, <1>3 DEF ListedBut, Listed
<1>6. Listed(e, s)
  <2>1. j.enabled \in [Alarms -> BOOLEAN]
    BY DEF AlarmData
  <2>2. \A b \in Alarms : e.enabled[b] = (IF b = a THEN FALSE ELSE j.enabled[b])
    BY <1>4, <2>1
  <2> HIDE DEF e
  <2>3. \A b \in Alarms : b \in ToSet(l) <=> e.enabled[b] /\ b \notin Added(s)
    BY <1>1, <2>2 DEF Listed
  <2>4. ToSet(l) \subseteq Alarms
    BY <1>1 DEF ToSet
  <2> QED
    BY <1>1, <1>4, <2>3, <2>4 DEF Listed
<1> HIDE DEF d, e
<1> QED
  BY <1>1, <1>2, <1>3, <1>4, <1>5, <1>6 DEF d, e

\* Listing an alarm that is off the list.
LEMMA RelistProps ==
  ASSUME NEW j \in AlarmData, NEW s, NEW a \in Alarms, ListedBut(j, s, a),
         a \notin Added(s), j.enabled[a]
  PROVE  /\ [j EXCEPT !.alarm_list = Append(@, a)] \in AlarmData
         /\ Listed([j EXCEPT !.alarm_list = Append(@, a)], s)
         /\ ToSet(Append(j.alarm_list, a)) = ToSet(j.alarm_list) \cup {a}
<1> DEFINE l == Append(j.alarm_list, a)
<1>1. a \notin ToSet(j.alarm_list)
  BY DEF ListedBut
<1>2. /\ l \in Seq(Alarms) /\ IsInjective(l)
      /\ ToSet(l) = ToSet(j.alarm_list) \cup {a}
  BY <1>1, AppendProps DEF AlarmData, ListedBut
<1> HIDE DEF l
<1>3. /\ [j EXCEPT !.alarm_list = l] \in AlarmData
      /\ [j EXCEPT !.alarm_list = l].alarm_list = l
      /\ [j EXCEPT !.alarm_list = l].enabled = j.enabled
  BY <1>2 DEF AlarmData
<1> QED
  BY <1>2, <1>3 DEF l, Listed, ListedBut

\* The first part of add_alarm.
LEMMA AddAlarmProps ==
  ASSUME NEW j \in AlarmData, NEW a \in Alarms, NEW s \in Seq(Frame),
         ListedBut(j, s, a), AddedOnce(s), a \notin Added(s),
         counter \in Nat, AddAlarm(j, a, s)
  PROVE  /\ alarms' \in AlarmData /\ calls' \in Seq(Frame)
         /\ Listed(alarms', calls') /\ AddedOnce(calls')
         /\ alarms'.trigger = j.trigger /\ alarms'.interval = j.interval
         /\ \A b \in ToSet(alarms'.alarm_list) :
              b \in ToSet(j.alarm_list) \/ (b = a /\ j.trigger[a] > counter)
         /\ \A b \in Added(calls') :
              b \in Added(s) \/ (b = a /\ j.trigger[a] <= counter)
<1> DEFINE e == [j EXCEPT !.enabled[a] = TRUE]
<1>0. j.enabled \in [Alarms -> BOOLEAN] /\ j.trigger[a] \in Nat
  BY DEF AlarmData
<1>1. /\ e \in AlarmData /\ e.enabled = [j.enabled EXCEPT ![a] = TRUE]
      /\ e.alarm_list = j.alarm_list
      /\ e.trigger = j.trigger /\ e.interval = j.interval
  BY DEF AlarmData
<1>2. /\ e.enabled[a]
      /\ \A b \in Alarms : b # a => e.enabled[b] = j.enabled[b]
  BY <1>0, <1>1
<1>3. \/ /\ j.trigger[a] <= counter
         /\ alarms' = e /\ calls' = Append(s, Call("add", a))
      \/ /\ j.trigger[a] > counter
         /\ alarms' = [e EXCEPT !.alarm_list = Append(@, a)] /\ calls' = s
  BY <1>0 DEF AddAlarm, Expired
<1> HIDE DEF e
<1>4. CASE /\ j.trigger[a] <= counter
           /\ alarms' = e /\ calls' = Append(s, Call("add", a))
  <2>1. /\ calls' \in Seq(Frame) /\ AddedOnce(calls')
        /\ Added(calls') = Added(s) \cup {a}
    BY <1>4, CallType, Push
  <2>2. Listed(alarms', calls')
    BY <1>1, <1>2, <1>4, <2>1 DEF Listed, ListedBut
  <2> QED
    BY <1>1, <1>4, <2>1, <2>2
<1>5. CASE /\ j.trigger[a] > counter
           /\ alarms' = [e EXCEPT !.alarm_list = Append(@, a)] /\ calls' = s
  <2>1. ListedBut(e, s, a)
    BY <1>1, <1>2 DEF ListedBut
  <2>2. /\ alarms' \in AlarmData /\ Listed(alarms', s)
        /\ ToSet(Append(e.alarm_list, a)) = ToSet(e.alarm_list) \cup {a}
    BY <1>1, <1>2, <1>5, <2>1, RelistProps
  <2>3. /\ alarms'.alarm_list = Append(e.alarm_list, a)
        /\ alarms'.trigger = j.trigger /\ alarms'.interval = j.interval
    BY <1>1, <1>5 DEF AlarmData
  <2> QED
    BY <1>1, <1>5, <2>2, <2>3
<1> QED
  BY <1>3, <1>4, <1>5
------------------------------------------------------------------------------
(***************************************************************************)
(* Triggers.                                                               *)
(***************************************************************************)
\* A trigger is a whole number of intervals after the first one, and not
\* more than one interval after the count.
OnPhase(j, f, c, a) ==
  j.interval[a] # 0 =>
    /\ j.trigger[a] <= c + j.interval[a]
    /\ \E n \in Nat : j.trigger[a] = f[a] + n * j.interval[a]

LEMMA WholeIntervals ==
  ASSUME NEW n \in Nat, NEW i \in Nat \ {0}
  PROVE  (n * i) % i = 0
  OBVIOUS

\* One interval later: no overflow, the alarm being due.
LEMMA RetriggerProps ==
  ASSUME NEW j \in AlarmData, NEW a \in Alarms, counter \in Nat,
         counter + j.interval[a] < Modulus, Modulus \in Nat,
         j.trigger[a] <= counter
  PROVE  Retrigger(j, a) = [j EXCEPT !.trigger[a] = @ + j.interval[a]]
<1> DEFINE t == j.trigger[a]
           i == j.interval[a]
<1>1. t \in Nat /\ i \in Nat
  BY DEF AlarmData
<1>2. t + i \in 0 .. Modulus - 1
  BY <1>1
<1> HIDE DEF t, i
<1>3. (t + i) % Modulus = t + i
  BY <1>1, <1>2
<1> QED
  BY <1>3 DEF Retrigger, t, i

LEMMA Quotient ==
  ASSUME NEW x \in Nat, NEW i \in Nat \ {0}
  PROVE  /\ x \div i \in Nat /\ i * (x \div i) \in Nat
         /\ i * (x \div i) <= x /\ i * (x \div i) >= x + 1 - i
  OBVIOUS

\* synchronize() of an alarm due at most an interval from now: it becomes
\* due next at a whole number of intervals, not before the count.
LEMMA SynchronizeProps ==
  ASSUME NEW j \in AlarmData, NEW a \in Alarms, counter \in Nat,
         Modulus \in Nat, counter + j.interval[a] < Modulus,
         j.interval[a] # 0 => j.trigger[a] <= counter + j.interval[a]
  PROVE  \E n \in Nat :
           /\ Synchronize(j, a) = [j EXCEPT !.trigger[a] = @ + n * j.interval[a]]
           /\ j.interval[a] # 0 =>
                /\ j.trigger[a] + n * j.interval[a] >= counter
                /\ j.trigger[a] + n * j.interval[a] <= counter + j.interval[a]
<1> DEFINE t == j.trigger[a]
           i == j.interval[a]
           d == (counter + i - t) % Modulus
           m == (d - 1) \div i
<1>1. t \in Nat /\ i \in Nat /\ t < Modulus
  BY DEF AlarmData
<1>2. j.trigger \in [Alarms -> Nat] /\ [j EXCEPT !.trigger[a] = @ + 0 * i] = j
  <2>1. j.trigger[a] + 0 * i = j.trigger[a]
    BY <1>1
  <2>2. [j EXCEPT !.trigger[a] = @] = j
    BY DEF AlarmData
  <2> QED
    BY <2>1, <2>2 DEF AlarmData
<1>3. Synchronize(j, a) =
        IF i # 0 /\ d > i
        THEN [j EXCEPT !.trigger[a] = (t + i * m) % Modulus] ELSE j
  BY Zenon DEF Synchronize
<1>4. CASE i = 0
  BY <1>1, <1>2, <1>3, <1>4
<1>5. ASSUME i # 0 PROVE d = counter + i - t
  BY <1>1, <1>5
<1> HIDE DEF d, m
<1>6. CASE i # 0 /\ ~(d > i)
  <2>1. 0 * i = 0 /\ t >= counter /\ t <= counter + i
    BY <1>1, <1>5, <1>6
  <2>2. Synchronize(j, a) = j
    BY <1>3, <1>6
  <2> QED
    BY <1>1, <1>2, <1>6, <2>1, <2>2
<1>7. CASE i # 0 /\ d > i
  <2> DEFINE x == i * m
  <2>1. d - 1 \in Nat /\ i \in Nat \ {0} /\ d = counter + i - t
    BY <1>1, <1>5, <1>7
  <2>2. m \in Nat /\ x \in Nat /\ x <= d - 1 /\ x >= d - i
    <3>1. /\ m \in Nat /\ i * m \in Nat
          /\ i * m <= d - 1 /\ i * m >= (d - 1) + 1 - i
      <4> HIDE DEF i
      <4> QED
        BY <2>1, Quotient DEF m
    <3> HIDE DEF i
    <3> QED
      BY <2>1, <3>1
  <2>3. m * i = x
    <3> HIDE DEF i
    <3> QED
      BY <1>1, <2>2
  <2> HIDE DEF x
  <2>4. /\ t + x >= counter /\ t + x <= counter + i
        /\ t + x \in 0 .. Modulus - 1
    BY <1>1, <2>1, <2>2
  <2>5. (t + x) % Modulus = t + x
    BY <2>4
  <2>6. Synchronize(j, a) = [j EXCEPT !.trigger[a] = (t + x) % Modulus]
    BY Zenon, <1>3, <1>7 DEF x
  <2>7. Synchronize(j, a) = [j EXCEPT !.trigger[a] = @ + m * i]
    BY Zenon, <2>3, <2>5, <2>6
  <2>8. j.trigger[a] + m * j.interval[a] = t + x
    BY Zenon, <2>3
  <2> QED
    BY <1>7, <2>2, <2>4, <2>7, <2>8
<1> QED
  BY <1>4, <1>6, <1>7
------------------------------------------------------------------------------
(***************************************************************************)
(* Types.                                                                  *)
(***************************************************************************)
LEMMA ModType ==
  ASSUME NEW x \in Int
  PROVE  x % Modulus \in 0 .. Modulus - 1
  BY CounterAssumption

LEMMA UnlistType ==
  ASSUME NEW j \in AlarmData, NEW a \in Alarms
  PROVE  /\ Unlist(j, a) \in AlarmData
         /\ RemAlarm(j, a) \in AlarmData
         /\ Unlist(j, a).interval = j.interval
         /\ RemAlarm(j, a).interval = j.interval
         /\ Unlist(j, a).trigger = j.trigger
         /\ RemAlarm(j, a).trigger = j.trigger
<1>1. Without(j.alarm_list, a) \in Seq(Alarms)
  BY WithoutType DEF AlarmData
<1> QED
  BY <1>1 DEF Unlist, RemAlarm, AlarmData

LEMMA TriggerType ==
  ASSUME NEW j \in AlarmData, NEW a \in Alarms, counter \in Nat
  PROVE  /\ Retrigger(j, a) \in AlarmData
         /\ Retrigger(j, a).interval = j.interval
         /\ Retrigger(j, a).enabled = j.enabled
         /\ Retrigger(j, a).alarm_list = j.alarm_list
         /\ Synchronize(j, a) \in AlarmData
         /\ Synchronize(j, a).interval = j.interval
         /\ Synchronize(j, a).enabled = j.enabled
         /\ Synchronize(j, a).alarm_list = j.alarm_list
         /\ \A b \in Alarms \ {a} :
              /\ Retrigger(j, a).trigger[b] = j.trigger[b]
              /\ Synchronize(j, a).trigger[b] = j.trigger[b]
<1> DEFINE t == j.trigger[a]
           i == j.interval[a]
           d == (counter + i - t) % Modulus
           m == (d - 1) \div i
<1>1. j.trigger \in [Alarms -> 0 .. Modulus - 1] /\ t \in Nat /\ i \in Nat
  BY CounterAssumption DEF AlarmData
<1>2. ASSUME NEW x \in 0 .. Modulus - 1
      PROVE  LET e == [j EXCEPT !.trigger[a] = x]
             IN  /\ e \in AlarmData
                 /\ e.interval = j.interval /\ e.enabled = j.enabled
                 /\ e.alarm_list = j.alarm_list
                 /\ \A b \in Alarms \ {a} : e.trigger[b] = j.trigger[b]
  BY <1>1 DEF AlarmData
<1>4. (t + i) % Modulus \in 0 .. Modulus - 1
  BY <1>1, ModType
<1>5. Synchronize(j, a) =
        IF i # 0 /\ d > i
        THEN [j EXCEPT !.trigger[a] = (t + i * m) % Modulus] ELSE j
  BY Zenon DEF Synchronize
<1>6. d \in Int
  <2>1. counter + i - t \in Int
    BY <1>1
  <2> HIDE DEF t, i
  <2> QED
    BY <2>1, ModType, CounterAssumption
<1>7. i # 0 /\ d > i => (t + i * m) % Modulus \in 0 .. Modulus - 1
  <2> SUFFICES ASSUME i # 0, d > i PROVE t + i * m \in Int
    BY ModType
  <2>1. d - 1 \in Nat /\ i \in Nat \ {0}
    BY <1>1, <1>6
  <2> HIDE DEF d, i, t
  <2>2. i * m \in Nat
    BY <2>1, Quotient
  <2> HIDE DEF m
  <2> QED
    BY <1>1, <2>2
<1> HIDE DEF t, i, d, m
<1>8. Retrigger(j, a) = [j EXCEPT !.trigger[a] = (t + i) % Modulus]
  BY DEF Retrigger, t, i
<1> QED
  BY <1>2, <1>4, <1>5, <1>7, <1>8

LEMMA AddAlarmType ==
  ASSUME NEW j \in AlarmData, NEW a \in Alarms, NEW s \in Seq(Frame),
         AddAlarm(j, a, s)
  PROVE  /\ alarms' \in AlarmData /\ calls' \in Seq(Frame)
         /\ alarms'.trigger = j.trigger /\ alarms'.interval = j.interval
<1> DEFINE e == [j EXCEPT !.enabled[a] = TRUE]
<1>1. /\ e \in AlarmData /\ Append(e.alarm_list, a) \in Seq(Alarms)
      /\ e.trigger = j.trigger /\ e.interval = j.interval
  BY AppendProperties DEF AlarmData
<1>2. Append(s, Call("add", a)) \in Seq(Frame)
  BY CallType, AppendProperties
<1>3. \/ alarms' = e /\ calls' = Append(s, Call("add", a))
      \/ alarms' = [e EXCEPT !.alarm_list = Append(@, a)] /\ calls' = s
  BY DEF AddAlarm
<1> HIDE DEF e
<1> QED
  BY <1>1, <1>2, <1>3 DEF AlarmData

\* The data initialize() and tick() add an alarm with.
InitialAlarm(a, t, i) ==
  [(IF alarms.enabled[a] THEN RemAlarm(alarms, a) ELSE alarms)
     EXCEPT !.trigger[a] = t, !.interval[a] = i]

RepeatedAlarm(a) == Retrigger(Unlist(alarms, a), a)

TypeInv ==
  /\ CounterTypeOK
  /\ \A a \in Alarms : alarms.interval[a] \in Intervals \cup {0}

LEMMA InitialAlarmProps ==
  ASSUME TypeInv, NEW a \in Alarms, NEW t \in 0 .. counter + MaxDelay,
         NEW i \in Intervals, NEW j, j = InitialAlarm(a, t, i)
  PROVE  /\ j \in AlarmData
         /\ \A b \in Alarms :
              /\ j.trigger[b] = (IF b = a THEN t ELSE alarms.trigger[b])
              /\ j.interval[b] = (IF b = a THEN i ELSE alarms.interval[b])
         /\ j.alarm_list = IF alarms.enabled[a]
                           THEN RemAlarm(alarms, a).alarm_list
                           ELSE alarms.alarm_list
         /\ j.enabled = IF alarms.enabled[a]
                        THEN RemAlarm(alarms, a).enabled
                        ELSE alarms.enabled
<1> DEFINE d == IF alarms.enabled[a] THEN RemAlarm(alarms, a) ELSE alarms
<1>1. /\ d \in AlarmData
      /\ d.trigger = alarms.trigger /\ d.interval = alarms.interval
  BY UnlistType DEF TypeInv, CounterTypeOK
<1>2. t \in 0 .. Modulus - 1 /\ i \in Nat
  BY CounterAssumption DEF TypeInv, CounterTypeOK
<1>3. InitialAlarm(a, t, i) = [d EXCEPT !.trigger[a] = t, !.interval[a] = i]
  BY DEF InitialAlarm
<1>4. /\ d.alarm_list = IF alarms.enabled[a]
                        THEN RemAlarm(alarms, a).alarm_list
                        ELSE alarms.alarm_list
      /\ d.enabled = IF alarms.enabled[a]
                     THEN RemAlarm(alarms, a).enabled
                     ELSE alarms.enabled
  OBVIOUS
<1> HIDE DEF d
<1>5. /\ d.trigger \in [Alarms -> 0 .. Modulus - 1]
      /\ d.interval \in [Alarms -> Nat]
  BY <1>1 DEF AlarmData
<1>6. /\ [d.trigger EXCEPT ![a] = t] \in [Alarms -> 0 .. Modulus - 1]
      /\ [d.interval EXCEPT ![a] = i] \in [Alarms -> Nat]
  BY <1>2, <1>5
<1>7. j = [d EXCEPT !.trigger = [d.trigger EXCEPT ![a] = t],
                    !.interval = [d.interval EXCEPT ![a] = i]]
  BY <1>1, <1>3 DEF AlarmData
<1>8. /\ j \in AlarmData
      /\ j.trigger = [d.trigger EXCEPT ![a] = t]
      /\ j.interval = [d.interval EXCEPT ![a] = i]
      /\ j.alarm_list = d.alarm_list /\ j.enabled = d.enabled
  BY <1>1, <1>6, <1>7 DEF AlarmData
<1>9. \A b \in Alarms :
        /\ j.trigger[b] = (IF b = a THEN t ELSE d.trigger[b])
        /\ j.interval[b] = (IF b = a THEN i ELSE d.interval[b])
  BY <1>5, <1>8
<1> QED
  BY <1>1, <1>4, <1>8, <1>9

LEMMA DueProps ==
  ASSUME TypeInv, Due # {}
  PROVE  /\ FirstDue \in Alarms
         /\ FirstDue \in ToSet(alarms.alarm_list)
         /\ alarms.trigger[FirstDue] <= counter
<1> DEFINE l == alarms.alarm_list
           n == CHOOSE n \in Due : \A m \in Due : n <= m
<1>1. l \in Seq(Alarms) /\ Due \in SUBSET Nat
  BY DEF TypeInv, CounterTypeOK, AlarmData, Due
<1>2. \E x \in Due : \A y \in Due : x <= y
  BY <1>1, Least
<1>3. n \in Due /\ FirstDue = l[n]
  BY <1>2 DEF FirstDue
<1> HIDE DEF n
<1>4. n \in DOMAIN l /\ alarms.trigger[l[n]] <= counter
  BY <1>3 DEF Due, Expired
<1> QED
  BY <1>1, <1>3, <1>4 DEF ToSet

LEMMA TypeStep ==
  ASSUME TypeInv, [Next]_vars
  PROVE  TypeInv'
<1>0. /\ counter \in 0 .. MaxCount /\ alarms \in AlarmData
      /\ ticking \in BOOLEAN /\ calls \in Seq(Frame)
      /\ first \in [Alarms -> Nat] /\ counter \in Nat
      /\ \A a \in Alarms : alarms.interval[a] \in Intervals \cup {0}
      /\ MaxCount \in Nat /\ MaxDelay \in Nat /\ Increment \in Nat
  BY CounterAssumption DEF TypeInv, CounterTypeOK
\* Steps of the alarms and the stack only.
<1>a. ASSUME alarms' \in AlarmData, calls' \in Seq(Frame),
             alarms'.interval = alarms.interval,
             UNCHANGED <<counter, ticking, first>>
      PROVE  TypeInv'
  BY <1>0, <1>a DEF TypeInv, CounterTypeOK
<1>b. calls # <<>> => Front(calls) \in Seq(Frame) /\ Last(calls) \in Frame
  <2> SUFFICES ASSUME calls # <<>>
               PROVE  Front(calls) \in Seq(Frame) /\ Last(calls) \in Frame
    OBVIOUS
  <2> DEFINE m == Len(calls) - 1
  <2>1. m \in Nat /\ (\A i \in 1 .. m : calls[i] \in Frame) /\ Len(calls) \in DOMAIN calls
    BY <1>0
  <2>2. SubSeq(calls, 1, m) \in Seq(Frame)
    <3> HIDE DEF m
    <3> QED
      BY <2>1, SubSeqProperties
  <2> QED
    BY <1>0, <2>1, <2>2 DEF Front, Last
<1>1. CASE UNCHANGED vars
  BY <1>0, <1>1, <1>a DEF vars
<1>2. CASE Tick
  BY <1>0, <1>2 DEF Tick, TypeInv, CounterTypeOK
<1>3. CASE CallOnce
  <2>1. /\ FirstDue \in Alarms
        /\ alarms' = RemAlarm(alarms, FirstDue)
        /\ calls' = <<Call("tick", FirstDue)>>
        /\ UNCHANGED <<counter, ticking, first>>
    BY <1>3, DueProps DEF CallOnce
  <2> QED
    BY <1>0, <1>a, <2>1, UnlistType, CallType
<1>4. CASE CallRepeating
  <2> DEFINE a == FirstDue
             s == <<Call("requeue", a)>>
  <2>1. /\ a \in Alarms
        /\ AddAlarm(RepeatedAlarm(a), a, s)
        /\ UNCHANGED <<counter, ticking, first>>
    BY <1>4, DueProps DEF CallRepeating, RepeatedAlarm
  <2>2. s \in Seq(Frame)
    BY <2>1, CallType
  <2> HIDE DEF a, s
  <2>3. Unlist(alarms, a) \in AlarmData /\ Unlist(alarms, a).interval = alarms.interval
    BY <1>0, <2>1, UnlistType
  <2>4. RepeatedAlarm(a) \in AlarmData /\ RepeatedAlarm(a).interval = alarms.interval
    BY <1>0, <2>1, <2>3, TriggerType DEF RepeatedAlarm
  <2> QED
    BY <1>a, <2>1, <2>2, <2>4, AddAlarmType
<1>5. CASE Requeued
  <2>1. /\ calls # <<>>
        /\ calls' = Append(Front(calls), Call("tick", Last(calls).alarm))
        /\ UNCHANGED <<counter, alarms, ticking, first>>
    BY <1>5 DEF Requeued
  <2>2. Call("tick", Last(calls).alarm) \in Frame
    BY <1>b, <2>1, CallType DEF Frame
  <2> QED
    BY <1>0, <1>a, <1>b, <2>1, <2>2, AppendProperties
<1>6. CASE TickDone
  BY <1>0, <1>6 DEF TickDone, TypeInv, CounterTypeOK
<1>7. CASE ReturnToTick
  BY <1>0, <1>7, <1>a, <1>b DEF ReturnToTick
<1>8. CASE ReturnToAdd
  <2> DEFINE a == Last(calls).alarm
             d == Retrigger(alarms, a)
             j == Synchronize(d, a)
  <2>1. /\ calls # <<>> /\ calls' = Front(calls)
        /\ UNCHANGED <<counter, ticking, first>>
        /\ alarms' \in {[j EXCEPT !.alarm_list = Append(@, a)],
                        [alarms EXCEPT !.enabled[a] = FALSE]}
    BY <1>8 DEF ReturnToAdd
  <2>2. a \in Alarms
    BY <1>b, <2>1 DEF Frame
  <2> HIDE DEF a
  <2>3. d \in AlarmData /\ d.interval = alarms.interval
    BY <1>0, <2>2, TriggerType
  <2> HIDE DEF d
  <2>4. j \in AlarmData /\ j.interval = alarms.interval
    BY <1>0, <2>2, <2>3, TriggerType
  <2> HIDE DEF j
  <2>5. Append(j.alarm_list, a) \in Seq(Alarms)
    BY <2>2, <2>4, AppendProperties DEF AlarmData
  <2>6. /\ [j EXCEPT !.alarm_list = Append(@, a)] \in AlarmData
        /\ [j EXCEPT !.alarm_list = Append(@, a)].interval = alarms.interval
    BY <2>4, <2>5 DEF AlarmData
  <2>7. /\ [alarms EXCEPT !.enabled[a] = FALSE] \in AlarmData
        /\ [alarms EXCEPT !.enabled[a] = FALSE].interval = alarms.interval
    BY <1>0, <2>2 DEF AlarmData
  <2> QED
    BY <1>a, <1>b, <2>1, <2>6, <2>7
<1>9. ASSUME NEW a \in Alarms, Enable(a) PROVE TypeInv'
  <2>1. /\ AddAlarm(Synchronize(alarms, a), a, calls)
        /\ UNCHANGED <<counter, ticking, first>>
    BY <1>9 DEF Enable
  <2>2. /\ Synchronize(alarms, a) \in AlarmData
        /\ Synchronize(alarms, a).interval = alarms.interval
    BY <1>0, TriggerType
  <2> QED
    BY <1>0, <1>a, <2>1, <2>2, AddAlarmType
<1>10. ASSUME NEW a \in Alarms, Disable(a) PROVE TypeInv'
  BY <1>0, <1>10, <1>a, UnlistType DEF Disable
<1>11. ASSUME NEW a \in Alarms, NEW t \in 0 .. counter + MaxDelay,
              NEW i \in Intervals, Initialize(a, t, i)
       PROVE  TypeInv'
  <2> DEFINE j == InitialAlarm(a, t, i)
  <2>1. /\ AddAlarm(j, a, calls) /\ first' = [first EXCEPT ![a] = t]
        /\ UNCHANGED <<counter, ticking>>
    BY <1>11 DEF Initialize, InitialAlarm
  <2>2. j = InitialAlarm(a, t, i)
    OBVIOUS
  <2> HIDE DEF j
  <2>6. /\ j \in AlarmData
        /\ \A b \in Alarms :
             j.interval[b] = (IF b = a THEN i ELSE alarms.interval[b])
    BY <2>2, InitialAlarmProps
  <2>3. /\ alarms' \in AlarmData /\ calls' \in Seq(Frame)
        /\ \A b \in Alarms :
             alarms'.interval[b] = (IF b = a THEN i ELSE alarms.interval[b])
    BY <1>0, <2>1, <2>6, AddAlarmType
  <2>4. first' \in [Alarms -> Nat]
    BY <1>0, <2>1
  <2>5. \A b \in Alarms : alarms'.interval[b] \in Intervals \cup {0}
    BY <1>0, <2>3
  <2> QED
    BY <1>0, <2>1, <2>3, <2>4, <2>5 DEF TypeInv, CounterTypeOK
<1> QED
  BY <1>1, <1>2, <1>3, <1>4, <1>5, <1>6, <1>7, <1>8, <1>9, <1>10, <1>11 DEF Next
------------------------------------------------------------------------------
(***************************************************************************)
(* The list and the triggers.                                              *)
(***************************************************************************)
ListInv == Listed(alarms, calls) /\ AddedOnce(calls)

\* An alarm that is being added is due: its function is being called for
\* that.
DueInv ==
  /\ NothingOverdue
  /\ \A a \in Added(calls) : alarms.trigger[a] <= counter

PhaseInv == \A a \in Alarms : OnPhase(alarms, first, counter, a)

LEMMA MayArmNew ==
  ASSUME ~Rearm, NEW a \in Alarms, MayArm(a)
  PROVE  a \notin Added(calls)
  BY BeingAddedIsAdded DEF MayArm

\* The data that each of the three callers of add_alarm gives it.
LEMMA RepeatedProps ==
  ASSUME TypeInv, ListInv, NEW a \in Alarms, calls = <<>>
  PROVE  /\ RepeatedAlarm(a) \in AlarmData
         /\ RepeatedAlarm(a).interval = alarms.interval
         /\ RepeatedAlarm(a).trigger = Retrigger(alarms, a).trigger
         /\ ToSet(RepeatedAlarm(a).alarm_list) \subseteq ToSet(alarms.alarm_list)
         /\ LET s == <<Call("requeue", a)>>
            IN  /\ s \in Seq(Frame) /\ AddedOnce(s) /\ Added(s) = {}
                /\ ListedBut(RepeatedAlarm(a), s, a)
<1> DEFINE d == Unlist(alarms, a)
           s == <<Call("requeue", a)>>
<1>0. alarms \in AlarmData /\ counter \in Nat
  BY DEF TypeInv, CounterTypeOK
<1>1. /\ d \in AlarmData /\ ListedBut(d, calls, a)
      /\ ToSet(d.alarm_list) \subseteq ToSet(alarms.alarm_list)
      /\ d.trigger = alarms.trigger /\ d.interval = alarms.interval
  BY <1>0, UnlistProps, UnlistType DEF ListInv
<1>2. /\ Call("requeue", a) \in Frame /\ Call("requeue", a).by = "requeue"
      /\ \A b \in Alarms : Call("add", b).by = "add"
  BY CallType
<1>3. s \in Seq(Frame) /\ Len(s) = 1 /\ s[1] = Call("requeue", a)
  BY <1>2
<1> HIDE DEF d, s
<1>4. AddedOnce(s) /\ Added(s) = {}
  BY <1>2, <1>3 DEF AddedOnce, Added
<1>5. Added(calls) = {}
  BY DEF Added
<1>6. /\ Retrigger(d, a) \in AlarmData
      /\ Retrigger(d, a).interval = d.interval
      /\ Retrigger(d, a).enabled = d.enabled
      /\ Retrigger(d, a).alarm_list = d.alarm_list
  BY <1>0, <1>1, TriggerType
<1>7. Retrigger(d, a).trigger = Retrigger(alarms, a).trigger
  BY <1>0, <1>1 DEF Retrigger, AlarmData
<1>8. ListedBut(Retrigger(d, a), s, a)
  BY <1>1, <1>4, <1>5, <1>6 DEF ListedBut
<1> QED
  BY <1>1, <1>3, <1>4, <1>6, <1>7, <1>8 DEF d, s, RepeatedAlarm

LEMMA EnabledProps ==
  ASSUME TypeInv, ListInv, NEW a \in Alarms, ~alarms.enabled[a]
  PROVE  LET j == Synchronize(alarms, a)
         IN  /\ j \in AlarmData
             /\ j.interval = alarms.interval
             /\ j.alarm_list = alarms.alarm_list
             /\ ListedBut(j, calls, a)
             /\ \A b \in Alarms \ {a} : j.trigger[b] = alarms.trigger[b]
<1> DEFINE j == Synchronize(alarms, a)
<1>0. alarms \in AlarmData /\ counter \in Nat
  BY DEF TypeInv, CounterTypeOK
<1>1. /\ j \in AlarmData
      /\ j.interval = alarms.interval /\ j.enabled = alarms.enabled
      /\ j.alarm_list = alarms.alarm_list
      /\ \A b \in Alarms \ {a} : j.trigger[b] = alarms.trigger[b]
  BY <1>0, TriggerType
<1> HIDE DEF j
<1>2. ListedBut(j, calls, a)
  BY <1>1 DEF ListInv, Listed, ListedBut
<1> QED
  BY <1>1, <1>2 DEF j

LEMMA InitializedProps ==
  ASSUME TypeInv, ListInv, NEW a \in Alarms, NEW t \in 0 .. counter + MaxDelay,
         NEW i \in Intervals
  PROVE  /\ InitialAlarm(a, t, i) \in AlarmData
         /\ \A b \in Alarms :
              /\ InitialAlarm(a, t, i).trigger[b] = (IF b = a THEN t ELSE alarms.trigger[b])
              /\ InitialAlarm(a, t, i).interval[b] = (IF b = a THEN i ELSE alarms.interval[b])
         /\ ToSet(InitialAlarm(a, t, i).alarm_list) \subseteq ToSet(alarms.alarm_list)
         /\ a \notin ToSet(InitialAlarm(a, t, i).alarm_list)
         /\ ListedBut(InitialAlarm(a, t, i), calls, a)
<1> DEFINE j == InitialAlarm(a, t, i)
           r == RemAlarm(alarms, a)
<1>0. alarms \in AlarmData /\ j = InitialAlarm(a, t, i)
  BY DEF TypeInv, CounterTypeOK
<1> HIDE DEF j
<1>1. /\ j \in AlarmData
      /\ \A b \in Alarms :
           /\ j.trigger[b] = (IF b = a THEN t ELSE alarms.trigger[b])
           /\ j.interval[b] = (IF b = a THEN i ELSE alarms.interval[b])
      /\ j.alarm_list = IF alarms.enabled[a] THEN r.alarm_list
                        ELSE alarms.alarm_list
      /\ j.enabled = IF alarms.enabled[a] THEN r.enabled ELSE alarms.enabled
  BY <1>0, InitialAlarmProps
<1>2. /\ Listed(r, calls) /\ r.enabled = [alarms.enabled EXCEPT ![a] = FALSE]
      /\ ToSet(r.alarm_list) \subseteq ToSet(alarms.alarm_list)
  <2>1. /\ Listed(r, calls)
        /\ r = [alarms EXCEPT !.alarm_list = Unlist(alarms, a).alarm_list,
                              !.enabled[a] = FALSE]
        /\ ToSet(Unlist(alarms, a).alarm_list) \subseteq ToSet(alarms.alarm_list)
    BY <1>0, UnlistProps DEF ListInv
  <2> HIDE DEF r
  <2> QED
    BY <1>0, <2>1 DEF AlarmData
<1>3. alarms.enabled \in [Alarms -> BOOLEAN]
  BY <1>0 DEF AlarmData
<1> HIDE DEF r
<1>4. ~r.enabled[a]
  BY <1>2, <1>3
<1>5. ListedBut(j, calls, a)
  <2>1. CASE alarms.enabled[a]
    BY <1>1, <1>2, <1>4, <2>1 DEF Listed, ListedBut
  <2>2. CASE ~alarms.enabled[a]
    BY <1>1, <2>2 DEF ListInv, Listed, ListedBut
  <2> QED
    BY <2>1, <2>2
<1>6. a \notin ToSet(j.alarm_list)
  BY <1>5 DEF ListedBut
<1> QED
  BY <1>1, <1>2, <1>5, <1>6 DEF j

LEMMA ListStep ==
  ASSUME ~Rearm, TypeInv, ListInv, [Next]_vars
  PROVE  ListInv'
<1>0. /\ alarms \in AlarmData /\ calls \in Seq(Frame) /\ counter \in Nat
      /\ Listed(alarms, calls) /\ AddedOnce(calls)
  BY DEF TypeInv, CounterTypeOK, ListInv
<1>1. CASE UNCHANGED vars \/ Tick \/ TickDone
  BY <1>1 DEF vars, Tick, TickDone, ListInv, Listed, Added, AddedOnce
<1>2. ASSUME NEW a \in Alarms, alarms' = RemAlarm(alarms, a), calls' = calls
      PROVE  ListInv'
  BY <1>0, <1>2, UnlistProps DEF ListInv
<1>3. CASE CallOnce
  <2> DEFINE a == FirstDue
  <2>1. /\ calls = <<>> /\ a \in Alarms
        /\ alarms' = RemAlarm(alarms, a) /\ calls' = <<Call("tick", a)>>
    BY <1>3, DueProps DEF CallOnce
  <2> HIDE DEF a
  <2>2. Listed(alarms', calls)
    BY <1>0, <2>1, UnlistProps
  <2>3. calls' = Append(calls, Call("tick", a)) /\ Call("tick", a) \in Frame
        /\ Call("tick", a).by = "tick"
    BY <2>1, CallType
  <2>4. AddedOnce(calls') /\ Added(calls') = Added(calls)
    BY <1>0, <2>3, Push
  <2> QED
    BY <2>2, <2>4 DEF ListInv, Listed
<1>4. CASE CallRepeating
  <2> DEFINE a == FirstDue
  <2>1. /\ a \in Alarms /\ calls = <<>>
        /\ AddAlarm(RepeatedAlarm(a), a, <<Call("requeue", a)>>)
    BY <1>4, DueProps DEF CallRepeating, RepeatedAlarm
  <2> HIDE DEF a
  <2> QED
    BY <1>0, <2>1, RepeatedProps, AddAlarmProps DEF ListInv
<1>5. CASE Requeued
  <2> DEFINE s == Front(calls)
             f == Call("tick", Last(calls).alarm)
  <2>1. calls # <<>> /\ Last(calls).by = "requeue" /\ calls' = Append(s, f)
        /\ alarms' = alarms
    BY <1>5 DEF Requeued
  <2>2. /\ s \in Seq(Frame) /\ Last(calls) \in Frame /\ AddedOnce(s)
        /\ Added(s) = Added(calls)
    BY <1>0, <2>1, Pop
  <2>3. f \in Frame /\ f.by = "tick"
    BY <2>2, CallType DEF Frame
  <2> HIDE DEF s, f
  <2>4. AddedOnce(calls') /\ Added(calls') = Added(calls)
    BY <2>1, <2>2, <2>3, Push
  <2> QED
    BY <1>0, <2>1, <2>4 DEF ListInv, Listed
<1>6. CASE ReturnToTick
  <2>1. /\ calls # <<>> /\ Last(calls).by = "tick" /\ calls' = Front(calls)
        /\ alarms' = alarms
    BY <1>6 DEF ReturnToTick
  <2>2. AddedOnce(calls') /\ Added(calls') = Added(calls)
    BY <1>0, <2>1, Pop
  <2> QED
    BY <1>0, <2>1, <2>2 DEF ListInv, Listed
<1>7. CASE ReturnToAdd
  <2> DEFINE a == Last(calls).alarm
             d == Retrigger(alarms, a)
             j == Synchronize(d, a)
  <2>1. /\ calls # <<>> /\ calls' = Front(calls) /\ Last(calls).by = "add"
        /\ \/ /\ alarms.enabled[a]
              /\ alarms' = [j EXCEPT !.alarm_list = Append(@, a)]
           \/ alarms' = [alarms EXCEPT !.enabled[a] = FALSE]
    BY <1>7 DEF ReturnToAdd
  <2>2. /\ calls' \in Seq(Frame) /\ AddedOnce(calls')
        /\ Added(calls') = Added(calls) \ {a}
        /\ a \in Added(calls)
    BY <1>0, <2>1, Pop
  <2>3. a \in Alarms
    BY <2>2 DEF Added
  <2> HIDE DEF a
  <2>4. /\ d \in AlarmData /\ d.interval = alarms.interval
        /\ d.enabled = alarms.enabled /\ d.alarm_list = alarms.alarm_list
    BY <1>0, <2>3, TriggerType
  <2> HIDE DEF d
  <2>5. /\ j \in AlarmData /\ j.interval = alarms.interval
        /\ j.enabled = alarms.enabled /\ j.alarm_list = alarms.alarm_list
    BY <1>0, <2>3, <2>4, TriggerType
  <2> HIDE DEF j
  <2>6. CASE /\ alarms.enabled[a]
             /\ alarms' = [j EXCEPT !.alarm_list = Append(@, a)]
    <3>1. ListedBut(j, calls', a)
      BY <1>0, <2>2, <2>5 DEF Listed, ListedBut
    <3>2. Listed(alarms', calls')
      BY <2>2, <2>3, <2>5, <2>6, <3>1, RelistProps
    <3> QED
      BY <2>2, <3>2 DEF ListInv
  <2>7. CASE alarms' = [alarms EXCEPT !.enabled[a] = FALSE]
    <3>1. /\ alarms'.alarm_list = alarms.alarm_list
          /\ \A b \in Alarms :
               alarms'.enabled[b] = (IF b = a THEN FALSE ELSE alarms.enabled[b])
      BY <1>0, <2>7 DEF AlarmData
    <3>2. Listed(alarms', calls')
      BY <1>0, <2>2, <3>1 DEF Listed
    <3> QED
      BY <2>2, <3>2 DEF ListInv
  <2> QED
    BY <2>1, <2>6, <2>7
<1>8. ASSUME NEW a \in Alarms, Enable(a) PROVE ListInv'
  <2>1. /\ a \notin Added(calls) /\ ~alarms.enabled[a]
        /\ AddAlarm(Synchronize(alarms, a), a, calls)
    BY <1>8, MayArmNew DEF Enable
  <2>2. /\ Synchronize(alarms, a) \in AlarmData
        /\ ListedBut(Synchronize(alarms, a), calls, a)
    BY <2>1, EnabledProps
  <2> QED
    BY <1>0, <2>1, <2>2, AddAlarmProps DEF ListInv
<1>9. ASSUME NEW a \in Alarms, Disable(a) PROVE ListInv'
  BY <1>2, <1>9 DEF Disable
<1>10. ASSUME NEW a \in Alarms, NEW t \in 0 .. counter + MaxDelay,
              NEW i \in Intervals, Initialize(a, t, i)
       PROVE  ListInv'
  <2>1. /\ a \notin Added(calls)
        /\ AddAlarm(InitialAlarm(a, t, i), a, calls)
    BY <1>10, MayArmNew DEF Initialize, InitialAlarm
  <2>2. /\ InitialAlarm(a, t, i) \in AlarmData
        /\ ListedBut(InitialAlarm(a, t, i), calls, a)
    BY InitializedProps
  <2> QED
    BY <1>0, <2>1, <2>2, AddAlarmProps DEF ListInv
<1> QED
  BY <1>1, <1>3, <1>4, <1>5, <1>6, <1>7, <1>8, <1>9, <1>10 DEF Next
------------------------------------------------------------------------------
\* What the return to add_alarm() makes of the alarm's trigger: a whole number
\* of intervals more, the alarm being due now at the earliest.
LEMMA ReturnedProps ==
  ASSUME NoWrap, TypeInv, NEW a \in Alarms, alarms.trigger[a] <= counter,
         alarms.interval[a] # 0
  PROVE  LET j == Synchronize(Retrigger(alarms, a), a)
         IN  /\ j \in AlarmData
             /\ j.interval = alarms.interval
             /\ j.alarm_list = alarms.alarm_list
             /\ \A b \in Alarms \ {a} : j.trigger[b] = alarms.trigger[b]
             /\ j.trigger[a] >= counter
             /\ j.trigger[a] <= counter + alarms.interval[a]
             /\ \E m \in Nat :
                  j.trigger[a] = alarms.trigger[a] + m * alarms.interval[a]
<1> DEFINE t == alarms.trigger[a]
           i == alarms.interval[a]
           d == Retrigger(alarms, a)
           j == Synchronize(d, a)
<1>0. /\ alarms \in AlarmData /\ counter \in Nat /\ Modulus \in Nat
      /\ counter <= MaxCount /\ MaxCount \in Nat
      /\ t \in Nat /\ i \in Nat \ {0} /\ i \in Intervals
      /\ alarms.trigger \in [Alarms -> 0 .. Modulus - 1]
  BY CounterAssumption DEF TypeInv, CounterTypeOK, AlarmData
<1>1. counter + i < Modulus
  BY <1>0 DEF NoWrap
<1>2. d = [alarms EXCEPT !.trigger[a] = @ + i]
  BY <1>0, <1>1, RetriggerProps
<1>3. /\ d \in AlarmData /\ d.interval = alarms.interval
      /\ d.alarm_list = alarms.alarm_list
      /\ \A b \in Alarms \ {a} : d.trigger[b] = alarms.trigger[b]
  BY <1>0, TriggerType
<1>4. d.trigger[a] = t + i
  <2> HIDE DEF d
  <2> QED
    BY <1>0, <1>2 DEF AlarmData
<1> HIDE DEF d
<1>5. /\ j \in AlarmData /\ j.interval = d.interval
      /\ j.alarm_list = d.alarm_list
      /\ \A b \in Alarms \ {a} : j.trigger[b] = d.trigger[b]
  BY <1>0, <1>3, TriggerType
<1>6. PICK n \in Nat :
        /\ j = [d EXCEPT !.trigger[a] = @ + n * d.interval[a]]
        /\ d.trigger[a] + n * d.interval[a] >= counter
        /\ d.trigger[a] + n * d.interval[a] <= counter + d.interval[a]
  <2>1. d.trigger[a] <= counter + d.interval[a] /\ d.interval[a] = i
    BY <1>0, <1>3, <1>4
  <2> QED
    BY <1>0, <1>1, <1>3, <2>1, SynchronizeProps
<1>7. j.trigger[a] = d.trigger[a] + n * d.interval[a]
  <2> HIDE DEF j
  <2> QED
    BY <1>3, <1>6 DEF AlarmData
<1> HIDE DEF j
<1>8. d.trigger[a] + n * d.interval[a] = t + (n + 1) * i
  <2>1. d.trigger[a] + n * d.interval[a] = t + i + n * i
    BY <1>3, <1>4
  <2>2. (n + 1) * i = i + n * i
    <3> HIDE DEF i
    <3> QED
      BY <1>0
  <2>3. n * i \in Int
    <3> HIDE DEF i
    <3> QED
      BY <1>0
  <2> QED
    BY <1>0, <2>1, <2>2, <2>3
<1>9. n + 1 \in Nat /\ j.trigger[a] = t + (n + 1) * i
  BY <1>7, <1>8
<1> QED
  BY <1>0, <1>3, <1>5, <1>6, <1>7, <1>9 DEF d, j

LEMMA DueStep ==
  ASSUME ~Rearm, NoWrap, TypeInv, ListInv, DueInv, [Next]_vars
  PROVE  DueInv'
<1>0. /\ alarms \in AlarmData /\ calls \in Seq(Frame) /\ counter \in Nat
      /\ Listed(alarms, calls) /\ AddedOnce(calls)
      /\ ToSet(alarms.alarm_list) \subseteq Alarms
  BY DEF TypeInv, CounterTypeOK, ListInv, Listed
\* Steps that move no trigger and list no alarm.
<1>1. ASSUME UNCHANGED counter, ticking' = ticking \/ ticking',
             alarms'.trigger = alarms.trigger,
             ToSet(alarms'.alarm_list) \subseteq ToSet(alarms.alarm_list),
             Added(calls') \subseteq Added(calls)
      PROVE  DueInv'
  BY <1>1 DEF DueInv, NothingOverdue
<1>2. CASE UNCHANGED vars
  BY <1>1, <1>2 DEF vars
<1>3. CASE Tick
  <2>1. Added(calls') = {}
    BY <1>3 DEF Tick, Added
  <2> QED
    BY <1>3, <2>1 DEF Tick, DueInv, NothingOverdue
<1>4. CASE TickDone
  <2>1. /\ Due = {} /\ UNCHANGED <<counter, alarms>> /\ Added(calls') = {}
    BY <1>4 DEF TickDone, Added
  <2>2. \A a \in ToSet(alarms.alarm_list) :
          alarms.trigger[a] \in Nat /\ ~(alarms.trigger[a] <= counter)
    <3>1. \A a \in ToSet(alarms.alarm_list) : ~(alarms.trigger[a] <= counter)
      BY <2>1 DEF Due, Expired, ToSet
    <3> QED
      BY <1>0, <3>1 DEF AlarmData
  <2> QED
    BY <1>0, <2>1, <2>2 DEF DueInv, NothingOverdue
<1>5. CASE CallOnce
  <2>1. /\ FirstDue \in Alarms /\ calls' = <<Call("tick", FirstDue)>>
        /\ alarms' = RemAlarm(alarms, FirstDue) /\ UNCHANGED <<counter, ticking>>
    BY <1>5, DueProps DEF CallOnce
  <2>2. \A a, b \in Alarms : Call("tick", b) # Call("add", a)
    BY DEF Call
  <2>3. Added(calls') = {}
    BY <2>1, <2>2 DEF Added
  <2>4. /\ alarms'.trigger = alarms.trigger
        /\ ToSet(alarms'.alarm_list) \subseteq ToSet(alarms.alarm_list)
    <3>1. /\ alarms' = [alarms EXCEPT
                          !.alarm_list = Unlist(alarms, FirstDue).alarm_list,
                          !.enabled[FirstDue] = FALSE]
          /\ ToSet(Unlist(alarms, FirstDue).alarm_list)
               \subseteq ToSet(alarms.alarm_list)
      BY <1>0, <2>1, UnlistProps
    <3> QED
      BY <1>0, <3>1 DEF AlarmData
  <2> QED
    BY <1>1, <2>1, <2>3, <2>4
<1>6. CASE CallRepeating
  <2> DEFINE a == FirstDue
             j == RepeatedAlarm(a)
             s == <<Call("requeue", a)>>
  <2>1. /\ a \in Alarms /\ calls = <<>> /\ ticking
        /\ AddAlarm(j, a, s) /\ UNCHANGED <<counter, ticking>>
    BY <1>6, DueProps DEF CallRepeating, RepeatedAlarm
  <2> HIDE DEF a
  <2>2. /\ j \in AlarmData /\ s \in Seq(Frame) /\ AddedOnce(s)
        /\ Added(s) = {} /\ ListedBut(j, s, a)
    BY <2>1, RepeatedProps
  <2> HIDE DEF j, s
  <2>3. /\ alarms'.trigger = j.trigger
        /\ \A b \in Added(calls') : b = a /\ j.trigger[a] <= counter
    BY <1>0, <2>1, <2>2, AddAlarmProps
  <2> QED
    BY <2>1, <2>3 DEF DueInv, NothingOverdue
<1>7. CASE Requeued
  <2> DEFINE s == Front(calls)
             f == Call("tick", Last(calls).alarm)
  <2>1. calls # <<>> /\ Last(calls).by = "requeue" /\ calls' = Append(s, f)
        /\ UNCHANGED <<alarms, counter, ticking>>
    BY <1>7 DEF Requeued
  <2>2. /\ s \in Seq(Frame) /\ Last(calls) \in Frame /\ AddedOnce(s)
        /\ Added(s) = Added(calls)
    BY <1>0, <2>1, Pop
  <2>3. f \in Frame /\ f.by = "tick"
    BY <2>2, CallType DEF Frame
  <2> HIDE DEF s, f
  <2>4. Added(calls') = Added(calls)
    BY <2>1, <2>2, <2>3, Push
  <2> QED
    BY <1>1, <2>1, <2>4
<1>8. CASE ReturnToTick
  <2>1. /\ calls # <<>> /\ Last(calls).by = "tick" /\ calls' = Front(calls)
        /\ UNCHANGED <<alarms, counter, ticking>>
    BY <1>8 DEF ReturnToTick
  <2>2. Added(calls') = Added(calls)
    BY <1>0, <2>1, Pop
  <2> QED
    BY <1>1, <2>1, <2>2
<1>9. CASE ReturnToAdd
  <2> DEFINE a == Last(calls).alarm
             j == Synchronize(Retrigger(alarms, a), a)
  <2>1. /\ calls # <<>> /\ calls' = Front(calls) /\ Last(calls).by = "add"
        /\ UNCHANGED <<counter, ticking>>
        /\ \/ /\ alarms.interval[a] # 0
              /\ alarms' = [j EXCEPT !.alarm_list = Append(@, a)]
           \/ alarms' = [alarms EXCEPT !.enabled[a] = FALSE]
    BY <1>9 DEF ReturnToAdd
  <2>2. /\ Added(calls') = Added(calls) \ {a} /\ a \in Added(calls)
    BY <1>0, <2>1, Pop
  <2>3. a \in Alarms /\ alarms.trigger[a] <= counter
    BY <2>2 DEF Added, DueInv
  <2> HIDE DEF a
  <2>4. CASE /\ alarms.interval[a] # 0
             /\ alarms' = [j EXCEPT !.alarm_list = Append(@, a)]
    <3>1. /\ j \in AlarmData /\ j.alarm_list = alarms.alarm_list
          /\ \A b \in Alarms \ {a} : j.trigger[b] = alarms.trigger[b]
          /\ j.trigger[a] >= counter
      BY <2>3, <2>4, ReturnedProps
    <3> HIDE DEF j
    <3>2. /\ alarms'.alarm_list = Append(alarms.alarm_list, a)
          /\ alarms'.trigger = j.trigger
      BY <2>4, <3>1 DEF AlarmData
    <3>3. \A b \in ToSet(Append(alarms.alarm_list, a)) :
            b \in ToSet(alarms.alarm_list) \/ b = a
      <4>1. alarms.alarm_list \in Seq(Alarms)
        BY <1>0 DEF AlarmData
      <4> QED
        BY <2>3, <4>1, AppendProperties DEF ToSet
    <3>4. \A b \in Added(calls') : b \in Alarms /\ b # a /\ b \in Added(calls)
      BY <2>2 DEF Added
    <3> QED
      BY <1>0, <2>1, <3>1, <3>2, <3>3, <3>4 DEF DueInv, NothingOverdue
  <2>5. CASE alarms' = [alarms EXCEPT !.enabled[a] = FALSE]
    <3>1. /\ alarms'.alarm_list = alarms.alarm_list
          /\ alarms'.trigger = alarms.trigger
      BY <1>0, <2>5 DEF AlarmData
    <3> QED
      BY <1>1, <2>1, <2>2, <3>1
  <2> QED
    BY <2>1, <2>4, <2>5
\* Arming an alarm that is not being added and is not in the list.
<1>10. ASSUME NEW a \in Alarms, NEW j \in AlarmData, ListedBut(j, calls, a),
              a \notin Added(calls), AddAlarm(j, a, calls),
              ToSet(j.alarm_list) \subseteq ToSet(alarms.alarm_list),
              \A b \in Alarms \ {a} : j.trigger[b] = alarms.trigger[b],
              UNCHANGED <<counter, ticking>>
       PROVE  DueInv'
  <2>1. /\ alarms'.trigger = j.trigger
        /\ \A b \in ToSet(alarms'.alarm_list) :
             b \in ToSet(j.alarm_list) \/ (b = a /\ j.trigger[a] > counter)
        /\ \A b \in Added(calls') :
             b \in Added(calls) \/ (b = a /\ j.trigger[a] <= counter)
    BY <1>0, <1>10, AddAlarmProps
  <2>2. \A b \in ToSet(j.alarm_list) : b \in Alarms \ {a}
    BY <1>10 DEF ListedBut
  <2>3. \A b \in Added(calls) : b \in Alarms \ {a}
    BY <1>10 DEF Added
  <2>4. j.trigger[a] \in Nat
    BY <1>10 DEF AlarmData
  <2> QED
    BY <1>0, <1>10, <2>1, <2>2, <2>3, <2>4 DEF DueInv, NothingOverdue
<1>11. ASSUME NEW a \in Alarms, Enable(a) PROVE DueInv'
  <2>1. /\ a \notin Added(calls) /\ ~alarms.enabled[a]
        /\ AddAlarm(Synchronize(alarms, a), a, calls)
        /\ UNCHANGED <<counter, ticking>>
    BY <1>11, MayArmNew DEF Enable
  <2> QED
    BY <1>10, <2>1, EnabledProps
<1>12. ASSUME NEW a \in Alarms, Disable(a) PROVE DueInv'
  <2>1. /\ alarms' = [alarms EXCEPT !.alarm_list = Unlist(alarms, a).alarm_list,
                                    !.enabled[a] = FALSE]
        /\ ToSet(Unlist(alarms, a).alarm_list) \subseteq ToSet(alarms.alarm_list)
        /\ UNCHANGED <<counter, ticking, calls>>
    BY <1>0, <1>12, UnlistProps DEF Disable
  <2>2. /\ alarms'.trigger = alarms.trigger
        /\ alarms'.alarm_list = Unlist(alarms, a).alarm_list
    BY <1>0, <2>1 DEF AlarmData
  <2> QED
    BY <1>1, <2>1, <2>2
<1>13. ASSUME NEW a \in Alarms, NEW t \in 0 .. counter + MaxDelay,
              NEW i \in Intervals, Initialize(a, t, i)
       PROVE  DueInv'
  <2> DEFINE j == InitialAlarm(a, t, i)
  <2>1. /\ a \notin Added(calls) /\ AddAlarm(j, a, calls)
        /\ UNCHANGED <<counter, ticking>>
    BY <1>13, MayArmNew DEF Initialize, InitialAlarm
  <2>2. /\ j \in AlarmData /\ ListedBut(j, calls, a)
        /\ ToSet(j.alarm_list) \subseteq ToSet(alarms.alarm_list)
        /\ \A b \in Alarms \ {a} : j.trigger[b] = alarms.trigger[b]
    BY InitializedProps
  <2> HIDE DEF j
  <2> QED
    BY <1>10, <2>1, <2>2
<1> QED
  BY <1>2, <1>3, <1>4, <1>5, <1>6, <1>7, <1>8, <1>9, <1>11, <1>12, <1>13 DEF Next
------------------------------------------------------------------------------
\* A trigger that moves on by whole intervals stays on phase.
LEMMA PhaseAdvances ==
  ASSUME NEW i \in Nat, NEW f \in Nat, NEW m \in Nat, NEW n \in Nat
  PROVE  n + m \in Nat /\ (f + n * i) + m * i = f + (n + m) * i
<1>1. (n + m) * i = n * i + m * i /\ n * i \in Nat /\ m * i \in Nat
  OBVIOUS
<1> QED
  BY <1>1

LEMMA PhaseStep ==
  ASSUME ~Rearm, NoWrap, Near, TypeInv, ListInv, DueInv, PhaseInv, [Next]_vars
  PROVE  PhaseInv'
<1>0. /\ alarms \in AlarmData /\ calls \in Seq(Frame) /\ counter \in Nat
      /\ first \in [Alarms -> Nat] /\ Increment \in Nat /\ MaxDelay \in Nat
      /\ AddedOnce(calls)
      /\ \A a \in Alarms : alarms.interval[a] \in Nat /\ alarms.trigger[a] \in Nat
      /\ \A a \in Alarms : alarms.interval[a] \in Intervals \cup {0}
      /\ counter <= MaxCount /\ MaxCount \in Nat /\ Modulus \in Nat
  BY CounterAssumption DEF TypeInv, CounterTypeOK, ListInv, AlarmData
\* Each alarm's trigger stays, or moves on by whole intervals.
<1>1. ASSUME UNCHANGED <<counter, first>>, alarms'.interval = alarms.interval,
             \A a \in Alarms :
               \/ alarms'.trigger[a] = alarms.trigger[a]
               \/ /\ alarms'.trigger[a] <= counter + alarms.interval[a]
                  /\ \E m \in Nat : alarms'.trigger[a] =
                                     alarms.trigger[a] + m * alarms.interval[a]
      PROVE  PhaseInv'
  <2> SUFFICES ASSUME NEW a \in Alarms, alarms.interval[a] # 0
               PROVE  /\ alarms'.trigger[a] <= counter + alarms.interval[a]
                      /\ \E n \in Nat :
                           alarms'.trigger[a] = first[a] + n * alarms.interval[a]
    BY <1>1 DEF PhaseInv, OnPhase
  <2>1. /\ alarms.trigger[a] <= counter + alarms.interval[a]
        /\ \E n \in Nat : alarms.trigger[a] = first[a] + n * alarms.interval[a]
    BY DEF PhaseInv, OnPhase
  <2>2. CASE alarms'.trigger[a] = alarms.trigger[a]
    BY <2>1, <2>2
  <2>3. CASE /\ alarms'.trigger[a] <= counter + alarms.interval[a]
             /\ \E m \in Nat : alarms'.trigger[a] =
                                alarms.trigger[a] + m * alarms.interval[a]
    <3>1. PICK m \in Nat : alarms'.trigger[a] =
                              alarms.trigger[a] + m * alarms.interval[a]
      BY <2>3
    <3> DEFINE i == alarms.interval[a]
               f == first[a]
               t == alarms.trigger[a]
               u == alarms'.trigger[a]
    <3>2. /\ i \in Nat /\ f \in Nat /\ u = t + m * i
          /\ \E j \in Nat : t = f + j * i
      BY <1>0, <2>1, <3>1
    <3> HIDE DEF i, f, t, u
    <3>4. PICK n \in Nat : t = f + n * i
      BY <3>2
    <3>5. n + m \in Nat /\ u = f + (n + m) * i
      BY <3>2, <3>4, PhaseAdvances
    <3>3. \E j \in Nat : alarms'.trigger[a] = first[a] + j * alarms.interval[a]
      BY <3>5 DEF i, f, t, u
    <3> QED
      BY <2>3, <3>3
  <2> QED
    BY <1>1, <2>2, <2>3
<1>2. CASE UNCHANGED vars \/ TickDone \/ Requeued \/ ReturnToTick
  BY <1>1, <1>2 DEF vars, TickDone, Requeued, ReturnToTick
<1>3. CASE Tick
  <2>1. counter' = counter + Increment /\ UNCHANGED <<alarms, first>>
    BY <1>3 DEF Tick
  <2> QED
    BY <1>0, <2>1 DEF PhaseInv, OnPhase
<1>4. ASSUME NEW a \in Alarms, alarms' = RemAlarm(alarms, a),
             UNCHANGED <<counter, first>>
      PROVE  PhaseInv'
  BY <1>0, <1>1, <1>4, UnlistType
<1>5. CASE CallOnce
  BY <1>4, <1>5, DueProps DEF CallOnce
<1>6. CASE CallRepeating
  <2> DEFINE a == FirstDue
             j == RepeatedAlarm(a)
             s == <<Call("requeue", a)>>
  <2>1. /\ a \in Alarms /\ calls = <<>> /\ alarms.trigger[a] <= counter
        /\ alarms.interval[a] # 0
        /\ AddAlarm(j, a, s) /\ UNCHANGED <<counter, first>>
    BY <1>6, DueProps DEF CallRepeating, RepeatedAlarm
  <2> HIDE DEF a
  <2>2. /\ j \in AlarmData /\ s \in Seq(Frame)
        /\ j.interval = alarms.interval
        /\ j.trigger = Retrigger(alarms, a).trigger
    BY <2>1, RepeatedProps
  <2> HIDE DEF j, s
  <2>3. alarms'.trigger = j.trigger /\ alarms'.interval = j.interval
    BY <2>1, <2>2, AddAlarmType
  <2>4. counter + alarms.interval[a] < Modulus
    <3>1. alarms.interval[a] \in Intervals /\ alarms.interval[a] \in Nat
      BY <1>0, <2>1
    <3> QED
      BY <1>0, <3>1 DEF NoWrap
  <2>5. Retrigger(alarms, a) = [alarms EXCEPT !.trigger[a] = @ + alarms.interval[a]]
    BY <1>0, <2>1, <2>4, RetriggerProps
  <2>6. \A b \in Alarms :
          alarms'.trigger[b] = IF b = a THEN alarms.trigger[a] + alarms.interval[a]
                               ELSE alarms.trigger[b]
    BY <1>0, <2>2, <2>3, <2>5 DEF AlarmData
  <2>7. 1 * alarms.interval[a] = alarms.interval[a]
    BY <1>0, <2>1
  <2>8. /\ alarms'.trigger[a] <= counter + alarms.interval[a]
        /\ alarms'.trigger[a] = alarms.trigger[a] + 1 * alarms.interval[a]
    BY <1>0, <2>1, <2>6, <2>7
  <2> QED
    BY <1>1, <2>1, <2>2, <2>3, <2>6, <2>8
<1>7. CASE ReturnToAdd
  <2> DEFINE a == Last(calls).alarm
             j == Synchronize(Retrigger(alarms, a), a)
  <2>1. /\ calls # <<>> /\ Last(calls).by = "add"
        /\ UNCHANGED <<counter, first>>
        /\ \/ /\ alarms.interval[a] # 0
              /\ alarms' = [j EXCEPT !.alarm_list = Append(@, a)]
           \/ alarms' = [alarms EXCEPT !.enabled[a] = FALSE]
    BY <1>7 DEF ReturnToAdd
  <2>2. a \in Added(calls)
    BY <1>0, <2>1, Pop
  <2>3. a \in Alarms /\ alarms.trigger[a] <= counter
    BY <2>2 DEF Added, DueInv
  <2> HIDE DEF a
  <2>4. CASE /\ alarms.interval[a] # 0
             /\ alarms' = [j EXCEPT !.alarm_list = Append(@, a)]
    <3>1. /\ j \in AlarmData /\ j.interval = alarms.interval
          /\ \A b \in Alarms \ {a} : j.trigger[b] = alarms.trigger[b]
          /\ j.trigger[a] <= counter + alarms.interval[a]
          /\ \E m \in Nat :
               j.trigger[a] = alarms.trigger[a] + m * alarms.interval[a]
      BY <2>3, <2>4, ReturnedProps
    <3> HIDE DEF j
    <3>2. alarms'.interval = alarms.interval /\ alarms'.trigger = j.trigger
      BY <2>4, <3>1 DEF AlarmData
    <3> QED
      BY <1>1, <2>1, <3>1, <3>2
  <2>5. CASE alarms' = [alarms EXCEPT !.enabled[a] = FALSE]
    <3>1. alarms'.interval = alarms.interval /\ alarms'.trigger = alarms.trigger
      BY <1>0, <2>5 DEF AlarmData
    <3> QED
      BY <1>1, <2>1, <3>1
  <2> QED
    BY <2>1, <2>4, <2>5
<1>8. ASSUME NEW a \in Alarms, Enable(a) PROVE PhaseInv'
  <2> DEFINE j == Synchronize(alarms, a)
             i == alarms.interval[a]
  <2>1. /\ ~alarms.enabled[a] /\ AddAlarm(j, a, calls)
        /\ UNCHANGED <<counter, first>>
    BY <1>8 DEF Enable
  <2>2. /\ j \in AlarmData /\ j.interval = alarms.interval
        /\ \A b \in Alarms \ {a} : j.trigger[b] = alarms.trigger[b]
    BY <2>1, EnabledProps
  <2>3. alarms'.trigger = j.trigger /\ alarms'.interval = j.interval
    BY <1>0, <2>1, <2>2, AddAlarmType
  <2>4. i # 0 => alarms.trigger[a] <= counter + i
    BY DEF PhaseInv, OnPhase
  <2>5. CASE i = 0
    <3>1. j = alarms
      BY <2>5 DEF Synchronize
    <3> QED
      BY <1>1, <2>1, <2>3, <3>1
  <2>6. CASE i # 0
    <3>1. counter + i < Modulus
      <4>1. i \in Intervals /\ i \in Nat
        BY <1>0, <2>6
      <4> QED
        BY <1>0, <4>1 DEF NoWrap
    <3>2. PICK n \in Nat :
            /\ j = [alarms EXCEPT !.trigger[a] = @ + n * i]
            /\ alarms.trigger[a] + n * i <= counter + i
      BY <1>0, <2>4, <2>6, <3>1, SynchronizeProps
    <3> HIDE DEF j
    <3>3. j.trigger[a] = alarms.trigger[a] + n * i
      BY <1>0, <3>2 DEF AlarmData
    <3> QED
      BY <1>1, <2>1, <2>2, <2>3, <3>2, <3>3
  <2> QED
    BY <2>5, <2>6
<1>9. ASSUME NEW a \in Alarms, Disable(a) PROVE PhaseInv'
  BY <1>4, <1>9 DEF Disable
<1>10. ASSUME NEW a \in Alarms, NEW t \in 0 .. counter + MaxDelay,
              NEW i \in Intervals, Initialize(a, t, i)
       PROVE  PhaseInv'
  <2> DEFINE j == InitialAlarm(a, t, i)
  <2>1. /\ AddAlarm(j, a, calls) /\ counter' = counter
        /\ first' = [first EXCEPT ![a] = t]
    BY <1>10 DEF Initialize, InitialAlarm
  <2>2. /\ j \in AlarmData
        /\ \A b \in Alarms :
             /\ j.trigger[b] = (IF b = a THEN t ELSE alarms.trigger[b])
             /\ j.interval[b] = (IF b = a THEN i ELSE alarms.interval[b])
    BY InitializedProps
  <2> HIDE DEF j
  <2>3. alarms'.trigger = j.trigger /\ alarms'.interval = j.interval
    BY <1>0, <2>1, <2>2, AddAlarmType
  <2>4. \A b \in Alarms : first'[b] = IF b = a THEN t ELSE first[b]
    BY <1>0, <2>1
  <2>5. i # 0 => t <= counter + i /\ t = t + 0 * i
    <3>1. i \in Nat /\ t \in Nat /\ t <= counter + MaxDelay
      BY <1>0, CounterAssumption
    <3>2. i # 0 => MaxDelay <= i
      BY DEF Near
    <3> QED
      BY <1>0, <3>1, <3>2
  <2>6. OnPhase(alarms', first', counter', a)
    BY <2>1, <2>2, <2>3, <2>4, <2>5 DEF OnPhase
  <2>7. ASSUME NEW b \in Alarms, b # a
        PROVE  OnPhase(alarms', first', counter', b)
    <3>1. /\ alarms'.trigger[b] = alarms.trigger[b]
          /\ alarms'.interval[b] = alarms.interval[b] /\ first'[b] = first[b]
      BY <2>2, <2>3, <2>4, <2>7
    <3>2. OnPhase(alarms, first, counter, b)
      BY DEF PhaseInv
    <3> QED
      BY <2>1, <3>1, <3>2 DEF OnPhase
  <2> QED
    BY <2>6, <2>7 DEF PhaseInv
<1> QED
  BY <1>2, <1>3, <1>5, <1>6, <1>7, <1>8, <1>9, <1>10 DEF Next
------------------------------------------------------------------------------
(***************************************************************************)
(* The theorems.                                                           *)
(***************************************************************************)
LEMMA CounterInit == Init => TypeInv /\ ListInv /\ DueInv /\ PhaseInv
<1> SUFFICES ASSUME Init PROVE TypeInv /\ ListInv /\ DueInv /\ PhaseInv
  OBVIOUS
<1>1. /\ counter = 0 /\ calls = <<>> /\ ticking = FALSE
      /\ first = [a \in Alarms |-> 0]
      /\ alarms.alarm_list = <<>>
      /\ alarms.enabled = [a \in Alarms |-> FALSE]
      /\ \A a \in Alarms : alarms.interval[a] = 0
      /\ alarms \in AlarmData
  BY CounterAssumption DEF Init, AlarmData
<1>2. TypeInv
  <2>1. counter \in 0 .. MaxCount /\ calls \in Seq(Frame)
    BY <1>1, CounterAssumption
  <2>2. first \in [Alarms -> Nat] /\ ticking \in BOOLEAN
    BY <1>1
  <2> QED
    BY <1>1, <2>1, <2>2 DEF TypeInv, CounterTypeOK
<1>3. Added(calls) = {} /\ AddedOnce(calls)
  BY <1>1 DEF Added, AddedOnce
<1>4. ToSet(alarms.alarm_list) = {} /\ IsInjective(alarms.alarm_list)
  BY <1>1 DEF ToSet, IsInjective
<1>5. ListInv
  BY <1>1, <1>3, <1>4 DEF ListInv, Listed
<1>6. DueInv
  BY <1>3, <1>4 DEF DueInv, NothingOverdue
<1>7. PhaseInv
  BY <1>1 DEF PhaseInv, OnPhase
<1> QED
  BY <1>2, <1>5, <1>6, <1>7

LEMMA TypeInvariance == Spec => []TypeInv
  BY TypeStep, CounterInit, PTL DEF Spec

\* Every operation on a counter and its alarms keeps the types, the tick
\* counts within their width (clock.cxx).
THEOREM CounterTypeCorrect == Spec => []CounterTypeOK
<1>1. TypeInv => CounterTypeOK
  BY DEF TypeInv
<1> QED
  BY <1>1, TypeInvariance, PTL

LEMMA ListInvariance ==
  ASSUME ~Rearm
  PROVE  Spec => []ListInv
<1>1. TypeInv /\ ListInv /\ [Next]_vars => ListInv'
  BY ListStep
<1> QED
  BY <1>1, CounterInit, TypeInvariance, PTL DEF Spec

\* However alarm functions, called by tick() and add_alarm() in the middle of
\* their work, arm and disarm alarms, the list holds the enabled alarms, each
\* once; an alarm's own function does not arm it while add_alarm() runs it.
THEOREM ListStaysExact ==
  ASSUME ~Rearm
  PROVE  Spec => []ListedExact
<1>1. ListInv => ListedExact
  BY BeingAddedIsAdded DEF ListInv, Listed, ListedExact
<1> QED
  BY <1>1, ListInvariance, PTL

LEMMA DueInvariance ==
  ASSUME ~Rearm, NoWrap
  PROVE  Spec => []DueInv
<1>1. TypeInv /\ ListInv /\ DueInv /\ [Next]_vars => DueInv'
  BY DueStep
<1> QED
  BY <1>1, CounterInit, TypeInvariance, ListInvariance, PTL DEF Spec

\* A tick leaves no listed alarm behind, for any increment and intervals and
\* whatever the alarm functions do (clock.cxx, tick's scan that starts again
\* after each alarm; synchronize()), as long as no trigger overflows.
THEOREM TickLeavesNothingOverdue ==
  ASSUME ~Rearm, NoWrap
  PROVE  Spec => []NothingOverdue
<1>1. DueInv => NothingOverdue
  BY DEF DueInv
<1> QED
  BY <1>1, DueInvariance, PTL

LEMMA PhaseInvariance ==
  ASSUME ~Rearm, NoWrap, Near
  PROVE  Spec => []PhaseInv
<1>1. /\ TypeInv /\ ListInv /\ DueInv /\ PhaseInv /\ [Next]_vars
      => PhaseInv'
  BY PhaseStep
<1> QED
  BY <1>1, CounterInit, TypeInvariance, ListInvariance, DueInvariance, PTL
     DEF Spec

\* A repeating alarm is due at a whole number of intervals from its first
\* trigger, and at the next such time, through late calls, disable() and
\* enable() (clock.cxx, tick, synchronize), when the first trigger is not more
\* than an interval away.
THEOREM AlarmsStayOnSchedule ==
  ASSUME ~Rearm, NoWrap, Near
  PROVE  Spec => []OnSchedule
<1>1. TypeInv /\ ListInv /\ PhaseInv => OnSchedule
  <2> SUFFICES ASSUME TypeInv, ListInv, PhaseInv,
                      NEW a \in ToSet(alarms.alarm_list),
                      alarms.interval[a] # 0
               PROVE  /\ (alarms.trigger[a] - first[a]) % alarms.interval[a] = 0
                      /\ alarms.trigger[a] <= counter + alarms.interval[a]
    BY DEF OnSchedule, InPhase
  <2>1. a \in Alarms
    BY DEF ListInv, Listed
  <2>2. /\ alarms.interval[a] \in Nat \ {0} /\ first[a] \in Nat
    BY <2>1 DEF TypeInv, CounterTypeOK, AlarmData
  <2>3. PICK n \in Nat : alarms.trigger[a] = first[a] + n * alarms.interval[a]
    BY <2>1 DEF PhaseInv, OnPhase
  <2>4. alarms.trigger[a] - first[a] = n * alarms.interval[a]
    <3>1. n * alarms.interval[a] \in Int
      BY <2>2
    <3> QED
      BY <2>2, <2>3, <3>1
  <2>5. (n * alarms.interval[a]) % alarms.interval[a] = 0
    BY <2>2, WholeIntervals
  <2> QED
    BY <2>1, <2>4, <2>5 DEF PhaseInv, OnPhase
<1> QED
  BY <1>1, TypeInvariance, ListInvariance, PhaseInvariance, PTL
==============================================================================
