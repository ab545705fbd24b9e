-------------------------------- MODULE Alarms ---------------------------------
(* The HAL's alarms: a circular list threaded through the alarms themselves, which *)
(* the program changes with interrupts disabled and alt_tick walks at interrupt    *)
(* level, calling back the alarms that are due.  A callback runs in the middle of  *)
(* the walk and may change the list under it.                                      *)
EXTENDS Naturals

CONSTANTS Alarm,       \* the alarms of drivers and programs
          Head,        \* alt_alarm_list
          Period,      \* what callbacks return and alarms are started with, in ticks
          MaxTicks,    \* bound on _alt_nticks
          CallbacksStopOthers   \* whether a callback may stop an alarm not its own

ASSUME AlarmsAssumption ==
  /\ Head \notin Alarm /\ Period \subseteq Nat \ {0} /\ MaxTicks \in Nat
  /\ CallbacksStopOthers \in BOOLEAN

VARIABLES next, previous,  \* alt_llist of the head and of every alarm
          time,            \* the tick of an alarm's next callback
          nticks,          \* _alt_nticks
          cursor           \* alt_tick: the alarm being looked at, Head when it is not running

list == << next, previous >>
vars == << list, time, nticks, cursor >>

Node == Alarm \cup {Head}
Registered == {a \in Alarm : next[a] # a}

\* ALT_LLIST_HEAD; an alarm that was never started counts as removed.
AlarmsInit ==
  /\ next = [x \in Node |-> x] /\ previous = [x \in Node |-> x]
  /\ time = [a \in Alarm |-> 0] /\ nticks = 0 /\ cursor = Head

----------------------------------------------------------------------------
InsertLosesRest(nx, pv, a) ==     \* mutant: the new entry points back at the head
  << [nx EXCEPT ![a] = Head, ![Head] = a], [pv EXCEPT ![Head] = a, ![a] = Head] >>
\* alt_llist_insert: the new first entry of the list.
Insert(nx, pv, a) ==
  << [nx EXCEPT ![a] = nx[Head], ![Head] = a],
     [[pv EXCEPT ![nx[Head]] = a] EXCEPT ![a] = Head] >>

\* alt_llist_remove: the entry is linked to itself, so removing it again is harmless.
Remove(nx, pv, a) ==
  << [[nx EXCEPT ![pv[a]] = nx[a]] EXCEPT ![a] = a],
     [[pv EXCEPT ![nx[a]] = pv[a]] EXCEPT ![a] = a] >>

SetList(l) == next' = l[1] /\ previous' = l[2]

FirstTickEarly(n) == nticks + n      \* mutant: the tick under way counts
FirstTick(n) == nticks + n + 1

\* alt_alarm_start and alt_alarm_stop, called by the program.
\* A start without an alarm (-EINVAL) or before there is a system clock (-ENOTSUP)
\* changes nothing: a stuttering step.
AlarmStart(a, n) ==
  /\ cursor = Head /\ a \notin Registered
  /\ time' = [time EXCEPT ![a] = FirstTick(n)]
  /\ SetList(Insert(next, previous, a))
  /\ UNCHANGED << nticks, cursor >>

AlarmStop(a) ==
  /\ cursor = Head
  /\ SetList(Remove(next, previous, a))
  /\ UNCHANGED << time, nticks, cursor >>

----------------------------------------------------------------------------
\* alt_tick: the counter moves, then every alarm in the list is looked at.
TickEnter ==
  /\ cursor = Head /\ nticks < MaxTicks
  /\ nticks' = nticks + 1 /\ cursor' = next[Head]
  /\ UNCHANGED << list, time >>

NotDue ==
  /\ cursor # Head /\ time[cursor] > nticks
  /\ cursor' = next[cursor]
  /\ UNCHANGED << list, time, nticks >>

\* What a callback may do to the list: nothing, start another alarm, stop one.
Stoppable == IF CallbacksStopOthers THEN Alarm ELSE {cursor}
CallbackEffect ==
  {[links |-> list, times |-> time]}
  \cup {[links |-> Insert(next, previous, b), times |-> [time EXCEPT ![b] = FirstTick(n)]] :
          b \in Alarm \ (Registered \cup {cursor}), n \in Period}
  \cup {[links |-> Remove(next, previous, b), times |-> time] : b \in Stoppable}

Rearm(t, r) == t + r

\* The alarm's successor is read before the callback and used after it.
CallBack ==
  /\ cursor # Head /\ time[cursor] <= nticks
  /\ \E e \in CallbackEffect :
       \/ /\ SetList(Remove(e.links[1], e.links[2], cursor))    \* it returned zero
          /\ time' = e.times
       \/ /\ SetList(e.links)
          /\ \E r \in Period : time' = [e.times EXCEPT ![cursor] = Rearm(@, r)]
  /\ cursor' = next[cursor]
  /\ UNCHANGED nticks

AlarmsNext ==
  \/ \E a \in Alarm : AlarmStop(a) \/ \E n \in Period : AlarmStart(a, n)
  \/ TickEnter \/ NotDue \/ CallBack

AlarmsSpec == AlarmsInit /\ [][AlarmsNext]_vars

----------------------------------------------------------------------------
AlarmsTypeOK ==
  /\ next \in [Node -> Node] /\ previous \in [Node -> Node]
  /\ \A a \in Alarm : \E n \in Period \cup {0} : time[a] \in 0 .. MaxTicks + n + 1
  /\ nticks \in 0 .. MaxTicks
  /\ cursor \in Node

\* The links go both ways, whatever was inserted and removed in whatever order
\* and from whatever context.
LinksPaired == \A x \in Node : previous[next[x]] = x /\ next[previous[x]] = x

\* The list is one ring: nothing is registered that a walk from the head does
\* not reach, the walk being the least set that is closed under next; as the links
\* go both ways it comes back to the head.
OneRing ==
  \A walk \in SUBSET Node :
    Head \in walk /\ (\A x \in walk : next[x] \in walk) => Registered \subseteq walk

\* The alarms are the abstract set: each is called at its tick, not early and not
\* late, and no tick passes with a due alarm left uncalled.
Set == INSTANCE AlarmSet WITH clock <- nticks, due <- [a \in Registered |-> time[a]]
ImplementsAlarmSet == Set!SetSpec

================================================================================
