------------------------------- MODULE Time_proof -------------------------------
(* The services that keep time, for any number of alarms, ticks, rates, zones and  *)
(* delays: the list of alarms stays one ring and is the abstract set of alarms,    *)
(* the clock gives the time passed, and the busy sleep the time asked for.         *)
EXTENDS MCTime, TLAPS

----------------------------------------------------------------------------
(* The alarms. *)

Links(nx, pv) ==
    /\ nx \in [Node -> Node] /\ pv \in [Node -> Node]
    /\ \A x \in Node : pv[nx[x]] = x /\ nx[pv[x]] = x

\* The registered alarms of a list, and the sets a walk cannot leave.
Reg(nx) == {a \in Alarm : nx[a] # a}
Closed(nx, walk) == Head \in walk /\ \A x \in walk : nx[x] \in walk
Reached(nx) == \A walk \in SUBSET Node : Closed(nx, walk) => Reg(nx) \subseteq walk

\* No time lies further ahead than a callback or a start may put it.
TimesBounded(t) ==
    t \in [Alarm -> Nat] /\ \A a \in Alarm : \E n \in Period \cup {0} : t[a] \in 0 .. MaxTicks + n + 1

AlarmsInv ==
    /\ Links(next, previous) /\ Reached(next) /\ TimesBounded(time)
    /\ nticks \in 0 .. MaxTicks /\ cursor \in Node
    /\ service # "alarms" => Registered = {} /\ cursor = Head

\* What alt_tick has not come to yet: the sets that a walk from the cursor to the head
\* does not leave have every alarm that is due.
Due == {a \in Registered : time[a] = nticks}
Ahead(nx, x, walk) == x \in walk /\ \A y \in walk : y # Head => nx[y] \in walk
WalkInv ==
    /\ cursor # Head => cursor \in Registered
    /\ \A a \in Registered : time[a] >= nticks
    /\ \A walk \in SUBSET Node : Ahead(next, cursor, walk) => Due \subseteq walk

----------------------------------------------------------------------------
(* The clock. *)

ClockTypes ==
    /\ tick_rate \in Rates \cup {0} /\ timezone \in Zones
    /\ base \in [sec : Nat, usec : 0 .. US - 1, ticks : Nat]
    /\ call \in Clock!Calls \cup {Clock!NoCall} /\ startTicks \in 0 .. nticks
    /\ result.name \in {"none", "ENOTSUP", "ENOSYS", "time", "set", "ticks"}

\* alt_resettime is what was set less the ticks there were, none before the first set.
ResetTime ==
    IF tick_rate = 0
    THEN resettime = [sec |-> 0, usec |-> 0] /\ base = [sec |-> 0, usec |-> 0, ticks |-> 0]
    ELSE resettime = [sec |-> base.sec - Clock!Seconds(base.ticks),
                      usec |-> base.usec - Clock!Micros(base.ticks)]

\* The word a call has loaded is of a number the counter had while it ran.
WordLoaded ==
    IF call = Clock!NoCall THEN first = Clock!NoWord
    ELSE \/ first = Clock!NoWord
         \/ \E n \in startTicks .. nticks :
               first \in {[part |-> "low", word |-> n % WordSize],
                          [part |-> "high", word |-> n \div WordSize]}

ResultTrue ==
    /\ tick_rate = 0 => result.name \notin {"time", "ticks"}
    /\ result.name = "time" => result.ticks \in Nat
    /\ Clock!ElapsedExact

ClockInv == ClockTypes /\ ResetTime /\ WordLoaded /\ ResultTrue /\ Clock!TornOnlyByCarry

----------------------------------------------------------------------------
(* The busy sleep. *)

SleepInv ==
    /\ asked \in Delays /\ pc \in {"start", "big", "short", "done"}
    /\ pc = "start" => us = asked /\ i = 0 /\ cycles = 0
    /\ pc = "short" => us = asked /\ big_loops = 0 /\ cycles = 0
    /\ pc = "big" =>
          /\ big_loops = asked \div Sleep!MicrosPerBigLoop /\ big_loops > 0
          /\ i \in 0 .. big_loops /\ us = asked - Sleep!MicrosPerBigLoop * i
          /\ cycles = CYCLES_PER_LOOP * (INT_MAX * i)
    /\ Sleep!SleepsAsAsked

----------------------------------------------------------------------------
(* The list: what an insertion and a removal make of a ring. *)

\* Insert keeps the links paired and the list one ring; it adds the new alarm.
LEMMA InsertRing ==
  ASSUME NEW nx, NEW pv, NEW a \in Alarm, Links(nx, pv), Reached(nx), a \notin Reg(nx)
  PROVE  /\ Links(Insert(nx, pv, a)[1], Insert(nx, pv, a)[2])
         /\ Reached(Insert(nx, pv, a)[1])
         /\ Reg(Insert(nx, pv, a)[1]) = Reg(nx) \cup {a}
         /\ \A y \in Node : y # Head => nx[y] \in {Insert(nx, pv, a)[1][y], y}
<1> DEFINE n == nx[Head]
           nx2 == [nx EXCEPT ![a] = nx[Head], ![Head] = a]
           pv2 == [[pv EXCEPT ![nx[Head]] = a] EXCEPT ![a] = Head]
<1>1. Insert(nx, pv, a)[1] = nx2 /\ Insert(nx, pv, a)[2] = pv2
  BY DEF Insert
<1>2. /\ a \in Node /\ Head \in Node /\ a # Head
      /\ nx \in [Node -> Node] /\ pv \in [Node -> Node] /\ n \in Node
  BY AlarmsAssumption DEF Links, Node
<1>3. /\ nx[a] = a /\ pv[a] = a /\ pv[n] = Head /\ n # a
      /\ \A x \in Node : pv[nx[x]] = x /\ nx[pv[x]] = x
  BY <1>2 DEF Links, Reg
<1>4. /\ nx2 \in [Node -> Node] /\ pv2 \in [Node -> Node]
      /\ nx2[a] = n /\ nx2[Head] = a /\ \A x \in Node \ {a, Head} : nx2[x] = nx[x]
      /\ pv2[a] = Head /\ pv2[n] = a /\ \A x \in Node \ {a, n} : pv2[x] = pv[x]
  BY <1>2, <1>3
<1> HIDE DEF n, nx2, pv2
<1>5. Links(nx2, pv2)
  <2>1. ASSUME NEW x \in Node PROVE pv2[nx2[x]] = x
    <3>1. CASE x \in {a, Head}
      BY <3>1, <1>2, <1>3, <1>4
    <3>2. CASE x \notin {a, Head}
      <4>1. nx[x] \in Node /\ pv[nx[x]] = x
        BY <1>2, <1>3
      <4>2. nx[x] # a /\ nx[x] # n
        BY <4>1, <3>2, <1>3
      <4>3. QED
        BY <4>1, <4>2, <3>2, <1>4
    <3>3. QED
      BY <3>1, <3>2
  <2>2. ASSUME NEW x \in Node PROVE nx2[pv2[x]] = x
    <3>1. CASE x \in {a, n}
      BY <3>1, <1>2, <1>3, <1>4
    <3>2. CASE x \notin {a, n}
      <4>1. pv[x] \in Node /\ nx[pv[x]] = x
        BY <1>2, <1>3
      <4>2. pv[x] # a /\ pv[x] # Head
        BY <4>1, <3>2, <1>3 DEF n
      <4>3. QED
        BY <4>1, <4>2, <3>2, <1>4
    <3>3. QED
      BY <3>1, <3>2
  <2>3. QED
    BY <2>1, <2>2, <1>4 DEF Links
<1>6. Reg(nx2) = Reg(nx) \cup {a}
  <2>1. ASSUME NEW x \in Alarm, x # a PROVE nx2[x] = nx[x]
    BY <2>1, <1>4, AlarmsAssumption DEF Node
  <2>2. nx2[a] # a
    BY <1>3, <1>4
  <2>3. QED
    BY <2>1, <2>2 DEF Reg
<1>7. Reached(nx2)
  <2> SUFFICES ASSUME NEW walk \in SUBSET Node, Closed(nx2, walk) PROVE Reg(nx2) \subseteq walk
    BY DEF Reached
  <2>1. Head \in walk /\ a \in walk /\ n \in walk
    BY <1>4 DEF Closed
  <2>2. ASSUME NEW x \in walk PROVE nx[x] \in walk
    <3>1. CASE x \in {a, Head}
      BY <3>1, <2>1, <1>3 DEF n
    <3>2. CASE x \notin {a, Head}
      BY <3>2, <1>4 DEF Closed
    <3>3. QED
      BY <3>1, <3>2
  <2>3. Reg(nx) \subseteq walk
    BY <2>1, <2>2 DEF Reached, Closed
  <2>4. QED
    BY <2>1, <2>3, <1>6
<1>8. ASSUME NEW y \in Node, y # Head PROVE nx[y] \in {nx2[y], y}
  BY <1>8, <1>3, <1>4
<1>9. QED
  BY <1>1, <1>5, <1>6, <1>7, <1>8

\* Remove keeps the links paired and the list one ring; it takes the alarm out, if it
\* is there, and no other.
LEMMA RemoveRing ==
  ASSUME NEW nx, NEW pv, NEW a \in Alarm, Links(nx, pv), Reached(nx)
  PROVE  /\ Links(Remove(nx, pv, a)[1], Remove(nx, pv, a)[2])
         /\ Reached(Remove(nx, pv, a)[1])
         /\ Reg(Remove(nx, pv, a)[1]) = Reg(nx) \ {a}
         /\ \A y \in Node : y # a => nx[y] \in {Remove(nx, pv, a)[1][y], a}
         /\ a \notin Reg(nx) => Remove(nx, pv, a) = << nx, pv >>
<1> DEFINE n == nx[a]
           p == pv[a]
           nx2 == [[nx EXCEPT ![pv[a]] = nx[a]] EXCEPT ![a] = a]
           pv2 == [[pv EXCEPT ![nx[a]] = pv[a]] EXCEPT ![a] = a]
<1>1. Remove(nx, pv, a) = << nx2, pv2 >>
  BY DEF Remove
<1>2. /\ a \in Node /\ Head \in Node /\ a # Head
      /\ nx \in [Node -> Node] /\ pv \in [Node -> Node] /\ n \in Node /\ p \in Node
  BY AlarmsAssumption DEF Links, Node
<1>3. /\ nx[p] = a /\ pv[n] = a /\ nx[a] = n /\ pv[a] = p
      /\ \A x \in Node : pv[nx[x]] = x /\ nx[pv[x]] = x
  BY <1>2 DEF Links
<1>4. CASE a \notin Reg(nx)
  <2>1. n = a /\ p = a
    BY <1>2, <1>3, <1>4 DEF Reg
  <2>2. nx2 = nx /\ pv2 = pv
    BY <2>1, <1>2
  <2>3. Remove(nx, pv, a) = << nx, pv >> /\ Reg(nx) \ {a} = Reg(nx)
    BY <2>2, <1>1, <1>4
  <2> HIDE DEF nx2, pv2
  <2>4. Remove(nx, pv, a)[1] = nx /\ Remove(nx, pv, a)[2] = pv
    BY <2>3
  <2>5. QED
    BY <2>3, <2>4
<1>5. CASE a \in Reg(nx)
  <2>1. n # a /\ p # a
    BY <1>2, <1>3, <1>5 DEF Reg
  <2>2. /\ nx2 \in [Node -> Node] /\ pv2 \in [Node -> Node]
        /\ nx2[a] = a /\ nx2[p] = n /\ \A x \in Node \ {a, p} : nx2[x] = nx[x]
        /\ pv2[a] = a /\ pv2[n] = p /\ \A x \in Node \ {a, n} : pv2[x] = pv[x]
    BY <2>1, <1>2
  <2> HIDE DEF n, p, nx2, pv2
  <2>3. Links(nx2, pv2)
    <3>1. ASSUME NEW x \in Node PROVE pv2[nx2[x]] = x
      <4>1. CASE x \in {a, p}
        BY <4>1, <2>1, <2>2
      <4>2. CASE x \notin {a, p}
        <5>1. nx[x] \in Node /\ pv[nx[x]] = x
          BY <1>2, <1>3
        <5>2. nx[x] # a /\ nx[x] # n
          BY <5>1, <4>2, <1>3
        <5>3. QED
          BY <5>1, <5>2, <4>2, <2>2
      <4>3. QED
        BY <4>1, <4>2
    <3>2. ASSUME NEW x \in Node PROVE nx2[pv2[x]] = x
      <4>1. CASE x \in {a, n}
        BY <4>1, <2>1, <2>2
      <4>2. CASE x \notin {a, n}
        <5>1. pv[x] \in Node /\ nx[pv[x]] = x
          BY <1>2, <1>3
        <5>2. pv[x] # a /\ pv[x] # p
          BY <5>1, <4>2, <1>3
        <5>3. QED
          BY <5>1, <5>2, <4>2, <2>2
      <4>3. QED
        BY <4>1, <4>2
    <3>3. QED
      BY <3>1, <3>2, <2>2 DEF Links
  \* Two alarms that are each other's neighbour would be a ring beside the head's.
  <2>4. p \in Alarm => n # p
    <3> SUFFICES ASSUME p \in Alarm, n = p PROVE FALSE
      OBVIOUS
    <3>1. p # Head /\ Node \ {a, p} \in SUBSET Node
      BY AlarmsAssumption
    <3>2. \A x \in Node \ {a, p} : nx[x] \in Node \ {a, p}
      BY <1>2, <1>3
    <3>3. Closed(nx, Node \ {a, p})
      BY <3>1, <3>2, <1>2 DEF Closed
    <3>4. Reg(nx) \subseteq Node \ {a, p}
      BY <3>1, <3>3 DEF Reached
    <3>5. QED
      BY <3>4, <1>5
  <2>5. Reg(nx2) = Reg(nx) \ {a}
    <3>1. ASSUME NEW x \in Alarm, x # a PROVE nx2[x] # x <=> nx[x] # x
      <4>1. CASE x = p
        BY <4>1, <3>1, <2>2, <2>4, <1>3
      <4>2. CASE x # p
        BY <4>2, <3>1, <2>2 DEF Node
      <4>3. QED
        BY <4>1, <4>2
    <3>2. QED
      BY <3>1, <2>2 DEF Reg
  <2>6. Reached(nx2)
    <3> SUFFICES ASSUME NEW walk \in SUBSET Node, Closed(nx2, walk)
                 PROVE  Reg(nx2) \subseteq walk
      BY DEF Reached
    <3> DEFINE walk2 == IF p \in walk THEN walk \cup {a} ELSE walk \ {a}
    <3>1. walk2 \in SUBSET Node /\ Head \in walk2
      BY <1>2 DEF Closed
    <3>2. ASSUME NEW x \in walk2 PROVE nx[x] \in walk2
      <4>1. CASE x = a
        <5>1. p \in walk /\ n = nx2[p]
          BY <4>1, <3>2, <2>2
        <5>2. QED
          BY <5>1, <4>1, <1>3 DEF Closed
      <4>2. CASE x = p
        BY <4>2, <3>2, <2>1, <1>3
      <4>3. CASE x \notin {a, p}
        <5>1. x \in walk /\ x \in Node
          BY <4>3, <3>2
        <5>2. nx[x] \in walk
          BY <5>1, <4>3, <2>2 DEF Closed
        <5>3. nx[x] # a
          BY <5>1, <4>3, <1>3
        <5>4. QED
          BY <5>2, <5>3
      <4>4. QED
        BY <4>1, <4>2, <4>3
    <3>3. Reg(nx) \subseteq walk2
      BY <3>1, <3>2 DEF Reached, Closed
    <3>4. QED
      BY <3>3, <2>5
  <2>7. ASSUME NEW y \in Node, y # a PROVE nx[y] \in {nx2[y], a}
    BY <2>7, <2>2, <1>3
  <2>8. QED
    BY <2>3, <2>5, <2>6, <2>7, <1>1, <1>5
<1>6. QED
  BY <1>4, <1>5

----------------------------------------------------------------------------
(* The alarms: types, pairs and the ring through every step. *)

\* An alarm that is started, at a tick there is, gets a time within the bound.
LEMMA StartBounded ==
  ASSUME TimesBounded(time), nticks \in 0 .. MaxTicks, NEW a \in Alarm, NEW n \in Period
  PROVE  /\ FirstTick(n) \in Nat /\ FirstTick(n) > nticks
         /\ TimesBounded([time EXCEPT ![a] = FirstTick(n)])
<1> DEFINE t == [time EXCEPT ![a] = FirstTick(n)]
<1>1. n \in Nat /\ MaxTicks \in Nat /\ nticks \in Nat /\ nticks <= MaxTicks
  BY AlarmsAssumption
<1>2. FirstTick(n) \in 0 .. MaxTicks + n + 1 /\ FirstTick(n) \in Nat /\ FirstTick(n) > nticks
  BY <1>1 DEF FirstTick
<1>3. /\ t \in [Alarm -> Nat] /\ t[a] = FirstTick(n)
      /\ \A b \in Alarm \ {a} : t[b] = time[b]
  BY <1>2 DEF TimesBounded
<1> HIDE DEF t
<1>4. ASSUME NEW b \in Alarm PROVE \E m \in Period \cup {0} : t[b] \in 0 .. MaxTicks + m + 1
  <2>1. CASE b = a
    BY <2>1, <1>2, <1>3
  <2>2. CASE b # a
    BY <2>2, <1>3 DEF TimesBounded
  <2>3. QED
    BY <2>1, <2>2
<1>5. TimesBounded(t)
  BY <1>3, <1>4 DEF TimesBounded
<1>6. QED
  BY <1>2, <1>5 DEF t

\* An alarm that is called, at its tick or after it, and due again gets one too.
LEMMA RearmBounded ==
  ASSUME NEW t, TimesBounded(t), nticks \in 0 .. MaxTicks, NEW a \in Alarm, NEW r \in Period,
         t[a] <= nticks
  PROVE  /\ t[a] \in Nat /\ Rearm(t[a], r) > t[a]
         /\ TimesBounded([t EXCEPT ![a] = Rearm(@, r)])
<1> DEFINE t2 == [t EXCEPT ![a] = Rearm(@, r)]
<1>1. r \in Nat /\ r > 0 /\ MaxTicks \in Nat /\ nticks \in Nat /\ nticks <= MaxTicks
  BY AlarmsAssumption
<1>2. t[a] \in Nat
  BY DEF TimesBounded
<1>3. PICK u \in Nat : u = t[a]
  BY <1>2
<1>4. u <= nticks
  BY <1>3
<1>5. u + r \in Nat /\ u + r > u /\ u + r \in 0 .. MaxTicks + r + 1
  BY <1>1, <1>3, <1>4
<1>6. Rearm(t[a], r) = u + r
  BY <1>3 DEF Rearm
<1>7. /\ t2 \in [Alarm -> Nat] /\ t2[a] = u + r
      /\ \A b \in Alarm \ {a} : t2[b] = t[b]
  BY <1>5, <1>6 DEF TimesBounded
<1> HIDE DEF t2
<1>8. ASSUME NEW b \in Alarm PROVE \E m \in Period \cup {0} : t2[b] \in 0 .. MaxTicks + m + 1
  <2>1. CASE b = a
    BY <2>1, <1>5, <1>7
  <2>2. CASE b # a
    BY <2>2, <1>7 DEF TimesBounded
  <2>3. QED
    BY <2>1, <2>2
<1>9. TimesBounded(t2)
  BY <1>7, <1>8 DEF TimesBounded
<1>10. QED
  BY <1>2, <1>3, <1>5, <1>6, <1>9 DEF t2

\* Whatever a callback does, the list it leaves is paired and one ring, and the time of
\* the alarm that is called is what it was.
LEMMA EffectRing ==
  ASSUME AlarmsInv, cursor # Head, NEW e \in CallbackEffect
  PROVE  /\ cursor \in Alarm
         /\ Links(e.links[1], e.links[2]) /\ Reached(e.links[1])
         /\ TimesBounded(e.times) /\ e.times[cursor] = time[cursor]
<1>1. cursor \in Alarm
  BY DEF AlarmsInv, Node
<1>2. Links(next, previous) /\ Reached(next) /\ TimesBounded(time) /\ nticks \in 0 .. MaxTicks
  BY DEF AlarmsInv
<1>3. CASE e = [links |-> list, times |-> time]
  BY <1>1, <1>2, <1>3 DEF list
<1>4. ASSUME NEW b \in Alarm \ (Registered \cup {cursor}), NEW n \in Period,
             e = [links |-> Insert(next, previous, b), times |-> [time EXCEPT ![b] = FirstTick(n)]]
      PROVE  /\ Links(e.links[1], e.links[2]) /\ Reached(e.links[1])
             /\ TimesBounded(e.times) /\ e.times[cursor] = time[cursor]
  <2>1. b \in Alarm /\ b \notin Reg(next) /\ b # cursor
    BY DEF Registered, Reg
  <2>2. /\ Links(Insert(next, previous, b)[1], Insert(next, previous, b)[2])
        /\ Reached(Insert(next, previous, b)[1])
    BY <2>1, <1>2, InsertRing
  <2>3. TimesBounded([time EXCEPT ![b] = FirstTick(n)])
    BY <2>1, <1>2, StartBounded
  <2>4. e.links = Insert(next, previous, b) /\ e.times = [time EXCEPT ![b] = FirstTick(n)]
    BY <1>4
  <2>5. e.times[cursor] = time[cursor]
    BY <2>1, <2>4, <1>1, <1>2 DEF TimesBounded
  <2>6. QED
    BY <2>2, <2>3, <2>4, <2>5
<1>5. ASSUME NEW b \in Stoppable, e = [links |-> Remove(next, previous, b), times |-> time]
      PROVE  /\ Links(e.links[1], e.links[2]) /\ Reached(e.links[1])
             /\ TimesBounded(e.times) /\ e.times[cursor] = time[cursor]
  <2>1. b \in Alarm
    BY <1>1 DEF Stoppable
  <2>2. /\ Links(Remove(next, previous, b)[1], Remove(next, previous, b)[2])
        /\ Reached(Remove(next, previous, b)[1])
    BY <2>1, <1>2, RemoveRing
  <2>3. e.links = Remove(next, previous, b) /\ e.times = time
    BY <1>5
  <2>4. QED
    BY <2>2, <2>3, <1>2
<1>6. QED
  BY <1>1, <1>3, <1>4, <1>5 DEF CallbackEffect

\* A tick interrupt, with all the callbacks it makes, and the program's calls.
LEMMA AlarmsNext_Inv ==
  ASSUME AlarmsInv, service = "alarms", AlarmsNext, service' = service
  PROVE  AlarmsInv'
<1>1. /\ Links(next, previous) /\ Reached(next) /\ TimesBounded(time)
      /\ nticks \in 0 .. MaxTicks /\ cursor \in Node
      /\ next \in [Node -> Node]
  BY DEF AlarmsInv, Links
<1> DEFINE Kept == Links(next', previous') /\ Reached(next') /\ TimesBounded(time')
<1>2. Kept /\ nticks' \in 0 .. MaxTicks /\ cursor' \in Node => AlarmsInv'
  <2>1. (service # "alarms")' = FALSE
    BY Zenon
  <2>2. Kept => Links(next, previous)' /\ Reached(next)' /\ TimesBounded(time)'
    BY DEF Links, Reached, Closed, Reg, TimesBounded
  <2>3. QED
    BY <2>1, <2>2 DEF AlarmsInv
<1>3. ASSUME NEW a \in Alarm, NEW n \in Period, AlarmStart(a, n) PROVE AlarmsInv'
  <2>1. /\ a \notin Reg(next) /\ time' = [time EXCEPT ![a] = FirstTick(n)]
        /\ next' = Insert(next, previous, a)[1] /\ previous' = Insert(next, previous, a)[2]
        /\ nticks' = nticks /\ cursor' = cursor
    BY <1>3 DEF AlarmStart, SetList, Registered, Reg
  <2>2. Links(next', previous') /\ Reached(next')
    BY <2>1, <1>1, InsertRing
  <2>3. TimesBounded(time')
    BY <2>1, <1>1, StartBounded
  <2>4. QED
    BY <2>1, <2>2, <2>3, <1>1, <1>2
<1>4. ASSUME NEW a \in Alarm, AlarmStop(a) PROVE AlarmsInv'
  <2>1. /\ next' = Remove(next, previous, a)[1] /\ previous' = Remove(next, previous, a)[2]
        /\ time' = time /\ nticks' = nticks /\ cursor' = cursor
    BY <1>4 DEF AlarmStop, SetList
  <2>2. Links(next', previous') /\ Reached(next')
    BY <2>1, <1>1, RemoveRing
  <2>3. QED
    BY <2>1, <2>2, <1>1, <1>2
<1>5. CASE TickEnter
  <2>1. /\ next' = next /\ previous' = previous /\ time' = time
        /\ nticks < MaxTicks /\ nticks' = nticks + 1 /\ cursor' = next[Head]
    BY <1>5 DEF TickEnter, list
  <2>2. cursor' \in Node
    BY <2>1, <1>1 DEF Node
  <2>3. nticks' \in 0 .. MaxTicks
    BY <2>1, <1>1, AlarmsAssumption
  <2>4. QED
    BY <2>1, <2>2, <2>3, <1>1, <1>2
<1>6. CASE NotDue
  <2>1. /\ next' = next /\ previous' = previous /\ time' = time
        /\ nticks' = nticks /\ cursor' = next[cursor]
    BY <1>6 DEF NotDue, list
  <2>2. QED
    BY <2>1, <1>1, <1>2
<1>7. CASE CallBack
  <2>1. /\ cursor # Head /\ time[cursor] <= nticks
        /\ nticks' = nticks /\ cursor' = next[cursor]
    BY <1>7 DEF CallBack
  <2>2. PICK e \in CallbackEffect :
           \/ SetList(Remove(e.links[1], e.links[2], cursor)) /\ time' = e.times
           \/ /\ SetList(e.links)
              /\ \E r \in Period : time' = [e.times EXCEPT ![cursor] = Rearm(@, r)]
    BY <1>7 DEF CallBack
  <2>3. /\ cursor \in Alarm
        /\ Links(e.links[1], e.links[2]) /\ Reached(e.links[1])
        /\ TimesBounded(e.times) /\ e.times[cursor] = time[cursor]
    BY <2>1, EffectRing
  <2>4. CASE SetList(Remove(e.links[1], e.links[2], cursor)) /\ time' = e.times
    <3>1. /\ next' = Remove(e.links[1], e.links[2], cursor)[1]
          /\ previous' = Remove(e.links[1], e.links[2], cursor)[2]
      BY <2>4 DEF SetList
    <3>2. Links(next', previous') /\ Reached(next')
      BY <3>1, <2>3, RemoveRing
    <3>3. QED
      BY <3>2, <2>1, <2>3, <2>4, <1>1, <1>2
  <2>5. ASSUME NEW r \in Period, SetList(e.links), time' = [e.times EXCEPT ![cursor] = Rearm(@, r)]
        PROVE  AlarmsInv'
    <3>1. next' = e.links[1] /\ previous' = e.links[2]
      BY <2>5 DEF SetList
    <3>2. e.times[cursor] <= nticks
      BY <2>1, <2>3
    <3>3. TimesBounded(time')
      BY <3>2, <2>3, <2>5, <1>1, RearmBounded
    <3>4. QED
      BY <3>1, <3>3, <2>1, <2>3, <1>1, <1>2
  <2>6. QED
    BY <2>2, <2>4, <2>5
<1>8. QED
  BY <1>3, <1>4, <1>5, <1>6, <1>7 DEF AlarmsNext

----------------------------------------------------------------------------
(* The alarms: what alt_tick still has to call, where a callback stops no alarm but *)
(* its own.                                                                         *)

\* What a callback makes of the alarms: the one called has gone or is due again a period
\* later, at most one other is born, and nothing else moves.
Newborn == {{}} \cup {{b} : b \in Alarm \ (Registered \cup {cursor})}
Outcome(gone, born) ==
    /\ Registered' = (Registered \ gone) \cup born
    /\ gone = {} => \E r \in Period : time'[cursor] = time[cursor] + r
    /\ \A a \in born : \E n \in Period : time'[a] = FirstTick(n)
    /\ \A a \in Registered \ {cursor} : time'[a] = time[a]
    /\ \A y \in Node \ {Head, cursor} : next[y] \in {next'[y], y, cursor}

\* Every callback has one of these outcomes.
LEMMA CallBackOutcome ==
  ASSUME AlarmsInv, ~CallbacksStopOthers, CallBack
  PROVE  \E gone \in {{}, {cursor}}, born \in Newborn : Outcome(gone, born)
<1>1. /\ Links(next, previous) /\ Reached(next) /\ TimesBounded(time)
      /\ nticks \in 0 .. MaxTicks /\ cursor \in Node
  BY DEF AlarmsInv
<1>2. cursor # Head /\ cursor \in Alarm /\ time[cursor] <= nticks
  BY <1>1 DEF CallBack, Node
<1>3. PICK e \in CallbackEffect :
         \/ SetList(Remove(e.links[1], e.links[2], cursor)) /\ time' = e.times
         \/ /\ SetList(e.links)
            /\ \E r \in Period : time' = [e.times EXCEPT ![cursor] = Rearm(@, r)]
  BY DEF CallBack
<1>4. /\ Links(e.links[1], e.links[2]) /\ Reached(e.links[1])
      /\ TimesBounded(e.times) /\ e.times[cursor] = time[cursor]
  BY <1>2, EffectRing
\* The effect itself: an alarm is born, or the called one stops itself, or neither.
<1>5. \E born \in Newborn, gone \in {{}, {cursor}} :
         /\ Reg(e.links[1]) = (Registered \ gone) \cup born
         /\ \A a \in born : \E n \in Period : e.times[a] = FirstTick(n)
         /\ \A a \in Registered \ {cursor} : e.times[a] = time[a]
         /\ \A y \in Node \ {Head, cursor} : next[y] \in {e.links[1][y], y, cursor}
  <2>1. CASE e = [links |-> list, times |-> time]
    <3>1. e.links[1] = next /\ e.times = time /\ Reg(next) = (Registered \ {}) \cup {}
      BY <2>1 DEF list, Reg, Registered
    <3>2. {} \in Newborn
      BY DEF Newborn
    <3>3. QED
      BY <3>1, <3>2
  <2>2. ASSUME NEW b \in Alarm \ (Registered \cup {cursor}), NEW n \in Period,
               e = [links |-> Insert(next, previous, b), times |-> [time EXCEPT ![b] = FirstTick(n)]]
        PROVE  /\ Reg(e.links[1]) = (Registered \ {}) \cup {b} /\ {b} \in Newborn
               /\ e.times[b] = FirstTick(n)
               /\ \A a \in Registered \ {cursor} : e.times[a] = time[a]
               /\ \A y \in Node \ {Head, cursor} : next[y] \in {e.links[1][y], y, cursor}
    <3>1. /\ b \in Alarm /\ b \notin Reg(next) /\ b \notin Registered /\ Reg(next) = Registered
          /\ e.links = Insert(next, previous, b) /\ e.times = [time EXCEPT ![b] = FirstTick(n)]
      BY <2>2 DEF Registered, Reg
    <3>2. /\ Reg(Insert(next, previous, b)[1]) = Reg(next) \cup {b}
          /\ \A y \in Node : y # Head => next[y] \in {Insert(next, previous, b)[1][y], y}
      BY <3>1, <1>1, InsertRing
    <3>3. /\ e.times[b] = FirstTick(n)
          /\ \A a \in Registered \ {cursor} : e.times[a] = time[a]
      BY <3>1, <1>1 DEF TimesBounded, Registered
    <3>4. QED
      BY <3>1, <3>2, <3>3 DEF Newborn
  <2>3. CASE e = [links |-> Remove(next, previous, cursor), times |-> time]
    <3>1. /\ Reg(Remove(next, previous, cursor)[1]) = Reg(next) \ {cursor}
          /\ \A y \in Node : y # cursor => next[y] \in {Remove(next, previous, cursor)[1][y], cursor}
      BY <1>1, <1>2, RemoveRing
    <3>2. e.links = Remove(next, previous, cursor) /\ e.times = time /\ Reg(next) = Registered
      BY <2>3 DEF Reg, Registered
    <3>3. {} \in Newborn
      BY DEF Newborn
    <3>4. /\ Reg(e.links[1]) = (Registered \ {cursor}) \cup {}
          /\ \A y \in Node \ {Head, cursor} : next[y] \in {e.links[1][y], y, cursor}
      BY <3>1, <3>2
    <3>5. QED
      BY <3>2, <3>3, <3>4
  <2>4. Stoppable = {cursor}
    BY DEF Stoppable
  <2>5. \/ e = [links |-> list, times |-> time]
        \/ \E b \in Alarm \ (Registered \cup {cursor}), n \in Period :
              e = [links |-> Insert(next, previous, b), times |-> [time EXCEPT ![b] = FirstTick(n)]]
        \/ e = [links |-> Remove(next, previous, cursor), times |-> time]
    BY <2>4 DEF CallbackEffect
  <2>6. CASE \E b \in Alarm \ (Registered \cup {cursor}), n \in Period :
               e = [links |-> Insert(next, previous, b), times |-> [time EXCEPT ![b] = FirstTick(n)]]
    <3>1. PICK b \in Alarm \ (Registered \cup {cursor}), n \in Period :
             e = [links |-> Insert(next, previous, b), times |-> [time EXCEPT ![b] = FirstTick(n)]]
      BY <2>6
    <3>2. \A a \in {b} : \E m \in Period : e.times[a] = FirstTick(m)
      BY <3>1, <2>2
    <3>3. {} \in {{}, {cursor}} /\ {b} \in Newborn
      BY <3>1, <2>2
    <3>4. QED
      BY <3>1, <3>2, <3>3, <2>2
  <2>7. QED
    BY <2>1, <2>3, <2>5, <2>6
<1>6. PICK born \in Newborn, gone \in {{}, {cursor}} :
         /\ Reg(e.links[1]) = (Registered \ gone) \cup born
         /\ \A a \in born : \E n \in Period : e.times[a] = FirstTick(n)
         /\ \A a \in Registered \ {cursor} : e.times[a] = time[a]
         /\ \A y \in Node \ {Head, cursor} : next[y] \in {e.links[1][y], y, cursor}
  BY <1>5
<1>7. Registered' = Reg(next') /\ cursor \notin born /\ born \subseteq Alarm
  BY DEF Registered, Reg, Newborn
\* Then it returns zero and is removed, or a period.
<1>8. CASE SetList(Remove(e.links[1], e.links[2], cursor)) /\ time' = e.times
  <2>1. next' = Remove(e.links[1], e.links[2], cursor)[1]
    BY <1>8 DEF SetList
  <2>2. /\ Reg(next') = Reg(e.links[1]) \ {cursor}
        /\ \A y \in Node : y # cursor => e.links[1][y] \in {next'[y], cursor}
    BY <2>1, <1>2, <1>4, RemoveRing
  <2>3. Registered' = (Registered \ {cursor}) \cup born
    BY <2>2, <1>6, <1>7
  <2>4. \A y \in Node \ {Head, cursor} : next[y] \in {next'[y], y, cursor}
    BY <2>2, <1>6
  <2>5. Outcome({cursor}, born)
    BY <2>3, <2>4, <1>6, <1>8 DEF Outcome
  <2>6. QED
    BY <2>5
<1>9. ASSUME NEW r \in Period, SetList(e.links), time' = [e.times EXCEPT ![cursor] = Rearm(@, r)]
      PROVE  Outcome(gone, born)
  <2>1. next' = e.links[1]
    BY <1>9 DEF SetList
  <2>2. /\ time'[cursor] = time[cursor] + r
        /\ \A a \in Alarm \ {cursor} : time'[a] = e.times[a]
    BY <1>2, <1>4, <1>9 DEF TimesBounded, Rearm
  <2>3. \A a \in Registered : a \in Alarm
    BY DEF Registered
  <2>4. /\ \A a \in born : \E n \in Period : time'[a] = FirstTick(n)
        /\ \A a \in Registered \ {cursor} : time'[a] = time[a]
    BY <2>2, <2>3, <1>6, <1>7
  <2>5. QED
    BY <2>1, <2>2, <2>4, <1>6, <1>7 DEF Outcome
<1>10. QED
  BY <1>3, <1>6, <1>8, <1>9

\* The alarm after a registered one is the head or registered.
LEMMA NextRegistered ==
  ASSUME AlarmsInv, NEW x \in Node, next[x] # x, next[x] # Head
  PROVE  next[x] \in Registered
<1>1. next[x] \in Alarm /\ previous[next[x]] = x
  BY DEF AlarmsInv, Links, Node
<1>2. previous[next[next[x]]] = next[x]
  BY <1>1 DEF AlarmsInv, Links, Node
<1>3. next[next[x]] # next[x]
  BY <1>1, <1>2
<1>4. QED
  BY <1>1, <1>3 DEF Registered

\* alt_tick comes to every alarm that is due, whatever the callbacks do meanwhile.
LEMMA AlarmsNext_Walk ==
  ASSUME AlarmsInv, WalkInv, ~CallbacksStopOthers, AlarmsNext
  PROVE  WalkInv'
<1>1. /\ Links(next, previous) /\ Reached(next) /\ TimesBounded(time)
      /\ nticks \in Nat /\ cursor \in Node
      /\ next \in [Node -> Node] /\ time \in [Alarm -> Nat]
  BY DEF AlarmsInv, Links, TimesBounded
<1>2. Registered = Reg(next) /\ Registered' = Reg(next') /\ Head \in Node /\ Head \notin Alarm
  BY AlarmsAssumption DEF Registered, Reg, Node
<1>3. ASSUME NEW a \in Alarm, NEW n \in Period, AlarmStart(a, n) PROVE WalkInv'
  <2>1. /\ a \notin Reg(next) /\ time' = [time EXCEPT ![a] = FirstTick(n)]
        /\ next' = Insert(next, previous, a)[1]
        /\ nticks' = nticks /\ cursor' = cursor /\ cursor = Head
    BY <1>3 DEF AlarmStart, SetList, Registered, Reg
  <2>2. Registered' = Registered \cup {a}
    BY <2>1, <1>1, <1>2, InsertRing
  <2>3. FirstTick(n) \in Nat /\ FirstTick(n) > nticks
    BY <1>1, StartBounded DEF AlarmsInv
  <2>4. Due = {}
    <3>1. Ahead(next, cursor, {Head}) /\ {Head} \in SUBSET Node
      BY <2>1, <1>2 DEF Ahead
    <3>2. QED
      BY <3>1, <1>2 DEF WalkInv, Due, Registered
  <2>5. time'[a] = FirstTick(n) /\ \A b \in Registered : b # a /\ time'[b] = time[b]
    BY <2>1, <1>1, <1>2 DEF Registered
  <2>6. \A b \in Registered' : time'[b] >= nticks'
    BY <2>1, <2>2, <2>3, <2>5, <1>1 DEF WalkInv
  <2>7. Due' = {}
    BY <2>1, <2>2, <2>3, <2>4, <2>5, <1>1 DEF Due
  <2>8. QED
    BY <2>1, <2>6, <2>7 DEF WalkInv
<1>4. ASSUME NEW a \in Alarm, AlarmStop(a) PROVE WalkInv'
  <2>1. /\ next' = Remove(next, previous, a)[1] /\ time' = time
        /\ nticks' = nticks /\ cursor' = cursor /\ cursor = Head
    BY <1>4 DEF AlarmStop, SetList
  <2>2. Registered' = Registered \ {a}
    BY <2>1, <1>1, <1>2, RemoveRing
  <2>3. Due = {}
    <3>1. Ahead(next, cursor, {Head}) /\ {Head} \in SUBSET Node
      BY <2>1, <1>2 DEF Ahead
    <3>2. QED
      BY <3>1, <1>2 DEF WalkInv, Due, Registered
  <2>4. Due' = {} /\ \A b \in Registered' : time'[b] >= nticks'
    BY <2>1, <2>2, <2>3 DEF Due, WalkInv
  <2>5. QED
    BY <2>1, <2>4 DEF WalkInv
<1>5. CASE TickEnter
  <2>1. /\ next' = next /\ time' = time /\ Registered' = Registered
        /\ nticks' = nticks + 1 /\ cursor = Head /\ cursor' = next[Head]
    BY <1>5 DEF TickEnter, list, Registered
  <2>2. Due = {}
    <3>1. Ahead(next, cursor, {Head}) /\ {Head} \in SUBSET Node
      BY <2>1, <1>2 DEF Ahead
    <3>2. QED
      BY <3>1, <1>2 DEF WalkInv, Due, Registered
  <2>3. \A a \in Registered' : time'[a] >= nticks'
    <3>1. SUFFICES ASSUME NEW a \in Registered PROVE time[a] >= nticks + 1
      BY <2>1
    <3>2. time[a] \in Nat /\ time[a] >= nticks /\ time[a] # nticks
      BY <2>2, <1>1 DEF WalkInv, Due, Registered
    <3>3. QED
      BY <3>2, <1>1
  <2>4. cursor' # Head => cursor' \in Registered'
    BY <2>1, <1>2, NextRegistered
  <2>5. ASSUME NEW walk \in SUBSET Node, Ahead(next, next[Head], walk) PROVE Due' \subseteq walk
    <3>1. Closed(next, walk \cup {Head}) /\ walk \cup {Head} \in SUBSET Node
      BY <2>5, <1>2 DEF Ahead, Closed
    <3>2. Registered \subseteq walk \cup {Head}
      BY <3>1, <1>1, <1>2 DEF Reached
    <3>3. QED
      BY <3>2, <2>1, <1>2 DEF Due, Registered
  <2>6. QED
    BY <2>1, <2>3, <2>4, <2>5 DEF WalkInv
<1>6. CASE NotDue
  <2>1. /\ next' = next /\ time' = time /\ Registered' = Registered /\ nticks' = nticks
        /\ Due' = Due /\ cursor # Head /\ time[cursor] > nticks /\ cursor' = next[cursor]
    BY <1>6 DEF NotDue, list, Registered, Due
  <2>2. cursor \in Registered /\ next[cursor] # cursor /\ cursor \notin Due
    BY <2>1, <1>1 DEF WalkInv, Registered, Due
  <2>3. cursor' # Head => cursor' \in Registered'
    BY <2>1, <2>2, <1>1, NextRegistered
  <2>4. ASSUME NEW walk \in SUBSET Node, Ahead(next, next[cursor], walk) PROVE Due \subseteq walk
    <3>1. Ahead(next, cursor, walk \cup {cursor}) /\ walk \cup {cursor} \in SUBSET Node
      BY <2>4, <1>1 DEF Ahead
    <3>2. QED
      BY <3>1, <2>2 DEF WalkInv
  <2>5. QED
    BY <2>1, <2>3, <2>4 DEF WalkInv
<1>7. CASE CallBack
  <2>1. nticks' = nticks /\ cursor # Head /\ time[cursor] <= nticks /\ cursor' = next[cursor]
    BY <1>7 DEF CallBack
  <2>2. cursor \in Registered /\ cursor \in Alarm /\ next[cursor] # cursor
    BY <2>1 DEF WalkInv, Registered
  <2>3. PICK gone \in {{}, {cursor}}, born \in Newborn : Outcome(gone, born)
    BY <1>7, CallBackOutcome
  <2>4. time[cursor] \in Nat /\ time[cursor] = nticks
    BY <2>1, <2>2, <1>1 DEF WalkInv
  <2>5. ASSUME NEW a \in born PROVE time'[a] \in Nat /\ time'[a] > nticks
    BY <1>1, <2>3, StartBounded DEF Outcome, AlarmsInv, Newborn
  <2>6. cursor \in Registered' => time'[cursor] \in Nat /\ time'[cursor] > nticks
    <3>1. cursor \notin born
      BY <2>3 DEF Newborn
    <3>2. cursor \in Registered' => gone = {}
      BY <3>1, <2>3 DEF Outcome
    <3>3. \A r \in Period : nticks + r \in Nat /\ nticks + r > nticks
      BY <1>1, AlarmsAssumption
    <3>4. gone = {} => \E r \in Period : time'[cursor] = nticks + r
      BY <2>3, <2>4 DEF Outcome
    <3>5. QED
      BY <3>2, <3>3, <3>4
  <2>7. ASSUME NEW a \in Registered', a # cursor, a \notin born
        PROVE  a \in Registered /\ time'[a] = time[a]
    BY <2>3, <2>7 DEF Outcome
  <2>8. \A a \in Registered' : time'[a] >= nticks'
    BY <2>1, <2>5, <2>6, <2>7, <1>1 DEF WalkInv
  <2>9. Due' \subseteq Due \ {cursor}
    <3>1. SUFFICES ASSUME NEW a \in Registered', time'[a] = nticks PROVE a \in Due \ {cursor}
      BY <2>1 DEF Due
    <3>2. a # cursor /\ a \notin born
      BY <3>1, <2>5, <2>6, <1>1
    <3>3. QED
      BY <3>1, <3>2, <2>7 DEF Due
  <2>10. cursor' # Head => cursor' \in Registered'
    <3>1. SUFFICES ASSUME next[cursor] # Head PROVE next[cursor] \in Registered'
      BY <2>1
    <3>2. next[cursor] \in Registered
      BY <3>1, <2>2, <1>1, NextRegistered
    <3>3. QED
      BY <3>2, <2>2, <2>3 DEF Outcome
  <2>11. ASSUME NEW walk \in SUBSET Node, Ahead(next', next[cursor], walk) PROVE Due' \subseteq walk
    <3>1. ASSUME NEW y \in walk \cup {cursor}, y # Head PROVE next[y] \in walk \cup {cursor}
      <4>1. CASE y = cursor
        BY <4>1, <2>11 DEF Ahead
      <4>2. CASE y # cursor
        <5>1. y \in walk /\ next'[y] \in walk /\ y \in Node \ {Head, cursor}
          BY <4>2, <3>1, <2>11 DEF Ahead
        <5>2. next[y] \in {next'[y], y, cursor}
          BY <5>1, <2>3 DEF Outcome
        <5>3. QED
          BY <5>1, <5>2
      <4>3. QED
        BY <4>1, <4>2
    <3>2. Ahead(next, cursor, walk \cup {cursor}) /\ walk \cup {cursor} \in SUBSET Node
      BY <3>1, <1>1 DEF Ahead
    <3>3. QED
      BY <3>2, <2>9 DEF WalkInv
  <2>12. QED
    BY <2>1, <2>8, <2>10, <2>11 DEF WalkInv
<1>8. QED
  BY <1>3, <1>4, <1>5, <1>6, <1>7 DEF AlarmsNext

----------------------------------------------------------------------------
(* The alarms are the abstract set. *)

\* A step of the alarms is a step of the set, or leaves it as it was.
LEMMA AlarmsNext_Set ==
  ASSUME AlarmsInv, WalkInv, ~CallbacksStopOthers, AlarmsNext
  PROVE  [Set!SetNext]_Set!setVars
<1> DEFINE D == [a \in Registered |-> time[a]]
           D2 == [a \in Registered' |-> time'[a]]
<1>1. /\ Links(next, previous) /\ Reached(next) /\ TimesBounded(time)
      /\ nticks \in Nat /\ cursor \in Node
      /\ next \in [Node -> Node] /\ time \in [Alarm -> Nat]
  BY DEF AlarmsInv, Links, TimesBounded
<1>2. /\ Registered = Reg(next) /\ Registered' = Reg(next')
      /\ Registered \subseteq Alarm /\ Head \in Node /\ Head \notin Alarm
  BY AlarmsAssumption DEF Registered, Reg, Node
<1>3. DOMAIN D = Registered /\ \A a \in Registered : D[a] = time[a]
  OBVIOUS
<1>4. ASSUME NEW a \in Alarm, NEW n \in Period, AlarmStart(a, n) PROVE Set!SetNext
  <2>1. /\ a \notin Registered /\ a \notin Reg(next) /\ time' = [time EXCEPT ![a] = FirstTick(n)]
        /\ next' = Insert(next, previous, a)[1] /\ nticks' = nticks
    BY <1>2, <1>4 DEF AlarmStart, SetList
  <2>2. Registered' = Registered \cup {a}
    BY <2>1, <1>1, <1>2, InsertRing
  <2>3. D2 = [x \in DOMAIN D \cup {a} |-> IF x = a THEN nticks + n + 1 ELSE D[x]]
    <3>1. time'[a] = nticks + n + 1
      BY <2>1, <1>1 DEF FirstTick
    <3>2. \A x \in Registered : x # a /\ time'[x] = time[x]
      BY <2>1, <1>1, <1>2
    <3>3. QED
      BY <3>1, <3>2, <2>2, <1>3
  <2>4. Set!Start(a, n)
    BY <2>1, <2>3, <1>3 DEF Set!Start, Set!With
  <2>5. QED
    BY <2>4 DEF Set!SetNext
<1>5. ASSUME NEW a \in Alarm, AlarmStop(a) PROVE Set!SetNext \/ UNCHANGED Set!setVars
  <2>1. /\ next' = Remove(next, previous, a)[1] /\ time' = time /\ nticks' = nticks
    BY <1>5 DEF AlarmStop, SetList
  <2>2. Registered' = Registered \ {a}
    BY <2>1, <1>1, <1>2, RemoveRing
  <2>3. CASE a \in Registered
    <3>1. D2 = [x \in DOMAIN D \ {a} |-> D[x]]
      BY <2>1, <2>2, <1>3
    <3>2. Set!Stop(a)
      BY <3>1, <2>1, <2>3, <1>3 DEF Set!Stop, Set!Without
    <3>3. QED
      BY <3>2 DEF Set!SetNext
  <2>4. CASE a \notin Registered
    <3>1. D2 = D
      BY <2>1, <2>2, <2>4
    <3>2. QED
      BY <3>1, <2>1 DEF Set!setVars
  <2>5. QED
    BY <2>3, <2>4
<1>6. CASE TickEnter
  <2>1. /\ time' = time /\ Registered' = Registered /\ nticks' = nticks + 1 /\ cursor = Head
    BY <1>6 DEF TickEnter, list, Registered
  <2>2. Due = {}
    <3>1. Ahead(next, cursor, {Head}) /\ {Head} \in SUBSET Node
      BY <2>1, <1>2 DEF Ahead
    <3>2. QED
      BY <3>1, <1>2 DEF WalkInv, Due
  <2>3. ASSUME NEW a \in Registered PROVE D[a] > nticks
    <3>1. time[a] \in Nat /\ time[a] >= nticks /\ time[a] # nticks
      BY <2>2, <1>1, <1>2 DEF WalkInv, Due
    <3>2. QED
      BY <3>1, <1>1, <1>3
  <2>4. D2 = D
    BY <2>1
  <2>5. Set!Advance
    BY <2>1, <2>3, <2>4, <1>3 DEF Set!Advance
  <2>6. QED
    BY <2>5 DEF Set!SetNext
<1>7. CASE NotDue
  <2>1. time' = time /\ Registered' = Registered /\ nticks' = nticks
    BY <1>7 DEF NotDue, list, Registered
  <2>2. QED
    BY <2>1 DEF Set!setVars
<1>8. CASE CallBack
  <2>1. nticks' = nticks /\ cursor # Head /\ time[cursor] <= nticks
    BY <1>8 DEF CallBack
  <2>2. cursor \in Registered /\ cursor \in Alarm
    BY <2>1, <1>2 DEF WalkInv
  <2>3. PICK gone \in {{}, {cursor}}, born \in Newborn : Outcome(gone, born)
    BY <1>8, CallBackOutcome
  <2>4. D[cursor] = nticks
    <3>1. time[cursor] \in Nat /\ time[cursor] >= nticks
      BY <2>2, <1>1 DEF WalkInv
    <3>2. QED
      BY <3>1, <2>1, <2>2, <1>1, <1>3
  <2>5. PICK c \in Alarm : c = cursor
    BY <2>2
  <2>6. CASE born = {}
    <3>1. CASE gone = {cursor}
      <4>1. D2 = [x \in DOMAIN D \ {cursor} |-> D[x]]
        BY <3>1, <2>3, <2>6, <1>3 DEF Outcome
      <4>2. Set!Call(c)
        BY <4>1, <2>5, <2>1, <2>2, <2>4, <1>3 DEF Set!Call, Set!Without
      <4>3. QED
        BY <4>2 DEF Set!SetNext
    <3>2. CASE gone = {}
      <4>1. PICK r \in Period : time'[cursor] = D[cursor] + r
        BY <3>2, <2>2, <2>3, <1>3 DEF Outcome
      <4>2. D2 = [x \in DOMAIN D \cup {cursor} |-> IF x = cursor THEN D[cursor] + r ELSE D[x]]
        BY <4>1, <3>2, <2>2, <2>3, <2>6, <1>3 DEF Outcome
      <4>3. Set!Call(c)
        BY <4>2, <2>5, <2>1, <2>2, <2>4, <1>3 DEF Set!Call, Set!With
      <4>4. QED
        BY <4>3 DEF Set!SetNext
    <3>3. QED
      BY <3>1, <3>2
  <2>7. ASSUME NEW b \in Alarm \ (Registered \cup {cursor}), born = {b} PROVE Set!SetNext
    <3>1. b # cursor /\ b \notin Registered
      OBVIOUS
    <3>2. PICK n \in Period : time'[b] = nticks + n + 1
      BY <2>3, <2>7 DEF Outcome, FirstTick
    <3>3. \A x \in Registered \ {cursor} : time'[x] = D[x] /\ x # b
      BY <3>1, <2>3, <1>3 DEF Outcome
    <3>4. Registered' = (Registered \ gone) \cup {b}
      BY <2>3, <2>7 DEF Outcome
    <3>5. CASE gone = {cursor}
      <4>1. D2 = [x \in (DOMAIN D \ {cursor}) \cup {b} |-> IF x = b THEN nticks + n + 1 ELSE D[x]]
        BY <3>1, <3>2, <3>3, <3>4, <3>5, <1>3
      <4>2. Set!CallAndStart(c, b, n)
        BY <4>1, <2>5, <3>1, <2>1, <2>2, <2>4, <1>3 DEF Set!CallAndStart
      <4>3. QED
        BY <4>2, <3>2, <2>2 DEF Set!SetNext
    <3>6. CASE gone = {}
      <4>1. PICK r \in Period : time'[cursor] = D[cursor] + r
        BY <3>6, <2>2, <2>3, <1>3 DEF Outcome
      <4>2. D2 = [x \in DOMAIN D \cup {b} |->
                    IF x = b THEN nticks + n + 1 ELSE IF x = cursor THEN D[cursor] + r ELSE D[x]]
        BY <4>1, <3>1, <3>2, <3>3, <3>4, <3>6, <1>3
      <4>3. Set!CallAndStart(c, b, n)
        BY <4>2, <2>5, <3>1, <2>1, <2>2, <2>4, <1>3 DEF Set!CallAndStart
      <4>4. QED
        BY <4>3, <3>2, <2>2 DEF Set!SetNext
    <3>7. QED
      BY <3>5, <3>6
  <2>8. QED
    BY <2>6, <2>7 DEF Newborn
<1>9. QED
  BY <1>4, <1>5, <1>6, <1>7, <1>8 DEF AlarmsNext

----------------------------------------------------------------------------
(* Arithmetic of the clock. *)

\* Quotient and remainder.
LEMMA DivMod ==
  ASSUME NEW n \in Nat, NEW d \in Nat, d > 0
  PROVE  n \div d \in Nat /\ n % d \in 0 .. d - 1 /\ n = d * (n \div d) + (n % d)
<1>1. n \div d \in Nat /\ n % d \in Nat /\ n % d < d /\ n = d * (n \div d) + (n % d)
  OBVIOUS
<1>2. QED
  BY <1>1

\* Both are told by the one way to write the number with them.
LEMMA DivUnique ==
  ASSUME NEW d \in Nat, NEW k \in Nat, NEW m \in 0 .. d - 1, NEW n, n = d * k + m
  PROVE  n \div d = k /\ n % d = m
<1>1. n \in Nat /\ d > 0 /\ d * k \in Nat
  OBVIOUS
<1>2. PICK q \in Nat : q = n \div d
  BY <1>1
<1>3. PICK r \in 0 .. d - 1 : r = n % d
  BY <1>1, DivMod
<1>4. n = d * q + r
  BY <1>1, <1>2, <1>3
<1>5. ~(q > k)
  <2>1. q > k => d * q >= d * (k + 1)
    OBVIOUS
  <2>2. QED
    BY <2>1, <1>4
<1>6. ~(q < k)
  <2>1. q < k => d * k >= d * (q + 1)
    OBVIOUS
  <2>2. QED
    BY <2>1, <1>4
<1>7. QED
  BY <1>2, <1>3, <1>4, <1>5, <1>6

\* Quotients grow with the number.
LEMMA DivMono ==
  ASSUME NEW n \in Nat, NEW m \in Nat, NEW d \in Nat, d > 0, m <= n
  PROVE  m \div d <= n \div d
<1> DEFINE j == m \div d
           k == n \div d
<1>1. j \in Nat /\ k \in Nat /\ d * j <= m /\ n < d * (k + 1)
  BY DivMod
<1> HIDE DEF j, k
<1>2. ~(j > k)
  <2>1. j > k => d * j >= d * (k + 1)
    BY <1>1
  <2>2. QED
    BY <2>1, <1>1
<1>3. QED
  BY <1>1, <1>2 DEF j, k

\* A number put together from the words of two numbers is between them, if the high
\* words are the same.
LEMMA ReadWord ==
  ASSUME NEW w \in Nat, w > 0, NEW n \in Nat, NEW s \in Nat, NEW m \in s .. n
  PROVE  /\ (m % w) + w * (n \div w) \in Nat /\ (n % w) + w * (m \div w) \in Nat
         /\ s \div w = n \div w =>
              /\ (m % w) + w * (n \div w) \in s .. n
              /\ (n % w) + w * (m \div w) \in s .. n
<1>1. m \in Nat /\ s <= m /\ m <= n
  OBVIOUS
<1>2. /\ n \div w \in Nat /\ n % w \in 0 .. w - 1 /\ n = w * (n \div w) + (n % w)
      /\ m \div w \in Nat /\ m % w \in 0 .. w - 1 /\ m = w * (m \div w) + (m % w)
  BY <1>1, DivMod
<1>3. s \div w <= m \div w /\ m \div w <= n \div w /\ s \div w \in Nat
  BY <1>1, DivMod, DivMono
<1>4. s \div w = n \div w => m \div w = n \div w
  BY <1>2, <1>3
<1>5. (m % w) + w * (n \div w) \in Nat /\ (n % w) + w * (m \div w) \in Nat
  BY <1>2
<1>6. m \div w = n \div w => (m % w) + w * (n \div w) = m /\ (n % w) + w * (m \div w) = n
  BY <1>2
<1>7. m \in s .. n /\ n \in s .. n
  BY <1>1
<1>8. QED
  BY <1>4, <1>5, <1>6, <1>7

\* The whole seconds and the microseconds of a number of ticks, of which r make a
\* second, each of q microseconds.
LEMMA MicrosOfTicks ==
  ASSUME NEW n \in Nat, NEW r \in Nat, r > 0, NEW q \in Nat, q > 0, US \in Nat, US = q * r
  PROVE  (n \div r) * US + ((n * q) % US) = n * q
<1>1. PICK s \in Nat : s = n \div r
  BY DivMod
<1>2. PICK m \in 0 .. r - 1 : m = n % r
  BY DivMod
<1>3. n = r * s + m
  BY <1>1, <1>2, DivMod
<1>4. n * q = US * s + m * q
  BY <1>3
<1>5. m * q \in 0 .. US - 1
  <2>1. r - m \in Nat /\ r - m > 0
    OBVIOUS
  <2>2. (r - m) * q > 0
    BY <2>1
  <2>3. QED
    BY <2>2
<1>6. PICK x \in Nat, y \in Nat : x = m * q /\ y = n * q
  OBVIOUS
<1>7. y = US * s + x /\ x \in 0 .. US - 1
  BY <1>4, <1>5, <1>6
<1>8. y % US = x
  BY <1>7, DivUnique
<1>9. (n * q) % US = m * q
  BY <1>6, <1>8
<1>10. s * US + m * q = n * q
  BY <1>4
<1>11. QED
  BY <1>1, <1>9, <1>10

\* A time is brought into its normal form without being changed.
LEMMA NormalForm ==
  ASSUME US \in Nat, US > 0, NEW s \in Int, NEW u \in Int, u > -US, u < 2 * US, s * US + u >= 0
  PROVE  /\ Clock!Normalise(s, u)[2] \in 0 .. US - 1
         /\ Clock!Normalise(s, u)[1] * US + Clock!Normalise(s, u)[2] = s * US + u
<1>1. CASE u < 0
  <2>1. s > 0
    <3>1. s <= 0 => s * US <= 0
      OBVIOUS
    <3>2. s * US > 0
      BY <1>1
    <3>3. QED
      BY <3>1, <3>2
  <2>2. Clock!Normalise(s, u)[1] = s - 1 /\ Clock!Normalise(s, u)[2] = u + US
    BY <1>1, <2>1 DEF Clock!Normalise
  <2>3. u + US \in 0 .. US - 1 /\ (s - 1) * US + (u + US) = s * US + u
    BY <1>1
  <2>4. QED
    BY <2>2, <2>3
<1>2. CASE u >= US
  <2>1. Clock!Normalise(s, u)[1] = s + 1 /\ Clock!Normalise(s, u)[2] = u - US
    BY <1>2 DEF Clock!Normalise
  <2>2. u - US \in 0 .. US - 1 /\ (s + 1) * US + (u - US) = s * US + u
    BY <1>2
  <2>3. QED
    BY <2>1, <2>2
<1>3. CASE ~(u < 0) /\ ~(u >= US)
  <2>1. Clock!Normalise(s, u)[1] = s /\ Clock!Normalise(s, u)[2] = u
    BY <1>3 DEF Clock!Normalise
  <2>2. QED
    BY <1>3, <2>1
<1>4. QED
  BY <1>1, <1>2, <1>3

----------------------------------------------------------------------------
(* The clock. *)

\* The system clock driver gives a rate that divides a second into whole microseconds.
RatesDivide == \A r \in Rates : US % r = 0

\* The constants, and a rate with the microseconds of its tick.
LEMMA ClockConstants ==
  /\ US \in Nat /\ US > 0 /\ WordSize \in Nat /\ WordSize > 0 /\ MaxTicks \in Nat
  /\ 0 \in Zones /\ Times \subseteq [sec : Nat, usec : 0 .. US - 1]
  /\ \A r \in Rates : r \in Nat /\ r > 0
BY ServicesAssumption DEF Clock!TimeAssumption

\* A second is the microseconds of a tick as often as there are ticks.
LEMMA TickMicros ==
  ASSUME RatesDivide, NEW r \in Rates
  PROVE  r \in Nat /\ r > 0 /\ US \div r \in Nat /\ US \div r > 0 /\ US = (US \div r) * r
<1>1. US \in Nat /\ US > 0 /\ r \in Nat /\ r > 0
  BY ClockConstants
<1>2. US % r = 0
  BY DEF RatesDivide
<1>3. PICK q \in Nat : q = US \div r
  BY <1>1, DivMod
<1>4. US = r * q + (US % r)
  BY <1>1, <1>3, DivMod
<1>5. US = r * q
  BY <1>1, <1>2, <1>4
<1>6. q > 0
  BY <1>1, <1>5
<1>7. US = q * r
  BY <1>1, <1>5
<1>8. QED
  BY <1>1, <1>3, <1>6, <1>7

\* What a call makes of its two loads.
LEMMA ClockRead ==
  ASSUME ClockInv, nticks \in 0 .. MaxTicks, first # Clock!NoWord
  PROVE  /\ call # Clock!NoCall /\ Clock!TicksRead \in Nat
         /\ startTicks \div WordSize = nticks \div WordSize =>
              Clock!TicksRead \in startTicks .. nticks
<1>1. call # Clock!NoCall
  BY DEF ClockInv, WordLoaded
<1>2. PICK n \in startTicks .. nticks :
         first \in {[part |-> "low", word |-> n % WordSize],
                    [part |-> "high", word |-> n \div WordSize]}
  BY <1>1 DEF ClockInv, WordLoaded
<1>3. PICK k \in Nat : k = nticks
  BY ClockConstants
<1>4. PICK s \in Nat : s = startTicks
  BY <1>3 DEF ClockInv, ClockTypes
<1>5. n \in s .. k /\ WordSize \in Nat /\ WordSize > 0
  BY <1>3, <1>4, ClockConstants
<1> DEFINE low == (n % WordSize) + WordSize * (k \div WordSize)
           high == (k % WordSize) + WordSize * (n \div WordSize)
<1>6. /\ low \in Nat /\ high \in Nat
      /\ s \div WordSize = k \div WordSize => low \in s .. k /\ high \in s .. k
  BY <1>5, ReadWord
<1>7. Clock!TicksRead = low \/ Clock!TicksRead = high
  <2>1. first.part = "low" => first.word = n % WordSize
    BY <1>2
  <2>2. first.part # "low" => first.word = n \div WordSize
    BY <1>2
  <2>3. QED
    BY <2>1, <2>2, <1>3 DEF Clock!TicksRead
<1> HIDE DEF low, high
<1>8. QED
  BY <1>1, <1>3, <1>4, <1>6, <1>7

\* What alt_resettime can be.
LEMMA ResetTimeTyped ==
  ASSUME ClockInv
  PROVE  resettime \in [sec : Int, usec : -US .. US]
<1>1. CASE tick_rate = 0
  BY <1>1, ClockConstants DEF ClockInv, ResetTime
<1>2. CASE tick_rate # 0
  <2>1. PICK r \in Rates : r = tick_rate
    BY <1>2 DEF ClockInv, ClockTypes
  <2>2. PICK b \in Nat, sec \in Nat, usec \in 0 .. US - 1 :
           b = base.ticks /\ sec = base.sec /\ usec = base.usec
    BY DEF ClockInv, ClockTypes
  <2>3. r \in Nat /\ r > 0 /\ US \in Nat /\ US > 0
    BY ClockConstants
  <2>4. b \div r \in Nat /\ US \div r \in Nat
    BY <2>3, DivMod
  <2>5. PICK q \in Nat : q = US \div r
    BY <2>4
  <2>6. b * q \in Nat
    OBVIOUS
  <2>7. (b * q) % US \in 0 .. US - 1
    BY <2>3, <2>6, DivMod
  <2>8. sec - (b \div r) \in Int /\ usec - ((b * q) % US) \in -US .. US
    BY <2>3, <2>4, <2>7
  <2>9. resettime = [sec |-> sec - (b \div r), usec |-> usec - ((b * q) % US)]
    BY <1>2, <2>1, <2>2, <2>5 DEF ClockInv, ResetTime, Clock!Seconds, Clock!Micros
  <2>10. QED
    BY <2>8, <2>9
<1>3. QED
  BY <1>1, <1>2

\* The clock starts: before that nothing was set and no call gave a time.
LEMMA SysclkInit_Inv ==
  ASSUME ClockInv, nticks \in 0 .. MaxTicks, NEW r \in Rates, Clock!SysclkInit(r)
  PROVE  ClockInv'
<1>1. /\ resettime' = resettime /\ base' = base /\ timezone' = timezone /\ nticks' = nticks
      /\ call' = call /\ first' = first /\ result' = result /\ startTicks' = startTicks
      /\ tick_rate' = IF tick_rate = 0 THEN r ELSE tick_rate
  BY DEF Clock!SysclkInit
<1>2. r \in Nat /\ r > 0 /\ US \in Nat /\ US > 0
  BY ClockConstants
<1>3. ClockTypes'
  <2>1. tick_rate' \in Rates \cup {0}
    BY <1>1 DEF ClockInv, ClockTypes
  <2>2. QED
    BY <1>1, <2>1 DEF ClockInv, ClockTypes
<1>4. CASE tick_rate # 0
  <2>1. tick_rate' = tick_rate
    BY <1>1, <1>4
  <2>2. ResetTime' /\ ResultTrue'
    BY <1>1, <2>1 DEF ClockInv, ResetTime, ResultTrue, Clock!Seconds, Clock!Micros,
                      Clock!ElapsedExact, Clock!InMicros
  <2>3. WordLoaded' /\ (Clock!TornOnlyByCarry)'
    BY <1>1 DEF ClockInv, WordLoaded, Clock!TornOnlyByCarry
  <2>4. QED
    BY <1>3, <2>2, <2>3 DEF ClockInv
<1>5. CASE tick_rate = 0
  <2>1. tick_rate' = r
    BY <1>1, <1>5
  <2>2. /\ resettime = [sec |-> 0, usec |-> 0] /\ base = [sec |-> 0, usec |-> 0, ticks |-> 0]
        /\ result.name # "time" /\ result.name # "ticks"
    BY <1>5 DEF ClockInv, ResetTime, ResultTrue
  <2>3. 0 \div r = 0 /\ 0 % US = 0
    <3>1. 0 = r * 0 + 0 /\ 0 = US * 0 + 0 /\ 0 \in 0 .. r - 1 /\ 0 \in 0 .. US - 1
      BY <1>2
    <3>2. QED
      BY <3>1, <1>2, DivUnique
  <2>4. PICK q \in Nat : q = US \div r
    BY <1>2, DivMod
  <2>5. 0 - (0 \div r) = 0 /\ 0 - ((0 * q) % US) = 0
    BY <2>3
  <2>6. resettime' = [sec |-> base'.sec - (base'.ticks \div r),
                      usec |-> base'.usec - ((base'.ticks * q) % US)]
    BY <1>1, <2>2, <2>5
  <2>7. ResetTime'
    BY <1>2, <2>1, <2>4, <2>6 DEF ResetTime, Clock!Seconds, Clock!Micros
  <2>8. ResultTrue'
    BY <1>1, <1>2, <2>1, <2>2 DEF ResultTrue, Clock!ElapsedExact
  <2>9. WordLoaded' /\ (Clock!TornOnlyByCarry)'
    BY <1>1 DEF ClockInv, WordLoaded, Clock!TornOnlyByCarry
  <2>10. QED
    BY <1>3, <2>7, <2>8, <2>9 DEF ClockInv
<1>6. QED
  BY <1>4, <1>5

\* A tick, of the clock or of the alarms: a number the counter had it still had, and
\* a carry that there was there still is.
LEMMA Tick_Inv ==
  ASSUME ClockInv, nticks \in 0 .. MaxTicks, nticks' = nticks + 1, UNCHANGED clockOnly
  PROVE  ClockInv'
<1>1. /\ resettime' = resettime /\ base' = base /\ timezone' = timezone /\ tick_rate' = tick_rate
      /\ call' = call /\ first' = first /\ result' = result /\ startTicks' = startTicks
  BY DEF clockOnly
<1>2. PICK k \in Nat : k = nticks
  BY ClockConstants
<1>3. PICK s \in Nat : s = startTicks /\ s <= k
  BY <1>2 DEF ClockInv, ClockTypes
<1>4. nticks' = k + 1 /\ k + 1 \in Nat /\ s \in 0 .. k + 1 /\ \A n \in s .. k : n \in s .. k + 1
  BY <1>2, <1>3
<1>5. ClockTypes'
  <2>1. startTicks' \in 0 .. nticks'
    BY <1>1, <1>3, <1>4
  <2>2. QED
    BY <1>1, <2>1 DEF ClockInv, ClockTypes
<1>6. ResetTime' /\ ResultTrue'
  BY <1>1 DEF ClockInv, ResetTime, ResultTrue, Clock!Seconds, Clock!Micros,
              Clock!ElapsedExact, Clock!InMicros
<1>7. WordLoaded'
  <2>1. CASE call = Clock!NoCall \/ first = Clock!NoWord
    BY <1>1, <2>1 DEF ClockInv, WordLoaded
  <2>2. CASE call # Clock!NoCall /\ first # Clock!NoWord
    <3>1. PICK n \in s .. k :
             first \in {[part |-> "low", word |-> n % WordSize],
                        [part |-> "high", word |-> n \div WordSize]}
      BY <1>2, <1>3, <2>2 DEF ClockInv, WordLoaded
    <3>2. n \in startTicks' .. nticks'
      BY <1>1, <1>3, <1>4, <3>1
    <3>3. \E m \in startTicks' .. nticks' :
             first' \in {[part |-> "low", word |-> m % WordSize],
                         [part |-> "high", word |-> m \div WordSize]}
      BY <1>1, <3>1, <3>2
    <3>4. QED
      BY <1>1, <2>2, <3>3 DEF WordLoaded
  <2>3. QED
    BY <2>1, <2>2
<1>8. (Clock!TornOnlyByCarry)'
  <2>1. s \div WordSize # k \div WordSize => s \div WordSize # (k + 1) \div WordSize
    <3>1. WordSize \in Nat /\ WordSize > 0 /\ k <= k + 1 /\ s <= k
      BY <1>3, ClockConstants
    <3>2. s \div WordSize <= k \div WordSize /\ k \div WordSize <= (k + 1) \div WordSize
      BY <3>1, <1>4, DivMono
    <3>3. s \div WordSize \in Nat /\ k \div WordSize \in Nat /\ (k + 1) \div WordSize \in Nat
      BY <3>1, <1>4, DivMod
    <3>4. QED
      BY <3>2, <3>3
  <2>2. SUFFICES ASSUME call = Clock!NoCall, result.name \in {"time", "ticks"}
                 PROVE  \/ result.ticks \in s .. k + 1
                        \/ s \div WordSize # (k + 1) \div WordSize
    BY <1>1, <1>3, <1>4 DEF Clock!TornOnlyByCarry
  <2>3. result.ticks \in s .. k \/ s \div WordSize # k \div WordSize
    BY <1>2, <1>3, <2>2 DEF ClockInv, Clock!TornOnlyByCarry
  <2>4. QED
    BY <1>4, <2>1, <2>3
<1>9. QED
  BY <1>5, <1>6, <1>7, <1>8 DEF ClockInv

\* A call begins, at the counter there is.
LEMMA Begin_Inv ==
  ASSUME ClockInv, nticks \in 0 .. MaxTicks, NEW c \in Clock!Calls, Clock!Begin(c)
  PROVE  ClockInv'
<1>1. /\ resettime' = resettime /\ base' = base /\ timezone' = timezone /\ tick_rate' = tick_rate
      /\ call' = c /\ first' = Clock!NoWord /\ result' = result
      /\ startTicks' = nticks /\ nticks' = nticks
  BY DEF Clock!Begin
<1>2. nticks \in 0 .. nticks
  BY ClockConstants
<1>3. c # Clock!NoCall
  BY DEF Clock!Calls, Clock!NoCall
<1>4. ClockTypes'
  BY <1>1, <1>2 DEF ClockInv, ClockTypes
<1>5. ResetTime' /\ ResultTrue'
  BY <1>1 DEF ClockInv, ResetTime, ResultTrue, Clock!Seconds, Clock!Micros,
              Clock!ElapsedExact, Clock!InMicros
<1>6. WordLoaded' /\ (Clock!TornOnlyByCarry)'
  BY <1>1, <1>3 DEF WordLoaded, Clock!TornOnlyByCarry
<1>7. QED
  BY <1>4, <1>5, <1>6 DEF ClockInv

\* A call loads a word of the counter there is.
LEMMA LoadFirst_Inv ==
  ASSUME ClockInv, nticks \in 0 .. MaxTicks, Clock!LoadFirst
  PROVE  ClockInv'
<1>1. /\ resettime' = resettime /\ base' = base /\ timezone' = timezone /\ tick_rate' = tick_rate
      /\ call' = call /\ call # Clock!NoCall /\ result' = result
      /\ startTicks' = startTicks /\ nticks' = nticks
      /\ first' \in {[part |-> "low", word |-> nticks % WordSize],
                     [part |-> "high", word |-> nticks \div WordSize]}
  BY DEF Clock!LoadFirst
<1>2. nticks \in startTicks .. nticks
  BY ClockConstants DEF ClockInv, ClockTypes
<1>3. ClockTypes'
  BY <1>1 DEF ClockInv, ClockTypes
<1>4. ResetTime' /\ ResultTrue'
  BY <1>1 DEF ClockInv, ResetTime, ResultTrue, Clock!Seconds, Clock!Micros,
              Clock!ElapsedExact, Clock!InMicros
<1>5. WordLoaded' /\ (Clock!TornOnlyByCarry)'
  BY <1>1, <1>2 DEF WordLoaded, Clock!TornOnlyByCarry
<1>6. QED
  BY <1>3, <1>4, <1>5 DEF ClockInv

\* gettimeofday gives the time set plus the time passed, in its normal form.
LEMMA TimeGiven ==
  ASSUME ClockInv, RatesDivide, tick_rate # 0,
         NEW t \in Nat, t >= base.ticks
  PROVE  LET n == Clock!Normalise(resettime.sec + Clock!Seconds(t), resettime.usec + Clock!Micros(t))
         IN  /\ n[2] \in 0 .. US - 1
             /\ n[1] * US + n[2]
                  = Clock!InMicros(base) + (t - base.ticks) * (US \div tick_rate)
<1>1. PICK r \in Rates : r = tick_rate
  BY DEF ClockInv, ClockTypes
<1>2. /\ US \in Nat /\ US > 0
      /\ r \in Nat /\ r > 0 /\ US \div r \in Nat /\ US \div r > 0 /\ US = (US \div r) * r
  BY ClockConstants, TickMicros
<1>3. PICK q \in Nat : q = US \div r
  BY <1>2
<1>4. q > 0 /\ US = q * r
  BY <1>2, <1>3
<1>5. PICK b \in Nat, sec \in Nat, usec \in 0 .. US - 1 :
         b = base.ticks /\ sec = base.sec /\ usec = base.usec
  BY DEF ClockInv, ClockTypes
<1>6. resettime = [sec |-> sec - (b \div r), usec |-> usec - ((b * q) % US)]
  BY <1>1, <1>3, <1>5 DEF ClockInv, ResetTime, Clock!Seconds, Clock!Micros
<1>7. PICK s, u : /\ s = (sec - (b \div r)) + (t \div r)
                  /\ u = (usec - ((b * q) % US)) + ((t * q) % US)
  OBVIOUS
<1>8. s = resettime.sec + Clock!Seconds(t) /\ u = resettime.usec + Clock!Micros(t)
  BY <1>1, <1>3, <1>6, <1>7 DEF Clock!Seconds, Clock!Micros
<1>9. t >= b
  BY <1>5
<1>10. /\ Clock!Normalise(s, u)[2] \in 0 .. US - 1
      /\ Clock!Normalise(s, u)[1] * US + Clock!Normalise(s, u)[2] = (sec * US + usec) + (t - b) * q
  <2>1. PICK bs \in Nat, ts \in Nat : bs = b \div r /\ ts = t \div r
    BY <1>2, DivMod
  <2>2. b * q \in Nat /\ t * q \in Nat
    OBVIOUS
  <2>3. PICK bu \in 0 .. US - 1, tu \in 0 .. US - 1 : bu = (b * q) % US /\ tu = (t * q) % US
    BY <1>2, <2>2, DivMod
  <2>4. bs * US + bu = b * q /\ ts * US + tu = t * q
    <3>1. \A n \in Nat : (n \div r) * US + ((n * q) % US) = n * q
      BY <1>2, <1>4, MicrosOfTicks
    <3>2. QED
      BY <2>1, <2>3, <3>1
  <2>5. s = (sec - bs) + ts /\ u = (usec - bu) + tu
    BY <1>7, <2>1, <2>3
  <2>6. s \in Int /\ u \in Int /\ u > -US /\ u < 2 * US
    BY <1>2, <2>5
  <2>7. s * US + u = (sec * US + usec) + (t - b) * q
    <3>1. s * US = sec * US - bs * US + ts * US
      BY <1>2, <2>5
    <3>2. (t - b) * q = t * q - b * q
      OBVIOUS
    <3>3. QED
      BY <1>2, <2>4, <2>5, <3>1, <3>2
  <2>8. s * US + u >= 0
    <3>1. sec * US >= 0 /\ (t - b) * q >= 0
      BY <1>2, <1>9
    <3>2. QED
      BY <1>2, <2>7, <3>1
  <2>9. QED
    BY <1>2, <2>6, <2>7, <2>8, NormalForm
<1>11. Clock!InMicros(base) = sec * US + usec
  BY <1>5 DEF Clock!InMicros
<1>12. QED
  BY <1>1, <1>3, <1>5, <1>8, <1>10, <1>11

\* A call ends with what it made of the number it read.
LEMMA Finish_Inv ==
  ASSUME ClockInv, RatesDivide, nticks \in 0 .. MaxTicks, Clock!Finish
  PROVE  ClockInv'
<1>1. /\ call' = Clock!NoCall /\ first' = Clock!NoWord
      /\ nticks' = nticks /\ tick_rate' = tick_rate /\ startTicks' = startTicks
  BY DEF Clock!Finish
<1>2. first # Clock!NoWord
  BY DEF Clock!Finish, Clock!GetTimeOfDay, Clock!SetTimeOfDay, Clock!TimesCall
<1>3. PICK t \in Nat :
         /\ t = Clock!TicksRead
         /\ startTicks \div WordSize = nticks \div WordSize => t \in startTicks .. nticks
  BY <1>2, ClockRead
<1>4. WordLoaded'
  BY <1>1 DEF WordLoaded
\* The calls that set nothing.
<1> DEFINE Unset == resettime' = resettime /\ timezone' = timezone /\ base' = base
<1>5. ASSUME Unset, result'.name \in {"none", "ENOTSUP", "ENOSYS", "time", "set", "ticks"}
      PROVE  ClockTypes' /\ ResetTime'
  <2>1. ClockTypes'
    BY <1>1, <1>5 DEF ClockInv, ClockTypes
  <2>2. ResetTime'
    BY <1>1, <1>5 DEF ClockInv, ResetTime, Clock!Seconds, Clock!Micros
  <2>3. QED
    BY <2>1, <2>2
<1>6. ASSUME result'.name \in {"ENOTSUP", "ENOSYS", "set"}
      PROVE  ResultTrue' /\ (Clock!TornOnlyByCarry)'
  <2>1. result'.name # "time" /\ result'.name # "ticks"
    BY <1>6
  <2>2. QED
    BY <2>1 DEF ResultTrue, Clock!ElapsedExact, Clock!TornOnlyByCarry
<1>7. ASSUME tick_rate # 0, result'.ticks = t
      PROVE  (Clock!TornOnlyByCarry)'
  BY <1>1, <1>3, <1>7 DEF Clock!TornOnlyByCarry
<1>8. CASE Clock!GetTimeOfDay
  <2>1. Unset
    BY <1>8 DEF Clock!GetTimeOfDay
  <2>2. CASE tick_rate = 0
    <3>1. result'.name = "ENOTSUP"
      BY <1>8, <2>2 DEF Clock!GetTimeOfDay
    <3>2. QED
      BY <3>1, <2>1, <1>4, <1>5, <1>6 DEF ClockInv
  <2>3. CASE tick_rate # 0
    <3> DEFINE s == resettime.sec + Clock!Seconds(t)
               u == resettime.usec + Clock!Micros(t)
               n == Clock!Normalise(s, u)
    <3>1. result' = [name |-> "time", sec |-> n[1], usec |-> n[2], zone |-> timezone, ticks |-> t]
      BY <1>3, <1>8, <2>3 DEF Clock!GetTimeOfDay
    <3>2. t >= base.ticks =>
            /\ n[2] \in 0 .. US - 1
            /\ n[1] * US + n[2] = Clock!InMicros(base) + (t - base.ticks) * (US \div tick_rate)
      BY <2>3, TimeGiven
    <3> HIDE DEF n
    <3>3. /\ result'.name = "time" /\ result'.ticks = t
          /\ result'.sec = n[1] /\ result'.usec = n[2]
      BY <3>1
    <3>4. /\ Clock!InMicros(result)' = n[1] * US + n[2]
          /\ Clock!InMicros(base)' = Clock!InMicros(base)
      BY <3>3, <2>1 DEF Clock!InMicros
    <3>5. (Clock!ElapsedExact)'
      BY <3>2, <3>3, <3>4, <2>1, <1>1 DEF Clock!ElapsedExact
    <3>6. ResultTrue'
      BY <3>3, <3>5, <2>3, <1>1 DEF ResultTrue
    <3>7. QED
      BY <3>3, <3>6, <2>1, <2>3, <1>4, <1>5, <1>7 DEF ClockInv
  <2>4. QED
    BY <2>2, <2>3
<1>9. CASE Clock!TimesCall
  <2>1. Unset
    BY <1>9 DEF Clock!TimesCall
  <2>2. CASE tick_rate = 0
    <3>1. result'.name = "ENOSYS"
      BY <1>9, <2>2 DEF Clock!TimesCall
    <3>2. QED
      BY <3>1, <2>1, <1>4, <1>5, <1>6 DEF ClockInv
  <2>3. CASE tick_rate # 0
    <3>1. result'.name = "ticks" /\ result'.ticks = t
      BY <1>3, <1>9, <2>3 DEF Clock!TimesCall
    <3>2. ResultTrue'
      BY <3>1, <2>3, <1>1 DEF ResultTrue, Clock!ElapsedExact
    <3>3. QED
      BY <3>1, <3>2, <2>1, <2>3, <1>4, <1>5, <1>7 DEF ClockInv
  <2>4. QED
    BY <2>2, <2>3
<1>10. CASE Clock!SetTimeOfDay
  <2>1. CASE tick_rate = 0
    <3>1. Unset /\ result'.name = "ENOSYS"
      BY <1>10, <2>1 DEF Clock!SetTimeOfDay
    <3>2. QED
      BY <3>1, <1>4, <1>5, <1>6 DEF ClockInv
  <2>2. CASE tick_rate # 0
    <3>1. /\ resettime' = [sec |-> call.time.sec - Clock!Seconds(t),
                           usec |-> call.time.usec - Clock!Micros(t)]
          /\ timezone' = call.zone
          /\ base' = [sec |-> call.time.sec, usec |-> call.time.usec, ticks |-> t]
          /\ result' = [name |-> "set"]
      BY <1>3, <1>10, <2>2 DEF Clock!SetTimeOfDay
    <3>2. call.time \in Times /\ call.zone \in Zones
      BY <1>10 DEF Clock!SetTimeOfDay, ClockInv, ClockTypes, Clock!Calls, Clock!NoCall
    <3>3. call.time.sec \in Nat /\ call.time.usec \in 0 .. US - 1
      BY <3>2, ClockConstants
    <3>4. ClockTypes'
      <4>1. base' \in [sec : Nat, usec : 0 .. US - 1, ticks : Nat]
        BY <3>1, <3>3
      <4>2. timezone' \in Zones /\ result'.name = "set"
        BY <3>1, <3>2
      <4>3. QED
        BY <4>1, <4>2, <1>1 DEF ClockInv, ClockTypes
    <3>5. ResetTime'
      BY <3>1, <2>2, <1>1 DEF ResetTime, Clock!Seconds, Clock!Micros
    <3>6. result'.name = "set"
      BY <3>1
    <3>7. QED
      BY <3>4, <3>5, <3>6, <1>4, <1>6 DEF ClockInv
  <2>3. QED
    BY <2>1, <2>2
<1>11. QED
  BY <1>8, <1>9, <1>10 DEF Clock!Finish

\* The clock keeps its invariant, whatever is called and whenever a tick comes.
LEMMA ClockNext_Inv ==
  ASSUME ClockInv, RatesDivide, nticks \in 0 .. MaxTicks, Clock!TimeNext
  PROVE  ClockInv' /\ nticks' \in 0 .. MaxTicks
<1>1. CASE Clock!Tick
  <2>1. nticks' = nticks + 1 /\ nticks < MaxTicks /\ UNCHANGED clockOnly
    BY <1>1 DEF Clock!Tick, clockOnly
  <2>2. nticks' \in 0 .. MaxTicks
    BY <2>1, ClockConstants
  <2>3. QED
    BY <2>1, <2>2, Tick_Inv
<1>2. ASSUME NEW r \in Rates, Clock!SysclkInit(r) PROVE ClockInv' /\ nticks' = nticks
  BY <1>2, SysclkInit_Inv DEF Clock!SysclkInit
<1>3. ASSUME NEW c \in Clock!Calls, Clock!Begin(c) PROVE ClockInv' /\ nticks' = nticks
  BY <1>3, Begin_Inv DEF Clock!Begin
<1>4. CASE Clock!LoadFirst
  BY <1>4, LoadFirst_Inv DEF Clock!LoadFirst
<1>5. CASE Clock!Finish
  BY <1>5, Finish_Inv DEF Clock!Finish
<1>6. QED
  BY <1>1, <1>2, <1>3, <1>4, <1>5 DEF Clock!TimeNext

----------------------------------------------------------------------------
(* The busy sleep. *)

\* No delay is a whole number of big loops, after which the loop of the remainder would
\* run from 0 through the whole machine word.
DelaysEnd == \A d \in Delays : d < Sleep!MicrosPerBigLoop \/ d % Sleep!MicrosPerBigLoop # 0

\* The loops of a microsecond, the microseconds of a big loop, and what both leave over.
LEMMA SleepConstants ==
  /\ CYCLES_PER_LOOP \in Nat /\ CYCLES_PER_LOOP > 0
  /\ Sleep!LoopsPerMicro \in Nat /\ Sleep!LoopsPerMicro > 0
  /\ MHZ - (MHZ % CYCLES_PER_LOOP) = CYCLES_PER_LOOP * Sleep!LoopsPerMicro
  /\ Sleep!MicrosPerBigLoop \in Nat /\ Sleep!MicrosPerBigLoop > 0
  /\ INT_MAX \in Nat
  /\ \E e \in 0 .. Sleep!LoopsPerMicro - 1 :
        INT_MAX = Sleep!LoopsPerMicro * Sleep!MicrosPerBigLoop + e
<1>1. /\ CYCLES_PER_LOOP \in Nat /\ CYCLES_PER_LOOP > 0 /\ MHZ \in Nat /\ MHZ >= CYCLES_PER_LOOP
      /\ INT_MAX \in Nat /\ INT_MAX >= MHZ \div CYCLES_PER_LOOP
  BY ServicesAssumption DEF Sleep!SleepAssumption
<1>2. PICK l \in Nat : l = MHZ \div CYCLES_PER_LOOP
  BY <1>1, DivMod
<1>3. PICK f \in 0 .. CYCLES_PER_LOOP - 1 : f = MHZ % CYCLES_PER_LOOP
  BY <1>1, DivMod
<1>4. MHZ = CYCLES_PER_LOOP * l + f
  BY <1>1, <1>2, <1>3, DivMod
<1>5. l > 0
  <2>1. l = 0 => CYCLES_PER_LOOP * l = 0
    BY <1>1
  <2>2. QED
    BY <1>1, <1>3, <1>4, <2>1
<1>6. PICK m \in Nat : m = INT_MAX \div l
  BY <1>1, <1>5, DivMod
<1>7. PICK e \in 0 .. l - 1 : e = INT_MAX % l
  BY <1>1, <1>5, DivMod
<1>8. INT_MAX = l * m + e
  BY <1>1, <1>5, <1>6, <1>7, DivMod
<1>9. m > 0
  <2>1. m = 0 => l * m = 0
    OBVIOUS
  <2>2. INT_MAX >= l
    BY <1>1, <1>2
  <2>3. QED
    BY <1>7, <1>8, <2>1, <2>2
<1>10. MHZ - f = CYCLES_PER_LOOP * l
  BY <1>1, <1>4
<1>11. Sleep!LoopsPerMicro = l /\ Sleep!MicrosPerBigLoop = m
  BY <1>2, <1>6 DEF Sleep!LoopsPerMicro, Sleep!MicrosPerBigLoop
<1>12. QED
  BY <1>1, <1>3, <1>5, <1>7, <1>8, <1>9, <1>10, <1>11

\* The time of k big loops of m microseconds, each e loops longer, and of the rest.
LEMMA LoopsOfDelay ==
  ASSUME NEW c \in Nat, NEW l \in Nat, NEW m \in Nat, NEW e \in 0 .. l - 1, NEW k \in Nat,
         NEW d \in Nat, NEW int, int = l * m + e
  PROVE  c * (int * k) + c * ((d - m * k) * l)
           \in d * (c * l) - c * l * (k + 1) .. d * (c * l) + c * l * (k + 1)
<1>1. int * k = (l * m) * k + e * k
  OBVIOUS
<1>2. (d - m * k) * l = d * l - (l * m) * k
  OBVIOUS
<1>3. int * k + (d - m * k) * l = d * l + e * k
  BY <1>1, <1>2
<1>4. PICK a \in Nat : a = e * k
  OBVIOUS
<1>5. PICK b \in Nat : b = l * (k + 1)
  OBVIOUS
<1>6. a <= b
  <2>1. e * k <= l * k /\ l * k <= l * (k + 1)
    OBVIOUS
  <2>2. QED
    BY <2>1, <1>4, <1>5
<1>7. c * (int * k) + c * ((d - m * k) * l) = d * (c * l) + c * a
  <2>1. c * (int * k) + c * ((d - m * k) * l) = c * (int * k + (d - m * k) * l)
    OBVIOUS
  <2>2. c * (d * l + a) = d * (c * l) + c * a
    OBVIOUS
  <2>3. QED
    BY <2>1, <2>2, <1>3, <1>4
<1>8. c * a \in 0 .. c * b /\ c * b \in Nat
  BY <1>6
<1>9. c * l * (k + 1) = c * b
  BY <1>5
<1>10. d * (c * l) \in Nat
  OBVIOUS
<1>11. QED
  BY <1>7, <1>8, <1>9, <1>10

\* What is left of a delay after all its big loops, and that something is.
LEMMA SomethingRemains ==
  ASSUME DelaysEnd, NEW d \in Delays, NEW k \in Nat, k > 0, k = d \div Sleep!MicrosPerBigLoop
  PROVE  d - Sleep!MicrosPerBigLoop * k \in Nat /\ d - Sleep!MicrosPerBigLoop * k > 0
<1>1. d \in Nat
  BY ServicesAssumption DEF Sleep!SleepAssumption
<1>2. PICK m \in Nat : m = Sleep!MicrosPerBigLoop /\ m > 0
  BY SleepConstants
<1>3. PICK r \in 0 .. m - 1 : r = d % m
  BY <1>1, <1>2, DivMod
<1>4. d = m * k + r
  BY <1>1, <1>2, <1>3, DivMod
<1>5. m * k >= m
  BY <1>2
<1>6. d >= m
  BY <1>1, <1>3, <1>4, <1>5
<1>7. d % m # 0
  BY <1>1, <1>2, <1>6 DEF DelaysEnd
<1>8. QED
  BY <1>1, <1>2, <1>3, <1>4, <1>7

\* The busy sleep keeps its invariant through every loop it runs.
LEMMA SleepNext_Inv ==
  ASSUME SleepInv, DelaysEnd, Sleep!SleepNext
  PROVE  SleepInv'
<1> DEFINE C == CYCLES_PER_LOOP
           L == Sleep!LoopsPerMicro
           M == Sleep!MicrosPerBigLoop
<1>1. /\ C \in Nat /\ C > 0 /\ L \in Nat /\ L > 0 /\ M \in Nat /\ M > 0 /\ INT_MAX \in Nat
      /\ MHZ - (MHZ % C) = C * L
  BY SleepConstants
<1>2. PICK e \in 0 .. L - 1 : INT_MAX = L * M + e
  BY SleepConstants
<1>3. asked \in Delays /\ asked \in Nat
  BY ServicesAssumption DEF SleepInv, Sleep!SleepAssumption
<1>4. PICK d \in Nat : d = asked
  BY <1>3
<1> HIDE DEF C, L, M
\* Enough for the end of a sleep.
<1>5. ASSUME asked' = asked, pc' = "done",
             \E k \in Nat : /\ big_loops' = k
                            /\ cycles' \in d * (C * L) - C * L * (k + 1)
                                             .. d * (C * L) + C * L * (k + 1)
      PROVE  SleepInv'
  <2>1. (Sleep!SleepsAsAsked)'
    BY <1>1, <1>4, <1>5 DEF Sleep!SleepsAsAsked, C, L
  <2>2. pc' # "start" /\ pc' # "short" /\ pc' # "big"
    BY <1>5
  <2>3. QED
    BY <1>3, <1>5, <2>1, <2>2 DEF SleepInv
<1>6. CASE Sleep!Split
  <2>1. /\ us = d /\ i = 0 /\ cycles = 0
        /\ asked' = asked /\ us' = us /\ i' = i /\ cycles' = cycles
        /\ big_loops' = d \div M
        /\ pc' = IF d \div M > 0 THEN "big" ELSE "short"
    BY <1>4, <1>6 DEF SleepInv, Sleep!Split, M
  <2>2. PICK k \in Nat : k = d \div M
    BY <1>1, DivMod
  <2>3. C * (INT_MAX * 0) = 0 /\ M * 0 = 0 /\ d - 0 = d
    BY <1>1
  <2>4. CASE k > 0
    <3>1. pc' = "big"
      BY <2>1, <2>2, <2>4
    <3>2. i' \in 0 .. big_loops' /\ big_loops' > 0
      BY <2>1, <2>2, <2>4
    <3>3. us' = asked' - M * i' /\ cycles' = C * (INT_MAX * i')
      BY <1>4, <2>1, <2>3
    <3>4. asked' \in Delays /\ big_loops' = asked' \div M
      BY <1>3, <1>4, <2>1
    <3>5. QED
      BY <3>1, <3>2, <3>3, <3>4 DEF SleepInv, Sleep!SleepsAsAsked, C, M
  <2>5. CASE ~(k > 0)
    <3>1. pc' = "short"
      BY <2>1, <2>2, <2>5
    <3>2. big_loops' = 0
      BY <2>1, <2>2, <2>5
    <3>3. us' = asked' /\ cycles' = 0 /\ asked' \in Delays
      BY <1>3, <1>4, <2>1
    <3>4. QED
      BY <3>1, <3>2, <3>3 DEF SleepInv, Sleep!SleepsAsAsked
  <2>6. QED
    BY <2>4, <2>5
<1>7. CASE Sleep!BigLoop
  <2>1. /\ pc = "big" /\ pc' = pc /\ i < big_loops /\ i' = i + 1
        /\ asked' = asked /\ big_loops' = big_loops /\ us' = us - M
        /\ cycles' = cycles + C * (IF INT_MAX = 0 THEN 2 * INT_MAX + 2 ELSE INT_MAX)
    BY <1>7 DEF Sleep!BigLoop, Sleep!Spend, Sleep!LoopUntilZero, Sleep!RestAfterBigLoop, C, M
  <2>2. PICK k \in Nat : k = big_loops /\ k > 0 /\ k = d \div M
    <3>1. big_loops = d \div M /\ big_loops > 0
      BY <1>4, <2>1 DEF SleepInv, M
    <3>2. d \div M \in Nat
      BY <1>1, DivMod
    <3>3. QED
      BY <3>1, <3>2
  <2>3. PICK j \in 0 .. k : j = i
    BY <2>1, <2>2 DEF SleepInv
  <2>4. us = d - M * j /\ cycles = C * (INT_MAX * j)
    BY <1>4, <2>1, <2>3 DEF SleepInv, C, M
  <2>5. j + 1 \in 0 .. k
    <3>1. j < k
      BY <2>1, <2>2, <2>3
    <3>2. QED
      BY <3>1
  <2>6. INT_MAX # 0
    <3>1. L * M > 0
      BY <1>1
    <3>2. QED
      BY <1>1, <1>2, <3>1
  <2>7. us' = d - M * (j + 1) /\ cycles' = C * (INT_MAX * (j + 1))
    <3>1. us' = (d - M * j) - M /\ cycles' = C * (INT_MAX * j) + C * INT_MAX
      BY <2>1, <2>4, <2>6
    <3>2. /\ (d - M * j) - M = d - M * (j + 1)
          /\ C * (INT_MAX * j) + C * INT_MAX = C * (INT_MAX * (j + 1))
      BY <1>1
    <3>3. QED
      BY <3>1, <3>2
  <2>8. i' = j + 1
    BY <2>1, <2>3
  <2>9. /\ big_loops' = asked' \div M /\ big_loops' > 0 /\ i' \in 0 .. big_loops'
        /\ us' = asked' - M * i' /\ cycles' = C * (INT_MAX * i')
    BY <1>4, <2>1, <2>2, <2>5, <2>7, <2>8
  <2>10. pc' = "big" /\ asked' \in Delays
    BY <1>3, <2>1
  <2>11. QED
    BY <2>9, <2>10 DEF SleepInv, Sleep!SleepsAsAsked, C, M
<1>8. CASE Sleep!Remainder
  <2>1. /\ pc = "big" /\ pc' = "done" /\ i = big_loops
        /\ asked' = asked /\ big_loops' = big_loops
        /\ cycles' = cycles + C * (IF us * L = 0 THEN 2 * INT_MAX + 2 ELSE us * L)
    BY <1>8 DEF Sleep!Remainder, Sleep!Spend, Sleep!LoopUntilZero, C, L
  <2>2. PICK k \in Nat : k = big_loops /\ k > 0 /\ k = d \div M
    <3>1. big_loops = d \div M /\ big_loops > 0
      BY <1>4, <2>1 DEF SleepInv, M
    <3>2. d \div M \in Nat
      BY <1>1, DivMod
    <3>3. QED
      BY <3>1, <3>2
  <2>3. us = d - M * k /\ cycles = C * (INT_MAX * k)
    BY <1>4, <2>1, <2>2 DEF SleepInv, C, M
  <2>4. d - M * k \in Nat /\ d - M * k > 0
    BY <1>3, <1>4, <2>2, SomethingRemains DEF M
  <2>5. us * L # 0
    BY <1>1, <2>3, <2>4
  <2>6. cycles' = C * (INT_MAX * k) + C * ((d - M * k) * L)
    BY <2>1, <2>3, <2>5
  <2>7. cycles' \in d * (C * L) - C * L * (k + 1) .. d * (C * L) + C * L * (k + 1)
    BY <1>1, <1>2, <2>6, LoopsOfDelay
  <2>8. QED
    BY <1>5, <2>1, <2>2, <2>7
<1>9. CASE Sleep!ShortDelay
  <2>1. /\ us = d /\ big_loops = 0 /\ cycles = 0 /\ pc' = "done"
        /\ asked' = asked /\ big_loops' = big_loops
        /\ cycles' = cycles + C * (IF us * L = 0 THEN 1 ELSE us * L)
    BY <1>4, <1>9 DEF SleepInv, Sleep!ShortDelay, Sleep!Spend, Sleep!LoopWhilePositive, C, L
  <2>2. PICK n \in Nat : n = d * L
    BY <1>1
  <2>3. cycles' = C * (IF n = 0 THEN 1 ELSE n)
    BY <1>1, <2>1, <2>2
  <2>4. C * L * (0 + 1) = C * L /\ C <= C * L /\ d * (C * L) = C * n
    BY <1>1, <2>2
  <2>5. C * n \in Nat /\ C * L \in Nat /\ C * 1 = C /\ (n = 0 => C * n = 0)
    BY <1>1
  <2>6. C * (IF n = 0 THEN 1 ELSE n) \in C * n - C * L .. C * n + C * L
    BY <1>1, <2>4, <2>5
  <2>7. cycles' \in d * (C * L) - C * L * (0 + 1) .. d * (C * L) + C * L * (0 + 1)
    BY <2>3, <2>4, <2>6
  <2>8. big_loops' = 0 /\ asked' = asked /\ pc' = "done"
    BY <2>1
  <2>9. QED
    BY <1>5, <2>7, <2>8
<1>10. QED
  BY <1>6, <1>7, <1>8, <1>9 DEF Sleep!SleepNext

----------------------------------------------------------------------------
(* The services together. *)

\* The list begins empty.
LEMMA AlarmsInit_Inv ==
  ASSUME AlarmsInit
  PROVE  AlarmsInv /\ WalkInv
<1>1. /\ next = [x \in Node |-> x] /\ previous = [x \in Node |-> x]
      /\ time = [a \in Alarm |-> 0] /\ nticks = 0 /\ cursor = Head /\ Head \in Node
  BY DEF AlarmsInit, Node
<1>2. Registered = {} /\ Reg(next) = {}
  BY <1>1 DEF Registered, Reg, Node
<1>3. TimesBounded(time)
  <2>1. MaxTicks \in Nat
    BY AlarmsAssumption
  <2>2. 0 \in 0 .. MaxTicks + 0 + 1
    BY <2>1
  <2>3. QED
    BY <1>1, <2>2 DEF TimesBounded
<1>4. nticks \in 0 .. MaxTicks
  BY <1>1, AlarmsAssumption
<1>5. Links(next, previous) /\ Reached(next)
  BY <1>1, <1>2 DEF Links, Reached
<1>6. AlarmsInv
  BY <1>1, <1>2, <1>3, <1>4, <1>5 DEF AlarmsInv
<1>7. WalkInv
  BY <1>1, <1>2 DEF WalkInv, Due
<1>8. QED
  BY <1>6, <1>7

\* The alarms while another service, or nobody, moves: time may pass, for no alarm is
\* registered then.
LEMMA OthersKeepAlarms ==
  ASSUME AlarmsInv, nticks' \in 0 .. MaxTicks, UNCHANGED << service, list, time, cursor >>,
         nticks' = nticks \/ (nticks' = nticks + 1 /\ service # "alarms")
  PROVE  AlarmsInv' /\ (WalkInv => WalkInv') /\ [Set!SetNext]_Set!setVars
<1>1. /\ next' = next /\ previous' = previous /\ time' = time /\ cursor' = cursor
      /\ service' = service /\ Registered' = Registered
  BY DEF list, Registered
<1>2. AlarmsInv'
  <2>1. (service # "alarms")' => Registered' = {} /\ cursor' = Head
    BY <1>1 DEF AlarmsInv
  <2>2. Links(next, previous)' /\ Reached(next)' /\ TimesBounded(time)' /\ cursor' \in Node
    BY <1>1 DEF AlarmsInv, Links, Reached, Closed, Reg, TimesBounded
  <2>3. QED
    BY <2>1, <2>2 DEF AlarmsInv
<1>3. CASE nticks' = nticks
  <2>1. WalkInv => WalkInv'
    BY <1>1, <1>3 DEF WalkInv, Due, Ahead
  <2>2. UNCHANGED Set!setVars
    BY <1>1, <1>3 DEF Set!setVars
  <2>3. QED
    BY <1>2, <2>1, <2>2
<1>4. CASE nticks' = nticks + 1 /\ service # "alarms"
  <2>1. Registered = {} /\ Registered' = {} /\ cursor' = Head
    BY <1>1, <1>4 DEF AlarmsInv
  <2>2. WalkInv'
    BY <2>1 DEF WalkInv, Due
  <2>3. Set!Advance
    BY <1>1, <1>4, <2>1 DEF Set!Advance
  <2>4. QED
    BY <1>2, <2>2, <2>3 DEF Set!SetNext
<1>5. QED
  BY <1>3, <1>4

\* What a step of the services does to the counter.
LEMMA CounterStep ==
  ASSUME AlarmsInv, [ServicesNext]_allVars
  PROVE  /\ nticks' = nticks \/ nticks' = nticks + 1
         /\ nticks' \in 0 .. MaxTicks
<1>1. nticks \in 0 .. MaxTicks
  BY DEF AlarmsInv
<1>2. \/ nticks' = nticks
      \/ nticks' = nticks + 1 /\ nticks < MaxTicks
  <2>1. AlarmsNext => nticks' = nticks \/ (nticks' = nticks + 1 /\ nticks < MaxTicks)
    <3>1. ASSUME NEW a \in Alarm, NEW n \in Period, AlarmStart(a, n) PROVE nticks' = nticks
      BY <3>1 DEF AlarmStart
    <3>2. ASSUME NEW a \in Alarm, AlarmStop(a) PROVE nticks' = nticks
      BY <3>2 DEF AlarmStop
    <3>3. (NotDue => nticks' = nticks) /\ (CallBack => nticks' = nticks)
      BY DEF NotDue, CallBack
    <3>4. TickEnter => nticks' = nticks + 1 /\ nticks < MaxTicks
      BY DEF TickEnter
    <3>5. QED
      BY <3>1, <3>2, <3>3, <3>4 DEF AlarmsNext
  <2>2. Clock!TimeNext => nticks' = nticks \/ (nticks' = nticks + 1 /\ nticks < MaxTicks)
    <3>1. ASSUME NEW r \in Rates, Clock!SysclkInit(r) PROVE nticks' = nticks
      BY <3>1 DEF Clock!SysclkInit
    <3>2. ASSUME NEW c \in Clock!Calls, Clock!Begin(c) PROVE nticks' = nticks
      BY <3>2 DEF Clock!Begin
    <3>3. (Clock!LoadFirst => nticks' = nticks) /\ (Clock!Finish => nticks' = nticks)
      BY DEF Clock!LoadFirst, Clock!Finish
    <3>4. Clock!Tick => nticks' = nticks + 1 /\ nticks < MaxTicks
      BY DEF Clock!Tick
    <3>5. QED
      BY <3>1, <3>2, <3>3, <3>4 DEF Clock!TimeNext
  <2>3. UNCHANGED vars \/ UNCHANGED allVars => nticks' = nticks
    BY DEF vars, allVars
  <2>4. QED
    BY <2>1, <2>2, <2>3 DEF ServicesNext
<1>3. QED
  BY <1>1, <1>2, AlarmsAssumption

\* A step of the services, as the alarms see it.
LEMMA ServicesNext_Alarms ==
  ASSUME AlarmsInv, [ServicesNext]_allVars
  PROVE  /\ AlarmsInv'
         /\ WalkInv /\ ~CallbacksStopOthers => WalkInv' /\ [Set!SetNext]_Set!setVars
<1>1. nticks' \in 0 .. MaxTicks /\ (nticks' = nticks \/ nticks' = nticks + 1)
  BY CounterStep
<1>2. CASE service = "alarms" /\ AlarmsNext /\ UNCHANGED << service, clockOnly, sleepOnly >>
  BY <1>2, AlarmsNext_Inv, AlarmsNext_Walk, AlarmsNext_Set
<1>3. ASSUME UNCHANGED << service, list, time, cursor >>, service # "alarms" \/ nticks' = nticks
      PROVE  AlarmsInv' /\ (WalkInv => WalkInv') /\ [Set!SetNext]_Set!setVars
  BY <1>1, <1>3, OthersKeepAlarms
<1>4. CASE service = "clock" /\ UNCHANGED << service, list, time, cursor, sleepOnly >>
  BY <1>3, <1>4
<1>5. CASE service = "sleep" /\ UNCHANGED << service, vars, clockOnly >>
  <2>1. UNCHANGED << service, list, time, cursor >> /\ nticks' = nticks
    BY <1>5 DEF vars
  <2>2. QED
    BY <1>3, <2>1
<1>6. CASE UNCHANGED allVars
  <2>1. UNCHANGED << service, list, time, cursor >> /\ nticks' = nticks
    BY <1>6 DEF allVars, vars
  <2>2. QED
    BY <1>3, <2>1
<1>7. QED
  BY <1>2, <1>4, <1>5, <1>6 DEF ServicesNext

\* A step of the services, as the clock sees it.
LEMMA ServicesNext_Clock ==
  ASSUME AlarmsInv, ClockInv, RatesDivide, [ServicesNext]_allVars
  PROVE  ClockInv'
<1>1. nticks \in 0 .. MaxTicks
  BY DEF AlarmsInv
<1>2. nticks' = nticks \/ nticks' = nticks + 1
  BY CounterStep
<1>3. ASSUME UNCHANGED clockOnly PROVE ClockInv'
  <2>1. CASE nticks' = nticks
    BY <1>3, <2>1 DEF clockOnly, ClockInv, ClockTypes, ResetTime, WordLoaded, ResultTrue,
         Clock!Seconds, Clock!Micros, Clock!ElapsedExact, Clock!InMicros, Clock!TornOnlyByCarry
  <2>2. CASE nticks' = nticks + 1
    BY <1>1, <1>3, <2>2, Tick_Inv
  <2>3. QED
    BY <1>2, <2>1, <2>2
<1>4. CASE service = "clock" /\ Clock!TimeNext
  BY <1>1, <1>4, ClockNext_Inv
<1>5. CASE UNCHANGED allVars
  BY <1>3, <1>5 DEF allVars
<1>6. QED
  BY <1>3, <1>4, <1>5 DEF ServicesNext

\* A step of the services, as the busy sleep sees it.
LEMMA ServicesNext_Sleep ==
  ASSUME SleepInv, DelaysEnd, [ServicesNext]_allVars
  PROVE  SleepInv'
<1>1. ASSUME UNCHANGED sleepOnly PROVE SleepInv'
  BY <1>1 DEF sleepOnly, SleepInv, Sleep!SleepsAsAsked
<1>2. CASE UNCHANGED allVars
  BY <1>1, <1>2 DEF allVars
<1>3. QED
  BY <1>1, <1>2, SleepNext_Inv DEF ServicesNext

\* The three invariants mean the property, and the initial states have them.
LEMMA ServicesInit_Inv ==
  ASSUME ServicesInit
  PROVE  AlarmsInv /\ WalkInv /\ ClockInv /\ SleepInv
<1>1. AlarmsInit /\ Clock!TimeInit /\ Sleep!SleepInit
  BY DEF ServicesInit
<1>2. AlarmsInv /\ WalkInv
  BY <1>1, AlarmsInit_Inv
<1>3. ClockInv
  <2>1. 0 \in 0 .. 0 /\ 0 \in 0 .. US - 1 /\ 0 \in Zones
    BY ClockConstants
  <2>2. /\ nticks = 0 /\ tick_rate = 0 /\ resettime = [sec |-> 0, usec |-> 0] /\ timezone = 0
        /\ call = Clock!NoCall /\ first = Clock!NoWord /\ startTicks = 0
        /\ result.name = "none" /\ base = [sec |-> 0, usec |-> 0, ticks |-> 0]
    BY <1>1 DEF Clock!TimeInit, Clock!NoResult
  <2>3. ClockTypes
    BY <2>1, <2>2 DEF ClockTypes
  <2>4. QED
    BY <2>2, <2>3 DEF ClockInv, ResetTime, WordLoaded, ResultTrue, Clock!ElapsedExact,
                      Clock!TornOnlyByCarry
<1>4. SleepInv
  BY <1>1 DEF Sleep!SleepInit, SleepInv, Sleep!SleepsAsAsked
<1>5. QED
  BY <1>2, <1>3, <1>4

\* What the property says, from the invariants.
LEMMA InvMeans ==
  ASSUME AlarmsInv, ClockInv, SleepInv
  PROVE  TimeKept
<1>1. AlarmsTypeOK /\ LinksPaired /\ OneRing
  BY DEF AlarmsInv, AlarmsTypeOK, LinksPaired, OneRing, Links, Reached, Closed, Reg, Registered,
         TimesBounded
<1>2. Clock!TimeTypeOK
  <2>1. nticks \in 0 .. MaxTicks
    BY DEF AlarmsInv
  <2>2. QED
    BY <2>1, ResetTimeTyped DEF Clock!TimeTypeOK, ClockInv, ClockTypes
<1>3. QED
  BY <1>1, <1>2 DEF TimeKept, ClockInv, ResultTrue, SleepInv

\* The services keep time, for every rate that divides a second and every delay that is
\* not a whole number of big loops: the list is one ring linked both ways, whichever
\* alarms callbacks start and stop; gettimeofday gives the time set plus the time
\* passed, a torn read being off by a carry only; a delay takes the time asked for.
THEOREM TimeAlwaysKept ==
  ASSUME RatesDivide, DelaysEnd
  PROVE  ServicesSpec => []TimeKept
<1> DEFINE Inv == AlarmsInv /\ ClockInv /\ SleepInv
<1>1. ServicesInit => Inv
  BY ServicesInit_Inv
<1>2. Inv /\ [ServicesNext]_allVars => Inv'
  BY ServicesNext_Alarms, ServicesNext_Clock, ServicesNext_Sleep
<1>3. Inv => TimeKept
  BY InvMeans
<1> QED
  BY <1>1, <1>2, <1>3, PTL DEF ServicesSpec

\* The alarms are the abstract set, where a callback stops no alarm but its own: every
\* step, with all that callbacks do to the list alt_tick is walking, is a step of the
\* set; no tick passes over an alarm that is due, none is called before its tick.
THEOREM AlarmsImplementSet ==
  ASSUME ~CallbacksStopOthers
  PROVE  ServicesSpec => Set!SetInit /\ [][Set!SetNext]_Set!setVars
<1> DEFINE Inv == AlarmsInv /\ WalkInv
<1>1. ServicesInit => Inv
  BY ServicesInit_Inv
<1>2. Inv /\ [ServicesNext]_allVars => Inv' /\ [Set!SetNext]_Set!setVars
  BY ServicesNext_Alarms
<1>3. ServicesInit => Set!SetInit
  <2>1. ServicesInit => Registered = {} /\ nticks = 0
    BY DEF ServicesInit, AlarmsInit, Registered, Node
  <2>2. QED
    BY <2>1 DEF Set!SetInit
<1> QED
  BY <1>1, <1>2, <1>3, PTL DEF ServicesSpec

================================================================================
