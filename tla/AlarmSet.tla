------------------------------- MODULE AlarmSet --------------------------------
(* What the HAL promises of its alarms: a set of registered alarms, each with the *)
(* tick at which it is due.  Time does not pass over an alarm that is due, an     *)
(* alarm is never called before its tick, and one that is called either leaves    *)
(* the set or is due again a whole period after it was due.                       *)
EXTENDS Naturals

CONSTANTS Alarm, Period

VARIABLES clock, due      \* due: registered alarm |-> tick
setVars == << clock, due >>

SetInit == clock = 0 /\ due = [a \in {} |-> 0]

With(a, t) == [x \in DOMAIN due \cup {a} |-> IF x = a THEN t ELSE due[x]]
Without(a) == [x \in DOMAIN due \ {a} |-> due[x]]

Advance ==
  /\ \A a \in DOMAIN due : due[a] > clock
  /\ clock' = clock + 1 /\ UNCHANGED due

\* The call waits at least the whole period asked for.
Start(a, n) == a \notin DOMAIN due /\ due' = With(a, clock + n + 1) /\ UNCHANGED clock
Stop(a) == a \in DOMAIN due /\ due' = Without(a) /\ UNCHANGED clock

Call(a) ==
  /\ a \in DOMAIN due /\ due[a] = clock
  /\ due' = Without(a) \/ \E r \in Period : due' = With(a, due[a] + r)
  /\ UNCHANGED clock

\* A callback may register another alarm while it runs.
CallAndStart(a, b, n) ==
  /\ a \in DOMAIN due /\ due[a] = clock /\ b \notin DOMAIN due
  /\ \/ due' = [x \in (DOMAIN due \ {a}) \cup {b} |-> IF x = b THEN clock + n + 1 ELSE due[x]]
     \/ \E r \in Period :
          due' = [x \in DOMAIN due \cup {b} |->
                    IF x = b THEN clock + n + 1 ELSE IF x = a THEN due[a] + r ELSE due[x]]
  /\ UNCHANGED clock

SetNext ==
  \/ Advance
  \/ \E a \in Alarm : Stop(a) \/ Call(a) \/ \E n \in Period : Start(a, n)
  \/ \E a, b \in Alarm, n \in Period : CallAndStart(a, b, n)

\* An alarm that is due does not stay so.
SetSpec == SetInit /\ [][SetNext]_setVars /\ []<>(\A a \in DOMAIN due : due[a] > clock)
================================================================================
