------------------------------- MODULE BusySleep -------------------------------
(* usleep of this system, which has no timer: alt_busy_sleep counts a register     *)
(* down.  Long delays are cut into loops of INT_MAX and a remainder.               *)
EXTENDS Naturals

CONSTANTS MHZ,              \* ALT_CPU_FREQ / 1000000
          CYCLES_PER_LOOP,  \* 9 on the "tiny" core, 3 on the others
          INT_MAX,          \* of a machine word
          Delays            \* arguments, in microseconds

SleepAssumption ==
  /\ CYCLES_PER_LOOP \in Nat \ {0} /\ MHZ \in Nat /\ MHZ >= CYCLES_PER_LOOP
  /\ INT_MAX \in Nat /\ INT_MAX >= MHZ \div CYCLES_PER_LOOP
  /\ Delays \subseteq 0 .. 2 * INT_MAX + 1

VARIABLES asked,      \* the argument
          us,         \* what is left of it
          big_loops,  \* whole loops of INT_MAX
          i, pc,
          cycles      \* cycles spent in the loops
vars == << asked, us, big_loops, i, pc, cycles >>

LoopsPerMicro == MHZ \div CYCLES_PER_LOOP
MicrosPerBigLoop == INT_MAX \div LoopsPerMicro

SleepInit ==
  /\ asked \in Delays /\ us = asked /\ big_loops = 0 /\ i = 0
  /\ pc = "start" /\ cycles = 0

\* "addi -1; bne": a register that starts at 0 goes all the way round.
LoopUntilZero(n) == IF n = 0 THEN 2 * INT_MAX + 2 ELSE n
\* "addi -1; bgt": at least once.
LoopWhilePositive(n) == IF n = 0 THEN 1 ELSE n

Spend(loops) == cycles' = cycles + CYCLES_PER_LOOP * loops

Split ==
  /\ pc = "start"
  /\ big_loops' = us \div MicrosPerBigLoop
  /\ pc' = IF us \div MicrosPerBigLoop > 0 THEN "big" ELSE "short"
  /\ UNCHANGED << asked, us, i, cycles >>

RestAfterBigLoop == us - MicrosPerBigLoop

BigLoop ==
  /\ pc = "big" /\ i < big_loops
  /\ Spend(LoopUntilZero(INT_MAX))
  /\ us' = RestAfterBigLoop /\ i' = i + 1
  /\ UNCHANGED << asked, big_loops, pc >>

Remainder ==
  /\ pc = "big" /\ i = big_loops
  /\ Spend(LoopUntilZero(us * LoopsPerMicro)) /\ pc' = "done"
  /\ UNCHANGED << asked, us, big_loops, i >>

ShortDelay ==
  /\ pc = "short"
  /\ Spend(LoopWhilePositive(us * LoopsPerMicro)) /\ pc' = "done"
  /\ UNCHANGED << asked, us, big_loops, i >>

SleepNext == Split \/ BigLoop \/ Remainder \/ ShortDelay
SleepSpec == SleepInit /\ [][SleepNext]_vars

----------------------------------------------------------------------------
\* "Microsecond delay routine": the loops take the time asked for, less what is lost
\* of every microsecond by cutting its loops to a whole number, and give or take a
\* microsecond for every piece the delay is cut into.
SleepsAsAsked ==
  LET counted   == asked * (MHZ - (MHZ % CYCLES_PER_LOOP))
      tolerance == CYCLES_PER_LOOP * LoopsPerMicro * (big_loops + 1)
  IN  pc = "done" => cycles \in counted - tolerance .. counted + tolerance
================================================================================
