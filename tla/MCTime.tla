-------------------------------- MODULE MCTime ---------------------------------
(* The services that keep time. They share the tick counter and nothing else, so  *)
(* a behaviour uses one of them, the others staying as they were initialised:     *)
(* three alarms over a few ticks, so that a callback can change the list on       *)
(* either side of the alarm being looked at; the clock, with a word of the        *)
(* counter that overflows; a busy sleep on a machine with words of seven bits.    *)
EXTENDS Alarms, Integers

CONSTANTS US, Rates, WordSize, Times, Zones,
          MHZ, CYCLES_PER_LOOP, INT_MAX, Delays

VARIABLES service,
          tick_rate, resettime, timezone, call, first, result, startTicks, base,
          asked, us, big_loops, i, pc, cycles

Clock == INSTANCE TimeOfDay
Sleep == INSTANCE BusySleep
ASSUME ServicesAssumption == Clock!TimeAssumption /\ Sleep!SleepAssumption

clockOnly == << tick_rate, resettime, timezone, call, first, result, startTicks, base >>
sleepOnly == << asked, us, big_loops, i, pc, cycles >>
allVars == << service, vars, clockOnly, sleepOnly >>

MCTimes == {[sec |-> 0, usec |-> 0], [sec |-> 0, usec |-> 5], [sec |-> 3, usec |-> 9]}
\* All delays of a machine word that the loops can tell apart, but the whole numbers
\* of big loops, for which the loop of the remainder runs all the way round.
BigLoopMicros == INT_MAX \div (MHZ \div CYCLES_PER_LOOP)
MCDelays == {d \in 0 .. 2 * INT_MAX + 1 : d < BigLoopMicros \/ d % BigLoopMicros # 0}

ServicesInit ==
  /\ service \in {"alarms", "clock", "sleep"}
  /\ AlarmsInit /\ Clock!TimeInit /\ Sleep!SleepInit
  /\ service # "sleep" => asked = 0

ServicesNext ==
  \/ service = "alarms" /\ AlarmsNext /\ UNCHANGED << service, clockOnly, sleepOnly >>
  \/ service = "clock" /\ Clock!TimeNext
     /\ UNCHANGED << service, list, time, cursor, sleepOnly >>
  \/ service = "sleep" /\ Sleep!SleepNext /\ UNCHANGED << service, vars, clockOnly >>

\* The handler keeps executing.
ServicesSpec ==
  ServicesInit /\ [][ServicesNext]_allVars /\ WF_vars(NotDue \/ CallBack)

\* The services keep time whatever is asked of them in whatever order: the list of
\* alarms stays one ring, linked both ways, although callbacks start and stop alarms
\* while alt_tick walks it; gettimeofday gives the time last set plus the time passed
\* since, a torn read of the counter being wrong by a carry only; a delay takes the
\* time asked for, give or take a loop a piece.
TimeKept ==
  /\ AlarmsTypeOK /\ LinksPaired /\ OneRing
  /\ Clock!TimeTypeOK /\ Clock!ElapsedExact /\ Clock!TornOnlyByCarry
  /\ Sleep!SleepsAsAsked
================================================================================
