------------------------------- MODULE TimeOfDay -------------------------------
(* gettimeofday, settimeofday and times over the tick counter.  The counter has    *)
(* two machine words and the processor loads one word at a time: a tick may come   *)
(* between the two loads, for these calls leave interrupts enabled.                *)
EXTENDS Integers

CONSTANTS US,          \* ALT_US: microseconds in a second
          Rates,       \* rates the system clock driver may set, in ticks per second
          WordSize,    \* 2^32: one machine word of the counter
          Times,       \* arguments of settimeofday, [sec, usec]
          Zones,       \* time zones
          MaxTicks     \* bound on the counter

TimeAssumption ==
  /\ US \in Nat \ {0} /\ Rates \subseteq 1 .. US /\ WordSize \in Nat \ {0, 1}
  /\ Times \subseteq [sec : Nat, usec : 0 .. US - 1] /\ MaxTicks \in Nat
  /\ 0 \in Zones

VARIABLES nticks,          \* _alt_nticks
          tick_rate,       \* _alt_tick_rate, 0 while there is no system clock
          resettime, timezone,    \* alt_resettime, alt_timezone
          call,            \* the call under way
          first,           \* the word it has loaded
          result,          \* what the last call returned
          startTicks,      \* the counter when the call under way began
          base             \* what the last settimeofday set, and when it read the counter

vars == << nticks, tick_rate, resettime, timezone, call, first, result, startTicks, base >>

NoCall == [name |-> "none"]
NoWord == [part |-> "none", word |-> 0]
NoResult == [name |-> "none"]

TimeInit ==
  /\ nticks = 0 /\ tick_rate = 0 /\ resettime = [sec |-> 0, usec |-> 0] /\ timezone = 0
  /\ call = NoCall /\ first = NoWord /\ result = NoResult /\ startTicks = 0
  /\ base = [sec |-> 0, usec |-> 0, ticks |-> 0]

\* alt_sysclk_init: the first call counts, a second one fails.
SysclkInit(rate) ==
  /\ call = NoCall
  /\ tick_rate' = IF tick_rate = 0 THEN rate ELSE tick_rate
  /\ UNCHANGED << nticks, resettime, timezone, call, first, result, startTicks, base >>

\* The timer interrupt, at any point of a call.
Tick ==
  /\ tick_rate # 0 /\ nticks < MaxTicks
  /\ nticks' = nticks + 1
  /\ UNCHANGED << tick_rate, resettime, timezone, call, first, result, startTicks, base >>

Calls == [name : {"get", "times"}] \cup [name : {"set"}, time : Times, zone : Zones]

Begin(c) ==
  /\ call = NoCall
  /\ call' = c /\ startTicks' = nticks /\ first' = NoWord
  /\ UNCHANGED << nticks, tick_rate, resettime, timezone, result, base >>

\* alt_nticks: the first load, of either word; which is the compiler's choice.
LoadFirst ==
  /\ call # NoCall /\ first = NoWord
  /\ first' \in {[part |-> "low", word |-> nticks % WordSize],
                 [part |-> "high", word |-> nticks \div WordSize]}
  /\ UNCHANGED << nticks, tick_rate, resettime, timezone, call, result, startTicks, base >>

\* What the two loads make together.
TicksRead ==
  IF first.part = "low" THEN first.word + WordSize * (nticks \div WordSize)
  ELSE (nticks % WordSize) + WordSize * first.word

Seconds(n) == n \div tick_rate
Micros(n) == (n * (US \div tick_rate)) % US

\* The two loops of gettimeofday; a time before 0 becomes 0.
Normalise(s, u) ==
  IF u < 0 THEN IF s <= 0 THEN << 0, 0 >> ELSE << s - 1, u + US >>
  ELSE IF u >= US THEN << s + 1, u - US >> ELSE << s, u >>

GetTimeOfDay ==
  /\ call.name = "get" /\ first # NoWord
  /\ result' =
       IF tick_rate = 0 THEN [name |-> "ENOTSUP"]
       ELSE LET t == Normalise(resettime.sec + Seconds(TicksRead),
                               resettime.usec + Micros(TicksRead))
            IN [name |-> "time", sec |-> t[1], usec |-> t[2], zone |-> timezone,
                ticks |-> TicksRead]
  /\ UNCHANGED << resettime, timezone, base >>

SetTimeOfDay ==
  /\ call.name = "set" /\ first # NoWord
  /\ IF tick_rate = 0
     THEN result' = [name |-> "ENOSYS"] /\ UNCHANGED << resettime, timezone, base >>
     ELSE /\ resettime' = [sec |-> call.time.sec - Seconds(TicksRead),
                           usec |-> call.time.usec - Micros(TicksRead)]
          /\ timezone' = call.zone
          /\ base' = [sec |-> call.time.sec, usec |-> call.time.usec, ticks |-> TicksRead]
          /\ result' = [name |-> "set"]

\* times(): the ticks, cut to clock_t.
TimesCall ==
  /\ call.name = "times" /\ first # NoWord
  /\ result' = IF tick_rate = 0 THEN [name |-> "ENOSYS"]
               ELSE [name |-> "ticks", ticks |-> TicksRead, clock |-> TicksRead % WordSize]
  /\ UNCHANGED << resettime, timezone, base >>

Finish ==
  /\ GetTimeOfDay \/ SetTimeOfDay \/ TimesCall
  /\ call' = NoCall /\ first' = NoWord
  /\ UNCHANGED << nticks, tick_rate, startTicks >>

TimeNext ==
  \/ \E r \in Rates : SysclkInit(r)
  \/ Tick
  \/ \E c \in Calls : Begin(c)
  \/ LoadFirst \/ Finish

TimeSpec == TimeInit /\ [][TimeNext]_vars

----------------------------------------------------------------------------
TimeTypeOK ==
  /\ nticks \in 0 .. MaxTicks /\ tick_rate \in Rates \cup {0}
  /\ resettime \in [sec : Int, usec : -US .. US] /\ timezone \in Zones
  /\ call \in Calls \cup {NoCall}
  /\ result.name \in {"none", "ENOTSUP", "ENOSYS", "time", "set", "ticks"}

InMicros(t) == t.sec * US + t.usec

\* gettimeofday gives the time last set plus exactly the time that has passed, in
\* a normal form, whenever the time was set and whatever it was set to; in
\* particular, at once after settimeofday, the time that was set. (A torn read can
\* put the counter before the time it was set at; what it then gives is below 0
\* or cut at 0.)
ElapsedExact ==
  result.name = "time" /\ result.ticks >= base.ticks =>
    /\ result.usec \in 0 .. US - 1
    /\ InMicros(result) = InMicros(base) + (result.ticks - base.ticks) * (US \div tick_rate)

\* alt_nticks() loads the 64-bit counter in two words with interrupts enabled. The
\* number a call works with is one the counter had while the call ran, unless the
\* low word overflowed in that time.
TornOnlyByCarry ==
  call = NoCall /\ result.name \in {"time", "ticks"} =>
    \/ result.ticks \in startTicks .. nticks
    \/ startTicks \div WordSize # nticks \div WordSize
================================================================================
