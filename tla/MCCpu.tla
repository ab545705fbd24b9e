-------------------------------- MODULE MCCpu ----------------------------------
(* What the processor's one exception entry leads to; a behaviour is one bench.    *)
(* "nest": three interrupts, one routine, a number one past the last, routines      *)
(* that configure when they interrupted no other. "live": two interrupts and        *)
(* routines that only serve, under fairness. "traps": a program with instructions  *)
(* that are emulated, refused or hit by an ECC error, against one interrupt.        *)
EXTENDS Interrupts

CONSTANTS a, Program, Emulates, DEBUG_STUB, EXTRA_INFO

VARIABLES bench,
          pc, done, enabled, pending, served, frame,
          alt_instruction_exception_handler, alt_exception_ecc_fatal_handler, halted
trapVars == << pc, done, enabled, pending, served, frame,
               alt_instruction_exception_handler, alt_exception_ecc_fatal_handler, halted >>

Traps == INSTANCE Exceptions WITH pie <- enabled
ASSUME CpuAssumption == Traps!ExceptionAssumption

MCIds == 0 .. ALT_NIRQ
MCProgram == << "plain", "multiply", "fault", "plain", "ecc", "multiply" >>

CpuInit ==
  /\ bench \in {"nest", "live", "traps"}
  /\ InterruptsInit /\ Traps!ExceptionsInit
  /\ bench # "traps" => enabled = FALSE
LiveStep ==
  /\ lines' \subseteq {0, 1}
  /\ op = NoOp /\ op' # NoOp => InProgram
CpuNext ==
  /\ \/ bench \in {"nest", "live"} /\ InterruptsNext /\ UNCHANGED trapVars
     \/ bench = "traps" /\ Traps!ExceptionsNext /\ UNCHANGED vars
  /\ bench = "live" => LiveStep
  /\ UNCHANGED bench
CpuSpec == CpuInit /\ [][CpuNext]_<< bench, vars, trapVars >>
\* The processor runs, a routine returns, and an interrupt is taken at the first
\* instruction after interrupts are enabled again, however short that time is.
FairCpuSpec ==
  /\ CpuSpec
  /\ WF_vars(bench = "live" /\ CpuNext /\ Processor) /\ SF_vars(bench = "live" /\ CpuNext /\ Enter)

\* The highest priority is served as often as it is asked for, unless disabled.
UrgentServed == bench = "live" /\ 0 \in lines /\ 0 \in alt_irq_active ~> 0 \notin lines \/ 0 \notin alt_irq_active

\* Each instruction the program passes took effect once, whatever exceptions and
\* interrupts meet, and only an exception without a handler stops it.
InstructionsOnce == bench = "traps" => Traps!InstructionsOnce /\ Traps!StopsOnlyUnhandled
================================================================================
