------------------------------ MODULE Exceptions -------------------------------
(* The processor's one exception entry.  An interrupt and an instruction that      *)
(* raises an exception come to the same code, which tells them apart by what is    *)
(* pending when it looks, and decides which instruction the program goes on with.  *)
(* A device may raise its line between the exception and that look.                *)
EXTENDS Integers, Sequences

CONSTANTS Program,       \* the kinds of its instructions, in order
          Emulates,      \* the instructions software emulates, if that is linked
          DEBUG_STUB,    \* NIOS2_HAS_DEBUG_STUB
          EXTRA_INFO     \* NIOS2_HAS_EXTRA_EXCEPTION_INFO

Kind == {"plain", "multiply", "fault", "ecc"}
ExceptionAssumption ==
  /\ Program \in Seq(Kind) /\ Emulates \subseteq {"multiply"} /\ {DEBUG_STUB, EXTRA_INFO} \subseteq BOOLEAN

VARIABLES pc,            \* the next instruction
          done,          \* how often each instruction took effect or was passed over
          pie, pending, served,                \* the interrupt: enabled, asked for, times served
          frame,         \* of the exception: step, ea, estatus, the word at 72(sp)
          alt_instruction_exception_handler,   \* what it answers, NoHandler if there is none
          alt_exception_ecc_fatal_handler,
          halted         \* "no", or why the processor is in a loop or a break
vars == << pc, done, pie, pending, served, frame,
           alt_instruction_exception_handler, alt_exception_ecc_fatal_handler, halted >>

Index == DOMAIN Program
NoHandler == "NoHandler"
NoFrame == [step |-> "none", cause |-> "none", ea |-> 0, estatus |-> FALSE, return |-> 0]

ExceptionsInit ==
  /\ pc = 1 /\ done = [k \in Index |-> 0]
  /\ pie \in BOOLEAN /\ pending = FALSE /\ served = 0
  /\ frame = NoFrame /\ halted = "no"
  /\ alt_instruction_exception_handler = NoHandler /\ alt_exception_ecc_fatal_handler = NoHandler

Running == halted = "no" /\ frame = NoFrame
Takes(k) == done' = [done EXCEPT ![k] = @ + 1]
handlers == << alt_instruction_exception_handler, alt_exception_ecc_fatal_handler >>

----------------------------------------------------------------------------
(* The program registers handlers before or between its instructions. *)
alt_instruction_exception_register(handler) ==
  /\ Running /\ alt_instruction_exception_handler' = handler
  /\ UNCHANGED << pc, done, pie, pending, served, frame, alt_exception_ecc_fatal_handler, halted >>

\* Flushed to memory, where the entry reads it.
alt_ecc_fatal_exception_register(handler) ==
  /\ Running /\ alt_exception_ecc_fatal_handler' = handler
  /\ UNCHANGED << pc, done, pie, pending, served, frame, alt_instruction_exception_handler, halted >>

Execute ==
  /\ Running /\ pc \in Index /\ Program[pc] = "plain"
  /\ Takes(pc) /\ pc' = pc + 1
  /\ UNCHANGED << pie, pending, served, frame, handlers, halted >>

Assert ==
  /\ halted = "no" /\ ~pending /\ served < 2 /\ pending' = TRUE
  /\ UNCHANGED << pc, done, pie, served, frame, handlers, halted >>

----------------------------------------------------------------------------
(* alt_exception. *)
\* ea is the instruction after the one that raised the exception, or before which
\* the interrupt came.
Raise ==
  /\ Running /\ pc \in Index
  /\ \E cause \in {"interrupt", Program[pc]} \ {"plain"} :
       /\ cause = "interrupt" => pie /\ pending
       /\ frame' = [step |-> "entry", cause |-> cause, ea |-> pc + 1, estatus |-> pie,
                    return |-> pc]
  /\ pie' = FALSE
  /\ UNCHANGED << pc, done, pending, served, handlers, halted >>

Goto(step, return) == frame' = [frame EXCEPT !.step = step, !.return = return]

\* A likely fatal ECC error is looked for first: a handler takes over for good.
EccFatal ==
  /\ frame.step = "entry" /\ frame.cause = "ecc" /\ alt_exception_ecc_fatal_handler # NoHandler
  /\ halted = "no" /\ halted' = "ecc handler"
  /\ UNCHANGED << pc, done, pie, pending, served, frame, handlers >>

SkipsAlways == frame.ea                    \* mutant: as for an instruction that was emulated
ReissuesInterrupted == frame.ea - 1

IsInterrupt == frame.estatus /\ pending
IrqTest ==
  /\ frame.step = "entry" /\ halted = "no"
  /\ frame.cause = "ecc" => alt_exception_ecc_fatal_handler = NoHandler
  /\ \/ /\ IsInterrupt
        /\ pending' = FALSE /\ served' = served + 1        \* alt_irq_handler
        /\ Goto("exit", ReissuesInterrupted)
     \/ ~IsInterrupt /\ Goto("notirq", frame.ea) /\ UNCHANGED << pending, served >>
  /\ UNCHANGED << pc, done, pie, handlers, halted >>

\* The word at 72(sp) skips the instruction, whose effect has been computed.
Emulate ==
  /\ frame.step = "notirq" /\ frame.cause \in Emulates
  /\ Takes(frame.ea - 1) /\ Goto("exit", frame.ea)
  /\ UNCHANGED << pc, pie, pending, served, handlers, halted >>

alt_exception_cause_e == [plain |-> 2, multiply |-> 4, fault |-> 6, ecc |-> 21]
CauseTold(kind) == IF EXTRA_INFO THEN alt_exception_cause_e[kind] ELSE -1

\* Misaligned and forbidden accesses, and data that cannot be corrected.
alt_exception_cause_generated_bad_addr(cause) == cause \in {11, 6, 7, 14, 15, 17, 21}

\* What a handler answers: it can remove the cause, here by doing the instruction's
\* work, where it is told the address; it may always give the instruction up.
Answers(cause) ==
  {"SKIP"} \cup (IF alt_exception_cause_generated_bad_addr(cause) THEN {"REISSUE"} ELSE {})

Resumes(result) == IF result = "REISSUE" THEN frame.ea - 1 ELSE frame.ea

\* alt_instruction_exception_entry, and what the entry makes of its answer.
alt_instruction_exception_entry ==
  /\ frame.step = "notirq" /\ halted = "no" /\ frame.cause \notin Emulates
  /\ \/ /\ alt_instruction_exception_handler # NoHandler
        /\ \E result \in Answers(CauseTold(frame.cause)) :
             /\ result = "SKIP" => Takes(frame.ea - 1)
             /\ result = "REISSUE" => UNCHANGED done
             /\ Goto(IF result = "SKIP" THEN "exit" ELSE "repaired", Resumes(result))
        /\ UNCHANGED halted
     \/ /\ alt_instruction_exception_handler = NoHandler
        /\ halted' = IF DEBUG_STUB THEN "break" ELSE "loop"
        /\ UNCHANGED << frame, done >>
  /\ UNCHANGED << pc, pie, pending, served, handlers >>

\* eret.  The first instruction after a repair succeeds.
Eret ==
  /\ frame.step \in {"exit", "repaired"}
  /\ pie' = frame.estatus /\ frame' = NoFrame
  /\ IF frame.step = "repaired" THEN Takes(frame.return) /\ pc' = frame.return + 1
                                ELSE UNCHANGED done /\ pc' = frame.return
  /\ UNCHANGED << pending, served, handlers, halted >>

Entry == EccFatal \/ IrqTest \/ Emulate \/ alt_instruction_exception_entry \/ Eret
ExceptionsNext ==
  \/ \E h \in {NoHandler, "handler"} :
       alt_instruction_exception_register(h) \/ alt_ecc_fatal_exception_register(h)
  \/ Execute \/ Assert \/ Raise \/ Entry

----------------------------------------------------------------------------
\* Whatever exceptions and interrupts come where, alone or together: each instruction
\* passed has taken effect once, none to come has, and interrupts are enabled for
\* the program as it left them.
InstructionsOnce ==
  /\ \A k \in Index : done[k] = IF k < pc \/ (frame.step = "exit" /\ k < frame.return)
                                THEN 1 ELSE 0
  /\ frame # NoFrame => pc \in Index /\ ~pie /\ frame.ea = pc + 1

\* An exception nobody has a handler for stops the processor there and then, and
\* nothing else does: the program never runs on past it.
StopsOnlyUnhandled ==
  halted \in {"break", "loop"} =>
    /\ frame.cause \in {"fault", "ecc", "multiply"} \ Emulates /\ done[frame.ea - 1] = 0
    /\ alt_instruction_exception_handler = NoHandler
================================================================================
