------------------------------ MODULE Interrupts -------------------------------
(* The interrupt controller inside the processor and the HAL's code for it: the    *)
(* table of handlers, which program and interrupt routines change with interrupts  *)
(* disabled, the handler that serves what is pending, and interrupt routines that  *)
(* let higher priorities in.  A lower number is a higher priority.  A device holds *)
(* its line until its routine has served it.                                       *)
EXTENDS Integers, Sequences

CONSTANTS ALT_NIRQ,
          Isr, NULL,            \* interrupt routines; each is its own context
          IdArgs,               \* numbers programs pass; -1 stands for the unsigned 2^32 - 1
          IsrsConfigure         \* whether interrupt routines call these functions too:
                                \* never, with no other one interrupted, or always

Irq == 0 .. ALT_NIRQ - 1
ASSUME IrqAssumption ==
  /\ ALT_NIRQ \in Nat /\ NULL \notin Isr /\ IdArgs \subseteq Int
  /\ IsrsConfigure \in {"never", "alone", "always"}

VARIABLES pie, ienable,         \* the processor's registers; pie is status.PIE
          alt_irq_active, alt_priority_mask,
          handler, context,     \* alt_irq
          lines,                \* asserted by devices
          frames,               \* interrupts being handled, the innermost first
          op,                   \* the call that changes the table, if one is under way
          call                  \* the last such call that returned
masks == << alt_irq_active, alt_priority_mask >>
alt_irq == << handler, context >>
vars == << pie, ienable, masks, alt_irq, lines, frames, op, call >>

NoOp == [pc |-> "none", name |-> "none", id |-> 0, isr |-> NULL, saved |-> FALSE, depth |-> 0]

InterruptsInit ==
  /\ pie = FALSE /\ ienable = {}
  /\ alt_irq_active = {} /\ alt_priority_mask = Irq
  /\ handler = [i \in Irq |-> NULL] /\ context = [i \in Irq |-> NULL]
  /\ lines = {} /\ frames = << >> /\ op = NoOp
  /\ call = [name |-> "none", id |-> 0, ret |-> 0]

Top == frames[1]
InProgram == frames = << >>
InIsr(pc) == ~InProgram /\ Top.pc = pc

\* alt_irq_init, before anything is registered.
altera_nios2_gen2_irq_init == ienable' = {}
alt_irq_cpu_enable_interrupts == pie' = TRUE
alt_irq_init ==
  /\ op = NoOp /\ InProgram /\ ~pie
  /\ altera_nios2_gen2_irq_init /\ alt_irq_cpu_enable_interrupts
  /\ UNCHANGED << masks, alt_irq, lines, frames, op, call >>

Assert(i) ==
  /\ i \notin lines /\ lines' = lines \cup {i}
  /\ UNCHANGED << pie, ienable, masks, alt_irq, frames, op, call >>

----------------------------------------------------------------------------
(* Changing the table.  Each step is a store of whoever made the call; between two *)
(* an interrupt may come whenever the processor allows it.                          *)
MayConfigure ==
  \/ InProgram /\ pie
  \/ IsrsConfigure = "alone" /\ Len(frames) = 1 /\ InIsr("isr")
  \/ IsrsConfigure = "always" /\ (InIsr("isr") \/ InIsr("open"))

UnderWay == op # NoOp /\ op.depth = Len(frames)
At(pc) == UnderWay /\ op.pc = pc
Goto(pc) == op' = [op EXCEPT !.pc = pc]

\* alt_irq_disable_all gives PIE as it was and clears it; alt_irq_enable_all puts it back.
alt_irq_disable_all == FALSE
alt_irq_enable_all(was) == was

Call(pc, name, id, isr) ==
  /\ op' = [pc |-> pc, name |-> name, id |-> id, isr |-> isr, saved |-> pie,
            depth |-> Len(frames)]
  /\ pie' = alt_irq_disable_all
Returns(name, id, ret) == call' = [name |-> name, id |-> id, ret |-> ret]

\* alt_iic_isr_register takes the number as a signed one, alt_irq_register does not.
Accepted(name, id) == id < ALT_NIRQ /\ (name = "alt_irq_register" => id >= 0)

Register(name, id, isr) ==
  /\ op = NoOp /\ MayConfigure
  /\ \/ Accepted(name, id) /\ Call("handler", name, id, isr) /\ UNCHANGED call
     \/ ~Accepted(name, id) /\ Returns(name, id, -22) /\ UNCHANGED << op, pie >>
  /\ UNCHANGED << ienable, masks, alt_irq, lines, frames >>
alt_irq_register(id, isr) == Register("alt_irq_register", id, isr)
alt_iic_isr_register(id, isr) == Register("alt_iic_isr_register", id, isr)

\* A number below the table writes before it, where no entry is: what that destroys
\* is not modelled.
Stored(table) == [i \in Irq |-> IF i = op.id THEN op.isr ELSE table[i]]
SetHandler ==
  /\ At("handler") /\ handler' = Stored(handler) /\ Goto("context")
  /\ UNCHANGED << pie, ienable, masks, context, lines, frames, call >>
SetContext ==
  /\ At("context") /\ context' = Stored(context) /\ Goto("active")
  /\ UNCHANGED << pie, ienable, masks, handler, lines, frames, call >>

\* alt_irq_enable and alt_irq_disable on their own.  Callers enable what has a handler.
Switch(name, id, isr) ==
  /\ op = NoOp /\ MayConfigure /\ handler[id] # NULL
  /\ Call("active", name, id, isr)
  /\ UNCHANGED << ienable, masks, alt_irq, lines, frames, call >>
alt_irq_enable(id) == Switch("alt_irq_enable", id, handler[id])
alt_irq_disable(id) == Switch("alt_irq_disable", id, NULL)

SetActive ==
  /\ At("active")
  /\ alt_irq_active' = IF op.isr # NULL THEN alt_irq_active \cup ({op.id} \cap Irq)
                                        ELSE alt_irq_active \ {op.id}
  /\ Goto("ienable")
  /\ UNCHANGED << pie, ienable, alt_priority_mask, alt_irq, lines, frames, call >>

\* The whole of alt_irq_active is enabled, whatever alt_priority_mask says.
SetIenable ==
  /\ At("ienable") /\ ienable' = alt_irq_active
  /\ Goto("restore")
  /\ UNCHANGED << pie, masks, alt_irq, lines, frames, call >>

Restore ==
  /\ At("restore") /\ pie' = alt_irq_enable_all(op.saved)
  /\ Returns(op.name, op.id, 0) /\ op' = NoOp
  /\ UNCHANGED << ienable, masks, alt_irq, lines, frames >>

----------------------------------------------------------------------------
(* alt_irq_handler. *)
alt_irq_pending == lines \cap ienable
Lowest(set) == CHOOSE i \in set : \A j \in set : i >= j     \* mutant: from the last bit
Highest(set) == CHOOSE i \in set : \A j \in set : i <= j

Frame == [pc |-> "entered", irq |-> ALT_NIRQ, with |-> << NULL, NULL >>, served |-> FALSE,
          opened |-> FALSE, mask |-> {}]
SetTop(f) == frames' = << f >> \o Tail(frames)

Enter ==
  /\ pie /\ alt_irq_pending # {}
  /\ frames' = << Frame >> \o frames /\ pie' = FALSE
  /\ UNCHANGED << ienable, masks, alt_irq, lines, op, call >>

\* The routine of the highest priority pending at this moment is called.
Dispatch ==
  /\ InIsr("entered") \/ InIsr("again")
  /\ alt_irq_pending # {}
  /\ LET i == Highest(alt_irq_pending) IN
       SetTop([Frame EXCEPT !.pc = "isr", !.irq = i, !.with = << handler[i], context[i] >>])
  /\ UNCHANGED << pie, ienable, masks, alt_irq, lines, op, call >>

\* After a routine nothing is pending.  On entry the code does not expect that: it
\* would look for a bit for ever.
Leave ==
  /\ InIsr("again") /\ alt_irq_pending = {}
  /\ frames' = Tail(frames) /\ pie' = TRUE
  /\ UNCHANGED << ienable, masks, alt_irq, lines, op, call >>

(* An interrupt routine serves its device, may once let higher priorities in for a *)
(* while, and returns.                                                              *)
Serve ==
  /\ InIsr("isr") /\ ~UnderWay /\ ~Top.served
  /\ lines' = lines \ {Top.irq} /\ SetTop([Top EXCEPT !.served = TRUE])
  /\ UNCHANGED << pie, ienable, masks, alt_irq, op, call >>

MaskAbove(priority) == {i \in Irq : i < priority}

alt_irq_interruptible ==
  /\ InIsr("isr") /\ ~UnderWay /\ ~Top.opened
  /\ alt_priority_mask' = MaskAbove(Top.irq)
  /\ ienable' = alt_irq_active \cap MaskAbove(Top.irq) /\ pie' = TRUE
  /\ SetTop([Top EXCEPT !.pc = "open", !.opened = TRUE, !.mask = alt_priority_mask])
  /\ UNCHANGED << alt_irq_active, alt_irq, lines, op, call >>

NonInterruptibleAll(mask) == alt_irq_active          \* mutant: the mask is forgotten
EnabledUnder(mask) == mask \cap alt_irq_active

alt_irq_non_interruptible ==
  /\ InIsr("open") /\ ~UnderWay
  /\ pie' = FALSE /\ alt_priority_mask' = Top.mask
  /\ ienable' = EnabledUnder(Top.mask)
  /\ SetTop([Top EXCEPT !.pc = "isr", !.mask = {}])
  /\ UNCHANGED << alt_irq_active, alt_irq, lines, op, call >>

IsrReturn ==
  /\ InIsr("isr") /\ ~UnderWay /\ Top.served
  /\ SetTop([Frame EXCEPT !.pc = "again"])
  /\ UNCHANGED << pie, ienable, masks, alt_irq, lines, op, call >>

Processor ==
  \/ alt_irq_init \/ SetHandler \/ SetContext \/ SetActive \/ SetIenable \/ Restore
  \/ Dispatch \/ Leave \/ Serve \/ alt_irq_non_interruptible \/ IsrReturn

InterruptsNext ==
  \/ Processor \/ Enter \/ alt_irq_interruptible
  \/ \E i \in Irq : Assert(i) \/ alt_irq_enable(i) \/ alt_irq_disable(i)
  \/ \E id \in IdArgs, isr \in Isr \cup {NULL} :
       alt_irq_register(id, isr) \/ alt_iic_isr_register(id, isr)

InterruptsSpec == InterruptsInit /\ [][InterruptsNext]_vars

----------------------------------------------------------------------------
InterruptsTypeOK ==
  /\ pie \in BOOLEAN /\ ienable \subseteq Irq
  /\ alt_irq_active \subseteq Irq /\ alt_priority_mask \subseteq Irq /\ lines \subseteq Irq
  /\ handler \in [Irq -> Isr \cup {NULL}] /\ context \in [Irq -> Isr \cup {NULL}]
  /\ Len(frames) <= ALT_NIRQ + 1

\* A routine is called only while it is registered, and with its own context: table
\* and masks are never seen half changed.
CalledConsistent ==
  \A k \in DOMAIN frames :
    frames[k].pc \in {"isr", "open"} => frames[k].with[1] # NULL /\ frames[k].with[1] = frames[k].with[2]

\* A routine that lets others in is interrupted by higher priorities only, and so
\* never by itself.
OnlyHigher ==
  \A j, k \in DOMAIN frames :
    j < k /\ frames[j].pc \in {"isr", "open"} => frames[j].irq < frames[k].irq

\* One that does not, and the handler around it, is not interrupted at all, whatever
\* functions it calls that disable and enable interrupts.
NotInterrupted == op = NoOp /\ (InIsr("entered") \/ InIsr("again") \/ InIsr("isr")) => ~pie

\* Between calls the register says what the masks say, through every nesting.
alt_ic_irq_enabled(irq) == irq \in ienable
EnableMirrors ==
  op = NoOp => \A i \in Irq : alt_ic_irq_enabled(i) <=> i \in alt_irq_active \cap alt_priority_mask

\* The table of handlers is used safely: all of the above in one.
InterruptsInv ==
  InterruptsTypeOK /\ CalledConsistent /\ OnlyHigher /\ NotInterrupted /\ EnableMirrors
================================================================================
