---------------------------- MODULE Interrupts_proof ----------------------------
(* The table of handlers is used safely for any number of interrupts and of         *)
(* routines, nested as deeply as their priorities let them, while routines change   *)
(* the table only when they interrupted no other.  The program goes on after an      *)
(* interrupt or exception with each of its instructions done once.                   *)
EXTENDS MCCpu, TLAPS, SequenceTheorems, WellFoundedInduction

RoutinesKeepOut == IsrsConfigure # "always"

Routine == Isr \cup {NULL}
FrameSet == [pc : {"entered", "isr", "open", "again"}, irq : 0 .. ALT_NIRQ,
             with : Routine \X Routine, served : BOOLEAN, opened : BOOLEAN,
             mask : SUBSET Irq]
OpNames == {"none", "alt_irq_register", "alt_iic_isr_register", "alt_irq_enable", "alt_irq_disable"}
OpSet == [pc : {"none", "handler", "context", "active", "ienable", "restore"},
          name : OpNames, id : Int, isr : Routine, saved : BOOLEAN, depth : Nat]

\* The priorities the frames from k on let through, counting from the innermost.
MaskFrom(s, k) == IF k <= Len(s) THEN MaskAbove(s[k].irq) ELSE Irq
MaskOf(s) ==
  IF s = << >> THEN Irq ELSE IF s[1].pc = "open" THEN MaskFrom(s, 1) ELSE MaskFrom(s, 2)

\* A frame among the others: every one but the innermost has let others in, each has
\* a priority above those it interrupted, and keeps the mask they left.
Calls(f) == f.pc \in {"isr", "open"}
FrameOK(s, k) ==
  /\ k >= 2 => s[k].pc = "open"
  /\ Calls(s[k]) =>
       /\ s[k].irq + (Len(s) - k) < ALT_NIRQ
       /\ s[k].with[1] # NULL /\ s[k].with[1] = s[k].with[2]
       /\ \A j \in k + 1 .. Len(s) : s[k].irq < s[j].irq
  /\ s[k].pc = "open" => s[k].mask = MaskFrom(s, k + 1)
FramesOK(s) == s \in Seq(FrameSet) /\ \A k \in 1 .. Len(s) : FrameOK(s, k)

Types ==
  /\ pie \in BOOLEAN /\ ienable \subseteq Irq
  /\ alt_irq_active \subseteq Irq /\ alt_priority_mask \subseteq Irq /\ lines \subseteq Irq
  /\ handler \in [Irq -> Routine] /\ context \in [Irq -> Routine]
  /\ op \in OpSet

\* Between the calls that change the table the register mirrors the masks, and
\* interrupts are enabled in the program once it has enabled them and in a routine
\* while it lets others in.
Quiet ==
  op.pc = "none" =>
    /\ op = NoOp
    /\ ienable = alt_irq_active \cap alt_priority_mask
    /\ frames = << >> /\ ~pie => alt_irq_active = {}
    /\ frames # << >> => (pie <=> Top.pc = "open")

\* During such a call nothing can interrupt it and no mask is set.
Busy ==
  op.pc # "none" =>
    /\ ~pie /\ op.depth = Len(frames) /\ Len(frames) <= 1
    /\ frames # << >> => Top.pc = "isr"
    /\ op.saved <=> frames = << >>
    /\ op.pc = "restore" => ienable = alt_irq_active

\* The entries, but for the one being changed.
TableOK ==
  /\ \A i \in Irq : (i = op.id /\ op.pc \in {"handler", "context"}) \/ handler[i] = context[i]
  /\ \A i \in alt_irq_active : (i = op.id /\ op.pc \in {"context", "active"}) \/ handler[i] # NULL
  /\ op.id \in Irq /\ (op.pc = "context" \/ (op.pc = "active" /\ op.isr # NULL)) => handler[op.id] = op.isr

Inv ==
  Types /\ FramesOK(frames) /\ alt_priority_mask = MaskOf(frames) /\ Quiet /\ Busy /\ TableOK

----------------------------------------------------------------------------
(* Sequences of frames. *)
LEMMA TopReplaced ==
  ASSUME NEW s \in Seq(FrameSet), s # << >>, NEW f \in FrameSet
  PROVE  LET t == << f >> \o Tail(s) IN
         /\ t \in Seq(FrameSet) /\ t # << >> /\ Len(t) = Len(s) /\ t[1] = f
         /\ \A k \in 2 .. Len(s) : t[k] = s[k]
<1> DEFINE t == << f >> \o Tail(s)
<1>1. /\ Tail(s) \in Seq(FrameSet) /\ Len(Tail(s)) = Len(s) - 1
      /\ \A i \in 1 .. Len(Tail(s)) : Tail(s)[i] = s[i + 1]
  BY HeadTailProperties
<1>2. /\ << f >> \in Seq(FrameSet) /\ Len(<< f >>) = 1 /\ << f >>[1] = f
  OBVIOUS
<1>3. /\ t \in Seq(FrameSet) /\ Len(t) = 1 + Len(Tail(s))
      /\ \A i \in 1 .. 1 + Len(Tail(s)) : t[i] = IF i <= 1 THEN << f >>[i] ELSE Tail(s)[i - 1]
  BY <1>1, <1>2, ConcatProperties
<1>4. Len(s) \in Nat /\ Len(s) >= 1
  BY EmptySeq
<1>5. t # << >>
  BY <1>1, <1>3, <1>4
<1>6. QED
  BY <1>1, <1>2, <1>3, <1>4, <1>5

LEMMA Pushed ==
  ASSUME NEW s \in Seq(FrameSet), NEW f \in FrameSet
  PROVE  LET t == << f >> \o s IN
         /\ t \in Seq(FrameSet) /\ t # << >> /\ Len(t) = Len(s) + 1 /\ t[1] = f
         /\ \A k \in 1 .. Len(s) : t[k + 1] = s[k]
<1> DEFINE t == << f >> \o s
<1>1. /\ << f >> \in Seq(FrameSet) /\ Len(<< f >>) = 1 /\ << f >>[1] = f /\ Len(s) \in Nat
  BY LenProperties
<1>2. /\ t \in Seq(FrameSet) /\ Len(t) = 1 + Len(s)
      /\ \A i \in 1 .. 1 + Len(s) : t[i] = IF i <= 1 THEN << f >>[i] ELSE s[i - 1]
  BY <1>1, ConcatProperties
<1>3. QED
  BY <1>1, <1>2

LEMMA FramesTop ==
  ASSUME NEW s, FramesOK(s), s # << >>, NEW f \in FrameSet, FrameOK(<< f >> \o Tail(s), 1)
  PROVE  FramesOK(<< f >> \o Tail(s))
<1> DEFINE t == << f >> \o Tail(s)
<1>1. /\ t \in Seq(FrameSet) /\ Len(t) = Len(s) /\ Len(s) \in Nat
      /\ \A k \in 2 .. Len(s) : t[k] = s[k]
  BY TopReplaced, LenProperties DEF FramesOK
<1>2. ASSUME NEW k \in 2 .. Len(s) PROVE FrameOK(t, k)
  <2>1. FrameOK(s, k) /\ t[k] = s[k] /\ \A j \in k + 1 .. Len(s) : t[j] = s[j]
    BY <1>1 DEF FramesOK
  <2>2. MaskFrom(t, k + 1) = MaskFrom(s, k + 1)
    BY <1>1, <2>1 DEF MaskFrom
  <2>3. QED
    BY <1>1, <2>1, <2>2 DEF FrameOK
<1>3. QED
  BY <1>1, <1>2 DEF FramesOK

LEMMA FramesPush ==
  ASSUME NEW s, FramesOK(s), s # << >> => s[1].pc = "open", NEW f \in FrameSet, f.pc = "entered"
  PROVE  FramesOK(<< f >> \o s)
<1> DEFINE t == << f >> \o s
<1>1. /\ t \in Seq(FrameSet) /\ Len(t) = Len(s) + 1 /\ Len(s) \in Nat /\ t[1] = f
      /\ \A k \in 1 .. Len(s) : t[k + 1] = s[k]
  BY Pushed, LenProperties DEF FramesOK
<1>2. FrameOK(t, 1)
  BY <1>1 DEF FrameOK, Calls
<1>3. ASSUME NEW k \in 1 .. Len(s) PROVE FrameOK(t, k + 1)
  <2>1. FrameOK(s, k) /\ t[k + 1] = s[k]
    BY <1>1 DEF FramesOK
  <2>2. s[k].pc = "open"
    <3>1. s # << >>
      BY <1>1
    <3>2. CASE k = 1
      BY <3>1, <3>2
    <3>3. CASE k # 1
      BY <2>1, <3>3 DEF FrameOK
    <3>4. QED
      BY <3>2, <3>3
  <2>3. ASSUME NEW j \in k + 2 .. Len(t) PROVE t[j] = s[j - 1] /\ j - 1 \in k + 1 .. Len(s)
    BY <1>1
  <2>4. MaskFrom(t, (k + 1) + 1) = MaskFrom(s, k + 1)
    <3>1. CASE k + 1 <= Len(s)
      BY <1>1, <3>1 DEF MaskFrom
    <3>2. CASE ~(k + 1 <= Len(s))
      BY <1>1, <3>2 DEF MaskFrom
    <3>3. QED
      BY <3>1, <3>2
  <2>5. Len(t) - (k + 1) = Len(s) - k
    BY <1>1
  <2>6. QED
    BY <1>1, <2>1, <2>2, <2>3, <2>4, <2>5 DEF FrameOK, Calls
<1>4. ASSUME NEW k \in 1 .. Len(t) PROVE FrameOK(t, k)
  <2>1. CASE k = 1
    BY <1>2, <2>1
  <2>2. CASE k # 1
    <3>1. k - 1 \in 1 .. Len(s) /\ (k - 1) + 1 = k
      BY <1>1, <2>2
    <3>2. FrameOK(t, (k - 1) + 1)
      BY <1>3, <3>1
    <3>3. QED
      BY <3>1, <3>2
  <2>3. QED
    BY <2>1, <2>2
<1>5. QED
  BY <1>1, <1>4 DEF FramesOK

LEMMA FramesPop ==
  ASSUME NEW s, FramesOK(s), s # << >>
  PROVE  /\ FramesOK(Tail(s)) /\ Len(Tail(s)) = Len(s) - 1 /\ Len(s) \in Nat
         /\ \A k \in 1 .. Len(Tail(s)) : Tail(s)[k] = s[k + 1] /\ Tail(s)[k].pc = "open"
         /\ MaskFrom(Tail(s), 1) = MaskFrom(s, 2)
<1> DEFINE t == Tail(s)
<1>1. /\ t \in Seq(FrameSet) /\ Len(t) = Len(s) - 1 /\ Len(s) \in Nat
      /\ \A k \in 1 .. Len(t) : t[k] = s[k + 1]
  BY HeadTailProperties, LenProperties DEF FramesOK
<1>2. ASSUME NEW k \in Nat PROVE MaskFrom(t, k + 1) = MaskFrom(s, k + 2)
  <2>1. CASE k + 1 <= Len(t)
    BY <1>1, <2>1 DEF MaskFrom
  <2>2. CASE ~(k + 1 <= Len(t))
    BY <1>1, <2>2 DEF MaskFrom
  <2>3. QED
    BY <2>1, <2>2
<1>3. ASSUME NEW k \in 1 .. Len(t) PROVE FrameOK(t, k) /\ t[k].pc = "open"
  <2>1. FrameOK(s, k + 1) /\ t[k] = s[k + 1]
    BY <1>1 DEF FramesOK
  <2>2. t[k].pc = "open"
    BY <1>1, <2>1 DEF FrameOK
  <2>3. \A j \in k + 1 .. Len(t) : t[j] = s[j + 1] /\ j + 1 \in (k + 1) + 1 .. Len(s)
    BY <1>1
  <2>4. MaskFrom(t, k + 1) = MaskFrom(s, (k + 1) + 1)
    BY <1>2
  <2>5. Len(t) - k = Len(s) - (k + 1)
    BY <1>1
  <2>6. QED
    BY <1>1, <2>1, <2>2, <2>3, <2>4, <2>5 DEF FrameOK, Calls
<1>4. MaskFrom(t, 1) = MaskFrom(s, 2)
  BY <1>2
<1>5. QED
  BY <1>1, <1>3, <1>4 DEF FramesOK

----------------------------------------------------------------------------
(* The steps that leave the frames alone. *)
LEMMA SameFrames ==
  ASSUME Inv, UNCHANGED << frames, alt_priority_mask >>
  PROVE  FramesOK(frames)' /\ (alt_priority_mask = MaskOf(frames))'
BY DEF Inv

LEMMA TopFacts ==
  ASSUME Inv, frames # << >>
  PROVE  /\ Top \in FrameSet /\ FrameOK(frames, 1) /\ Len(frames) \in Nat /\ Len(frames) >= 1
         /\ frames \in Seq(FrameSet)
<1>1. frames \in Seq(FrameSet)
  BY DEF Inv, FramesOK
<1>2. Len(frames) \in Nat /\ Len(frames) >= 1
  BY <1>1, EmptySeq
<1>3. QED
  BY <1>1, <1>2, ElementOfSeq DEF Inv, FramesOK, Top

LEMMA MaskAlone ==
  ASSUME Inv, RoutinesKeepOut, MayConfigure, op = NoOp
  PROVE  /\ alt_priority_mask = Irq /\ Len(frames) <= 1 /\ pie \in BOOLEAN
         /\ pie <=> frames = << >>
         /\ frames # << >> => Top.pc = "isr"
<1>1. CASE InProgram
  BY <1>1, EmptySeq DEF MayConfigure, InIsr, InProgram, Inv, Types, MaskOf
<1>2. CASE ~InProgram
  <2>1. Len(frames) = 1 /\ Top.pc = "isr" /\ frames # << >>
    BY <1>2 DEF MayConfigure, InIsr, InProgram, RoutinesKeepOut
  <2>2. ~pie /\ pie \in BOOLEAN
    BY <2>1 DEF Inv, Quiet, Types, NoOp
  <2>3. alt_priority_mask = Irq
    BY <2>1 DEF Inv, MaskOf, MaskFrom, Top
  <2>4. QED
    BY <2>1, <2>2, <2>3
<1>3. QED
  BY <1>1, <1>2

\* A call that disables interrupts and is under way from then on.
LEMMA Call_Inv ==
  ASSUME Inv, RoutinesKeepOut, MayConfigure, op = NoOp,
         NEW step \in {"handler", "active"}, NEW name \in OpNames, NEW id \in Int,
         NEW isr \in Routine, step = "active" => id \in Irq /\ (isr # NULL => handler[id] = isr),
         Call(step, name, id, isr), UNCHANGED << ienable, masks, alt_irq, lines, frames >>
  PROVE  Inv'
<1>1. /\ alt_priority_mask = Irq /\ Len(frames) <= 1 /\ pie \in BOOLEAN
      /\ pie <=> frames = << >>
      /\ frames # << >> => Top.pc = "isr"
  BY MaskAlone
<1>2. /\ op' = [pc |-> step, name |-> name, id |-> id, isr |-> isr, saved |-> pie, depth |-> Len(frames)]
      /\ pie' = FALSE
      /\ UNCHANGED << ienable, alt_irq_active, alt_priority_mask, handler, context, lines, frames >>
  BY DEF Call, alt_irq_disable_all, masks, alt_irq
<1>3. Len(frames) \in Nat
  BY LenProperties DEF Inv, FramesOK
<1>4. Types'
  BY <1>1, <1>2, <1>3 DEF Inv, Types, OpSet
<1>5. Quiet' /\ Busy'
  BY <1>1, <1>2 DEF Quiet, Busy, Top
<1>6. TableOK'
  <2>1. \A i \in Irq : handler[i] = context[i]
    BY DEF Inv, TableOK, NoOp
  <2>2. \A i \in alt_irq_active : handler[i] # NULL
    BY DEF Inv, TableOK, NoOp
  <2>3. QED
    BY <1>2, <2>1, <2>2 DEF TableOK
<1>7. QED
  BY <1>2, <1>4, <1>5, <1>6, SameFrames DEF Inv

LEMMA Init_Inv == InterruptsInit => Inv
<1> SUFFICES ASSUME InterruptsInit PROVE Inv
  OBVIOUS
<1>1. Types
  <2>1. NULL \in Routine /\ NoOp \in OpSet
    BY DEF Routine, NoOp, OpSet, OpNames
  <2>2. handler \in [Irq -> Routine] /\ context \in [Irq -> Routine]
    BY <2>1 DEF InterruptsInit
  <2>3. QED
    BY <2>1, <2>2 DEF InterruptsInit, Types
<1>2. FramesOK(frames) /\ alt_priority_mask = MaskOf(frames)
  BY EmptySeq DEF InterruptsInit, FramesOK, MaskOf
<1>3. Quiet /\ Busy
  BY DEF InterruptsInit, Quiet, Busy, NoOp
<1>4. TableOK
  BY DEF InterruptsInit, TableOK, NoOp
<1>5. QED
  BY <1>1, <1>2, <1>3, <1>4 DEF Inv

LEMMA IrqInit_Inv ==
  ASSUME Inv, alt_irq_init
  PROVE  Inv'
<1>1. /\ op = NoOp /\ frames = << >> /\ ~pie /\ ienable' = {} /\ pie' = TRUE
      /\ UNCHANGED << alt_irq_active, alt_priority_mask, handler, context, lines, frames, op >>
  BY DEF alt_irq_init, InProgram, altera_nios2_gen2_irq_init, alt_irq_cpu_enable_interrupts, masks, alt_irq
<1>2. alt_irq_active = {}
  BY <1>1 DEF Inv, Quiet, NoOp
<1>3. Types' /\ Quiet' /\ Busy' /\ TableOK'
  BY <1>1, <1>2 DEF Inv, Types, Quiet, Busy, TableOK, NoOp
<1>4. QED
  BY <1>1, <1>3, SameFrames DEF Inv

LEMMA Assert_Inv ==
  ASSUME Inv, NEW i \in Irq, Assert(i)
  PROVE  Inv'
<1>1. /\ lines' = lines \cup {i}
      /\ UNCHANGED << pie, ienable, alt_irq_active, alt_priority_mask, handler, context, frames, op >>
  BY DEF Assert, masks, alt_irq
<1>2. Types' /\ Quiet' /\ Busy' /\ TableOK'
  BY <1>1 DEF Inv, Types, Quiet, Busy, TableOK, Top
<1>3. QED
  BY <1>1, <1>2, SameFrames DEF Inv

LEMMA Register_Inv ==
  ASSUME Inv, RoutinesKeepOut, NEW name \in OpNames, NEW id \in IdArgs, NEW isr \in Routine,
         Register(name, id, isr)
  PROVE  Inv'
<1>1. id \in Int
  BY IrqAssumption
<1>2. CASE Accepted(name, id)
  <2>1. Call("handler", name, id, isr)
    BY <1>2 DEF Register
  <2>2. QED
    BY <1>1, <2>1, Call_Inv DEF Register
<1>3. CASE ~Accepted(name, id)
  <2>1. UNCHANGED << pie, ienable, alt_irq_active, alt_priority_mask, handler, context, lines, frames, op >>
    BY <1>3 DEF Register, masks, alt_irq
  <2>2. Types' /\ Quiet' /\ Busy' /\ TableOK'
    BY <2>1 DEF Inv, Types, Quiet, Busy, TableOK, Top
  <2>3. QED
    BY <2>1, <2>2, SameFrames DEF Inv
<1>4. QED
  BY <1>2, <1>3

LEMMA Switch_Inv ==
  ASSUME Inv, RoutinesKeepOut, NEW id \in Irq, alt_irq_enable(id) \/ alt_irq_disable(id)
  PROVE  Inv'
<1>1. id \in Int /\ handler[id] \in Routine /\ NULL \in Routine
  BY IrqAssumption DEF Inv, Types, Irq, Routine
<1>2. CASE alt_irq_enable(id)
  <2>1. /\ op = NoOp /\ MayConfigure /\ Call("active", "alt_irq_enable", id, handler[id])
        /\ UNCHANGED << ienable, masks, alt_irq, lines, frames >>
    BY <1>2 DEF alt_irq_enable, Switch
  <2>2. "alt_irq_enable" \in OpNames
    BY DEF OpNames
  <2>3. QED
    BY <1>1, <2>1, <2>2, Call_Inv
<1>3. CASE alt_irq_disable(id)
  <2>1. /\ op = NoOp /\ MayConfigure /\ Call("active", "alt_irq_disable", id, NULL)
        /\ UNCHANGED << ienable, masks, alt_irq, lines, frames >>
    BY <1>3 DEF alt_irq_disable, Switch
  <2>2. "alt_irq_disable" \in OpNames
    BY DEF OpNames
  <2>3. QED
    BY <1>1, <2>1, <2>2, Call_Inv
<1>4. QED
  BY <1>2, <1>3

\* The stores of a call: each moves it to the next, the last returns.
LEMMA Under_Inv ==
  ASSUME Inv, NEW step \in {"context", "active", "ienable", "restore"}, op.pc # "none", Goto(step),
         UNCHANGED << pie, alt_priority_mask, lines, frames >>,
         step = "restore" => ienable' = alt_irq_active',
         ienable' \subseteq Irq, alt_irq_active' \subseteq Irq,
         handler' \in [Irq -> Routine], context' \in [Irq -> Routine], TableOK'
  PROVE  Inv'
<1>1. op' = [op EXCEPT !.pc = step] /\ op \in OpSet
  BY DEF Goto, Inv, Types
<1>2. /\ op' \in OpSet /\ op'.pc = step /\ op'.id = op.id /\ op'.isr = op.isr
      /\ op'.saved = op.saved /\ op'.depth = op.depth
  BY <1>1 DEF OpSet
<1>3. Types'
  BY <1>2 DEF Inv, Types
<1>4. Quiet' /\ Busy'
  BY <1>2 DEF Inv, Quiet, Busy, Top
<1>5. QED
  BY <1>3, <1>4, SameFrames DEF Inv

LEMMA OpAt ==
  ASSUME Inv, NEW step \in {"handler", "context", "active", "ienable", "restore"}, At(step)
  PROVE  op.pc = step /\ op \in OpSet
BY DEF At, UnderWay, Inv, Types

LEMMA Moved ==
  ASSUME Inv, NEW step, Goto(step)
  PROVE  op'.pc = step /\ op'.id = op.id /\ op'.isr = op.isr /\ op.isr \in Routine /\ op.id \in Int
BY DEF Goto, Inv, Types, OpSet

LEMMA StoredType ==
  ASSUME Inv, NEW table \in [Irq -> Routine]
  PROVE  /\ Stored(table) \in [Irq -> Routine]
         /\ \A i \in Irq : Stored(table)[i] = IF i = op.id THEN op.isr ELSE table[i]
<1>1. op.isr \in Routine
  BY DEF Inv, Types, OpSet
<1>2. QED
  BY <1>1 DEF Stored

LEMMA SetHandler_Inv ==
  ASSUME Inv, SetHandler
  PROVE  Inv'
<1>1. /\ op.pc = "handler" /\ Goto("context") /\ handler' = Stored(handler)
      /\ UNCHANGED << pie, ienable, alt_irq_active, alt_priority_mask, context, lines, frames >>
  BY OpAt DEF SetHandler, masks
<1>2. handler' \in [Irq -> Routine] /\ \A i \in Irq : handler'[i] = IF i = op.id THEN op.isr ELSE handler[i]
  BY <1>1, StoredType DEF Inv, Types
<1>3. op'.pc = "context" /\ op'.id = op.id /\ op'.isr = op.isr
  BY <1>1, Moved
<1>4. TableOK'
  BY <1>1, <1>2, <1>3 DEF Inv, Types, TableOK
<1>5. QED
  BY <1>1, <1>2, <1>4, Under_Inv DEF Inv, Types

LEMMA SetContext_Inv ==
  ASSUME Inv, SetContext
  PROVE  Inv'
<1>1. /\ op.pc = "context" /\ Goto("active") /\ context' = Stored(context)
      /\ UNCHANGED << pie, ienable, alt_irq_active, alt_priority_mask, handler, lines, frames >>
  BY OpAt DEF SetContext, masks
<1>2. context' \in [Irq -> Routine] /\ \A i \in Irq : context'[i] = IF i = op.id THEN op.isr ELSE context[i]
  BY <1>1, StoredType DEF Inv, Types
<1>3. op'.pc = "active" /\ op'.id = op.id /\ op'.isr = op.isr
  BY <1>1, Moved
<1>4. TableOK'
  <2>0. op.id \in Irq => handler[op.id] = op.isr
    <3>1. op.id \in Irq /\ (op.pc = "context" \/ (op.pc = "active" /\ op.isr # NULL)) => handler[op.id] = op.isr
      BY DEF Inv, TableOK
    <3>2. QED
      BY <1>1, <3>1
  <2>1. ASSUME NEW i \in Irq PROVE handler[i] = context'[i]
    <3>1. CASE i = op.id
      BY <1>2, <2>0, <3>1
    <3>2. CASE i # op.id
      BY <1>1, <1>2, <3>2 DEF Inv, TableOK
    <3>3. QED
      BY <3>1, <3>2
  <2>2. \A i \in alt_irq_active : i = op.id \/ handler[i] # NULL
    BY <1>1 DEF Inv, TableOK
  <2>3. QED
    BY <1>1, <1>3, <2>0, <2>1, <2>2 DEF TableOK
<1>5. QED
  BY <1>1, <1>2, <1>4, Under_Inv DEF Inv, Types

LEMMA SetActive_Inv ==
  ASSUME Inv, SetActive
  PROVE  Inv'
<1>1. /\ op.pc = "active" /\ Goto("ienable")
      /\ alt_irq_active' = IF op.isr # NULL THEN alt_irq_active \cup ({op.id} \cap Irq)
                                            ELSE alt_irq_active \ {op.id}
      /\ UNCHANGED << pie, ienable, alt_priority_mask, handler, context, lines, frames >>
  BY OpAt DEF SetActive, alt_irq
<1>2. op'.pc = "ienable" /\ op'.id = op.id /\ op'.isr = op.isr
  BY <1>1, Moved
<1>3. alt_irq_active' \subseteq Irq
  BY <1>1 DEF Inv, Types
<1>4. TableOK'
  <2>1. \A i \in Irq : handler[i] = context[i]
    BY <1>1 DEF Inv, TableOK
  <2>2. ASSUME NEW i \in alt_irq_active' PROVE handler[i] # NULL
    <3>1. CASE i = op.id
      BY <1>1, <1>3, <3>1 DEF Inv, TableOK
    <3>2. CASE i # op.id
      BY <1>1, <3>2 DEF Inv, TableOK
    <3>3. QED
      BY <3>1, <3>2
  <2>3. QED
    BY <1>1, <1>2, <2>1, <2>2 DEF TableOK
<1>5. QED
  BY <1>1, <1>3, <1>4, Under_Inv DEF Inv, Types

LEMMA SetIenable_Inv ==
  ASSUME Inv, SetIenable
  PROVE  Inv'
<1>1. /\ op.pc = "ienable" /\ Goto("restore") /\ ienable' = alt_irq_active
      /\ UNCHANGED << pie, alt_irq_active, alt_priority_mask, handler, context, lines, frames >>
  BY OpAt DEF SetIenable, masks, alt_irq
<1>2. op'.pc = "restore" /\ op'.id = op.id /\ op'.isr = op.isr
  BY <1>1, Moved
<1>3. TableOK'
  BY <1>1, <1>2 DEF Inv, Types, TableOK
<1>4. QED
  BY <1>1, <1>3, Under_Inv DEF Inv, Types

LEMMA Restore_Inv ==
  ASSUME Inv, Restore
  PROVE  Inv'
<1>1. /\ op.pc = "restore" /\ op' = NoOp /\ pie' = op.saved
      /\ UNCHANGED << ienable, alt_irq_active, alt_priority_mask, handler, context, lines, frames >>
  BY OpAt DEF Restore, masks, alt_irq, alt_irq_enable_all
<1>2. /\ op.saved \in BOOLEAN /\ (op.saved <=> frames = << >>) /\ Len(frames) <= 1
      /\ frames # << >> => Top.pc = "isr"
      /\ ienable = alt_irq_active
  BY <1>1 DEF Inv, Types, OpSet, Busy
<1>3. alt_priority_mask = Irq
  <2>1. CASE frames = << >>
    BY <2>1 DEF Inv, MaskOf
  <2>2. CASE frames # << >>
    <3>1. Len(frames) \in Nat /\ Len(frames) >= 1
      BY <2>2, TopFacts
    <3>2. Len(frames) = 1
      <4>1. Len(frames) <= 1
        BY <1>2
      <4>2. QED
        BY <3>1, <4>1
    <3>3. frames[1].pc = "isr"
      BY <1>2, <2>2 DEF Top
    <3>4. QED
      BY <2>2, <3>2, <3>3 DEF Inv, MaskOf, MaskFrom
  <2>3. QED
    BY <2>1, <2>2
<1>4. Types'
  <2>1. NoOp \in OpSet
    BY DEF NoOp, OpSet, OpNames, Routine
  <2>2. QED
    BY <1>1, <1>2, <2>1 DEF Inv, Types
<1>5. Quiet' /\ Busy'
  BY <1>1, <1>2, <1>3 DEF Inv, Types, Quiet, Busy, NoOp, Top
<1>6. TableOK'
  BY <1>1 DEF Inv, TableOK, NoOp
<1>7. QED
  BY <1>1, <1>4, <1>5, <1>6, SameFrames DEF Inv

----------------------------------------------------------------------------
(* The handler and the routines. *)
\* Nobody is changing the table while the handler runs, but a routine it called.
LEMMA NotBusy ==
  ASSUME Inv, frames # << >>, Top.pc # "isr" \/ ~UnderWay
  PROVE  op.pc = "none" /\ op = NoOp
<1>1. op.pc = "none"
  BY DEF UnderWay, Inv, Quiet, Busy, NoOp
<1>2. QED
  BY <1>1 DEF Inv, Quiet

\* The innermost frame gives way to another.
LEMMA Top_Inv ==
  ASSUME Inv, frames # << >>, op = NoOp, NEW f \in FrameSet, SetTop(f),
         UNCHANGED << alt_irq_active, alt_irq, op >>,
         FrameOK(<< f >> \o Tail(frames), 1),
         alt_priority_mask' \subseteq Irq, alt_priority_mask' = MaskOf(<< f >> \o Tail(frames)),
         ienable' = alt_irq_active \cap alt_priority_mask',
         pie' \in BOOLEAN, pie' <=> f.pc = "open", lines' \subseteq Irq
  PROVE  Inv'
<1>1. /\ frames' = << f >> \o Tail(frames) /\ FramesOK(frames')
      /\ frames' # << >> /\ Top' = f
      /\ UNCHANGED << handler, context >>
  BY FramesTop, TopReplaced, TopFacts DEF SetTop, Inv, Top, alt_irq
<1>2. Types' /\ TableOK'
  BY <1>1 DEF Inv, Types, TableOK
<1>3. Quiet' /\ Busy'
  BY <1>1 DEF Quiet, Busy, NoOp
<1>4. QED
  BY <1>1, <1>2, <1>3 DEF Inv

LEMMA FrameType == Frame \in FrameSet /\ Frame.pc = "entered"
BY IrqAssumption DEF Frame, FrameSet, Routine, Irq

\* What is called stays as it was when only the rest of its frame changes.
LEMMA SameCall ==
  ASSUME Inv, frames # << >>, Calls(Top), NEW f \in FrameSet,
         f.irq = Top.irq, f.with = Top.with,
         f.pc = "open" => f.mask = MaskFrom(frames, 2)
  PROVE  FrameOK(<< f >> \o Tail(frames), 1)
<1> DEFINE t == << f >> \o Tail(frames)
<1>1. /\ t # << >> /\ Len(t) = Len(frames) /\ Len(frames) \in Nat /\ Len(frames) >= 1
      /\ t[1] = f /\ \A k \in 2 .. Len(frames) : t[k] = frames[k]
  BY TopFacts, TopReplaced
<1>2. FrameOK(frames, 1) /\ frames[1] = Top
  BY TopFacts DEF Top
<1>3. MaskFrom(t, 2) = MaskFrom(frames, 2)
  BY <1>1 DEF MaskFrom
<1>4. /\ Top.irq + (Len(frames) - 1) < ALT_NIRQ
      /\ Top.with[1] # NULL /\ Top.with[1] = Top.with[2]
      /\ \A j \in 2 .. Len(frames) : Top.irq < frames[j].irq
  BY <1>2 DEF FrameOK
<1>5. \A j \in 2 .. Len(t) : f.irq < t[j].irq
  BY <1>1, <1>4
<1>6. 1 >= 2 => t[1].pc = "open"
  OBVIOUS
<1>7. /\ t[1].irq + Len(t) - 1 < ALT_NIRQ
      /\ t[1].with[1] # NULL /\ t[1].with[1] = t[1].with[2]
      /\ \A j \in 1 + 1 .. Len(t) : t[1].irq < t[j].irq
  <2>1. t[1].irq = Top.irq /\ t[1].with = Top.with /\ Len(t) = Len(frames)
    BY <1>1
  <2>2. Top.irq + Len(frames) - 1 < ALT_NIRQ
    <3>1. Top.irq \in Int
      BY TopFacts DEF Inv, FramesOK, FrameSet, Irq
    <3>2. QED
      BY <1>1, <1>4, <3>1
  <2>3. QED
    BY <1>1, <1>4, <1>5, <2>1, <2>2
<1>8. t[1].pc = "open" => t[1].mask = MaskFrom(t, 1 + 1)
  BY <1>1, <1>3
<1> HIDE DEF t
<1>9. FrameOK(t, 1)
  BY <1>6, <1>7, <1>8 DEF FrameOK
<1>10. QED
  BY <1>9 DEF t

LEMMA MasksClosed ==
  ASSUME Inv, frames # << >>, NEW f \in FrameSet, f.pc # "open"
  PROVE  /\ MaskOf(<< f >> \o Tail(frames)) = MaskFrom(frames, 2)
         /\ Top.pc # "open" => MaskOf(frames) = MaskFrom(frames, 2)
<1> DEFINE t == << f >> \o Tail(frames)
<1>1. /\ t # << >> /\ Len(t) = Len(frames) /\ Len(frames) \in Nat
      /\ t[1] = f /\ \A k \in 2 .. Len(frames) : t[k] = frames[k]
  BY TopFacts, TopReplaced
<1>2. MaskFrom(t, 2) = MaskFrom(frames, 2)
  BY <1>1 DEF MaskFrom
<1>3. QED
  BY <1>1, <1>2 DEF MaskOf, Top

LEMMA Enter_Inv ==
  ASSUME Inv, Enter
  PROVE  Inv'
<1>1. /\ pie /\ alt_irq_pending # {} /\ frames' = << Frame >> \o frames /\ pie' = FALSE
      /\ UNCHANGED << ienable, alt_irq_active, alt_priority_mask, handler, context, lines, op >>
  BY DEF Enter, masks, alt_irq
<1>2. op.pc = "none" /\ (frames # << >> => Top.pc = "open")
  BY <1>1 DEF Inv, Busy, Quiet
<1>3. FramesOK(frames')
  BY <1>1, <1>2, FramesPush, FrameType DEF Inv, Top
<1>4. /\ frames' # << >> /\ frames'[1] = Frame /\ Len(frames') = Len(frames) + 1
      /\ Len(frames) \in Nat /\ \A k \in 1 .. Len(frames) : frames'[k + 1] = frames[k]
  BY <1>1, Pushed, FrameType, LenProperties DEF Inv, FramesOK
<1>5. alt_priority_mask' = MaskOf(frames')
  <2>1. MaskOf(frames') = MaskFrom(frames', 2)
    BY <1>4, FrameType DEF MaskOf
  <2>2. CASE frames = << >>
    BY <1>1, <1>4, <2>1, <2>2, EmptySeq DEF MaskFrom, MaskOf, Inv
  <2>3. CASE frames # << >>
    <3>1. Len(frames) >= 1
      BY <2>3, TopFacts
    <3>2. frames'[2] = frames[1]
      BY <1>4, <3>1
    <3>3. MaskOf(frames) = MaskFrom(frames, 1)
      BY <1>2, <2>3 DEF MaskOf, Top
    <3>4. QED
      BY <1>1, <1>4, <2>1, <3>1, <3>2, <3>3 DEF MaskFrom, Inv
  <2>4. QED
    BY <2>2, <2>3
<1>6. Types' /\ TableOK'
  BY <1>1 DEF Inv, Types, TableOK
<1>7. Quiet' /\ Busy'
  BY <1>1, <1>2, <1>4, FrameType DEF Inv, Quiet, Busy, Top
<1>8. QED
  BY <1>3, <1>5, <1>6, <1>7 DEF Inv

LEMMA Leave_Inv ==
  ASSUME Inv, Leave
  PROVE  Inv'
<1>1. /\ frames # << >> /\ Top.pc = "again" /\ frames' = Tail(frames) /\ pie' = TRUE
      /\ UNCHANGED << ienable, alt_irq_active, alt_priority_mask, handler, context, lines, op >>
  BY DEF Leave, InIsr, InProgram, masks, alt_irq
<1>2. op = NoOp /\ op.pc = "none"
  BY <1>1, NotBusy
<1>3. /\ FramesOK(frames') /\ Len(frames') = Len(frames) - 1 /\ Len(frames) \in Nat
      /\ \A k \in 1 .. Len(frames') : frames'[k].pc = "open"
      /\ MaskFrom(frames', 1) = MaskFrom(frames, 2)
  BY <1>1, FramesPop DEF Inv
<1>4. frames' # << >> => Len(frames') >= 1 /\ Top'.pc = "open"
  BY <1>3, EmptySeq DEF FramesOK, Top
<1>5. alt_priority_mask' = MaskOf(frames')
  <2>1. alt_priority_mask = MaskFrom(frames, 2)
    BY <1>1 DEF Inv, MaskOf, Top
  <2>2. CASE frames' = << >>
    <3>1. Len(frames') = 0
      BY <2>2
    <3>2. ~(2 <= Len(frames))
      <4>1. Len(frames) \in Nat /\ Len(frames') = Len(frames) - 1
        BY <1>3
      <4>2. Len(frames) = 1
        BY <3>1, <4>1
      <4>3. QED
        BY <4>2
    <3>3. MaskFrom(frames, 2) = Irq
      BY <3>2 DEF MaskFrom
    <3>4. QED
      BY <1>1, <2>1, <2>2, <3>3 DEF MaskOf
  <2>3. CASE frames' # << >>
    BY <1>1, <1>3, <1>4, <2>1, <2>3 DEF MaskOf, Top
  <2>4. QED
    BY <2>2, <2>3
<1>6. Types' /\ TableOK'
  BY <1>1 DEF Inv, Types, TableOK
<1>7. Quiet' /\ Busy'
  BY <1>1, <1>2, <1>4 DEF Inv, Quiet, Busy, Top
<1>8. QED
  BY <1>3, <1>5, <1>6, <1>7 DEF Inv

\* A set of interrupts that is not empty has a highest priority.
LEMMA HighestIsMember ==
  ASSUME NEW set, set \subseteq Irq, set # {}
  PROVE  Highest(set) \in set
<1>1. set \subseteq Nat
  BY IrqAssumption DEF Irq
<1> DEFINE R == {ss \in Nat \X Nat : ss[1] < ss[2]}
<1>2. IsWellFoundedOn(R, Nat)
  BY NatLessThanWellFounded, Zenon DEF OpToRel
<1>3. PICK i \in set : \A j \in set : ~(<< j, i >> \in R)
  <2> HIDE DEF R
  <2>1. QED
    BY <1>1, <1>2, WFMin
<1>4. ASSUME NEW j \in set PROVE i <= j
  <2>1. i \in Nat /\ j \in Nat /\ ~(<< j, i >> \in R)
    BY <1>1, <1>3
  <2>2. QED
    BY <2>1
<1>5. QED
  BY <1>4 DEF Highest

\* What is pending is enabled, and so lies above every routine that was interrupted
\* and has an entry.
LEMMA Pending ==
  ASSUME Inv, frames # << >>, op = NoOp, Top.pc # "open", NEW i \in alt_irq_pending
  PROVE  /\ i \in Irq /\ handler[i] # NULL /\ handler[i] = context[i]
         /\ handler[i] \in Routine
         /\ \A j \in 2 .. Len(frames) : i < frames[j].irq
         /\ Len(frames) >= 2 => i + (Len(frames) - 1) < ALT_NIRQ
<1>1. /\ i \in alt_irq_active /\ i \in alt_priority_mask /\ i \in Irq
  BY DEF alt_irq_pending, Inv, Quiet, Types, NoOp
<1>2. handler[i] # NULL /\ handler[i] = context[i] /\ handler[i] \in Routine
  BY <1>1 DEF Inv, TableOK, NoOp, Types
<1>3. Len(frames) \in Nat /\ frames \in Seq(FrameSet)
  BY TopFacts
<1>4. i \in MaskFrom(frames, 2)
  BY <1>1 DEF Inv, MaskOf, Top
<1>5. CASE Len(frames) < 2
  BY <1>1, <1>2, <1>3, <1>5
<1>6. CASE Len(frames) >= 2
  <2>1. i < frames[2].irq /\ frames[2] \in FrameSet
    BY <1>3, <1>4, <1>6, ElementOfSeq DEF MaskFrom, MaskAbove
  <2>2. FrameOK(frames, 2)
    BY <1>3, <1>6 DEF Inv, FramesOK
  <2>3. /\ frames[2].irq + (Len(frames) - 2) < ALT_NIRQ
        /\ \A j \in 3 .. Len(frames) : frames[2].irq < frames[j].irq
    BY <2>2 DEF FrameOK, Calls
  <2>4. frames[2].irq \in Int /\ i \in Int /\ ALT_NIRQ \in Int
    BY <1>1, <2>1, IrqAssumption DEF FrameSet, Irq
  <2>5. ASSUME NEW j \in 2 .. Len(frames) PROVE frames[j].irq \in Int
    <3>1. frames[j] \in FrameSet
      BY <1>3, ElementOfSeq
    <3>2. QED
      BY <3>1, IrqAssumption DEF FrameSet
  <2>6. QED
    BY <1>1, <1>2, <1>3, <1>6, <2>1, <2>3, <2>4, <2>5
<1>7. QED
  BY <1>3, <1>5, <1>6

LEMMA Dispatch_Inv ==
  ASSUME Inv, Dispatch
  PROVE  Inv'
<1> DEFINE i == Highest(alt_irq_pending)
           w == << handler[i], context[i] >>
           f == [Frame EXCEPT !.pc = "isr", !.irq = i, !.with = w]
<1>1. /\ frames # << >> /\ Top.pc \in {"entered", "again"} /\ alt_irq_pending # {}
      /\ SetTop(f)
      /\ UNCHANGED << pie, ienable, alt_irq_active, alt_priority_mask, alt_irq, lines, op >>
  BY DEF Dispatch, InIsr, InProgram, masks
<1>2. op = NoOp
  BY <1>1, NotBusy
<1>3. i \in alt_irq_pending
  <2>1. alt_irq_pending \subseteq Irq
    BY DEF alt_irq_pending, Inv, Types
  <2>2. QED
    BY <1>1, <2>1, HighestIsMember
<1>4. /\ i \in Irq /\ handler[i] # NULL /\ handler[i] = context[i] /\ handler[i] \in Routine
      /\ \A j \in 2 .. Len(frames) : i < frames[j].irq
      /\ Len(frames) >= 2 => i + (Len(frames) - 1) < ALT_NIRQ
  BY <1>1, <1>2, <1>3, Pending
<1>5. f \in FrameSet /\ f.pc = "isr" /\ f.irq = i /\ f.with = w
  <2>1. i \in 0 .. ALT_NIRQ /\ w \in Routine \X Routine
    BY <1>4, IrqAssumption DEF Irq
  <2> HIDE DEF i, w
  <2>2. f = [Frame EXCEPT !.pc = "isr", !.irq = i, !.with = w]
    OBVIOUS
  <2> HIDE DEF f
  <2>3. QED
    BY <2>1, <2>2, FrameType DEF FrameSet
<1>6. FrameOK(<< f >> \o Tail(frames), 1) /\ MaskOf(<< f >> \o Tail(frames)) = MaskOf(frames)
  <2> DEFINE t == << f >> \o Tail(frames)
  <2>1. /\ t # << >> /\ Len(t) = Len(frames) /\ Len(frames) \in Nat /\ Len(frames) >= 1
        /\ t[1] = f /\ \A k \in 2 .. Len(frames) : t[k] = frames[k]
    BY <1>1, <1>5, TopFacts, TopReplaced
  <2>2. i + (Len(frames) - 1) < ALT_NIRQ
    BY <1>4, <2>1, IrqAssumption DEF Irq
  <2>3. f.with[1] # NULL /\ f.with[1] = f.with[2] /\ f.pc # "open"
    BY <1>4, <1>5
  <2>4. \A j \in 2 .. Len(t) : f.irq < t[j].irq
    BY <1>4, <1>5, <2>1
  <2>5. FrameOK(t, 1)
    <3> HIDE DEF f
    <3>1. t[1].irq + (Len(t) - 1) < ALT_NIRQ
      BY <1>5, <2>1, <2>2
    <3>2. QED
      BY <2>1, <2>3, <2>4, <3>1 DEF FrameOK
  <2>6. MaskFrom(t, 2) = MaskFrom(frames, 2)
    BY <2>1 DEF MaskFrom
  <2>7. MaskOf(t) = MaskFrom(t, 2)
    BY <2>1, <2>3 DEF MaskOf
  <2>8. MaskOf(frames) = MaskFrom(frames, 2)
    BY <1>1 DEF MaskOf, Top
  <2>9. QED
    BY <2>5, <2>6, <2>7, <2>8
<1>7. /\ ~pie /\ ienable = alt_irq_active \cap alt_priority_mask
      /\ alt_priority_mask = MaskOf(frames) /\ alt_priority_mask \subseteq Irq /\ lines \subseteq Irq
      /\ pie \in BOOLEAN
  BY <1>1, <1>2 DEF Inv, Quiet, Types, NoOp
<1>8. QED
  BY <1>1, <1>2, <1>5, <1>6, <1>7, Top_Inv

LEMMA Serve_Inv ==
  ASSUME Inv, Serve
  PROVE  Inv'
<1> DEFINE f == [Top EXCEPT !.served = TRUE]
<1>1. /\ frames # << >> /\ Top.pc = "isr" /\ ~UnderWay /\ SetTop(f)
      /\ lines' = lines \ {Top.irq}
      /\ UNCHANGED << pie, ienable, alt_irq_active, alt_priority_mask, alt_irq, op >>
  BY DEF Serve, InIsr, InProgram, masks
<1>2. op = NoOp
  BY <1>1, NotBusy
<1>3. Top \in FrameSet /\ FrameOK(frames, 1)
  BY <1>1, TopFacts
<1>4. f \in FrameSet /\ f.pc = "isr" /\ f.irq = Top.irq /\ f.with = Top.with
  BY <1>1, <1>3 DEF FrameSet
<1>5. FrameOK(<< f >> \o Tail(frames), 1)
  BY <1>1, <1>3, <1>4, SameCall DEF Calls
<1>6. MaskOf(<< f >> \o Tail(frames)) = MaskOf(frames)
  BY <1>1, <1>4, MasksClosed
<1>7. /\ ~pie /\ ienable = alt_irq_active \cap alt_priority_mask
      /\ alt_priority_mask = MaskOf(frames) /\ alt_priority_mask \subseteq Irq /\ lines \subseteq Irq
      /\ pie \in BOOLEAN
  BY <1>1, <1>2 DEF Inv, Quiet, Types, NoOp
<1>8. QED
  BY <1>1, <1>2, <1>4, <1>5, <1>6, <1>7, Top_Inv

LEMMA Interruptible_Inv ==
  ASSUME Inv, alt_irq_interruptible
  PROVE  Inv'
<1> DEFINE f == [Top EXCEPT !.pc = "open", !.opened = TRUE, !.mask = alt_priority_mask]
<1>1. /\ frames # << >> /\ Top.pc = "isr" /\ ~UnderWay /\ SetTop(f)
      /\ alt_priority_mask' = MaskAbove(Top.irq)
      /\ ienable' = alt_irq_active \cap MaskAbove(Top.irq) /\ pie' = TRUE
      /\ UNCHANGED << alt_irq_active, alt_irq, lines, op >>
  BY DEF alt_irq_interruptible, InIsr, InProgram
<1>2. op = NoOp
  BY <1>1, NotBusy
<1>3. /\ Top \in FrameSet /\ FrameOK(frames, 1) /\ Len(frames) \in Nat /\ Len(frames) >= 1
  BY <1>1, TopFacts
<1>4. alt_priority_mask = MaskFrom(frames, 2) /\ alt_priority_mask \subseteq Irq /\ lines \subseteq Irq
  BY <1>1 DEF Inv, MaskOf, Top, Types
<1>5. f \in FrameSet /\ f.pc = "open" /\ f.irq = Top.irq /\ f.with = Top.with /\ f.mask = alt_priority_mask
  BY <1>1, <1>3, <1>4 DEF FrameSet
<1>6. FrameOK(<< f >> \o Tail(frames), 1)
  BY <1>1, <1>3, <1>4, <1>5, SameCall DEF Calls
<1>7. MaskOf(<< f >> \o Tail(frames)) = MaskAbove(Top.irq)
  <2>1. /\ << f >> \o Tail(frames) # << >> /\ Len(<< f >> \o Tail(frames)) = Len(frames)
        /\ (<< f >> \o Tail(frames))[1] = f
    BY <1>1, <1>5, TopFacts, TopReplaced
  <2>2. QED
    BY <1>3, <1>5, <2>1 DEF MaskOf, MaskFrom
<1>8. MaskAbove(Top.irq) \subseteq Irq
  BY DEF MaskAbove
<1>9. QED
  BY <1>1, <1>2, <1>4, <1>5, <1>6, <1>7, <1>8, Top_Inv

LEMMA NonInterruptible_Inv ==
  ASSUME Inv, alt_irq_non_interruptible
  PROVE  Inv'
<1> DEFINE f == [Top EXCEPT !.pc = "isr", !.mask = {}]
<1>1. /\ frames # << >> /\ Top.pc = "open" /\ SetTop(f)
      /\ alt_priority_mask' = Top.mask /\ ienable' = Top.mask \cap alt_irq_active /\ pie' = FALSE
      /\ UNCHANGED << alt_irq_active, alt_irq, lines, op >>
  BY DEF alt_irq_non_interruptible, InIsr, InProgram, EnabledUnder
<1>2. op = NoOp
  BY <1>1, NotBusy
<1>3. /\ Top \in FrameSet /\ FrameOK(frames, 1) /\ Len(frames) \in Nat /\ Len(frames) >= 1
  BY <1>1, TopFacts
<1>4. Top.mask = MaskFrom(frames, 2) /\ Top.mask \subseteq Irq /\ lines \subseteq Irq
  BY <1>1, <1>3 DEF FrameOK, FrameSet, Top, Inv, Types
<1>5. f \in FrameSet /\ f.pc = "isr" /\ f.irq = Top.irq /\ f.with = Top.with
  BY <1>1, <1>3 DEF FrameSet
<1>6. FrameOK(<< f >> \o Tail(frames), 1)
  BY <1>1, <1>3, <1>5, SameCall DEF Calls
<1>7. MaskOf(<< f >> \o Tail(frames)) = MaskFrom(frames, 2)
  BY <1>1, <1>5, MasksClosed
<1>8. QED
  BY <1>1, <1>2, <1>4, <1>5, <1>6, <1>7, Top_Inv

LEMMA IsrReturn_Inv ==
  ASSUME Inv, IsrReturn
  PROVE  Inv'
<1> DEFINE f == [Frame EXCEPT !.pc = "again"]
<1>1. /\ frames # << >> /\ Top.pc = "isr" /\ ~UnderWay /\ SetTop(f)
      /\ UNCHANGED << pie, ienable, alt_irq_active, alt_priority_mask, alt_irq, lines, op >>
  BY DEF IsrReturn, InIsr, InProgram, masks
<1>2. op = NoOp
  BY <1>1, NotBusy
<1>3. f \in FrameSet /\ f.pc = "again"
  BY FrameType DEF FrameSet
<1>4. FrameOK(<< f >> \o Tail(frames), 1)
  <2>1. (<< f >> \o Tail(frames))[1] = f
    BY <1>1, <1>3, TopFacts, TopReplaced
  <2> HIDE DEF f
  <2>2. QED
    BY <1>3, <2>1 DEF FrameOK, Calls
<1>5. MaskOf(<< f >> \o Tail(frames)) = MaskOf(frames)
  <2>1. MaskOf(frames) = MaskFrom(frames, 2)
    BY <1>1 DEF MaskOf, Top
  <2>2. QED
    BY <1>1, <1>3, <2>1, MasksClosed
<1>6. /\ ~pie /\ ienable = alt_irq_active \cap alt_priority_mask
      /\ alt_priority_mask = MaskOf(frames) /\ alt_priority_mask \subseteq Irq /\ lines \subseteq Irq
      /\ pie \in BOOLEAN
  BY <1>1, <1>2 DEF Inv, Quiet, Types, NoOp
<1>7. QED
  BY <1>1, <1>2, <1>3, <1>4, <1>5, <1>6, Top_Inv

----------------------------------------------------------------------------
LEMMA Next_Inv ==
  ASSUME Inv, RoutinesKeepOut, [InterruptsNext]_vars
  PROVE  Inv'
<1>1. CASE Processor
  BY <1>1, IrqInit_Inv, SetHandler_Inv, SetContext_Inv, SetActive_Inv, SetIenable_Inv, Restore_Inv,
     Dispatch_Inv, Leave_Inv, Serve_Inv, NonInterruptible_Inv, IsrReturn_Inv DEF Processor
<1>2. CASE Enter \/ alt_irq_interruptible
  BY <1>2, Enter_Inv, Interruptible_Inv
<1>3. CASE \E i \in Irq : Assert(i) \/ alt_irq_enable(i) \/ alt_irq_disable(i)
  BY <1>3, Assert_Inv, Switch_Inv
<1>4. CASE \E id \in IdArgs, isr \in Isr \cup {NULL} :
             alt_irq_register(id, isr) \/ alt_iic_isr_register(id, isr)
  <2>1. PICK id \in IdArgs, isr \in Routine : alt_irq_register(id, isr) \/ alt_iic_isr_register(id, isr)
    BY <1>4 DEF Routine
  <2>2. "alt_irq_register" \in OpNames /\ "alt_iic_isr_register" \in OpNames
    BY DEF OpNames
  <2>3. QED
    BY <2>1, <2>2, Register_Inv DEF alt_irq_register, alt_iic_isr_register
<1>5. CASE UNCHANGED vars
  <2>1. UNCHANGED << pie, ienable, alt_irq_active, alt_priority_mask, handler, context, lines, frames, op >>
    BY <1>5 DEF vars, masks, alt_irq
  <2>2. Types' /\ Quiet' /\ Busy' /\ TableOK'
    BY <2>1 DEF Inv, Types, Quiet, Busy, TableOK, Top
  <2>3. QED
    BY <2>1, <2>2, SameFrames DEF Inv
<1>6. QED
  BY <1>1, <1>2, <1>3, <1>4, <1>5 DEF InterruptsNext

\* Every frame but the innermost has a priority of its own.
LEMMA DepthBound ==
  ASSUME Inv
  PROVE  Len(frames) <= ALT_NIRQ + 1
<1>1. Len(frames) \in Nat /\ ALT_NIRQ \in Nat /\ frames \in Seq(FrameSet)
  BY LenProperties, IrqAssumption DEF Inv, FramesOK
<1>2. CASE Len(frames) <= 1
  BY <1>1, <1>2
<1>3. CASE Len(frames) >= 2
  <2>1. FrameOK(frames, 2) /\ frames[2] \in FrameSet
    BY <1>1, <1>3, ElementOfSeq DEF Inv, FramesOK
  <2>2. frames[2].irq + (Len(frames) - 2) < ALT_NIRQ
    BY <2>1 DEF FrameOK, Calls
  <2>3. frames[2].irq \in Nat
    BY <2>1, <1>1 DEF FrameSet
  <2>4. QED
    BY <1>1, <2>2, <2>3
<1>4. QED
  BY <1>1, <1>2, <1>3

LEMMA Inv_Implies == Inv => InterruptsInv
<1> SUFFICES ASSUME Inv PROVE InterruptsInv
  OBVIOUS
<1>1. frames \in Seq(FrameSet) /\ Len(frames) \in Nat /\ DOMAIN frames = 1 .. Len(frames)
  BY LenProperties DEF Inv, FramesOK
<1>2. InterruptsTypeOK
  BY DepthBound DEF InterruptsTypeOK, Inv, Types, Routine
<1>3. CalledConsistent
  BY <1>1 DEF CalledConsistent, Inv, FramesOK, FrameOK, Calls
<1>4. OnlyHigher
  <2>1. SUFFICES ASSUME NEW j \in 1 .. Len(frames), NEW k \in 1 .. Len(frames), j < k,
                        frames[j].pc \in {"isr", "open"}
                 PROVE  frames[j].irq < frames[k].irq
    BY <1>1 DEF OnlyHigher
  <2>2. FrameOK(frames, j) /\ k \in j + 1 .. Len(frames)
    BY <1>1, <2>1 DEF Inv, FramesOK
  <2>3. QED
    BY <2>1, <2>2 DEF FrameOK, Calls
<1>5. NotInterrupted
  BY DEF NotInterrupted, InIsr, InProgram, Inv, Quiet, NoOp
<1>6. EnableMirrors
  BY DEF EnableMirrors, alt_ic_irq_enabled, Inv, Quiet, NoOp
<1>7. QED
  BY <1>2, <1>3, <1>4, <1>5, <1>6 DEF InterruptsInv

(* Interrupt routines are called with the handler and the context of one call that  *)
(* registered them, are interrupted by higher priorities only, and only once they   *)
(* let them in, and the register mirrors the masks between calls: whatever the      *)
(* numbers of interrupts and routines, while a routine that interrupted another     *)
(* does not change the table (RoutinesKeepOut).                                     *)
THEOREM InterruptsSafety ==
  ASSUME RoutinesKeepOut
  PROVE  InterruptsSpec => []InterruptsInv
<1>1. InterruptsInit => Inv
  BY Init_Inv
<1>2. Inv /\ [InterruptsNext]_vars => Inv'
  BY Next_Inv
<1>3. Inv => InterruptsInv
  BY Inv_Implies
<1>4. QED
  BY <1>1, <1>2, <1>3, PTL DEF InterruptsSpec
----------------------------------------------------------------------------
(* The one exception entry, whatever the program. *)
TrapFrame ==
  [step : {"entry", "notirq", "exit", "repaired"}, cause : {"interrupt", "multiply", "fault", "ecc"},
   ea : Nat, estatus : BOOLEAN, return : Nat]

\* How often each instruction took effect when those before `next` did.
DoneBefore(next) == [k \in 1 .. Len(Program) |-> IF k < next THEN 1 ELSE 0]

\* An exception the program is in: of the instruction at pc, with interrupts disabled.
\* Nothing is settled before the exit, which goes on with this instruction or the next.
TrapOpen ==
  /\ frame \in TrapFrame /\ pc \in 1 .. Len(Program) /\ ~enabled /\ frame.ea = pc + 1
  /\ frame.cause # "interrupt" => frame.cause = Program[pc]
  /\ frame.step = "entry" /\ frame.cause = "interrupt" => frame.estatus /\ pending
  /\ frame.step = "notirq" => frame.cause # "interrupt" /\ frame.return = pc + 1
  /\ frame.step = "repaired" => frame.return = pc
  /\ frame.step = "exit" => frame.return \in {pc, pc + 1}
  /\ done = DoneBefore(IF frame.step = "exit" THEN frame.return ELSE pc)

\* Outside one.
TrapClosed == frame = Traps!NoFrame /\ done = DoneBefore(pc) /\ halted = "no"

TrapInv ==
  /\ pc \in 1 .. Len(Program) + 1 /\ enabled \in BOOLEAN
  /\ TrapClosed \/ TrapOpen
  /\ halted \in {"no", "ecc handler", "break", "loop"}
  /\ halted # "no" => frame.step = IF halted = "ecc handler" THEN "entry" ELSE "notirq"
  /\ halted \in {"break", "loop"} =>
       frame.cause \notin Emulates /\ alt_instruction_exception_handler = Traps!NoHandler

LEMMA ProgramType ==
  /\ Len(Program) \in Nat /\ Traps!Index = 1 .. Len(Program)
  /\ \A k \in 1 .. Len(Program) : Program[k] \in {"plain", "multiply", "fault", "ecc"}
<1>1. Program \in Seq(Traps!Kind)
  BY CpuAssumption DEF Traps!ExceptionAssumption
<1>2. QED
  BY <1>1, LenProperties, ElementOfSeq DEF Traps!Index, Traps!Kind

\* The instruction at pc takes effect: everything before the next one has then.
LEMMA TakesOne ==
  ASSUME NEW k \in 1 .. Len(Program), done = DoneBefore(k), Traps!Takes(k)
  PROVE  done' = DoneBefore(k + 1)
BY ProgramType DEF DoneBefore, Traps!Takes

LEMMA OpenFrame ==
  ASSUME TrapInv, frame.step # "none"
  PROVE  TrapOpen /\ pc \in Nat
<1>1. frame # Traps!NoFrame
  BY DEF Traps!NoFrame
<1>2. TrapOpen
  BY <1>1 DEF TrapInv, TrapClosed
<1>3. pc \in Nat
  BY <1>2, ProgramType DEF TrapOpen
<1>4. QED
  BY <1>2, <1>3

LEMMA TrapInit_Inv == Traps!ExceptionsInit => TrapInv
<1> SUFFICES ASSUME Traps!ExceptionsInit PROVE TrapInv
  OBVIOUS
<1>1. done = DoneBefore(pc)
  BY ProgramType DEF Traps!ExceptionsInit, DoneBefore
<1>2. QED
  BY <1>1, ProgramType DEF Traps!ExceptionsInit, TrapInv, TrapClosed

LEMMA TrapProgram_Inv ==
  ASSUME TrapInv,
         \/ \E h \in {Traps!NoHandler, "handler"} :
              Traps!alt_instruction_exception_register(h) \/ Traps!alt_ecc_fatal_exception_register(h)
         \/ Traps!Execute
         \/ Traps!Assert
  PROVE  TrapInv'
<1>1. CASE \E h \in {Traps!NoHandler, "handler"} :
             Traps!alt_instruction_exception_register(h) \/ Traps!alt_ecc_fatal_exception_register(h)
  <2>1. UNCHANGED << pc, done, enabled, frame, halted >> /\ halted = "no" /\ frame = Traps!NoFrame
    BY <1>1 DEF Traps!alt_instruction_exception_register, Traps!alt_ecc_fatal_exception_register, Traps!Running
  <2>2. TrapClosed'
    BY <2>1 DEF TrapInv, TrapClosed, TrapOpen, TrapFrame, Traps!NoFrame, DoneBefore
  <2>3. QED
    BY <2>1, <2>2 DEF TrapInv
<1>2. CASE Traps!Execute
  <2>1. /\ halted = "no" /\ frame = Traps!NoFrame /\ pc \in 1 .. Len(Program)
        /\ Traps!Takes(pc) /\ pc' = pc + 1 /\ UNCHANGED << enabled, frame, halted >>
    BY <1>2, ProgramType DEF Traps!Execute, Traps!Running
  <2>2. done = DoneBefore(pc)
    BY <2>1 DEF TrapInv, TrapClosed, TrapOpen, TrapFrame, Traps!NoFrame
  <2>3. TrapClosed'
    BY <2>1, <2>2, TakesOne DEF TrapClosed, DoneBefore, Traps!NoFrame
  <2>4. QED
    BY <2>1, <2>3, ProgramType DEF TrapInv
<1>3. CASE Traps!Assert
  <2>1. /\ pending' = TRUE /\ halted = "no"
        /\ UNCHANGED << pc, done, enabled, frame, halted, alt_instruction_exception_handler >>
    BY <1>3 DEF Traps!Assert, Traps!handlers
  <2>2. QED
    BY <2>1 DEF TrapInv, TrapClosed, TrapOpen, DoneBefore, Traps!NoFrame
<1>4. QED
  BY <1>1, <1>2, <1>3

LEMMA Raise_Inv ==
  ASSUME TrapInv, Traps!Raise
  PROVE  TrapInv'
<1>1. PICK cause \in {"interrupt", Program[pc]} \ {"plain"} :
         /\ cause = "interrupt" => enabled /\ pending
         /\ frame' = [step |-> "entry", cause |-> cause, ea |-> pc + 1, estatus |-> enabled,
                      return |-> pc]
  BY DEF Traps!Raise
<1>2. /\ halted = "no" /\ frame = Traps!NoFrame /\ pc \in 1 .. Len(Program) /\ enabled' = FALSE
      /\ UNCHANGED << pc, done, pending, halted >>
  BY ProgramType DEF Traps!Raise, Traps!Running
<1>3. done = DoneBefore(pc)
  BY <1>2 DEF TrapInv, TrapClosed, TrapOpen, TrapFrame, Traps!NoFrame
<1>4. /\ cause \in {"interrupt", "multiply", "fault", "ecc"}
      /\ cause # "interrupt" => cause = Program[pc]
  BY <1>1, <1>2, ProgramType
<1>5. pc \in Nat /\ pc + 1 \in Nat /\ enabled \in BOOLEAN
  BY <1>2, ProgramType DEF TrapInv
<1>6. frame' \in TrapFrame
  BY <1>1, <1>4, <1>5 DEF TrapFrame
<1>7. TrapOpen'
  BY <1>1, <1>2, <1>3, <1>4, <1>6 DEF TrapOpen, DoneBefore
<1>8. QED
  BY <1>2, <1>5, <1>7 DEF TrapInv

\* Where a step of the entry sends it.
LEMMA TrapGoto ==
  ASSUME TrapOpen, NEW step \in {"notirq", "exit", "repaired"}, NEW next \in Nat, Traps!Goto(step, next)
  PROVE  /\ frame' \in TrapFrame /\ frame'.step = step /\ frame'.return = next
         /\ frame'.cause = frame.cause /\ frame'.ea = frame.ea /\ frame'.estatus = frame.estatus
BY DEF TrapOpen, TrapFrame, Traps!Goto

LEMMA EccFatal_Inv ==
  ASSUME TrapInv, Traps!EccFatal
  PROVE  TrapInv'
<1>1. /\ frame.step = "entry" /\ halted' = "ecc handler"
      /\ UNCHANGED << pc, done, enabled, pending, frame >>
  BY DEF Traps!EccFatal
<1>2. TrapOpen /\ TrapOpen'
  BY <1>1, OpenFrame DEF TrapOpen, DoneBefore
<1>3. QED
  BY <1>1, <1>2 DEF TrapInv

LEMMA IrqTest_Inv ==
  ASSUME TrapInv, Traps!IrqTest
  PROVE  TrapInv'
<1>1. /\ frame.step = "entry" /\ halted = "no"
      /\ UNCHANGED << pc, done, enabled, halted >>
  BY DEF Traps!IrqTest
<1>2. TrapOpen /\ pc \in Nat /\ frame.ea = pc + 1
  BY <1>1, OpenFrame DEF TrapOpen
<1>3. CASE Traps!IsInterrupt
  <2>1. Traps!Goto("exit", pc)
    <3>1. Traps!ReissuesInterrupted = pc
      BY <1>2 DEF Traps!ReissuesInterrupted
    <3>2. QED
      BY <1>3, <3>1 DEF Traps!IrqTest
  <2>2. /\ frame' \in TrapFrame /\ frame'.step = "exit" /\ frame'.return = pc
        /\ frame'.cause = frame.cause /\ frame'.ea = frame.ea
    BY <1>2, <2>1, TrapGoto
  <2>3. TrapOpen'
    BY <1>1, <1>2, <2>2 DEF TrapOpen, DoneBefore
  <2>4. QED
    BY <1>1, <2>2, <2>3 DEF TrapInv
<1>4. CASE ~Traps!IsInterrupt
  <2>1. Traps!Goto("notirq", pc + 1) /\ UNCHANGED pending
    BY <1>2, <1>4 DEF Traps!IrqTest
  <2>2. /\ frame' \in TrapFrame /\ frame'.step = "notirq" /\ frame'.return = pc + 1
        /\ frame'.cause = frame.cause /\ frame'.ea = frame.ea
    BY <1>2, <2>1, TrapGoto
  <2>3. frame.cause # "interrupt"
    BY <1>1, <1>2, <1>4 DEF TrapOpen, Traps!IsInterrupt
  <2>4. TrapOpen'
    BY <1>1, <1>2, <2>2, <2>3 DEF TrapOpen, DoneBefore
  <2>5. QED
    BY <1>1, <2>2, <2>4 DEF TrapInv
<1>5. QED
  BY <1>3, <1>4

\* The instruction took effect in software, or was given up: the exit skips it.
LEMMA Skipped_Inv ==
  ASSUME TrapInv, frame.step = "notirq", halted = "no", Traps!Takes(pc), Traps!Goto("exit", pc + 1),
         UNCHANGED << pc, enabled, halted >>
  PROVE  TrapInv'
<1>1. TrapOpen /\ pc \in Nat /\ pc \in 1 .. Len(Program)
  BY OpenFrame DEF TrapOpen
<1>2. /\ frame' \in TrapFrame /\ frame'.step = "exit" /\ frame'.return = pc + 1
      /\ frame'.cause = frame.cause /\ frame'.ea = frame.ea
  BY <1>1, TrapGoto
<1>3. done' = DoneBefore(pc + 1)
  BY <1>1, TakesOne DEF TrapOpen
<1>4. TrapOpen'
  BY <1>1, <1>2, <1>3 DEF TrapOpen, DoneBefore
<1>5. QED
  BY <1>2, <1>4 DEF TrapInv

LEMMA Emulate_Inv ==
  ASSUME TrapInv, Traps!Emulate
  PROVE  TrapInv'
<1>1. /\ frame.step = "notirq" /\ frame.cause \in Emulates
      /\ Traps!Takes(frame.ea - 1) /\ Traps!Goto("exit", frame.ea)
      /\ UNCHANGED << pc, enabled, halted >>
  BY DEF Traps!Emulate
<1>2. frame.ea = pc + 1 /\ frame.ea - 1 = pc
  BY <1>1, OpenFrame DEF TrapOpen
<1>3. halted = "no"
  BY <1>1 DEF TrapInv
<1>4. QED
  BY <1>1, <1>2, <1>3, Skipped_Inv

LEMMA Answer_Inv ==
  ASSUME TrapInv, Traps!alt_instruction_exception_entry
  PROVE  TrapInv'
<1>1. /\ frame.step = "notirq" /\ halted = "no" /\ frame.cause \notin Emulates
      /\ UNCHANGED << pc, enabled, pending, alt_instruction_exception_handler >>
  BY DEF Traps!alt_instruction_exception_entry, Traps!handlers
<1>2. TrapOpen /\ pc \in Nat /\ frame.ea = pc + 1 /\ frame.ea - 1 = pc
  BY <1>1, OpenFrame DEF TrapOpen
<1>3. CASE alt_instruction_exception_handler # Traps!NoHandler
  <2>1. UNCHANGED halted
    BY <1>3 DEF Traps!alt_instruction_exception_entry
  <2>2. PICK result \in Traps!Answers(Traps!CauseTold(frame.cause)) :
           /\ result = "SKIP" => Traps!Takes(frame.ea - 1)
           /\ result = "REISSUE" => UNCHANGED done
           /\ Traps!Goto(IF result = "SKIP" THEN "exit" ELSE "repaired", Traps!Resumes(result))
    BY <1>3 DEF Traps!alt_instruction_exception_entry
  <2>3. CASE result = "SKIP"
    <3>1. Traps!Takes(pc) /\ Traps!Goto("exit", pc + 1)
      BY <1>2, <2>2, <2>3 DEF Traps!Resumes
    <3>2. QED
      BY <1>1, <2>1, <3>1, Skipped_Inv
  <2>4. CASE result = "REISSUE"
    <3>1. UNCHANGED done /\ Traps!Goto("repaired", pc)
      BY <1>2, <2>2, <2>4 DEF Traps!Resumes
    <3>2. /\ frame' \in TrapFrame /\ frame'.step = "repaired" /\ frame'.return = pc
          /\ frame'.cause = frame.cause /\ frame'.ea = frame.ea
      BY <1>2, <3>1, TrapGoto
    <3>3. TrapOpen'
      BY <1>1, <1>2, <3>1, <3>2 DEF TrapOpen, DoneBefore
    <3>4. QED
      BY <1>1, <2>1, <3>2, <3>3 DEF TrapInv
  <2>5. QED
    BY <2>2, <2>3, <2>4 DEF Traps!Answers
<1>4. CASE alt_instruction_exception_handler = Traps!NoHandler
  <2>1. UNCHANGED << frame, done >> /\ halted' \in {"break", "loop"}
    BY <1>4 DEF Traps!alt_instruction_exception_entry
  <2>2. TrapOpen'
    BY <1>1, <1>2, <2>1 DEF TrapOpen, DoneBefore
  <2>3. QED
    BY <1>1, <1>4, <2>1, <2>2 DEF TrapInv, Traps!NoHandler
<1>5. QED
  BY <1>3, <1>4

LEMMA Eret_Inv ==
  ASSUME TrapInv, Traps!Eret
  PROVE  TrapInv'
<1>1. /\ frame.step \in {"exit", "repaired"} /\ enabled' = frame.estatus /\ frame' = Traps!NoFrame
      /\ UNCHANGED halted
  BY DEF Traps!Eret
<1>2. TrapOpen /\ pc \in Nat /\ pc \in 1 .. Len(Program) /\ halted = "no" /\ frame.estatus \in BOOLEAN
  BY <1>1, OpenFrame DEF TrapOpen, TrapInv, TrapFrame
<1>3. done' = DoneBefore(pc') /\ pc' \in {pc, pc + 1}
  <2>1. CASE frame.step = "repaired"
    <3>1. Traps!Takes(pc) /\ pc' = pc + 1 /\ done = DoneBefore(pc)
      BY <1>2, <2>1 DEF Traps!Eret, TrapOpen
    <3>2. QED
      BY <1>2, <3>1, TakesOne
  <2>2. CASE frame.step = "exit"
    BY <1>2, <2>2 DEF Traps!Eret, TrapOpen
  <2>3. QED
    BY <1>1, <2>1, <2>2
<1>4. TrapClosed'
  BY <1>1, <1>2, <1>3 DEF TrapClosed, DoneBefore, Traps!NoFrame
<1>5. pc' \in 1 .. Len(Program) + 1
  BY <1>2, <1>3, ProgramType
<1>6. QED
  BY <1>1, <1>2, <1>4, <1>5 DEF TrapInv

LEMMA Cpu_Inv ==
  ASSUME TrapInv, [CpuNext]_<< bench, vars, trapVars >>
  PROVE  TrapInv'
<1>1. CASE Traps!ExceptionsNext
  BY <1>1, TrapProgram_Inv, Raise_Inv, EccFatal_Inv, IrqTest_Inv, Emulate_Inv, Answer_Inv, Eret_Inv
  DEF Traps!ExceptionsNext, Traps!Entry
<1>2. CASE UNCHANGED trapVars
  BY <1>2 DEF trapVars, TrapInv, TrapClosed, TrapOpen, DoneBefore, Traps!NoFrame, Traps!NoHandler
<1>3. QED
  BY <1>1, <1>2 DEF CpuNext

LEMMA TrapInv_Implies == TrapInv => InstructionsOnce
<1> SUFFICES ASSUME TrapInv PROVE Traps!InstructionsOnce /\ Traps!StopsOnlyUnhandled
  BY DEF InstructionsOnce
<1>1. CASE TrapClosed
  BY <1>1, ProgramType
  DEF TrapClosed, DoneBefore, Traps!InstructionsOnce, Traps!StopsOnlyUnhandled, Traps!NoFrame
<1>2. CASE TrapOpen
  <2>1. /\ pc \in Nat /\ frame.return \in Nat
        /\ frame.step = "exit" => frame.return \in {pc, pc + 1}
    BY <1>2, ProgramType DEF TrapOpen, TrapFrame
  <2>2. \A k \in 1 .. Len(Program) :
          done[k] = IF k < pc \/ (frame.step = "exit" /\ k < frame.return) THEN 1 ELSE 0
    BY <1>2, <2>1, ProgramType DEF TrapOpen, DoneBefore
  <2>3. Traps!InstructionsOnce
    BY <1>2, <2>2, ProgramType DEF Traps!InstructionsOnce, TrapOpen
  <2>4. ASSUME halted \in {"break", "loop"} PROVE Traps!StopsOnlyUnhandled
    <3>1. frame.step = "notirq" /\ frame.cause \notin Emulates
      BY <2>4 DEF TrapInv
    <3>2. frame.cause \in {"fault", "ecc", "multiply"} \ Emulates
      BY <1>2, <3>1 DEF TrapOpen, TrapFrame
    <3>3. frame.ea - 1 = pc /\ pc \in 1 .. Len(Program)
      BY <1>2, <2>1 DEF TrapOpen
    <3>4. done[pc] = 0
      BY <2>1, <2>2, <3>1, <3>3
    <3>5. QED
      BY <2>4, <3>2, <3>3, <3>4 DEF TrapInv, Traps!StopsOnlyUnhandled
  <2>5. QED
    BY <2>3, <2>4 DEF Traps!StopsOnlyUnhandled
<1>3. QED
  BY <1>1, <1>2 DEF TrapInv

(* Whatever the program's instructions and which of them are emulated, wherever an  *)
(* interrupt or an exception comes, alone or together: each instruction the program  *)
(* passes took effect once and none to come has, and only an exception that nobody   *)
(* handles stops it, before its instruction takes effect.                            *)
THEOREM TrapsSafety == CpuSpec => []InstructionsOnce
<1>1. CpuInit => TrapInv
  BY TrapInit_Inv DEF CpuInit
<1>2. TrapInv /\ [CpuNext]_<< bench, vars, trapVars >> => TrapInv'
  BY Cpu_Inv
<1>3. TrapInv => InstructionsOnce
  BY TrapInv_Implies
<1>4. QED
  BY <1>1, <1>2, <1>3, PTL DEF CpuSpec

(* The table of handlers is used as InterruptsSafety says in every behaviour of the   *)
(* specification the run checks, whichever of its benches the behaviour uses.         *)
THEOREM CpuSafety ==
  ASSUME RoutinesKeepOut
  PROVE  CpuSpec => []InterruptsInv
<1>1. CpuInit => Inv
  BY Init_Inv DEF CpuInit
<1>2. Inv /\ [CpuNext]_<< bench, vars, trapVars >> => Inv'
  BY Next_Inv DEF CpuNext
<1>3. Inv => InterruptsInv
  BY Inv_Implies
<1>4. QED
  BY <1>1, <1>2, <1>3, PTL DEF CpuSpec
=============================================================================
