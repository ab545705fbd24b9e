------------------------------- MODULE Profiler --------------------------------
(* mcount, which gcc calls at the start of every function of a profiled program,   *)
(* and the sampler of the program counter.  mcount searches the lists of functions *)
(* and arcs with interrupts enabled, and interrupt routines call it too.  New      *)
(* entries go to the front of a list and are never removed, so an entry is known   *)
(* by its place from the end: after entry k comes k - 1, and 0 ends the list.      *)
EXTENDS Integers, Sequences, FiniteSetsExt

CONSTANTS Function,                 \* addresses, all in one bucket of the hash table
          MaxCalls,                 \* bound on the calls of mcount
          RecordSize,               \* of a function or arc entry
          MCOUNT_SLAB_INCREMENT,
          TextSize, PCSAMPLE_BYTES_PER_BUCKET

ProfilerAssumption ==
  /\ MaxCalls \in Nat /\ RecordSize \in Nat \ {0} /\ MCOUNT_SLAB_INCREMENT \in Nat
  /\ RecordSize <= MCOUNT_SLAB_INCREMENT
  /\ TextSize \in Nat /\ PCSAMPLE_BYTES_PER_BUCKET \in Nat \ {0}

VARIABLES fns,                      \* __mcount_fn_head, oldest first
          slab,                     \* mcount_slab_ptr, mcount_slab_size, the end of the heap
          records,                  \* where the entries were put
          pcsample_need_init,
          clock,                    \* the system clock has been set up
          started,                  \* how often the sampler was started
          touched,                  \* buckets of the histogram written
          main,                     \* the program's place in mcount
          calls, program_calls      \* completed calls of each arc, those by the program
vars == << fns, slab, records, pcsample_need_init, clock, started, touched, main, calls,
           program_calls >>

Arc == Function \X Function         \* who is called, from where
Idle == [pc |-> "idle", self |-> 0, from |-> 0, fn |-> 0, arc |-> 0, count |-> 0, clock |-> FALSE]

ProfilerInit ==
  /\ fns = << >> /\ slab = [ptr |-> 0, size |-> 0, brk |-> 0] /\ records = << >>
  /\ pcsample_need_init = 1 /\ clock = FALSE /\ started = 0 /\ touched = {}
  /\ main = Idle
  /\ calls = [a \in Arc |-> 0] /\ program_calls = [a \in Arc |-> 0]

CallsSoFar == SumFunction(calls)

----------------------------------------------------------------------------
(* __mcount_record, the part with interrupts disabled. *)
\* An entry is cut from the slab; one that is too small is given up for a new one.
mcount_allocate(s) ==
  LET new == RecordSize > s.size
      ptr == IF new THEN s.brk ELSE s.ptr IN
  [data |-> ptr,
   slab |-> [ptr |-> ptr + RecordSize,
             size |-> (IF new THEN MCOUNT_SLAB_INCREMENT ELSE s.size) - RecordSize,
             brk |-> IF new THEN s.brk + MCOUNT_SLAB_INCREMENT ELSE s.brk]]

WithArc(fn, from) == [fn EXCEPT !.arcs = Append(@, [from |-> from, count |-> 1])]
AddOnlyFn(list, self, from, fn) ==      \* mutant: the first arc is left to the next call
  IF fn = 0 THEN Append(list, [self |-> self, arcs |-> << >>])
  ELSE [list EXCEPT ![fn] = WithArc(@, from)]
AddArc(list, self, from, fn) ==
  IF fn = 0 THEN Append(list, WithArc([self |-> self, arcs |-> << >>], from))
  ELSE [list EXCEPT ![fn] = WithArc(@, from)]

Record(s, self, from, fn) ==
  LET function == mcount_allocate(s)
      arc == mcount_allocate(IF fn = 0 THEN function.slab ELSE s)
  IN /\ fns' = AddArc(fns, self, from, fn)
     /\ slab' = arc.slab
     /\ records' = records \o (IF fn = 0 THEN << function.data >> ELSE << >>) \o << arc.data >>

----------------------------------------------------------------------------
(* The program: each step is one load or store of what interrupts may change. *)
Goto(label) == main' = [main EXCEPT !.pc = label]
At(label) == main.pc = label
Entry == fns[main.fn]

mcount(self, from) ==
  /\ At("idle") /\ CallsSoFar < MaxCalls
  /\ main' = [Idle EXCEPT !.pc = "head", !.self = self, !.from = from, !.clock = clock]
  /\ UNCHANGED << fns, slab, records, pcsample_need_init, clock, started, touched, calls,
                  program_calls >>

\* Function k of the list is looked at next, or there is none.
LookAtFn(k) == main' = [main EXCEPT !.fn = k, !.pc = IF k = 0 THEN "record" ELSE "fn"]
LookAtArc(k) == main' = [main EXCEPT !.arc = k, !.pc = IF k = 0 THEN "record" ELSE "arc"]

SearchFns ==
  /\ \/ At("head") /\ LookAtFn(Len(fns))
     \/ At("fn") /\ Entry.self # main.self /\ LookAtFn(main.fn - 1)
     \/ /\ At("fn") /\ Entry.self = main.self
        /\ main' = [main EXCEPT !.arc = Len(Entry.arcs), !.pc = "arc"]
  /\ UNCHANGED << fns, slab, records, pcsample_need_init, clock, started, touched, calls,
                  program_calls >>

SearchArcs ==
  /\ At("arc")
  /\ \/ Entry.arcs[main.arc].from # main.from /\ LookAtArc(main.arc - 1)
     \/ Entry.arcs[main.arc].from = main.from /\ Goto("count")
  /\ UNCHANGED << fns, slab, records, pcsample_need_init, clock, started, touched, calls,
                  program_calls >>

Finish(arc) ==
  /\ main' = Idle
  /\ calls' = [calls EXCEPT ![arc] = @ + 1]
  /\ program_calls' = [program_calls EXCEPT ![arc] = @ + 1]

LoadCount ==
  /\ At("count")
  /\ main' = [main EXCEPT !.pc = "store", !.count = Entry.arcs[main.arc].count]
  /\ UNCHANGED << fns, slab, records, pcsample_need_init, clock, started, touched, calls,
                  program_calls >>

NewCount == main.count + 1
StoreCount ==
  /\ At("store")
  /\ fns' = [fns EXCEPT ![main.fn].arcs[main.arc].count = NewCount]
  /\ Finish(<< main.self, main.from >>)
  /\ UNCHANGED << slab, records, pcsample_need_init, clock, started, touched >>

HistogramSize == TextSize \div PCSAMPLE_BYTES_PER_BUCKET

\* Nothing without a clock, else the histogram is allocated and the alarm started.
\* Returned: the memory then, whether to try again.
StartSampler ==
  IF clock THEN [slab |-> [slab EXCEPT !.brk = @ + 2 * HistogramSize], again |-> 0]
  ELSE [slab |-> slab, again |-> 1]
Started == started' = started + 1 - StartSampler.again

TestNeedInit ==
  /\ At("record")
  /\ Goto(IF pcsample_need_init = 1 THEN "clear" ELSE "add")
  /\ UNCHANGED << fns, slab, records, pcsample_need_init, clock, started, touched, calls,
                  program_calls >>
ClearNeedInit ==
  /\ At("clear") /\ Goto("init") /\ pcsample_need_init' = 0
  /\ UNCHANGED << fns, slab, records, clock, started, touched, calls, program_calls >>
nios2_pcsample_init ==
  /\ At("init") /\ Started /\ slab' = StartSampler.slab
  /\ main' = [main EXCEPT !.pc = "result", !.count = StartSampler.again]
  /\ UNCHANGED << fns, records, pcsample_need_init, clock, touched, calls, program_calls >>
SetNeedInit ==
  /\ At("result") /\ Goto("add") /\ pcsample_need_init' = main.count
  /\ UNCHANGED << fns, slab, records, clock, started, touched, calls, program_calls >>

RecordNew ==
  /\ At("add")
  /\ Record(slab, main.self, main.from, main.fn)
  /\ Finish(<< main.self, main.from >>)
  /\ UNCHANGED << pcsample_need_init, clock, started, touched >>

----------------------------------------------------------------------------
(* An interrupt routine calls mcount between any two steps of the program; it is   *)
(* not interrupted, so its whole call is one step.                                  *)
Newest(set) == IF set = {} THEN 0 ELSE Max(set)
FoundFn(self) == Newest({k \in DOMAIN fns : fns[k].self = self})
FoundArc(fn, from) ==
  IF fn = 0 THEN 0 ELSE Newest({j \in DOMAIN fns[fn].arcs : fns[fn].arcs[j].from = from})

Interrupt(self, from) ==
  LET fn == FoundFn(self)
      arc == FoundArc(fn, from)
  IN /\ CallsSoFar < MaxCalls
     /\ \/ /\ arc # 0
           /\ fns' = [fns EXCEPT ![fn].arcs[arc].count = @ + 1]
           /\ UNCHANGED << slab, records, pcsample_need_init, started >>
        \/ /\ arc = 0 /\ pcsample_need_init = 1
           /\ Started /\ pcsample_need_init' = StartSampler.again
           /\ Record(StartSampler.slab, self, from, fn)
        \/ /\ arc = 0 /\ pcsample_need_init = 0
           /\ Record(slab, self, from, fn)
           /\ UNCHANGED << started, pcsample_need_init >>
     /\ calls' = [calls EXCEPT ![<< self, from >>] = @ + 1]
     /\ UNCHANGED << clock, touched, main, program_calls >>

\* alt_sys_init sets up the clock.
SetUpClock ==
  /\ ~clock /\ clock' = TRUE
  /\ UNCHANGED << fns, slab, records, pcsample_need_init, started, touched, main, calls,
                  program_calls >>

\* Every tick, an address of the program is counted.
nios2_pcsample(pc) ==
  /\ started > 0
  /\ touched' = touched \cup {pc \div PCSAMPLE_BYTES_PER_BUCKET}
  /\ UNCHANGED << fns, slab, records, pcsample_need_init, clock, started, main, calls,
                  program_calls >>

ProfilerNext ==
  \/ \E self, from \in Function : mcount(self, from) \/ Interrupt(self, from)
  \/ SearchFns \/ SearchArcs \/ LoadCount \/ StoreCount
  \/ TestNeedInit \/ ClearNeedInit \/ nios2_pcsample_init \/ SetNeedInit \/ RecordNew
  \/ SetUpClock
  \/ \E pc \in 0 .. TextSize - 1 : nios2_pcsample(pc)

ProfilerSpec == ProfilerInit /\ [][ProfilerNext]_vars

----------------------------------------------------------------------------
CopiesOf(arc) ==
  UNION {{k} \X {j \in DOMAIN fns[k].arcs : fns[k].arcs[j].from = arc[2]} :
           k \in {f \in DOMAIN fns : fns[f].self = arc[1]}}
Counted(arc) == MapThenSumSet(LAMBDA c : fns[c[1]].arcs[c[2]].count, CopiesOf(arc))

ProfilerTypeOK ==
  /\ pcsample_need_init \in {0, 1} /\ clock \in BOOLEAN /\ started \in Nat
  /\ main.fn \in 0 .. Len(fns) /\ main.pc = "arc" => main.arc \in 1 .. Len(Entry.arcs)
  /\ slab.size \in 0 .. MCOUNT_SLAB_INCREMENT

\* "There will always be at least one arc": the search follows the first arc of a
\* function without a look at the pointer.
NoEmptyFn == \A k \in DOMAIN fns : fns[k].arcs # << >>

\* However the calls interleave, every arc ever taken is in the lists, and the copies
\* of an arc together count no more calls than there were and no fewer than the
\* program made: what is lost are calls of interrupt routines.
CountsBetween ==
  \A arc \in Arc : program_calls[arc] <= Counted(arc) /\ Counted(arc) <= calls[arc]
CallsRecorded == \A arc \in Arc : calls[arc] > 0 => CopiesOf(arc) # {}

\* No two entries overlap, and each lies in memory sbrk gave.
RecordsApart ==
  /\ \A i, j \in DOMAIN records : i < j => records[i] + RecordSize <= records[j]
  /\ \A i \in DOMAIN records : records[i] + RecordSize <= slab.brk

\* The sampler counts inside its histogram.
SamplesInside == \A b \in touched : b < HistogramSize

\* What the lists, their memory and the histogram are, at every step.
ProfilerInv ==
  /\ ProfilerTypeOK /\ NoEmptyFn /\ CountsBetween /\ CallsRecorded
  /\ RecordsApart /\ SamplesInside
================================================================================
