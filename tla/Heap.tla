--------------------------------- MODULE Heap ----------------------------------
(* The break of the heap and the stack it grows towards.  sbrk() runs in the       *)
(* program or in an interrupt routine, with interrupts disabled, so it is one      *)
(* step; functions are called and return, interrupts come and go, and with the     *)
(* run-time check every call compares the stack with the limit in register et.     *)
EXTENDS Integers, Sequences

CONSTANTS __alt_heap_start, __alt_heap_limit,
          __alt_stack_pointer, __alt_stack_limit,      \* top of the stack, its first limit
          ExceptionLimit,                              \* of the exception stack
          FrameSizes,                                  \* of functions, in bytes
          ExceptionFrame,                              \* of an interrupt, in bytes
          Increments                                   \* what is asked of sbrk
NULL == 0
ASSUME HeapAssumption ==
  /\ __alt_heap_start \in Nat \ {NULL} /\ __alt_heap_limit \in Nat
  /\ __alt_stack_pointer \in Nat /\ __alt_stack_limit \in Nat
  /\ __alt_heap_start <= __alt_stack_limit /\ __alt_stack_limit <= __alt_stack_pointer
  /\ __alt_heap_start <= __alt_heap_limit
  /\ __alt_heap_start % 4 = 0 /\ __alt_heap_limit % 4 = 0
  /\ Increments \subseteq Int
ASSUME StackAssumption ==
  /\ ExceptionLimit \in Nat /\ FrameSizes \subseteq Nat /\ ExceptionFrame \in Nat
  /\ ExceptionLimit > __alt_heap_limit

VARIABLES heap_end,
          sp,                   \* of the stack the program runs on
          limit,                \* register et and alt_stack_limit_value
          old_limit,            \* alt_exception_old_stack_limit
          frames,               \* sizes of the frames on the program's stack
          in_exception,
          overflow,             \* "none", or where an overflow was reported: it stops
          build,                \* ALT_STACK_CHECK, ALT_EXCEPTION_STACK
          call                  \* the last sbrk: what was asked and what it returned
vars == << heap_end, sp, limit, old_limit, frames, in_exception, overflow, build, call >>

HeapInit ==
  /\ heap_end = __alt_heap_start
  /\ sp = __alt_stack_pointer /\ frames = << >>
  /\ limit = __alt_stack_limit /\ old_limit = NULL
  /\ in_exception = FALSE /\ overflow = "none"
  /\ build \in [stack_check : BOOLEAN, exception_stack : BOOLEAN]
  /\ call = [incr |-> 0, ret |-> -1]

Running == overflow = "none"
OnExceptionStack == in_exception /\ build.exception_stack

----------------------------------------------------------------------------
Aligned(a) == ((a + 3) \div 4) * 4

\* The break is where the limit of the stack is: taking more heap takes room from
\* the stack.  In an exception on its own stack the limit has been put aside.
Contiguous == build.stack_check /\ limit = Aligned(heap_end)
PutAside == build.stack_check /\ build.exception_stack /\ old_limit = Aligned(heap_end)

StackUnchecked(new) == PutAside /\ old_limit <= new     \* mutant: the stack pointer is not looked at
\* The stack in use is compared by its pointer; the one put aside only by its limit.
StackHit(new) == (Contiguous /\ sp <= new) \/ (PutAside /\ old_limit <= new)

OverLimit(incr) == Aligned(heap_end) + incr > __alt_heap_limit

\* In memory and in the register at once.
alt_set_stack_limit(new) == limit' = new

Refuse(incr) ==
  /\ OverLimit(incr)
  /\ heap_end' = Aligned(heap_end)
  /\ call' = [incr |-> incr, ret |-> -1]
  /\ UNCHANGED << limit, old_limit, overflow >>

GrantFrom(incr, start) ==
  /\ ~OverLimit(incr)
  /\ heap_end' = Aligned(heap_end) + incr
  /\ call' = [incr |-> incr, ret |-> start]
  /\ IF StackHit(heap_end')
     THEN overflow' = "sbrk" /\ UNCHANGED << limit, old_limit >>
     ELSE /\ alt_set_stack_limit(IF Contiguous THEN heap_end' ELSE limit)
          /\ old_limit' = IF PutAside THEN heap_end' ELSE old_limit
          /\ UNCHANGED overflow
GrantUnaligned(incr) == GrantFrom(incr, heap_end)         \* mutant: the break as it was
Grant(incr) == GrantFrom(incr, Aligned(heap_end))

\* A program gives back no more than it was given.
sbrk(incr) ==
  /\ Running /\ heap_end + incr >= __alt_heap_start
  /\ Refuse(incr) \/ Grant(incr)
  /\ UNCHANGED << sp, frames, in_exception, build >>

----------------------------------------------------------------------------
(* The stack.  A check that fails is a break: nothing runs after it. *)
Push(size, exception) ==
  /\ overflow' = IF build.stack_check /\ sp - size < limit THEN "stack" ELSE "none"
  /\ sp' = sp - size /\ frames' = << [size |-> size, exception |-> exception] >> \o frames

CallFunction(size) ==
  /\ Running /\ ~OnExceptionStack /\ sp - size >= __alt_heap_start
  /\ Push(size, FALSE)
  /\ UNCHANGED << heap_end, limit, old_limit, in_exception, build, call >>

Pop(exception) ==
  /\ frames # << >> /\ Head(frames).exception = exception
  /\ sp' = sp + Head(frames).size /\ frames' = Tail(frames)

Return ==
  /\ Running /\ ~OnExceptionStack /\ Pop(FALSE)
  /\ UNCHANGED << heap_end, limit, old_limit, in_exception, overflow, build, call >>

\* On an exception stack the limit of the interrupted stack is put aside, else the
\* frame goes on that stack.
Exception ==
  /\ Running /\ ~in_exception /\ in_exception' = TRUE
  /\ \/ /\ build.exception_stack
        /\ IF build.stack_check THEN old_limit' = limit /\ limit' = ExceptionLimit
                                ELSE UNCHANGED << old_limit, limit >>
        /\ UNCHANGED << sp, frames, overflow >>
     \/ /\ ~build.exception_stack /\ sp - ExceptionFrame >= __alt_heap_start
        /\ Push(ExceptionFrame, TRUE)
        /\ UNCHANGED << limit, old_limit >>
  /\ UNCHANGED << heap_end, build, call >>

Eret ==
  /\ Running /\ in_exception /\ in_exception' = FALSE
  /\ \/ /\ build.exception_stack
        /\ IF build.stack_check THEN limit' = old_limit /\ old_limit' = NULL
                                ELSE UNCHANGED << limit, old_limit >>
        /\ UNCHANGED << sp, frames >>
     \/ ~build.exception_stack /\ Pop(TRUE) /\ UNCHANGED << limit, old_limit >>
  /\ UNCHANGED << heap_end, overflow, build, call >>

HeapNext ==
  \/ \E incr \in Increments : sbrk(incr)
  \/ \E size \in FrameSizes : CallFunction(size)
  \/ Return \/ Exception \/ Eret

HeapSpec == HeapInit /\ [][HeapNext]_vars

----------------------------------------------------------------------------
HeapTypeOK ==
  /\ heap_end \in Int /\ sp \in Int /\ limit \in Int /\ old_limit \in Int
  /\ in_exception \in BOOLEAN /\ overflow \in {"none", "sbrk", "stack"}
  /\ build \in [stack_check : BOOLEAN, exception_stack : BOOLEAN]
  /\ old_limit # NULL => OnExceptionStack /\ build.stack_check

\* No block reaches past the memory the linker gave the heap, though the break is
\* moved up to a word before every request, refused ones included.
HeapInMemory == heap_end <= __alt_heap_limit

\* A block starts on a word, at or above everything given out before.
BlocksApart ==
  [][call'.ret # -1 /\ heap_end' # heap_end => call'.ret >= heap_end /\ call'.ret % 4 = 0]_vars

\* With the run-time check, heap and stack never overlap while the program runs, in
\* whatever order it calls functions, takes memory and is interrupted.
NoCollision == build.stack_check /\ Running => heap_end <= sp

\* What that rests on: the limit of the program's stack, put aside or not, is the
\* break.  It holds as long as the limits are words: a limit that has taken the value
\* of a break between two words is never found equal to the break again.
LimitFollowsHeap ==
  heap_end = IF OnExceptionStack THEN old_limit ELSE limit
HeapSafe ==
  /\ HeapTypeOK /\ HeapInMemory
  /\ build.stack_check /\ Running /\ limit % 4 = 0 /\ old_limit % 4 = 0 =>
       heap_end <= sp /\ LimitFollowsHeap
================================================================================
