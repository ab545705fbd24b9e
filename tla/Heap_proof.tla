------------------------------- MODULE Heap_proof -------------------------------
(* The heap stays in its memory, gives out disjoint blocks, and with the run-time  *)
(* check never meets the stack, for every size of either and every request.  The   *)
(* cache calls reach the bytes they name, for every size of line and cache.  The   *)
(* profile counts the calls there were, for every number of functions.             *)
EXTENDS MCMemory, TLAPS, SequenceTheorems, FiniteSetTheorems, WellFoundedInduction

StackFrame == [size : Nat, exception : BOOLEAN]

\* The limit of the program's stack, put aside while another stack is in use.
ProgramLimit == IF OnExceptionStack THEN old_limit ELSE limit

\* What the check rests on: the register holds the other stack's limit while that is
\* in use, nothing is put aside otherwise, and the limit is the break until a request
\* leaves it between two words, from where it is never moved again.
HeapInv ==
  /\ heap_end \in Int /\ sp \in Int /\ limit \in Int /\ old_limit \in Int
  /\ in_exception \in BOOLEAN /\ frames \in Seq(StackFrame)
  /\ overflow \in {"none", "sbrk", "stack"}
  /\ build \in [stack_check : BOOLEAN, exception_stack : BOOLEAN]
  /\ __alt_heap_start <= heap_end /\ heap_end <= __alt_heap_limit
  /\ ~build.stack_check => old_limit = NULL
  /\ build.stack_check =>
       /\ IF OnExceptionStack THEN limit = ExceptionLimit ELSE old_limit = NULL
       /\ Running /\ ProgramLimit % 4 = 0 => heap_end = ProgramLimit /\ heap_end <= sp

----------------------------------------------------------------------------
\* A break is moved up to a word, by less than a word.
LEMMA AlignedUp ==
  ASSUME NEW a \in Int
  PROVE  /\ Aligned(a) \in Int /\ Aligned(a) % 4 = 0 /\ a <= Aligned(a)
         /\ a % 4 = 0 => Aligned(a) = a
         /\ \A b \in Int : b % 4 = 0 /\ a <= b => Aligned(a) <= b
BY DEF Aligned

\* The memory the theorems are about: the heap begins where the stack may end.
Contiguity == __alt_heap_start = __alt_stack_limit

LEMMA BreakUp ==
  ASSUME HeapInv
  PROVE  /\ Aligned(heap_end) \in Int /\ Aligned(heap_end) % 4 = 0
         /\ heap_end <= Aligned(heap_end) /\ Aligned(heap_end) <= __alt_heap_limit
         /\ heap_end % 4 = 0 => Aligned(heap_end) = heap_end
<1>1. heap_end \in Int /\ heap_end <= __alt_heap_limit
  BY DEF HeapInv
<1>2. __alt_heap_limit \in Int /\ __alt_heap_limit % 4 = 0
  BY HeapAssumption
<1>3. QED
  BY <1>1, <1>2, AlignedUp

LEMMA HeapInit_Inv ==
  ASSUME Contiguity
  PROVE  HeapInit => HeapInv
<1> SUFFICES ASSUME HeapInit PROVE HeapInv
  OBVIOUS
<1>1. /\ heap_end \in Int /\ sp \in Int /\ limit \in Int /\ old_limit = NULL /\ NULL \in Int
      /\ limit = heap_end /\ heap_end <= sp
      /\ __alt_heap_start <= heap_end /\ heap_end <= __alt_heap_limit
  BY HeapAssumption DEF HeapInit, Contiguity, NULL
<1>2. in_exception = FALSE /\ ~OnExceptionStack /\ frames \in Seq(StackFrame)
  BY EmptySeq DEF HeapInit, OnExceptionStack
<1>3. QED
  BY <1>1, <1>2 DEF HeapInit, HeapInv, ProgramLimit

\* A request that is refused moves the break to a word, and does so only if a request
\* has left it between two: the limit is there already or was lost before.
LEMMA Refuse_Inv ==
  ASSUME HeapInv, NEW incr \in Int, Running, Refuse(incr), UNCHANGED << sp, frames, in_exception, build >>
  PROVE  HeapInv'
<1>1. /\ Aligned(heap_end) \in Int /\ heap_end <= Aligned(heap_end)
      /\ heap_end % 4 = 0 => Aligned(heap_end) = heap_end
      /\ Aligned(heap_end) <= __alt_heap_limit
  BY BreakUp
<1>2. QED
  BY <1>1, HeapAssumption DEF HeapInv, Refuse, ProgramLimit, OnExceptionStack, Running

LEMMA Grant_Inv ==
  ASSUME HeapInv, NEW incr \in Int, Running, Grant(incr),
         heap_end + incr >= __alt_heap_start, UNCHANGED << sp, frames, in_exception, build >>
  PROVE  HeapInv'
<1> DEFINE start == Aligned(heap_end)
<1>1. /\ start \in Int /\ start % 4 = 0 /\ heap_end <= start
      /\ heap_end % 4 = 0 => start = heap_end
      /\ start <= __alt_heap_limit
  BY BreakUp
<1>2. /\ heap_end' = start + incr /\ heap_end' \in Int
      /\ __alt_heap_start <= heap_end' /\ heap_end' <= __alt_heap_limit
  BY <1>1, HeapAssumption DEF Grant, GrantFrom, OverLimit, HeapInv
<1>3. CASE StackHit(heap_end')
  <2>1. overflow' = "sbrk" /\ UNCHANGED << limit, old_limit >>
    BY <1>3 DEF Grant, GrantFrom
  <2>2. QED
    BY <1>2, <2>1 DEF HeapInv, OnExceptionStack, Running, ProgramLimit
<1>4. CASE ~StackHit(heap_end')
  <2>1. /\ limit' = IF Contiguous THEN heap_end' ELSE limit
        /\ old_limit' = IF PutAside THEN heap_end' ELSE old_limit
        /\ overflow' = overflow
    BY <1>4 DEF Grant, GrantFrom, alt_set_stack_limit
  <2>2. CASE ~build.stack_check
    BY <1>2, <2>1, <2>2 DEF HeapInv, Contiguous, PutAside
  <2>3. CASE build.stack_check /\ OnExceptionStack
    <3>1. ~Contiguous
      BY <1>1, <2>3, HeapAssumption, StackAssumption DEF Contiguous, HeapInv
    <3>2. PutAside <=> old_limit = start
      BY <2>3 DEF PutAside, OnExceptionStack
    <3>3. ProgramLimit' % 4 = 0 => heap_end' = ProgramLimit' /\ heap_end' <= sp
      <4>1. CASE PutAside
        <5>1. heap_end' < start
          BY <1>2, <1>4, <3>2, <4>1 DEF StackHit, HeapInv
        <5>2. heap_end <= sp /\ start = heap_end
          BY <1>1, <2>3, <3>2, <4>1 DEF HeapInv, ProgramLimit
        <5>3. QED
          BY <1>1, <1>2, <2>1, <2>3, <4>1, <5>1, <5>2 DEF HeapInv, ProgramLimit, OnExceptionStack
      <4>2. CASE ~PutAside
        BY <1>1, <2>1, <2>3, <3>2, <4>2 DEF HeapInv, ProgramLimit, OnExceptionStack
      <4>3. QED
        BY <4>1, <4>2
    <3>4. QED
      BY <1>2, <2>1, <2>3, <3>1, <3>3 DEF HeapInv, OnExceptionStack, Running
  <2>4. CASE build.stack_check /\ ~OnExceptionStack
    <3>1. ~PutAside
      BY <1>1, <2>4, HeapAssumption DEF PutAside, HeapInv, NULL
    <3>2. Contiguous <=> limit = start
      BY <2>4 DEF Contiguous
    <3>3. ProgramLimit' % 4 = 0 => heap_end' = ProgramLimit' /\ heap_end' <= sp
      <4>1. CASE Contiguous
        BY <1>2, <1>4, <2>1, <2>4, <4>1 DEF HeapInv, ProgramLimit, OnExceptionStack, StackHit
      <4>2. CASE ~Contiguous
        BY <1>1, <2>1, <2>4, <3>2, <4>2 DEF HeapInv, ProgramLimit, OnExceptionStack
      <4>3. QED
        BY <4>1, <4>2
    <3>4. QED
      BY <1>2, <2>1, <2>4, <3>1, <3>2, <3>3 DEF HeapInv, OnExceptionStack, Running
  <2>5. QED
    BY <2>2, <2>3, <2>4
<1>5. QED
  BY <1>3, <1>4

LEMMA Push_Inv ==
  ASSUME HeapInv, NEW size \in Nat, NEW exception \in BOOLEAN, Running, ~OnExceptionStack,
         Push(size, exception), in_exception' \in BOOLEAN, build' = build,
         OnExceptionStack' = FALSE,
         UNCHANGED << heap_end, limit, old_limit >>
  PROVE  HeapInv'
<1>1. frames' \in Seq(StackFrame)
  BY ConcatProperties DEF Push, HeapInv, StackFrame
<1>2. sp' \in Int /\ (overflow' = "none" /\ build.stack_check => limit <= sp')
      /\ overflow' \in {"none", "stack"}
  BY DEF Push, HeapInv
<1>3. QED
  BY <1>1, <1>2 DEF HeapInv, ProgramLimit, Running

LEMMA Pop_Inv ==
  ASSUME HeapInv, NEW exception \in BOOLEAN, Running, ~OnExceptionStack, Pop(exception),
         in_exception' \in BOOLEAN, OnExceptionStack' = FALSE,
         UNCHANGED << heap_end, limit, old_limit, overflow, build >>
  PROVE  HeapInv'
<1>1. /\ frames' \in Seq(StackFrame) /\ Head(frames).size \in Nat
  <2>1. frames \in Seq(StackFrame) /\ frames # << >> /\ frames' = Tail(frames)
    BY DEF Pop, HeapInv
  <2>2. Head(frames) \in StackFrame /\ Tail(frames) \in Seq(StackFrame)
    BY <2>1, HeadTailProperties
  <2>3. QED
    BY <2>1, <2>2 DEF StackFrame
<1>2. sp' \in Int /\ sp <= sp'
  BY <1>1 DEF Pop, HeapInv
<1>3. QED
  BY <1>1, <1>2, HeapAssumption DEF HeapInv, ProgramLimit, Running

LEMMA Exception_Inv ==
  ASSUME HeapInv, Exception
  PROVE  HeapInv'
<1>1. CASE build.exception_stack
  <2>1. /\ ~in_exception /\ in_exception' = TRUE /\ build' = build
        /\ UNCHANGED << heap_end, sp, frames, overflow >>
        /\ IF build.stack_check THEN old_limit' = limit /\ limit' = ExceptionLimit
                                ELSE UNCHANGED << old_limit, limit >>
    BY <1>1 DEF Exception
  <2>2. ~OnExceptionStack /\ OnExceptionStack'
    BY <1>1, <2>1 DEF OnExceptionStack
  <2>3. ExceptionLimit \in Int
    BY StackAssumption
  <2>4. QED
    BY <2>1, <2>2, <2>3 DEF HeapInv, ProgramLimit, Running
<1>2. CASE ~build.exception_stack
  BY <1>2, Push_Inv, StackAssumption DEF Exception, OnExceptionStack
<1>3. QED
  BY <1>1, <1>2

LEMMA Eret_Inv ==
  ASSUME HeapInv, Eret
  PROVE  HeapInv'
<1>1. CASE build.exception_stack
  <2>1. /\ Running /\ in_exception /\ in_exception' = FALSE
        /\ UNCHANGED << heap_end, sp, frames, overflow, build >>
        /\ IF build.stack_check THEN limit' = old_limit /\ old_limit' = NULL
                                ELSE UNCHANGED << limit, old_limit >>
    BY <1>1 DEF Eret
  <2>2. OnExceptionStack /\ ~OnExceptionStack'
    BY <1>1, <2>1 DEF OnExceptionStack
  <2>3. NULL \in Int
    BY DEF NULL
  <2>4. QED
    BY <2>1, <2>2, <2>3 DEF HeapInv, ProgramLimit, Running
<1>2. CASE ~build.exception_stack
  BY <1>2, Pop_Inv DEF Eret, OnExceptionStack
<1>3. QED
  BY <1>1, <1>2

LEMMA HeapNext_Inv ==
  ASSUME HeapInv, [HeapNext]_vars
  PROVE  HeapInv'
<1>1. CASE \E incr \in Increments : sbrk(incr)
  BY <1>1, Refuse_Inv, Grant_Inv, HeapAssumption DEF sbrk
<1>2. CASE \E size \in FrameSizes : CallFunction(size)
  <2>1. PICK size \in FrameSizes : CallFunction(size)
    BY <1>2
  <2>2. size \in Nat /\ OnExceptionStack' = FALSE /\ in_exception' \in BOOLEAN
    BY <2>1, StackAssumption DEF CallFunction, OnExceptionStack, HeapInv
  <2>3. QED
    BY <2>1, <2>2, Push_Inv DEF CallFunction
<1>3. CASE Return
  <2>1. OnExceptionStack' = FALSE /\ in_exception' \in BOOLEAN
    BY <1>3 DEF Return, OnExceptionStack, HeapInv
  <2>2. QED
    BY <1>3, <2>1, Pop_Inv DEF Return
<1>4. CASE Exception
  BY <1>4, Exception_Inv
<1>5. CASE Eret
  BY <1>5, Eret_Inv
<1>6. CASE UNCHANGED vars
  BY <1>6 DEF vars, HeapInv, ProgramLimit, OnExceptionStack, Running
<1>7. QED
  BY <1>1, <1>2, <1>3, <1>4, <1>5, <1>6 DEF HeapNext

\* With a heap that begins at the stack's limit, the heap never leaves its memory and
\* the run-time check keeps it below the stack, whatever the order of calls,
\* requests, refusals and interrupts, as long as the limits are words (alt_sbrk.c).
THEOREM HeapSafety == ASSUME Contiguity PROVE HeapSpec => []HeapSafe
<1>1. HeapInit => HeapInv
  BY HeapInit_Inv
<1>2. HeapInv /\ [HeapNext]_vars => HeapInv'
  BY HeapNext_Inv
<1>3. HeapInv => HeapSafe
  BY DEF HeapInv, HeapSafe, HeapTypeOK, HeapInMemory, LimitFollowsHeap, ProgramLimit
<1>4. QED
  BY <1>1, <1>2, <1>3, PTL DEF HeapSpec

\* Every block sbrk gives out begins on a word, at or above all it gave out before:
\* a refused request, which moves the break as well, takes nothing back.
THEOREM BlockSeparation == HeapSpec => BlocksApart
<1> DEFINE BreakOK == heap_end \in Int
<1>1. HeapInit => BreakOK
  BY HeapAssumption DEF HeapInit
<1>2. BreakOK /\ [HeapNext]_vars => BreakOK'
  <2> SUFFICES ASSUME BreakOK, [HeapNext]_vars, heap_end' # heap_end
               PROVE  heap_end' \in Int
    OBVIOUS
  <2>1. PICK incr \in Increments : sbrk(incr)
    BY DEF HeapNext, CallFunction, Return, Exception, Eret, vars
  <2>2. incr \in Int /\ Aligned(heap_end) \in Int
    BY HeapAssumption, AlignedUp
  <2>3. QED
    BY <2>1, <2>2 DEF sbrk, Refuse, Grant, GrantFrom
<1>3. BreakOK /\ [HeapNext]_vars =>
        [call'.ret # -1 /\ heap_end' # heap_end => call'.ret >= heap_end /\ call'.ret % 4 = 0]_vars
  <2> SUFFICES ASSUME BreakOK, HeapNext, call'.ret # -1, heap_end' # heap_end
               PROVE  call'.ret >= heap_end /\ call'.ret % 4 = 0
    OBVIOUS
  <2>1. PICK incr \in Increments : sbrk(incr)
    BY DEF HeapNext, CallFunction, Return, Exception, Eret
  <2>2. Grant(incr)
    BY <2>1 DEF sbrk, Refuse
  <2>3. call'.ret = Aligned(heap_end)
    BY <2>2 DEF Grant, GrantFrom
  <2>4. QED
    BY <2>3, AlignedUp
<1>4. QED
  BY <1>1, <1>2, <1>3, PTL DEF HeapSpec, BlocksApart

----------------------------------------------------------------------------
(* The caches.  Quotients and remainders first. *)
LEMMA DivMod ==
  ASSUME NEW n \in Nat, NEW d \in Nat, d > 0
  PROVE  n \div d \in Nat /\ n % d \in 0 .. d - 1 /\ n = d * (n \div d) + (n % d)
<1>1. n \div d \in Nat /\ n % d \in Nat /\ n % d < d /\ n = d * (n \div d) + (n % d)
  OBVIOUS
<1>2. QED
  BY <1>1

\* A quotient is at least k when the number is at least k times the divisor.
LEMMA DivBound ==
  ASSUME NEW n \in Nat, NEW d \in Nat, d > 0, NEW k \in Nat
  PROVE  n >= d * k <=> n \div d >= k
<1>1. PICK q \in Nat, r \in 0 .. d - 1 : q = n \div d /\ r = n % d
  BY DivMod
<1>2. n = d * q + r
  BY <1>1, DivMod
<1>3. q >= k => d * q >= d * k
  OBVIOUS
<1>4. q < k => d * (q + 1) <= d * k
  OBVIOUS
<1>5. d * (q + 1) = d * q + d /\ d * q \in Nat /\ d * k \in Nat
  OBVIOUS
<1>6. QED
  BY <1>1, <1>2, <1>3, <1>4, <1>5

\* Adding whole divisors adds to the quotient and leaves the remainder.
LEMMA DivShift ==
  ASSUME NEW n \in Nat, NEW d \in Nat, d > 0, NEW k \in Nat
  PROVE  (n + k * d) \div d = (n \div d) + k
<1>1. PICK q \in Nat : q = n \div d
  BY DivMod
<1>2. PICK m \in Nat : m = n + k * d
  OBVIOUS
<1>3. PICK p \in Nat : p = m \div d
  BY DivMod
<1>4. d * q <= n /\ n < d * (q + 1)
  BY <1>1, DivBound
<1>5. d * (q + k) = d * q + k * d /\ d * ((q + 1) + k) = d * (q + 1) + k * d /\ k * d \in Nat
      /\ d * q \in Nat /\ d * (q + 1) \in Nat
  OBVIOUS
<1>6. m >= d * (q + k) /\ ~(m >= d * ((q + 1) + k))
  BY <1>2, <1>4, <1>5
<1>7. p >= q + k /\ ~(p >= (q + 1) + k)
  BY <1>3, <1>6, DivBound
<1>8. p = q + k
  BY <1>7
<1>9. QED
  BY <1>1, <1>2, <1>3, <1>8

\* Among as many numbers in a row as the divisor, one has any given remainder.
LEMMA EveryRemainder ==
  ASSUME NEW q \in Nat, NEW d \in Nat, d > 0, NEW p \in 0 .. d - 1
  PROVE  \E l \in q .. q + d - 1 : l % d = p
<1>1. PICK c \in Nat, r \in 0 .. d - 1 : c = q \div d /\ r = q % d
  BY DivMod
<1>2. q = d * c + r
  BY <1>1, DivMod
<1>3. PICK l \in Nat, e \in Nat : l = d * e + p /\ q <= l /\ l <= q + d - 1
  <2>1. CASE r <= p
    <3>1. d * c + p \in Nat /\ q <= d * c + p /\ d * c + p <= q + d - 1
      BY <1>2, <2>1
    <3>2. QED
      BY <3>1
  <2>2. CASE r > p
    <3>1. d * (c + 1) = d * c + d /\ d * (c + 1) \in Nat /\ c + 1 \in Nat /\ d * c \in Nat
      OBVIOUS
    <3>2. d * (c + 1) + p \in Nat /\ q <= d * (c + 1) + p /\ d * (c + 1) + p <= q + d - 1
      BY <1>2, <2>2, <3>1
    <3>3. QED
      BY <3>1, <3>2
  <2>3. QED
    BY <2>1, <2>2
<1>4. l % d = p
  <2>1. PICK f \in Nat, g \in 0 .. d - 1 : f = l \div d /\ g = l % d
    BY DivMod
  <2>2. l = d * f + g
    BY <2>1, DivMod
  <2>3. d * e <= l /\ l < d * (e + 1)
    <3>1. d * (e + 1) = d * e + d /\ d * e \in Nat
      OBVIOUS
    <3>2. QED
      BY <1>3, <3>1
  <2>4. f >= e /\ ~(f >= e + 1)
    BY <2>1, <2>3, DivBound
  <2>5. f = e
    BY <2>4
  <2>6. QED
    BY <1>3, <2>1, <2>2, <2>5
<1>5. QED
  BY <1>3, <1>4

----------------------------------------------------------------------------
\* What the cache calls rest on: an unchanged line is as the memory has it, and an
\* uncached block is made of whole lines, none of which the cache holds.
CacheTypes ==
  /\ mem = [a \in Cache!Address |-> mem[a]]
  /\ dcache = [p \in Cache!Place |-> dcache[p]]
  /\ block \in [bytes : SUBSET Cache!Address, cached : BOOLEAN]
Dirty(a) == dcache[Cache!PlaceOf(Cache!LineOf(a))].dirty
CleanAsMemory == \A a \in Cache!Address : Cache!Cached(a) /\ ~Dirty(a) => Cache!View(a) = mem[a]
WholeLines ==
  \A a, b \in Cache!Address : Cache!LineOf(a) = Cache!LineOf(b) /\ a \in block.bytes => b \in block.bytes

CacheInv == CacheTypes /\ CleanAsMemory /\ WholeLines /\ Cache!UncachedApart

LEMMA CacheSizes ==
  /\ LINE_SIZE \in Nat /\ LINE_SIZE > 0 /\ CacheLines \in Nat /\ CacheLines > 0 /\ MemoryLines \in Nat
  /\ Cache!Size \in Nat /\ Cache!CACHE_SIZE \in Nat
  /\ Cache!Address = 0 .. Cache!Size - 1 /\ Cache!Place = 0 .. CacheLines - 1
<1>1. LINE_SIZE \in Nat /\ LINE_SIZE > 0 /\ CacheLines \in Nat /\ CacheLines > 0 /\ MemoryLines \in Nat
  BY MemoryAssumption DEF Cache!CacheAssumption
<1>2. LINE_SIZE * MemoryLines \in Nat /\ LINE_SIZE * CacheLines \in Nat
  BY <1>1
<1>3. QED
  BY <1>1, <1>2 DEF Cache!Size, Cache!CACHE_SIZE, Cache!Address, Cache!Place

\* A line has a place, and an address is found again in its line.
LEMMA AddressLine ==
  ASSUME NEW a \in Nat
  PROVE  /\ Cache!LineOf(a) \in Nat /\ Cache!PlaceOf(Cache!LineOf(a)) \in Cache!Place
         /\ a % LINE_SIZE \in 0 .. LINE_SIZE - 1
         /\ Cache!LineOf(a) * LINE_SIZE + (a % LINE_SIZE) = a
<1>1. LINE_SIZE \in Nat /\ LINE_SIZE > 0 /\ CacheLines \in Nat /\ CacheLines > 0
      /\ Cache!Place = 0 .. CacheLines - 1
  BY CacheSizes
<1>2. PICK q \in Nat, r \in 0 .. LINE_SIZE - 1 : q = a \div LINE_SIZE /\ r = a % LINE_SIZE
  BY <1>1, DivMod
<1>3. a = LINE_SIZE * q + r
  BY <1>1, <1>2, DivMod
<1>4. q % CacheLines \in Cache!Place
  BY <1>1, DivMod
<1>5. q * LINE_SIZE + r = a
  BY <1>1, <1>3
<1>6. QED
  BY <1>2, <1>4, <1>5 DEF Cache!LineOf, Cache!PlaceOf

\* The lines of a region, by number.
LEMMA LinesOfLoop ==
  ASSUME NEW start \in Nat, NEW len \in Nat
  PROVE  /\ Cache!NumLines(len) \in Nat
         /\ Cache!LoopLines(start, len) =
              {Cache!LineOf(start) + k : k \in 0 .. Cache!NumLines(len) - (IF start % LINE_SIZE = 0 THEN 1 ELSE 0)}
<1>1. LINE_SIZE \in Nat /\ LINE_SIZE > 0 /\ len + LINE_SIZE - 1 \in Nat
  BY CacheSizes
<1>2. Cache!NumLines(len) \in Nat
  <2>1. PICK m \in Nat : m = len + LINE_SIZE - 1
    BY <1>1
  <2>2. m \div LINE_SIZE \in Nat
    BY <1>1, DivMod
  <2>3. QED
    BY <2>1, <2>2 DEF Cache!NumLines
<1>3. ASSUME NEW k \in Nat PROVE Cache!LineOf(start + k * LINE_SIZE) = Cache!LineOf(start) + k
  BY <1>1, DivShift DEF Cache!LineOf
<1>4. \A k \in 0 .. Cache!NumLines(len) - (IF start % LINE_SIZE = 0 THEN 1 ELSE 0) : k \in Nat
  BY <1>2
<1>5. QED
  BY <1>2, <1>3, <1>4 DEF Cache!LoopLines

\* The loop reaches every line with a byte of the region, however it lies in them.
LEMMA LoopReaches ==
  ASSUME NEW start \in Nat, NEW len \in Nat, NEW a \in start .. start + len - 1
  PROVE  Cache!LineOf(a) \in Cache!LoopLines(start, len)
<1>1. LINE_SIZE \in Nat /\ LINE_SIZE > 0 /\ a \in Nat /\ start <= a /\ a < start + len
  BY CacheSizes
<1>2. PICK q \in Nat, r \in 0 .. LINE_SIZE - 1 : q = start \div LINE_SIZE /\ r = start % LINE_SIZE
  BY <1>1, DivMod
<1>3. start = LINE_SIZE * q + r
  BY <1>1, <1>2, DivMod
<1>4. PICK l \in Nat, s \in 0 .. LINE_SIZE - 1 : l = a \div LINE_SIZE /\ s = a % LINE_SIZE
  BY <1>1, DivMod
<1>5. a = LINE_SIZE * l + s
  BY <1>1, <1>4, DivMod
<1>6. l >= q
  <2>1. a >= LINE_SIZE * q
    BY <1>1, <1>2, <1>3
  <2>2. QED
    BY <1>1, <1>4, <2>1, DivBound
<1>7. PICK k \in Nat : k = l - q
  BY <1>6
<1>8. PICK n \in Nat : n = Cache!NumLines(len)
  BY LinesOfLoop
<1>9. PICK m \in Nat : m = len + LINE_SIZE - 1
  BY <1>1
<1>10. n = m \div LINE_SIZE
  BY <1>8, <1>9 DEF Cache!NumLines
<1>11. LINE_SIZE * l = LINE_SIZE * q + LINE_SIZE * k /\ LINE_SIZE * q \in Nat /\ LINE_SIZE * k \in Nat
  BY <1>1, <1>7
<1>12. LINE_SIZE * k + s < r + len
  BY <1>1, <1>3, <1>5, <1>11
<1>13. k <= n - (IF r = 0 THEN 1 ELSE 0)
  <2>1. CASE r = 0
    <3>1. LINE_SIZE * (k + 1) = LINE_SIZE * k + LINE_SIZE
      BY <1>1
    <3>2. m >= LINE_SIZE * (k + 1)
      BY <1>1, <1>9, <1>11, <1>12, <2>1, <3>1
    <3>3. n >= k + 1
      BY <1>1, <1>10, <3>2, DivBound
    <3>4. QED
      BY <2>1, <3>3
  <2>2. CASE r # 0
    <3>1. m >= LINE_SIZE * k
      BY <1>1, <1>9, <1>11, <1>12
    <3>2. n >= k
      BY <1>1, <1>10, <3>1, DivBound
    <3>3. QED
      BY <2>2, <3>2
  <2>3. QED
    BY <2>1, <2>2
<1>14. k \in 0 .. Cache!NumLines(len) - (IF start % LINE_SIZE = 0 THEN 1 ELSE 0)
  BY <1>2, <1>8, <1>13
<1>15. Cache!LineOf(a) = Cache!LineOf(start) + k
  BY <1>2, <1>4, <1>7 DEF Cache!LineOf
<1>16. QED
  BY <1>14, <1>15, LinesOfLoop

\* A region as large as the cache has a line for every place.
LEMMA LoopReachesAll ==
  ASSUME NEW start \in Nat, NEW p \in Cache!Place
  PROVE  \E l \in Cache!LoopLines(start, Cache!CACHE_SIZE) : Cache!PlaceOf(l) = p
<1>1. LINE_SIZE \in Nat /\ LINE_SIZE > 0 /\ CacheLines \in Nat /\ CacheLines > 0
      /\ p \in 0 .. CacheLines - 1 /\ Cache!CACHE_SIZE \in Nat
  BY CacheSizes
<1>2. PICK q \in Nat : q = Cache!LineOf(start)
  BY AddressLine
<1>3. PICK l \in q .. q + CacheLines - 1 : l % CacheLines = p
  BY <1>1, EveryRemainder
<1>4. PICK k \in Nat : l = q + k /\ k <= CacheLines - 1
  BY <1>1, <1>3
<1>5. PICK n \in Nat : n = Cache!NumLines(Cache!CACHE_SIZE)
  BY <1>1, LinesOfLoop
<1>6. n >= CacheLines
  <2>1. PICK m \in Nat : m = LINE_SIZE * CacheLines + LINE_SIZE - 1
    BY <1>1
  <2>2. n = m \div LINE_SIZE
    BY <1>5, <2>1 DEF Cache!NumLines, Cache!CACHE_SIZE
  <2>3. m >= LINE_SIZE * CacheLines
    BY <1>1, <2>1
  <2>4. QED
    BY <1>1, <2>2, <2>3, DivBound
<1>7. k \in 0 .. Cache!NumLines(Cache!CACHE_SIZE) - (IF start % LINE_SIZE = 0 THEN 1 ELSE 0)
  BY <1>1, <1>4, <1>5, <1>6
<1>8. l \in Cache!LoopLines(start, Cache!CACHE_SIZE)
  BY <1>1, <1>2, <1>4, <1>7, LinesOfLoop
<1>9. QED
  BY <1>3, <1>8 DEF Cache!PlaceOf

\* The same of an address there is.
LEMMA PlacedAddress ==
  ASSUME NEW a \in Cache!Address
  PROVE  /\ a \in Nat /\ Cache!LineOf(a) \in Nat /\ Cache!PlaceOf(Cache!LineOf(a)) \in Cache!Place
         /\ a % LINE_SIZE \in 0 .. LINE_SIZE - 1
         /\ Cache!LineOf(a) * LINE_SIZE + (a % LINE_SIZE) = a
<1>1. a \in Nat
  BY CacheSizes
<1>2. QED
  BY <1>1, AddressLine

\* Whatever places are written back and emptied: the program sees what it saw, and
\* the memory has it where the places were.
LEMMA FlushedPlaces ==
  ASSUME CacheInv, NEW P, NEW a \in Cache!Address,
         NEW m, m = Cache!WrittenBack(P), NEW c, c = Cache!Emptied(dcache, P, Cache!NoLine)
  PROVE  /\ Cache!ViewOf(m, c, a) = Cache!View(a)
         /\ Cache!PlaceOf(Cache!LineOf(a)) \in P => m[a] = Cache!View(a) /\ ~Cache!Holds(c, a)
         /\ Cache!PlaceOf(Cache!LineOf(a)) \notin P => m[a] = mem[a]
         /\ ~Cache!Cached(a) => m[a] = mem[a] /\ ~Cache!Holds(c, a)
         /\ Cache!Holds(c, a) => Cache!Cached(a)
<1> DEFINE p == Cache!PlaceOf(Cache!LineOf(a))
<1>1. a \in Nat
  BY CacheSizes
<1>2. p \in Cache!Place /\ Cache!LineOf(a) \in Nat
  BY <1>1, AddressLine
<1>3. c[p] = IF p \in P THEN Cache!NoLine ELSE dcache[p]
  BY <1>2 DEF Cache!Emptied
<1>4. m[a] = IF Cache!Cached(a) /\ p \in P /\ dcache[p].dirty THEN Cache!View(a) ELSE mem[a]
  BY DEF Cache!WrittenBack
<1>5. ~Cache!Cached(a) => Cache!View(a) = mem[a]
  BY DEF Cache!View, Cache!ViewOf, Cache!Cached
<1>6. Cache!Cached(a) /\ ~dcache[p].dirty => Cache!View(a) = mem[a]
  BY DEF CacheInv, CleanAsMemory, Dirty
<1>7. Cache!NoLine.line # Cache!LineOf(a)
  BY <1>2 DEF Cache!NoLine
<1>8. CASE p \in P
  <2>1. ~Cache!Holds(c, a)
    BY <1>3, <1>7, <1>8 DEF Cache!Holds
  <2>2. m[a] = Cache!View(a)
    BY <1>4, <1>5, <1>6, <1>8
  <2>3. Cache!ViewOf(m, c, a) = Cache!View(a)
    BY <2>1, <2>2 DEF Cache!ViewOf
  <2>4. QED
    BY <1>5, <1>8, <2>1, <2>2, <2>3
<1>9. CASE p \notin P
  <2>1. c[p] = dcache[p] /\ m[a] = mem[a]
    BY <1>3, <1>4, <1>9
  <2>2. Cache!Holds(c, a) <=> Cache!Cached(a)
    BY <2>1 DEF Cache!Holds, Cache!Cached
  <2>3. Cache!ViewOf(m, c, a) = Cache!View(a)
    BY <2>1, <2>2 DEF Cache!ViewOf, Cache!View, Cache!Holds, Cache!Cached
  <2>4. QED
    BY <1>9, <2>1, <2>2, <2>3
<1>10. QED
  BY <1>8, <1>9

\* A byte the cache holds lies in a place that is searched for its line.
LEMMA HeldIsFound ==
  ASSUME NEW a \in Cache!Address, NEW lines, Cache!LineOf(a) \in lines, Cache!Cached(a)
  PROVE  Cache!PlaceOf(Cache!LineOf(a)) \in Cache!HoldingPlaces(lines)
<1>1. Cache!PlaceOf(Cache!LineOf(a)) \in Cache!Place
  BY PlacedAddress
<1>2. QED
  BY <1>1 DEF Cache!HoldingPlaces, Cache!Cached, Cache!Holds

----------------------------------------------------------------------------
\* A memory and a cache with at most the bytes of before, the clean ones unchanged.
LEMMA FewerCached ==
  ASSUME CacheInv, NEW m, m = [a \in Cache!Address |-> m[a]], mem' = m,
         NEW P, dcache' = Cache!Emptied(dcache, P, Cache!NoLine),
         \A a \in Cache!Address : Cache!PlaceOf(Cache!LineOf(a)) \notin P => m[a] = mem[a],
         block' \in [bytes : SUBSET Cache!Address, cached : BOOLEAN], WholeLines',
         ~block'.cached => \A a \in block'.bytes : Cache!Cached(a) => Cache!PlaceOf(Cache!LineOf(a)) \in P
  PROVE  CacheInv'
<1>1. dcache' = [p \in Cache!Place |-> IF p \in P THEN Cache!NoLine ELSE dcache[p]]
  BY DEF Cache!Emptied
<1>2. CacheTypes'
  BY <1>1, Zenon DEF CacheTypes
<1>3. ASSUME NEW a \in Cache!Address, Cache!Cached(a)'
      PROVE  /\ Cache!PlaceOf(Cache!LineOf(a)) \notin P /\ Cache!Cached(a)
             /\ dcache'[Cache!PlaceOf(Cache!LineOf(a))] = dcache[Cache!PlaceOf(Cache!LineOf(a))]
  <2>1. /\ Cache!PlaceOf(Cache!LineOf(a)) \in Cache!Place /\ Cache!LineOf(a) \in Nat
        /\ Cache!NoLine.line # Cache!LineOf(a)
    BY PlacedAddress DEF Cache!NoLine
  <2>2. dcache'[Cache!PlaceOf(Cache!LineOf(a))].line = Cache!LineOf(a)
    BY <1>3 DEF Cache!Cached, Cache!Holds
  <2>3. Cache!PlaceOf(Cache!LineOf(a)) \notin P
    BY <1>1, <2>1, <2>2
  <2>4. QED
    BY <1>1, <2>1, <2>2, <2>3 DEF Cache!Cached, Cache!Holds
<1>4. CleanAsMemory'
  <2>1. SUFFICES ASSUME NEW a \in Cache!Address, Cache!Cached(a)', ~Dirty(a)'
                 PROVE  Cache!View(a)' = mem'[a]
    BY DEF CleanAsMemory
  <2>2. Cache!Cached(a) /\ ~Dirty(a) /\ mem'[a] = mem[a]
    BY <1>3, <2>1 DEF Dirty
  <2>3. Cache!View(a) = mem[a]
    BY <2>2 DEF CacheInv, CleanAsMemory
  <2>4. Cache!View(a)' = Cache!View(a)
    BY <1>3, <2>1, <2>2 DEF Cache!View, Cache!ViewOf, Cache!Cached, Cache!Holds
  <2>5. QED
    BY <2>2, <2>3, <2>4
<1>5. Cache!UncachedApart'
  <2>1. SUFFICES ASSUME ~block'.cached, NEW a \in block'.bytes, Cache!Cached(a)'
                 PROVE  FALSE
    BY DEF Cache!UncachedApart
  <2>2. a \in Cache!Address
    BY <2>1
  <2>3. QED
    BY <1>3, <2>1, <2>2
<1>6. QED
  BY <1>2, <1>4, <1>5 DEF CacheInv

\* The calls that write back or discard, with the block as it was.
LEMMA Flush_Inv ==
  ASSUME CacheInv, NEW P, mem' \in {mem, Cache!WrittenBack(P)},
         dcache' = Cache!Emptied(dcache, P, Cache!NoLine), UNCHANGED block
  PROVE  CacheInv'
<1>1. PICK m : m = mem' /\ m \in {mem, Cache!WrittenBack(P)}
  OBVIOUS
<1>2. m = [a \in Cache!Address |-> m[a]]
  <2>1. mem = [a \in Cache!Address |-> mem[a]]
    BY DEF CacheInv, CacheTypes
  <2>2. Cache!WrittenBack(P) = [a \in Cache!Address |-> Cache!WrittenBack(P)[a]]
    BY DEF Cache!WrittenBack
  <2>3. QED
    BY <1>1, <2>1, <2>2
<1>3. \A a \in Cache!Address : Cache!PlaceOf(Cache!LineOf(a)) \notin P => m[a] = mem[a]
  BY <1>1 DEF Cache!WrittenBack
<1>4. /\ block' \in [bytes : SUBSET Cache!Address, cached : BOOLEAN] /\ WholeLines'
      /\ ~block'.cached => \A a \in block'.bytes : ~Cache!Cached(a)
  BY DEF CacheInv, CacheTypes, WholeLines, Cache!UncachedApart
<1>5. QED
  BY <1>1, <1>2, <1>3, <1>4, FewerCached

\* A line is filled, or filled and stored to, in the place of another.
LEMMA Fill_Inv ==
  ASSUME CacheInv, NEW a \in Cache!Address, Cache!CachedAccess(a), UNCHANGED block,
         NEW new, new.line = Cache!LineOf(a), new.dirty \/ (new.data = Cache!Filled(a) /\ ~Cache!Cached(a)),
         mem' = IF Cache!Cached(a) THEN mem ELSE Cache!WrittenBack({Cache!PlaceOf(Cache!LineOf(a))}),
         dcache' = [dcache EXCEPT ![Cache!PlaceOf(Cache!LineOf(a))] = new]
  PROVE  CacheInv'
<1> DEFINE p == Cache!PlaceOf(Cache!LineOf(a))
<1>1. p \in Cache!Place /\ Cache!LineOf(a) \in Nat
  BY PlacedAddress
<1>2. PICK d : d = dcache' /\ d = [q \in Cache!Place |-> IF q = p THEN new ELSE dcache[q]]
  <2>1. dcache = [q \in Cache!Place |-> dcache[q]]
    BY DEF CacheInv, CacheTypes
  <2>2. [dcache EXCEPT ![p] = new] = [q \in Cache!Place |-> IF q = p THEN new ELSE dcache[q]]
    BY <1>1, <2>1
  <2>3. QED
    BY <2>2
<1>3. mem' = [b \in Cache!Address |-> mem'[b]]
  <2>1. mem = [b \in Cache!Address |-> mem[b]]
    BY DEF CacheInv, CacheTypes
  <2>2. Cache!WrittenBack({p}) = [b \in Cache!Address |-> Cache!WrittenBack({p})[b]]
    BY DEF Cache!WrittenBack
  <2>3. QED
    BY <2>1, <2>2
<1>4. CacheTypes'
  <2>1. dcache' = [q \in Cache!Place |-> dcache'[q]]
    BY <1>2
  <2>2. block' \in [bytes : SUBSET Cache!Address, cached : BOOLEAN]
    BY DEF CacheInv, CacheTypes
  <2>3. QED
    BY <1>3, <2>1, <2>2 DEF CacheTypes
<1>5. ASSUME NEW b \in Cache!Address, Cache!PlaceOf(Cache!LineOf(b)) # p
      PROVE  /\ Cache!Cached(b)' <=> Cache!Cached(b)
             /\ dcache'[Cache!PlaceOf(Cache!LineOf(b))] = dcache[Cache!PlaceOf(Cache!LineOf(b))]
             /\ mem'[b] = mem[b]
  <2>1. Cache!PlaceOf(Cache!LineOf(b)) \in Cache!Place
    BY PlacedAddress
  <2>2. d[Cache!PlaceOf(Cache!LineOf(b))] = dcache[Cache!PlaceOf(Cache!LineOf(b))]
    BY <1>2, <1>5, <2>1
  <2>3. Cache!WrittenBack({p})[b] = mem[b]
    BY <1>5 DEF Cache!WrittenBack
  <2>4. QED
    BY <1>2, <2>2, <2>3 DEF Cache!Cached, Cache!Holds
<1>6. ASSUME NEW b \in Cache!Address, Cache!PlaceOf(Cache!LineOf(b)) = p
      PROVE  /\ dcache'[Cache!PlaceOf(Cache!LineOf(b))] = new
             /\ Cache!Cached(b)' <=> Cache!LineOf(b) = Cache!LineOf(a)
  <2>1. d[p] = new
    BY <1>1, <1>2
  <2>2. QED
    BY <1>2, <1>6, <2>1 DEF Cache!Cached, Cache!Holds
<1>7. CleanAsMemory'
  <2>1. SUFFICES ASSUME NEW b \in Cache!Address, Cache!Cached(b)', ~Dirty(b)'
                 PROVE  Cache!View(b)' = mem'[b]
    BY DEF CleanAsMemory
  <2>2. CASE Cache!PlaceOf(Cache!LineOf(b)) # p
    <3>1. Cache!Cached(b) /\ ~Dirty(b) /\ mem'[b] = mem[b]
      BY <1>5, <2>1, <2>2 DEF Dirty
    <3>2. Cache!View(b) = mem[b]
      BY <3>1 DEF CacheInv, CleanAsMemory
    <3>3. Cache!View(b)' = Cache!View(b)
      BY <1>5, <2>1, <2>2, <3>1 DEF Cache!View, Cache!ViewOf, Cache!Cached, Cache!Holds
    <3>4. QED
      BY <3>1, <3>2, <3>3
  <2>3. CASE Cache!PlaceOf(Cache!LineOf(b)) = p
    <3>1. Cache!LineOf(b) = Cache!LineOf(a) /\ dcache'[p] = new
      BY <1>6, <2>1, <2>3
    <3>2. new.data = Cache!Filled(a) /\ ~Cache!Cached(a)
      BY <2>1, <2>3, <3>1 DEF Dirty
    <3>3. ~Cache!Cached(b)
      BY <3>1, <3>2 DEF Cache!Cached, Cache!Holds
    <3>4. /\ b % LINE_SIZE \in 0 .. LINE_SIZE - 1
          /\ Cache!LineOf(b) * LINE_SIZE + (b % LINE_SIZE) = b
      BY PlacedAddress
    <3>5. Cache!Filled(a)[b % LINE_SIZE] = Cache!View(b)
      <4>1. PICK r \in 0 .. LINE_SIZE - 1 : r = b % LINE_SIZE
        BY <3>4
      <4>2. Cache!Filled(a)[r] = Cache!View(Cache!LineOf(a) * LINE_SIZE + r)
        BY DEF Cache!Filled
      <4>3. Cache!LineOf(a) * LINE_SIZE + r = b
        BY <3>1, <3>4, <4>1
      <4>4. QED
        BY <4>1, <4>2, <4>3
    <3>6. Cache!View(b) = mem[b]
      BY <3>3 DEF Cache!View, Cache!ViewOf, Cache!Cached
    <3>7. mem'[b] = mem[b]
      BY <3>2, <3>3 DEF Cache!WrittenBack
    <3>8. Cache!View(b)' = new.data[b % LINE_SIZE]
      BY <2>1, <2>3, <3>1 DEF Cache!View, Cache!ViewOf, Cache!Cached
    <3>9. QED
      BY <3>2, <3>5, <3>6, <3>7, <3>8
  <2>4. QED
    BY <2>2, <2>3
<1>8. WholeLines'
  BY DEF CacheInv, WholeLines
<1>9. Cache!UncachedApart'
  <2>1. SUFFICES ASSUME ~block.cached, NEW b \in block.bytes, Cache!Cached(b)'
                 PROVE  FALSE
    BY DEF Cache!UncachedApart
  <2>2. b \in Cache!Address /\ ~Cache!Cached(b) /\ a \notin block.bytes
    BY <2>1 DEF CacheInv, CacheTypes, Cache!UncachedApart, Cache!CachedAccess
  <2>3. Cache!LineOf(b) = Cache!LineOf(a)
    BY <1>5, <1>6, <2>1, <2>2
  <2>4. QED
    BY <2>2, <2>3 DEF CacheInv, WholeLines
<1>10. QED
  BY <1>4, <1>7, <1>8, <1>9 DEF CacheInv

\* The store past the cache, which no line covers.
LEMMA StoreMemory_Inv ==
  ASSUME CacheInv, NEW a \in Cache!Address, NEW v, Cache!StoreMemory(a, v)
  PROVE  CacheInv'
<1>1. /\ a \in block.bytes /\ ~block.cached /\ mem' = [mem EXCEPT ![a] = v]
      /\ UNCHANGED << dcache, block >>
  BY DEF Cache!StoreMemory
<1>2. mem = [b \in Cache!Address |-> mem[b]]
  BY DEF CacheInv, CacheTypes
<1>3. /\ mem' = [b \in Cache!Address |-> mem'[b]]
      /\ \A b \in Cache!Address : b # a => mem'[b] = mem[b]
  BY <1>1, <1>2
<1>4. ~Cache!Cached(a)
  BY <1>1 DEF CacheInv, Cache!UncachedApart
<1>5. \A b \in Cache!Address : /\ Cache!Cached(b)' <=> Cache!Cached(b)
                               /\ Dirty(b)' <=> Dirty(b)
                               /\ Cache!Cached(b) => Cache!View(b)' = Cache!View(b)
  BY <1>1 DEF Cache!Cached, Cache!Holds, Dirty, Cache!View, Cache!ViewOf
<1>6. CleanAsMemory'
  BY <1>3, <1>4, <1>5 DEF CacheInv, CleanAsMemory
<1>7. CacheTypes' /\ WholeLines' /\ Cache!UncachedApart'
  BY <1>1, <1>3, <1>5 DEF CacheInv, CacheTypes, WholeLines, Cache!UncachedApart
<1>8. QED
  BY <1>6, <1>7 DEF CacheInv

\* A block of whole lines, none of them left in the cache.
LEMMA UncachedMalloc_Inv ==
  ASSUME CacheInv, NEW size \in 1 .. 2 * LINE_SIZE, Cache!alt_uncached_malloc(size)
  PROVE  CacheInv'
<1>0. LINE_SIZE \in Nat /\ LINE_SIZE > 0 /\ MemoryLines \in Nat /\ size \in Nat
      /\ Cache!Address = 0 .. Cache!Size - 1 /\ Cache!Size \in Nat
  BY CacheSizes
<1> DEFINE n == Cache!AllocatedSize(size)
<1>1. PICK line \in 0 .. MemoryLines - 1 :
        /\ line * LINE_SIZE + n - 1 \in Cache!Address
        /\ block' = [bytes |-> line * LINE_SIZE .. line * LINE_SIZE + n - 1, cached |-> FALSE]
        /\ mem' = Cache!MemFlushed(Cache!LoopLines(line * LINE_SIZE, n))
        /\ dcache' = Cache!Flushed(Cache!LoopLines(line * LINE_SIZE, n))
  BY DEF Cache!alt_uncached_malloc
<1>2. PICK k \in Nat : k = Cache!NumLines(size)
  BY <1>0, LinesOfLoop
<1>3. n = k * LINE_SIZE /\ n \in Nat
  BY <1>0, <1>2 DEF Cache!AllocatedSize
<1>4. PICK ptr \in Nat : ptr = line * LINE_SIZE
  BY <1>0
<1>5. PICK end \in Nat : end = LINE_SIZE * (line + k) /\ end = ptr + n
  <2>1. LINE_SIZE * (line + k) = line * LINE_SIZE + k * LINE_SIZE /\ line + k \in Nat
    BY <1>0
  <2>2. QED
    BY <1>0, <1>3, <1>4, <2>1
<1>6. block'.bytes = ptr .. end - 1 /\ ~block'.cached /\ end - 1 \in Cache!Address
  BY <1>1, <1>3, <1>4, <1>5
<1>7. block'.bytes \subseteq Cache!Address
  BY <1>0, <1>6
<1>8. \A a \in Cache!Address : a \in block'.bytes <=> Cache!LineOf(a) >= line /\ ~(Cache!LineOf(a) >= line + k)
  <2>1. SUFFICES ASSUME NEW a \in Cache!Address
                 PROVE  a \in block'.bytes <=> Cache!LineOf(a) >= line /\ ~(Cache!LineOf(a) >= line + k)
    OBVIOUS
  <2>2. a \in Nat /\ line \in Nat /\ line + k \in Nat
    BY <1>0
  <2>3. ptr = LINE_SIZE * line
    BY <1>0, <1>4
  <2>4. /\ a >= ptr <=> Cache!LineOf(a) >= line
        /\ a >= end <=> Cache!LineOf(a) >= line + k
    BY <1>0, <1>5, <2>2, <2>3, DivBound DEF Cache!LineOf
  <2>5. a \in ptr .. end - 1 <=> a >= ptr /\ ~(a >= end)
    BY <2>2
  <2>6. QED
    BY <1>6, <2>4, <2>5
<1>9. WholeLines'
  <2>1. SUFFICES ASSUME NEW a \in Cache!Address, NEW b \in Cache!Address,
                        Cache!LineOf(a) = Cache!LineOf(b), a \in block'.bytes
                 PROVE  b \in block'.bytes
    BY DEF WholeLines
  <2>2. QED
    BY <1>8, <2>1
<1> DEFINE lines == Cache!LoopLines(ptr, n)
           P == Cache!HoldingPlaces(lines)
           m == Cache!WrittenBack(P)
<1>10. mem' = m /\ dcache' = Cache!Emptied(dcache, P, Cache!NoLine)
  BY <1>1, <1>4 DEF Cache!MemFlushed, Cache!Flushed
<1>11. m = [a \in Cache!Address |-> m[a]]
  BY DEF Cache!WrittenBack
<1>12. \A a \in Cache!Address : Cache!PlaceOf(Cache!LineOf(a)) \notin P => m[a] = mem[a]
  BY DEF Cache!WrittenBack
<1>13. block' \in [bytes : SUBSET Cache!Address, cached : BOOLEAN]
  <2>1. PICK bytes \in SUBSET Cache!Address : bytes = line * LINE_SIZE .. line * LINE_SIZE + n - 1
    BY <1>1, <1>7
  <2>2. block' = [bytes |-> bytes, cached |-> FALSE]
    BY <1>1, <2>1
  <2>3. QED
    BY <2>2
<1>14. \A a \in block'.bytes : Cache!Cached(a) => Cache!PlaceOf(Cache!LineOf(a)) \in P
  <2>1. SUFFICES ASSUME NEW a \in block'.bytes, Cache!Cached(a)
                 PROVE  Cache!PlaceOf(Cache!LineOf(a)) \in P
    OBVIOUS
  <2>2. a \in Cache!Address /\ a \in ptr .. ptr + n - 1
    BY <1>3, <1>5, <1>6, <1>7
  <2>3. Cache!LineOf(a) \in lines
    BY <1>3, <2>2, LoopReaches
  <2>4. QED
    BY <2>1, <2>2, <2>3, HeldIsFound
<1>15. QED
  <2> HIDE DEF m, P
  <2>1. QED
    BY <1>9, <1>10, <1>11, <1>12, <1>13, <1>14, FewerCached

LEMMA DataNext_Inv ==
  ASSUME CacheInv, Cache!DataNext
  PROVE  CacheInv'
<1>1. ASSUME NEW a \in Cache!Address, Cache!Load(a) PROVE CacheInv'
  <2> DEFINE new == [line |-> Cache!LineOf(a), dirty |-> FALSE, data |-> Cache!Filled(a)]
  <2>1. /\ Cache!CachedAccess(a) /\ ~Cache!Cached(a) /\ UNCHANGED block
        /\ mem' = Cache!WrittenBack({Cache!PlaceOf(Cache!LineOf(a))})
        /\ dcache' = [dcache EXCEPT ![Cache!PlaceOf(Cache!LineOf(a))] = new]
    BY <1>1 DEF Cache!Load
  <2>2. new.line = Cache!LineOf(a) /\ new.data = Cache!Filled(a)
    OBVIOUS
  <2> HIDE DEF new
  <2>3. QED
    BY <2>1, <2>2, Fill_Inv
<1>2. ASSUME NEW a \in Cache!Address, NEW v \in Value, Cache!Store(a, v) PROVE CacheInv'
  <2> DEFINE new == [line |-> Cache!LineOf(a), dirty |-> TRUE,
                     data |-> [Cache!Filled(a) EXCEPT ![a % LINE_SIZE] = v]]
  <2>1. /\ Cache!CachedAccess(a) /\ UNCHANGED block
        /\ mem' = IF Cache!Cached(a) THEN mem ELSE Cache!WrittenBack({Cache!PlaceOf(Cache!LineOf(a))})
        /\ dcache' = [dcache EXCEPT ![Cache!PlaceOf(Cache!LineOf(a))] = new]
    BY <1>2 DEF Cache!Store
  <2>2. new.line = Cache!LineOf(a) /\ new.dirty
    OBVIOUS
  <2> HIDE DEF new
  <2>3. QED
    BY <2>1, <2>2, Fill_Inv
<1>3. ASSUME NEW a \in Cache!Address, NEW v \in Value, Cache!StoreMemory(a, v) PROVE CacheInv'
  BY <1>3, StoreMemory_Inv
<1>4. ASSUME NEW r \in Regions,
             Cache!alt_dcache_flush(r[1], r[2]) \/ Cache!alt_dcache_flush_no_writeback(r[1], r[2])
      PROVE  CacheInv'
  <2> DEFINE P == Cache!HoldingPlaces(Cache!LoopLines(r[1], r[2]))
  <2>1. /\ mem' \in {mem, Cache!WrittenBack(P)} /\ UNCHANGED block
        /\ dcache' = Cache!Emptied(dcache, P, Cache!NoLine)
    BY <1>4 DEF Cache!alt_dcache_flush, Cache!alt_dcache_flush_no_writeback, Cache!MemFlushed, Cache!Flushed
  <2> HIDE DEF P
  <2>2. QED
    BY <2>1, Flush_Inv
<1>5. ASSUME Cache!alt_dcache_flush_all PROVE CacheInv'
  <2> DEFINE P == {Cache!PlaceOf(l) : l \in Cache!LoopLines(0, Cache!CACHE_SIZE)}
  <2>1. /\ mem' \in {mem, Cache!WrittenBack(P)} /\ UNCHANGED block
        /\ dcache' = Cache!Emptied(dcache, P, Cache!NoLine)
    BY <1>5 DEF Cache!alt_dcache_flush_all
  <2> HIDE DEF P
  <2>2. QED
    BY <2>1, Flush_Inv
<1>6. ASSUME Cache!alt_remap_cached \/ Cache!alt_uncached_free PROVE CacheInv'
  <2>1. /\ UNCHANGED << mem, dcache >> /\ block'.bytes \in {block.bytes, {}}
        /\ block'.cached \/ block'.bytes = {}
        /\ block' \in [bytes : SUBSET Cache!Address, cached : BOOLEAN]
    <3>1. block \in [bytes : SUBSET Cache!Address, cached : BOOLEAN]
      BY DEF CacheInv, CacheTypes
    <3>2. CASE Cache!alt_remap_cached
      BY <3>1, <3>2 DEF Cache!alt_remap_cached
    <3>3. CASE Cache!alt_uncached_free
      BY <3>3 DEF Cache!alt_uncached_free
    <3>4. QED
      BY <1>6, <3>2, <3>3
  <2>2. CacheTypes'
    BY <2>1 DEF CacheInv, CacheTypes
  <2>3. CleanAsMemory'
    BY <2>1 DEF CacheInv, CleanAsMemory, Cache!Cached, Cache!Holds, Dirty, Cache!View, Cache!ViewOf
  <2>4. WholeLines'
    BY <2>1 DEF CacheInv, WholeLines
  <2>5. Cache!UncachedApart'
    BY <2>1 DEF Cache!UncachedApart
  <2>6. QED
    BY <2>2, <2>3, <2>4, <2>5 DEF CacheInv
<1>7. ASSUME NEW size \in 1 .. 2 * LINE_SIZE, Cache!alt_uncached_malloc(size) PROVE CacheInv'
  BY <1>7, UncachedMalloc_Inv
<1>8. QED
  BY <1>1, <1>2, <1>3, <1>4, <1>5, <1>6, <1>7 DEF Cache!DataNext

LEMMA CacheInit_Inv == Cache!CacheInit => CacheInv
<1> SUFFICES ASSUME Cache!CacheInit PROVE CacheInv
  OBVIOUS
<1>1. CacheTypes
  <2>1. block \in [bytes : SUBSET Cache!Address, cached : BOOLEAN]
    BY DEF Cache!CacheInit
  <2>2. QED
    BY <2>1 DEF Cache!CacheInit, CacheTypes
<1>2. ASSUME NEW a \in Cache!Address PROVE ~Cache!Cached(a)
  <2>1. /\ Cache!PlaceOf(Cache!LineOf(a)) \in Cache!Place /\ Cache!LineOf(a) \in Nat
        /\ Cache!NoLine.line # Cache!LineOf(a)
    BY PlacedAddress DEF Cache!NoLine
  <2>2. QED
    BY <2>1 DEF Cache!CacheInit, Cache!Cached, Cache!Holds
<1>3. QED
  BY <1>1, <1>2 DEF Cache!CacheInit, CacheInv, CleanAsMemory, WholeLines, Cache!UncachedApart

LEMMA Memory_CacheInv ==
  ASSUME CacheInv, [MemoryNext]_<< service, vars, gmonVars, cacheVars >>
  PROVE  CacheInv'
<1>1. CASE Cache!DataNext
  BY <1>1, DataNext_Inv
<1>2. CASE UNCHANGED << mem, dcache, block >>
  BY <1>2 DEF CacheInv, CacheTypes, CleanAsMemory, WholeLines, Cache!UncachedApart,
     Cache!Cached, Cache!Holds, Dirty, Cache!View, Cache!ViewOf
<1>3. Cache!InstructionNext => UNCHANGED << mem, dcache, block >>
  BY DEF Cache!InstructionNext, Cache!Fetch, Cache!alt_icache_flush, Cache!alt_icache_flush_all
<1>4. QED
  BY <1>1, <1>2, <1>3 DEF MemoryNext, cacheVars

\* No instruction of a region flushed keeps its place.
LEMMA InstructionGone ==
  ASSUME NEW start \in Nat, NEW len \in Nat, NEW a \in start .. start + len - 1
  PROVE  Cache!InstructionsFlushed(start, len)[Cache!PlaceOf(Cache!LineOf(a))] # Cache!LineOf(a)
<1> DEFINE p == Cache!PlaceOf(Cache!LineOf(a))
           size == IF len > Cache!CACHE_SIZE THEN Cache!CACHE_SIZE ELSE len
           places == {Cache!PlaceOf(l) : l \in Cache!LoopLines(start, size)}
<1>1. p \in Cache!Place /\ Cache!LineOf(a) \in Nat
  <2>1. a \in Nat
    OBVIOUS
  <2>2. QED
    BY <2>1, AddressLine
<1>2. p \in places
  <2>1. CASE len > Cache!CACHE_SIZE
    BY <1>1, <2>1, LoopReachesAll
  <2>2. CASE ~(len > Cache!CACHE_SIZE)
    <3>1. Cache!LineOf(a) \in Cache!LoopLines(start, len)
      BY LoopReaches
    <3>2. QED
      BY <2>2, <3>1
  <2>3. QED
    BY <2>1, <2>2
<1>3. Cache!InstructionsFlushed(start, len)[p] = -1
  BY <1>1, <1>2 DEF Cache!InstructionsFlushed, Cache!Emptied
<1>4. QED
  BY <1>1, <1>3

LEMMA CacheInv_Implies == CacheInv => CachesFlushed
<1> SUFFICES ASSUME CacheInv PROVE Cache!FlushReachesRegion
  BY DEF CachesFlushed, CacheInv
<1>1. SUFFICES ASSUME NEW r \in Cache!Address \X (0 .. Cache!Size), r[1] + r[2] <= Cache!Size
      PROVE  LET lines == Cache!LoopLines(r[1], r[2])
                 m == Cache!MemFlushed(lines)
                 cache == Cache!Flushed(lines)
             IN /\ \A a \in Cache!Bytes(r) :
                     /\ m[a] = Cache!View(a) /\ ~Cache!Holds(cache, a)
                     /\ Cache!ViewOf(mem, cache, a) = mem[a]
                     /\ Cache!InstructionsFlushed(r[1], r[2])[Cache!PlaceOf(Cache!LineOf(a))] # Cache!LineOf(a)
                /\ \A a \in Cache!Address : Cache!ViewOf(m, cache, a) = Cache!View(a)
  BY DEF Cache!FlushReachesRegion
<1>2. PICK start \in Nat, len \in Nat : start = r[1] /\ len = r[2] /\ start + len <= Cache!Size
  BY <1>1, CacheSizes
<1> DEFINE lines == Cache!LoopLines(start, len)
           P == Cache!HoldingPlaces(lines)
           m == Cache!WrittenBack(P)
           cache == Cache!Emptied(dcache, P, Cache!NoLine)
<1>3. Cache!MemFlushed(lines) = m /\ Cache!Flushed(lines) = cache
  BY DEF Cache!MemFlushed, Cache!Flushed
<1>4. ASSUME NEW a \in Cache!Address
      PROVE  /\ Cache!ViewOf(m, cache, a) = Cache!View(a)
             /\ Cache!PlaceOf(Cache!LineOf(a)) \in P => m[a] = Cache!View(a) /\ ~Cache!Holds(cache, a)
             /\ ~Cache!Cached(a) => m[a] = mem[a] /\ ~Cache!Holds(cache, a)
  <2> HIDE DEF P
  <2>1. QED
    BY FlushedPlaces
<1>5. ASSUME NEW a \in start .. start + len - 1
      PROVE  /\ m[a] = Cache!View(a) /\ ~Cache!Holds(cache, a)
             /\ Cache!ViewOf(mem, cache, a) = mem[a]
             /\ Cache!InstructionsFlushed(start, len)[Cache!PlaceOf(Cache!LineOf(a))] # Cache!LineOf(a)
  <2>1. a \in Cache!Address
    BY <1>2, CacheSizes
  <2>2. Cache!LineOf(a) \in lines
    BY LoopReaches
  <2>3. Cache!Cached(a) => Cache!PlaceOf(Cache!LineOf(a)) \in P
    BY <2>1, <2>2, HeldIsFound
  <2>4. ~Cache!Cached(a) => Cache!View(a) = mem[a]
    BY DEF Cache!View, Cache!ViewOf, Cache!Cached
  <2> HIDE DEF m, cache, P
  <2>5. m[a] = Cache!View(a) /\ ~Cache!Holds(cache, a)
    BY <1>4, <2>1, <2>3, <2>4
  <2>6. Cache!ViewOf(mem, cache, a) = mem[a]
    BY <2>5 DEF Cache!ViewOf
  <2>7. QED
    BY <2>5, <2>6, InstructionGone
<1>6. Cache!Bytes(r) = start .. start + len - 1
  BY <1>2 DEF Cache!Bytes
<1>7. QED
  <2> HIDE DEF m, cache
  <2>1. QED
    BY <1>2, <1>3, <1>4, <1>5, <1>6

\* Whatever the size of a line, of the caches and of the memory, and whatever the
\* program cached before: a flush reaches every line of its region, however that lies
\* in its lines, an uncached block stays out of the cache, and the program goes on
\* seeing what it stored (the alt_dcache_*, alt_icache_* and alt_uncached_* calls).
THEOREM CachesSafety == MemorySpec => []CachesFlushed
<1>1. MemoryInit => CacheInv
  BY CacheInit_Inv DEF MemoryInit
<1>2. CacheInv /\ [MemoryNext]_<< service, vars, gmonVars, cacheVars >> => CacheInv'
  BY Memory_CacheInv
<1>3. CacheInv => CachesFlushed
  BY CacheInv_Implies
<1>4. QED
  BY <1>1, <1>2, <1>3, PTL DEF MemorySpec

----------------------------------------------------------------------------
(* The profiler.  First the sum over a finite set, which the library defines by      *)
(* recursion: two functions that obey its equation are the same, for the smallest    *)
(* set on which they differ would have a smaller one.                                *)
\* A set of numbers that is not empty has a least.
LEMMA LeastNumber ==
  ASSUME NEW T, T \subseteq Nat, T # {}
  PROVE  \E n \in T : \A k \in T : n <= k
<1> DEFINE R == {ss \in Nat \X Nat : ss[1] < ss[2]}
<1>1. IsWellFoundedOn(R, Nat)
  BY NatLessThanWellFounded, Zenon DEF OpToRel
<1>2. PICK n \in T : \A k \in T : ~(<< k, n >> \in R)
  <2> HIDE DEF R
  <2>1. QED
    BY <1>1, WFMin
<1>3. ASSUME NEW k \in T PROVE n <= k
  <2>1. n \in Nat /\ k \in Nat /\ ~(<< k, n >> \in R)
    BY <1>2
  <2>2. QED
    BY <2>1
<1>4. QED
  BY <1>3

\* A family of finite sets that is not empty has one of the fewest members.
LEMMA FewestMembers ==
  ASSUME NEW S, IsFiniteSet(S), NEW F, F \subseteq SUBSET S, F # {}
  PROVE  \E T \in F : \A U \in F : Cardinality(T) <= Cardinality(U)
<1> DEFINE N == {Cardinality(T) : T \in F}
<1>1. \A T \in F : IsFiniteSet(T) /\ Cardinality(T) \in Nat
  BY FS_Subset, FS_CardinalityType
<1>2. N \subseteq Nat /\ N # {}
  BY <1>1
<1>3. PICK n \in N : \A k \in N : n <= k
  <2> HIDE DEF N
  <2>1. QED
    BY <1>2, LeastNumber
<1>4. QED
  BY <1>3

\* The sums of w over the subsets of S: as one, however a subset is counted.
Sums(g, S, w) ==
  /\ g \in [SUBSET S -> Int] /\ g[{}] = 0
  /\ \A s \in SUBSET S : \A x \in s : g[s] = w[x] + g[s \ {x}]

\* Sums over the subsets of a set give those of a set with one element more.
LEMMA SumsExtend ==
  ASSUME NEW S, NEW x, x \notin S, NEW w \in [S \cup {x} -> Int], NEW g, Sums(g, S, w)
  PROVE  Sums([s \in SUBSET (S \cup {x}) |-> IF x \in s THEN w[x] + g[s \ {x}] ELSE g[s]], S \cup {x}, w)
<1> DEFINE h == [s \in SUBSET (S \cup {x}) |-> IF x \in s THEN w[x] + g[s \ {x}] ELSE g[s]]
<1>1. \A s \in SUBSET (S \cup {x}) : s \ {x} \in SUBSET S /\ (x \notin s => s \in SUBSET S)
  OBVIOUS
<1>2. w[x] \in Int /\ \A s \in SUBSET S : g[s] \in Int
  BY DEF Sums
<1>3. h \in [SUBSET (S \cup {x}) -> Int]
  BY <1>1, <1>2
<1>4. h[{}] = 0
  BY DEF Sums
<1>5. ASSUME NEW s \in SUBSET (S \cup {x}), NEW y \in s
      PROVE  h[s] = w[y] + h[s \ {y}]
  <2>1. s \ {y} \in SUBSET (S \cup {x}) /\ y \in S \cup {x} /\ w[y] \in Int
    OBVIOUS
  <2>2. CASE y = x
    <3>1. h[s] = w[x] + g[s \ {x}]
      BY <2>2
    <3>2. h[s \ {y}] = g[s \ {x}]
      BY <2>1, <2>2
    <3>3. QED
      BY <2>2, <3>1, <3>2
  <2>3. CASE y # x /\ x \in s
    <3>1. h[s] = w[x] + g[s \ {x}]
      BY <2>3
    <3>2. h[s \ {y}] = w[x] + g[(s \ {y}) \ {x}]
      BY <2>1, <2>3
    <3>3. (s \ {y}) \ {x} = (s \ {x}) \ {y} /\ y \in s \ {x} /\ s \ {x} \in SUBSET S
      BY <2>3
    <3>4. g[s \ {x}] = w[y] + g[(s \ {x}) \ {y}]
      BY <3>3 DEF Sums
    <3>5. (s \ {x}) \ {y} \in SUBSET S
      BY <3>3
    <3>6. PICK a \in Int, b \in Int, c \in Int : a = w[x] /\ b = w[y] /\ c = g[(s \ {x}) \ {y}]
      BY <1>2, <2>1, <3>5
    <3>7. h[s] = a + (b + c)
      BY <3>1, <3>4, <3>6
    <3>8. h[s \ {y}] = a + c
      BY <3>2, <3>3, <3>6
    <3> HIDE DEF h
    <3>9. QED
      BY <3>6, <3>7, <3>8
  <2>4. CASE x \notin s
    <3>1. s \in SUBSET S /\ s \ {y} \in SUBSET S /\ x \notin s \ {y}
      BY <2>4
    <3>2. g[s] = w[y] + g[s \ {y}]
      BY <3>1 DEF Sums
    <3>3. QED
      BY <2>1, <2>4, <3>1, <3>2
  <2>5. QED
    BY <2>2, <2>3, <2>4
<1>6. QED
  <2> HIDE DEF h
  <2>1. QED
    BY <1>3, <1>4, <1>5 DEF Sums, h

\* Every finite set has such sums: one without would be the extension of a smaller one.
LEMMA SumsExist ==
  ASSUME NEW S, IsFiniteSet(S), NEW w \in [S -> Int]
  PROVE  \E g : Sums(g, S, w)
<1> DEFINE None == {T \in SUBSET S : ~\E g : Sums(g, T, w)}
<1>1. SUFFICES ASSUME None # {} PROVE FALSE
  OBVIOUS
<1>2. PICK T \in None : \A U \in None : Cardinality(T) <= Cardinality(U)
  <2>1. None \subseteq SUBSET S
    OBVIOUS
  <2> HIDE DEF None
  <2>2. QED
    BY <1>1, <2>1, FewestMembers
<1>3. T \in SUBSET S /\ IsFiniteSet(T) /\ Cardinality(T) \in Nat
  BY FS_Subset, FS_CardinalityType
<1>4. CASE T = {}
  <2> DEFINE g == [s \in SUBSET {} |-> 0]
  <2>1. Sums(g, {}, w)
    BY DEF Sums
  <2>2. QED
    BY <1>4, <2>1
<1>5. CASE T # {}
  <2>1. PICK x \in T : TRUE
    BY <1>5
  <2> DEFINE U == T \ {x}
  <2>2. Cardinality(U) = Cardinality(T) - 1
    BY <1>3, <2>1, FS_RemoveElement
  <2>3. U \in SUBSET S /\ U \notin None
    BY <1>2, <1>3, <2>2
  <2>4. PICK g : Sums(g, U, w)
    BY <2>3
  <2>5. U \cup {x} = T /\ x \notin U
    BY <2>1
  <2> DEFINE v == [y \in U \cup {x} |-> w[y]]
             h == [s \in SUBSET (U \cup {x}) |-> IF x \in s THEN v[x] + g[s \ {x}] ELSE g[s]]
  <2>6. v \in [U \cup {x} -> Int] /\ \A y \in T : v[y] = w[y]
    BY <1>3, <2>5
  <2>7. Sums(g, U, v)
    BY <2>4, <2>6 DEF Sums
  <2>8. Sums(h, U \cup {x}, v)
    <3> HIDE DEF U, v
    <3>1. QED
      BY <2>5, <2>6, <2>7, SumsExtend
  <2> HIDE DEF U, v, h
  <2>9. Sums(h, T, w)
    BY <2>5, <2>6, <2>8 DEF Sums
  <2>10. QED
    BY <2>9
<1>6. QED
  BY <1>4, <1>5

\* The library's sum, of the counts of places in the lists, is the one of these.
SumOver(list, S) == Gmon!MapThenSumSet(LAMBDA c : list[c[1]].arcs[c[2]].count, S)

\* The library's sum of the counts is any function that obeys its equation.
LEMMA SumIs ==
  ASSUME NEW list, NEW S, IsFiniteSet(S), NEW w \in [S -> Int],
         \A c \in S : list[c[1]].arcs[c[2]].count = w[c], NEW g, Sums(g, S, w)
  PROVE  SumOver(list, S) = g[S]
<1> DEFINE Choice(s) == CHOOSE x \in s : TRUE
           Val(c) == list[c[1]].arcs[c[2]].count
           Rec(h) == h = [s \in SUBSET S |-> IF s = {} THEN 0 ELSE Val(Choice(s)) + h[s \ {Choice(s)}]]
           iter == CHOOSE h : Rec(h)
<1>1. SumOver(list, S) = iter[S]
  BY DEF SumOver, Gmon!MapThenSumSet, Gmon!MapThenFoldSet
<1>2. Rec(g)
  <2>1. ASSUME NEW s \in SUBSET S
        PROVE  g[s] = IF s = {} THEN 0 ELSE Val(Choice(s)) + g[s \ {Choice(s)}]
    <3>1. s # {} => Choice(s) \in s
      OBVIOUS
    <3> HIDE DEF Choice
    <3>2. CASE s = {}
      BY <3>2 DEF Sums
    <3>3. CASE s # {}
      <4>1. Choice(s) \in s /\ Choice(s) \in S
        BY <3>1, <3>3
      <4>2. g[s] = w[Choice(s)] + g[s \ {Choice(s)}]
        BY <4>1 DEF Sums
      <4>3. Val(Choice(s)) = w[Choice(s)]
        BY <4>1
      <4>4. QED
        BY <3>3, <4>2, <4>3
    <3>4. QED
      BY <3>2, <3>3
  <2>2. g \in [SUBSET S -> Int]
    BY DEF Sums
  <2> HIDE DEF Choice, Val
  <2>3. QED
    BY <2>1, <2>2
<1>3. Rec(iter)
  <2> HIDE DEF Rec
  <2>1. QED
    BY <1>2
<1>4. ASSUME NEW h, Rec(h) PROVE h = g
  <2> DEFINE Differ == {s \in SUBSET S : h[s] # g[s]}
  <2>1. SUFFICES ASSUME Differ # {} PROVE FALSE
    <3> HIDE DEF Choice, Val
    <3>1. h = [s \in SUBSET S |-> h[s]]
      BY <1>4
    <3>2. g = [s \in SUBSET S |-> g[s]]
      BY DEF Sums
    <3>3. QED
      BY <3>1, <3>2
  <2>2. PICK s \in Differ : \A t \in Differ : Cardinality(s) <= Cardinality(t)
    <3>1. Differ \subseteq SUBSET S
      OBVIOUS
    <3> HIDE DEF Differ
    <3>2. QED
      BY <2>1, <3>1, FewestMembers
  <2>3. s \in SUBSET S /\ h[s] # g[s]
    OBVIOUS
  <2>4. IsFiniteSet(s) /\ Cardinality(s) \in Nat
    BY <2>3, FS_Subset, FS_CardinalityType
  <2> HIDE DEF Choice, Val
  <2>5. /\ h[s] = IF s = {} THEN 0 ELSE Val(Choice(s)) + h[s \ {Choice(s)}]
        /\ g[s] = IF s = {} THEN 0 ELSE Val(Choice(s)) + g[s \ {Choice(s)}]
    BY <1>2, <1>4, <2>3
  <2>6. s # {}
    BY <2>3, <2>5
  <2>7. Choice(s) \in s
    BY <2>6 DEF Choice
  <2>8. s \ {Choice(s)} \in SUBSET S /\ Cardinality(s \ {Choice(s)}) = Cardinality(s) - 1
    BY <2>3, <2>4, <2>7, FS_RemoveElement
  <2>9. s \ {Choice(s)} \notin Differ
    BY <2>2, <2>4, <2>8
  <2>10. QED
    BY <2>3, <2>5, <2>6, <2>8, <2>9
<1>5. QED
  BY <1>1, <1>3, <1>4

----------------------------------------------------------------------------
(* The lists of the profile: what they are, and the copies of an arc in them. *)
ArcEntry == [from : Function, count : Nat]
FnEntry == [self : Function, arcs : Seq(ArcEntry)]
ListOK(list) == list \in Seq(FnEntry) /\ \A k \in 1 .. Len(list) : list[k].arcs # << >>

HasPlace(list, k, j) == k \in 1 .. Len(list) /\ j \in 1 .. Len(list[k].arcs)
CopiesIn(list, arc) ==
  UNION {{k} \X {j \in DOMAIN list[k].arcs : list[k].arcs[j].from = arc[2]} :
           k \in {f \in DOMAIN list : list[f].self = arc[1]}}
CountIn(list, arc) == SumOver(list, CopiesIn(list, arc))

\* The second list is the first with one more call of the arc counted, where there was a
\* copy or in a new one; nothing of the first is gone.
CountsOne(list, t, arc) ==
  /\ ListOK(t) /\ Len(list) <= Len(t)
  /\ \A k \in 1 .. Len(list) :
       /\ t[k].self = list[k].self /\ Len(list[k].arcs) <= Len(t[k].arcs)
       /\ \A j \in 1 .. Len(list[k].arcs) :
            /\ t[k].arcs[j].from = list[k].arcs[j].from
            /\ \/ t[k].arcs[j].count = list[k].arcs[j].count
               \/ /\ t[k].arcs[j].count = list[k].arcs[j].count + 1
                  /\ arc = << list[k].self, list[k].arcs[j].from >>
  /\ \A other \in Gmon!Arc :
       /\ IsFiniteSet(CopiesIn(t, other)) /\ CopiesIn(list, other) \subseteq CopiesIn(t, other)
       /\ CountIn(t, other) = CountIn(list, other) + (IF other = arc THEN 1 ELSE 0)
  /\ CopiesIn(t, arc) # {}

\* A sum is the count of any one of its places and the sum of the others,
LEMMA SumRemove ==
  ASSUME NEW list, NEW S, IsFiniteSet(S), \A c \in S : list[c[1]].arcs[c[2]].count \in Int
  PROVE  /\ SumOver(list, S) \in Int /\ SumOver(list, {}) = 0
         /\ \A c \in S : SumOver(list, S) = list[c[1]].arcs[c[2]].count + SumOver(list, S \ {c})
<1> DEFINE w == [c \in S |-> list[c[1]].arcs[c[2]].count]
<1>1. w \in [S -> Int] /\ \A c \in S : list[c[1]].arcs[c[2]].count = w[c]
  OBVIOUS
<1> HIDE DEF w
<1>2. PICK g : Sums(g, S, w)
  BY <1>1, SumsExist
<1>3. ASSUME NEW T \in SUBSET S PROVE SumOver(list, T) = g[T]
  <2> DEFINE v == [c \in T |-> w[c]]
             h == [s \in SUBSET T |-> g[s]]
  <2>1. v \in [T -> Int] /\ \A c \in T : list[c[1]].arcs[c[2]].count = v[c]
    BY <1>1
  <2>2. h \in [SUBSET T -> Int] /\ h[{}] = 0
    BY <1>2 DEF Sums
  <2>3. ASSUME NEW s \in SUBSET T, NEW x \in s PROVE h[s] = v[x] + h[s \ {x}]
    <3>1. s \in SUBSET S /\ s \ {x} \in SUBSET T /\ v[x] = w[x]
      OBVIOUS
    <3>2. g[s] = w[x] + g[s \ {x}]
      BY <1>2, <3>1 DEF Sums
    <3>3. QED
      BY <3>1, <3>2
  <2>4. IsFiniteSet(T)
    BY FS_Subset
  <2>5. h[T] = g[T]
    OBVIOUS
  <2> HIDE DEF v, h
  <2>6. Sums(h, T, v)
    BY <2>2, <2>3 DEF Sums
  <2>7. QED
    BY <2>1, <2>4, <2>5, <2>6, SumIs
<1>4. \A c \in S : g[S] = list[c[1]].arcs[c[2]].count + g[S \ {c}]
  BY <1>1, <1>2 DEF Sums
<1>5. g[S] \in Int /\ g[{}] = 0
  BY <1>2 DEF Sums
<1>6. QED
  BY <1>3, <1>4, <1>5

\* of a place given.
Countable(list, S) == IsFiniteSet(S) /\ \A c \in S : list[c[1]].arcs[c[2]].count \in Int
LEMMA SumMinus ==
  ASSUME NEW list, NEW S, Countable(list, S), NEW x \in S
  PROVE  SumOver(list, S) = list[x[1]].arcs[x[2]].count + SumOver(list, S \ {x})
<1>1. IsFiniteSet(S) /\ \A c \in S : list[c[1]].arcs[c[2]].count \in Int
  BY DEF Countable
<1>2. \A c \in S : SumOver(list, S) = list[c[1]].arcs[c[2]].count + SumOver(list, S \ {c})
  BY <1>1, SumRemove
<1>3. QED
  BY <1>2

\* The same of every place at once.
MinusEach(list, S) ==
  \A x \in S : SumOver(list, S) = list[x[1]].arcs[x[2]].count + SumOver(list, S \ {x})
LEMMA SumMinusEach ==
  ASSUME NEW list, NEW S, Countable(list, S)
  PROVE  MinusEach(list, S)
BY SumMinus DEF MinusEach

\* Lists with the same counts in those places have the same sum.
LEMMA SumSame ==
  ASSUME NEW list, NEW t, NEW S, IsFiniteSet(S), \A c \in S : list[c[1]].arcs[c[2]].count \in Int,
         \A c \in S : t[c[1]].arcs[c[2]].count = list[c[1]].arcs[c[2]].count
  PROVE  SumOver(t, S) = SumOver(list, S)
<1> DEFINE w == [c \in S |-> list[c[1]].arcs[c[2]].count]
<1>1. /\ w \in [S -> Int] /\ \A c \in S : list[c[1]].arcs[c[2]].count = w[c]
      /\ \A c \in S : t[c[1]].arcs[c[2]].count = w[c]
  OBVIOUS
<1> HIDE DEF w
<1>2. PICK g : Sums(g, S, w)
  BY <1>1, SumsExist
<1>3. SumOver(list, S) = g[S] /\ SumOver(t, S) = g[S]
  BY <1>1, <1>2, SumIs
<1>4. QED
  BY <1>3

\* A copy of an arc is a place in the list of a function, with the arc's two addresses.
LEMMA CopiesAre ==
  ASSUME NEW list, ListOK(list), NEW arc
  PROVE  \A c : c \in CopiesIn(list, arc) <=>
                  \E k, j \in Nat : /\ c = << k, j >> /\ HasPlace(list, k, j)
                                    /\ list[k].self = arc[1] /\ list[k].arcs[j].from = arc[2]
<1>1. DOMAIN list = 1 .. Len(list) /\ Len(list) \in Nat
  BY LenProperties DEF ListOK
<1>2. ASSUME NEW k \in 1 .. Len(list)
      PROVE  DOMAIN list[k].arcs = 1 .. Len(list[k].arcs) /\ Len(list[k].arcs) \in Nat
  BY LenProperties, ElementOfSeq DEF ListOK, FnEntry
<1>3. ASSUME NEW c, c \in CopiesIn(list, arc)
      PROVE  \E k, j \in Nat : /\ c = << k, j >> /\ HasPlace(list, k, j)
                               /\ list[k].self = arc[1] /\ list[k].arcs[j].from = arc[2]
  <2>1. PICK k \in {f \in DOMAIN list : list[f].self = arc[1]} :
               c \in {k} \X {j \in DOMAIN list[k].arcs : list[k].arcs[j].from = arc[2]}
    BY <1>3 DEF CopiesIn
  <2>2. PICK j \in DOMAIN list[k].arcs : c = << k, j >> /\ list[k].arcs[j].from = arc[2]
    BY <2>1
  <2>3. k \in 1 .. Len(list) /\ k \in Nat
    BY <1>1
  <2>4. j \in 1 .. Len(list[k].arcs) /\ j \in Nat
    BY <1>2, <2>3
  <2>5. QED
    BY <2>1, <2>2, <2>3, <2>4 DEF HasPlace
<1>4. ASSUME NEW c, NEW k \in Nat, NEW j \in Nat, c = << k, j >>, HasPlace(list, k, j),
             list[k].self = arc[1], list[k].arcs[j].from = arc[2]
      PROVE  c \in CopiesIn(list, arc)
  <2>1. k \in {f \in DOMAIN list : list[f].self = arc[1]}
    BY <1>1, <1>4 DEF HasPlace
  <2>2. c \in {k} \X {i \in DOMAIN list[k].arcs : list[k].arcs[i].from = arc[2]}
    BY <1>2, <1>4 DEF HasPlace
  <2>3. QED
    BY <2>1, <2>2 DEF CopiesIn
<1>5. QED
  BY <1>3, <1>4

\* An entry of the lists is what its type says.
LEMMA EntryType ==
  ASSUME NEW list, ListOK(list), NEW k \in 1 .. Len(list)
  PROVE  /\ list[k] \in FnEntry /\ list[k].self \in Function /\ list[k].arcs \in Seq(ArcEntry)
         /\ Len(list[k].arcs) \in Nat /\ Len(list[k].arcs) >= 1
         /\ \A j \in 1 .. Len(list[k].arcs) :
              /\ list[k].arcs[j] \in ArcEntry /\ list[k].arcs[j].from \in Function
              /\ list[k].arcs[j].count \in Nat
<1>1. list[k] \in FnEntry /\ list[k].arcs # << >>
  BY ElementOfSeq DEF ListOK
<1>2. list[k].self \in Function /\ list[k].arcs \in Seq(ArcEntry)
  BY <1>1 DEF FnEntry
<1>3. Len(list[k].arcs) \in Nat /\ Len(list[k].arcs) >= 1
  BY <1>1, <1>2, EmptySeq
<1>4. \A j \in 1 .. Len(list[k].arcs) : list[k].arcs[j] \in ArcEntry
  BY <1>2, ElementOfSeq
<1>5. QED
  BY <1>1, <1>2, <1>3, <1>4 DEF ArcEntry

\* Counts are numbers.
LEMMA CountTypes ==
  ASSUME NEW list, ListOK(list), NEW arc
  PROVE  \A c \in CopiesIn(list, arc) : list[c[1]].arcs[c[2]].count \in Nat
<1>1. SUFFICES ASSUME NEW c \in CopiesIn(list, arc) PROVE list[c[1]].arcs[c[2]].count \in Nat
  OBVIOUS
<1>2. PICK k \in Nat, j \in Nat : c = << k, j >> /\ HasPlace(list, k, j)
  BY CopiesAre
<1>3. list[k].arcs[j].count \in Nat
  BY <1>2, EntryType DEF HasPlace
<1>4. QED
  BY <1>2, <1>3

\* Another value for the count of one place.
Counting(list, k, j, v) == [list EXCEPT ![k].arcs[j].count = v]

OnlyCount(list, t, k, j, v) ==
  /\ ListOK(t) /\ Len(t) = Len(list)
  /\ \A i \in 1 .. Len(list) :
       /\ t[i].self = list[i].self /\ Len(t[i].arcs) = Len(list[i].arcs)
       /\ \A m \in 1 .. Len(list[i].arcs) :
            /\ t[i].arcs[m].from = list[i].arcs[m].from
            /\ t[i].arcs[m].count = IF i = k /\ m = j THEN v ELSE list[i].arcs[m].count

\* Nothing else changes with the count of a place.
LEMMA SetCount ==
  ASSUME NEW list, ListOK(list), NEW k \in Nat, NEW j \in Nat, HasPlace(list, k, j), NEW v \in Nat
  PROVE  OnlyCount(list, Counting(list, k, j, v), k, j, v)
<1> DEFINE t == Counting(list, k, j, v)
<1>1. k \in 1 .. Len(list) /\ j \in 1 .. Len(list[k].arcs) /\ list \in Seq(FnEntry)
  BY DEF HasPlace, ListOK
<1>2. list[k] \in FnEntry /\ list[k].self \in Function /\ list[k].arcs \in Seq(ArcEntry)
  BY <1>1, EntryType
<1>3. list[k].arcs[j] \in ArcEntry
  BY <1>1, EntryType
<1> DEFINE entry == [list[k].arcs[j] EXCEPT !.count = v]
           row == [list[k].arcs EXCEPT ![j] = entry]
           fn == [list[k] EXCEPT !.arcs = row]
<1>4. entry \in ArcEntry /\ entry.from = list[k].arcs[j].from /\ entry.count = v
  BY <1>3 DEF ArcEntry
<1>5. t = [list EXCEPT ![k] = fn]
  BY DEF Counting
<1> HIDE DEF entry, t
<1>6. /\ row \in Seq(ArcEntry) /\ Len(row) = Len(list[k].arcs)
      /\ \A m \in 1 .. Len(list[k].arcs) : row[m] = IF m = j THEN entry ELSE list[k].arcs[m]
  BY <1>1, <1>2, <1>4, ExceptSeq
<1> HIDE DEF row
<1>7. fn \in FnEntry /\ fn.self = list[k].self /\ fn.arcs = row
  BY <1>2, <1>6 DEF FnEntry
<1> HIDE DEF fn
<1>8. /\ t \in Seq(FnEntry) /\ Len(t) = Len(list)
      /\ \A i \in 1 .. Len(list) : t[i] = IF i = k THEN fn ELSE list[i]
  <2>1. /\ [list EXCEPT ![k] = fn] \in Seq(FnEntry) /\ Len([list EXCEPT ![k] = fn]) = Len(list)
        /\ \A i \in 1 .. Len(list) : [list EXCEPT ![k] = fn][i] = IF i = k THEN fn ELSE list[i]
    BY <1>1, <1>7, ExceptSeq
  <2>2. QED
    BY <1>5, <2>1
<1>9. \A i \in 1 .. Len(list) :
        /\ t[i].self = list[i].self /\ Len(t[i].arcs) = Len(list[i].arcs)
        /\ \A m \in 1 .. Len(list[i].arcs) :
             /\ t[i].arcs[m].from = list[i].arcs[m].from
             /\ t[i].arcs[m].count = IF i = k /\ m = j THEN v ELSE list[i].arcs[m].count
  BY <1>4, <1>6, <1>7, <1>8
<1>10. \A i \in 1 .. Len(t) : t[i].arcs # << >>
  <2>1. SUFFICES ASSUME NEW i \in 1 .. Len(list) PROVE t[i].arcs # << >>
    BY <1>8
  <2>2. Len(t[i].arcs) >= 1
    BY <1>9, EntryType
  <2>3. QED
    BY <2>2, EmptySeq
<1>11. QED
  BY <1>8, <1>9, <1>10 DEF ListOK, t, OnlyCount

\* The sums when one count changes.
LEMMA CountChanges ==
  ASSUME NEW list, ListOK(list), NEW k \in Nat, NEW j \in Nat, HasPlace(list, k, j), NEW v \in Nat,
         NEW arc, IsFiniteSet(CopiesIn(list, arc))
  PROVE  LET t == Counting(list, k, j, v) IN
         /\ CopiesIn(t, arc) = CopiesIn(list, arc)
         /\ CountIn(list, arc) \in Int /\ CountIn(t, arc) \in Int
         /\ CountIn(t, arc) = CountIn(list, arc)
              + (IF list[k].self = arc[1] /\ list[k].arcs[j].from = arc[2]
                 THEN v - list[k].arcs[j].count ELSE 0)
<1> DEFINE t == Counting(list, k, j, v)
<1>0. OnlyCount(list, t, k, j, v)
  BY SetCount
<1> HIDE DEF t
<1>1. /\ ListOK(t) /\ Len(t) = Len(list)
      /\ \A i \in 1 .. Len(list) :
           /\ t[i].self = list[i].self /\ Len(t[i].arcs) = Len(list[i].arcs)
           /\ \A m \in 1 .. Len(list[i].arcs) :
                /\ t[i].arcs[m].from = list[i].arcs[m].from
                /\ t[i].arcs[m].count = IF i = k /\ m = j THEN v ELSE list[i].arcs[m].count
  BY <1>0 DEF OnlyCount
<1>2. \A i, m \in Nat : HasPlace(t, i, m) <=> HasPlace(list, i, m)
  BY <1>1 DEF HasPlace
<1>3. CopiesIn(t, arc) = CopiesIn(list, arc)
  <2>1. \A i, m \in Nat : HasPlace(list, i, m) =>
          t[i].self = list[i].self /\ t[i].arcs[m].from = list[i].arcs[m].from
    BY <1>1 DEF HasPlace
  <2>2. ASSUME NEW c \in CopiesIn(t, arc) PROVE c \in CopiesIn(list, arc)
    <3>1. PICK i \in Nat, m \in Nat : /\ c = << i, m >> /\ HasPlace(t, i, m)
                                     /\ t[i].self = arc[1] /\ t[i].arcs[m].from = arc[2]
      BY <1>1, CopiesAre
    <3>2. HasPlace(list, i, m) /\ list[i].self = arc[1] /\ list[i].arcs[m].from = arc[2]
      BY <1>2, <2>1, <3>1
    <3>3. QED
      BY <3>1, <3>2, CopiesAre
  <2>3. ASSUME NEW c \in CopiesIn(list, arc) PROVE c \in CopiesIn(t, arc)
    <3>1. PICK i \in Nat, m \in Nat : /\ c = << i, m >> /\ HasPlace(list, i, m)
                                     /\ list[i].self = arc[1] /\ list[i].arcs[m].from = arc[2]
      BY CopiesAre
    <3>2. HasPlace(t, i, m) /\ t[i].self = arc[1] /\ t[i].arcs[m].from = arc[2]
      BY <1>2, <2>1, <3>1
    <3>3. QED
      BY <1>1, <3>1, <3>2, CopiesAre
  <2>4. QED
    BY <2>2, <2>3
<1> DEFINE S == CopiesIn(list, arc)
           c0 == << k, j >>
<1>4. /\ \A c \in S : list[c[1]].arcs[c[2]].count \in Int
      /\ \A c \in S : t[c[1]].arcs[c[2]].count \in Int
  BY <1>1, <1>3, CountTypes
<1>5. SumOver(list, S) \in Int /\ SumOver(t, S) \in Int
  BY <1>4, SumRemove
<1>6. \A c \in S : c # c0 => t[c[1]].arcs[c[2]].count = list[c[1]].arcs[c[2]].count
  <2>1. SUFFICES ASSUME NEW c \in S, c # c0
                 PROVE  t[c[1]].arcs[c[2]].count = list[c[1]].arcs[c[2]].count
    OBVIOUS
  <2>2. PICK i \in Nat, m \in Nat : c = << i, m >> /\ HasPlace(list, i, m)
    BY CopiesAre
  <2>3. ~(i = k /\ m = j)
    BY <2>1, <2>2
  <2>4. t[i].arcs[m].count = list[i].arcs[m].count
    BY <1>1, <2>2, <2>3 DEF HasPlace
  <2>5. QED
    BY <2>2, <2>4
<1>7. c0 \in S <=> list[k].self = arc[1] /\ list[k].arcs[j].from = arc[2]
  BY CopiesAre
<1>11. CountIn(t, arc) = SumOver(t, S) /\ CountIn(list, arc) = SumOver(list, S)
  BY <1>3 DEF CountIn
<1>8. CASE c0 \in S
  <2>1. S \ {c0} \in SUBSET S /\ IsFiniteSet(S \ {c0})
    BY FS_Subset
  <2>2. SumOver(t, S \ {c0}) = SumOver(list, S \ {c0})
    <3>1. \A c \in S \ {c0} : /\ list[c[1]].arcs[c[2]].count \in Int
                              /\ t[c[1]].arcs[c[2]].count = list[c[1]].arcs[c[2]].count
      BY <1>4, <1>6
    <3>2. QED
      BY <2>1, <3>1, SumSame
  <2>3. /\ SumOver(list, S) = list[k].arcs[j].count + SumOver(list, S \ {c0})
        /\ SumOver(t, S) = t[k].arcs[j].count + SumOver(t, S \ {c0})
    <3>1. PICK c \in S : c = c0
      BY <1>8
    <3>0. Countable(list, S) /\ Countable(t, S)
      BY <1>4 DEF Countable
    <3>2. SumOver(list, S) = list[c[1]].arcs[c[2]].count + SumOver(list, S \ {c})
      <4> HIDE DEF S, t
      <4>1. QED
        BY <3>0, SumMinus
    <3>5. SumOver(t, S) = t[c[1]].arcs[c[2]].count + SumOver(t, S \ {c})
      <4> HIDE DEF S, t
      <4>1. QED
        BY <3>0, SumMinus
    <3>3. c[1] = k /\ c[2] = j
      BY <3>1
    <3>4. QED
      BY <3>1, <3>2, <3>3, <3>5
  <2>4. t[k].arcs[j].count = v /\ list[k].arcs[j].count \in Nat
    BY <1>1, EntryType DEF HasPlace
  <2>5. SumOver(list, S \ {c0}) \in Int
    BY <1>4, <2>1, SumRemove
  <2>6. QED
    <3> HIDE DEF S, c0
    <3>1. PICK a \in Int, b \in Nat : a = SumOver(list, S \ {c0}) /\ b = list[k].arcs[j].count
      BY <2>4, <2>5
    <3>2. CountIn(list, arc) = b + a /\ CountIn(t, arc) = v + a
      BY <1>11, <2>2, <2>3, <2>4, <3>1
    <3>3. CountIn(t, arc) = CountIn(list, arc) + (v - list[k].arcs[j].count)
      BY <3>1, <3>2
    <3>4. list[k].self = arc[1] /\ list[k].arcs[j].from = arc[2]
      BY <1>7, <1>8
    <3>5. QED
      BY <1>11, <1>3, <1>5, <3>3, <3>4 DEF t
<1>9. CASE c0 \notin S
  <2>1. \A c \in S : t[c[1]].arcs[c[2]].count = list[c[1]].arcs[c[2]].count
    BY <1>6, <1>9
  <2>2. SumOver(t, S) = SumOver(list, S)
    BY <1>4, <2>1, SumSame
  <2>3. QED
    <3> HIDE DEF S, c0
    <3>1. ~(list[k].self = arc[1] /\ list[k].arcs[j].from = arc[2])
      BY <1>7, <1>9
    <3>2. QED
      BY <1>11, <1>3, <1>5, <2>2, <3>1 DEF t
<1>10. QED
  BY <1>8, <1>9 DEF t

\* An arc counted again.
LEMMA CountsAgain ==
  ASSUME NEW list, ListOK(list), NEW k \in Nat, NEW j \in Nat, HasPlace(list, k, j),
         \A other \in Gmon!Arc : IsFiniteSet(CopiesIn(list, other))
  PROVE  CountsOne(list, [list EXCEPT ![k].arcs[j].count = @ + 1], << list[k].self, list[k].arcs[j].from >>)
<1> DEFINE v == list[k].arcs[j].count + 1
           t == Counting(list, k, j, v)
           arc == << list[k].self, list[k].arcs[j].from >>
<1>1. /\ v \in Nat /\ list[k].arcs[j].count \in Nat /\ k \in 1 .. Len(list)
      /\ list[k].self \in Function /\ list[k].arcs[j].from \in Function
  BY EntryType DEF HasPlace
<1>2. [list EXCEPT ![k].arcs[j].count = @ + 1] = t
  BY DEF Counting
<1>3. PICK w \in Nat : w = v
  BY <1>1
<1>4. t = Counting(list, k, j, w)
  BY <1>3
<1> HIDE DEF t, v
<1>0. OnlyCount(list, t, k, j, w)
  BY <1>4, SetCount
<1>5. /\ ListOK(t) /\ Len(t) = Len(list)
      /\ \A i \in 1 .. Len(list) :
           /\ t[i].self = list[i].self /\ Len(t[i].arcs) = Len(list[i].arcs)
           /\ \A m \in 1 .. Len(list[i].arcs) :
                /\ t[i].arcs[m].from = list[i].arcs[m].from
                /\ t[i].arcs[m].count = IF i = k /\ m = j THEN w ELSE list[i].arcs[m].count
  BY <1>0 DEF OnlyCount
<1>6. \A i \in 1 .. Len(list) :
        /\ t[i].self = list[i].self /\ Len(list[i].arcs) <= Len(t[i].arcs)
        /\ \A m \in 1 .. Len(list[i].arcs) :
             /\ t[i].arcs[m].from = list[i].arcs[m].from
             /\ \/ t[i].arcs[m].count = list[i].arcs[m].count
                \/ /\ t[i].arcs[m].count = list[i].arcs[m].count + 1
                   /\ arc = << list[i].self, list[i].arcs[m].from >>
  BY <1>3, <1>5, EntryType DEF v
<1>7. ASSUME NEW other \in Gmon!Arc
      PROVE  /\ IsFiniteSet(CopiesIn(t, other)) /\ CopiesIn(list, other) \subseteq CopiesIn(t, other)
             /\ CountIn(t, other) = CountIn(list, other) + (IF other = arc THEN 1 ELSE 0)
  <2>1. IsFiniteSet(CopiesIn(list, other))
    OBVIOUS
  <2>2. /\ CopiesIn(t, other) = CopiesIn(list, other)
        /\ CountIn(list, other) \in Int /\ CountIn(t, other) \in Int
        /\ CountIn(t, other) = CountIn(list, other)
             + (IF list[k].self = other[1] /\ list[k].arcs[j].from = other[2]
                THEN w - list[k].arcs[j].count ELSE 0)
    BY <1>4, <2>1, CountChanges
  <2>3. other = arc <=> list[k].self = other[1] /\ list[k].arcs[j].from = other[2]
    BY DEF Gmon!Arc
  <2>4. w - list[k].arcs[j].count = 1
    BY <1>1, <1>3 DEF v
  <2>5. QED
    BY <2>1, <2>2, <2>3, <2>4
<1>8. CopiesIn(t, arc) # {}
  <2>1. << k, j >> \in CopiesIn(list, arc)
    BY CopiesAre
  <2>2. arc \in Gmon!Arc
    BY <1>1 DEF Gmon!Arc
  <2>3. QED
    BY <1>7, <2>1, <2>2
<1>9. Len(list) <= Len(t)
  BY <1>5, LenProperties DEF ListOK
<1>10. QED
  BY <1>2, <1>5, <1>6, <1>7, <1>8, <1>9 DEF CountsOne

\* The newest of some entries is one of them.
LEMMA NewestIs ==
  ASSUME NEW n \in Nat, NEW S, S \subseteq 1 .. n
  PROVE  IF S = {} THEN Gmon!Newest(S) = 0 ELSE Gmon!Newest(S) \in S
<1>1. CASE S = {}
  BY <1>1 DEF Gmon!Newest
<1>2. CASE S # {}
  <2> DEFINE T == {n - x : x \in S}
  <2>1. T \subseteq Nat /\ T # {}
    <3>1. \A x \in S : n - x \in Nat
      OBVIOUS
    <3>2. QED
      BY <1>2, <3>1
  <2>2. PICK m \in T : \A k \in T : m <= k
    <3> HIDE DEF T
    <3>1. QED
      BY <2>1, LeastNumber
  <2>3. PICK x \in S : m = n - x
    OBVIOUS
  <2>4. \A y \in S : x >= y
    <3>1. SUFFICES ASSUME NEW y \in S PROVE x >= y
      OBVIOUS
    <3>2. n - y \in T
      OBVIOUS
    <3>3. m <= n - y
      <4> HIDE DEF T
      <4>1. QED
        BY <2>2, <3>2
    <3>5. n - x <= n - y /\ x \in Int /\ y \in Int
      BY <2>3, <3>3
    <3>4. QED
      BY <3>5
  <2>5. Gmon!Max(S) \in S
    BY <2>4 DEF Gmon!Max
  <2>6. QED
    BY <1>2, <2>5 DEF Gmon!Newest
<1>3. QED
  BY <1>1, <1>2

\* The lists with a place more, for a call not counted before.
OneMore(list, t, self, from, k, j) ==
  /\ ListOK(t) /\ Len(list) <= Len(t)
  /\ HasPlace(t, k, j) /\ ~HasPlace(list, k, j)
  /\ t[k].self = self /\ t[k].arcs[j].from = from /\ t[k].arcs[j].count = 1
  /\ \A i, m \in Nat : HasPlace(t, i, m) => HasPlace(list, i, m) \/ (i = k /\ m = j)
  /\ \A i \in 1 .. Len(list) :
       /\ t[i].self = list[i].self /\ Len(list[i].arcs) <= Len(t[i].arcs)
       /\ \A m \in 1 .. Len(list[i].arcs) : t[i].arcs[m] = list[i].arcs[m]

\* What the lists are with an arc more: one place is new, the others are as they were.
LEMMA AddedPlace ==
  ASSUME NEW list, ListOK(list), NEW self \in Function, NEW from \in Function,
         NEW fn \in 0 .. Len(list), fn # 0 => list[fn].self = self
  PROVE  \E k, j \in Nat : OneMore(list, Gmon!AddArc(list, self, from, fn), self, from, k, j)
<1> DEFINE new == [from |-> from, count |-> 1]
           t == Gmon!AddArc(list, self, from, fn)
<1>1. new \in ArcEntry /\ new.from = from /\ new.count = 1
  BY DEF ArcEntry
<1>2. list \in Seq(FnEntry) /\ Len(list) \in Nat
  BY LenProperties DEF ListOK
<1> HIDE DEF new, t
<1>3. CASE fn = 0
  <2> DEFINE entry == [self |-> self, arcs |-> Append(<< >>, new)]
  <2>1. Append(<< >>, new) \in Seq(ArcEntry) /\ Len(Append(<< >>, new)) = 1 /\ Append(<< >>, new)[1] = new
    BY <1>1, AppendProperties, EmptySeq
  <2>2. entry \in FnEntry /\ entry.self = self /\ entry.arcs = Append(<< >>, new) /\ entry.arcs # << >>
    BY <2>1, EmptySeq DEF FnEntry
  <2>3. t = Append(list, entry)
    BY <1>3 DEF Gmon!AddArc, Gmon!WithArc, t, new
  <2> HIDE DEF entry
  <2>4. /\ t \in Seq(FnEntry) /\ Len(t) = Len(list) + 1 /\ t[Len(list) + 1] = entry
        /\ \A i \in 1 .. Len(list) : t[i] = list[i]
    BY <1>2, <2>2, <2>3, AppendProperties
  <2>5. ListOK(t)
    <3>1. \A i \in 1 .. Len(t) : i = Len(list) + 1 \/ i \in 1 .. Len(list)
      BY <1>2, <2>4
    <3>2. \A i \in 1 .. Len(list) : list[i].arcs # << >>
      BY DEF ListOK
    <3>3. QED
      BY <2>2, <2>4, <3>1, <3>2 DEF ListOK
  <2> DEFINE k == Len(list) + 1
  <2>6. HasPlace(t, k, 1) /\ ~HasPlace(list, k, 1)
    <3>1. t[k] = entry /\ Len(entry.arcs) = 1
      BY <2>1, <2>2, <2>4
    <3>2. k \in 1 .. Len(t) /\ k \notin 1 .. Len(list)
      BY <1>2, <2>4
    <3> HIDE DEF k
    <3>3. QED
      BY <3>1, <3>2 DEF HasPlace
  <2>7. \A i, m \in Nat : HasPlace(t, i, m) => HasPlace(list, i, m) \/ (i = k /\ m = 1)
    <3>1. SUFFICES ASSUME NEW i \in Nat, NEW m \in Nat, HasPlace(t, i, m)
                   PROVE  HasPlace(list, i, m) \/ (i = k /\ m = 1)
      OBVIOUS
    <3>2. CASE i \in 1 .. Len(list)
      BY <2>4, <3>1, <3>2 DEF HasPlace
    <3>3. CASE i = k
      <4>1. Len(t[i].arcs) = 1
        BY <2>1, <2>2, <2>4, <3>3
      <4>2. QED
        BY <3>1, <3>3, <4>1 DEF HasPlace
    <3>4. i \in 1 .. Len(t)
      BY <3>1 DEF HasPlace
    <3>5. QED
      BY <1>2, <2>4, <3>2, <3>3, <3>4
  <2>8. \A i \in 1 .. Len(list) :
          /\ t[i].self = list[i].self /\ Len(list[i].arcs) <= Len(t[i].arcs)
          /\ \A m \in 1 .. Len(list[i].arcs) : t[i].arcs[m] = list[i].arcs[m]
    BY <2>4, EntryType
  <2>9. t[k].self = self /\ t[k].arcs[1].from = from /\ t[k].arcs[1].count = 1
    BY <1>1, <2>1, <2>2, <2>4
  <2>10. k \in Nat /\ 1 \in Nat /\ Len(list) <= Len(t)
    BY <1>2, <2>4
  <2>11. QED
    <3> HIDE DEF k
    <3>1. QED
      BY <2>5, <2>6, <2>7, <2>8, <2>9, <2>10 DEF t, OneMore
<1>4. CASE fn # 0
  <2>1. fn \in 1 .. Len(list) /\ fn \in Nat
    BY <1>2, <1>4
  <2>2. list[fn] \in FnEntry /\ list[fn].arcs \in Seq(ArcEntry) /\ Len(list[fn].arcs) \in Nat
    BY <2>1, EntryType
  <2> DEFINE row == Append(list[fn].arcs, new)
             entry == [list[fn] EXCEPT !.arcs = row]
             j == Len(list[fn].arcs) + 1
  <2>3. /\ row \in Seq(ArcEntry) /\ Len(row) = j /\ row[j] = new
        /\ \A m \in 1 .. Len(list[fn].arcs) : row[m] = list[fn].arcs[m]
    BY <1>1, <2>2, AppendProperties
  <2>4. t = [list EXCEPT ![fn] = entry]
    BY <1>4 DEF Gmon!AddArc, Gmon!WithArc, t, new
  <2> HIDE DEF row
  <2>5. entry \in FnEntry /\ entry.self = list[fn].self /\ entry.arcs = row
    BY <2>2, <2>3 DEF FnEntry
  <2> HIDE DEF entry, j
  <2>6. /\ t \in Seq(FnEntry) /\ Len(t) = Len(list)
        /\ \A i \in 1 .. Len(list) : t[i] = IF i = fn THEN entry ELSE list[i]
    <3>1. /\ [list EXCEPT ![fn] = entry] \in Seq(FnEntry) /\ Len([list EXCEPT ![fn] = entry]) = Len(list)
          /\ \A i \in 1 .. Len(list) : [list EXCEPT ![fn] = entry][i] = IF i = fn THEN entry ELSE list[i]
      BY <1>2, <2>1, <2>5, ExceptSeq
    <3>2. QED
      BY <2>4, <3>1
  <2>7. j \in Nat /\ j = Len(list[fn].arcs) + 1
    BY <2>2 DEF j
  <2>8. ListOK(t)
    <3>1. row # << >>
      BY <2>3, <2>7, <2>2, EmptySeq
    <3>2. QED
      BY <2>5, <2>6, <3>1 DEF ListOK
  <2>9. HasPlace(t, fn, j) /\ ~HasPlace(list, fn, j)
    BY <2>1, <2>2, <2>3, <2>5, <2>6, <2>7 DEF HasPlace
  <2>10. \A i, m \in Nat : HasPlace(t, i, m) => HasPlace(list, i, m) \/ (i = fn /\ m = j)
    BY <2>1, <2>2, <2>3, <2>5, <2>6, <2>7 DEF HasPlace
  <2>11. \A i \in 1 .. Len(list) :
          /\ t[i].self = list[i].self /\ Len(list[i].arcs) <= Len(t[i].arcs)
          /\ \A m \in 1 .. Len(list[i].arcs) : t[i].arcs[m] = list[i].arcs[m]
    <3>1. SUFFICES ASSUME NEW i \in 1 .. Len(list)
                   PROVE  /\ t[i].self = list[i].self /\ Len(list[i].arcs) <= Len(t[i].arcs)
                          /\ \A m \in 1 .. Len(list[i].arcs) : t[i].arcs[m] = list[i].arcs[m]
      OBVIOUS
    <3>2. CASE i = fn
      BY <2>2, <2>3, <2>5, <2>6, <2>7, <3>2
    <3>3. CASE i # fn
      BY <2>6, <3>3, EntryType
    <3>4. QED
      BY <3>2, <3>3
  <2>12. t[fn].self = self /\ t[fn].arcs[j].from = from /\ t[fn].arcs[j].count = 1
    BY <1>1, <1>4, <2>1, <2>3, <2>5, <2>6
  <2>13. QED
    BY <2>1, <2>6, <2>7, <2>8, <2>9, <2>10, <2>11, <2>12, <1>2 DEF t, OneMore
<1>5. QED
  BY <1>3, <1>4

\* An arc put into the lists is one call more of it, and the others count as before.
LEMMA NewArcCounts ==
  ASSUME NEW list, ListOK(list), NEW self \in Function, NEW from \in Function,
         NEW fn \in 0 .. Len(list), fn # 0 => list[fn].self = self,
         \A other \in Gmon!Arc : IsFiniteSet(CopiesIn(list, other))
  PROVE  CountsOne(list, Gmon!AddArc(list, self, from, fn), << self, from >>)
<1> DEFINE t == Gmon!AddArc(list, self, from, fn)
<1>0. PICK k \in Nat, j \in Nat : OneMore(list, t, self, from, k, j)
  BY AddedPlace
<1>1. /\ ListOK(t) /\ Len(list) <= Len(t)
      /\ HasPlace(t, k, j) /\ ~HasPlace(list, k, j)
      /\ t[k].self = self /\ t[k].arcs[j].from = from /\ t[k].arcs[j].count = 1
      /\ \A i, m \in Nat : HasPlace(t, i, m) => HasPlace(list, i, m) \/ (i = k /\ m = j)
      /\ \A i \in 1 .. Len(list) :
           /\ t[i].self = list[i].self /\ Len(list[i].arcs) <= Len(t[i].arcs)
           /\ \A m \in 1 .. Len(list[i].arcs) : t[i].arcs[m] = list[i].arcs[m]
  BY <1>0 DEF OneMore
<1> HIDE DEF t
<1>2. \A i, m \in Nat : HasPlace(list, i, m) =>
        /\ HasPlace(t, i, m) /\ t[i].self = list[i].self /\ t[i].arcs[m] = list[i].arcs[m]
  <2>1. SUFFICES ASSUME NEW i \in Nat, NEW m \in Nat, HasPlace(list, i, m)
                 PROVE  HasPlace(t, i, m) /\ t[i].self = list[i].self /\ t[i].arcs[m] = list[i].arcs[m]
    OBVIOUS
  <2>2. i \in 1 .. Len(list) /\ m \in 1 .. Len(list[i].arcs)
    BY <2>1 DEF HasPlace
  <2>3. Len(list) \in Nat /\ Len(t) \in Nat /\ Len(list[i].arcs) \in Nat
    BY <1>1, <2>2, EntryType, LenProperties DEF ListOK
  <2>4. i \in 1 .. Len(t)
    BY <1>1, <2>2, <2>3
  <2>5. Len(t[i].arcs) \in Nat
    BY <1>1, <2>4, EntryType
  <2>6. QED
    BY <1>1, <2>2, <2>3, <2>4, <2>5 DEF HasPlace
<1>3. ASSUME NEW arc \in Gmon!Arc
      PROVE  /\ CopiesIn(t, arc) = CopiesIn(list, arc)
                  \cup (IF arc = << self, from >> THEN {<< k, j >>} ELSE {})
             /\ << k, j >> \notin CopiesIn(list, arc)
  <2>1. PICK a \in Function, b \in Function : arc = << a, b >>
    BY DEF Gmon!Arc
  <2>2. arc[1] = a /\ arc[2] = b
    BY <2>1
  <2>3. ASSUME NEW c \in CopiesIn(t, arc)
        PROVE  c \in CopiesIn(list, arc) \/ (arc = << self, from >> /\ c = << k, j >>)
    <3>1. PICK i \in Nat, m \in Nat : /\ c = << i, m >> /\ HasPlace(t, i, m)
                                     /\ t[i].self = arc[1] /\ t[i].arcs[m].from = arc[2]
      BY <1>1, CopiesAre
    <3>2. CASE HasPlace(list, i, m)
      <4>1. list[i].self = arc[1] /\ list[i].arcs[m].from = arc[2]
        BY <1>2, <3>1, <3>2
      <4>2. QED
        BY <3>1, <3>2, <4>1, CopiesAre
    <3>3. CASE i = k /\ m = j
      BY <1>1, <2>1, <2>2, <3>1, <3>3
    <3>4. QED
      BY <1>1, <3>1, <3>2, <3>3
  <2>4. ASSUME NEW c \in CopiesIn(list, arc)
        PROVE  c \in CopiesIn(t, arc) /\ c # << k, j >>
    <3>1. PICK i \in Nat, m \in Nat : /\ c = << i, m >> /\ HasPlace(list, i, m)
                                     /\ list[i].self = arc[1] /\ list[i].arcs[m].from = arc[2]
      BY CopiesAre
    <3>2. HasPlace(t, i, m) /\ t[i].self = arc[1] /\ t[i].arcs[m].from = arc[2]
      BY <1>2, <3>1
    <3>3. QED
      BY <1>1, <3>1, <3>2, CopiesAre
  <2>5. arc = << self, from >> => << k, j >> \in CopiesIn(t, arc)
    <3>1. SUFFICES ASSUME arc = << self, from >> PROVE << k, j >> \in CopiesIn(t, arc)
      OBVIOUS
    <3>2. t[k].self = arc[1] /\ t[k].arcs[j].from = arc[2]
      BY <1>1, <3>1
    <3>3. QED
      BY <1>1, <3>2, CopiesAre
  <2>6. QED
    BY <2>3, <2>4, <2>5
<1>4. ASSUME NEW arc \in Gmon!Arc
      PROVE  /\ IsFiniteSet(CopiesIn(t, arc))
             /\ CountIn(t, arc) = CountIn(list, arc) + (IF arc = << self, from >> THEN 1 ELSE 0)
  <2> DEFINE S == CopiesIn(list, arc)
  <2>1. /\ \A c \in S : list[c[1]].arcs[c[2]].count \in Int
        /\ \A c \in S : t[c[1]].arcs[c[2]].count = list[c[1]].arcs[c[2]].count
    <3>1. ASSUME NEW c \in S
          PROVE  /\ list[c[1]].arcs[c[2]].count \in Int
                 /\ t[c[1]].arcs[c[2]].count = list[c[1]].arcs[c[2]].count
      <4>1. PICK i \in Nat, m \in Nat : c = << i, m >> /\ HasPlace(list, i, m)
        BY CopiesAre
      <4>2. t[i].arcs[m].count = list[i].arcs[m].count
        BY <1>2, <4>1
      <4>3. list[c[1]].arcs[c[2]].count \in Nat
        BY CountTypes
      <4>4. QED
        BY <4>1, <4>2, <4>3
    <3>2. QED
      BY <3>1
  <2>2. IsFiniteSet(S)
    OBVIOUS
  <2>3. SumOver(t, S) = SumOver(list, S) /\ SumOver(list, S) \in Int
    <3> HIDE DEF S
    <3>1. QED
      BY <2>1, <2>2, SumSame, SumRemove
  <2>4. CountIn(list, arc) = SumOver(list, S) /\ CountIn(t, arc) = SumOver(t, CopiesIn(t, arc))
    BY DEF CountIn
  <2>5. CASE arc # << self, from >>
    <3>1. CopiesIn(t, arc) = S
      BY <1>3, <2>5
    <3>2. QED
      BY <2>2, <2>3, <2>4, <2>5, <3>1
  <2>6. CASE arc = << self, from >>
    <3> DEFINE c0 == << k, j >>
               U == S \cup {c0}
    <3>1. CopiesIn(t, arc) = U /\ c0 \notin S
      BY <1>3, <2>6
    <3>2. c0[1] = k /\ c0[2] = j
      OBVIOUS
    <3> HIDE DEF S, c0
    <3>3. IsFiniteSet(U)
      BY <2>2, FS_AddElement
    <3>4. \A c \in U : t[c[1]].arcs[c[2]].count \in Int
      <4>1. SUFFICES ASSUME NEW c \in U PROVE t[c[1]].arcs[c[2]].count \in Int
        OBVIOUS
      <4>2. CASE c \in S
        BY <2>1, <4>2
      <4>3. CASE c = c0
        BY <1>1, <3>2, <4>3
      <4>4. QED
        BY <4>2, <4>3
    <3>5. c0 \in U /\ U \ {c0} = S
      BY <3>1
    <3> HIDE DEF U
    <3>6. SumOver(t, U) = t[c0[1]].arcs[c0[2]].count + SumOver(t, U \ {c0})
      <4>1. Countable(t, U)
        BY <3>3, <3>4 DEF Countable
      <4>2. MinusEach(t, U)
        BY <4>1, SumMinusEach
      <4>3. QED
        BY <3>5, <4>2 DEF MinusEach
    <3>7. SumOver(t, U) = 1 + SumOver(list, S)
      BY <1>1, <2>3, <3>2, <3>5, <3>6
    <3>8. QED
      BY <2>3, <2>4, <2>6, <3>1, <3>3, <3>7
  <2>7. QED
    BY <2>5, <2>6
<1>5. << self, from >> \in Gmon!Arc
  BY DEF Gmon!Arc
<1>6. CopiesIn(t, << self, from >>) # {}
  BY <1>3, <1>5
<1>7. \A other \in Gmon!Arc : CopiesIn(list, other) \subseteq CopiesIn(t, other)
  BY <1>3
<1>8. QED
  BY <1>1, <1>4, <1>6, <1>7 DEF CountsOne, t

----------------------------------------------------------------------------
(* The program's place in its search, and what the lists count, at every step. *)
Labels == {"idle", "head", "fn", "arc", "count", "store", "record", "clear", "init", "result",
           "add"}
Main == [pc : Labels, self : Function \cup {0}, from : Function \cup {0}, fn : Nat, arc : Nat,
         count : Nat, clock : BOOLEAN]

\* What the program has found it still has: entries are added at the other end, and
\* the count it loaded can only have grown.
SearchOK(list, m) ==
  /\ m \in Main /\ m.fn <= Len(list)
  /\ m.pc # "idle" => m.self \in Function /\ m.from \in Function
  /\ m.pc \in {"fn", "arc", "count", "store"} => m.fn # 0
  /\ m.pc \notin {"idle", "head", "fn"} /\ m.fn # 0 => list[m.fn].self = m.self
  /\ m.pc \in {"arc", "count", "store"} => m.arc \in 1 .. Len(list[m.fn].arcs)
  /\ m.pc \in {"count", "store"} => list[m.fn].arcs[m.arc].from = m.from
  /\ m.pc = "store" => m.count <= list[m.fn].arcs[m.arc].count
  /\ m.pc = "result" => m.count \in {0, 1}

\* c calls of each arc, p of them by the program.  A count the program is about to store
\* takes back what interrupts have added since it was loaded, and no more.
CountsOK(list, m, c, p) ==
  /\ c \in [Gmon!Arc -> Nat] /\ p \in [Gmon!Arc -> Nat]
  /\ \A arc \in Gmon!Arc :
       /\ IsFiniteSet(CopiesIn(list, arc)) /\ CountIn(list, arc) \in Int
       /\ p[arc] <= CountIn(list, arc) /\ CountIn(list, arc) <= c[arc]
       /\ c[arc] > 0 => CopiesIn(list, arc) # {}
       /\ m.pc = "store" /\ arc = << m.self, m.from >> =>
            p[arc] + list[m.fn].arcs[m.arc].count <= CountIn(list, arc) + m.count

\* A call that is counted and leaves the program where it is.
LEMMA CountedBeside ==
  ASSUME NEW list, NEW t, NEW m, NEW c, NEW p, NEW arc \in Gmon!Arc,
         ListOK(list), SearchOK(list, m), CountsOK(list, m, c, p), CountsOne(list, t, arc)
  PROVE  /\ ListOK(t) /\ SearchOK(t, m)
         /\ CountsOK(t, m, [c EXCEPT ![arc] = @ + 1], p)
<1>1. ListOK(t) /\ Len(list) \in Nat /\ Len(t) \in Nat /\ Len(list) <= Len(t)
  BY LenProperties DEF CountsOne, ListOK
<1>2. m \in Main /\ m.fn \in Nat /\ m.arc \in Nat /\ m.count \in Nat /\ m.fn <= Len(list)
  BY DEF SearchOK, Main
<1>3. m.fn # 0 => /\ m.fn \in 1 .. Len(list) /\ t[m.fn].self = list[m.fn].self
                  /\ Len(list[m.fn].arcs) \in Nat /\ Len(t[m.fn].arcs) \in Nat
                  /\ Len(list[m.fn].arcs) <= Len(t[m.fn].arcs)
  <2>1. SUFFICES ASSUME m.fn # 0
                 PROVE  /\ m.fn \in 1 .. Len(list) /\ t[m.fn].self = list[m.fn].self
                        /\ Len(list[m.fn].arcs) \in Nat /\ Len(t[m.fn].arcs) \in Nat
                        /\ Len(list[m.fn].arcs) <= Len(t[m.fn].arcs)
    OBVIOUS
  <2>2. m.fn \in 1 .. Len(list) /\ m.fn \in 1 .. Len(t)
    BY <1>1, <1>2, <2>1
  <2>3. Len(list[m.fn].arcs) \in Nat /\ Len(t[m.fn].arcs) \in Nat
    BY <1>1, <2>2, EntryType
  <2>4. QED
    BY <2>2, <2>3 DEF CountsOne
<1>4. m.pc \in {"arc", "count", "store"} =>
        /\ m.arc \in 1 .. Len(list[m.fn].arcs) /\ m.arc \in 1 .. Len(t[m.fn].arcs)
        /\ t[m.fn].arcs[m.arc].from = list[m.fn].arcs[m.arc].from
        /\ list[m.fn].arcs[m.arc].count \in Nat /\ t[m.fn].arcs[m.arc].count \in Nat
        /\ \/ t[m.fn].arcs[m.arc].count = list[m.fn].arcs[m.arc].count
           \/ /\ t[m.fn].arcs[m.arc].count = list[m.fn].arcs[m.arc].count + 1
              /\ arc = << list[m.fn].self, list[m.fn].arcs[m.arc].from >>
  <2>1. SUFFICES ASSUME m.pc \in {"arc", "count", "store"}
                 PROVE  /\ m.arc \in 1 .. Len(list[m.fn].arcs) /\ m.arc \in 1 .. Len(t[m.fn].arcs)
                        /\ t[m.fn].arcs[m.arc].from = list[m.fn].arcs[m.arc].from
                        /\ list[m.fn].arcs[m.arc].count \in Nat /\ t[m.fn].arcs[m.arc].count \in Nat
                        /\ \/ t[m.fn].arcs[m.arc].count = list[m.fn].arcs[m.arc].count
                           \/ /\ t[m.fn].arcs[m.arc].count = list[m.fn].arcs[m.arc].count + 1
                              /\ arc = << list[m.fn].self, list[m.fn].arcs[m.arc].from >>
    OBVIOUS
  <2>2. m.fn # 0 /\ m.arc \in 1 .. Len(list[m.fn].arcs)
    BY <2>1 DEF SearchOK
  <2>3. m.arc \in 1 .. Len(t[m.fn].arcs) /\ m.fn \in 1 .. Len(t)
    BY <1>1, <1>3, <2>2
  <2>4. list[m.fn].arcs[m.arc].count \in Nat /\ t[m.fn].arcs[m.arc].count \in Nat
    BY <1>1, <1>3, <2>2, <2>3, EntryType
  <2>5. QED
    BY <1>3, <2>2, <2>3, <2>4 DEF CountsOne
<1>5. SearchOK(t, m)
  <2>1. m.fn <= Len(t)
    BY <1>1, <1>2
  <2>2. m.pc \notin {"idle", "head", "fn"} /\ m.fn # 0 => t[m.fn].self = m.self
    BY <1>3 DEF SearchOK
  <2>3. m.pc \in {"count", "store"} => t[m.fn].arcs[m.arc].from = m.from
    BY <1>4 DEF SearchOK
  <2>4. ASSUME m.pc = "store" PROVE m.count <= t[m.fn].arcs[m.arc].count
    <3>1. m.count <= list[m.fn].arcs[m.arc].count
      BY <2>4 DEF SearchOK
    <3>2. PICK x \in Nat, n \in Nat, q \in Nat :
            x = m.count /\ n = list[m.fn].arcs[m.arc].count /\ q = t[m.fn].arcs[m.arc].count
      BY <1>2, <1>4, <2>4
    <3>3. q = n \/ q = n + 1
      BY <1>4, <2>4, <3>2
    <3>4. x <= n
      BY <3>1, <3>2
    <3>5. x <= q
      BY <3>3, <3>4
    <3>6. QED
      BY <3>2, <3>5
  <2>5. m.pc \in {"arc", "count", "store"} => m.arc \in 1 .. Len(t[m.fn].arcs)
    BY <1>4
  <2>6. QED
    BY <2>1, <2>2, <2>3, <2>4, <2>5 DEF SearchOK
<1> DEFINE d == [c EXCEPT ![arc] = @ + 1]
<1>6. /\ c \in [Gmon!Arc -> Nat] /\ p \in [Gmon!Arc -> Nat] /\ d \in [Gmon!Arc -> Nat]
      /\ \A other \in Gmon!Arc : d[other] = c[other] + (IF other = arc THEN 1 ELSE 0)
  BY DEF CountsOK
<1> HIDE DEF d
<1>7. ASSUME NEW other \in Gmon!Arc
      PROVE  /\ IsFiniteSet(CopiesIn(t, other)) /\ CountIn(t, other) \in Int
             /\ p[other] <= CountIn(t, other) /\ CountIn(t, other) <= d[other]
             /\ d[other] > 0 => CopiesIn(t, other) # {}
             /\ m.pc = "store" /\ other = << m.self, m.from >> =>
                  p[other] + t[m.fn].arcs[m.arc].count <= CountIn(t, other) + m.count
  <2>1. /\ IsFiniteSet(CopiesIn(t, other)) /\ CopiesIn(list, other) \subseteq CopiesIn(t, other)
        /\ CountIn(t, other) = CountIn(list, other) + (IF other = arc THEN 1 ELSE 0)
        /\ CopiesIn(t, arc) # {}
    BY DEF CountsOne
  <2>2. /\ CountIn(list, other) \in Int /\ p[other] \in Nat /\ c[other] \in Nat
        /\ p[other] <= CountIn(list, other) /\ CountIn(list, other) <= c[other]
        /\ c[other] > 0 => CopiesIn(list, other) # {}
    BY <1>6 DEF CountsOK
  <2>3. /\ CountIn(t, other) \in Int
        /\ p[other] <= CountIn(t, other) /\ CountIn(t, other) <= d[other]
    BY <1>6, <2>1, <2>2
  <2>4. d[other] > 0 => CopiesIn(t, other) # {}
    BY <1>6, <2>1, <2>2
  <2>5. ASSUME m.pc = "store", other = << m.self, m.from >>
        PROVE  p[other] + t[m.fn].arcs[m.arc].count <= CountIn(t, other) + m.count
    <3>1. p[other] + list[m.fn].arcs[m.arc].count <= CountIn(list, other) + m.count
      BY <2>5 DEF CountsOK
    <3>2. list[m.fn].self = m.self /\ list[m.fn].arcs[m.arc].from = m.from
      BY <2>5 DEF SearchOK
    <3>3. other = << list[m.fn].self, list[m.fn].arcs[m.arc].from >>
      BY <2>5, <3>2
    <3>4. PICK n \in Nat, q \in Nat, x \in Nat, y \in Int, z \in Int, w \in Nat :
            /\ n = list[m.fn].arcs[m.arc].count /\ q = t[m.fn].arcs[m.arc].count /\ x = m.count
            /\ y = CountIn(list, other) /\ z = CountIn(t, other) /\ w = p[other]
      BY <1>2, <1>4, <2>2, <2>3, <2>5
    <3>5. q = n \/ (q = n + 1 /\ other = arc)
      BY <1>4, <2>5, <3>3, <3>4
    <3>6. z = y + (IF other = arc THEN 1 ELSE 0) /\ w + n <= y + x
      BY <2>1, <3>1, <3>4
    <3>7. w + q <= z + x
      BY <3>5, <3>6
    <3>8. QED
      BY <3>4, <3>7
  <2>6. QED
    BY <2>1, <2>3, <2>4, <2>5
<1>8. CountsOK(t, m, d, p)
  BY <1>6, <1>7 DEF CountsOK
<1>9. QED
  BY <1>1, <1>5, <1>8 DEF d

\* A call of the program that is counted and ends.
LEMMA CountedByProgram ==
  ASSUME NEW list, NEW t, NEW m, NEW c, NEW p, NEW arc \in Gmon!Arc,
         ListOK(list), CountsOK(list, m, c, p), CountsOne(list, t, arc)
  PROVE  /\ ListOK(t) /\ SearchOK(t, Gmon!Idle)
         /\ CountsOK(t, Gmon!Idle, [c EXCEPT ![arc] = @ + 1], [p EXCEPT ![arc] = @ + 1])
<1>1. ListOK(t) /\ Len(t) \in Nat
  BY LenProperties DEF CountsOne, ListOK
<1>2. SearchOK(t, Gmon!Idle)
  BY <1>1 DEF SearchOK, Gmon!Idle, Main, Labels
<1> DEFINE d == [c EXCEPT ![arc] = @ + 1]
           r == [p EXCEPT ![arc] = @ + 1]
<1>3. /\ c \in [Gmon!Arc -> Nat] /\ p \in [Gmon!Arc -> Nat]
      /\ d \in [Gmon!Arc -> Nat] /\ r \in [Gmon!Arc -> Nat]
      /\ \A other \in Gmon!Arc : /\ d[other] = c[other] + (IF other = arc THEN 1 ELSE 0)
                                 /\ r[other] = p[other] + (IF other = arc THEN 1 ELSE 0)
  BY DEF CountsOK
<1> HIDE DEF d, r
<1>4. ASSUME NEW other \in Gmon!Arc
      PROVE  /\ IsFiniteSet(CopiesIn(t, other)) /\ CountIn(t, other) \in Int
             /\ r[other] <= CountIn(t, other) /\ CountIn(t, other) <= d[other]
             /\ d[other] > 0 => CopiesIn(t, other) # {}
  <2>1. /\ IsFiniteSet(CopiesIn(t, other)) /\ CopiesIn(list, other) \subseteq CopiesIn(t, other)
        /\ CountIn(t, other) = CountIn(list, other) + (IF other = arc THEN 1 ELSE 0)
        /\ CopiesIn(t, arc) # {}
    BY DEF CountsOne
  <2>2. /\ CountIn(list, other) \in Int /\ p[other] \in Nat /\ c[other] \in Nat
        /\ p[other] <= CountIn(list, other) /\ CountIn(list, other) <= c[other]
        /\ c[other] > 0 => CopiesIn(list, other) # {}
    BY <1>3 DEF CountsOK
  <2>3. /\ CountIn(t, other) \in Int
        /\ r[other] <= CountIn(t, other) /\ CountIn(t, other) <= d[other]
    BY <1>3, <2>1, <2>2
  <2>4. d[other] > 0 => CopiesIn(t, other) # {}
    BY <1>3, <2>1, <2>2
  <2>5. QED
    BY <2>1, <2>3, <2>4
<1>5. Gmon!Idle.pc # "store"
  BY DEF Gmon!Idle
<1>6. CountsOK(t, Gmon!Idle, d, r)
  BY <1>3, <1>4, <1>5 DEF CountsOK
<1>7. QED
  BY <1>1, <1>2, <1>6 DEF d, r

\* The count loaded before and incremented is stored: the calls of interrupts in
\* between are lost, the program's own are not.
LEMMA StoredCount ==
  ASSUME NEW list, NEW m, NEW c, NEW p, ListOK(list), SearchOK(list, m), CountsOK(list, m, c, p),
         m.pc = "store"
  PROVE  LET t == Counting(list, m.fn, m.arc, m.count + 1)
             arc == << m.self, m.from >>
         IN /\ ListOK(t) /\ SearchOK(t, Gmon!Idle)
            /\ CountsOK(t, Gmon!Idle, [c EXCEPT ![arc] = @ + 1], [p EXCEPT ![arc] = @ + 1])
<1> DEFINE v == m.count + 1
           t == Counting(list, m.fn, m.arc, v)
           arc == << m.self, m.from >>
           d == [c EXCEPT ![arc] = @ + 1]
           r == [p EXCEPT ![arc] = @ + 1]
<1>1. /\ m.fn \in Nat /\ m.arc \in Nat /\ m.count \in Nat /\ v \in Nat
      /\ m.self \in Function /\ m.from \in Function
  BY DEF SearchOK, Main
<1>2. /\ HasPlace(list, m.fn, m.arc) /\ list[m.fn].self = m.self
      /\ list[m.fn].arcs[m.arc].from = m.from /\ m.count <= list[m.fn].arcs[m.arc].count
  <2>1. m.fn # 0 /\ m.fn <= Len(list) /\ m.arc \in 1 .. Len(list[m.fn].arcs) /\ Len(list) \in Nat
    BY LenProperties DEF SearchOK, ListOK
  <2>2. QED
    BY <1>1, <2>1 DEF SearchOK, HasPlace
<1>3. list[m.fn].arcs[m.arc].count \in Nat
  BY <1>2, EntryType DEF HasPlace
<1>4. arc \in Gmon!Arc /\ arc[1] = m.self /\ arc[2] = m.from
  BY <1>1 DEF Gmon!Arc
<1>5. ListOK(t)
  <2> HIDE DEF v
  <2>1. QED
    <3>1. OnlyCount(list, t, m.fn, m.arc, v)
      BY <1>1, <1>2, SetCount
    <3> HIDE DEF t
    <3>2. QED
      BY <3>1 DEF OnlyCount
<1>6. ASSUME NEW other \in Gmon!Arc
      PROVE  /\ CopiesIn(t, other) = CopiesIn(list, other)
             /\ CountIn(list, other) \in Int /\ CountIn(t, other) \in Int
             /\ CountIn(t, other) = CountIn(list, other)
                  + (IF list[m.fn].self = other[1] /\ list[m.fn].arcs[m.arc].from = other[2]
                     THEN v - list[m.fn].arcs[m.arc].count ELSE 0)
  <2>1. IsFiniteSet(CopiesIn(list, other))
    BY DEF CountsOK
  <2> HIDE DEF v
  <2>2. QED
    BY <1>1, <1>2, <2>1, CountChanges
<1>7. /\ c \in [Gmon!Arc -> Nat] /\ p \in [Gmon!Arc -> Nat]
      /\ d \in [Gmon!Arc -> Nat] /\ r \in [Gmon!Arc -> Nat]
      /\ \A other \in Gmon!Arc : /\ d[other] = c[other] + (IF other = arc THEN 1 ELSE 0)
                                 /\ r[other] = p[other] + (IF other = arc THEN 1 ELSE 0)
  BY <1>4 DEF CountsOK
<1>8. v = m.count + 1
  OBVIOUS
<1> HIDE DEF v, t, d, r
<1>9. ASSUME NEW other \in Gmon!Arc
      PROVE  /\ IsFiniteSet(CopiesIn(t, other)) /\ CountIn(t, other) \in Int
             /\ r[other] <= CountIn(t, other) /\ CountIn(t, other) <= d[other]
             /\ d[other] > 0 => CopiesIn(t, other) # {}
  <2>1. /\ IsFiniteSet(CopiesIn(list, other)) /\ CountIn(list, other) \in Int
        /\ p[other] \in Nat /\ c[other] \in Nat
        /\ p[other] <= CountIn(list, other) /\ CountIn(list, other) <= c[other]
        /\ c[other] > 0 => CopiesIn(list, other) # {}
    BY <1>7 DEF CountsOK
  <2>2. CopiesIn(t, other) = CopiesIn(list, other) /\ CountIn(t, other) \in Int
    BY <1>6
  <2>3. CASE other = arc
    <3>1. CountIn(t, other) = CountIn(list, other) + (v - list[m.fn].arcs[m.arc].count)
      <4> HIDE DEF arc
      <4>1. QED
        BY <1>2, <1>4, <1>6, <2>3
    <3>2. p[other] + list[m.fn].arcs[m.arc].count <= CountIn(list, other) + m.count
      BY <2>3 DEF CountsOK
    <3>3. << m.fn, m.arc >> \in CopiesIn(list, other)
      <4> HIDE DEF arc
      <4>1. QED
        BY <1>1, <1>2, <1>4, <2>3, CopiesAre
    <3>4. d[other] = c[other] + 1 /\ r[other] = p[other] + 1
      BY <1>7, <2>3
    <3>5. r[other] <= CountIn(t, other) /\ CountIn(t, other) <= d[other]
      <4>1. PICK n \in Nat, x \in Nat, y \in Int, w \in Nat, u \in Nat :
              /\ n = list[m.fn].arcs[m.arc].count /\ x = m.count /\ y = CountIn(list, other)
              /\ w = p[other] /\ u = c[other]
        BY <1>1, <1>3, <2>1
      <4>2. CountIn(t, other) = y + ((x + 1) - n) /\ w + n <= y + x /\ y <= u /\ x <= n
        BY <1>2, <1>8, <2>1, <3>1, <3>2, <4>1
      <4>3. d[other] = u + 1 /\ r[other] = w + 1
        BY <3>4, <4>1
      <4>4. QED
        BY <4>2, <4>3
    <3>6. QED
      BY <2>1, <2>2, <3>3, <3>5
  <2>4. CASE other # arc
    <3>1. ~(m.self = other[1] /\ m.from = other[2])
      BY <2>4 DEF Gmon!Arc
    <3>2. CountIn(t, other) = CountIn(list, other) /\ d[other] = c[other] /\ r[other] = p[other]
      <4> HIDE DEF arc
      <4>1. QED
        BY <1>2, <1>6, <1>7, <2>1, <2>4, <3>1
    <3>3. QED
      BY <2>1, <2>2, <3>2
  <2>5. QED
    BY <2>3, <2>4
<1>10. SearchOK(t, Gmon!Idle)
  <2>1. Len(t) \in Nat
    BY <1>5, LenProperties DEF ListOK
  <2>2. QED
    BY <2>1 DEF SearchOK, Gmon!Idle, Main, Labels
<1>11. Gmon!Idle.pc # "store"
  BY DEF Gmon!Idle
<1>12. CountsOK(t, Gmon!Idle, d, r)
  BY <1>7, <1>9, <1>11 DEF CountsOK
<1>13. QED
  BY <1>5, <1>10, <1>12 DEF d, r, t, v

----------------------------------------------------------------------------
(* The memory of the entries, and the sampler. *)
SlabType == [ptr : Nat, size : 0 .. MCOUNT_SLAB_INCREMENT, brk : Nat]

\* What is left of the slab lies above every entry and below the break.
SlabOK(s, list) ==
  /\ s \in SlabType /\ s.ptr + s.size <= s.brk
  /\ list \in Seq(Nat)
  /\ \A i \in 1 .. Len(list) : list[i] + RecordSize <= s.ptr
  /\ \A i, j \in 1 .. Len(list) : i < j => list[i] + RecordSize <= list[j]

\* The text is a whole number of buckets, so that its tail has one too.
WholeBuckets == TextSize % PCSAMPLE_BYTES_PER_BUCKET = 0

SamplerOK ==
  /\ pcsample_need_init \in {0, 1} /\ clock \in BOOLEAN /\ started \in Nat
  /\ WholeBuckets => Gmon!SamplesInside

ProfileInv ==
  /\ ListOK(fns) /\ SearchOK(fns, main) /\ CountsOK(fns, main, calls, program_calls)
  /\ SlabOK(slab, records) /\ SamplerOK

\* The constants, as the assumption has them.
LEMMA ProfilerConstants ==
  /\ RecordSize \in Nat /\ MCOUNT_SLAB_INCREMENT \in Nat /\ RecordSize <= MCOUNT_SLAB_INCREMENT
  /\ TextSize \in Nat /\ PCSAMPLE_BYTES_PER_BUCKET \in Nat /\ PCSAMPLE_BYTES_PER_BUCKET > 0
BY MemoryAssumption DEF Gmon!ProfilerAssumption

\* An entry cut from the slab, or from a new one, lies above all the others.
LEMMA Allocated ==
  ASSUME NEW s, NEW list, SlabOK(s, list)
  PROVE  SlabOK(Gmon!mcount_allocate(s).slab, Append(list, Gmon!mcount_allocate(s).data))
<1> DEFINE a == Gmon!mcount_allocate(s)
           new == Append(list, a.data)
<1>1. PICK ptr \in Nat, size \in 0 .. MCOUNT_SLAB_INCREMENT, brk \in Nat :
        ptr = s.ptr /\ size = s.size /\ brk = s.brk
  BY DEF SlabOK, SlabType
<1>2. PICK inc \in Nat, rs \in Nat : inc = MCOUNT_SLAB_INCREMENT /\ rs = RecordSize /\ rs <= inc
  BY ProfilerConstants
<1>3. /\ a.data = IF rs > size THEN brk ELSE ptr
      /\ a.slab = [ptr |-> (IF rs > size THEN brk ELSE ptr) + rs,
                   size |-> (IF rs > size THEN inc ELSE size) - rs,
                   brk |-> IF rs > size THEN brk + inc ELSE brk]
  BY <1>1, <1>2 DEF Gmon!mcount_allocate
<1> HIDE DEF a
<1>0. ptr + size <= brk
  BY <1>1 DEF SlabOK
<1>4. a.data \in Nat /\ ptr <= a.data
  BY <1>1, <1>3, <1>0
<1>5. a.slab.ptr = a.data + rs /\ a.slab.ptr + a.slab.size <= a.slab.brk
  BY <1>1, <1>2, <1>3, <1>0
<1>6. a.slab \in SlabType
  BY <1>1, <1>2, <1>3 DEF SlabType
<1>7. /\ list \in Seq(Nat) /\ Len(list) \in Nat
      /\ new \in Seq(Nat) /\ Len(new) = Len(list) + 1 /\ new[Len(list) + 1] = a.data
      /\ \A i \in 1 .. Len(list) : new[i] = list[i] /\ list[i] \in Nat
  BY <1>4, AppendProperties, LenProperties, ElementOfSeq DEF SlabOK
<1>8. \A i \in 1 .. Len(list) : list[i] + rs <= a.data
  <2>1. SUFFICES ASSUME NEW i \in 1 .. Len(list) PROVE list[i] + rs <= a.data
    OBVIOUS
  <2>2. PICK y \in Nat : y = list[i]
    BY <1>7
  <2>3. y + rs <= ptr
    BY <1>1, <1>2, <2>2 DEF SlabOK
  <2>4. PICK d \in Nat : d = a.data /\ ptr <= d
    BY <1>4
  <2>5. y + rs <= d
    BY <2>3, <2>4
  <2>6. QED
    BY <2>2, <2>4, <2>5
<1> HIDE DEF new
<1>9. \A i \in 1 .. Len(new) : new[i] + rs <= a.slab.ptr
  <2>1. SUFFICES ASSUME NEW i \in 1 .. Len(new) PROVE new[i] + rs <= a.slab.ptr
    OBVIOUS
  <2>2. PICK d \in Nat, x \in Nat : d = a.data /\ x = a.slab.ptr /\ x = d + rs
    BY <1>4, <1>5
  <2>3. CASE i = Len(list) + 1
    BY <1>7, <2>2, <2>3
  <2>4. CASE i \in 1 .. Len(list)
    <3>1. PICK y \in Nat : y = list[i] /\ y + rs <= d
      BY <1>7, <1>8, <2>2, <2>4
    <3>2. y + rs <= x
      BY <2>2, <3>1
    <3>3. new[i] = y
      BY <1>7, <2>4, <3>1
    <3>4. QED
      BY <2>2, <3>2, <3>3
  <2>5. QED
    BY <1>7, <2>3, <2>4
<1>10. \A i, j \in 1 .. Len(new) : i < j => new[i] + rs <= new[j]
  <2>1. SUFFICES ASSUME NEW i \in 1 .. Len(new), NEW j \in 1 .. Len(new), i < j
                 PROVE  new[i] + rs <= new[j]
    OBVIOUS
  <2>2. i \in 1 .. Len(list)
    BY <1>7, <2>1
  <2>3. CASE j = Len(list) + 1
    BY <1>7, <1>8, <2>2, <2>3
  <2>4. CASE j \in 1 .. Len(list)
    BY <1>2, <1>7, <2>1, <2>2, <2>4 DEF SlabOK
  <2>5. QED
    BY <1>7, <2>3, <2>4
<1>11. QED
  BY <1>2, <1>5, <1>6, <1>7, <1>9, <1>10 DEF SlabOK, a, new

\* Recording an arc keeps the entries apart, whether its function is new or not.
LEMMA RecordedApart ==
  ASSUME NEW s, SlabOK(s, records), NEW self, NEW from, NEW fn, Gmon!Record(s, self, from, fn)
  PROVE  SlabOK(slab', records')
<1> DEFINE function == Gmon!mcount_allocate(s)
           arc == Gmon!mcount_allocate(IF fn = 0 THEN function.slab ELSE s)
<1>1. /\ slab' = arc.slab
      /\ records' = records \o (IF fn = 0 THEN << function.data >> ELSE << >>) \o << arc.data >>
  BY DEF Gmon!Record
<1>2. records \in Seq(Nat)
  BY DEF SlabOK
<1>3. CASE fn = 0
  <2>1. SlabOK(function.slab, Append(records, function.data))
    BY Allocated
  <2> DEFINE next == function.slab
             list == Append(records, function.data)
  <2>2. SlabOK(next, list)
    BY <2>1
  <2>3. arc = Gmon!mcount_allocate(next)
    BY <1>3
  <2>4. list = records \o << function.data >>
    OBVIOUS
  <2>5. records' = list \o << arc.data >>
    BY <1>1, <1>3, <2>4
  <2>6. list \in Seq(Nat)
    BY <2>2 DEF SlabOK
  <2> HIDE DEF next, list, arc
  <2>7. SlabOK(arc.slab, Append(list, arc.data))
    BY <2>2, <2>3, Allocated
  <2>8. Append(list, arc.data) = list \o << arc.data >>
    OBVIOUS
  <2>9. QED
    BY <1>1, <2>5, <2>7, <2>8
<1>4. CASE fn # 0
  <2>1. arc = Gmon!mcount_allocate(s)
    BY <1>4
  <2>2. records' = records \o << arc.data >>
    BY <1>1, <1>2, <1>4
  <2> HIDE DEF arc
  <2>3. SlabOK(arc.slab, Append(records, arc.data))
    BY <2>1, Allocated
  <2>4. Append(records, arc.data) = records \o << arc.data >>
    OBVIOUS
  <2>5. QED
    BY <1>1, <2>2, <2>3, <2>4
<1>5. QED
  BY <1>3, <1>4

\* What starting the sampler returns.
LEMMA SamplerStarts ==
  ASSUME SlabOK(slab, records), SamplerOK
  PROVE  /\ SlabOK(Gmon!StartSampler.slab, records) /\ Gmon!StartSampler.again \in {0, 1}
         /\ Gmon!Started => started' \in Nat
<1>1. Gmon!HistogramSize \in Nat
  BY ProfilerConstants, DivMod DEF Gmon!HistogramSize
<1>2. PICK n \in Nat : n = Gmon!HistogramSize
  BY <1>1
<1> DEFINE more == [slab EXCEPT !.brk = @ + 2 * n]
<1>3. slab \in SlabType /\ slab.ptr + slab.size <= slab.brk
  BY DEF SlabOK
<1>4. more \in SlabType /\ more.ptr = slab.ptr /\ more.size = slab.size /\ more.brk = slab.brk + 2 * n
  BY <1>3, ProfilerConstants DEF SlabType
<1>5. more.ptr + more.size <= more.brk
  <2> HIDE DEF more
  <2>1. QED
    BY <1>3, <1>4, ProfilerConstants DEF SlabType
<1>6. SlabOK(more, records)
  <2> HIDE DEF more
  <2>1. QED
    BY <1>4, <1>5 DEF SlabOK
<1>7. /\ Gmon!StartSampler.slab \in {slab, more} /\ Gmon!StartSampler.again \in {0, 1}
  BY <1>2 DEF Gmon!StartSampler
<1>8. Gmon!Started => started' \in Nat
  BY <1>7 DEF Gmon!Started, SamplerOK
<1>9. QED
  BY <1>6, <1>7, <1>8

----------------------------------------------------------------------------
(* The steps of the profiler. *)
LEMMA ProfileInit_Inv == Gmon!ProfilerInit => ProfileInv
<1> SUFFICES ASSUME Gmon!ProfilerInit PROVE ProfileInv
  OBVIOUS
<1>1. ListOK(fns) /\ Len(fns) = 0 /\ fns = << >>
  BY EmptySeq DEF Gmon!ProfilerInit, ListOK
<1>2. SearchOK(fns, main)
  BY <1>1 DEF Gmon!ProfilerInit, SearchOK, Gmon!Idle, Main, Labels
<1>3. ASSUME NEW arc \in Gmon!Arc
      PROVE  CopiesIn(fns, arc) = {} /\ IsFiniteSet(CopiesIn(fns, arc)) /\ CountIn(fns, arc) = 0
  <2>1. CopiesIn(fns, arc) = {}
    BY <1>1, CopiesAre DEF HasPlace
  <2>2. IsFiniteSet({})
    BY FS_EmptySet
  <2>3. SumOver(fns, {}) = 0
    BY <2>2, SumRemove
  <2>4. QED
    BY <2>1, <2>2, <2>3 DEF CountIn
<1>4. /\ calls \in [Gmon!Arc -> Nat] /\ program_calls \in [Gmon!Arc -> Nat] /\ main.pc # "store"
      /\ \A arc \in Gmon!Arc : calls[arc] = 0 /\ program_calls[arc] = 0
  BY DEF Gmon!ProfilerInit, Gmon!Idle
<1>5. CountsOK(fns, main, calls, program_calls)
  BY <1>3, <1>4 DEF CountsOK
<1>6. SlabOK(slab, records)
  <2>1. slab = [ptr |-> 0, size |-> 0, brk |-> 0] /\ records = << >>
    BY DEF Gmon!ProfilerInit
  <2>2. slab \in SlabType /\ slab.ptr + slab.size <= slab.brk
    BY <2>1, ProfilerConstants DEF SlabType
  <2>3. records \in Seq(Nat) /\ Len(records) = 0
    BY <2>1, EmptySeq
  <2>4. QED
    BY <2>2, <2>3 DEF SlabOK
<1>7. SamplerOK
  BY DEF Gmon!ProfilerInit, SamplerOK, Gmon!SamplesInside
<1>8. QED
  BY <1>1, <1>2, <1>5, <1>6, <1>7 DEF ProfileInv

\* What the search of a routine finds.
LEMMA FoundAre ==
  ASSUME ListOK(fns), NEW self, NEW from
  PROVE  LET fn == Gmon!FoundFn(self)
             arc == Gmon!FoundArc(fn, from)
         IN /\ fn \in 0 .. Len(fns) /\ (fn # 0 => fns[fn].self = self)
            /\ arc # 0 => /\ fn \in Nat /\ arc \in Nat /\ HasPlace(fns, fn, arc)
                          /\ fns[fn].self = self /\ fns[fn].arcs[arc].from = from
<1> DEFINE fn == Gmon!FoundFn(self)
           arc == Gmon!FoundArc(fn, from)
           F == {k \in DOMAIN fns : fns[k].self = self}
           A == {j \in DOMAIN fns[fn].arcs : fns[fn].arcs[j].from = from}
<1>1. Len(fns) \in Nat /\ DOMAIN fns = 1 .. Len(fns)
  BY LenProperties DEF ListOK
<1>2. F \subseteq 1 .. Len(fns) /\ fn = Gmon!Newest(F)
  BY <1>1 DEF Gmon!FoundFn
<1>3. fn = 0 \/ fn \in F
  <2> HIDE DEF F, fn
  <2>1. QED
    BY <1>1, <1>2, NewestIs
<1>4. fn \in 0 .. Len(fns) /\ (fn # 0 => fns[fn].self = self)
  <2> HIDE DEF fn
  <2>1. QED
    BY <1>1, <1>3
<1>5. ASSUME arc # 0
      PROVE  /\ fn \in Nat /\ arc \in Nat /\ HasPlace(fns, fn, arc)
             /\ fns[fn].self = self /\ fns[fn].arcs[arc].from = from
  <2>1. fn # 0 /\ arc = Gmon!Newest(A)
    BY <1>5 DEF Gmon!FoundArc
  <2> HIDE DEF fn
  <2>2. fn \in 1 .. Len(fns) /\ fn \in Nat /\ fns[fn].self = self
    BY <1>1, <1>4, <2>1
  <2>3. /\ Len(fns[fn].arcs) \in Nat /\ DOMAIN fns[fn].arcs = 1 .. Len(fns[fn].arcs)
    BY <2>2, EntryType, LenProperties
  <2>4. A \subseteq 1 .. Len(fns[fn].arcs)
    BY <2>3
  <2>5. arc \in A
    <3> HIDE DEF A, arc
    <3>1. QED
      BY <1>5, <2>1, <2>3, <2>4, NewestIs
  <2> HIDE DEF arc
  <2>6. arc \in 1 .. Len(fns[fn].arcs) /\ fns[fn].arcs[arc].from = from
    BY <2>4, <2>5
  <2>7. QED
    BY <2>2, <2>3, <2>6 DEF HasPlace
<1>6. QED
  BY <1>4, <1>5

\* Recording an arc, whoever does it, counts it once.
LEMMA RecordedOnce ==
  ASSUME ProfileInv, NEW s, NEW self \in Function, NEW from \in Function, NEW fn \in 0 .. Len(fns),
         fn # 0 => fns[fn].self = self, Gmon!Record(s, self, from, fn)
  PROVE  CountsOne(fns, fns', << self, from >>)
<1>1. fns' = Gmon!AddArc(fns, self, from, fn)
  BY DEF Gmon!Record
<1>2. ListOK(fns) /\ \A other \in Gmon!Arc : IsFiniteSet(CopiesIn(fns, other))
  BY DEF ProfileInv, CountsOK
<1>3. QED
  BY <1>1, <1>2, NewArcCounts

\* A routine's call, wherever the program is in its own: it cannot lose the program's place.
LEMMA Interrupt_Inv ==
  ASSUME ProfileInv, NEW self \in Function, NEW from \in Function, Gmon!Interrupt(self, from)
  PROVE  ProfileInv'
<1> DEFINE fn == Gmon!FoundFn(self)
           arc == Gmon!FoundArc(fn, from)
           a == << self, from >>
<1>1. /\ fn \in 0 .. Len(fns) /\ (fn # 0 => fns[fn].self = self)
      /\ arc # 0 => /\ fn \in Nat /\ arc \in Nat /\ HasPlace(fns, fn, arc)
                    /\ fns[fn].self = self /\ fns[fn].arcs[arc].from = from
  BY FoundAre DEF ProfileInv
<1>2. a \in Gmon!Arc
  BY DEF Gmon!Arc
<1>3. /\ calls' = [calls EXCEPT ![a] = @ + 1]
      /\ UNCHANGED << clock, touched, main, program_calls >>
      /\ \/ /\ arc # 0 /\ fns' = [fns EXCEPT ![fn].arcs[arc].count = @ + 1]
            /\ UNCHANGED << slab, records, pcsample_need_init, started >>
         \/ /\ arc = 0 /\ Gmon!Started /\ pcsample_need_init' = Gmon!StartSampler.again
            /\ Gmon!Record(Gmon!StartSampler.slab, self, from, fn)
         \/ /\ arc = 0 /\ Gmon!Record(slab, self, from, fn)
            /\ UNCHANGED << started, pcsample_need_init >>
  BY DEF Gmon!Interrupt
<1> HIDE DEF fn, arc
<1>4. CountsOne(fns, fns', a)
  <2>1. CASE arc # 0
    <3>1. ListOK(fns) /\ \A other \in Gmon!Arc : IsFiniteSet(CopiesIn(fns, other))
      BY DEF ProfileInv, CountsOK
    <3>2. CountsOne(fns, [fns EXCEPT ![fn].arcs[arc].count = @ + 1],
                    << fns[fn].self, fns[fn].arcs[arc].from >>)
      BY <1>1, <2>1, <3>1, CountsAgain
    <3>3. QED
      BY <1>1, <1>3, <2>1, <3>2
  <2>2. CASE arc = 0
    <3>1. PICK s : Gmon!Record(s, self, from, fn)
      BY <1>3, <2>2
    <3>2. QED
      BY <1>1, <3>1, RecordedOnce
  <2>3. QED
    BY <2>1, <2>2
<1>5. ListOK(fns') /\ SearchOK(fns', main) /\ CountsOK(fns', main, calls', program_calls)
  <2>1. ListOK(fns) /\ SearchOK(fns, main) /\ CountsOK(fns, main, calls, program_calls)
    BY DEF ProfileInv
  <2>2. PICK t : t = fns'
    OBVIOUS
  <2>3. CountsOne(fns, t, a)
    BY <1>4, <2>2
  <2> HIDE DEF a
  <2>4. /\ ListOK(t) /\ SearchOK(t, main)
        /\ CountsOK(t, main, [calls EXCEPT ![a] = @ + 1], program_calls)
    BY <1>2, <2>1, <2>3, CountedBeside
  <2>5. QED
    BY <1>3, <2>2, <2>4
<1>6. SlabOK(slab', records')
  <2>1. SlabOK(slab, records) /\ SlabOK(Gmon!StartSampler.slab, records)
    BY SamplerStarts DEF ProfileInv
  <2>2. QED
    BY <1>3, <2>1, RecordedApart
<1>7. SamplerOK'
  <2>1. Gmon!StartSampler.again \in {0, 1} /\ (Gmon!Started => started' \in Nat)
    BY SamplerStarts DEF ProfileInv
  <2>2. QED
    BY <1>3, <2>1 DEF ProfileInv, SamplerOK, Gmon!SamplesInside, Gmon!HistogramSize
<1>8. QED
  BY <1>3, <1>5, <1>6, <1>7 DEF ProfileInv

\* The program records an arc its search did not find, which may be there by now.
LEMMA Recorded_Inv == ASSUME ProfileInv, Gmon!RecordNew PROVE ProfileInv'
<1> DEFINE a == << main.self, main.from >>
<1>1. /\ Gmon!Record(slab, main.self, main.from, main.fn) /\ main.pc = "add"
      /\ main' = Gmon!Idle /\ calls' = [calls EXCEPT ![a] = @ + 1]
      /\ program_calls' = [program_calls EXCEPT ![a] = @ + 1]
      /\ UNCHANGED << pcsample_need_init, clock, started, touched >>
  BY DEF Gmon!RecordNew, Gmon!Finish, Gmon!At
<1>2. /\ main.self \in Function /\ main.from \in Function /\ main.fn \in 0 .. Len(fns)
      /\ main.fn # 0 => fns[main.fn].self = main.self
  <2>1. SearchOK(fns, main) /\ Len(fns) \in Nat
    BY LenProperties DEF ProfileInv, ListOK
  <2>2. QED
    BY <1>1, <2>1 DEF SearchOK, Main
<1>3. a \in Gmon!Arc
  BY <1>2 DEF Gmon!Arc
<1>4. PICK self \in Function, from \in Function, fn \in 0 .. Len(fns) :
        self = main.self /\ from = main.from /\ fn = main.fn
  BY <1>2
<1>5. CountsOne(fns, fns', << self, from >>)
  BY <1>1, <1>2, <1>4, RecordedOnce
<1>6. SlabOK(slab', records')
  BY <1>1, RecordedApart DEF ProfileInv
<1>7. PICK t : t = fns'
  OBVIOUS
<1>8. CountsOne(fns, t, a)
  BY <1>4, <1>5, <1>7
<1> HIDE DEF a
<1>9. /\ ListOK(t) /\ SearchOK(t, Gmon!Idle)
      /\ CountsOK(t, Gmon!Idle, [calls EXCEPT ![a] = @ + 1], [program_calls EXCEPT ![a] = @ + 1])
  <2>1. ListOK(fns) /\ CountsOK(fns, main, calls, program_calls)
    BY DEF ProfileInv
  <2>2. QED
    BY <1>3, <1>8, <2>1, CountedByProgram
<1>10. SamplerOK'
  BY <1>1 DEF ProfileInv, SamplerOK, Gmon!SamplesInside, Gmon!HistogramSize
<1>11. QED
  BY <1>1, <1>6, <1>7, <1>9, <1>10 DEF ProfileInv

\* The program stores the count it has loaded and incremented.
LEMMA Store_Inv == ASSUME ProfileInv, Gmon!StoreCount PROVE ProfileInv'
<1> DEFINE a == << main.self, main.from >>
<1>1. /\ main.pc = "store" /\ fns' = Counting(fns, main.fn, main.arc, main.count + 1)
      /\ main' = Gmon!Idle /\ calls' = [calls EXCEPT ![a] = @ + 1]
      /\ program_calls' = [program_calls EXCEPT ![a] = @ + 1]
      /\ UNCHANGED << slab, records, pcsample_need_init, clock, started, touched >>
  BY DEF Gmon!StoreCount, Gmon!Finish, Gmon!At, Gmon!NewCount, Counting
<1>2. ListOK(fns) /\ SearchOK(fns, main) /\ CountsOK(fns, main, calls, program_calls)
  BY DEF ProfileInv
<1>3. ListOK(fns') /\ SearchOK(fns', main') /\ CountsOK(fns', main', calls', program_calls')
  BY <1>1, <1>2, StoredCount
<1>4. SamplerOK'
  BY <1>1 DEF ProfileInv, SamplerOK, Gmon!SamplesInside, Gmon!HistogramSize
<1>5. QED
  BY <1>1, <1>3, <1>4 DEF ProfileInv

\* A step of the program's search, which changes nothing but its place.
LEMMA Place_Inv ==
  ASSUME ProfileInv, SearchOK(fns, main'),
         main'.pc = "store" => CountsOK(fns, main', calls, program_calls),
         UNCHANGED << fns, calls, program_calls >>,
         SlabOK(slab', records'), SamplerOK'
  PROVE  ProfileInv'
<1>1. CountsOK(fns, main', calls, program_calls)
  BY DEF ProfileInv, CountsOK
<1>2. QED
  BY <1>1 DEF ProfileInv

\* The program's search, a step at a time.
LEMMA Search_Inv ==
  ASSUME ProfileInv,
         \/ \E self, from \in Function : Gmon!mcount(self, from)
         \/ Gmon!SearchFns \/ Gmon!SearchArcs
  PROVE  ProfileInv'
<1>1. /\ UNCHANGED << fns, slab, records, pcsample_need_init, clock, started, touched, calls,
                      program_calls >>
      /\ main \in Main
  BY DEF Gmon!mcount, Gmon!SearchFns, Gmon!SearchArcs, ProfileInv, SearchOK
<1>2. SlabOK(slab', records') /\ SamplerOK'
  BY <1>1 DEF ProfileInv, SamplerOK, Gmon!SamplesInside, Gmon!HistogramSize
<1>3. ListOK(fns) /\ Len(fns) \in Nat /\ SearchOK(fns, main) /\ clock \in BOOLEAN
  BY LenProperties DEF ProfileInv, ListOK, SamplerOK
<1>4. /\ main.fn \in Nat /\ main.arc \in Nat
      /\ main.fn # 0 => main.fn \in 1 .. Len(fns) /\ Len(fns[main.fn].arcs) \in Nat
                        /\ Len(fns[main.fn].arcs) >= 1
  <2>1. main.fn \in Nat /\ main.arc \in Nat /\ main.fn <= Len(fns)
    BY <1>1, <1>3 DEF Main, SearchOK
  <2>2. main.fn # 0 => main.fn \in 1 .. Len(fns)
    BY <1>3, <2>1
  <2>3. QED
    BY <1>3, <2>1, <2>2, EntryType
<1>5. CASE \E self, from \in Function : Gmon!mcount(self, from)
  <2>1. PICK self \in Function, from \in Function : Gmon!mcount(self, from)
    BY <1>5
  <2>2. main' = [pc |-> "head", self |-> self, from |-> from, fn |-> 0, arc |-> 0, count |-> 0,
                 clock |-> clock]
    BY <2>1 DEF Gmon!mcount, Gmon!Idle
  <2>3. SearchOK(fns, main') /\ main'.pc # "store"
    BY <1>3, <2>2 DEF SearchOK, Main, Labels
  <2>4. QED
    BY <1>1, <1>2, <2>3, Place_Inv
<1>6. CASE Gmon!SearchFns
  <2>1. CASE Gmon!At("head") /\ Gmon!LookAtFn(Len(fns))
    <3>1. main' = [main EXCEPT !.fn = Len(fns), !.pc = IF Len(fns) = 0 THEN "record" ELSE "fn"]
          /\ main.pc = "head"
      BY <2>1 DEF Gmon!At, Gmon!LookAtFn
    <3>2. PICK k \in Nat : k = Len(fns)
      BY <1>3
    <3>3. main' = [main EXCEPT !.fn = k, !.pc = IF k = 0 THEN "record" ELSE "fn"]
      BY <3>1, <3>2
    <3>4. /\ main' \in Main /\ main'.fn = k /\ main'.pc = (IF k = 0 THEN "record" ELSE "fn")
          /\ main'.self = main.self /\ main'.from = main.from
      BY <1>1, <3>3 DEF Main, Labels
    <3>5. main.self \in Function /\ main.from \in Function /\ k <= Len(fns)
      BY <1>3, <3>1, <3>2 DEF SearchOK
    <3>6. SearchOK(fns, main') /\ main'.pc # "store"
      BY <3>4, <3>5 DEF SearchOK
    <3>7. QED
      BY <1>1, <1>2, <3>6, Place_Inv
  <2>2. CASE Gmon!At("fn") /\ Gmon!LookAtFn(main.fn - 1)
    <3>1. main' = [main EXCEPT !.fn = main.fn - 1, !.pc = IF main.fn - 1 = 0 THEN "record" ELSE "fn"]
          /\ main.pc = "fn"
      BY <2>2 DEF Gmon!At, Gmon!LookAtFn
    <3>2. PICK k \in Nat : k = main.fn - 1 /\ k <= Len(fns)
      BY <1>3, <1>4, <3>1 DEF SearchOK
    <3>3. main' = [main EXCEPT !.fn = k, !.pc = IF k = 0 THEN "record" ELSE "fn"]
      BY <3>1, <3>2
    <3>4. SearchOK(fns, main') /\ main'.pc # "store"
      BY <1>1, <1>3, <3>1, <3>2, <3>3 DEF SearchOK, Main, Labels
    <3>5. QED
      BY <1>1, <1>2, <3>4, Place_Inv
  <2>3. CASE /\ Gmon!At("fn") /\ Gmon!Entry.self = main.self
             /\ main' = [main EXCEPT !.arc = Len(Gmon!Entry.arcs), !.pc = "arc"]
    <3>1. PICK j \in Nat : j = Len(fns[main.fn].arcs) /\ j >= 1 /\ main.fn # 0
      BY <1>3, <1>4, <2>3 DEF SearchOK, Gmon!At
    <3>2. /\ main.pc = "fn" /\ fns[main.fn].self = main.self
          /\ main' = [main EXCEPT !.arc = j, !.pc = "arc"]
      BY <2>3, <3>1 DEF Gmon!At, Gmon!Entry
    <3>3. j \in 1 .. Len(fns[main.fn].arcs)
      BY <3>1
    <3>4. SearchOK(fns, main') /\ main'.pc # "store"
      BY <1>1, <1>3, <3>1, <3>2, <3>3 DEF SearchOK, Main, Labels
    <3>5. QED
      BY <1>1, <1>2, <3>4, Place_Inv
  <2>4. QED
    BY <1>6, <2>1, <2>2, <2>3 DEF Gmon!SearchFns
<1>7. CASE Gmon!SearchArcs
  <2>0. /\ main.pc = "arc" /\ main.arc \in 1 .. Len(fns[main.fn].arcs) /\ main.fn # 0
        /\ fns[main.fn].self = main.self
    BY <1>3, <1>7 DEF Gmon!SearchArcs, Gmon!At, SearchOK
  <2>1. CASE Gmon!LookAtArc(main.arc - 1)
    <3>1. main' = [main EXCEPT !.arc = main.arc - 1, !.pc = IF main.arc - 1 = 0 THEN "record" ELSE "arc"]
      BY <2>1 DEF Gmon!LookAtArc
    <3>2. PICK j \in Nat : j = main.arc - 1 /\ (j # 0 => j \in 1 .. Len(fns[main.fn].arcs))
      BY <1>4, <2>0
    <3>3. main' = [main EXCEPT !.arc = j, !.pc = IF j = 0 THEN "record" ELSE "arc"]
      BY <3>1, <3>2
    <3>4. SearchOK(fns, main') /\ main'.pc # "store"
      BY <1>1, <1>3, <2>0, <3>2, <3>3 DEF SearchOK, Main, Labels
    <3>5. QED
      BY <1>1, <1>2, <3>4, Place_Inv
  <2>2. CASE Gmon!Entry.arcs[main.arc].from = main.from /\ Gmon!Goto("count")
    <3>1. fns[main.fn].arcs[main.arc].from = main.from /\ main' = [main EXCEPT !.pc = "count"]
      BY <2>2 DEF Gmon!Entry, Gmon!Goto
    <3>2. SearchOK(fns, main') /\ main'.pc # "store"
      BY <1>1, <1>3, <2>0, <3>1 DEF SearchOK, Main, Labels
    <3>3. QED
      BY <1>1, <1>2, <3>2, Place_Inv
  <2>3. QED
    BY <1>7, <2>1, <2>2 DEF Gmon!SearchArcs
<1>8. QED
  BY <1>5, <1>6, <1>7

\* The program loads the count it will increment.
LEMMA Load_Inv == ASSUME ProfileInv, Gmon!LoadCount PROVE ProfileInv'
<1>1. /\ UNCHANGED << fns, slab, records, pcsample_need_init, clock, started, touched, calls,
                      program_calls >>
      /\ main.pc = "count" /\ main \in Main
      /\ main' = [main EXCEPT !.pc = "store", !.count = fns[main.fn].arcs[main.arc].count]
  BY DEF Gmon!LoadCount, Gmon!At, Gmon!Entry, ProfileInv, SearchOK
<1>2. SlabOK(slab', records') /\ SamplerOK'
  BY <1>1 DEF ProfileInv, SamplerOK, Gmon!SamplesInside, Gmon!HistogramSize
<1>3. ListOK(fns) /\ Len(fns) \in Nat /\ SearchOK(fns, main) /\ CountsOK(fns, main, calls, program_calls)
  BY LenProperties DEF ProfileInv, ListOK
<1>4. /\ main.fn \in Nat /\ main.fn # 0 /\ main.fn <= Len(fns)
      /\ main.arc \in 1 .. Len(fns[main.fn].arcs)
  BY <1>1, <1>3 DEF SearchOK, Main
<1>5. main.fn \in 1 .. Len(fns)
  BY <1>3, <1>4
<1>6. PICK n \in Nat : n = fns[main.fn].arcs[main.arc].count
  BY <1>3, <1>4, <1>5, EntryType
<1>7. main' = [main EXCEPT !.pc = "store", !.count = n]
  BY <1>1, <1>6
<1>8. /\ main'.pc = "store" /\ main'.count = n /\ main'.fn = main.fn /\ main'.arc = main.arc
      /\ main'.self = main.self /\ main'.from = main.from /\ main' \in Main
  BY <1>1, <1>7 DEF Main, Labels
<1>9. SearchOK(fns, main')
  BY <1>1, <1>3, <1>6, <1>8 DEF SearchOK
<1>10. CountsOK(fns, main', calls, program_calls)
  <2>1. ASSUME NEW arc \in Gmon!Arc
        PROVE  program_calls[arc] + fns[main'.fn].arcs[main'.arc].count <= CountIn(fns, arc) + main'.count
    <3>1. program_calls[arc] <= CountIn(fns, arc) /\ program_calls[arc] \in Nat /\ CountIn(fns, arc) \in Int
      BY <1>3 DEF CountsOK
    <3>2. fns[main'.fn].arcs[main'.arc].count = n /\ main'.count = n
      BY <1>6, <1>8
    <3>3. QED
      BY <3>1, <3>2
  <2>2. QED
    BY <1>3, <2>1 DEF CountsOK
<1>11. QED
  BY <1>1, <1>2, <1>9, <1>10, Place_Inv

\* The steps around the start of the sampler.
LEMMA Sampler_Inv ==
  ASSUME ProfileInv,
         \/ Gmon!TestNeedInit \/ Gmon!ClearNeedInit \/ Gmon!nios2_pcsample_init \/ Gmon!SetNeedInit
         \/ Gmon!SetUpClock \/ \E pc \in 0 .. TextSize - 1 : Gmon!nios2_pcsample(pc)
  PROVE  ProfileInv'
<1>1. UNCHANGED << fns, records, calls, program_calls >>
  BY DEF Gmon!TestNeedInit, Gmon!ClearNeedInit, Gmon!nios2_pcsample_init, Gmon!SetNeedInit,
         Gmon!SetUpClock, Gmon!nios2_pcsample
<1>2. /\ SearchOK(fns, main) /\ main \in Main /\ SlabOK(slab, records) /\ SamplerOK
      /\ CountsOK(fns, main, calls, program_calls)
  BY DEF ProfileInv, SearchOK
<1>3. CASE Gmon!TestNeedInit
  <2>1. /\ main.pc = "record" /\ UNCHANGED << slab, pcsample_need_init, clock, started, touched >>
        /\ main' = [main EXCEPT !.pc = IF pcsample_need_init = 1 THEN "clear" ELSE "add"]
    BY <1>3 DEF Gmon!TestNeedInit, Gmon!At, Gmon!Goto
  <2>2. SearchOK(fns, main') /\ main'.pc # "store"
    BY <1>2, <2>1 DEF SearchOK, Main, Labels
  <2>3. SlabOK(slab', records') /\ SamplerOK'
    BY <1>1, <1>2, <2>1 DEF SamplerOK, Gmon!SamplesInside, Gmon!HistogramSize
  <2>4. QED
    BY <1>1, <2>2, <2>3, Place_Inv
<1>4. CASE Gmon!ClearNeedInit
  <2>1. /\ main.pc = "clear" /\ UNCHANGED << slab, clock, started, touched >>
        /\ pcsample_need_init' = 0 /\ main' = [main EXCEPT !.pc = "init"]
    BY <1>4 DEF Gmon!ClearNeedInit, Gmon!At, Gmon!Goto
  <2>2. SearchOK(fns, main') /\ main'.pc # "store"
    BY <1>2, <2>1 DEF SearchOK, Main, Labels
  <2>3. SlabOK(slab', records') /\ SamplerOK'
    BY <1>1, <1>2, <2>1 DEF SamplerOK, Gmon!SamplesInside, Gmon!HistogramSize
  <2>4. QED
    BY <1>1, <2>2, <2>3, Place_Inv
<1>5. CASE Gmon!nios2_pcsample_init
  <2>1. /\ SlabOK(Gmon!StartSampler.slab, records) /\ Gmon!StartSampler.again \in {0, 1}
        /\ Gmon!Started => started' \in Nat
    BY <1>2, SamplerStarts
  <2>2. PICK again \in {0, 1} : again = Gmon!StartSampler.again
    BY <2>1
  <2>3. /\ main.pc = "init" /\ slab' = Gmon!StartSampler.slab /\ started' \in Nat
        /\ UNCHANGED << pcsample_need_init, clock, touched >>
        /\ main' = [main EXCEPT !.pc = "result", !.count = again]
    BY <1>5, <2>1, <2>2 DEF Gmon!nios2_pcsample_init, Gmon!At
  <2>4. SearchOK(fns, main') /\ main'.pc # "store"
    <3>1. /\ main' \in Main /\ main'.fn = main.fn /\ main'.pc = "result" /\ main'.count = again
          /\ main'.self = main.self /\ main'.from = main.from
      <4>1. PICK n \in Nat : n = again
        OBVIOUS
      <4>2. main \in Main /\ main' = [main EXCEPT !.pc = "result", !.count = n]
        BY <1>2, <2>3, <4>1
      <4>3. /\ main' \in Main /\ main'.fn = main.fn /\ main'.pc = "result" /\ main'.count = n
            /\ main'.self = main.self /\ main'.from = main.from
        BY <4>2 DEF Main, Labels
      <4>4. QED
        BY <4>1, <4>3
    <3>2. QED
      BY <1>2, <2>3, <3>1 DEF SearchOK
  <2>5. SlabOK(slab', records') /\ SamplerOK'
    BY <1>1, <1>2, <2>1, <2>3 DEF SamplerOK, Gmon!SamplesInside, Gmon!HistogramSize
  <2>6. QED
    BY <1>1, <2>4, <2>5, Place_Inv
<1>6. CASE Gmon!SetNeedInit
  <2>1. /\ main.pc = "result" /\ UNCHANGED << slab, clock, started, touched >>
        /\ pcsample_need_init' = main.count /\ main' = [main EXCEPT !.pc = "add"]
    BY <1>6 DEF Gmon!SetNeedInit, Gmon!At, Gmon!Goto
  <2>2. SearchOK(fns, main') /\ main'.pc # "store" /\ main.count \in {0, 1}
    BY <1>2, <2>1 DEF SearchOK, Main, Labels
  <2>3. SlabOK(slab', records') /\ SamplerOK'
    BY <1>1, <1>2, <2>1, <2>2 DEF SamplerOK, Gmon!SamplesInside, Gmon!HistogramSize
  <2>4. QED
    BY <1>1, <2>2, <2>3, Place_Inv
<1>7. CASE Gmon!SetUpClock
  <2>1. UNCHANGED << slab, pcsample_need_init, started, touched, main >> /\ clock' = TRUE
    BY <1>7 DEF Gmon!SetUpClock
  <2>2. SlabOK(slab', records') /\ SamplerOK'
    BY <1>1, <1>2, <2>1 DEF SamplerOK, Gmon!SamplesInside, Gmon!HistogramSize
  <2>3. QED
    BY <1>1, <1>2, <2>1, <2>2, Place_Inv
<1>8. CASE \E pc \in 0 .. TextSize - 1 : Gmon!nios2_pcsample(pc)
  <2>1. PICK pc \in 0 .. TextSize - 1 : Gmon!nios2_pcsample(pc)
    BY <1>8
  <2>2. /\ UNCHANGED << slab, pcsample_need_init, clock, started, main >>
        /\ touched' = touched \cup {pc \div PCSAMPLE_BYTES_PER_BUCKET}
    BY <2>1 DEF Gmon!nios2_pcsample
  <2>3. WholeBuckets => pc \div PCSAMPLE_BYTES_PER_BUCKET < Gmon!HistogramSize
    <3>1. PICK d \in Nat, n \in Nat : d = PCSAMPLE_BYTES_PER_BUCKET /\ d > 0 /\ n = TextSize
      BY ProfilerConstants
    <3>2. PICK h \in Nat, q \in Nat : h = n \div d /\ q = pc \div d
      BY <3>1, ProfilerConstants, DivMod
    <3>3. SUFFICES ASSUME n % d = 0 PROVE q < h
      BY <3>1, <3>2 DEF WholeBuckets, Gmon!HistogramSize
    <3>4. n = d * h
      BY <3>1, <3>2, <3>3, DivMod
    <3>5. pc \in Nat /\ pc < n
      BY <3>1, ProfilerConstants
    <3>6. ~(pc >= d * h)
      BY <3>4, <3>5
    <3>7. ~(q >= h)
      BY <3>1, <3>2, <3>5, <3>6, DivBound
    <3>8. QED
      BY <3>7
  <2>4. SlabOK(slab', records') /\ SamplerOK'
    BY <1>1, <1>2, <2>2, <2>3 DEF SamplerOK, Gmon!SamplesInside, Gmon!HistogramSize
  <2>5. QED
    BY <1>1, <1>2, <2>2, <2>4, Place_Inv
<1>9. QED
  BY <1>3, <1>4, <1>5, <1>6, <1>7, <1>8

\* Every step of the profiler keeps the invariant.
LEMMA ProfileNext_Inv == ProfileInv /\ [Gmon!ProfilerNext]_(Gmon!vars) => ProfileInv'
<1> SUFFICES ASSUME ProfileInv, [Gmon!ProfilerNext]_(Gmon!vars) PROVE ProfileInv'
  OBVIOUS
<1>1. CASE UNCHANGED Gmon!vars
  BY <1>1 DEF Gmon!vars, ProfileInv, SamplerOK, Gmon!SamplesInside, Gmon!HistogramSize
<1>2. CASE Gmon!ProfilerNext
  <2>1. CASE \E self, from \in Function : Gmon!Interrupt(self, from)
    BY <2>1, Interrupt_Inv
  <2>2. QED
    BY <1>2, <2>1, Search_Inv, Load_Inv, Store_Inv, Recorded_Inv, Sampler_Inv DEF Gmon!ProfilerNext
<1>3. QED
  BY <1>1, <1>2

\* What the invariant says in the words of the module.
LEMMA ProfileInv_Implies ==
  ASSUME ProfileInv
  PROVE  /\ Gmon!ProfilerTypeOK /\ Gmon!NoEmptyFn /\ Gmon!CountsBetween /\ Gmon!CallsRecorded
         /\ Gmon!RecordsApart /\ (WholeBuckets => Gmon!SamplesInside)
<1>1. ListOK(fns) /\ Len(fns) \in Nat /\ DOMAIN fns = 1 .. Len(fns)
  BY LenProperties DEF ProfileInv, ListOK
<1>2. ASSUME NEW arc
      PROVE  Gmon!CopiesOf(arc) = CopiesIn(fns, arc) /\ Gmon!Counted(arc) = CountIn(fns, arc)
  <2>1. Gmon!CopiesOf(arc) = CopiesIn(fns, arc)
    BY DEF Gmon!CopiesOf, CopiesIn
  <2>2. Gmon!Counted(arc) = SumOver(fns, Gmon!CopiesOf(arc))
    BY DEF Gmon!Counted, SumOver
  <2>3. QED
    BY <2>1, <2>2 DEF CountIn
<1>3. Gmon!ProfilerTypeOK
  <2>1. SearchOK(fns, main) /\ main.fn \in Nat /\ slab \in SlabType /\ SamplerOK
    BY DEF ProfileInv, SearchOK, Main, SlabOK
  <2>2. main.fn \in 0 .. Len(fns)
    BY <1>1, <2>1 DEF SearchOK
  <2>3. main.pc = "arc" => main.arc \in 1 .. Len(Gmon!Entry.arcs)
    BY <2>1 DEF SearchOK, Gmon!Entry
  <2>4. slab.size \in 0 .. MCOUNT_SLAB_INCREMENT
    BY <2>1 DEF SlabType
  <2>5. QED
    BY <2>1, <2>2, <2>3, <2>4 DEF SamplerOK, Gmon!ProfilerTypeOK
<1>4. Gmon!NoEmptyFn
  BY <1>1 DEF ListOK, Gmon!NoEmptyFn
<1>5. Gmon!CountsBetween /\ Gmon!CallsRecorded
  BY <1>2 DEF ProfileInv, CountsOK, Gmon!CountsBetween, Gmon!CallsRecorded
<1>6. Gmon!RecordsApart
  <2>1. SlabOK(slab, records) /\ DOMAIN records = 1 .. Len(records) /\ slab \in SlabType
    BY LenProperties DEF ProfileInv, SlabOK
  <2>2. \A i, j \in DOMAIN records : i < j => records[i] + RecordSize <= records[j]
    BY <2>1 DEF SlabOK
  <2>3. ASSUME NEW i \in DOMAIN records PROVE records[i] + RecordSize <= slab.brk
    <3>1. records[i] \in Nat /\ i \in 1 .. Len(records)
      BY <2>1, ElementOfSeq DEF SlabOK
    <3>2. slab.ptr \in Nat /\ slab.size \in Nat /\ slab.brk \in Nat
      BY <2>1, ProfilerConstants DEF SlabType
    <3>3. PICK r \in Nat, z \in Nat, x \in Nat, y \in Nat, b \in Nat :
            r = records[i] /\ z = RecordSize /\ x = slab.ptr /\ y = slab.size /\ b = slab.brk
      BY <3>1, <3>2, ProfilerConstants
    <3>4. r + z <= x
      BY <2>1, <3>1, <3>3 DEF SlabOK
    <3>5. x + y <= b
      BY <2>1, <3>3 DEF SlabOK
    <3>6. QED
      BY <3>3, <3>4, <3>5
  <2>4. QED
    BY <2>2, <2>3 DEF Gmon!RecordsApart
<1>7. WholeBuckets => Gmon!SamplesInside
  BY DEF ProfileInv, SamplerOK
<1>8. QED
  BY <1>3, <1>4, <1>5, <1>6, <1>7

\* Each service has its own step; the others leave the profiler alone.
LEMMA MemoryNext_Profile ==
  ProfileInv /\ [MemoryNext]_<< service, vars, gmonVars, cacheVars >> => ProfileInv'
<1> SUFFICES ASSUME ProfileInv, [MemoryNext]_<< service, vars, gmonVars, cacheVars >>
             PROVE  ProfileInv'
  OBVIOUS
<1>1. [Gmon!ProfilerNext]_(Gmon!vars)
  BY DEF MemoryNext, gmonVars, Gmon!vars
<1>2. QED
  BY <1>1, ProfileNext_Inv

\* The invariant holds in every behaviour of the specification the run checks.
LEMMA MemorySpec_Profile == MemorySpec => []ProfileInv
<1>1. MemoryInit => ProfileInv
  BY ProfileInit_Inv DEF MemoryInit
<1>2. QED
  BY <1>1, MemoryNext_Profile, PTL DEF MemorySpec

\* What the lists and their memory promise, whatever the text's size.
CallsInProfile ==
  /\ Gmon!NoEmptyFn /\ Gmon!CountsBetween /\ Gmon!CallsRecorded /\ Gmon!RecordsApart

\* The program's calls are all in the profile, each arc with as many as the program made
\* or more and never with more than there were; no two entries share memory, and the
\* search never meets a function without an arc: for any number of functions, and an
\* interrupt routine that calls mcount between any two steps of its search (alt_gmon.c).
THEOREM ProfileCounts == MemorySpec => []CallsInProfile
<1>1. ProfileInv => CallsInProfile
  BY ProfileInv_Implies DEF CallsInProfile
<1>2. QED
  BY <1>1, MemorySpec_Profile, PTL

\* ProfilerInv whole: of a text that is a whole number of buckets (WholeBuckets) the
\* sampler counts each address inside its histogram as well.  nios2_pcsample_init rounds the
\* number of buckets down, so the tail of another text is counted behind the last.
THEOREM ProfileSafety == ASSUME WholeBuckets PROVE MemorySpec => []ProfileKept
<1>1. ProfileInv => ProfileKept
  BY ProfileInv_Implies DEF ProfileKept, Gmon!ProfilerInv
<1>2. QED
  BY <1>1, MemorySpec_Profile, PTL
================================================================================
