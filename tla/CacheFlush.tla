------------------------------ MODULE CacheFlush -------------------------------
(* The HAL's cache calls on a processor with caches: a data cache that keeps what  *)
(* the program stores until a line is evicted or flushed, an instruction cache,    *)
(* both with one place for a line (direct mapped), and a device that reads and     *)
(* writes the memory itself.  The calls name addresses; the caches work in lines.  *)
EXTENDS Integers

CONSTANTS LINE_SIZE,       \* NIOS2_DCACHE_LINE_SIZE and NIOS2_ICACHE_LINE_SIZE
          CacheLines,      \* NIOS2_xCACHE_SIZE / LINE_SIZE
          MemoryLines, Value,
          Regions          \* << start, len >>: what the program flushes

CacheAssumption ==
  /\ LINE_SIZE \in Nat /\ LINE_SIZE % 2 = 0 /\ LINE_SIZE > 0
  /\ CacheLines \in Nat \ {0} /\ MemoryLines \in Nat

VARIABLES mem,
          dcache,      \* place |-> [line, dirty, data], or NoLine
          icache,      \* place |-> line, or -1
          block        \* the uncached block: its bytes, and whether it is cached again
vars == << mem, dcache, icache, block >>

Size == LINE_SIZE * MemoryLines
CACHE_SIZE == LINE_SIZE * CacheLines
Address == 0 .. Size - 1
Place == 0 .. CacheLines - 1
NoLine == [line |-> -1, dirty |-> FALSE]
LineOf(a) == a \div LINE_SIZE
PlaceOf(line) == line % CacheLines
Holds(cache, a) == cache[PlaceOf(LineOf(a))].line = LineOf(a)
Cached(a) == Holds(dcache, a)
\* What a load at a gives.
ViewOf(m, cache, a) ==
  IF Holds(cache, a) THEN cache[PlaceOf(LineOf(a))].data[a % LINE_SIZE] ELSE m[a]
View(a) == ViewOf(mem, dcache, a)

CacheInit ==
  /\ mem = [a \in Address |-> CHOOSE v \in Value : TRUE]
  /\ dcache = [p \in Place |-> NoLine] /\ icache = [p \in Place |-> -1]
  /\ block = [bytes |-> {}, cached |-> FALSE]

----------------------------------------------------------------------------
(* The processor. *)
WrittenBack(places) ==
  [a \in Address |-> IF Cached(a) /\ PlaceOf(LineOf(a)) \in places
                       /\ dcache[PlaceOf(LineOf(a))].dirty
                     THEN View(a) ELSE mem[a]]
Emptied(cache, places, empty) == [p \in Place |-> IF p \in places THEN empty ELSE cache[p]]

\* The line of a, as a load finds or fills it.
Filled(a) == [k \in 0 .. LINE_SIZE - 1 |-> View(LineOf(a) * LINE_SIZE + k)]
CachedAccess(a) == a \notin block.bytes \/ block.cached

Load(a) ==
  /\ CachedAccess(a) /\ ~Cached(a)
  /\ mem' = WrittenBack({PlaceOf(LineOf(a))})
  /\ dcache' = [dcache EXCEPT ![PlaceOf(LineOf(a))] =
                  [line |-> LineOf(a), dirty |-> FALSE, data |-> Filled(a)]]
  /\ UNCHANGED << icache, block >>

Store(a, v) ==
  /\ CachedAccess(a)
  /\ mem' = IF Cached(a) THEN mem ELSE WrittenBack({PlaceOf(LineOf(a))})
  /\ dcache' = [dcache EXCEPT ![PlaceOf(LineOf(a))] =
                  [line |-> LineOf(a), dirty |-> TRUE,
                   data |-> [Filled(a) EXCEPT ![a % LINE_SIZE] = v]]]
  /\ UNCHANGED << icache, block >>

\* The program past the cache, or a device.
StoreMemory(a, v) ==
  /\ a \in block.bytes /\ ~block.cached
  /\ mem' = [mem EXCEPT ![a] = v] /\ UNCHANGED << dcache, icache, block >>

Fetch(line) ==
  /\ icache' = [icache EXCEPT ![PlaceOf(line)] = line] /\ UNCHANGED << mem, dcache, block >>

----------------------------------------------------------------------------
(* The calls. *)
NumLines(len) == (len + LINE_SIZE - 1) \div LINE_SIZE

LoopLinesAligned(start, len) ==      \* mutant: no line more for an unaligned start
  {LineOf(start + k * LINE_SIZE) : k \in 0 .. NumLines(len) - 1}
\* The lines the loop of a flush reaches, and the line more for an unaligned start.
LoopLines(start, len) ==
  {LineOf(start + k * LINE_SIZE) :
     k \in 0 .. NumLines(len) - (IF start % LINE_SIZE = 0 THEN 1 ELSE 0)}

\* flushda and initda look for the line; flushd and flushi empty its place.
HoldingPlaces(lines) == {p \in Place : dcache[p].line \in lines}

Flushed(lines) == Emptied(dcache, HoldingPlaces(lines), NoLine)
MemFlushed(lines) == WrittenBack(HoldingPlaces(lines))

alt_dcache_flush(start, len) ==
  /\ mem' = MemFlushed(LoopLines(start, len)) /\ dcache' = Flushed(LoopLines(start, len))
  /\ UNCHANGED << icache, block >>

alt_dcache_flush_no_writeback(start, len) ==
  /\ dcache' = Flushed(LoopLines(start, len))
  /\ UNCHANGED << mem, icache, block >>

alt_dcache_flush_all ==
  LET places == {PlaceOf(l) : l \in LoopLines(0, CACHE_SIZE)} IN
  /\ mem' = WrittenBack(places) /\ dcache' = Emptied(dcache, places, NoLine)
  /\ UNCHANGED << icache, block >>

\* A longer region than the cache has places for empties them all.
InstructionsFlushed(start, len) ==
  Emptied(icache,
    {PlaceOf(l) : l \in LoopLines(start, IF len > CACHE_SIZE THEN CACHE_SIZE ELSE len)}, -1)
alt_icache_flush(start, len) ==
  /\ icache' = InstructionsFlushed(start, len)
  /\ UNCHANGED << mem, dcache, block >>
alt_icache_flush_all == alt_icache_flush(0, CACHE_SIZE)

AllocatedSize(size) == NumLines(size) * LINE_SIZE

\* memalign gives whole lines, of which the cache keeps nothing.
alt_uncached_malloc(size) ==
  /\ block.bytes = {}
  /\ \E line \in 0 .. MemoryLines - 1 :
       LET ptr == line * LINE_SIZE
           lines == LoopLines(ptr, AllocatedSize(size))
       IN /\ ptr + AllocatedSize(size) - 1 \in Address
          /\ block' = [bytes |-> ptr .. ptr + AllocatedSize(size) - 1, cached |-> FALSE]
          /\ mem' = MemFlushed(lines) /\ dcache' = Flushed(lines)
  /\ UNCHANGED icache

alt_remap_cached ==
  /\ block.bytes # {} /\ block' = [block EXCEPT !.cached = TRUE]
  /\ UNCHANGED << mem, dcache, icache >>
alt_uncached_free ==
  /\ block.bytes # {} /\ block' = [bytes |-> {}, cached |-> FALSE]
  /\ UNCHANGED << mem, dcache, icache >>

Bytes(r) == r[1] .. r[1] + r[2] - 1

DataNext ==
  \/ \E a \in Address : Load(a) \/ \E v \in Value : Store(a, v) \/ StoreMemory(a, v)
  \/ \E r \in Regions : \/ alt_dcache_flush(r[1], r[2])
                        \/ alt_dcache_flush_no_writeback(r[1], r[2])
  \/ alt_dcache_flush_all
  \/ \E size \in 1 .. 2 * LINE_SIZE : alt_uncached_malloc(size)
  \/ alt_remap_cached \/ alt_uncached_free

InstructionNext ==
  \/ \E line \in 0 .. MemoryLines - 1 : Fetch(line)
  \/ \E r \in Regions : alt_icache_flush(r[1], r[2])
  \/ alt_icache_flush_all

----------------------------------------------------------------------------
\* An uncached block shares no line with cached data, whatever its size: neither a
\* fill nor an eviction can come between the program and the device.
UncachedApart == ~block.cached => \A a \in block.bytes : ~Cached(a)

\* Whatever region is flushed next, however it lies in its lines: nothing of it is
\* left in the cache, the device sees there what the program stored, and the program
\* goes on seeing what it stored everywhere; a region whose lines are discarded shows
\* the program what the device sees; no instruction of a region flushed is kept.
FlushReachesRegion ==
  \A r \in {s \in Address \X (0 .. Size) : s[1] + s[2] <= Size} :
    LET lines == LoopLines(r[1], r[2])
        m == MemFlushed(lines)
        cache == Flushed(lines)
    IN /\ \A a \in Bytes(r) :
            /\ m[a] = View(a) /\ ~Holds(cache, a)
            /\ ViewOf(mem, cache, a) = mem[a]
            /\ InstructionsFlushed(r[1], r[2])[PlaceOf(LineOf(a))] # LineOf(a)
       /\ \A a \in Address : ViewOf(m, cache, a) = View(a)
================================================================================
