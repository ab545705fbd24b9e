------------------------------- MODULE MCMemory --------------------------------
(* The services that look after memory; they share nothing, so a behaviour uses   *)
(* one of them. The heap: contiguous with the stack as this BSP links them, 16     *)
(* bytes of both, frames of one and two words, requests of words and of bytes. The *)
(* profiler: two functions that call each other, a slab of two entries and half a  *)
(* third. The caches: lines of two bytes, two places for three lines.              *)
EXTENDS Heap

CONSTANTS Function, MaxCalls, RecordSize, MCOUNT_SLAB_INCREMENT,
          TextSize, PCSAMPLE_BYTES_PER_BUCKET,
          LINE_SIZE, CacheLines, MemoryLines, Value, Regions

VARIABLES service,
          fns, slab, records, pcsample_need_init, clock, started, touched, main, calls,
          program_calls,
          mem, dcache, icache, block

Gmon == INSTANCE Profiler
Cache == INSTANCE CacheFlush
ASSUME MemoryAssumption == Gmon!ProfilerAssumption /\ Cache!CacheAssumption

gmonVars == << fns, slab, records, pcsample_need_init, clock, started, touched, main, calls,
               program_calls >>
cacheVars == << mem, dcache, icache, block >>

MCBytes == {-4, 0, 1, 4, 6, 8}
\* Of a whole line, across two lines, longer than the cache.
MCRegions == {<< 0, 2 >>, << 1, 2 >>, << 1, 5 >>}

MemoryInit ==
  /\ service \in {"heap", "profiler", "data", "instructions"}
  /\ HeapInit /\ Gmon!ProfilerInit /\ Cache!CacheInit
  /\ service # "heap" => build = [stack_check |-> FALSE, exception_stack |-> FALSE]
MemoryNext ==
  /\ \/ service = "heap" /\ HeapNext /\ UNCHANGED << gmonVars, cacheVars >>
     \/ service = "profiler" /\ Gmon!ProfilerNext /\ UNCHANGED << vars, cacheVars >>
     \/ service = "data" /\ Cache!DataNext /\ UNCHANGED << vars, gmonVars >>
     \/ service = "instructions" /\ Cache!InstructionNext /\ UNCHANGED << vars, gmonVars >>
  /\ UNCHANGED service
MemorySpec == MemoryInit /\ [][MemoryNext]_<< service, vars, gmonVars, cacheVars >>

\* The call graph a profile is made of is that of the calls, whatever the
\* interrupts do to the lists while they are searched.
ProfileKept == service = "profiler" => Gmon!ProfilerInv

\* The cache calls reach the bytes they name, and an uncached block stays apart.
CachesFlushed ==
  service \in {"data", "instructions"} => Cache!UncachedApart /\ Cache!FlushReachesRegion
================================================================================
