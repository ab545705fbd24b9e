SPECIFICATION MemorySpec
CONSTANTS
  __alt_heap_start = 4
  __alt_heap_limit = 20
  __alt_stack_limit = 4
  __alt_stack_pointer = 20
  ExceptionLimit = 40
  FrameSizes = {4, 8}
  ExceptionFrame = 4
  Increments <- MCBytes
  Function = {1, 2}
  MaxCalls = 4
  RecordSize = 2
  MCOUNT_SLAB_INCREMENT = 5
  TextSize = 4
  PCSAMPLE_BYTES_PER_BUCKET = 2
  LINE_SIZE = 2
  CacheLines = 2
  MemoryLines = 3
  Value = {0, 1}
  Regions <- MCRegions
INVARIANT
  NoCollision
CHECK_DEADLOCK FALSE
