SPECIFICATION FairCpuSpec
CONSTANTS
  a = a
  NULL = NULL
  ALT_NIRQ = 3
  Isr = {a}
  IdArgs <- MCIds
  IsrsConfigure = "alone"
  Program <- MCProgram
  Emulates = {"multiply"}
  DEBUG_STUB = TRUE
  EXTRA_INFO = TRUE
INVARIANTS
  InterruptsInv
  InstructionsOnce
PROPERTY
  UrgentServed
CHECK_DEADLOCK FALSE
