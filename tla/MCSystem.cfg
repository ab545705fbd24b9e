SPECIFICATION SystemSpec
CONSTANTS
  ALT_LOG_WRITE_ECHO_LEN = 3
  FifoDepth = 1
  Data <- MCData
  IsrData <- MCIsrData
  Interval = 1
  MaxTicks = 2
  MaxHits = 2
  Word = 256
  Args = {0, 1, 9, 10, 127, 128, 200, 255}
  Strings <- MCStrings
  Digits = {"0", "1", "3"}
  MaxFormat = 5
  MaxWidth = 13
  Sections <- MCSections
  Bss <- MCBss
  Image <- MCImage
  Words = {8, 9}
  Constructors = 2
  MaxResets = 2
  Kind = {"tx", "rx", "flash"}
  Name = {n1, n2}
  NoName = NoName
  MaxDevices = 4
INVARIANTS
  LogKept
  FormatKept
  StartsClean
  DevicesFound
CHECK_DEADLOCK FALSE
