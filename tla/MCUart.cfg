SPECIFICATION UartSpec
CONSTANTS
  BUF_LEN = 3
  DEFAULT_TIMEOUT = 2
  INT_MAX = 6
  TimeoutArgs = {3}
  FIFO_DEPTH = 2
  THRESHOLD = 1
  MaxCount = 2
  MaxOut = 4
  MaxIn = 3
INVARIANT
  NeverStuck
PROPERTIES
  ImplementsChannels
  CallsEnd
CHECK_DEADLOCK FALSE
