SPECIFICATION ServicesSpec
CONSTANTS
  Alarm = {a1, a2, a3}
  Head = Head
  Period = {1, 2}
  MaxTicks = 6
  CallbacksStopOthers = FALSE
  US = 10
  Rates = {2, 5}
  WordSize = 4
  Times <- MCTimes
  Zones = {0, 1}
  MHZ = 7
  CYCLES_PER_LOOP = 3
  INT_MAX = 63
  Delays <- MCDelays
INVARIANT TimeKept
PROPERTY
  ImplementsAlarmSet
CHECK_DEADLOCK FALSE
