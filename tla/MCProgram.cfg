SPECIFICATION BenchSpec
CONSTANTS
    NumRegs = 2
    DataBits = 1
    ResetMdcEdges = 1
    ResetRxEdges = 1
    MaxPresses = 1
    WaitPeriod = 7
    WritesPerReg = 2
    FirstAddr = 1
    RamWords = 9
    DELIMITER = DELIMITER
    BEEFBEEF = BEEFBEEF
    ZERO = ZERO
    IMAGE = IMAGE
    Snapshots <- MCSnapshots
    LinesPerGroup = 2
    FifoLines = 1
    ProgramWords = {0, 8}
    BANNER = BANNER
    NEWLINE = NEWLINE
    BLANK = BLANK
    Addresses <- MCAddresses
    Words <- MCWords
INVARIANTS
    WriterSafe
    DumpShown
    LineReadable
PROPERTIES
    NoStaleWord
    Answered
    DumpingEnds
CHECK_DEADLOCK FALSE
