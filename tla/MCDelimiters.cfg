SPECIFICATION Spec
CONSTANTS
    NumRegs = 2
    DataBits = 2
    PhyAddrBits = 1
    RegAddrBits = 1
    PreambleBits = 2
    PreambleWrap = 4
    PostRstWait = 4
    REG0_LOOPBACK <- MCLoopback
    ResetMdcEdges = 2
    ResetRxEdges = 1
    MaxPresses = 0
    PhyContents <- MCContents
    WaitPeriod = 8
    WritesPerReg = 2
    FirstAddr = 2
    RamWords = 12
    DELIMITER = DELIMITER
    BEEFBEEF = BEEFBEEF
    ZERO = ZERO
    IMAGE = IMAGE
    FieldBits <- MCFields
    NO_BIT = NO_BIT
    MaxMdcPerRx = 2
PROPERTY DelimitersNotCounted
