SPECIFICATION LinkSpec
CONSTANTS
    NumRegs = 32
    DataBits = 16
    PhyAddrBits = 5
    RegAddrBits = 5
    PreambleBits = 32
    PreambleWrap = 64
    PostRstWait = 22
    REG0_LOOPBACK <- MCLoopback
    ResetMdcEdges = 2
    ResetRxEdges = 1
    MaxPresses = 1
    PhyContents <- MCContents
INVARIANTS
    BusInStep
    SnapshotsTrue
PROPERTIES
    SnapshotStable
    PhyWrites
    BringUpEnds
    ImplementsScan
