------------------------------ MODULE MdioLink ------------------------------
(***************************************************************************)
(* The management state machine and the PHY on the two ends of the MDIO    *)
(* pin, with the reset button.  The RAM writer is reduced to the handshake *)
(* it answers; Max10Top puts the real one in its place.                    *)
(***************************************************************************)
EXTENDS PhyDevice

CONSTANT PhyContents    \* the register files the PHY may power up with

ASSUME LinkAssumption ==
    /\ PhyContents \subseteq [PhyAddress -> Word]
    /\ NumRegs <= 2 ^ RegAddrBits
    /\ PreambleBits >= 1
    /\ PhyAddrBits >= 1
    \* A frame that a reset cuts short runs out before the wait is over: ...
    /\ PostRstWait > RegAddrBits + DataBits     \* ... its register and data, ...
    /\ PostRstWait + 2 >= CommandBits           \* ... or a header that nobody answers.

linkVars == <<mdioVars, phyVars, buttonVars, CPU_RESETn, phy_reg_write_done>>

LinkInit ==
    /\ SignalsInit
    /\ MdioInit
    /\ PhyInit
    /\ ButtonInit
    /\ phy_space \in PhyContents

\* A posedge of enet_mdc_clk: both ends sample the pin and move on.
MdcTick ==
    /\ \E level \in PinLevels : MdcEdge(level) /\ PhyEdge(level)
    /\ CountMdcEdge
    /\ UNCHANGED phy_reg_write_done

Press == PressButton /\ UNCHANGED <<mdioVars, phyVars, phy_reg_write_done>>

Release == ReleaseButton /\ UNCHANGED <<mdioVars, phyVars, phy_reg_write_done>>

\* What this side sees of an edge of ENETA_RX_CLK: out of reset the RAM writer
\* answers a request some time later, and it withdraws the answer when the
\* request or the design is gone.
RamAnswers ==
    /\ CPU_RESETn = 1 /\ write_phy_reg_space_to_ram = 1 /\ phy_reg_write_done = 0
    /\ phy_reg_write_done' = 1
    /\ CountRxEdge
    /\ UNCHANGED <<mdioVars, phyVars>>

RamWithdraws ==
    /\ CPU_RESETn = 0 \/ write_phy_reg_space_to_ram = 0
    /\ phy_reg_write_done = 1
    /\ phy_reg_write_done' = 0
    /\ CountRxEdge
    /\ UNCHANGED <<mdioVars, phyVars>>

RxSeesButton == CountRxEdge /\ UNCHANGED <<mdioVars, phyVars, phy_reg_write_done>>

LinkNext ==
    MdcTick \/ Press \/ Release \/ RamAnswers \/ RamWithdraws \/ RxSeesButton

\* The clocks run for ever and nobody holds the button for ever.
LinkFairness ==
    /\ WF_linkVars(MdcTick)
    /\ WF_linkVars(RamAnswers)
    /\ WF_linkVars(RxSeesButton)
    /\ WF_linkVars(Release)

LinkSpec == LinkInit /\ [][LinkNext]_linkVars /\ LinkFairness

-----------------------------------------------------------------------------
\* The types of the registers, the PHY and the button.
LinkTypeOK ==
    /\ SignalsTypeOK
    /\ MdioTypeOK
    /\ PhyTypeOK
    /\ ButtonTypeOK

\* What the write frame leaves in register 0: every bit of REG0_LOOPBACK one
\* place lower, below a bit that SEND_WRITE_CMD_s selects out of range.
LoopbackWords ==
    {[i \in 1 .. DataBits |-> IF i = 1 THEN top ELSE REG0_LOOPBACK[i - 1]] : top \in Bit}

\* altera_max_10.v:478-488 release the pin one edge before the PHY answers,
\* and a press must not let the preamble start while the PHY still does: the
\* two ends never drive ENET_MDIO at the same time.
NoContention == ~(write_enet_mdio = 1 /\ phy_drives = 1)

\* The PHY is ready for a frame when one starts: with the first command bit on
\* the wire it has seen a full preamble and is in no frame, whatever an earlier
\* frame or a reset in the middle of one left behind.
FrameStartsInStep ==
    \/ current_state = "SEND_READ_CMD_s" /\ enet_mdio_bit_count = 1
    \/ current_state = "SEND_WRITE_CMD_s" /\ enet_mdio_wr_cmd_count = 1
    => phy_frame = <<>> /\ phy_ones = PreambleBits

\* Both ends of the wire follow the same frame.
BusInStep == NoContention /\ FrameStartsInStep

\* The snapshot offered to the RAM writer is the PHY's register space, bit for
\* bit, register for register.
SnapshotExact ==
    write_phy_reg_space_to_ram = 1 =>
        \A r \in RegIndex : phy_reg[r] = phy_space[AddressOf(r)]

\* Frames are sent only to a PHY that is in loopback, and the snapshot says so.
TrafficOnlyInLoopback ==
    start_loopback_traffic = 1 => /\ phy_space[AddressOf(0)] \in LoopbackWords
                                  /\ phy_reg[0] = phy_space[AddressOf(0)]

\* Both snapshots say what the PHY holds.
SnapshotsTrue == SnapshotExact /\ TrafficOnlyInLoopback

\* While the RAM writer may be copying, the words it copies stand still.
SnapshotStable ==
    [][write_phy_reg_space_to_ram = 1 /\ write_phy_reg_space_to_ram' = 1
         => UNCHANGED phy_reg]_linkVars

\* The addresses that a run of zeros and a run of ones make.
TornAddresses ==
    {[i \in 1 .. RegAddrBits |-> IF i > k THEN 1 ELSE 0] : k \in 0 .. RegAddrBits}

\* The only register the design changes in the PHY is register 0, to the
\* loopback word.  A press in the middle of the write frame leaves the rest of
\* it to the pull-up: what is then overwritten is a register with one of the
\* TornAddresses, while the design is still starting over.
PhyWrites ==
    [][phy_space' # phy_space =>
         \E r \in PhyAddress :
            /\ phy_space' = [phy_space EXCEPT ![r] = phy_space'[r]]
            /\ \/ /\ current_state = "SEND_WRITE_DATA_s"
                  /\ r = AddressOf(0) /\ phy_space'[r] \in LoopbackWords
               \/ /\ current_state \in {"RESET_s", "POST_RST_WAIT_s"}
                  /\ r \in TornAddresses]_linkVars

\* The bring-up always ends with the snapshot of a PHY in loopback and the
\* go-ahead for traffic, which stays once the button is left alone.
BringUpEnds == <>[](start_loopback_traffic = 1)

-----------------------------------------------------------------------------
\* What keeps LinkTypeOK true: in each state, the counters that state tests have
\* not passed the value it tests for, ...
CountersInStep ==
    /\ current_state = "POST_RST_WAIT_s" => phy_wait_after_reset_count <= PostRstWait
    /\ current_state \in {"POST_RST_WAIT_s", "PHY_PREAMBLE_s", "WAIT_FOR_RAM_WRITE_s",
                         "ENABLE_LOOPBACK_s", "SEND_WRITE_CMD_s", "SEND_WRITE_DATA_s"}
          => enet_mdio_bit_count = 0
    /\ current_state = "SEND_READ_CMD_s" => enet_mdio_bit_count <= CommandBits
    /\ current_state = "SEND_WRITE_CMD_s" =>
          enet_mdio_wr_cmd_count <= CommandBits + 2 /\ enet_mdio_write_count = 0
    /\ current_state = "SEND_WRITE_DATA_s" => enet_mdio_write_count < DataBits
    /\ current_state = "READ_s" => enet_mdio_read_count < DataBits
    /\ current_state \notin {"RESET_s", "READ_s", "STORE_READ_DATA_s"}
          => enet_mdio_read_count = 0
    /\ current_state \notin {"RESET_s", "WAIT_FOR_RAM_WRITE_s"}
          => phy_registers_read < NumRegs

\* ... and the PHY has a bit to send whenever it drives the pin.
PhyInStep ==
    /\ ~HeaderComplete => phy_shift = <<>>
    /\ phy_drives = 0 /\ HeaderComplete /\ OperationOf(phy_frame) = PHY_READ
          => phy_shift = <<>>
    /\ phy_drives = 1 => /\ HeaderComplete /\ OperationOf(phy_frame) = PHY_READ
                         /\ phy_shift # <<>>

LinkInv == LinkTypeOK /\ CountersInStep /\ PhyInStep

-----------------------------------------------------------------------------
\* The abstract scan this side implements, seen from the state machine.
ScanPhase ==
    IF current_state \in {"RESET_s", "POST_RST_WAIT_s"} THEN "off"
    ELSE IF current_state = "WAIT_FOR_RAM_WRITE_s"
         THEN IF reg0_in_loopback = 1 THEN "traffic" ELSE "save"
    ELSE IF \/ current_state \in {"ENABLE_LOOPBACK_s", "SEND_WRITE_CMD_s", "SEND_WRITE_DATA_s"}
            \/ set_reg0_to_loopback = 1
         THEN "configure"
    ELSE IF reg0_in_loopback = 1 THEN "rescan" ELSE "scan"

Scan == INSTANCE RegisterScan WITH
    Registers <- RegIndex,
    Last <- NumRegs - 1,
    Device <- PhyAddress,
    TornDevice <- TornAddresses,
    Address <- AddressOf,
    Values <- Word,
    Blank <- ZeroWord,
    phase <- ScanPhase,
    next <- IF ScanPhase \in {"scan", "rescan"} THEN phy_registers_read ELSE 0,
    snapshot <- phy_reg,
    device <- phy_space

\* Bit-serial MDIO frames with their preambles, turnarounds and shifted data
\* implement reading and writing whole registers.
ImplementsScan == Scan!Spec
=============================================================================
