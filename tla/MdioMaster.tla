----------------------------- MODULE MdioMaster -----------------------------
(***************************************************************************)
(* The management-interface state machine of altera_max_10.v: it reads     *)
(* every PHY register over MDIO, asks the RAM writer to save the snapshot, *)
(* sets the PHY's register 0 to loopback and reads everything once more.   *)
(*                                                                         *)
(* One action per state of current_state, each one a posedge of            *)
(* enet_mdc_clk: the state register, the next-state logic and the datapath *)
(* block together.  turnaround_z_done, turnaround_0_ignored (never read)   *)
(* and reg_LED1 (always equal to write_phy_reg_space_to_ram) are left out; *)
(* serial_wr_cmd_to_phy and serial_wr_data_to_phy only ever hold the       *)
(* constants WriteCommand and REG0_LOOPBACK.                               *)
(***************************************************************************)
EXTENDS Max10Signals

CONSTANTS
    PhyAddrBits,      \* width of a PHY address: 5
    RegAddrBits,      \* width of a register address: 5
    PreambleBits,     \* phy_preamble_count at which the preamble ends: 32
    PreambleWrap,     \* 2^6, the width of phy_preamble_count
    PostRstWait,      \* 12500000, or 12 under COCOTB_SIM
    REG0_LOOPBACK     \* the word shifted out by the write frame: 16'hA280

ASSUME MdioAssumption ==
    /\ PhyAddrBits \in Nat
    /\ RegAddrBits \in Nat
    /\ PreambleBits \in Nat
    /\ PreambleWrap \in Nat
    /\ PreambleBits < PreambleWrap
    /\ PostRstWait \in Nat
    /\ REG0_LOOPBACK \in Word

VARIABLES
    current_state,
    phy_wait_after_reset_count,
    phy_preamble_count,
    enet_mdio_bit_count,
    enet_mdio_wr_cmd_count,
    enet_mdio_write_count,
    enet_mdio_read_count,
    serial_rd_cmd_to_phy,
    bits_read_from_phy,
    phy_registers_read,
    set_reg0_to_loopback,
    reg0_in_loopback,
    enet_mdio,            \* the bit put on the wire ...
    write_enet_mdio       \* ... while this is 1, else the pin is 'z'

counters == <<enet_mdio_bit_count, enet_mdio_wr_cmd_count,
              enet_mdio_write_count, enet_mdio_read_count>>
requests == <<write_phy_reg_space_to_ram, start_loopback_traffic>>
loopbackFlags == <<set_reg0_to_loopback, reg0_in_loopback>>
wire == <<enet_mdio, write_enet_mdio>>
mdioVars == <<current_state, phy_wait_after_reset_count, phy_preamble_count,
              counters, serial_rd_cmd_to_phy, bits_read_from_phy,
              phy_registers_read, loopbackFlags, wire, requests, phy_reg>>

-----------------------------------------------------------------------------
PHY_READ == <<0, 1, 1, 0>>
PHY_WRITE == <<0, 1, 0, 1>>
PHY_WR_TURNAROUND == <<1, 0>>

\* n as a vector of w bits.
Bits(n, w) == [i \in 1 .. w |-> IF (n \div 2 ^ (w - i)) % 2 = 1 THEN 1 ELSE 0]

CommandBits == 4 + PhyAddrBits + RegAddrBits
PHY_ADDR == [i \in 1 .. PhyAddrBits |-> 0]
ReadCommand(r) == PHY_READ \o PHY_ADDR \o Bits(r, RegAddrBits)
\* Mutant: the write frame is addressed to register 1.
WriteCommandToRegister1 ==
    PHY_WRITE \o PHY_ADDR \o Bits(1, RegAddrBits) \o PHY_WR_TURNAROUND
WriteCommand == PHY_WRITE \o PHY_ADDR \o Bits(0, RegAddrBits) \o PHY_WR_TURNAROUND

\* The bit a vector yields at an index counted down from its top: reading
\* below bit 0 is undefined, so either value.
SelectedBit(v, width, count) == IF count < width THEN {v[count + 1]} ELSE Bit

\* The conditions on which the next-state logic leaves a state.  The counters
\* are tested before they are incremented on the same edge, so a preamble is
\* PreambleBits + 1 ones, and a command has one bit more than its vector.
PostRstWaited == phy_wait_after_reset_count = PostRstWait

PreambleDone == phy_preamble_count = PreambleBits

ReadCommandDoneLate == enet_mdio_bit_count = CommandBits + 1     \* mutant
ReadCommandDone == enet_mdio_bit_count = CommandBits

WriteCommandDone == enet_mdio_wr_cmd_count = CommandBits + 2

WordWritten == enet_mdio_write_count = DataBits - 1

WordReadEarly == enet_mdio_read_count = DataBits - 2     \* mutant
WordRead == enet_mdio_read_count = DataBits - 1

LastRegisterLate == phy_registers_read = NumRegs     \* mutant
LastRegister == phy_registers_read = NumRegs - 1

RamSavedUnasked == reg0_in_loopback = 0                                  \* mutant
RamSavedTwice == phy_reg_write_done = 1 /\ reg0_in_loopback = 1          \* mutant
RamSaved == phy_reg_write_done = 1 /\ reg0_in_loopback = 0

\* What current_state becomes when the next-state logic chooses s.
Goto(s) == IF CPU_RESETn = 0 THEN "RESET_s" ELSE s

-----------------------------------------------------------------------------
\* MAX 10 registers power up at 0, which is the code of RESET_s.
MdioInit ==
    /\ current_state = "RESET_s"
    /\ phy_wait_after_reset_count = 0
    /\ phy_preamble_count = 0
    /\ enet_mdio_bit_count = 0
    /\ enet_mdio_wr_cmd_count = 0
    /\ enet_mdio_write_count = 0
    /\ enet_mdio_read_count = 0
    /\ serial_rd_cmd_to_phy = [i \in 1 .. CommandBits |-> 0]
    /\ bits_read_from_phy = ZeroWord
    /\ phy_registers_read = 0
    /\ set_reg0_to_loopback = 0
    /\ reg0_in_loopback = 0
    /\ enet_mdio = 0
    /\ write_enet_mdio = 0

Reset ==
    /\ current_state = "RESET_s"
    /\ current_state' = Goto("POST_RST_WAIT_s")
    /\ write_enet_mdio' = 0
    /\ enet_mdio_bit_count' = 0
    /\ enet_mdio_wr_cmd_count' = 0
    /\ enet_mdio_write_count' = 0
    /\ enet_mdio_read_count' = 0
    /\ phy_wait_after_reset_count' = 0
    /\ phy_preamble_count' = 0
    /\ write_phy_reg_space_to_ram' = 0
    /\ start_loopback_traffic' = 0
    /\ set_reg0_to_loopback' = 0
    /\ reg0_in_loopback' = 0
    /\ bits_read_from_phy' = ZeroWord
    /\ phy_reg' = [r \in RegIndex |-> ZeroWord]
    /\ phy_registers_read' = 0
    /\ serial_rd_cmd_to_phy' = ReadCommand(phy_registers_read)
    /\ UNCHANGED enet_mdio

PostRstWaiting ==
    /\ current_state = "POST_RST_WAIT_s"
    /\ current_state' = Goto(IF PostRstWaited THEN "PHY_PREAMBLE_s" ELSE "POST_RST_WAIT_s")
    /\ phy_wait_after_reset_count' = phy_wait_after_reset_count + 1
    /\ UNCHANGED <<phy_preamble_count, counters, serial_rd_cmd_to_phy,
                   bits_read_from_phy, phy_registers_read, loopbackFlags,
                   wire, requests, phy_reg>>

\* After a write frame the count starts from 33, not 0, and runs round its 6
\* bits: that preamble is longer than the others, never shorter.
Preamble ==
    /\ current_state = "PHY_PREAMBLE_s"
    /\ current_state' = Goto(IF ~PreambleDone THEN "PHY_PREAMBLE_s"
                             ELSE IF set_reg0_to_loopback = 1 THEN "SEND_WRITE_CMD_s"
                             ELSE "SEND_READ_CMD_s")
    /\ write_enet_mdio' = 1
    /\ enet_mdio' = 1
    /\ phy_preamble_count' = (phy_preamble_count + 1) % PreambleWrap
    /\ enet_mdio_write_count' = 0
    /\ enet_mdio_wr_cmd_count' = 0
    /\ UNCHANGED <<phy_wait_after_reset_count, enet_mdio_bit_count,
                   enet_mdio_read_count, serial_rd_cmd_to_phy, bits_read_from_phy,
                   phy_registers_read, loopbackFlags, requests, phy_reg>>

\* The first bit is taken from the word of the register read before.
SendReadCmd ==
    /\ current_state = "SEND_READ_CMD_s"
    /\ current_state' = Goto(IF ReadCommandDone THEN "TURNAROUND_z_s" ELSE "SEND_READ_CMD_s")
    /\ write_enet_mdio' = 1
    /\ serial_rd_cmd_to_phy' = ReadCommand(phy_registers_read)
    /\ enet_mdio' \in SelectedBit(serial_rd_cmd_to_phy, CommandBits, enet_mdio_bit_count)
    /\ enet_mdio_bit_count' = enet_mdio_bit_count + 1
    /\ UNCHANGED <<phy_wait_after_reset_count, phy_preamble_count,
                   enet_mdio_wr_cmd_count, enet_mdio_write_count, enet_mdio_read_count,
                   bits_read_from_phy, phy_registers_read, loopbackFlags, requests,
                   phy_reg>>

SendWriteCmd ==
    /\ current_state = "SEND_WRITE_CMD_s"
    /\ current_state' = Goto(IF WriteCommandDone THEN "SEND_WRITE_DATA_s"
                             ELSE "SEND_WRITE_CMD_s")
    /\ write_enet_mdio' = 1
    /\ enet_mdio' \in SelectedBit(WriteCommand, CommandBits + 2, enet_mdio_wr_cmd_count)
    /\ enet_mdio_wr_cmd_count' = enet_mdio_wr_cmd_count + 1
    /\ UNCHANGED <<phy_wait_after_reset_count, phy_preamble_count, enet_mdio_bit_count,
                   enet_mdio_write_count, enet_mdio_read_count, serial_rd_cmd_to_phy,
                   bits_read_from_phy, phy_registers_read, loopbackFlags, requests,
                   phy_reg>>

SendWriteData ==
    /\ current_state = "SEND_WRITE_DATA_s"
    /\ current_state' = Goto(IF WordWritten THEN "PHY_PREAMBLE_s" ELSE "SEND_WRITE_DATA_s")
    /\ set_reg0_to_loopback' = 0
    /\ reg0_in_loopback' = 1
    /\ write_enet_mdio' = 1
    /\ enet_mdio' \in SelectedBit(REG0_LOOPBACK, DataBits, enet_mdio_write_count)
    /\ enet_mdio_write_count' = enet_mdio_write_count + 1
    /\ UNCHANGED <<phy_wait_after_reset_count, phy_preamble_count, enet_mdio_bit_count,
                   enet_mdio_wr_cmd_count, enet_mdio_read_count, serial_rd_cmd_to_phy,
                   bits_read_from_phy, phy_registers_read, requests, phy_reg>>

Turnaround ==
    /\ \/ /\ current_state = "TURNAROUND_z_s"
          /\ current_state' = Goto("TURNAROUND_0_s")
       \/ /\ current_state = "TURNAROUND_0_s"
          /\ current_state' = Goto("READ_s")
    /\ write_enet_mdio' = 0
    /\ UNCHANGED <<phy_wait_after_reset_count, phy_preamble_count, counters,
                   serial_rd_cmd_to_phy, bits_read_from_phy, phy_registers_read,
                   loopbackFlags, enet_mdio, requests, phy_reg>>

\* line is the level of ENET_MDIO before the edge.
Read(line) ==
    /\ current_state = "READ_s"
    /\ current_state' = Goto(IF WordRead THEN "STORE_READ_DATA_s" ELSE "READ_s")
    /\ write_enet_mdio' = 0
    /\ bits_read_from_phy' = [i \in 1 .. DataBits |->
                                IF i = DataBits THEN line ELSE bits_read_from_phy[i + 1]]
    /\ enet_mdio_read_count' = enet_mdio_read_count + 1
    /\ UNCHANGED <<phy_wait_after_reset_count, phy_preamble_count, enet_mdio_bit_count,
                   enet_mdio_wr_cmd_count, enet_mdio_write_count, serial_rd_cmd_to_phy,
                   phy_registers_read, loopbackFlags, enet_mdio, requests, phy_reg>>

StoreReadData ==
    /\ current_state = "STORE_READ_DATA_s"
    /\ current_state' = Goto(IF LastRegister THEN "WAIT_FOR_RAM_WRITE_s" ELSE "PHY_PREAMBLE_s")
    /\ phy_registers_read' = phy_registers_read + 1
    /\ phy_reg' = [phy_reg EXCEPT ![phy_registers_read] = bits_read_from_phy]
    /\ enet_mdio_bit_count' = 0
    /\ enet_mdio_read_count' = 0
    /\ phy_preamble_count' = 0
    /\ bits_read_from_phy' = ZeroWord
    /\ UNCHANGED <<phy_wait_after_reset_count, enet_mdio_wr_cmd_count,
                   enet_mdio_write_count, serial_rd_cmd_to_phy, loopbackFlags, wire,
                   requests>>

WaitForRamWrite ==
    /\ current_state = "WAIT_FOR_RAM_WRITE_s"
    /\ current_state' = Goto(IF RamSaved THEN "ENABLE_LOOPBACK_s" ELSE "WAIT_FOR_RAM_WRITE_s")
    /\ write_phy_reg_space_to_ram' = 1
    /\ phy_registers_read' = 0
    /\ start_loopback_traffic' = IF reg0_in_loopback = 1 THEN 1 ELSE start_loopback_traffic
    /\ UNCHANGED <<phy_wait_after_reset_count, phy_preamble_count, counters,
                   serial_rd_cmd_to_phy, bits_read_from_phy, loopbackFlags, wire, phy_reg>>

\* Mutant: the request is not withdrawn.
EnableLoopbackStillAsking ==
    /\ current_state = "ENABLE_LOOPBACK_s"
    /\ current_state' = Goto("PHY_PREAMBLE_s")
    /\ set_reg0_to_loopback' = 1
    /\ enet_mdio_bit_count' = 0
    /\ UNCHANGED <<phy_wait_after_reset_count, phy_preamble_count, enet_mdio_wr_cmd_count,
                   enet_mdio_write_count, enet_mdio_read_count, serial_rd_cmd_to_phy,
                   bits_read_from_phy, phy_registers_read, reg0_in_loopback, wire,
                   requests, phy_reg>>

EnableLoopback ==
    /\ current_state = "ENABLE_LOOPBACK_s"
    /\ current_state' = Goto("PHY_PREAMBLE_s")
    /\ write_phy_reg_space_to_ram' = 0
    /\ set_reg0_to_loopback' = 1
    /\ enet_mdio_bit_count' = 0
    /\ UNCHANGED <<phy_wait_after_reset_count, phy_preamble_count, enet_mdio_wr_cmd_count,
                   enet_mdio_write_count, enet_mdio_read_count, serial_rd_cmd_to_phy,
                   bits_read_from_phy, phy_registers_read, reg0_in_loopback, wire,
                   start_loopback_traffic, phy_reg>>

\* One posedge of enet_mdc_clk with the given level on ENET_MDIO.
MdcEdge(line) ==
    \/ Reset \/ PostRstWaiting \/ Preamble
    \/ SendReadCmd \/ Turnaround \/ Read(line) \/ StoreReadData
    \/ WaitForRamWrite \/ EnableLoopback \/ SendWriteCmd \/ SendWriteData

-----------------------------------------------------------------------------
MdioState == {"RESET_s", "POST_RST_WAIT_s", "PHY_PREAMBLE_s", "SEND_READ_CMD_s",
              "TURNAROUND_z_s", "TURNAROUND_0_s", "READ_s", "STORE_READ_DATA_s",
              "WAIT_FOR_RAM_WRITE_s", "ENABLE_LOOPBACK_s", "SEND_WRITE_CMD_s",
              "SEND_WRITE_DATA_s"}

\* The types of the state machine's registers; the ranges of the counters say
\* that none of those the source leaves at 5 or 6 bits overflows, except
\* phy_preamble_count, which wraps.
MdioTypeOK ==
    /\ current_state \in MdioState
    /\ phy_wait_after_reset_count \in 0 .. PostRstWait + 1
    /\ phy_preamble_count \in 0 .. PreambleWrap - 1
    /\ enet_mdio_bit_count \in 0 .. CommandBits + 1
    /\ enet_mdio_wr_cmd_count \in 0 .. CommandBits + 3
    /\ enet_mdio_write_count \in 0 .. DataBits
    /\ enet_mdio_read_count \in 0 .. DataBits
    /\ serial_rd_cmd_to_phy \in [1 .. CommandBits -> Bit]
    /\ bits_read_from_phy \in Word
    /\ phy_registers_read \in 0 .. NumRegs
    /\ set_reg0_to_loopback \in Bit
    /\ reg0_in_loopback \in Bit
    /\ enet_mdio \in Bit
    /\ write_enet_mdio \in Bit
=============================================================================
