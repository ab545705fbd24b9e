------------------------------ MODULE Max10Top ------------------------------
(***************************************************************************)
(* altera_max_10.v as a whole: the management state machine with its PHY   *)
(* in the MDC domain, the RAM writer and the frame sender in the           *)
(* ENETA_RX_CLK domain, and the button.  The blocks of one domain move     *)
(* together on an edge of its clock; edges of the two clocks interleave    *)
(* freely, except that at most MaxMdcPerRx edges of the 2.5 MHz MDC clock  *)
(* fall between two edges of the 2.5, 25 or 125 MHz receive clock.         *)
(***************************************************************************)
EXTENDS MdioLink, RamWriter, LoopbackTx

CONSTANT MaxMdcPerRx

BlockWords == NumRegs * WritesPerReg

\* A press lasts two edges of the slower clock and one of the other, and the
\* memory has room for the two blocks (16'h400 + 2 * 256 < 16'h1000).
ASSUME TopAssumption ==
    /\ MaxMdcPerRx \in Nat \ {0}
    /\ ResetMdcEdges >= 2
    /\ ResetRxEdges >= 1
    /\ FirstAddr + 2 * BlockWords < RamWords

VARIABLE mdc_since_rx   \* edges of enet_mdc_clk since the last one of ENETA_RX_CLK

rxVars == <<port, progress, dummy_wait, ram, txVars>>
vars == <<linkVars, rxVars, mdc_since_rx>>

Init ==
    /\ LinkInit
    /\ RamInit
    /\ TxInit
    /\ mdc_since_rx = 0

MdcDomain ==
    /\ mdc_since_rx < MaxMdcPerRx
    /\ mdc_since_rx' = mdc_since_rx + 1
    /\ MdcTick
    /\ UNCHANGED rxVars

RxDomain ==
    /\ mdc_since_rx' = 0
    /\ RamEdge
    /\ TxEdge
    /\ CountRxEdge
    /\ UNCHANGED <<mdioVars, phyVars>>

ButtonDown == Press /\ UNCHANGED <<rxVars, mdc_since_rx>>
ButtonUp == Release /\ UNCHANGED <<rxVars, mdc_since_rx>>

Next == MdcDomain \/ RxDomain \/ ButtonDown \/ ButtonUp

\* Both clocks are free running; the button is released in the end.
Fairness ==
    /\ WF_vars(MdcDomain)
    /\ WF_vars(RxDomain)
    /\ WF_vars(ButtonUp)

Spec == Init /\ [][Next]_vars /\ Fairness

-----------------------------------------------------------------------------
\* The types of every register of the design.
TypeOK ==
    /\ LinkTypeOK
    /\ RamTypeOK
    /\ TxTypeOK
    /\ mdc_since_rx \in 0 .. MaxMdcPerRx

\* The words from base + 1 on are the saved PHY registers: every register is
\* there WritesPerReg times, except that a delimiter replaces the first word,
\* and that the last word is set up but may never be strobed.
Saved(base) ==
    \A r \in RegIndex, k \in 0 .. WritesPerReg - 1 :
        LET i == r * WritesPerReg + k
        IN  i < BlockWords - 1 =>
              ram[base + 1 + i] = IF i = 0 THEN DELIMITER ELSE <<r, phy_space[AddressOf(r)]>>

\* Register 0 of the PHY is rewritten only after the memory holds what all its
\* registers were: when the state machine goes on to enable loopback, the first
\* block of the memory is the PHY's register space.
SavedBeforeLoopback == current_state = "ENABLE_LOOPBACK_s" => Saved(FirstAddr)

\* When the second request has been answered, the second block of the memory
\* is the register space of the PHY in loopback.
SavedInLoopback ==
    start_loopback_traffic = 1 /\ write_phy_reg_space_to_ram = 1 /\ phy_reg_write_done = 1
      => Saved(FirstAddr + BlockWords)

\* Both blocks hold what the PHY held when they were saved.
SnapshotsSaved == SavedBeforeLoopback /\ SavedInLoopback

\* Below the address the writer starts from, the memory is the processor's
\* program, and the writer never changes it: it starts after a reset, writes
\* two blocks and never comes round to address 0.
ProgramUntouched == \A a \in 0 .. FirstAddr - 1 : ram[a] = IMAGE

\* It never needs more room than two blocks.
TwoBlocksAtMost == onchip_memory2_0_s1_address <= FirstAddr + 2 * BlockWords

\* The address and the data on the memory port stand still while the strobe is
\* up.
StrobeStable ==
    [][onchip_memory2_0_s1_write = 1 /\ onchip_memory2_0_s1_write' = 1
         => UNCHANGED port]_vars

\* The bit that follows b in the frame.
BitAfter(b) ==
    IF b = NO_BIT THEN <<1, 0>>
    ELSE IF b[2] < FieldBits[b[1]] - 1 THEN <<b[1], b[2] + 1>>
    ELSE <<b[1] + 1, 0>>

\* The frame goes out in order, one bit per clock without a gap; only a reset
\* cuts it short.
FrameInOrder ==
    [][/\ eneta_tx_d' # eneta_tx_d => eneta_tx_d' \in {BitAfter(eneta_tx_d), NO_BIT}
       /\ eneta_tx_d' = eneta_tx_d /\ RxDomain
            => eneta_tx_d \in {NO_BIT, <<Len(FieldBits), FieldBits[Len(FieldBits)] - 1>>}
       /\ eneta_tx_d # NO_BIT /\ eneta_tx_d' = NO_BIT => start_loopback_traffic = 0 \/ CPU_RESETn = 0]_vars

\* The bring-up always comes to its end and stays there: the second snapshot is
\* saved and the frame is sent.
Settles == <>[](phy_reg_write_done = 1 /\ start_loopback_traffic = 1 /\ reg_LED0 = 1)

-----------------------------------------------------------------------------
\* Why the writer stays inside its two blocks, as an inductive invariant.

\* Words set up since the writer last stood at a beginning of a block.
WordsSetUp == phy_regs_written_to_ram * WritesPerReg + ram_writes_per_phy_addr

WriterAtStart ==
    /\ onchip_memory2_0_s1_address = FirstAddr
    /\ onchip_memory2_0_s1_write = 0
    /\ ram_writes_per_phy_addr = 0
    /\ phy_regs_written_to_ram = 0
    /\ phy_reg_write_done = 0

\* During a press each domain is cleared by its own edges, in either order.
PressSeen ==
    CPU_RESETn = 0 =>
        /\ mdc_edges_in_reset >= 1 => current_state = "RESET_s"
        /\ mdc_edges_in_reset >= 2 =>
              /\ write_phy_reg_space_to_ram = 0
              /\ set_reg0_to_loopback = 0
              /\ reg0_in_loopback = 0
        /\ rx_edges_in_reset >= 1 => WriterAtStart

\* Until the state machine goes to write the PHY, the writer is in its first
\* block, and the request is up only while the machine waits for the answer.
FirstBlock ==
    CPU_RESETn = 1 /\ set_reg0_to_loopback = 0 /\ reg0_in_loopback = 0 =>
        /\ write_phy_reg_space_to_ram = 0 => WriterAtStart
        /\ write_phy_reg_space_to_ram = 1 =>
              current_state \in {"WAIT_FOR_RAM_WRITE_s", "ENABLE_LOOPBACK_s"}
        /\ onchip_memory2_0_s1_address = FirstAddr + WordsSetUp
        /\ phy_reg_write_done = 1 => phy_regs_written_to_ram = NumRegs
        /\ current_state = "ENABLE_LOOPBACK_s" =>
              /\ phy_regs_written_to_ram = NumRegs
              /\ onchip_memory2_0_s1_write = 0
        /\ current_state \notin {"SEND_WRITE_CMD_s", "SEND_WRITE_DATA_s"}

\* From then on it is in its second block, which it enters once: the machine
\* does not leave its second wait.
SecondBlock ==
    CPU_RESETn = 1 /\ (set_reg0_to_loopback = 1 \/ reg0_in_loopback = 1) =>
        /\ write_phy_reg_space_to_ram = 0 =>
              /\ onchip_memory2_0_s1_address = FirstAddr + BlockWords
              /\ phy_regs_written_to_ram \in {0, NumRegs}
              /\ ram_writes_per_phy_addr = 0
        /\ write_phy_reg_space_to_ram = 1 =>
              /\ reg0_in_loopback = 1
              /\ current_state = "WAIT_FOR_RAM_WRITE_s"
        /\ onchip_memory2_0_s1_address >= FirstAddr + BlockWords
        /\ onchip_memory2_0_s1_address <= FirstAddr + BlockWords + WordsSetUp
        /\ current_state \notin {"RESET_s", "ENABLE_LOOPBACK_s"}
        /\ reg0_in_loopback = 0 =>
              current_state \in {"PHY_PREAMBLE_s", "SEND_WRITE_CMD_s", "SEND_WRITE_DATA_s"}

\* The strobe is up only inside a period of a request that is being served.
StrobeInWindow ==
    CPU_RESETn = 1 /\ onchip_memory2_0_s1_write = 1 =>
        /\ write_phy_reg_space_to_ram = 1
        /\ phy_regs_written_to_ram < NumRegs
        /\ dummy_wait \in 2 .. 6

WriterInRange ==
    /\ phy_regs_written_to_ram = NumRegs => ram_writes_per_phy_addr = 0
    /\ onchip_memory2_0_s1_address <= FirstAddr + 2 * BlockWords
    /\ onchip_memory2_0_s1_write = 1 => onchip_memory2_0_s1_address >= FirstAddr

\* The state machine goes on to loopback only when the whole snapshot has been
\* set up, and the writer never leaves its two blocks, in every state of the
\* two clock domains and of a press.
BlockInv == PressSeen /\ FirstBlock /\ SecondBlock /\ StrobeInWindow /\ WriterInRange
=============================================================================
