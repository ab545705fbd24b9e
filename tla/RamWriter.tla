----------------------------- MODULE RamWriter ------------------------------
(***************************************************************************)
(* The block of altera_max_10.v that copies the snapshot of the PHY's      *)
(* registers into the on-chip memory, through the memory's second port.    *)
(* One action per branch of the always block, each one a posedge of        *)
(* ENETA_RX_CLK.  dummy_wait paces it: in each of its periods one word is  *)
(* set up and strobed.                                                     *)
(*                                                                         *)
(* The same memory holds the program of the Nios II processor, which the   *)
(* writer must leave alone.                                                *)
(***************************************************************************)
EXTENDS Max10Signals

CONSTANTS
    WaitPeriod,     \* 2^18: dummy_wait counts modulo this
    WritesPerReg,   \* words per register: 8
    FirstAddr,      \* address of the writer after a reset: 13'h400
    RamWords,       \* 13'h1000
    DELIMITER,      \* RAM_DELIMITER
    BEEFBEEF,       \* the word on the port after a reset
    ZERO,           \* the word on the port at power-up
    IMAGE           \* what the memory holds before the writer: the program

ASSUME RamAssumption ==
    /\ WaitPeriod \in Nat /\ WaitPeriod >= 7
    /\ WritesPerReg \in Nat \ {0}
    /\ FirstAddr \in Nat
    /\ RamWords \in Nat
    /\ FirstAddr < RamWords

VARIABLES
    onchip_memory2_0_s1_address,
    onchip_memory2_0_s1_write,      \* and onchip_memory2_0_s1_chipselect
    onchip_memory2_0_s1_writedata,
    ram_writes_per_phy_addr,
    phy_regs_written_to_ram,
    dummy_wait,
    add_delimiter,
    ram                             \* the on-chip memory

port == <<onchip_memory2_0_s1_address, onchip_memory2_0_s1_write,
          onchip_memory2_0_s1_writedata>>
progress == <<ram_writes_per_phy_addr, phy_regs_written_to_ram, add_delimiter>>
ramVars == <<port, progress, dummy_wait, phy_reg_write_done, ram>>

RamIndex == 0 .. RamWords - 1

\* A register's word begins with 4'hB, 3'b000: no other word of the design does.
\* IMAGE stands for what the program's own words are.
ASSUME OtherWordsAssumption ==
    {DELIMITER, BEEFBEEF, ZERO, IMAGE} \cap (RegIndex \X Word) = {}

\* The word that saves one copy of a register.
RegWord(r) == <<r, phy_reg[r]>>
RamValues == {DELIMITER, BEEFBEEF, ZERO, IMAGE} \cup (RegIndex \X Word)

RamInit ==
    /\ onchip_memory2_0_s1_address = 0
    /\ onchip_memory2_0_s1_write = 0
    /\ onchip_memory2_0_s1_writedata = ZERO
    /\ ram_writes_per_phy_addr = 0
    /\ phy_regs_written_to_ram = 0
    /\ dummy_wait = 0
    /\ add_delimiter = 0
    /\ ram = [a \in RamIndex |-> IMAGE]

\* The memory takes the word on its port on the edge that finds the strobe; the
\* port has one address bit less than the counter.
RamPort ==
    ram' = IF onchip_memory2_0_s1_write = 1
           THEN [ram EXCEPT ![onchip_memory2_0_s1_address % RamWords] =
                               onchip_memory2_0_s1_writedata]
           ELSE ram

StartAddressZero == 0     \* mutant: the assignment that is commented out
StartAddress == FirstAddr

WriterResets ==
    /\ CPU_RESETn = 0
    /\ onchip_memory2_0_s1_address' = StartAddress
    /\ onchip_memory2_0_s1_write' = 0
    /\ onchip_memory2_0_s1_writedata' = BEEFBEEF
    /\ ram_writes_per_phy_addr' = 0
    /\ phy_regs_written_to_ram' = 0
    /\ add_delimiter' = 1
    /\ phy_reg_write_done' = 0
    /\ UNCHANGED dummy_wait

Room == onchip_memory2_0_s1_address < RamWords

\* The address ran past the memory: the writer never answers again.
WriterFull ==
    /\ CPU_RESETn = 1
    /\ ~Room
    /\ onchip_memory2_0_s1_write' = 0
    /\ UNCHANGED <<onchip_memory2_0_s1_address, onchip_memory2_0_s1_writedata,
                   progress, dummy_wait, phy_reg_write_done>>

NextWaitStops == IF dummy_wait < WaitPeriod - 1 THEN dummy_wait + 1 ELSE dummy_wait \* mutant
NextWait == (dummy_wait + 1) % WaitPeriod

Running ==
    /\ CPU_RESETn = 1
    /\ Room
    /\ dummy_wait' = NextWait

\* Mutant: the answer to the last request stays.
WriterIdleStillAnswering ==
    /\ Running
    /\ write_phy_reg_space_to_ram = 0
    /\ phy_regs_written_to_ram' = 0
    /\ UNCHANGED <<port, ram_writes_per_phy_addr, add_delimiter, phy_reg_write_done>>

\* No request.  The strobe is not cleared here.
WriterIdle ==
    /\ Running
    /\ write_phy_reg_space_to_ram = 0
    /\ phy_reg_write_done' = 0
    /\ phy_regs_written_to_ram' = 0
    /\ UNCHANGED <<port, ram_writes_per_phy_addr, add_delimiter>>

Copying ==
    /\ Running
    /\ write_phy_reg_space_to_ram = 1
    /\ phy_regs_written_to_ram < NumRegs
    /\ UNCHANGED phy_reg_write_done

LastCopyLate == ram_writes_per_phy_addr = WritesPerReg       \* mutant
LastCopy == ram_writes_per_phy_addr = WritesPerReg - 1

\* The delimiter replaces the first copy of the first register and the last
\* copy of the last.
SetUpWordUnclosed ==     \* mutant: no closing delimiter
    IF phy_regs_written_to_ram = 0 /\ add_delimiter = 1
    THEN DELIMITER ELSE RegWord(phy_regs_written_to_ram)
SetUpWord ==
    IF \/ phy_regs_written_to_ram = 0 /\ add_delimiter = 1
       \/ phy_regs_written_to_ram = NumRegs - 1 /\ LastCopy
    THEN DELIMITER ELSE RegWord(phy_regs_written_to_ram)

WriterSetsUp ==
    /\ Copying
    /\ dummy_wait = 0
    /\ onchip_memory2_0_s1_address' = onchip_memory2_0_s1_address + 1
    /\ onchip_memory2_0_s1_writedata' = SetUpWord
    /\ IF LastCopy
       THEN /\ ram_writes_per_phy_addr' = 0
            /\ phy_regs_written_to_ram' = phy_regs_written_to_ram + 1
       ELSE /\ ram_writes_per_phy_addr' = ram_writes_per_phy_addr + 1
            /\ UNCHANGED phy_regs_written_to_ram
    /\ add_delimiter' = IF phy_regs_written_to_ram = 0 /\ add_delimiter = 1 THEN 0
                        ELSE IF LastCopy THEN 1 ELSE add_delimiter
    /\ UNCHANGED onchip_memory2_0_s1_write

WriterStrobes ==
    /\ Copying
    /\ dummy_wait \in 1 .. 5
    /\ onchip_memory2_0_s1_write' = 1
    /\ UNCHANGED <<onchip_memory2_0_s1_address, onchip_memory2_0_s1_writedata, progress>>

\* Mutant: the strobe is left up.
WriterReleasesNothing ==
    /\ Copying
    /\ dummy_wait >= 6
    /\ UNCHANGED <<port, progress>>

WriterReleases ==
    /\ Copying
    /\ dummy_wait >= 6
    /\ onchip_memory2_0_s1_write' = 0
    /\ UNCHANGED <<onchip_memory2_0_s1_address, onchip_memory2_0_s1_writedata, progress>>

\* The whole snapshot is set up: answer.  Nothing is written again.
WriterAnswers ==
    /\ Running
    /\ write_phy_reg_space_to_ram = 1
    /\ phy_regs_written_to_ram >= NumRegs
    /\ phy_reg_write_done' = 1
    /\ UNCHANGED <<port, progress>>

\* One posedge of ENETA_RX_CLK for the writer and the memory.
RamEdge ==
    /\ \/ WriterResets \/ WriterFull \/ WriterIdle
       \/ WriterSetsUp \/ WriterStrobes \/ WriterReleases \/ WriterAnswers
    /\ RamPort

RamTypeOK ==
    /\ onchip_memory2_0_s1_address \in 0 .. RamWords
    /\ onchip_memory2_0_s1_write \in Bit
    /\ onchip_memory2_0_s1_writedata \in RamValues
    /\ ram_writes_per_phy_addr \in 0 .. WritesPerReg - 1
    /\ phy_regs_written_to_ram \in 0 .. NumRegs
    /\ dummy_wait \in 0 .. WaitPeriod - 1
    /\ add_delimiter \in Bit
    /\ ram \in [RamIndex -> RamValues]
=============================================================================
