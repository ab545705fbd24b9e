------------------------------- MODULE NiosDump --------------------------------
(* The Nios II program (altera_max_10.c) beside the RAM writer: main prints a     *)
(* banner, dumps every non-zero word of the on-chip memory through the polled     *)
(* UART and prints another banner, once, while the writer may be writing the same *)
(* memory.  A printed line is one item of the UART's FIFO: it goes in when there  *)
(* is room and the program spins until then.                                      *)
(* The MDC domain is reduced to the requests it makes: it asks for a snapshot to  *)
(* be saved, leaves the snapshot alone until it has the answer, withdraws the     *)
(* request, and asks again when the answer is gone.  The design itself asks       *)
(* twice; here it never stops, so that the writer also meets the end of the       *)
(* memory.                                                                        *)
EXTENDS RamWriter, Sequences

-----------------------------------------------------------------------------
(* The writer and what asks it. *)

CONSTANT Snapshots      \* the register spaces that may be asked to be saved

ASSUME SnapshotAssumption == Snapshots \subseteq [RegIndex -> Word]

\* A press is seen on both clocks.
ASSUME PressAssumption == ResetMdcEdges >= 1 /\ ResetRxEdges >= 1

linkVars == <<ramVars, buttonVars, CPU_RESETn, phy_reg,
              write_phy_reg_space_to_ram, start_loopback_traffic>>

LinkInit ==
    /\ SignalsInit
    /\ RamInit
    /\ ButtonInit

RxTick ==
    /\ RamEdge
    /\ CountRxEdge
    /\ UNCHANGED <<phy_reg, write_phy_reg_space_to_ram, start_loopback_traffic>>

Ask ==
    /\ CPU_RESETn = 1 /\ write_phy_reg_space_to_ram = 0 /\ phy_reg_write_done = 0
    /\ write_phy_reg_space_to_ram' = 1
    /\ phy_reg' \in Snapshots
    /\ UNCHANGED <<ramVars, buttonVars, CPU_RESETn, start_loopback_traffic>>

Withdraw ==
    /\ CPU_RESETn = 1 /\ write_phy_reg_space_to_ram = 1 /\ phy_reg_write_done = 1
    /\ write_phy_reg_space_to_ram' = 0
    /\ UNCHANGED <<ramVars, buttonVars, CPU_RESETn, phy_reg, start_loopback_traffic>>

Press ==
    /\ PressButton
    /\ UNCHANGED <<ramVars, phy_reg, write_phy_reg_space_to_ram, start_loopback_traffic>>

\* The MDC domain sees the button some time during the press.
MdcResets ==
    /\ CPU_RESETn = 0
    /\ write_phy_reg_space_to_ram' = 0
    /\ phy_reg' = [r \in RegIndex |-> ZeroWord]
    /\ mdc_edges_in_reset' = ResetMdcEdges
    /\ UNCHANGED <<ramVars, CPU_RESETn, presses, rx_edges_in_reset, start_loopback_traffic>>

Release ==
    /\ ReleaseButton
    /\ UNCHANGED <<ramVars, phy_reg, write_phy_reg_space_to_ram, start_loopback_traffic>>

LinkNext == RxTick \/ Ask \/ Withdraw \/ Press \/ MdcResets \/ Release

\* The receive clock runs for ever; nothing is assumed of the requests.
LinkSpec == LinkInit /\ [][LinkNext]_linkVars /\ WF_linkVars(RxTick)

\* The types of the writer's registers and of the memory.
LinkTypeOK ==
    /\ SignalsTypeOK
    /\ RamTypeOK
    /\ ButtonTypeOK

BlockWords == NumRegs * WritesPerReg

\* While the writer answers a request, the last BlockWords words before its
\* address are the snapshot: every register WritesPerReg times, the opening
\* delimiter in the place of the first copy.  The last word is not strobed.
AnswerMeansSaved ==
    phy_reg_write_done = 1 /\ write_phy_reg_space_to_ram = 1 =>
        \A r \in RegIndex, k \in 0 .. WritesPerReg - 1 :
            LET i == r * WritesPerReg + k
                base == onchip_memory2_0_s1_address - BlockWords
            IN  i < BlockWords - 1 =>
                  ram[base + 1 + i] = IF i = 0 THEN DELIMITER ELSE RegWord(r)

\* However many blocks are asked for, the writer stops at the end of the
\* memory: the program below FirstAddr is never overwritten.
ProgramSafe == \A a \in 0 .. FirstAddr - 1 : ram[a] = IMAGE

\* What the writer leaves in the memory, above and below where it starts.
WriterSafe == AnswerMeansSaved /\ ProgramSafe

\* A request that comes while dummy_wait is in 1 .. 5 raises the strobe before
\* any word is set up (altera_max_10.v:199).  What is then written once more is
\* never a register word of the block before: words that reach the memory are
\* of the snapshot being saved.
NoStaleWord ==
    [][CPU_RESETn = 1 => \A a \in RamIndex, r \in RegIndex, w \in Word :
         ram'[a] # ram[a] /\ ram'[a] = <<r, w>> => w = phy_reg[r]]_linkVars

\* Every request is answered, if the memory has room for it and no reset comes
\* between.
Answered ==
    write_phy_reg_space_to_ram = 1 ~>
        phy_reg_write_done = 1 \/ CPU_RESETn = 0 \/ onchip_memory2_0_s1_address = RamWords

-----------------------------------------------------------------------------
(* The program. *)

CONSTANTS LinesPerGroup,  \* 8: after so many lines a blank one and a pause
          FifoLines,      \* lines the UART's FIFO holds
          ProgramWords,   \* the words of the IMAGE at power-up that are not 0
          BANNER, NEWLINE, BLANK

ASSUME DumpAssumption ==
    /\ LinesPerGroup \in Nat \ {0} /\ FifoLines \in Nat \ {0}
    /\ ProgramWords \subseteq RamIndex
    /\ IMAGE # ZERO
    /\ {BANNER, NEWLINE} \cap (RamIndex \X RamValues) = {}

VARIABLES
    dpc,            \* where the program is
    eth_offset,     \* word index of the dump
    ethernet_line,  \* the word it has read
    print_count,
    uart,           \* lines on their way to the host
    shown,          \* what the host has seen of each word, BLANK if nothing
    group,          \* lines the host has seen since the last blank one
    block           \* base and registers of the block saved when the dump began

dumpVars == <<dpc, eth_offset, ethernet_line, print_count, uart, shown, group, block>>
allVars == <<linkVars, dumpVars>>

NoBlock == [base |-> RamWords, reg |-> [r \in RegIndex |-> ZeroWord]]

DumpInit ==
    /\ LinkInit
    /\ dpc = "main" /\ eth_offset = 0 /\ ethernet_line = ZERO /\ print_count = 0
    /\ uart = << >> /\ shown = [a \in RamIndex |-> BLANK] /\ group = 0
    /\ block = NoBlock

\* Every character goes through a write that spins while the FIFO is full.
Puts(line) == Len(uart) < FifoLines /\ uart' = Append(uart, line)

Main ==
    /\ dpc = "main" /\ Puts(BANNER) /\ dpc' = "read"
    /\ block' = IF phy_reg_write_done = 1 /\ write_phy_reg_space_to_ram = 1 /\ CPU_RESETn = 1
                THEN [base |-> onchip_memory2_0_s1_address - BlockWords, reg |-> phy_reg]
                ELSE NoBlock
    /\ UNCHANGED <<linkVars, eth_offset, ethernet_line, print_count, shown, group>>

\* A word the writer has not written is 0, unless the program is there.
ReadWord(a) == IF ram[a] = IMAGE /\ a \notin ProgramWords THEN ZERO ELSE ram[a]

ReadLine ==
    /\ dpc = "read" /\ eth_offset < RamWords
    /\ ethernet_line' = ReadWord(eth_offset)
    /\ dpc' = IF ReadWord(eth_offset) # ZERO THEN "print" ELSE "next"
    /\ UNCHANGED <<linkVars, eth_offset, print_count, uart, shown, group, block>>

\* print_data
PrintData ==
    /\ dpc = "print" /\ Puts(<<eth_offset, ethernet_line>>)
    /\ print_count' = print_count + 1
    /\ dpc' = "next"
    /\ UNCHANGED <<linkVars, eth_offset, ethernet_line, shown, group, block>>

GroupDone == print_count = LinesPerGroup

NextLineSkips == eth_offset + (IF GroupDone THEN 2 ELSE 1)   \* mutant
NextLineIfShown == IF ethernet_line = ZERO THEN eth_offset ELSE eth_offset + 1   \* mutant
NextLine == eth_offset + 1

\* The end of the loop's body: a blank line after every group.
NextOffset ==
    /\ dpc = "next"
    /\ IF GroupDone THEN Puts(NEWLINE) /\ print_count' = 0
                    ELSE UNCHANGED <<uart, print_count>>
    /\ eth_offset' = NextLine
    /\ dpc' = "read"
    /\ UNCHANGED <<linkVars, ethernet_line, shown, group, block>>

AllDone ==
    /\ dpc = "read" /\ eth_offset >= RamWords /\ Puts(BANNER)
    /\ dpc' = "done"
    /\ UNCHANGED <<linkVars, eth_offset, ethernet_line, print_count, shown, group, block>>

\* The console of the host.
HostShows ==
    /\ uart # << >>
    /\ uart' = Tail(uart)
    /\ LET line == Head(uart)
           isData == line \notin {BANNER, NEWLINE}
       IN  /\ shown' = IF isData THEN [shown EXCEPT ![line[1]] = line[2]] ELSE shown
           /\ group' = IF isData THEN group + 1 ELSE 0
    /\ UNCHANGED <<linkVars, dpc, eth_offset, ethernet_line, print_count, block>>

\* A press between the start and the end of the dump lets the writer start over.
Hardware ==
    /\ LinkNext
    /\ block' = IF CPU_RESETn' = 0 THEN NoBlock ELSE block
    /\ UNCHANGED <<dpc, eth_offset, ethernet_line, print_count, uart, shown, group>>

Program == Main \/ ReadLine \/ PrintData \/ NextOffset \/ AllDone
DumpNext == Program \/ HostShows \/ Hardware

\* The processor executes and the host reads its console.
DumpSpec ==
    DumpInit /\ [][DumpNext]_allVars /\ WF_allVars(Program) /\ WF_allVars(HostShows)

-----------------------------------------------------------------------------
DumpTypeOK ==
    /\ LinkTypeOK
    /\ dpc \in {"main", "read", "print", "next", "done"}
    /\ eth_offset \in 0 .. RamWords
    /\ print_count \in 0 .. LinesPerGroup
    /\ Len(uart) <= FifoLines
    /\ block.base \in 0 .. RamWords

\* A dump that starts when a block has been saved shows that block whole and
\* exact: every register, whatever the writer goes on to write after it.  (The
\* last word of a block never reaches the memory.)
SavedBlockShown ==
    dpc = "done" /\ uart = << >> /\ block # NoBlock =>
        \A i \in 1 .. BlockWords - 2 :
            shown[block.base + 1 + i] = <<i \div WritesPerReg, block.reg[i \div WritesPerReg]>>

\* Words of the program below the writer's start are shown as they are.
ProgramShown ==
    dpc = "done" /\ uart = << >> => \A a \in ProgramWords :
        a < FirstAddr => shown[a] = IMAGE

\* No group on the console is longer than the program means it to be.
GroupsKept == group <= LinesPerGroup

\* What the host has seen when the dump is over, and while it goes on.
DumpShown == DumpTypeOK /\ SavedBlockShown /\ ProgramShown /\ GroupsKept
=============================================================================
