---------------------------- MODULE Program_proof -----------------------------
(* The RAM writer asked for blocks again and again, and the program that dumps    *)
(* the memory beside it: whatever the sizes, the resets and the order of steps,   *)
(* an answer means a block saved, words in the memory are of the snapshot that    *)
(* was asked for, and a dump shows a saved block whole. Its lines show the words. *)
EXTENDS MCProgram, TLAPS, FiniteSetTheorems, SequenceTheorems, WellFoundedInduction

----------------------------------------------------------------------------
(* The invariant of the writer. *)

CopyIndex == 0 .. WritesPerReg - 1

\* The place of a copy of a register in its block, and the word that stands there.
Index(r, k) == r * WritesPerReg + k
SavedWord(r, k) ==
    IF (r = 0 /\ k = 0) \/ (r = NumRegs - 1 /\ k = WritesPerReg - 1)
    THEN DELIMITER ELSE RegWord(r)

WordsSetUp == Index(phy_regs_written_to_ram, ram_writes_per_phy_addr)

\* A request the writer is going to serve: a press has not cleared it yet.
Asked == write_phy_reg_space_to_ram = 1 /\ (CPU_RESETn = 1 \/ rx_edges_in_reset = 0)

\* What an edge in a press does to the writer, and one of the other clock.
Cleared ==
    /\ CPU_RESETn = 0 /\ rx_edges_in_reset > 0 =>
          /\ onchip_memory2_0_s1_address = FirstAddr /\ onchip_memory2_0_s1_write = 0
          /\ onchip_memory2_0_s1_writedata = BEEFBEEF
          /\ ram_writes_per_phy_addr = 0 /\ phy_regs_written_to_ram = 0
          /\ add_delimiter = 1 /\ phy_reg_write_done = 0
    /\ CPU_RESETn = 0 /\ mdc_edges_in_reset > 0 => write_phy_reg_space_to_ram = 0

\* The strobe is up in a part of the period only, and only while words are copied.
StrobeTimed ==
    onchip_memory2_0_s1_write = 1 =>
        /\ onchip_memory2_0_s1_address \in FirstAddr .. RamWords - 1
        /\ dummy_wait \in 2 .. 6
        /\ write_phy_reg_space_to_ram = 1 => phy_regs_written_to_ram < NumRegs
        /\ CPU_RESETn = 1 => write_phy_reg_space_to_ram = 1

\* No register of an earlier block is on the port when a block begins.
PortIdle == onchip_memory2_0_s1_writedata \in {DELIMITER, BEEFBEEF}

\* Between two requests the writer is at the start of a block.
AtStart ==
    CPU_RESETn = 1 /\ write_phy_reg_space_to_ram = 0 =>
        /\ onchip_memory2_0_s1_address >= FirstAddr
        /\ ram_writes_per_phy_addr = 0 /\ add_delimiter = 1
        /\ phy_reg_write_done = 0 => phy_regs_written_to_ram = 0
        /\ PortIdle

\* The address counts the words set up; the first of them is the delimiter.
Counting ==
    Asked =>
        /\ onchip_memory2_0_s1_address >= FirstAddr + WordsSetUp
        /\ phy_reg_write_done = 1 => phy_regs_written_to_ram = NumRegs
        /\ phy_regs_written_to_ram = 0 => (add_delimiter = 1 <=> ram_writes_per_phy_addr = 0)
        /\ phy_regs_written_to_ram = NumRegs => add_delimiter = 1 /\ ram_writes_per_phy_addr = 0

\* The word set up last stands on the port, ...
WordOnPort ==
    Asked =>
        /\ WordsSetUp = 0 => PortIdle
        /\ \A r \in RegIndex, k \in CopyIndex :
              Index(r, k) + 1 = WordsSetUp => onchip_memory2_0_s1_writedata = SavedWord(r, k)

\* ... is strobed after it, ...
WordStrobed ==
    Asked /\ phy_regs_written_to_ram < NumRegs /\ WordsSetUp >= 1 /\ dummy_wait \in 2 .. 6 =>
        onchip_memory2_0_s1_write = 1

\* ... and is in the memory before the next one is set up.
InRam(i, w) == ram[onchip_memory2_0_s1_address - WordsSetUp + 1 + i] = w
WordSettled(i) ==
    \/ i + 1 < WordsSetUp
    \/ i + 1 = WordsSetUp /\ phy_regs_written_to_ram < NumRegs /\ dummy_wait \notin {1, 2}
WordsInRam ==
    Asked => \A r \in RegIndex, k \in CopyIndex :
        WordSettled(Index(r, k)) => InRam(Index(r, k), SavedWord(r, k))

WriterInv ==
    /\ LinkTypeOK /\ Cleared /\ StrobeTimed /\ AtStart /\ Counting
    /\ WordOnPort /\ WordStrobed /\ WordsInRam /\ ProgramSafe

----------------------------------------------------------------------------
(* The invariant of the dump. *)

Item == {BANNER, NEWLINE} \cup (RamIndex \X RamValues)
IsData(item) == item \notin {BANNER, NEWLINE}

\* An address whose word stays w while the program comes to it and has passed it.
Passed(a) == dpc # "main" /\ (a < eth_offset \/ (a = eth_offset /\ dpc = "next"))
Seen(a, w) ==
    /\ \A j \in DOMAIN uart : IsData(uart[j]) /\ uart[j][1] = a => uart[j][2] = w
    /\ dpc = "print" /\ eth_offset = a => ethernet_line = w
    /\ Passed(a) => shown[a] = w \/ \E j \in DOMAIN uart : uart[j] = <<a, w>>

DumpTypes ==
    /\ uart \in Seq(Item) /\ shown \in [RamIndex -> RamValues \cup {BLANK}]
    /\ eth_offset \in Nat /\ ethernet_line \in RamValues /\ group \in Nat /\ print_count \in Nat
    /\ dpc = "main" => eth_offset = 0 /\ uart = << >> /\ block = NoBlock
                       /\ print_count = 0 /\ group = 0
    /\ dpc \in {"print", "next"} => eth_offset < RamWords
    /\ dpc \in {"read", "print"} => print_count < LinesPerGroup
    /\ dpc = "done" => eth_offset = RamWords

\* The block of the snapshot, below everything the writer has still to write.
SavedReg(i) == <<i \div WritesPerReg, block.reg[i \div WritesPerReg]>>
BlockStays ==
    block # NoBlock =>
        /\ CPU_RESETn = 1 /\ dpc # "main"
        /\ block.base \in Nat /\ block.base + BlockWords <= onchip_memory2_0_s1_address
        /\ block.reg \in [RegIndex -> Word]
        /\ \A i \in 1 .. BlockWords - 2 : ram[block.base + 1 + i] = SavedReg(i)
BlockSeen ==
    block # NoBlock => \A i \in 1 .. BlockWords - 2 : Seen(block.base + 1 + i, SavedReg(i))
ProgramSeen == \A a \in ProgramWords : a < FirstAddr => Seen(a, IMAGE)

\* Lines without a blank one between them: on their way, after the host's last blank
\* one, and after the program's.
AllData(i, j) == \A m \in i .. j : IsData(uart[m])
Groups ==
    /\ \A i, j \in DOMAIN uart : i <= j /\ AllData(i, j) => j - i + 1 <= LinesPerGroup
    /\ \A j \in 0 .. Len(uart) : AllData(1, j) => group + j <= LinesPerGroup
    /\ \A i \in DOMAIN uart : AllData(i, Len(uart)) => Len(uart) - i + 1 <= print_count
    /\ AllData(1, Len(uart)) => group + Len(uart) <= print_count

DumpInv ==
    /\ WriterInv /\ DumpTypeOK /\ DumpTypes
    /\ BlockStays /\ BlockSeen /\ ProgramSeen /\ Groups

----------------------------------------------------------------------------
(* Sizes. *)

\* What the assumptions say of the constants.
LEMMA Sizes ==
    /\ NumRegs \in Nat /\ NumRegs >= 2
    /\ WritesPerReg \in Nat /\ WritesPerReg >= 1
    /\ WaitPeriod \in Nat /\ WaitPeriod >= 7
    /\ FirstAddr \in Nat /\ RamWords \in Nat /\ FirstAddr < RamWords
    /\ BlockWords \in Nat
    /\ ResetMdcEdges \in Nat /\ ResetMdcEdges >= 1
    /\ ResetRxEdges \in Nat /\ ResetRxEdges >= 1
<1>1. \A m, n \in Nat : m * n \in Nat
  OBVIOUS
<1> QED
  BY <1>1, SizesAssumption, RamAssumption, PressAssumption, ButtonAssumption DEF BlockWords

\* Multiplication by the number of words of a register.
LEMMA WholeRegisters ==
    ASSUME NEW W \in Nat, NEW n \in Nat
    PROVE  /\ n * W \in Nat
           /\ 0 * W = 0
           /\ (n + 1) * W = n * W + W
OBVIOUS

\* The words of whole registers never exceed those of more whole registers.
LEMMA MoreRegisters ==
    ASSUME NEW W \in Nat, NEW m \in Nat, NEW n \in Nat, m <= n
    PROVE  m * W <= n * W
<1>1. n - m \in Nat /\ n = m + (n - m)
  OBVIOUS
<1>2. PICK d \in Nat : n = m + d
  BY <1>1
<1>3. n * W = m * W + d * W
  BY <1>2
<1>4. d * W \in Nat /\ m * W \in Nat
  OBVIOUS
<1> QED
  BY <1>3, <1>4

\* Words are numbered from 0; the first and the last are the delimiters.
LEMMA IndexRange ==
    ASSUME NEW r \in RegIndex, NEW k \in CopyIndex
    PROVE  /\ Index(r, k) \in Nat /\ Index(r, k) < BlockWords
           /\ Index(r, k) = 0 <=> r = 0 /\ k = 0
           /\ r = NumRegs - 1 /\ k = WritesPerReg - 1 => Index(r, k) = BlockWords - 1
           /\ Index(r, k) + 1 = IF k = WritesPerReg - 1 THEN Index(r + 1, 0) ELSE Index(r, k + 1)
<1> USE Sizes
<1>1. /\ r \in Nat /\ r + 1 <= NumRegs /\ k \in Nat /\ k < WritesPerReg
      /\ r * WritesPerReg \in Nat
      /\ (r + 1) * WritesPerReg = r * WritesPerReg + WritesPerReg
      /\ 0 * WritesPerReg = 0
  BY WholeRegisters DEF RegIndex, CopyIndex
<1>2. (r + 1) * WritesPerReg <= NumRegs * WritesPerReg
  BY <1>1, MoreRegisters
<1>3. PICK p \in Nat : p = r * WritesPerReg
  BY <1>1
<1>4. Index(r, k) = p + k /\ p + WritesPerReg <= BlockWords
  BY <1>1, <1>2, <1>3 DEF Index, BlockWords
<1>5. r > 0 => p >= WritesPerReg
  <2>1. r > 0 => 1 * WritesPerReg <= r * WritesPerReg
    BY <1>1, MoreRegisters
  <2> QED
    BY <1>3, <2>1
<1>6. r = NumRegs - 1 => p + WritesPerReg = BlockWords
  BY <1>1, <1>3 DEF BlockWords
<1>7. r = 0 => p = 0
  BY <1>1, <1>3
<1>8. Index(r + 1, 0) = p + WritesPerReg /\ Index(r, k + 1) = p + (k + 1)
  BY <1>1, <1>3 DEF Index
<1> QED
  BY <1>1, <1>4, <1>5, <1>6, <1>7, <1>8

\* No two words have the same place.
LEMMA IndexUnique ==
    ASSUME NEW r \in RegIndex, NEW k \in CopyIndex, NEW s \in RegIndex, NEW j \in CopyIndex,
           Index(r, k) = Index(s, j)
    PROVE  r = s /\ k = j
<1> USE Sizes
<1>1. ASSUME NEW a \in RegIndex, NEW b \in RegIndex, NEW c \in CopyIndex, NEW d \in CopyIndex, a < b
      PROVE  Index(a, c) < Index(b, d)
  <2>1. a \in Nat /\ b \in Nat /\ a + 1 <= b /\ c \in Nat /\ c < WritesPerReg /\ d \in Nat
    BY <1>1 DEF RegIndex, CopyIndex
  <2>2. /\ a * WritesPerReg \in Nat /\ b * WritesPerReg \in Nat
        /\ (a + 1) * WritesPerReg = a * WritesPerReg + WritesPerReg
        /\ (a + 1) * WritesPerReg <= b * WritesPerReg
    BY <2>1, WholeRegisters, MoreRegisters
  <2> QED
    BY <2>1, <2>2 DEF Index
<1>2. /\ r \in Nat /\ s \in Nat /\ k \in Nat /\ j \in Nat
      /\ Index(r, k) \in Nat /\ Index(s, j) \in Nat
  BY IndexRange DEF RegIndex, CopyIndex
<1>3. r = s
  BY <1>1, <1>2
<1>4. r * WritesPerReg \in Nat
  BY <1>2, WholeRegisters
<1> QED
  BY <1>2, <1>3, <1>4 DEF Index

\* Where the writer stands: between two words, or at the end of the block.
LEMMA WordsSetUpRange ==
    ASSUME LinkTypeOK
    PROVE  /\ WordsSetUp \in Nat
           /\ phy_regs_written_to_ram < NumRegs =>
                 /\ phy_regs_written_to_ram \in RegIndex /\ ram_writes_per_phy_addr \in CopyIndex
                 /\ WordsSetUp < BlockWords
           /\ phy_regs_written_to_ram = NumRegs /\ ram_writes_per_phy_addr = 0 =>
                 WordsSetUp = BlockWords
           /\ phy_regs_written_to_ram = 0 /\ ram_writes_per_phy_addr = 0 => WordsSetUp = 0
<1> USE Sizes
<1>1. phy_regs_written_to_ram \in 0 .. NumRegs /\ ram_writes_per_phy_addr \in 0 .. WritesPerReg - 1
  BY DEF LinkTypeOK, RamTypeOK
<1>2. phy_regs_written_to_ram * WritesPerReg \in Nat
  BY <1>1, WholeRegisters
<1>3. phy_regs_written_to_ram < NumRegs =>
        phy_regs_written_to_ram \in RegIndex /\ ram_writes_per_phy_addr \in CopyIndex
  BY <1>1 DEF RegIndex, CopyIndex
<1>4. phy_regs_written_to_ram < NumRegs => WordsSetUp < BlockWords
  BY <1>3, IndexRange DEF WordsSetUp
<1>5. phy_regs_written_to_ram = NumRegs /\ ram_writes_per_phy_addr = 0 => WordsSetUp = BlockWords
  BY <1>1, <1>2 DEF WordsSetUp, Index, BlockWords
<1>6. phy_regs_written_to_ram = 0 /\ ram_writes_per_phy_addr = 0 => WordsSetUp = 0
  BY <1>1, WholeRegisters DEF WordsSetUp, Index
<1> QED
  BY <1>1, <1>2, <1>3, <1>4, <1>5, <1>6 DEF WordsSetUp, Index

----------------------------------------------------------------------------
(* Types. *)

\* Every branch of the writer keeps its types.
LEMMA RamEdgeTypes ==
    ASSUME RamTypeOK, SignalsTypeOK, RamEdge
    PROVE  RamTypeOK'
<1> USE Sizes DEF RamTypeOK
<1>r. ram' \in [RamIndex -> RamValues]
  BY DEF RamEdge, RamPort
<1>w. NextWait \in 0 .. WaitPeriod - 1
  BY DEF NextWait
<1>1. CASE WriterResets
  BY <1>1, <1>r DEF WriterResets, StartAddress, RamValues, Bit
<1>2. CASE WriterFull
  BY <1>2, <1>r DEF WriterFull, progress, Bit
<1>3. CASE WriterIdle
  BY <1>3, <1>r, <1>w DEF WriterIdle, Running, port
<1>4. CASE WriterSetsUp
  <2>1. phy_regs_written_to_ram \in RegIndex
    BY <1>4 DEF WriterSetsUp, Copying, RegIndex
  <2>2. SetUpWord \in RamValues
    BY <2>1 DEF SetUpWord, RegWord, RamValues, SignalsTypeOK
  <2>3. onchip_memory2_0_s1_address' \in 0 .. RamWords
    BY <1>4 DEF WriterSetsUp, Copying, Running, Room
  <2>4. /\ ram_writes_per_phy_addr' \in 0 .. WritesPerReg - 1
        /\ phy_regs_written_to_ram' \in 0 .. NumRegs
        /\ add_delimiter' \in Bit
    BY <1>4 DEF WriterSetsUp, Copying, LastCopy, Bit
  <2> QED
    BY <1>4, <1>r, <1>w, <2>2, <2>3, <2>4 DEF WriterSetsUp, Copying, Running
<1>5. CASE WriterStrobes \/ WriterReleases
  BY <1>5, <1>r, <1>w DEF WriterStrobes, WriterReleases, Copying, Running, progress, Bit
<1>6. CASE WriterAnswers
  BY <1>6, <1>r, <1>w DEF WriterAnswers, Running, port, progress
<1> QED
  BY <1>1, <1>2, <1>3, <1>4, <1>5, <1>6 DEF RamEdge

\* Every step keeps the types of the writer, the button and the signals.
LEMMA LinkTypesStep ==
    ASSUME LinkTypeOK, [LinkNext]_linkVars
    PROVE  LinkTypeOK'
<1> USE Sizes, ButtonAssumption, SnapshotAssumption
    DEF LinkTypeOK, SignalsTypeOK, ButtonTypeOK, Bit
<1>1. CASE RxTick
  <2>1. RamTypeOK'
    BY <1>1, RamEdgeTypes DEF RxTick
  <2>2. phy_reg_write_done' \in Bit
    BY <1>1 DEF RxTick, RamEdge, WriterResets, WriterFull, WriterIdle, WriterSetsUp, WriterStrobes,
                WriterReleases, WriterAnswers, Copying
  <2> QED
    BY <1>1, <2>1, <2>2 DEF RxTick, CountRxEdge
<1>2. CASE Ask \/ Withdraw
  BY <1>2 DEF Ask, Withdraw, ramVars, port, progress, buttonVars, RamTypeOK
<1>3. CASE Press
  BY <1>3 DEF Press, PressButton, ramVars, port, progress, buttonVars, RamTypeOK
<1>4. CASE MdcResets
  <2>1. phy_reg' \in [RegIndex -> Word]
    BY <1>4 DEF MdcResets, ZeroWord, Word
  <2> QED
    BY <1>4, <2>1 DEF MdcResets, ramVars, port, progress, RamTypeOK
<1>5. CASE Release
  BY <1>5 DEF Release, ReleaseButton, ramVars, port, progress, buttonVars, RamTypeOK
<1>6. CASE UNCHANGED linkVars
  BY <1>6 DEF linkVars, ramVars, port, progress, buttonVars, RamTypeOK
<1> QED
  BY <1>1, <1>2, <1>3, <1>4, <1>5, <1>6 DEF LinkNext

----------------------------------------------------------------------------
(* The writer's invariant. *)

\* At power-up nothing has been asked for.
LEMMA WriterInvInit ==
    ASSUME LinkInit
    PROVE  WriterInv
<1> USE Sizes, ButtonAssumption DEF LinkInit, SignalsInit, RamInit, ButtonInit
<1>1. LinkTypeOK
  <2>1. phy_reg \in [RegIndex -> Word]
    BY DEF ZeroWord, Word, Bit
  <2> QED
    BY <2>1 DEF LinkTypeOK, SignalsTypeOK, RamTypeOK, ButtonTypeOK, RamValues, Bit
<1>2. ProgramSafe
  BY DEF ProgramSafe, RamIndex
<1> QED
  BY <1>1, <1>2 DEF WriterInv, Cleared, StrobeTimed, AtStart, Counting, WordOnPort, WordStrobed,
                    WordsInRam, Asked

\* The memory takes the word on the port while the strobe is up, and no other.
LEMMA PortStores ==
    ASSUME WriterInv, RamPort
    PROVE  /\ onchip_memory2_0_s1_write = 0 => ram' = ram
           /\ onchip_memory2_0_s1_write = 1 =>
                 ram'[onchip_memory2_0_s1_address] = onchip_memory2_0_s1_writedata
           /\ \A a \in RamIndex :
                 a # onchip_memory2_0_s1_address \/ onchip_memory2_0_s1_write = 0 => ram'[a] = ram[a]
           /\ ProgramSafe'
<1> USE Sizes DEF RamIndex
<1>1. ram \in [RamIndex -> RamValues]
  BY DEF WriterInv, LinkTypeOK, RamTypeOK
<1>2. onchip_memory2_0_s1_write = 1 =>
        /\ onchip_memory2_0_s1_address \in FirstAddr .. RamWords - 1
        /\ onchip_memory2_0_s1_address % RamWords = onchip_memory2_0_s1_address
  BY DEF WriterInv, StrobeTimed
<1>3. onchip_memory2_0_s1_write = 1 =>
        ram' = [ram EXCEPT ![onchip_memory2_0_s1_address] = onchip_memory2_0_s1_writedata]
  BY <1>2 DEF RamPort
<1>4. \A a \in 0 .. FirstAddr - 1 : ram'[a] = ram[a]
  BY <1>1, <1>2, <1>3 DEF RamPort
<1>5. ProgramSafe'
  BY <1>4 DEF WriterInv, ProgramSafe
<1> QED
  BY <1>1, <1>2, <1>3, <1>5 DEF RamPort

\* A word of the block that is in the memory stays there, and one under the strobe
\* gets there.
LEMMA WordKept ==
    ASSUME WriterInv, Asked, Room, RamPort, NEW r \in RegIndex, NEW k \in CopyIndex,
           \/ WordSettled(Index(r, k))
           \/ Index(r, k) + 1 = WordsSetUp /\ onchip_memory2_0_s1_write = 1
    PROVE  ram'[onchip_memory2_0_s1_address - WordsSetUp + 1 + Index(r, k)] = SavedWord(r, k)
<1> USE Sizes
<1>1. /\ LinkTypeOK /\ onchip_memory2_0_s1_address \in Nat /\ onchip_memory2_0_s1_write \in {0, 1}
      /\ onchip_memory2_0_s1_address < RamWords
      /\ onchip_memory2_0_s1_address >= FirstAddr + WordsSetUp
  BY DEF WriterInv, LinkTypeOK, RamTypeOK, Counting, Room, Bit
<1>2. PICK i \in Nat : i = Index(r, k)
  BY IndexRange
<1>3. PICK n \in Nat : n = WordsSetUp
  BY <1>1, WordsSetUpRange
<1>4. i + 1 <= n
  BY <1>2, <1>3 DEF WordSettled
<1> DEFINE place == onchip_memory2_0_s1_address - n + 1 + i
<1>5. place \in RamIndex
  BY <1>1, <1>3, <1>4 DEF RamIndex
<1>6. place = onchip_memory2_0_s1_address => i + 1 = n
  BY <1>1
<1>7. i + 1 = n => place = onchip_memory2_0_s1_address
  BY <1>1
<1>8. CASE i + 1 = n /\ onchip_memory2_0_s1_write = 1
  <2>1. onchip_memory2_0_s1_writedata = SavedWord(r, k)
    BY <1>2, <1>3, <1>8 DEF WriterInv, WordOnPort
  <2>2. ram'[onchip_memory2_0_s1_address] = onchip_memory2_0_s1_writedata
    BY <1>8, PortStores
  <2> QED
    BY <1>2, <1>3, <1>7, <1>8, <2>1, <2>2
<1>9. CASE ~(i + 1 = n /\ onchip_memory2_0_s1_write = 1)
  <2>1. ram[place] = SavedWord(r, k)
    BY <1>2, <1>3, <1>9 DEF WriterInv, WordsInRam, InRam
  <2>2. place # onchip_memory2_0_s1_address \/ onchip_memory2_0_s1_write = 0
    BY <1>1, <1>6, <1>9
  <2>3. ram'[place] = ram[place]
    BY <1>5, <2>2, PortStores
  <2> QED
    BY <1>2, <1>3, <2>1, <2>3
<1> QED
  BY <1>8, <1>9

\* The edges of the receive clock: a press, ...
LEMMA WriterInvResets ==
    ASSUME WriterInv, RxTick, WriterResets
    PROVE  WriterInv'
<1> USE Sizes
<1>1. LinkTypeOK'
  BY LinkTypesStep DEF WriterInv, LinkNext
<1>2. ProgramSafe'
  BY PortStores DEF RxTick, RamEdge
<1>3. /\ CPU_RESETn' = 0 /\ rx_edges_in_reset' > 0
      /\ mdc_edges_in_reset' = mdc_edges_in_reset
      /\ write_phy_reg_space_to_ram' = write_phy_reg_space_to_ram
  BY DEF RxTick, CountRxEdge, WriterResets, WriterInv, LinkTypeOK, ButtonTypeOK
<1>4. Cleared'
  BY <1>3 DEF WriterInv, Cleared, WriterResets, StartAddress
<1> QED
  BY <1>1, <1>2, <1>3, <1>4 DEF WriterInv, StrobeTimed, AtStart, Counting, WordOnPort, WordStrobed,
        WordsInRam, Asked, WriterResets

\* ... the end of the memory, ...
LEMMA WriterInvFull ==
    ASSUME WriterInv, RxTick, WriterFull
    PROVE  WriterInv'
<1> USE Sizes
<1>1. LinkTypeOK'
  BY LinkTypesStep DEF WriterInv, LinkNext
<1>2. ProgramSafe'
  BY PortStores DEF RxTick, RamEdge
<1>3. onchip_memory2_0_s1_write = 0
  BY DEF WriterInv, StrobeTimed, WriterFull, Room, LinkTypeOK, RamTypeOK, Bit
<1>4. ram' = ram
  BY <1>3, PortStores DEF RxTick, RamEdge
<1>5. /\ CPU_RESETn = 1 /\ CPU_RESETn' = 1
      /\ UNCHANGED <<write_phy_reg_space_to_ram, phy_reg>>
      /\ UNCHANGED <<onchip_memory2_0_s1_address, onchip_memory2_0_s1_writedata>>
      /\ UNCHANGED <<ram_writes_per_phy_addr, phy_regs_written_to_ram, add_delimiter>>
      /\ UNCHANGED <<dummy_wait, phy_reg_write_done>>
      /\ onchip_memory2_0_s1_write' = 0
  BY DEF RxTick, CountRxEdge, WriterFull, progress
<1>6. WordStrobed'
  BY <1>3, <1>5 DEF WriterInv, WordStrobed, Asked, WordsSetUp, Index
<1>7. WordsInRam'
  BY <1>4, <1>5 DEF WriterInv, WordsInRam, WordSettled, InRam, Asked, WordsSetUp, Index, SavedWord, RegWord
<1> QED
  BY <1>1, <1>2, <1>5, <1>6, <1>7 DEF WriterInv, Cleared, StrobeTimed, AtStart, Counting, WordOnPort,
        PortIdle, Asked, WordsSetUp, Index, SavedWord, RegWord

\* ... no request, ...
LEMMA WriterInvIdle ==
    ASSUME WriterInv, RxTick, WriterIdle
    PROVE  WriterInv'
<1> USE Sizes
<1>1. LinkTypeOK'
  BY LinkTypesStep DEF WriterInv, LinkNext
<1>2. ProgramSafe'
  BY PortStores DEF RxTick, RamEdge
<1>3. /\ CPU_RESETn = 1 /\ CPU_RESETn' = 1
      /\ write_phy_reg_space_to_ram = 0 /\ write_phy_reg_space_to_ram' = 0
      /\ UNCHANGED <<onchip_memory2_0_s1_address, onchip_memory2_0_s1_write>>
      /\ UNCHANGED <<onchip_memory2_0_s1_writedata, ram_writes_per_phy_addr, add_delimiter>>
      /\ phy_regs_written_to_ram' = 0
  BY DEF RxTick, CountRxEdge, WriterIdle, Running, port
<1>4. onchip_memory2_0_s1_write' # 1
  BY <1>3 DEF WriterInv, StrobeTimed
<1> QED
  BY <1>1, <1>2, <1>3, <1>4 DEF WriterInv, Cleared, StrobeTimed, AtStart, Counting, WordOnPort,
        WordStrobed, WordsInRam, PortIdle, Asked

\* ... a word set up, ...
LEMMA WriterInvSetsUp ==
    ASSUME WriterInv, RxTick, WriterSetsUp
    PROVE  WriterInv'
<1> USE Sizes
<1> DEFINE r == phy_regs_written_to_ram
           k == ram_writes_per_phy_addr
<1>1. LinkTypeOK /\ LinkTypeOK'
  BY LinkTypesStep DEF WriterInv, LinkNext
<1>2. ProgramSafe'
  BY PortStores DEF RxTick, RamEdge
<1>3. /\ CPU_RESETn = 1 /\ CPU_RESETn' = 1
      /\ write_phy_reg_space_to_ram = 1 /\ write_phy_reg_space_to_ram' = 1
      /\ phy_reg' = phy_reg /\ r < NumRegs /\ dummy_wait = 0 /\ dummy_wait' = 1
      /\ phy_reg_write_done' = phy_reg_write_done
      /\ onchip_memory2_0_s1_write' = onchip_memory2_0_s1_write
      /\ onchip_memory2_0_s1_address' = onchip_memory2_0_s1_address + 1
      /\ onchip_memory2_0_s1_writedata' = SetUpWord
  BY DEF RxTick, CountRxEdge, WriterSetsUp, Copying, Running, NextWait
<1>4. r \in RegIndex /\ k \in CopyIndex
  BY <1>1, <1>3, WordsSetUpRange
<1>5. Asked
  BY <1>3 DEF Asked
<1>6. phy_reg_write_done # 1
  BY <1>3, <1>4, <1>5 DEF WriterInv, Counting, RegIndex
<1>7. onchip_memory2_0_s1_write # 1
  BY <1>3 DEF WriterInv, StrobeTimed
<1>8. ram' = ram
  BY <1>1, <1>7, PortStores DEF RxTick, RamEdge, LinkTypeOK, RamTypeOK, Bit
<1>9. PICK n \in Nat : n = WordsSetUp
  BY <1>1, WordsSetUpRange
<1>10. WordsSetUp' = n + 1
  <2>1. n + 1 = IF k = WritesPerReg - 1 THEN Index(r + 1, 0) ELSE Index(r, k + 1)
    BY <1>4, <1>9, IndexRange DEF WordsSetUp
  <2>2. WordsSetUp' = IF k = WritesPerReg - 1 THEN Index(r + 1, 0) ELSE Index(r, k + 1)
    BY DEF WordsSetUp, WriterSetsUp, LastCopy, Index
  <2> QED
    BY <2>1, <2>2
<1>11. onchip_memory2_0_s1_address \in Nat /\ onchip_memory2_0_s1_address >= FirstAddr + n
  BY <1>1, <1>5, <1>9 DEF WriterInv, Counting, LinkTypeOK, RamTypeOK
<1>12. Counting'
  <2>1. r = 0 => (add_delimiter = 1 <=> k = 0)
    BY <1>5 DEF WriterInv, Counting
  <2>2. r' = 0 => (add_delimiter' = 1 <=> k' = 0)
    BY <1>1, <1>4, <2>1 DEF WriterSetsUp, LastCopy, RegIndex, CopyIndex, LinkTypeOK, RamTypeOK, Bit
  <2>3. r' = NumRegs => add_delimiter' = 1 /\ k' = 0
    BY <1>4 DEF WriterSetsUp, LastCopy, RegIndex, CopyIndex
  <2> QED
    BY <1>3, <1>6, <1>10, <1>11, <2>2, <2>3 DEF Counting
<1>13. SetUpWord = SavedWord(r, k)
  BY <1>4, <1>5 DEF SetUpWord, SavedWord, LastCopy, WriterInv, Counting
<1>14. WordOnPort'
  <2>1. ASSUME NEW s \in RegIndex, NEW j \in CopyIndex, Index(s, j) + 1 = n + 1
        PROVE  SetUpWord = SavedWord(s, j)
    <3>1. Index(s, j) = Index(r, k)
      BY <1>9, <2>1, IndexRange DEF WordsSetUp
    <3>2. s = r /\ j = k
      BY <1>4, <3>1, IndexUnique
    <3> QED
      BY <1>13, <3>2
  <2>2. ASSUME NEW s \in RegIndex, NEW j \in CopyIndex
        PROVE  SavedWord(s, j)' = SavedWord(s, j)
    BY <1>3 DEF SavedWord, RegWord
  <2>3. n + 1 # 0
    OBVIOUS
  <2> QED
    BY <1>3, <1>10, <2>1, <2>2, <2>3 DEF WordOnPort, Index
<1>15. WordsInRam'
  <2> SUFFICES ASSUME NEW s \in RegIndex, NEW j \in CopyIndex, WordSettled(Index(s, j))'
               PROVE  InRam(Index(s, j), SavedWord(s, j))'
    BY DEF WordsInRam, Index
  <2>1. PICK i \in Nat : i = Index(s, j) /\ i' = i
    BY IndexRange DEF Index
  <2>2. i + 1 <= n
    BY <1>3, <1>10, <2>1 DEF WordSettled
  <2>3. WordSettled(i)
    BY <1>3, <1>9, <2>2 DEF WordSettled
  <2>4. ram[onchip_memory2_0_s1_address - n + 1 + i] = SavedWord(s, j)
    BY <1>5, <1>9, <2>1, <2>3 DEF WriterInv, WordsInRam, InRam
  <2>5. (onchip_memory2_0_s1_address + 1) - (n + 1) + 1 + i = onchip_memory2_0_s1_address - n + 1 + i
    BY <1>11
  <2>6. SavedWord(s, j)' = SavedWord(s, j)
    BY <1>3 DEF SavedWord, RegWord
  <2> QED
    BY <1>3, <1>8, <1>10, <2>1, <2>4, <2>5, <2>6 DEF InRam
<1> QED
  BY <1>1, <1>2, <1>3, <1>7, <1>12, <1>14, <1>15 DEF WriterInv, Cleared, StrobeTimed, AtStart, WordStrobed

\* ... the strobe up and down, ...
LEMMA WriterInvStrobes ==
    ASSUME WriterInv, RxTick, WriterStrobes \/ WriterReleases
    PROVE  WriterInv'
<1> USE Sizes
<1>1. LinkTypeOK /\ LinkTypeOK'
  BY LinkTypesStep DEF WriterInv, LinkNext
<1>2. ProgramSafe'
  BY PortStores DEF RxTick, RamEdge
<1>3. /\ CPU_RESETn = 1 /\ CPU_RESETn' = 1
      /\ write_phy_reg_space_to_ram = 1 /\ write_phy_reg_space_to_ram' = 1
      /\ phy_reg' = phy_reg /\ phy_regs_written_to_ram < NumRegs
      /\ UNCHANGED <<phy_reg_write_done, onchip_memory2_0_s1_address, onchip_memory2_0_s1_writedata>>
      /\ UNCHANGED <<ram_writes_per_phy_addr, phy_regs_written_to_ram, add_delimiter>>
      /\ Room
  BY DEF RxTick, CountRxEdge, WriterStrobes, WriterReleases, Copying, Running, progress
<1>4. Asked /\ RamPort
  BY <1>3 DEF Asked, RxTick, RamEdge
<1>5. /\ onchip_memory2_0_s1_address \in Nat /\ onchip_memory2_0_s1_address < RamWords
      /\ onchip_memory2_0_s1_address >= FirstAddr
  <2>1. WordsSetUp \in Nat
    BY <1>1, WordsSetUpRange
  <2> QED
    BY <1>1, <1>3, <1>4, <2>1 DEF WriterInv, Counting, Room, LinkTypeOK, RamTypeOK
<1>6. \/ /\ dummy_wait \in 1 .. 5 /\ dummy_wait' = dummy_wait + 1
         /\ onchip_memory2_0_s1_write' = 1
      \/ /\ dummy_wait >= 6 /\ dummy_wait' \notin 1 .. 6
         /\ onchip_memory2_0_s1_write' = 0
  BY <1>1 DEF WriterStrobes, WriterReleases, Copying, Running, NextWait, LinkTypeOK, RamTypeOK
<1>7. WordsSetUp' = WordsSetUp
  BY <1>3 DEF WordsSetUp, Index
<1>8. \A s \in RegIndex, j \in CopyIndex : SavedWord(s, j)' = SavedWord(s, j)
  BY <1>3 DEF SavedWord, RegWord
<1>9. StrobeTimed' /\ WordStrobed'
  BY <1>3, <1>5, <1>6 DEF StrobeTimed, WordStrobed
<1>10. Counting' /\ WordOnPort'
  BY <1>3, <1>4, <1>7, <1>8 DEF WriterInv, Counting, WordOnPort, PortIdle, Index
<1>11. WordsInRam'
  <2> SUFFICES ASSUME NEW s \in RegIndex, NEW j \in CopyIndex, WordSettled(Index(s, j))'
               PROVE  InRam(Index(s, j), SavedWord(s, j))'
    BY DEF WordsInRam, Index
  <2>1. PICK i \in Nat : i = Index(s, j) /\ i' = i
    BY IndexRange DEF Index
  <2>2. \/ i + 1 < WordsSetUp
        \/ i + 1 = WordsSetUp /\ dummy_wait' \notin {1, 2}
    BY <1>7, <2>1 DEF WordSettled
  <2>3. dummy_wait' \notin {1, 2} => dummy_wait \in 2 .. 5 \/ dummy_wait >= 6
    BY <1>6
  <2>4. \/ WordSettled(i)
        \/ i + 1 = WordsSetUp /\ onchip_memory2_0_s1_write = 1
    <3>1. i + 1 = WordsSetUp => WordsSetUp >= 1
      BY <2>1
    <3>2. i + 1 = WordsSetUp /\ dummy_wait \in 2 .. 5 => onchip_memory2_0_s1_write = 1
      BY <1>3, <1>4, <3>1 DEF WriterInv, WordStrobed
    <3>3. dummy_wait >= 6 => dummy_wait \notin {1, 2}
      OBVIOUS
    <3> QED
      BY <1>3, <2>2, <2>3, <3>2, <3>3 DEF WordSettled
  <2>5. ram'[onchip_memory2_0_s1_address - WordsSetUp + 1 + i] = SavedWord(s, j)
    BY <1>3, <1>4, <2>1, <2>4, WordKept
  <2> QED
    BY <1>3, <1>7, <1>8, <2>1, <2>5 DEF InRam
<1> QED
  BY <1>1, <1>2, <1>3, <1>9, <1>10, <1>11 DEF WriterInv, Cleared, AtStart

\* ... and the answer.
LEMMA WriterInvAnswers ==
    ASSUME WriterInv, RxTick, WriterAnswers
    PROVE  WriterInv'
<1> USE Sizes
<1>1. LinkTypeOK /\ LinkTypeOK'
  BY LinkTypesStep DEF WriterInv, LinkNext
<1>2. ProgramSafe'
  BY PortStores DEF RxTick, RamEdge
<1>3. /\ CPU_RESETn = 1 /\ CPU_RESETn' = 1
      /\ write_phy_reg_space_to_ram = 1 /\ write_phy_reg_space_to_ram' = 1
      /\ phy_reg' = phy_reg /\ phy_regs_written_to_ram = NumRegs
      /\ UNCHANGED <<onchip_memory2_0_s1_address, onchip_memory2_0_s1_write>>
      /\ UNCHANGED <<onchip_memory2_0_s1_writedata, ram_writes_per_phy_addr, phy_regs_written_to_ram, add_delimiter>>
  BY <1>1 DEF RxTick, CountRxEdge, WriterAnswers, Running, port, progress, LinkTypeOK, RamTypeOK
<1>4. Asked
  BY <1>3 DEF Asked
<1>5. onchip_memory2_0_s1_write # 1
  BY <1>3 DEF WriterInv, StrobeTimed
<1>6. ram' = ram
  BY <1>1, <1>5, PortStores DEF RxTick, RamEdge, LinkTypeOK, RamTypeOK, Bit
<1>7. WordsSetUp' = WordsSetUp
  BY <1>3 DEF WordsSetUp, Index
<1>8. Counting' /\ WordOnPort' /\ WordStrobed'
  BY <1>3, <1>4, <1>7 DEF WriterInv, Counting, WordOnPort, WordStrobed, PortIdle, Index, SavedWord, RegWord
<1>9. WordsInRam'
  BY <1>3, <1>4, <1>6, <1>7 DEF WriterInv, WordsInRam, WordSettled, InRam, Index, SavedWord, RegWord
<1> QED
  BY <1>1, <1>2, <1>3, <1>5, <1>8, <1>9 DEF WriterInv, Cleared, StrobeTimed, AtStart

\* A request begins at the start of a block.
LEMMA WriterInvAsk ==
    ASSUME WriterInv, Ask
    PROVE  WriterInv'
<1> USE Sizes
<1>1. LinkTypeOK /\ LinkTypeOK'
  BY LinkTypesStep DEF WriterInv, LinkNext
<1>2. /\ CPU_RESETn = 1 /\ CPU_RESETn' = 1 /\ write_phy_reg_space_to_ram = 0
      /\ phy_reg_write_done = 0 /\ write_phy_reg_space_to_ram' = 1
      /\ UNCHANGED <<onchip_memory2_0_s1_address, onchip_memory2_0_s1_write>>
      /\ UNCHANGED <<onchip_memory2_0_s1_writedata, ram_writes_per_phy_addr, phy_regs_written_to_ram, add_delimiter>>
      /\ UNCHANGED <<dummy_wait, phy_reg_write_done, ram>>
  BY DEF Ask, ramVars, port, progress
<1>3. /\ ram_writes_per_phy_addr = 0 /\ phy_regs_written_to_ram = 0 /\ add_delimiter = 1 /\ PortIdle
      /\ onchip_memory2_0_s1_address >= FirstAddr
  BY <1>2 DEF WriterInv, AtStart
<1>4. WordsSetUp' = 0
  BY <1>2, <1>3, WholeRegisters DEF WordsSetUp, Index
<1>5. onchip_memory2_0_s1_write # 1
  BY <1>2 DEF WriterInv, StrobeTimed
<1>6. \A r \in RegIndex, k \in CopyIndex : Index(r, k) \in Nat /\ Index(r, k)' = Index(r, k)
  BY IndexRange DEF Index
<1>7. WordOnPort'
  BY <1>2, <1>3, <1>4, <1>6 DEF WordOnPort, PortIdle, Index
<1>8. WordsInRam'
  <2> SUFFICES ASSUME NEW r \in RegIndex, NEW k \in CopyIndex
               PROVE  ~WordSettled(Index(r, k))'
    BY DEF WordsInRam, Index
  <2> QED
    BY <1>4, <1>6 DEF WordSettled
<1>9. Counting' /\ WordStrobed'
  BY <1>1, <1>2, <1>3, <1>4 DEF Counting, WordStrobed, LinkTypeOK, RamTypeOK
<1> QED
  BY <1>1, <1>2, <1>5, <1>7, <1>8, <1>9 DEF WriterInv, Cleared, StrobeTimed, AtStart, ProgramSafe

\* One that is withdrawn leaves the closing delimiter on the port.
LEMMA WriterInvWithdraw ==
    ASSUME WriterInv, Withdraw
    PROVE  WriterInv'
<1> USE Sizes
<1>1. LinkTypeOK /\ LinkTypeOK'
  BY LinkTypesStep DEF WriterInv, LinkNext
<1>2. /\ CPU_RESETn = 1 /\ CPU_RESETn' = 1 /\ write_phy_reg_space_to_ram = 1
      /\ phy_reg_write_done = 1 /\ write_phy_reg_space_to_ram' = 0
      /\ UNCHANGED <<onchip_memory2_0_s1_address, onchip_memory2_0_s1_write>>
      /\ UNCHANGED <<onchip_memory2_0_s1_writedata, ram_writes_per_phy_addr, phy_regs_written_to_ram, add_delimiter>>
      /\ UNCHANGED <<dummy_wait, phy_reg_write_done, ram>>
  BY DEF Withdraw, ramVars, port, progress
<1>3. Asked
  BY <1>2 DEF Asked
<1>4. /\ phy_regs_written_to_ram = NumRegs /\ add_delimiter = 1 /\ ram_writes_per_phy_addr = 0
      /\ onchip_memory2_0_s1_address >= FirstAddr + WordsSetUp
  BY <1>2, <1>3 DEF WriterInv, Counting
<1>5. WordsSetUp = BlockWords
  BY <1>1, <1>4, WordsSetUpRange
<1>6. PortIdle
  <2>1. NumRegs - 1 \in RegIndex /\ WritesPerReg - 1 \in CopyIndex
    BY DEF RegIndex, CopyIndex
  <2>2. Index(NumRegs - 1, WritesPerReg - 1) + 1 = WordsSetUp
    BY <1>5, <2>1, IndexRange
  <2>3. onchip_memory2_0_s1_writedata = SavedWord(NumRegs - 1, WritesPerReg - 1)
    BY <1>3, <2>1, <2>2 DEF WriterInv, WordOnPort
  <2> QED
    BY <2>3 DEF SavedWord, PortIdle
<1>7. onchip_memory2_0_s1_write # 1
  BY <1>2, <1>4 DEF WriterInv, StrobeTimed
<1>8. onchip_memory2_0_s1_address >= FirstAddr
  BY <1>1, <1>4, <1>5 DEF LinkTypeOK, RamTypeOK
<1> QED
  BY <1>1, <1>2, <1>4, <1>6, <1>7, <1>8 DEF WriterInv, Cleared, StrobeTimed, AtStart, Counting, WordOnPort,
        WordStrobed, WordsInRam, PortIdle, Asked, ProgramSafe

\* The button, and what the other clock makes of it.
LEMMA WriterInvButton ==
    ASSUME WriterInv, Press \/ MdcResets \/ Release
    PROVE  WriterInv'
<1> USE Sizes
<1>1. LinkTypeOK /\ LinkTypeOK'
  BY LinkTypesStep DEF WriterInv, LinkNext
<1>2. /\ UNCHANGED <<onchip_memory2_0_s1_address, onchip_memory2_0_s1_write>>
      /\ UNCHANGED <<onchip_memory2_0_s1_writedata, ram_writes_per_phy_addr, phy_regs_written_to_ram, add_delimiter>>
      /\ UNCHANGED <<dummy_wait, phy_reg_write_done, ram>>
  BY DEF Press, MdcResets, Release, ramVars, port, progress
<1>3. ProgramSafe'
  BY <1>2 DEF WriterInv, ProgramSafe
<1>4. CASE Press
  <2>1. /\ CPU_RESETn = 1 /\ CPU_RESETn' = 0 /\ rx_edges_in_reset' = 0 /\ mdc_edges_in_reset' = 0
        /\ UNCHANGED <<phy_reg, write_phy_reg_space_to_ram>>
    BY <1>4 DEF Press, PressButton
  <2>2. Asked' <=> Asked
    BY <2>1 DEF Asked
  <2>3. WordOnPort' /\ Counting' /\ WordStrobed'
    BY <1>2, <2>1, <2>2 DEF WriterInv, WordOnPort, Counting, WordStrobed, PortIdle, WordsSetUp, Index,
          SavedWord, RegWord
  <2>4. WordsInRam'
    BY <1>2, <2>1, <2>2 DEF WriterInv, WordsInRam, WordSettled, InRam, WordsSetUp, Index, SavedWord, RegWord
  <2> QED
    BY <1>1, <1>2, <1>3, <2>1, <2>3, <2>4 DEF WriterInv, Cleared, StrobeTimed, AtStart
<1>5. CASE MdcResets
  <2>1. /\ CPU_RESETn = 0 /\ CPU_RESETn' = 0 /\ rx_edges_in_reset' = rx_edges_in_reset
        /\ write_phy_reg_space_to_ram' = 0
    BY <1>5 DEF MdcResets
  <2> QED
    BY <1>1, <1>2, <1>3, <2>1 DEF WriterInv, Cleared, StrobeTimed, AtStart, Counting, WordOnPort,
        WordStrobed, WordsInRam, Asked
<1>6. CASE Release
  <2>1. /\ CPU_RESETn = 0 /\ CPU_RESETn' = 1 /\ rx_edges_in_reset > 0 /\ mdc_edges_in_reset > 0
        /\ UNCHANGED write_phy_reg_space_to_ram
    BY <1>6 DEF Release, ReleaseButton
  <2>2. write_phy_reg_space_to_ram' = 0
    BY <2>1 DEF WriterInv, Cleared
  <2>3. AtStart' /\ StrobeTimed'
    BY <1>2, <2>1 DEF WriterInv, Cleared, AtStart, StrobeTimed, PortIdle
  <2> QED
    BY <1>1, <1>3, <2>1, <2>2, <2>3 DEF WriterInv, Cleared, Counting, WordOnPort,
        WordStrobed, WordsInRam, Asked
<1> QED
  BY <1>4, <1>5, <1>6

\* Every edge, request and press keeps the writer's invariant.
LEMMA WriterInvStep ==
    ASSUME WriterInv, [LinkNext]_linkVars
    PROVE  WriterInv'
<1>1. CASE RxTick
  BY <1>1, WriterInvResets, WriterInvFull, WriterInvIdle, WriterInvSetsUp, WriterInvStrobes,
     WriterInvAnswers DEF RxTick, RamEdge
<1>2. CASE Ask \/ Withdraw \/ Press \/ MdcResets \/ Release
  BY <1>2, WriterInvAsk, WriterInvWithdraw, WriterInvButton
<1>3. CASE UNCHANGED linkVars
  <2> USE <1>3 DEF linkVars, ramVars, port, progress, buttonVars
  <2>1. LinkTypeOK'
    BY LinkTypesStep DEF WriterInv
  <2>2. WordOnPort' /\ Counting' /\ WordStrobed'
    BY DEF WriterInv, WordOnPort, Counting, WordStrobed, Asked, PortIdle, WordsSetUp, Index,
          SavedWord, RegWord
  <2>3. WordsInRam'
    BY DEF WriterInv, WordsInRam, WordSettled, InRam, Asked, WordsSetUp, Index, SavedWord, RegWord
  <2> QED
    BY <2>1, <2>2, <2>3 DEF WriterInv, Cleared, StrobeTimed, AtStart, PortIdle, ProgramSafe
<1> QED
  BY <1>1, <1>2, <1>3 DEF LinkNext

\* The writer's invariant holds in every state.
LEMMA WriterInvariant == LinkSpec => []WriterInv
<1>1. WriterInv /\ [LinkNext]_linkVars => WriterInv'
  BY WriterInvStep
<1> QED
  BY <1>1, WriterInvInit, PTL DEF LinkSpec

\* An answer means that the whole snapshot is in the memory: every word of the block
\* but the last, below the writer's address.
LEMMA AnsweredBlock ==
    ASSUME WriterInv, phy_reg_write_done = 1, write_phy_reg_space_to_ram = 1
    PROVE  /\ WordsSetUp = BlockWords
           /\ onchip_memory2_0_s1_address >= FirstAddr + BlockWords
           /\ \A r \in RegIndex, k \in CopyIndex :
                 Index(r, k) < BlockWords - 1 =>
                     ram[onchip_memory2_0_s1_address - BlockWords + 1 + Index(r, k)] =
                         IF Index(r, k) = 0 THEN DELIMITER ELSE RegWord(r)
<1> USE Sizes
<1>1. LinkTypeOK
  BY DEF WriterInv
<1>2. Asked
  BY <1>1 DEF WriterInv, Cleared, Asked, LinkTypeOK, SignalsTypeOK, ButtonTypeOK, Bit
<1>3. /\ phy_regs_written_to_ram = NumRegs /\ ram_writes_per_phy_addr = 0
      /\ onchip_memory2_0_s1_address >= FirstAddr + WordsSetUp
  BY <1>2 DEF WriterInv, Counting
<1>4. WordsSetUp = BlockWords
  BY <1>1, <1>3, WordsSetUpRange
<1>5. ASSUME NEW r \in RegIndex, NEW k \in CopyIndex, Index(r, k) < BlockWords - 1
      PROVE  ram[onchip_memory2_0_s1_address - BlockWords + 1 + Index(r, k)] =
                 IF Index(r, k) = 0 THEN DELIMITER ELSE RegWord(r)
  <2>1. /\ Index(r, k) \in Nat
        /\ Index(r, k) = 0 <=> r = 0 /\ k = 0
        /\ r = NumRegs - 1 /\ k = WritesPerReg - 1 => Index(r, k) = BlockWords - 1
    BY IndexRange
  <2>2. WordSettled(Index(r, k))
    BY <1>4, <1>5, <2>1 DEF WordSettled
  <2>3. ram[onchip_memory2_0_s1_address - BlockWords + 1 + Index(r, k)] = SavedWord(r, k)
    BY <1>2, <1>4, <2>2 DEF WriterInv, WordsInRam, InRam
  <2> QED
    BY <1>5, <2>1, <2>3 DEF SavedWord
<1> QED
  BY <1>3, <1>4, <1>5

\* Whatever is asked for, however often and with whatever presses between: an answer
\* means that the block before the address is the snapshot, and the program below the
\* writer's start stays as it was (altera_max_10.v:114-219).
THEOREM WriterSafety == LinkSpec => []WriterSafe
<1>1. WriterInv => WriterSafe
  <2> SUFFICES ASSUME WriterInv
               PROVE  AnswerMeansSaved
    BY DEF WriterSafe, WriterInv
  <2> SUFFICES ASSUME phy_reg_write_done = 1, write_phy_reg_space_to_ram = 1,
                      NEW r \in RegIndex, NEW k \in 0 .. WritesPerReg - 1
               PROVE  LET i == r * WritesPerReg + k
                          base == onchip_memory2_0_s1_address - BlockWords
                      IN  i < BlockWords - 1 =>
                            ram[base + 1 + i] = IF i = 0 THEN DELIMITER ELSE RegWord(r)
    BY DEF AnswerMeansSaved
  <2> QED
    BY AnsweredBlock DEF Index, CopyIndex
<1> QED
  BY <1>1, WriterInvariant, PTL

\* No word of an earlier snapshot reaches the memory, not even when a request comes
\* while dummy_wait raises the strobe before any word is set up (altera_max_10.v:199).
THEOREM NoStaleWords == LinkSpec => NoStaleWord
<1>1. ASSUME WriterInv, [LinkNext]_linkVars, CPU_RESETn = 1, NEW a \in RamIndex,
             NEW r \in RegIndex, NEW w \in Word, ram'[a] # ram[a], ram'[a] = <<r, w>>
      PROVE  w = phy_reg[r]
  <2> USE Sizes
  <2>1. RamPort /\ RxTick
    BY <1>1 DEF LinkNext, RxTick, RamEdge, Ask, Withdraw, Press, MdcResets, Release, linkVars, ramVars
  <2>2. onchip_memory2_0_s1_write = 1 /\ a = onchip_memory2_0_s1_address
    BY <1>1, <2>1, PortStores DEF WriterInv, LinkTypeOK, RamTypeOK, Bit
  <2>3. onchip_memory2_0_s1_writedata = <<r, w>>
    BY <1>1, <2>1, <2>2, PortStores
  <2>4. Asked /\ phy_regs_written_to_ram < NumRegs
    BY <1>1, <2>2 DEF WriterInv, StrobeTimed, Asked
  <2>5. <<r, w>> \notin {DELIMITER, BEEFBEEF}
    BY OtherWordsAssumption
  <2>6. WordsSetUp \in Nat /\ WordsSetUp # 0
    BY <1>1, <2>3, <2>4, <2>5, WordsSetUpRange DEF WriterInv, WordOnPort, PortIdle
  <2>7. PICK s \in RegIndex, j \in CopyIndex : Index(s, j) + 1 = WordsSetUp
    <3> DEFINE s == phy_regs_written_to_ram
               j == ram_writes_per_phy_addr
    <3>1. s \in RegIndex /\ j \in CopyIndex /\ s \in Nat /\ j \in Nat
      BY <1>1, <2>4, WordsSetUpRange DEF WriterInv, RegIndex, CopyIndex
    <3>2. CASE j > 0
      <4>1. j - 1 \in CopyIndex /\ j - 1 # WritesPerReg - 1 /\ (j - 1) + 1 = j
        BY <3>1, <3>2 DEF CopyIndex
      <4>2. Index(s, j - 1) + 1 = Index(s, j)
        BY <3>1, <4>1, IndexRange
      <4> QED
        BY <3>1, <4>1, <4>2 DEF WordsSetUp
    <3>3. CASE j = 0
      <4>1. s > 0
        BY <2>6, <3>1, <3>3, IndexRange DEF WordsSetUp
      <4>2. s - 1 \in RegIndex /\ WritesPerReg - 1 \in CopyIndex /\ (s - 1) + 1 = s
        BY <3>1, <4>1 DEF RegIndex, CopyIndex
      <4>3. Index(s - 1, WritesPerReg - 1) + 1 = Index(s, 0)
        BY <4>2, IndexRange
      <4> QED
        BY <3>3, <4>2, <4>3 DEF WordsSetUp
    <3> QED
      BY <3>1, <3>2, <3>3
  <2>8. onchip_memory2_0_s1_writedata = SavedWord(s, j)
    BY <1>1, <2>4, <2>7 DEF WriterInv, WordOnPort
  <2> QED
    BY <2>3, <2>5, <2>8 DEF SavedWord, RegWord
<1>2. WriterInv /\ [LinkNext]_linkVars =>
        [CPU_RESETn = 1 => \A a \in RamIndex, r \in RegIndex, w \in Word :
            ram'[a] # ram[a] /\ ram'[a] = <<r, w>> => w = phy_reg[r]]_linkVars
  BY <1>1
<1> QED
  BY <1>2, WriterInvariant, PTL DEF LinkSpec, NoStaleWord

----------------------------------------------------------------------------
(* The program beside the writer. *)

\* The program reads the memory and leaves the hardware alone.
LEMMA ProgramLeavesLink == DumpNext => [LinkNext]_linkVars
BY DEF DumpNext, Program, Main, ReadLine, PrintData, NextOffset, AllDone, HostShows, Hardware

\* What the assumptions say of the program's constants.
LEMMA DumpSizes ==
    /\ LinesPerGroup \in Nat /\ LinesPerGroup >= 1
    /\ FifoLines \in Nat /\ FifoLines >= 1
    /\ ProgramWords \subseteq RamIndex /\ IMAGE # ZERO
    /\ {BANNER, NEWLINE} \cap (RamIndex \X RamValues) = {}
BY DumpAssumption

\* A line that is put on the console stays behind those that are there.
LEMMA PutsAppends ==
    ASSUME DumpTypes, NEW item \in Item, Puts(item)
    PROVE  /\ uart' \in Seq(Item) /\ Len(uart') = Len(uart) + 1 /\ Len(uart') <= FifoLines
           /\ DOMAIN uart = 1 .. Len(uart) /\ DOMAIN uart' = 1 .. Len(uart) + 1
           /\ Len(uart) \in Nat
           /\ \A j \in 1 .. Len(uart) : uart'[j] = uart[j] /\ uart[j] \in Item
           /\ uart'[Len(uart) + 1] = item
<1>1. uart \in Seq(Item) /\ uart' = Append(uart, item)
  BY DEF DumpTypes, Puts
<1>2. Len(uart) < FifoLines /\ Len(uart) \in Nat
  BY <1>1 DEF Puts
<1> QED
  BY <1>1, <1>2, DumpSizes

\* The host takes the first line; the others move up.
LEMMA HostTakesHead ==
    ASSUME DumpTypes, HostShows
    PROVE  /\ uart \in Seq(Item) /\ Len(uart) \in Nat /\ Len(uart) >= 1 /\ Head(uart) = uart[1]
           /\ uart' \in Seq(Item) /\ Len(uart') = Len(uart) - 1
           /\ DOMAIN uart = 1 .. Len(uart) /\ DOMAIN uart' = 1 .. Len(uart) - 1
           /\ \A j \in 1 .. Len(uart) : uart[j] \in Item
           /\ \A j \in 1 .. Len(uart) - 1 : uart'[j] = uart[j + 1]
<1>1. uart \in Seq(Item) /\ uart # << >> /\ uart' = Tail(uart)
  BY DEF DumpTypes, HostShows
<1> QED
  BY <1>1

\* A word of the dump is what the memory holds, or nothing.
LEMMA ReadWordType ==
    ASSUME LinkTypeOK, NEW a \in RamIndex
    PROVE  ReadWord(a) \in RamValues
BY DEF ReadWord, LinkTypeOK, RamTypeOK, RamValues

\* A line is a banner, a blank one or a word of the memory with its address.
LEMMA LinesAreLines ==
    /\ BANNER \in Item /\ NEWLINE \in Item
    /\ ~IsData(BANNER) /\ ~IsData(NEWLINE)
    /\ \A a \in RamIndex, w \in RamValues : <<a, w>> \in Item /\ IsData(<<a, w>>)
    /\ \A item \in Item : IsData(item) => item \in RamIndex \X RamValues
BY DumpSizes DEF Item, IsData

\* The program's variables, the console and what the host has seen keep their types.
LEMMA DumpTypesStep ==
    ASSUME DumpInv, DumpNext
    PROVE  DumpTypes' /\ dpc' \in {"main", "read", "print", "next", "done"}
           /\ eth_offset' \in 0 .. RamWords /\ print_count' \in 0 .. LinesPerGroup
           /\ Len(uart') <= FifoLines
<1> USE Sizes, DumpSizes DEF RamIndex
<1>1. DumpTypes /\ DumpTypeOK /\ LinkTypeOK
  BY DEF DumpInv, DumpTypeOK
<1>2. CASE Main
  <2>1. dpc = "main" /\ dpc' = "read" /\ Puts(BANNER)
        /\ UNCHANGED <<eth_offset, ethernet_line, print_count, shown, group>>
    BY <1>2 DEF Main
  <2>2. uart' \in Seq(Item) /\ Len(uart') <= FifoLines
    BY <1>1, <2>1, PutsAppends, LinesAreLines
  <2> QED
    BY <1>1, <2>1, <2>2 DEF DumpTypes
<1>3. CASE ReadLine
  <2>1. ReadWord(eth_offset) \in RamValues
    BY <1>1, <1>3, ReadWordType DEF ReadLine, DumpTypes
  <2> QED
    BY <1>1, <1>3, <2>1 DEF ReadLine, DumpTypes, DumpTypeOK
<1>4. CASE PrintData
  <2>1. dpc = "print" /\ dpc' = "next" /\ Puts(<<eth_offset, ethernet_line>>)
        /\ print_count' = print_count + 1 /\ eth_offset \in RamIndex
        /\ UNCHANGED <<eth_offset, ethernet_line, shown, group>>
    BY <1>1, <1>4 DEF PrintData, DumpTypes
  <2>2. uart' \in Seq(Item) /\ Len(uart') <= FifoLines
    BY <1>1, <2>1, PutsAppends, LinesAreLines DEF DumpTypes
  <2> QED
    BY <1>1, <2>1, <2>2 DEF DumpTypes
<1>5. CASE NextOffset
  <2>1. dpc = "next" /\ dpc' = "read" /\ eth_offset' = eth_offset + 1
        /\ UNCHANGED <<ethernet_line, shown, group>>
    BY <1>5 DEF NextOffset, NextLine
  <2>2. uart' \in Seq(Item) /\ Len(uart') <= FifoLines
    BY <1>1, <1>5, PutsAppends, LinesAreLines DEF NextOffset, DumpTypes, DumpTypeOK
  <2>3. print_count' \in Nat /\ print_count' < LinesPerGroup
    BY <1>1, <1>5 DEF NextOffset, GroupDone, DumpTypes, DumpTypeOK
  <2> QED
    BY <1>1, <2>1, <2>2, <2>3 DEF DumpTypes
<1>6. CASE AllDone
  <2>1. dpc = "read" /\ dpc' = "done" /\ eth_offset >= RamWords /\ Puts(BANNER)
        /\ UNCHANGED <<eth_offset, ethernet_line, print_count, shown, group>>
    BY <1>6 DEF AllDone
  <2>2. uart' \in Seq(Item) /\ Len(uart') <= FifoLines
    BY <1>1, <2>1, PutsAppends, LinesAreLines
  <2> QED
    BY <1>1, <2>1, <2>2 DEF DumpTypes, DumpTypeOK
<1>7. CASE HostShows
  <2>1. uart # << >> /\ dpc # "main"
        /\ UNCHANGED <<dpc, eth_offset, ethernet_line, print_count>>
    BY <1>1, <1>7 DEF HostShows, DumpTypes
  <2>2. uart' \in Seq(Item) /\ Len(uart') <= FifoLines
    BY <1>1, <1>7, HostTakesHead DEF DumpTypeOK
  <2>3. shown' \in [RamIndex -> RamValues \cup {BLANK}] /\ group' \in Nat
    <3>1. Head(uart) \in Item
      BY <1>1, <1>7, HostTakesHead
    <3>2. CASE IsData(Head(uart))
      <4>1. Head(uart)[1] \in RamIndex /\ Head(uart)[2] \in RamValues
        BY <3>1, <3>2, LinesAreLines
      <4>2. shown' = [shown EXCEPT ![Head(uart)[1]] = Head(uart)[2]] /\ group' = group + 1
        BY <1>7, <3>2 DEF HostShows, IsData
      <4> QED
        BY <1>1, <4>1, <4>2 DEF DumpTypes
    <3>3. CASE ~IsData(Head(uart))
      BY <1>1, <1>7, <3>3 DEF HostShows, IsData, DumpTypes
    <3> QED
      BY <3>2, <3>3
  <2> QED
    BY <1>1, <2>1, <2>2, <2>3 DEF DumpTypes, DumpTypeOK
<1>8. CASE Hardware
  <2>1. NoBlock' = NoBlock
    BY DEF NoBlock, ZeroWord
  <2> QED
    BY <1>1, <1>8, <2>1 DEF Hardware, DumpTypes, DumpTypeOK
<1> QED
  BY <1>2, <1>3, <1>4, <1>5, <1>6, <1>7, <1>8 DEF DumpNext, Program

\* A word that does not change while the program passes it is printed as it is.
LEMMA SeenStep ==
    ASSUME DumpInv, DumpNext, NEW a \in RamIndex, NEW w \in RamValues, w # ZERO,
           ReadWord(a) = w, Seen(a, w)
    PROVE  Seen(a, w)'
<1> USE Sizes
<1>1. DumpTypes
  BY DEF DumpInv
<1>2. DOMAIN uart = 1 .. Len(uart) /\ Len(uart) \in Nat /\ a \in Nat /\ eth_offset \in Nat
  BY <1>1 DEF DumpTypes, RamIndex
<1>3. ASSUME NEW item \in Item, Puts(item), shown' = shown,
             IsData(item) /\ item[1] = a => item[2] = w,
             dpc' # "print",
             Passed(a)' => Passed(a) \/ item = <<a, w>>
      PROVE  Seen(a, w)'
  <2>1. /\ DOMAIN uart' = 1 .. Len(uart) + 1
        /\ \A j \in 1 .. Len(uart) : uart'[j] = uart[j]
        /\ uart'[Len(uart) + 1] = item
    BY <1>1, <1>3, PutsAppends
  <2>2. \A j \in DOMAIN uart' : IsData(uart'[j]) /\ uart'[j][1] = a => uart'[j][2] = w
    <3> SUFFICES ASSUME NEW j \in 1 .. Len(uart) + 1
                 PROVE  IsData(uart'[j]) /\ uart'[j][1] = a => uart'[j][2] = w
      BY <2>1
    <3>1. CASE j \in 1 .. Len(uart)
      BY <1>2, <2>1, <3>1 DEF Seen
    <3>2. CASE j = Len(uart) + 1
      BY <1>3, <2>1, <3>2
    <3> QED
      BY <1>2, <3>1, <3>2
  <2>3. Passed(a)' => shown'[a] = w \/ \E j \in DOMAIN uart' : uart'[j] = <<a, w>>
    <3>1. Passed(a) => shown[a] = w \/ \E j \in 1 .. Len(uart) : uart[j] = <<a, w>>
      BY <1>2 DEF Seen
    <3>2. 1 .. Len(uart) \subseteq DOMAIN uart' /\ Len(uart) + 1 \in DOMAIN uart'
      BY <1>2, <2>1
    <3> QED
      BY <1>3, <2>1, <3>1, <3>2
  <2> QED
    BY <1>3, <2>2, <2>3 DEF Seen, IsData
<1>4. CASE Main
  BY <1>1, <1>2, <1>3, <1>4, LinesAreLines DEF Main, Passed, DumpTypes
<1>5. CASE ReadLine
  <2>1. Passed(a)' => Passed(a)
    <3>1. eth_offset = a => dpc' = "print"
      BY <1>5 DEF ReadLine
    <3> QED
      BY <1>2, <1>5, <3>1 DEF ReadLine, Passed
  <2> QED
    BY <1>5, <2>1 DEF ReadLine, Seen, IsData
<1>6. CASE PrintData
  <2> DEFINE item == <<eth_offset, ethernet_line>>
  <2>1. item \in Item
    BY <1>1, <1>6, LinesAreLines DEF PrintData, DumpTypes, RamIndex
  <2>2. item[1] = a => item[2] = w
    BY <1>6 DEF PrintData, Seen
  <2>3. Passed(a)' => Passed(a) \/ item = <<a, w>>
    BY <1>2, <1>6, <2>2 DEF PrintData, Passed
  <2>4. Puts(item) /\ shown' = shown /\ dpc' # "print"
    BY <1>6 DEF PrintData
  <2> HIDE DEF item
  <2> QED
    BY <1>3, <2>1, <2>2, <2>3, <2>4
<1>7. CASE NextOffset
  <2>1. Passed(a)' => Passed(a)
    BY <1>2, <1>7 DEF NextOffset, NextLine, Passed
  <2>2. CASE GroupDone
    BY <1>3, <1>7, <2>1, <2>2, LinesAreLines DEF NextOffset
  <2>3. CASE ~GroupDone
    BY <1>7, <2>1, <2>3 DEF NextOffset, Seen, IsData
  <2> QED
    BY <2>2, <2>3
<1>8. CASE AllDone
  BY <1>2, <1>3, <1>8, LinesAreLines DEF AllDone, Passed
<1>9. CASE HostShows
  <2>1. /\ Len(uart) >= 1 /\ Head(uart) = uart[1] /\ uart[1] \in Item
        /\ DOMAIN uart' = 1 .. Len(uart) - 1
        /\ \A j \in 1 .. Len(uart) - 1 : uart'[j] = uart[j + 1]
    BY <1>1, <1>9, HostTakesHead
  <2>2. shown' = IF IsData(uart[1]) THEN [shown EXCEPT ![uart[1][1]] = uart[1][2]] ELSE shown
    BY <1>9, <2>1 DEF HostShows, IsData
  <2>3. 1 \in DOMAIN uart /\ \A j \in 1 .. Len(uart) - 1 : j + 1 \in DOMAIN uart
    BY <1>2, <2>1
  <2>4. \A j \in DOMAIN uart' : IsData(uart'[j]) /\ uart'[j][1] = a => uart'[j][2] = w
    BY <2>1, <2>3 DEF Seen
  <2>5. IsData(uart[1]) /\ uart[1][1] = a => shown'[a] = w
    BY <1>1, <2>2, <2>3 DEF Seen, DumpTypes
  <2>6. shown[a] = w => shown'[a] = w
    <3>1. IsData(uart[1]) /\ uart[1][1] # a => shown'[a] = shown[a]
      BY <1>1, <2>2 DEF DumpTypes
    <3> QED
      BY <2>2, <2>5, <3>1
  <2>7. ASSUME NEW j \in DOMAIN uart, uart[j] = <<a, w>>
        PROVE  shown'[a] = w \/ \E i \in DOMAIN uart' : uart'[i] = <<a, w>>
    <3>1. CASE j = 1
      <4>1. IsData(uart[1]) /\ uart[1][1] = a
        BY <2>7, <3>1, LinesAreLines
      <4> QED
        BY <2>5, <4>1
    <3>2. CASE j # 1
      <4>1. j - 1 \in 1 .. Len(uart) - 1 /\ (j - 1) + 1 = j
        BY <1>2, <3>2
      <4>2. uart'[j - 1] = <<a, w>>
        BY <2>1, <2>7, <4>1
      <4> QED
        BY <2>1, <4>1, <4>2
    <3> QED
      BY <3>1, <3>2
  <2>8. Passed(a)' <=> Passed(a)
    BY <1>9 DEF HostShows, Passed
  <2>9. dpc' = "print" /\ eth_offset' = a => ethernet_line' = w
    BY <1>9 DEF HostShows, Seen
  <2> QED
    BY <2>4, <2>6, <2>7, <2>8, <2>9 DEF Seen, IsData
<1>10. CASE Hardware
  BY <1>10 DEF Hardware, Seen, Passed, IsData
<1> QED
  BY <1>4, <1>5, <1>6, <1>7, <1>8, <1>9, <1>10 DEF DumpNext, Program

\* A word of a block belongs to one copy of one register.
LEMMA DivIndex ==
    ASSUME NEW i \in Nat, i < BlockWords
    PROVE  /\ i \div WritesPerReg \in RegIndex
           /\ \E k \in CopyIndex : Index(i \div WritesPerReg, k) = i
<1> USE Sizes
<1> DEFINE r == i \div WritesPerReg
           k == i % WritesPerReg
<1>1. /\ r \in Nat /\ k \in Nat /\ k < WritesPerReg
      /\ i = WritesPerReg * r + k
  OBVIOUS
<1> HIDE DEF r, k
<1>2. r * WritesPerReg \in Nat /\ r * WritesPerReg = WritesPerReg * r
  BY <1>1
<1>3. Index(r, k) = i /\ k \in CopyIndex
  BY <1>1, <1>2 DEF Index, CopyIndex
<1>4. r < NumRegs
  <2>1. r >= NumRegs => NumRegs * WritesPerReg <= r * WritesPerReg
    BY <1>1, MoreRegisters
  <2> QED
    BY <1>1, <1>2, <2>1 DEF BlockWords
<1> QED
  BY <1>1, <1>3, <1>4 DEF RegIndex, r

\* When the program starts nothing is printed and no block is saved.
LEMMA DumpInvInit ==
    ASSUME DumpInit
    PROVE  DumpInv
<1> USE Sizes, DumpSizes DEF DumpInit
<1>1. WriterInv /\ LinkTypeOK
  BY WriterInvInit DEF WriterInv
<1>2. NoBlock.base = RamWords
  BY DEF NoBlock
<1>3. DumpTypeOK /\ DumpTypes
  BY <1>1, <1>2 DEF DumpTypeOK, DumpTypes, RamValues, RamIndex
<1>4. BlockStays /\ BlockSeen
  BY DEF BlockStays, BlockSeen
<1>5. ProgramSeen
  BY DEF ProgramSeen, Seen, Passed
<1>6. Groups
  BY DEF Groups
<1> QED
  BY <1>1, <1>3, <1>4, <1>5, <1>6 DEF DumpInv

\* The writer's address goes back only in a press.
LEMMA AddressGrows ==
    ASSUME LinkTypeOK, [LinkNext]_linkVars, CPU_RESETn = 1
    PROVE  onchip_memory2_0_s1_address' >= onchip_memory2_0_s1_address
<1>1. onchip_memory2_0_s1_address \in Nat
  BY Sizes DEF LinkTypeOK, RamTypeOK
<1>2. CASE RxTick
  BY <1>1, <1>2 DEF RxTick, RamEdge, WriterResets, WriterFull, WriterIdle, WriterSetsUp,
                    WriterStrobes, WriterReleases, WriterAnswers, Copying, port
<1>3. CASE Ask \/ Withdraw \/ Press \/ MdcResets \/ Release \/ UNCHANGED linkVars
  BY <1>1, <1>3 DEF Ask, Withdraw, Press, MdcResets, Release, linkVars, ramVars, port
<1> QED
  BY <1>2, <1>3 DEF LinkNext

\* The memory changes through the port only.
LEMMA RamChanges ==
    ASSUME [LinkNext]_linkVars
    PROVE  RamPort \/ ram' = ram
BY DEF LinkNext, RxTick, RamEdge, Ask, Withdraw, Press, MdcResets, Release, linkVars, ramVars

\* The block that was saved when the dump began stays in the memory: the writer goes
\* on above it until a press lets it start over.
LEMMA BlockStaysStep ==
    ASSUME DumpInv, DumpNext
    PROVE  BlockStays' /\ block'.base \in 0 .. RamWords
<1> USE Sizes
<1>1. /\ WriterInv /\ LinkTypeOK /\ DumpTypes /\ BlockStays /\ block.base \in 0 .. RamWords
      /\ onchip_memory2_0_s1_address \in Nat /\ onchip_memory2_0_s1_address <= RamWords
  BY DEF DumpInv, DumpTypeOK, LinkTypeOK, RamTypeOK
<1>2. NoBlock' = NoBlock /\ NoBlock.base = RamWords
  BY DEF NoBlock, ZeroWord
<1>3. CASE Main
  <2>1. CASE block' = NoBlock
    BY <1>2, <2>1 DEF BlockStays
  <2>2. CASE block' # NoBlock
    <3>1. /\ phy_reg_write_done = 1 /\ write_phy_reg_space_to_ram = 1 /\ CPU_RESETn = 1
          /\ block' = [base |-> onchip_memory2_0_s1_address - BlockWords, reg |-> phy_reg]
          /\ dpc' = "read" /\ UNCHANGED linkVars
      BY <1>3, <2>2 DEF Main
    <3>2. onchip_memory2_0_s1_address >= FirstAddr + BlockWords
      BY <1>1, <3>1, AnsweredBlock
    <3>3. /\ block'.base = onchip_memory2_0_s1_address - BlockWords /\ block'.reg = phy_reg
          /\ block'.base \in Nat /\ block'.base + BlockWords = onchip_memory2_0_s1_address
          /\ block'.base \in 0 .. RamWords
      BY <1>1, <3>1, <3>2
    <3>4. /\ onchip_memory2_0_s1_address' = onchip_memory2_0_s1_address
          /\ ram' = ram /\ CPU_RESETn' = CPU_RESETn
      BY <3>1 DEF linkVars, ramVars, port
    <3>5. ASSUME NEW i \in 1 .. BlockWords - 2
          PROVE  ram'[block'.base + 1 + i] = SavedReg(i)'
      <4>1. /\ i \div WritesPerReg \in RegIndex /\ i # 0 /\ i < BlockWords - 1
            /\ \E k \in CopyIndex : Index(i \div WritesPerReg, k) = i
        <5>1. i \in Nat /\ i < BlockWords /\ i # 0 /\ i < BlockWords - 1
          OBVIOUS
        <5> QED
          BY <5>1, DivIndex
      <4>2. ram[onchip_memory2_0_s1_address - BlockWords + 1 + i] = RegWord(i \div WritesPerReg)
        BY <1>1, <3>1, <4>1, AnsweredBlock
      <4> QED
        BY <3>3, <3>4, <4>2 DEF SavedReg, RegWord
    <3> QED
      BY <1>1, <3>1, <3>3, <3>4, <3>5 DEF BlockStays, LinkTypeOK, SignalsTypeOK
  <2> QED
    BY <1>2, <2>1, <2>2
<1>4. CASE ReadLine \/ PrintData \/ NextOffset \/ AllDone \/ HostShows
  <2>1. UNCHANGED <<linkVars, block>> /\ (dpc # "main" => dpc' # "main")
    BY <1>4 DEF ReadLine, PrintData, NextOffset, AllDone, HostShows
  <2>2. UNCHANGED <<ram, CPU_RESETn, onchip_memory2_0_s1_address>>
    BY <2>1 DEF linkVars, ramVars, port
  <2> QED
    BY <1>1, <1>2, <2>1, <2>2 DEF BlockStays, SavedReg
<1>5. CASE Hardware
  <2>1. CASE block' = NoBlock
    BY <1>2, <2>1 DEF BlockStays
  <2>2. CASE block' # NoBlock
    <3>1. block' = block /\ block # NoBlock /\ CPU_RESETn' # 0 /\ dpc' = dpc /\ LinkNext
      BY <1>5, <2>2 DEF Hardware
    <3>2. CPU_RESETn' = 1
      BY <1>1, <3>1, LinkTypesStep DEF LinkTypeOK, SignalsTypeOK, Bit
    <3>3. /\ CPU_RESETn = 1 /\ dpc # "main" /\ block.base \in Nat
          /\ block.base + BlockWords <= onchip_memory2_0_s1_address
          /\ block.reg \in [RegIndex -> Word]
          /\ \A i \in 1 .. BlockWords - 2 : ram[block.base + 1 + i] = SavedReg(i)
      BY <1>1, <3>1 DEF BlockStays
    <3>4. /\ onchip_memory2_0_s1_address' >= onchip_memory2_0_s1_address
          /\ onchip_memory2_0_s1_address' \in Nat
      BY <1>1, <3>1, <3>3, AddressGrows, LinkTypesStep DEF LinkTypeOK, RamTypeOK
    <3>5. ASSUME NEW i \in 1 .. BlockWords - 2
          PROVE  ram'[block.base + 1 + i] = SavedReg(i)
      <4>1. block.base + 1 + i \in RamIndex /\ block.base + 1 + i # onchip_memory2_0_s1_address
        BY <1>1, <3>3 DEF RamIndex
      <4>2. ram'[block.base + 1 + i] = ram[block.base + 1 + i]
        BY <1>1, <3>1, <4>1, RamChanges, PortStores
      <4> QED
        BY <3>3, <4>2
    <3>6. block.base + BlockWords <= onchip_memory2_0_s1_address'
      BY <1>1, <3>3, <3>4
    <3> QED
      BY <1>1, <3>1, <3>2, <3>3, <3>5, <3>6 DEF BlockStays, SavedReg
  <2> QED
    BY <2>1, <2>2
<1> QED
  BY <1>3, <1>4, <1>5 DEF DumpNext, Program

\* At power-up nothing is behind the program: a word is seen when it comes to it.
LEMMA SeenAtStart ==
    ASSUME DumpInv, dpc = "main"
    PROVE  \A a, w : Seen(a, w)
BY DEF DumpInv, DumpTypes, Seen, Passed

\* What has been shown of the block, and of the program, stays exact.
LEMMA SeenAllStep ==
    ASSUME DumpInv, DumpNext
    PROVE  BlockSeen' /\ ProgramSeen'
<1> USE Sizes, DumpSizes
<1>1. /\ WriterInv /\ LinkTypeOK /\ DumpTypes /\ BlockStays /\ BlockSeen /\ ProgramSeen
      /\ onchip_memory2_0_s1_address \in Nat /\ onchip_memory2_0_s1_address <= RamWords
  BY DEF DumpInv, DumpTypeOK, LinkTypeOK, RamTypeOK
<1>2. ProgramSeen'
  <2> SUFFICES ASSUME NEW a \in ProgramWords, a < FirstAddr
               PROVE  Seen(a, IMAGE)'
    BY DEF ProgramSeen
  <2>1. a \in RamIndex /\ IMAGE \in RamValues /\ Seen(a, IMAGE)
    BY <1>1 DEF ProgramSeen, RamValues
  <2>2. ram[a] = IMAGE
    BY <1>1, <2>1 DEF WriterInv, ProgramSafe, RamIndex
  <2>3. ReadWord(a) = IMAGE
    BY <2>2 DEF ReadWord
  <2> QED
    BY <2>1, <2>3, SeenStep
<1>3. BlockSeen'
  <2> SUFFICES ASSUME (block # NoBlock)', NEW i \in 1 .. BlockWords - 2
               PROVE  Seen(block.base + 1 + i, SavedReg(i))'
    BY DEF BlockSeen, BlockWords
  <2>1. NoBlock' = NoBlock
    BY DEF NoBlock, ZeroWord
  <2>2. i \in Nat /\ i < BlockWords /\ i # 0 /\ i < BlockWords - 1
    OBVIOUS
  <2>3. i \div WritesPerReg \in RegIndex /\ \E k \in CopyIndex : Index(i \div WritesPerReg, k) = i
    BY <2>2, DivIndex
  <2> DEFINE r == i \div WritesPerReg
  \* Where the word stands and what it is, in this state and the next.
  <2>4. ASSUME NEW a \in RamIndex, NEW w \in Word, ram[a] = <<r, w>>, Seen(a, <<r, w>>)
        PROVE  Seen(a, <<r, w>>)'
    <3>1. /\ <<r, w>> \in RamValues /\ <<r, w>> # ZERO /\ <<r, w>> # IMAGE
      BY <2>3, OtherWordsAssumption DEF RamValues
    <3>2. ReadWord(a) = <<r, w>>
      BY <2>4, <3>1 DEF ReadWord
    <3> HIDE DEF r
    <3> QED
      BY <2>4, <3>1, <3>2, SeenStep
  <2> HIDE DEF r
  <2>5. ASSUME NEW a \in RamIndex, NEW w \in Word, ram[a] = <<r, w>>, Seen(a, <<r, w>>),
               block'.base + 1 + i = a, block'.reg[r] = w
        PROVE  Seen(block.base + 1 + i, SavedReg(i))'
    <3>1. Seen(a, <<r, w>>)'
      BY <2>4, <2>5
    <3> QED
      BY <2>5, <3>1 DEF Seen, SavedReg, Passed, IsData, r
  <2>6. CASE Main
    <3>1. /\ phy_reg_write_done = 1 /\ write_phy_reg_space_to_ram = 1 /\ CPU_RESETn = 1
          /\ block' = [base |-> onchip_memory2_0_s1_address - BlockWords, reg |-> phy_reg]
          /\ dpc = "main"
      BY <2>1, <2>6 DEF Main
    <3>2. onchip_memory2_0_s1_address >= FirstAddr + BlockWords
      BY <1>1, <3>1, AnsweredBlock
    <3>3. ram[onchip_memory2_0_s1_address - BlockWords + 1 + i] = RegWord(r)
      BY <1>1, <2>2, <2>3, <3>1, AnsweredBlock DEF r
    <3>4. /\ block'.base = onchip_memory2_0_s1_address - BlockWords /\ block'.reg = phy_reg
          /\ block'.base + 1 + i \in RamIndex
      BY <1>1, <3>1, <3>2 DEF RamIndex
    <3>5. phy_reg[r] \in Word
      BY <1>1, <2>3 DEF LinkTypeOK, SignalsTypeOK, r
    <3> QED
      BY <2>5, <3>1, <3>3, <3>4, <3>5, SeenAtStart DEF RegWord
  <2>7. CASE ~Main
    <3>1. block' = block /\ block # NoBlock
      BY <2>1, <2>7 DEF DumpNext, Program, ReadLine, PrintData, NextOffset, AllDone, HostShows,
                        Hardware
    <3>2. /\ block.base \in Nat /\ block.base + BlockWords <= onchip_memory2_0_s1_address
          /\ block.reg \in [RegIndex -> Word]
          /\ ram[block.base + 1 + i] = SavedReg(i)
      BY <1>1, <3>1 DEF BlockStays
    <3>3. block.base + 1 + i \in RamIndex /\ block.reg[r] \in Word
      BY <1>1, <2>3, <3>2 DEF RamIndex, r
    <3>4. Seen(block.base + 1 + i, SavedReg(i))
      BY <1>1, <3>1 DEF BlockSeen
    <3> QED
      BY <2>5, <3>1, <3>2, <3>3, <3>4 DEF SavedReg, r
  <2> QED
    BY <2>6, <2>7
<1> QED
  BY <1>2, <1>3

\* A line behind the others makes the last run of lines one longer, or ends it.
LEMMA GroupsAppend ==
    ASSUME DumpTypes, Groups, NEW item \in Item, Puts(item), group' = group,
           IsData(item) => print_count < LinesPerGroup /\ print_count' = print_count + 1,
           print_count' \in Nat
    PROVE  Groups'
<1> USE Sizes, DumpSizes
<1>1. /\ Len(uart) \in Nat /\ DOMAIN uart = 1 .. Len(uart) /\ group \in Nat
      /\ Len(uart') = Len(uart) + 1 /\ DOMAIN uart' = 1 .. Len(uart) + 1
      /\ \A j \in 1 .. Len(uart) : uart'[j] = uart[j]
      /\ uart'[Len(uart) + 1] = item /\ print_count \in Nat
  BY PutsAppends DEF DumpTypes
<1>2. PICK n \in Nat : n = Len(uart)
  BY <1>1
<1>3. ASSUME NEW i \in Nat, NEW j \in Nat, i >= 1, j <= n
      PROVE  AllData(i, j)' <=> AllData(i, j)
  BY <1>1, <1>2, <1>3 DEF AllData, IsData
<1>4. ASSUME NEW i \in Nat, i >= 1, i <= n + 1, AllData(i, n + 1)'
      PROVE  IsData(item) /\ AllData(i, n)
  BY <1>1, <1>2, <1>4 DEF AllData, IsData
<1>5. ASSUME NEW i \in 1 .. n + 1, AllData(i, n + 1)'
      PROVE  n + 1 - i + 1 <= print_count' /\ print_count' <= LinesPerGroup
  <2>1. IsData(item) /\ AllData(i, n)
    BY <1>4, <1>5
  <2>2. CASE i <= n
    BY <1>1, <1>2, <2>1, <2>2 DEF Groups
  <2>3. CASE i = n + 1
    BY <1>1, <2>1, <2>3
  <2> QED
    BY <2>2, <2>3
<1>6. AllData(1, n + 1)' => group + (n + 1) <= print_count' /\ print_count' <= LinesPerGroup
  <2> SUFFICES ASSUME AllData(1, n + 1)'
               PROVE  group + (n + 1) <= print_count' /\ print_count' <= LinesPerGroup
    OBVIOUS
  <2>1. IsData(item) /\ AllData(1, n)
    BY <1>4
  <2> QED
    BY <1>1, <1>2, <2>1 DEF Groups
<1>7. ASSUME NEW i \in 1 .. n + 1, NEW j \in 1 .. n + 1, i <= j, AllData(i, j)'
      PROVE  j - i + 1 <= LinesPerGroup
  <2>1. CASE j <= n
    <3>1. AllData(i, j)
      BY <1>2, <1>3, <1>7, <2>1
    <3>2. i \in DOMAIN uart /\ j \in DOMAIN uart
      BY <1>1, <1>2, <1>7, <2>1
    <3> QED
      BY <1>7, <3>1, <3>2 DEF Groups
  <2>2. CASE j = n + 1
    BY <1>5, <1>7, <2>2
  <2> QED
    BY <2>1, <2>2
<1>8. ASSUME NEW j \in 0 .. n + 1, AllData(1, j)'
      PROVE  group + j <= LinesPerGroup
  <2>1. CASE j <= n
    BY <1>1, <1>2, <1>3, <1>8, <2>1 DEF Groups
  <2>2. CASE j = n + 1
    BY <1>1, <1>6, <1>8, <2>2
  <2> QED
    BY <2>1, <2>2
<1> QED
  BY <1>1, <1>2, <1>5, <1>6, <1>7, <1>8 DEF Groups

\* No run of lines gets longer than a group, on its way or on the console.
LEMMA GroupsStep ==
    ASSUME DumpInv, DumpNext
    PROVE  Groups'
<1> USE Sizes, DumpSizes
<1>1. /\ DumpTypes /\ Groups /\ print_count \in Nat /\ print_count <= LinesPerGroup
      /\ Len(uart) \in Nat /\ DOMAIN uart = 1 .. Len(uart) /\ group \in Nat
  BY DEF DumpInv, DumpTypeOK, DumpTypes
<1>2. CASE Main \/ AllDone
  BY <1>1, <1>2, GroupsAppend, LinesAreLines DEF Main, AllDone
<1>3. CASE ReadLine \/ Hardware
  BY <1>1, <1>3 DEF ReadLine, Hardware, Groups, AllData, IsData
<1>4. CASE PrintData
  <2>1. <<eth_offset, ethernet_line>> \in Item
    BY <1>1, <1>4, LinesAreLines DEF PrintData, DumpTypes, RamIndex
  <2>2. print_count < LinesPerGroup
    BY <1>1, <1>4 DEF PrintData, DumpTypes
  <2> QED
    BY <1>1, <1>4, <2>1, <2>2, GroupsAppend DEF PrintData
<1>5. CASE NextOffset
  <2>1. CASE GroupDone
    BY <1>1, <1>5, <2>1, GroupsAppend, LinesAreLines DEF NextOffset
  <2>2. CASE ~GroupDone
    BY <1>1, <1>5, <2>2 DEF NextOffset, Groups, AllData, IsData
  <2> QED
    BY <2>1, <2>2
<1>6. CASE HostShows
  <2>1. /\ Len(uart) >= 1 /\ Head(uart) = uart[1]
        /\ Len(uart') = Len(uart) - 1 /\ DOMAIN uart' = 1 .. Len(uart) - 1
        /\ \A j \in 1 .. Len(uart) - 1 : uart'[j] = uart[j + 1]
    BY <1>1, <1>6, HostTakesHead
  <2>2. /\ group' = IF IsData(uart[1]) THEN group + 1 ELSE 0
        /\ print_count' = print_count
    BY <1>6, <2>1 DEF HostShows, IsData
  <2>3. PICK n \in Nat : n + 1 = Len(uart)
    <3>1. Len(uart) - 1 \in Nat /\ (Len(uart) - 1) + 1 = Len(uart)
      BY <1>1, <2>1
    <3> QED
      BY <3>1
  <2>4. ASSUME NEW i \in Nat, NEW j \in Nat, i >= 1, j <= n, AllData(i, j)'
        PROVE  AllData(i + 1, j + 1)
    <3> SUFFICES ASSUME NEW m \in i + 1 .. j + 1
                 PROVE  IsData(uart[m])
      BY DEF AllData
    <3>1. m - 1 \in i .. j /\ m - 1 \in 1 .. n /\ (m - 1) + 1 = m
      BY <2>4
    <3>2. IsData(uart'[m - 1])
      BY <2>4, <3>1 DEF AllData, IsData
    <3> QED
      BY <2>1, <2>3, <3>1, <3>2
  <2>5. ASSUME NEW j \in Nat, j <= n, AllData(1, j)', IsData(uart[1])
        PROVE  AllData(1, j + 1)
    <3>1. AllData(2, j + 1)
      BY <2>4, <2>5
    <3> QED
      BY <2>5, <3>1 DEF AllData
  <2>6. ASSUME NEW i \in 1 .. n, NEW j \in 1 .. n, i <= j, AllData(i, j)'
        PROVE  j - i + 1 <= LinesPerGroup
    <3>1. AllData(i + 1, j + 1) /\ i + 1 \in DOMAIN uart /\ j + 1 \in DOMAIN uart
      BY <1>1, <2>3, <2>4, <2>6
    <3>2. (j + 1) - (i + 1) + 1 <= LinesPerGroup
      BY <1>1, <2>6, <3>1 DEF Groups
    <3> QED
      BY <3>2
  <2>7. ASSUME NEW i \in 1 .. n, AllData(i, n)'
        PROVE  n - i + 1 <= print_count
    <3>1. AllData(i + 1, n + 1) /\ i + 1 \in DOMAIN uart
      BY <1>1, <2>3, <2>4, <2>7
    <3>2. (n + 1) - (i + 1) + 1 <= print_count
      BY <1>1, <2>3, <3>1 DEF Groups
    <3> QED
      BY <1>1, <3>2
  <2>8. ASSUME NEW j \in 0 .. n, AllData(1, j)'
        PROVE  group' + j <= LinesPerGroup
    <3>1. CASE IsData(uart[1])
      <4>1. AllData(1, j + 1) /\ j + 1 \in 0 .. Len(uart)
        BY <2>3, <2>5, <2>8, <3>1
      <4> QED
        BY <1>1, <2>2, <3>1, <4>1 DEF Groups
    <3>2. CASE ~IsData(uart[1]) /\ j >= 1
      <4>1. j - 1 + 1 <= LinesPerGroup
        BY <2>6, <2>8, <3>2
      <4> QED
        BY <2>2, <3>2, <4>1
    <3>3. CASE ~IsData(uart[1]) /\ j = 0
      BY <2>2, <3>3
    <3> QED
      BY <3>1, <3>2, <3>3
  <2>9. AllData(1, n)' => group' + n <= print_count
    <3> SUFFICES ASSUME AllData(1, n)'
                 PROVE  group' + n <= print_count
      OBVIOUS
    <3>1. CASE IsData(uart[1])
      <4>1. AllData(1, n + 1)
        BY <2>5, <3>1
      <4> QED
        BY <1>1, <2>2, <2>3, <3>1, <4>1 DEF Groups
    <3>2. CASE ~IsData(uart[1]) /\ n >= 1
      <4>1. n - 1 + 1 <= print_count
        BY <2>7, <3>2
      <4> QED
        BY <2>2, <3>2, <4>1
    <3>3. CASE ~IsData(uart[1]) /\ n = 0
      BY <1>1, <2>2, <3>3
    <3> QED
      BY <3>1, <3>2, <3>3
  <2>10. Len(uart') = n /\ DOMAIN uart' = 1 .. n
    BY <2>1, <2>3
  <2> QED
    BY <2>2, <2>6, <2>7, <2>8, <2>9, <2>10 DEF Groups
<1> QED
  BY <1>2, <1>3, <1>4, <1>5, <1>6 DEF DumpNext, Program

\* Every step of the program, the host and the hardware keeps the invariant.
LEMMA DumpInvStep ==
    ASSUME DumpInv, [DumpNext]_allVars
    PROVE  DumpInv'
<1>1. CASE DumpNext
  <2>1. WriterInv'
    BY <1>1, ProgramLeavesLink, WriterInvStep DEF DumpInv
  <2>2. DumpTypeOK' /\ DumpTypes'
    BY <1>1, <2>1, DumpTypesStep, BlockStaysStep DEF DumpTypeOK, WriterInv
  <2> QED
    BY <1>1, <2>1, <2>2, BlockStaysStep, SeenAllStep, GroupsStep DEF DumpInv
<1>2. CASE UNCHANGED allVars
  <2>1. UNCHANGED linkVars /\ UNCHANGED dumpVars
    BY <1>2 DEF allVars
  <2>2. WriterInv'
    BY <2>1, WriterInvStep DEF DumpInv
  <2>3. NoBlock' = NoBlock /\ UNCHANGED <<CPU_RESETn, onchip_memory2_0_s1_address, ram>>
    BY <2>1 DEF NoBlock, ZeroWord, linkVars, ramVars, port
  <2>4. LinkTypeOK'
    BY <2>2 DEF WriterInv
  <2> QED
    BY <2>1, <2>2, <2>3, <2>4 DEF dumpVars, DumpInv, DumpTypeOK, DumpTypes, BlockStays, BlockSeen,
       ProgramSeen, Groups, Seen, Passed, SavedReg, AllData, IsData
<1> QED
  BY <1>1, <1>2

\* A dump that begins while a block is saved shows every word of it exactly, whatever
\* the writer goes on to write; the program's own words are shown as they are; and no
\* group of lines is longer than altera_max_10.c means it to be.
THEOREM DumpSafety == DumpSpec => []DumpShown
<1>1. DumpInv => DumpShown
  <2> SUFFICES ASSUME DumpInv
               PROVE  DumpShown
    OBVIOUS
  <2> USE Sizes, DumpSizes
  <2>1. /\ DumpTypeOK /\ DumpTypes /\ BlockStays /\ BlockSeen /\ ProgramSeen /\ Groups
        /\ onchip_memory2_0_s1_address \in Nat /\ onchip_memory2_0_s1_address <= RamWords
    BY DEF DumpInv, DumpTypeOK, LinkTypeOK, RamTypeOK
  <2>2. ASSUME dpc = "done", uart = << >>, NEW a \in RamIndex, NEW w, Seen(a, w)
        PROVE  shown[a] = w
    BY <2>1, <2>2 DEF Seen, Passed, DumpTypes, RamIndex
  <2>3. SavedBlockShown
    <3> SUFFICES ASSUME dpc = "done", uart = << >>, block # NoBlock, NEW i \in 1 .. BlockWords - 2
                 PROVE  shown[block.base + 1 + i] = SavedReg(i)
      BY DEF SavedBlockShown, SavedReg
    <3>1. block.base + 1 + i \in RamIndex
      BY <2>1 DEF BlockStays, RamIndex
    <3> QED
      BY <2>1, <2>2, <3>1 DEF BlockSeen
  <2>4. ProgramShown
    BY <2>1, <2>2 DEF ProgramShown, ProgramSeen
  <2>5. GroupsKept
    <3>1. 0 \in 0 .. Len(uart) /\ AllData(1, 0) /\ group \in Nat
      BY <2>1 DEF AllData, DumpTypes
    <3> QED
      BY <2>1, <3>1 DEF GroupsKept, Groups
  <2> QED
    BY <2>1, <2>3, <2>4, <2>5 DEF DumpShown
<1> QED
  BY <1>1, DumpInvInit, DumpInvStep, PTL DEF DumpSpec

----------------------------------------------------------------------------
(* A line of the dump: what stands in each column, and how far the line is. *)
Hex == [0 .. 7 -> 0 .. 15]
Symbol == 0 .. 16 \cup {"A", "D", "||"}
Digits(w) == IF w = Line!Zero THEN 1 ELSE Line!FirstDigit(w) + 1

\* The column of w that begins after place at, and the whole line.
Column(w, at, p) == IF p <= at + Digits(w) THEN w[at + Digits(w) - p] ELSE Line!Blank
FullLine(p) ==
  CASE p = 1 -> "A" [] p = 8 -> "D" [] p = 17 -> "||"
    [] p \in 2 .. 7 -> Column(addr, 1, p) [] OTHER -> Column(data, 8, p)

\* The digits of w printed when its loop stands at digit_shift.
DigitsOut(w) == IF digit_shift = 8 THEN 0 ELSE Digits(w) - 1 - digit_shift
LineInv ==
  /\ addr \in Hex /\ data \in Hex /\ Digits(addr) <= 6
  /\ pc \in {"A", "addr", "addr pad", "D", "data", "data pad", "end", "done"}
  /\ digit_shift \in 0 .. 8
  /\ digit_shift = 8 \/ (pc = "addr" /\ digit_shift < Digits(addr))
                     \/ (pc = "data" /\ digit_shift < Digits(data))
  /\ line \in Seq(Symbol) /\ \A p \in 1 .. Len(line) : line[p] = FullLine(p)
  /\ pc = "A" => Len(line) = 0
  /\ pc = "addr" => Len(line) = 1 + DigitsOut(addr)
  /\ pc = "addr pad" => Len(line) = 1 + Digits(addr)
  /\ pc = "D" => Len(line) = 7
  /\ pc = "data" => Len(line) = 8 + DigitsOut(data)
  /\ pc = "data pad" => Len(line) = 8 + Digits(data)
  /\ pc = "end" => Len(line) = 16
  /\ pc = "done" => Len(line) = 17

LEMMA Smallest ==
  ASSUME NEW S \in SUBSET Nat, NEW n \in S
  PROVE  \E m \in S : \A k \in S : m <= k
<1> DEFINE R == OpToRel(<, Nat)
<1>1. IsWellFoundedOn(R, Nat)
  BY NatLessThanWellFounded, Zenon DEF OpToRel
<1>2. \A i, j \in Nat : << i, j >> \in R <=> i < j
  BY DEF OpToRel
<1>3. PICK m \in S : \A k \in S : ~(<< k, m >> \in R)
  BY <1>1, WFMin
<1>4. \A k \in S : m \in Nat /\ k \in Nat /\ ~(k < m)
  BY <1>2, <1>3
<1>5. QED
  BY <1>4

\* A word has at least one digit, and is as long as its first digit that is not zero.
LEMMA DigitsAre ==
  ASSUME NEW w \in Hex
  PROVE  /\ Digits(w) \in 1 .. 8
         /\ \A k \in 1 .. 8 : Line!Below(w, k) <=> k >= Digits(w)
         /\ Digits(w) > 1 => w[Digits(w) - 1] # 0
         /\ \A i \in 0 .. 7 : i >= Digits(w) => w[i] = 0
         /\ w = Line!Zero => Digits(w) = 1 /\ w[0] = 0
         /\ w # Line!Zero => Line!FirstDigit(w) = Digits(w) - 1
<1>1. CASE w = Line!Zero
  <2>1. \A i \in 0 .. 7 : w[i] = 0
    BY <1>1 DEF Line!Zero, Line!Top
  <2>2. Digits(w) = 1
    BY <1>1 DEF Digits
  <2>3. \A k \in 1 .. 8 : Line!Below(w, k)
    BY <2>1 DEF Line!Below, Line!Top
  <2>4. QED
    BY <1>1, <2>1, <2>2, <2>3
<1>2. CASE w # Line!Zero
  <2> DEFINE S == {i \in 0 .. 7 : w[i] # 0}
             T == {7 - i : i \in S}
  <2>1. \E i \in 0 .. 7 : w[i] # 0
    <3>1. SUFFICES ASSUME \A i \in 0 .. 7 : w[i] = 0 PROVE w = Line!Zero
      BY <1>2
    <3>2. QED
      BY <3>1 DEF Hex, Line!Zero, Line!Top
  <2>2. PICK i \in S : TRUE
    BY <2>1
  <2>3. 7 - i \in T /\ T \in SUBSET Nat
    OBVIOUS
  <2>4. PICK t \in T : \A k \in T : t <= k
    BY <2>3, Smallest
  <2>5. PICK m \in S : t = 7 - m
    OBVIOUS
  <2>6. m \in 0 .. 7 /\ w[m] # 0
    OBVIOUS
  <2>7. ASSUME NEW j \in S PROVE m >= j
    <3>1. 7 - j \in T
      OBVIOUS
    <3>2. 7 - m <= 7 - j /\ j \in 0 .. 7
      BY <2>4, <2>5, <3>1
    <3>3. QED
      BY <2>6, <3>2
  <2>8. \A x \in S : (\A y \in S : x >= y) => x = m
    <3>1. SUFFICES ASSUME NEW x \in S, \A y \in S : x >= y PROVE x = m
      OBVIOUS
    <3>2. x >= m /\ m >= x /\ x \in 0 .. 7
      BY <2>7, <3>1
    <3>3. QED
      BY <2>6, <3>2
  <2>9. Line!FirstDigit(w) = m
    BY <2>7, <2>8 DEF Line!FirstDigit, Line!Max, Line!Top
  <2>10. Digits(w) = m + 1
    BY <1>2, <2>9 DEF Digits
  <2>11. \A j \in 0 .. 7 : j > m => w[j] = 0
    BY <2>6, <2>7
  <2>12. \A k \in 1 .. 8 : Line!Below(w, k) <=> k >= m + 1
    <3>1. SUFFICES ASSUME NEW k \in 1 .. 8 PROVE Line!Below(w, k) <=> k >= m + 1
      OBVIOUS
    <3>2. k >= m + 1 => Line!Below(w, k)
      BY <2>6, <2>11 DEF Line!Below, Line!Top
    <3>3. ~(k >= m + 1) => m \in k .. 7
      BY <2>6
    <3>4. QED
      BY <2>6, <3>2, <3>3 DEF Line!Below, Line!Top
  <2>13. QED
    BY <1>2, <2>6, <2>9, <2>10, <2>11, <2>12
<1>3. QED
  BY <1>1, <1>2

\* The comparisons of print_data leave as many blanks as the column has room for.
LEMMA PadIs ==
  ASSUME NEW w \in Hex, NEW width \in 1 .. 8, Digits(w) <= width
  PROVE  Line!PadTo(w, width) = width - Digits(w)
<1>1. PICK d \in 1 .. 8 : d = Digits(w)
  BY DigitsAre
<1>2. {k \in 1 .. width - 1 : Line!Below(w, k)} = d .. width - 1
  <2>1. \A k \in 1 .. width - 1 : k \in 1 .. 8
    OBVIOUS
  <2>2. \A k \in 1 .. width - 1 : Line!Below(w, k) <=> k >= d
    BY <1>1, <2>1, DigitsAre
  <2>3. QED
    BY <1>1, <2>2
<1>3. Cardinality(d .. width - 1) = width - d
  BY <1>1, FS_Interval
<1>4. \A S : Line!Cardinality(S) = Cardinality(S)
  BY Zenon DEF Line!Cardinality, Cardinality
<1>5. QED
  BY <1>1, <1>2, <1>3, <1>4 DEF Line!PadTo

\* A line that goes on as the full one.
LEMMA LineGrows ==
  ASSUME LineInv, NEW s \in Seq(Symbol), Line!Putchars(s), UNCHANGED << addr, data >>,
         \A i \in 1 .. Len(s) : s[i] = FullLine(Len(line) + i)
  PROVE  /\ line' \in Seq(Symbol) /\ Len(line') = Len(line) + Len(s)
         /\ \A p \in 1 .. Len(line') : line'[p] = FullLine(p)'
<1>1. line' = line \o s /\ line \in Seq(Symbol) /\ \A p \in 1 .. Len(line) : line[p] = FullLine(p)
  BY DEF Line!Putchars, LineInv
<1>2. PICK n \in Nat, l \in Nat : n = Len(line) /\ l = Len(s)
  BY <1>1, LenProperties
<1>3. /\ line' \in Seq(Symbol) /\ Len(line') = n + l
      /\ \A p \in 1 .. n + l : line'[p] = IF p <= n THEN line[p] ELSE s[p - n]
  BY <1>1, <1>2, ConcatProperties
<1>4. \A p \in 1 .. n + l : line'[p] = FullLine(p)
  <2>1. SUFFICES ASSUME NEW p \in 1 .. n + l PROVE line'[p] = FullLine(p)
    OBVIOUS
  <2>2. CASE p <= n
    BY <1>1, <1>2, <1>3, <2>2
  <2>3. CASE ~(p <= n)
    <3>1. p - n \in 1 .. l /\ n + (p - n) = p
      BY <2>3
    <3>2. s[p - n] = FullLine(n + (p - n))
      BY <1>2, <3>1
    <3>3. QED
      BY <1>3, <2>3, <3>1, <3>2
  <2>4. QED
    BY <2>2, <2>3
<1>5. \A p : FullLine(p)' = FullLine(p)
  BY DEF FullLine, Column
<1>6. QED
  BY <1>2, <1>3, <1>4, <1>5

\* One symbol.
LEMMA OneSymbol ==
  ASSUME LineInv, NEW c \in Symbol, Line!Putchars(<< c >>), UNCHANGED << addr, data >>,
         c = FullLine(Len(line) + 1)
  PROVE  /\ line' \in Seq(Symbol) /\ Len(line') = Len(line) + 1
         /\ \A p \in 1 .. Len(line') : line'[p] = FullLine(p)'
<1>1. << c >> \in Seq(Symbol) /\ Len(<< c >>) = 1 /\ << c >>[1] = c
  OBVIOUS
<1>2. \A i \in 1 .. Len(<< c >>) : << c >>[i] = FullLine(Len(line) + i)
  BY <1>1
<1>3. QED
  BY <1>1, <1>2, LineGrows

\* What stands where.
LEMMA FullLineIs ==
  /\ FullLine(1) = "A" /\ FullLine(8) = "D" /\ FullLine(17) = "||"
  /\ \A p \in 2 .. 7 : FullLine(p) = Column(addr, 1, p)
  /\ \A p \in 9 .. 16 : FullLine(p) = Column(data, 8, p)
BY DEF FullLine

\* A step of the loop that prints a word, of which the column begins after place at.
LEMMA HexStep ==
  ASSUME LineInv, NEW w \in Hex, NEW at \in {1, 8}, NEW next,
         pc # next, Line!PrintfHex(w, next), UNCHANGED << addr, data >>,
         digit_shift = 8 \/ digit_shift < Digits(w), Len(line) = at + DigitsOut(w),
         \A p \in at + 1 .. at + Digits(w) : FullLine(p) = Column(w, at, p)
  PROVE  /\ line' \in Seq(Symbol) /\ \A p \in 1 .. Len(line') : line'[p] = FullLine(p)'
         /\ digit_shift' \in 0 .. 8
         /\ \/ pc' = pc /\ digit_shift' < Digits(w) /\ Len(line') = at + Digits(w) - 1 - digit_shift'
            \/ pc' = next /\ digit_shift' = 8 /\ Len(line') = at + Digits(w)
<1>1. /\ Digits(w) \in 1 .. 8
      /\ w = Line!Zero => Digits(w) = 1 /\ w[0] = 0
      /\ w # Line!Zero => Line!FirstDigit(w) = Digits(w) - 1
  BY DigitsAre
<1>2. PICK d \in 1 .. 8 : d = Digits(w)
  BY <1>1
<1>3. at \in Nat
  OBVIOUS
<1>4. digit_shift \in 0 .. 8 /\ line \in Seq(Symbol) /\ \A p \in 1 .. Len(line) : line[p] = FullLine(p)
  BY DEF LineInv
<1>5. \A k \in 0 .. 7 : w[k] \in Symbol
  BY DEF Hex, Symbol
<1>6. CASE digit_shift = 8 /\ w = Line!Zero
  <2>1. Line!Putchars(<< 0 >>) /\ pc' = next /\ digit_shift' = 8
    BY <1>6, <1>4 DEF Line!PrintfHex, Line!Top
  <2>2. d = 1 /\ w[0] = 0 /\ Len(line) = at
    BY <1>1, <1>2, <1>6 DEF DigitsOut
  <2>3. FullLine(Len(line) + 1) = w[0]
    <3>1. at + 1 \in at + 1 .. at + d /\ at + 1 <= at + d /\ at + d - (at + 1) = 0
      BY <2>2
    <3>2. QED
      BY <1>2, <2>2, <3>1 DEF Column
  <2>4. 0 \in Symbol /\ FullLine(Len(line) + 1) = 0
    BY <2>2, <2>3 DEF Symbol
  <2>5. /\ line' \in Seq(Symbol) /\ Len(line') = Len(line) + 1
        /\ \A p \in 1 .. Len(line') : line'[p] = FullLine(p)'
    BY <2>1, <2>4, OneSymbol
  <2>6. QED
    BY <1>2, <2>1, <2>2, <2>5
<1>7. CASE digit_shift = 8 /\ w # Line!Zero
  <2>1. digit_shift' = d - 1 /\ pc' = pc /\ line' = line
    BY <1>1, <1>2, <1>4, <1>7 DEF Line!PrintfHex, Line!Top
  <2>2. \A p : FullLine(p)' = FullLine(p)
    BY DEF FullLine, Column
  <2>3. Len(line) = at
    BY <1>7 DEF DigitsOut
  <2>4. QED
    BY <1>2, <1>4, <2>1, <2>2, <2>3
<1>8. CASE digit_shift # 8
  <2>1. PICK e \in 0 .. 7 : e = digit_shift
    BY <1>4, <1>8
  <2>2. e < d /\ Len(line) = at + (d - 1 - e)
    BY <1>2, <1>8, <2>1 DEF DigitsOut
  <2>3. /\ Line!Putchars(<< w[e] >>)
        /\ IF e = 0 THEN digit_shift' = 8 /\ pc' = next ELSE digit_shift' = e - 1 /\ pc' = pc
    BY <1>4, <1>8, <2>1 DEF Line!PrintfHex, Line!Top
  <2>4. FullLine(Len(line) + 1) = w[e]
    <3>1. PICK p \in Nat : p = at + (d - e)
      BY <2>2
    <3>2. p = Len(line) + 1 /\ p \in at + 1 .. at + d /\ p <= at + d /\ at + d - p = e
      BY <2>2, <3>1
    <3>3. QED
      BY <1>2, <3>2 DEF Column
  <2>5. /\ line' \in Seq(Symbol) /\ Len(line') = Len(line) + 1
        /\ \A p \in 1 .. Len(line') : line'[p] = FullLine(p)'
    BY <1>5, <2>3, <2>4, OneSymbol
  <2>6. Len(line') = at + d - e
    BY <1>3, <2>1, <2>2, <2>5
  <2>7. CASE e = 0
    BY <1>2, <1>3, <2>3, <2>5, <2>6, <2>7
  <2>8. CASE e # 0
    <3>1. digit_shift' = e - 1 /\ pc' = pc /\ e - 1 < d /\ e - 1 \in 0 .. 8
      BY <2>1, <2>2, <2>3, <2>8
    <3>2. Len(line') = at + d - 1 - (e - 1)
      BY <1>3, <2>1, <2>6
    <3>3. QED
      BY <1>2, <2>5, <3>1, <3>2
  <2>9. QED
    BY <2>7, <2>8
<1>9. QED
  BY <1>6, <1>7, <1>8

\* The rest of a column.
LEMMA PadStep ==
  ASSUME LineInv, NEW w \in Hex, NEW at \in {1, 8}, NEW width \in 1 .. 8, Digits(w) <= width,
         Line!Putchars(Line!Blanks(width - Digits(w))), UNCHANGED << addr, data >>,
         Len(line) = at + Digits(w),
         \A p \in at + 1 .. at + width : FullLine(p) = Column(w, at, p)
  PROVE  /\ line' \in Seq(Symbol) /\ \A p \in 1 .. Len(line') : line'[p] = FullLine(p)'
         /\ Len(line') = at + width
<1>1. PICK d \in 1 .. 8 : d = Digits(w)
  BY DigitsAre
<1>2. PICK n \in Nat : n = width - d
  BY <1>1
<1> DEFINE s == Line!Blanks(n)
<1>3. s = [i \in 1 .. n |-> 16]
  BY DEF Line!Blanks, Line!Blank
<1>4. s \in Seq(Symbol) /\ Len(s) = n /\ \A i \in 1 .. n : s[i] = 16
  <2>1. 16 \in Symbol
    BY DEF Symbol
  <2>2. QED
    BY <1>2, <1>3, <2>1
<1> HIDE DEF s
<1>5. ASSUME NEW i \in 1 .. n PROVE FullLine(Len(line) + i) = 16
  <2> at \in Nat
    OBVIOUS
  <2>1. PICK p \in Nat : p = at + d + i
    BY <1>1
  <2>2. p = Len(line) + i /\ p \in at + 1 .. at + width /\ ~(p <= at + d)
    <3>1. p = Len(line) + i
      BY <1>1, <2>1
    <3>2. i <= n /\ i >= 1 /\ n = width - d
      BY <1>2
    <3>3. p >= at + 1 /\ p <= at + width /\ ~(p <= at + d)
      BY <2>1, <3>2
    <3>4. QED
      BY <3>1, <3>3
  <2>3. QED
    BY <1>1, <2>2 DEF Column, Line!Blank
<1>6. Line!Putchars(s)
  BY <1>1, <1>2 DEF s
<1>7. \A i \in 1 .. Len(s) : s[i] = FullLine(Len(line) + i)
  BY <1>4, <1>5
<1>8. /\ line' \in Seq(Symbol) /\ Len(line') = Len(line) + Len(s)
      /\ \A p \in 1 .. Len(line') : line'[p] = FullLine(p)'
  BY <1>4, <1>6, <1>7, LineGrows
<1>9. QED
  BY <1>1, <1>2, <1>4, <1>8

LEMMA LineInit == Line!ConsoleInit => LineInv
<1>1. SUFFICES ASSUME Line!ConsoleInit PROVE LineInv
  OBVIOUS
<1>2. addr \in Addresses /\ data \in Words /\ pc = "A" /\ digit_shift = 8 /\ line = << >>
  BY <1>1 DEF Line!ConsoleInit, Line!Top
<1>3. addr \in Hex /\ data \in Hex /\ Line!Below(addr, 6)
  BY <1>2, ConsoleAssumption DEF Line!WordsAssumption, Hex, Line!Top
<1>4. Digits(addr) <= 6
  BY <1>3, DigitsAre
<1>5. << >> \in Seq(Symbol) /\ Len(<< >>) = 0
  BY EmptySeq
<1>6. line \in Seq(Symbol) /\ Len(line) = 0 /\ \A p \in 1 .. Len(line) : line[p] = FullLine(p)
  BY <1>2, <1>5
<1>7. QED
  BY <1>2, <1>3, <1>4, <1>6 DEF LineInv

LEMMA LineStep == LineInv /\ [Line!PrintData]_lineVars => LineInv'
<1>1. SUFFICES ASSUME LineInv, [Line!PrintData]_lineVars PROVE LineInv'
  OBVIOUS
<1>2. CASE UNCHANGED lineVars
  <2>1. \A p : FullLine(p)' = FullLine(p)
    BY <1>2 DEF lineVars, FullLine, Column
  <2>2. DigitsOut(addr)' = DigitsOut(addr) /\ DigitsOut(data)' = DigitsOut(data)
    BY <1>2 DEF lineVars, DigitsOut
  <2>3. Digits(addr)' = Digits(addr) /\ Digits(data)' = Digits(data)
    BY <1>2 DEF lineVars
  <2>4. QED
    BY <1>1, <1>2, <2>1, <2>2, <2>3 DEF LineInv, lineVars
<1>3. CASE Line!PrintData
  <2>1. UNCHANGED << addr, data >>
    BY <1>3 DEF Line!PrintData
  <2>2. PICK da \in 1 .. 8, dd \in 1 .. 8 : da = Digits(addr) /\ dd = Digits(data)
    BY <1>1, DigitsAre DEF LineInv
  <2>3. /\ addr \in Hex /\ data \in Hex /\ da <= 6
        /\ digit_shift \in 0 .. 8 /\ line \in Seq(Symbol)
    BY <1>1, <2>2 DEF LineInv
  <2>4. addr' \in Hex /\ data' \in Hex /\ Digits(addr') = da /\ Digits(data') = dd
    BY <2>1, <2>2, <2>3
  <2>5. \A p \in 2 .. 1 + da : FullLine(p) = Column(addr, 1, p)
    <3>1. \A p \in 2 .. 1 + da : p \in 2 .. 7
      BY <2>2, <2>3
    <3>2. QED
      BY <3>1, FullLineIs
  <2>6. \A p \in 9 .. 8 + dd : FullLine(p) = Column(data, 8, p)
    <3>1. \A p \in 9 .. 8 + dd : p \in 9 .. 16
      BY <2>2
    <3>2. QED
      BY <3>1, FullLineIs
  <2>7. CASE pc = "A" /\ Line!Literal("A", "A", "addr")
    <3>1. Len(line) = 0 /\ digit_shift = 8
      BY <1>1, <2>7 DEF LineInv
    <3>2. pc' = "addr" /\ digit_shift' = 8 /\ Line!Putchars(<< "A" >>)
      BY <2>7, <3>1 DEF Line!Literal
    <3>3. "A" \in Symbol /\ "A" = FullLine(Len(line) + 1)
      BY <3>1, FullLineIs DEF Symbol
    <3>4. /\ line' \in Seq(Symbol) /\ Len(line') = 1
          /\ \A p \in 1 .. Len(line') : line'[p] = FullLine(p)'
      BY <1>1, <2>1, <3>1, <3>2, <3>3, OneSymbol
    <3>5. DigitsOut(addr)' = 0
      BY <3>2 DEF DigitsOut
    <3>6. QED
      BY <2>3, <2>4, <3>2, <3>4, <3>5 DEF LineInv
  <2>8. CASE pc = "D" /\ Line!Literal("D", "D", "data")
    <3>1. Len(line) = 7 /\ digit_shift = 8
      BY <1>1, <2>8 DEF LineInv
    <3>2. pc' = "data" /\ digit_shift' = 8 /\ Line!Putchars(<< "D" >>)
      BY <2>8, <3>1 DEF Line!Literal
    <3>3. "D" \in Symbol /\ "D" = FullLine(Len(line) + 1)
      BY <3>1, FullLineIs DEF Symbol
    <3>4. /\ line' \in Seq(Symbol) /\ Len(line') = 8
          /\ \A p \in 1 .. Len(line') : line'[p] = FullLine(p)'
      BY <1>1, <2>1, <3>1, <3>2, <3>3, OneSymbol
    <3>5. DigitsOut(data)' = 0
      BY <3>2 DEF DigitsOut
    <3>6. QED
      BY <2>3, <2>4, <3>2, <3>4, <3>5 DEF LineInv
  <2>9. CASE pc = "end" /\ Line!Literal("||", "end", "done")
    <3>1. Len(line) = 16 /\ digit_shift = 8
      BY <1>1, <2>9 DEF LineInv
    <3>2. pc' = "done" /\ digit_shift' = 8 /\ Line!Putchars(<< "||" >>)
      BY <2>9, <3>1 DEF Line!Literal
    <3>3. "||" \in Symbol /\ "||" = FullLine(Len(line) + 1)
      BY <3>1, FullLineIs DEF Symbol
    <3>4. /\ line' \in Seq(Symbol) /\ Len(line') = 17
          /\ \A p \in 1 .. Len(line') : line'[p] = FullLine(p)'
      BY <1>1, <2>1, <3>1, <3>2, <3>3, OneSymbol
    <3>5. QED
      BY <2>3, <2>4, <3>2, <3>4 DEF LineInv
  <2>10. CASE pc = "addr" /\ Line!PrintfHex(addr, "addr pad")
    <3>1. /\ Len(line) = 1 + DigitsOut(addr) /\ (digit_shift = 8 \/ digit_shift < Digits(addr))
          /\ pc # "addr pad"
      BY <1>1, <2>10 DEF LineInv
    <3>2. \A p \in 1 + 1 .. 1 + Digits(addr) : FullLine(p) = Column(addr, 1, p)
      BY <2>2, <2>5
    <3>3. 1 \in {1, 8}
      OBVIOUS
    <3>4. /\ line' \in Seq(Symbol) /\ \A p \in 1 .. Len(line') : line'[p] = FullLine(p)'
          /\ digit_shift' \in 0 .. 8
          /\ \/ pc' = pc /\ digit_shift' < Digits(addr) /\ Len(line') = 1 + Digits(addr) - 1 - digit_shift'
             \/ pc' = "addr pad" /\ digit_shift' = 8 /\ Len(line') = 1 + Digits(addr)
      BY <1>1, <2>1, <2>3, <2>10, <3>1, <3>2, <3>3, HexStep
    <3>5. CASE pc' = pc /\ digit_shift' < da /\ Len(line') = 1 + da - 1 - digit_shift'
      <4>1. DigitsOut(addr)' = da - 1 - digit_shift'
        BY <2>3, <2>4, <3>5 DEF DigitsOut
      <4>2. Len(line') = 1 + DigitsOut(addr)'
        BY <2>3, <3>4, <3>5, <4>1
      <4>3. QED
        BY <2>3, <2>4, <2>10, <3>4, <3>5, <4>2 DEF LineInv
    <3>6. CASE pc' = "addr pad" /\ digit_shift' = 8 /\ Len(line') = 1 + da
      BY <2>3, <2>4, <3>4, <3>6 DEF LineInv
    <3>7. QED
      BY <2>2, <3>4, <3>5, <3>6
  <2>11. CASE pc = "data" /\ Line!PrintfHex(data, "data pad")
    <3>1. /\ Len(line) = 8 + DigitsOut(data) /\ (digit_shift = 8 \/ digit_shift < Digits(data))
          /\ pc # "data pad"
      BY <1>1, <2>11 DEF LineInv
    <3>2. \A p \in 8 + 1 .. 8 + Digits(data) : FullLine(p) = Column(data, 8, p)
      BY <2>2, <2>6
    <3>3. 8 \in {1, 8}
      OBVIOUS
    <3>4. /\ line' \in Seq(Symbol) /\ \A p \in 1 .. Len(line') : line'[p] = FullLine(p)'
          /\ digit_shift' \in 0 .. 8
          /\ \/ pc' = pc /\ digit_shift' < Digits(data) /\ Len(line') = 8 + Digits(data) - 1 - digit_shift'
             \/ pc' = "data pad" /\ digit_shift' = 8 /\ Len(line') = 8 + Digits(data)
      BY <1>1, <2>1, <2>3, <2>11, <3>1, <3>2, <3>3, HexStep
    <3>5. CASE pc' = pc /\ digit_shift' < dd /\ Len(line') = 8 + dd - 1 - digit_shift'
      <4>1. DigitsOut(data)' = dd - 1 - digit_shift'
        BY <2>3, <2>4, <3>5 DEF DigitsOut
      <4>2. Len(line') = 8 + DigitsOut(data)'
        BY <2>3, <3>4, <3>5, <4>1
      <4>3. QED
        BY <2>3, <2>4, <2>11, <3>4, <3>5, <4>2 DEF LineInv
    <3>6. CASE pc' = "data pad" /\ digit_shift' = 8 /\ Len(line') = 8 + dd
      BY <2>3, <2>4, <3>4, <3>6 DEF LineInv
    <3>7. QED
      BY <2>2, <3>4, <3>5, <3>6
  <2>12. CASE pc = "addr pad" /\ Line!Putchars(Line!Blanks(Line!AddrPad)) /\ pc' = "D" /\ UNCHANGED digit_shift
    <3>1. Len(line) = 1 + Digits(addr) /\ digit_shift = 8
      BY <1>1, <2>12 DEF LineInv
    <3>2. Line!AddrPad = 6 - Digits(addr)
      BY <2>2, <2>3, PadIs DEF Line!AddrPad
    <3>3. \A p \in 1 + 1 .. 1 + 6 : FullLine(p) = Column(addr, 1, p)
      BY FullLineIs
    <3>4. 1 \in {1, 8} /\ 6 \in 1 .. 8 /\ Digits(addr) <= 6
      BY <2>2, <2>3
    <3>5. Line!Putchars(Line!Blanks(6 - Digits(addr)))
      BY <2>12, <3>2
    <3>6. /\ line' \in Seq(Symbol) /\ \A p \in 1 .. Len(line') : line'[p] = FullLine(p)'
          /\ Len(line') = 1 + 6
      BY <1>1, <2>1, <2>3, <3>1, <3>3, <3>4, <3>5, PadStep
    <3>7. pc' = "D" /\ digit_shift' = 8 /\ Len(line') = 7
      <4>1. pc' = "D" /\ digit_shift' = digit_shift
        BY <2>12
      <4>2. 1 + 6 = 7
        OBVIOUS
      <4>3. QED
        BY <3>1, <3>6, <4>1, <4>2
    <3>8. QED
      BY <2>3, <2>4, <3>6, <3>7 DEF LineInv
  <2>13. CASE pc = "data pad" /\ Line!Putchars(Line!Blanks(Line!DataPad)) /\ pc' = "end" /\ UNCHANGED digit_shift
    <3>1. Len(line) = 8 + Digits(data) /\ digit_shift = 8
      BY <1>1, <2>13 DEF LineInv
    <3>2. Line!DataPad = 8 - Digits(data)
      <4>1. Line!PadTo(data, 8) = 8 - Digits(data)
        BY <2>2, <2>3, PadIs
      <4>2. ASSUME Line!Negative(data) PROVE dd = 8
        <5>1. data[7] >= 8
          BY <4>2 DEF Line!Negative, Line!Top
        <5>2. ~(7 >= dd)
          BY <2>2, <2>3, <5>1, DigitsAre
        <5>3. QED
          BY <5>2
      <4>3. QED
        BY <2>2, <4>1, <4>2 DEF Line!DataPad
    <3>3. \A p \in 8 + 1 .. 8 + 8 : FullLine(p) = Column(data, 8, p)
      BY FullLineIs
    <3>4. 8 \in {1, 8} /\ 8 \in 1 .. 8 /\ Digits(data) <= 8
      BY <2>2
    <3>5. Line!Putchars(Line!Blanks(8 - Digits(data)))
      BY <2>13, <3>2
    <3>6. /\ line' \in Seq(Symbol) /\ \A p \in 1 .. Len(line') : line'[p] = FullLine(p)'
          /\ Len(line') = 8 + 8
      BY <1>1, <2>1, <2>3, <3>1, <3>3, <3>4, <3>5, PadStep
    <3>7. pc' = "end" /\ digit_shift' = 8 /\ Len(line') = 16
      <4>1. pc' = "end" /\ digit_shift' = digit_shift
        BY <2>13
      <4>2. 8 + 8 = 16
        OBVIOUS
      <4>3. QED
        BY <3>1, <3>6, <4>1, <4>2
    <3>8. QED
      BY <2>3, <2>4, <3>6, <3>7 DEF LineInv
  <2>14. QED
    BY <1>3, <2>7, <2>8, <2>9, <2>10, <2>11, <2>12, <2>13 DEF Line!PrintData, Line!Literal
<1>4. QED
  BY <1>1, <1>2, <1>3

\* A column that stands as it should shows its word.
LEMMA ColumnShows ==
  ASSUME NEW w \in Hex, NEW at \in {1, 8}, NEW last \in {7, 16}, Digits(w) <= last - at,
         line \in Seq(Symbol), Len(line) = 17,
         \A p \in at + 1 .. last : line[p] = Column(w, at, p)
  PROVE  Line!Shows(w, at + 1, last)
<1>1. PICK n \in 1 .. 8 : n = Digits(w)
  BY DigitsAre
<1>2. n > 1 => w[n - 1] # 0
  BY <1>1, DigitsAre
<1>3. \A i \in 0 .. 7 : w[i] \in 0 .. 15 /\ (i >= n => w[i] = 0)
  BY <1>1, DigitsAre DEF Hex
<1>4. at \in Nat /\ last \in Nat /\ last <= 17 /\ n <= last - at
  BY <1>1
<1>5. \A p \in at + 1 .. last : line[p] = IF p <= at + n THEN w[at + n - p] ELSE 16
  BY <1>1 DEF Column, Line!Blank
<1> DEFINE s == SubSeq(line, at + 1, at + 1 + n - 1)
<1>6. Len(s) = n /\ \A i \in 1 .. n : s[i] = line[at + i]
  <2>1. at + 1 + n - 1 = at + n /\ at + 1 \in 1 .. Len(line) + 1 /\ at + n \in at .. Len(line)
    BY <1>4
  <2>2. s = SubSeq(line, at + 1, at + n)
    BY <2>1
  <2>3. /\ Len(s) = IF at + 1 <= at + n THEN at + n - (at + 1) + 1 ELSE 0
        /\ \A i \in 1 .. at + n - (at + 1) + 1 : s[i] = line[at + 1 + i - 1]
    BY <1>4, <2>1, <2>2
  <2>4. Len(s) = n
    <3>1. at + 1 <= at + n /\ at + n - (at + 1) + 1 = n
      BY <1>4
    <3>2. QED
      BY <2>3, <3>1
  <2>5. ASSUME NEW i \in 1 .. n PROVE s[i] = line[at + i]
    <3>1. at + 1 + i - 1 = at + i /\ i \in 1 .. at + n - (at + 1) + 1
      BY <1>4
    <3>2. QED
      BY <2>3, <3>1
  <2>6. QED
    BY <2>4, <2>5
<1> HIDE DEF s
<1>7. \A i \in 0 .. 7 : i < n => s[n - i] = w[i]
  <2>1. SUFFICES ASSUME NEW i \in 0 .. 7, i < n PROVE s[n - i] = w[i]
    OBVIOUS
  <2>2. n - i \in 1 .. n /\ at + (n - i) \in at + 1 .. last /\ at + (n - i) <= at + n
        /\ at + n - (at + (n - i)) = i
    BY <1>4, <2>1
  <2>3. s[n - i] = line[at + (n - i)]
    BY <1>6, <2>2
  <2>4. QED
    BY <1>5, <2>2, <2>3
<1>8. Line!WordOf(s) = w
  <2>1. \A i \in 0 .. 7 : (IF i < n THEN s[n - i] ELSE 0) = w[i]
    <3>1. SUFFICES ASSUME NEW i \in 0 .. 7 PROVE (IF i < n THEN s[n - i] ELSE 0) = w[i]
      OBVIOUS
    <3>2. CASE i < n
      BY <1>7, <3>2
    <3>3. CASE ~(i < n)
      BY <1>3, <3>3
    <3>4. QED
      BY <3>2, <3>3
  <2>2. w = [i \in 0 .. 7 |-> w[i]]
    BY DEF Hex
  <2>3. QED
    BY <1>6, <2>1, <2>2 DEF Line!WordOf, Line!Top
<1>9. n > 1 => line[at + 1] # 0
  <2>1. at + 1 \in at + 1 .. last /\ at + 1 <= at + n /\ at + n - (at + 1) = n - 1
    BY <1>4
  <2>2. QED
    BY <1>2, <1>5, <2>1
<1>10. ASSUME NEW p \in at + 1 .. last PROVE line[p] = Line!Blank <=> p >= at + 1 + n
  <2>1. CASE p <= at + n
    <3>1. at + n - p \in 0 .. 7 /\ ~(p >= at + 1 + n)
      BY <1>4, <2>1
    <3>2. PICK v \in 0 .. 15 : v = w[at + n - p]
      BY <1>3, <3>1
    <3>3. line[p] = v
      BY <1>5, <2>1, <3>2
    <3>4. v # 16
      OBVIOUS
    <3>5. QED
      BY <3>1, <3>3, <3>4 DEF Line!Blank
  <2>2. CASE ~(p <= at + n)
    <3>1. p >= at + 1 + n
      BY <1>4, <2>2
    <3>2. QED
      BY <1>5, <2>2, <3>1 DEF Line!Blank
  <2>3. QED
    BY <2>1, <2>2
<1>11. n \in 1 .. last - (at + 1) + 1
  BY <1>4
<1>12. QED
  BY <1>8, <1>9, <1>10, <1>11 DEF Line!Shows, s

\* Every line of the dump has its columns where the others have them, and shows the address
\* and the word, whatever they are, with no leading zero.
THEOREM LinesReadable == BenchSpec => []LineReadable
<1>1. BenchInit => LineInv
  BY LineInit DEF BenchInit
<1>2. LineInv /\ [BenchNext]_benchVars => LineInv'
  <2>1. [BenchNext]_benchVars => [Line!PrintData]_lineVars
    BY DEF BenchNext, benchVars
  <2>2. QED
    BY <2>1, LineStep
<1>3. LineInv => LineReadable
  <2>1. SUFFICES ASSUME LineInv, pc = "done" PROVE Line!Aligned /\ Line!Readable
    BY DEF LineReadable, Line!Aligned, Line!Readable
  <2>2. /\ addr \in Hex /\ data \in Hex /\ Digits(addr) <= 6 /\ line \in Seq(Symbol)
        /\ Len(line) = 17 /\ \A p \in 1 .. 17 : line[p] = FullLine(p)
    BY <2>1 DEF LineInv
  <2>3. Line!Aligned
    BY <2>2, FullLineIs DEF Line!Aligned
  <2>4. Line!Shows(addr, 1 + 1, 7)
    <3>1. \A p \in 1 + 1 .. 7 : line[p] = Column(addr, 1, p)
      BY <2>2, FullLineIs
    <3>2. 1 \in {1, 8} /\ 7 \in {7, 16} /\ Digits(addr) <= 7 - 1
      BY <2>2
    <3>3. QED
      BY <2>2, <3>1, <3>2, ColumnShows
  <2>5. Line!Shows(data, 8 + 1, 16)
    <3>1. \A p \in 8 + 1 .. 16 : line[p] = Column(data, 8, p)
      BY <2>2, FullLineIs
    <3>2. 8 \in {1, 8} /\ 16 \in {7, 16} /\ Digits(data) <= 16 - 8
      <4>1. Digits(data) \in 1 .. 8
        BY <2>2, DigitsAre
      <4>2. QED
        BY <4>1
    <3>3. QED
      BY <2>2, <3>1, <3>2, ColumnShows
  <2>6. 1 + 1 = 2 /\ 8 + 1 = 9
    OBVIOUS
  <2>7. QED
    BY <2>3, <2>4, <2>5, <2>6 DEF Line!Readable
<1>4. QED
  BY <1>1, <1>2, <1>3, PTL DEF BenchSpec
================================================================================
