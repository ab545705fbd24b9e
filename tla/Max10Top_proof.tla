--------------------------- MODULE Max10Top_proof ---------------------------
(***************************************************************************)
(* Proofs about the FPGA design, for every number and width of the         *)
(* registers.                                                              *)
(*                                                                         *)
(* The first half is about MdioLink, one end of it the PHY: the types; the *)
(* alignment of the two ends of the MDIO pin; what the frames carry; what  *)
(* is written into the PHY; and that all this is the scan of RegisterScan. *)
(*                                                                         *)
(* The second is about the whole design: the two clock domains together    *)
(* keep the types of every register, the RAM writer stays inside its two   *)
(* blocks and never touches the program below them, and the blocks hold    *)
(* what the PHY held when they were saved.  The frame goes out in order.   *)
(***************************************************************************)
EXTENDS Max10Top, SequenceTheorems, FiniteSetTheorems, TLAPS

-----------------------------------------------------------------------------
(* The words that are shifted out are vectors of bits. *)

\* A vector of bits is a sequence of them.
LEMMA VectorIsSeq ==
    ASSUME NEW n \in Nat, NEW v \in [1 .. n -> Bit]
    PROVE  v \in Seq(Bit) /\ Len(v) = n
  OBVIOUS

\* Joining two sequences of bits adds their lengths.
LEMMA JoinType ==
    ASSUME NEW s \in Seq(Bit), NEW t \in Seq(Bit)
    PROVE  s \o t \in Seq(Bit) /\ Len(s \o t) = Len(s) + Len(t)
  BY ConcatProperties

\* The number n in w bits is a vector of w bits.
LEMMA BitsType ==
    ASSUME NEW n, NEW w \in Nat
    PROVE  Bits(n, w) \in [1 .. w -> Bit] /\ Bits(n, w) \in Seq(Bit) /\ Len(Bits(n, w)) = w
  <1>1. Bits(n, w) \in [1 .. w -> Bit]
    BY DEF Bits, Bit
  <1> QED
    BY <1>1, VectorIsSeq

\* The address of the PHY is a vector of zeros.
LEMMA PhyAddrType ==
    /\ PHY_ADDR \in [1 .. PhyAddrBits -> Bit]
    /\ PHY_ADDR \in Seq(Bit)
    /\ Len(PHY_ADDR) = PhyAddrBits
  <1>1. PHY_ADDR \in [1 .. PhyAddrBits -> Bit]
    BY DEF PHY_ADDR, Bit
  <1> QED
    BY <1>1, VectorIsSeq, MdioAssumption

\* A command has 4 bits of operation and the two addresses.
LEMMA ReadCommandType ==
    ASSUME NEW r
    PROVE  ReadCommand(r) \in [1 .. CommandBits -> Bit]
  <1> DEFINE op == PHY_READ \o PHY_ADDR
  <1>1. PHY_READ \in Seq(Bit) /\ Len(PHY_READ) = 4
    BY DEF PHY_READ, Bit
  <1>2. PHY_ADDR \in Seq(Bit) /\ Len(PHY_ADDR) = PhyAddrBits
    BY PhyAddrType
  <1>3. op \in Seq(Bit) /\ Len(op) = 4 + PhyAddrBits
    BY <1>1, <1>2, JoinType
  <1>4. /\ Bits(r, RegAddrBits) \in Seq(Bit)
        /\ Len(Bits(r, RegAddrBits)) = RegAddrBits
    BY BitsType, MdioAssumption
  <1>5. ReadCommand(r) \in Seq(Bit) /\ Len(ReadCommand(r)) = CommandBits
    BY <1>3, <1>4, JoinType, MdioAssumption DEF ReadCommand, CommandBits
  <1> QED
    BY <1>5, LenProperties

\* The write command has the two turnaround bits as well.
LEMMA WriteCommandType == WriteCommand \in [1 .. CommandBits + 2 -> Bit]
  <1> DEFINE op == PHY_WRITE \o PHY_ADDR
             reg == Bits(0, RegAddrBits)
             cmd == op \o reg
  <1>1. PHY_WRITE \in Seq(Bit) /\ Len(PHY_WRITE) = 4
    BY DEF PHY_WRITE, Bit
  <1>2. PHY_ADDR \in Seq(Bit) /\ Len(PHY_ADDR) = PhyAddrBits
    BY PhyAddrType
  <1>3. op \in Seq(Bit) /\ Len(op) = 4 + PhyAddrBits
    BY <1>1, <1>2, JoinType
  <1>4. reg \in Seq(Bit) /\ Len(reg) = RegAddrBits
    BY BitsType, MdioAssumption
  <1>5. cmd \in Seq(Bit) /\ Len(cmd) = CommandBits
    BY <1>3, <1>4, JoinType, MdioAssumption DEF CommandBits
  <1>6. PHY_WR_TURNAROUND \in Seq(Bit) /\ Len(PHY_WR_TURNAROUND) = 2
    BY DEF PHY_WR_TURNAROUND, Bit
  <1>7. WriteCommand \in Seq(Bit) /\ Len(WriteCommand) = CommandBits + 2
    BY <1>5, <1>6, JoinType DEF WriteCommand
  <1> QED
    BY <1>7, LenProperties

\* A bit selected from a vector is a bit, whatever the index.
LEMMA SelectedBitType ==
    ASSUME NEW width \in Nat, NEW v \in [1 .. width -> Bit], NEW count \in Nat
    PROVE  SelectedBit(v, width, count) \subseteq Bit
  BY DEF SelectedBit

\* A frame starts as an empty or a one-bit header.
LEMMA StartOfFrame ==
    ASSUME NEW s, s = <<>> \/ s = << 0 >>
    PROVE  s \in Seq(Bit) /\ Len(s) <= 1
  <1>1. CASE s = <<>>
    BY <1>1
  <1>2. CASE s = << 0 >>
    BY <1>2 DEF Bit
  <1> QED
    BY <1>1, <1>2

\* Shifting out the first of several bits leaves some.
LEMMA ShiftedOut ==
    ASSUME NEW s \in Seq(Bit), NEW t, s # <<>>, Len(s) # 1, t = Tail(s)
    PROVE  t \in Seq(Bit) /\ t # <<>> /\ Len(t) = Len(s) - 1 /\ Len(t) <= Len(s)
  <1>1. Len(s) \in Nat /\ Len(s) # 0
    BY EmptySeq, LenProperties
  <1>2. Tail(s) \in Seq(Bit) /\ Len(Tail(s)) = Len(s) - 1
    BY HeadTailProperties
  <1>3. Len(t) # 0
    BY <1>1, <1>2
  <1>4. t # <<>>
    BY <1>3, EmptySeq
  <1> QED
    BY <1>1, <1>2, <1>4

-----------------------------------------------------------------------------
(* One edge of enet_mdc_clk. *)

\* The sizes are natural numbers.
LEMMA SizeFacts ==
    /\ NumRegs \in Nat /\ NumRegs >= 2 /\ DataBits \in Nat /\ DataBits >= 1
    /\ PhyAddrBits \in Nat /\ RegAddrBits \in Nat
    /\ CommandBits \in Nat /\ CommandBits >= 4
    /\ PreambleBits \in Nat /\ PreambleWrap \in Nat /\ PreambleBits < PreambleWrap
    /\ PostRstWait \in Nat
    /\ REG0_LOOPBACK \in [1 .. DataBits -> Bit]
  BY SizesAssumption, MdioAssumption DEF CommandBits, Word

\* The pin always has the level of some bit.
LEMMA PinLevelsType ==
    ASSUME LinkInv
    PROVE  PinLevels \subseteq Bit
  <1>1. phy_drives = 1 => Head(phy_shift) \in Bit
    BY DEF LinkInv, LinkTypeOK, PhyTypeOK, PhyInStep
  <1> QED
    BY <1>1 DEF PinLevels, PULL_UP, Bit, LinkInv, LinkTypeOK, MdioTypeOK, PhyTypeOK

\* The state machine's side of an edge keeps its types and its counters.
LEMMA MdcEdgeStep ==
    ASSUME LinkInv, NEW level \in Bit, MdcEdge(level),
           UNCHANGED <<CPU_RESETn, phy_reg_write_done>>
    PROVE  MdioTypeOK' /\ CountersInStep' /\ SignalsTypeOK'
  <1> USE SizeFacts
  <1> DEFINE Goal == MdioTypeOK' /\ CountersInStep' /\ SignalsTypeOK'
  <1>t. SignalsTypeOK /\ MdioTypeOK /\ CountersInStep
    BY DEF LinkInv, LinkTypeOK
  <1>z. ZeroWord \in Word
    BY DEF ZeroWord, Word, Bit
  <1>1. CASE Reset
    <2>1. serial_rd_cmd_to_phy' \in [1 .. CommandBits -> Bit]
      BY <1>1, ReadCommandType DEF Reset
    <2> QED
      BY <1>1, <1>t, <1>z, <2>1
      DEF Reset, Goto, SignalsTypeOK, MdioTypeOK, CountersInStep, MdioState, Bit
  <1>2. CASE PostRstWaiting
    BY <1>2, <1>t
    DEF PostRstWaiting, PostRstWaited, Goto, counters, loopbackFlags, wire, requests,
        SignalsTypeOK, MdioTypeOK, CountersInStep, MdioState, Bit
  <1>3. CASE Preamble
    <2>1. (phy_preamble_count + 1) % PreambleWrap \in 0 .. PreambleWrap - 1
      BY <1>t DEF MdioTypeOK
    <2> QED
      BY <1>3, <1>t, <2>1
      DEF Preamble, PreambleDone, Goto, loopbackFlags, requests,
          SignalsTypeOK, MdioTypeOK, CountersInStep, MdioState, Bit
  <1>4. CASE SendReadCmd
    <2>1. serial_rd_cmd_to_phy' \in [1 .. CommandBits -> Bit]
      BY <1>4, ReadCommandType DEF SendReadCmd
    <2>2. enet_mdio' \in Bit
      BY <1>4, <1>t, SelectedBitType DEF SendReadCmd, MdioTypeOK
    <2> QED
      BY <1>4, <1>t, <2>1, <2>2
      DEF SendReadCmd, ReadCommandDone, Goto, loopbackFlags, requests,
          SignalsTypeOK, MdioTypeOK, CountersInStep, MdioState, Bit
  <1>5. CASE Turnaround
    BY <1>5, <1>t
    DEF Turnaround, Goto, counters, loopbackFlags, requests,
        SignalsTypeOK, MdioTypeOK, CountersInStep, MdioState, Bit
  <1>6. CASE Read(level)
    <2>1. bits_read_from_phy' \in Word
      BY <1>6, <1>t DEF Read, MdioTypeOK, Word
    <2> QED
      BY <1>6, <1>t, <2>1
      DEF Read, WordRead, Goto, loopbackFlags, requests,
          SignalsTypeOK, MdioTypeOK, CountersInStep, MdioState, Bit
  <1>7. CASE StoreReadData
    <2>1. phy_reg' \in [RegIndex -> Word]
      BY <1>7, <1>t DEF StoreReadData, SignalsTypeOK, MdioTypeOK
    <2> QED
      BY <1>7, <1>t, <1>z, <2>1
      DEF StoreReadData, LastRegister, Goto, loopbackFlags, requests, wire,
          SignalsTypeOK, MdioTypeOK, CountersInStep, MdioState, Bit
  <1>8. CASE WaitForRamWrite
    BY <1>8, <1>t
    DEF WaitForRamWrite, RamSaved, Goto, counters, loopbackFlags, wire,
        SignalsTypeOK, MdioTypeOK, CountersInStep, MdioState, Bit
  <1>9. CASE EnableLoopback
    BY <1>9, <1>t
    DEF EnableLoopback, Goto, wire, SignalsTypeOK, MdioTypeOK, CountersInStep,
        MdioState, Bit
  <1>10. CASE SendWriteCmd
    <2>1. enet_mdio' \in Bit
      BY <1>10, <1>t, SelectedBitType, WriteCommandType DEF SendWriteCmd, MdioTypeOK
    <2> QED
      BY <1>10, <1>t, <2>1
      DEF SendWriteCmd, WriteCommandDone, Goto, loopbackFlags, requests,
          SignalsTypeOK, MdioTypeOK, CountersInStep, MdioState, Bit
  <1>11. CASE SendWriteData
    <2>1. enet_mdio' \in Bit
      BY <1>11, <1>t, SelectedBitType DEF SendWriteData, MdioTypeOK
    <2> QED
      BY <1>11, <1>t, <2>1
      DEF SendWriteData, WordWritten, Goto, requests,
          SignalsTypeOK, MdioTypeOK, CountersInStep, MdioState, Bit
  <1> QED
    BY <1>1, <1>2, <1>3, <1>4, <1>5, <1>6, <1>7, <1>8, <1>9, <1>10, <1>11 DEF MdcEdge

\* The PHY's side of an edge keeps its types, and leaves it with a bit to send
\* whenever it drives the pin.
LEMMA PhyEdgeStep ==
    ASSUME LinkInv, NEW level \in Bit, PhyEdge(level)
    PROVE  PhyTypeOK' /\ PhyInStep'
  <1> USE SizeFacts
  <1>t. PhyTypeOK /\ PhyInStep
    BY DEF LinkInv, LinkTypeOK
  <1>o. PHY_READ # PHY_WRITE
    BY DEF PHY_READ, PHY_WRITE
  <1>1. CASE PhyIdle(level)
    <2>1. phy_frame' = <<>> \/ phy_frame' = << 0 >>
      BY <1>1 DEF PhyIdle
    <2>2. phy_frame' \in Seq(Bit) /\ Len(phy_frame') <= 1
      BY <2>1, StartOfFrame
    <2>3. ~HeaderComplete /\ ~HeaderComplete'
      BY <1>1, <2>2 DEF PhyIdle, HeaderComplete
    <2> QED
      BY <1>1, <1>t, <2>2, <2>3 DEF PhyIdle, PhyTypeOK, PhyInStep, Bit
  <1>2. CASE PhyHeader(level)
    <2>1. /\ Append(phy_frame, level) \in Seq(Bit)
          /\ Len(Append(phy_frame, level)) = Len(phy_frame) + 1
      BY <1>t DEF PhyTypeOK
    <2>2. Len(phy_frame) < CommandBits
      BY <1>2, <1>t DEF PhyHeader, HeaderComplete, PhyTypeOK
    <2>3. phy_frame' = <<>> \/ phy_frame' = Append(phy_frame, level)
      BY <1>2 DEF PhyHeader
    <2>4. phy_shift' = <<>> /\ phy_drives' = 0
      BY <1>2, <1>t DEF PhyHeader, PhyInStep, PhyTypeOK, Bit
    <2> QED
      BY <1>2, <1>t, <2>1, <2>2, <2>3, <2>4 DEF PhyHeader, PhyTypeOK, PhyInStep, Bit
  <1>3. CASE PhySend
    <2>1. FrameRegister \in PhyAddress
      BY <1>3, <1>t DEF PhySend, HeaderComplete, FrameRegister, PhyAddress, PhyTypeOK,
                        CommandBits
    <2>2. /\ phy_space[FrameRegister] \in Seq(Bit)
          /\ Len(phy_space[FrameRegister]) = DataBits
      BY <2>1, <1>t, VectorIsSeq DEF PhyTypeOK, Word
    <2>3. CASE phy_drives = 0
      <3>1. << 0 >> \in Seq(Bit) /\ Len(<< 0 >>) = 1
        BY DEF Bit
      <3>2. /\ phy_shift' \in Seq(Bit)
            /\ Len(phy_shift') = DataBits + 1
        <4>1. phy_shift' = << 0 >> \o phy_space[FrameRegister]
          BY <1>3, <2>3 DEF PhySend
        <4>2. /\ << 0 >> \o phy_space[FrameRegister] \in Seq(Bit)
              /\ Len(<< 0 >> \o phy_space[FrameRegister]) = 1 + DataBits
          BY <2>2, <3>1, JoinType
        <4> QED
          BY <4>1, <4>2
      <3> QED
        BY <1>3, <1>t, <2>3, <3>2
        DEF PhySend, PhyTypeOK, PhyInStep, HeaderComplete, OperationOf, Bit
    <2>4. CASE phy_drives # 0
      <3>1. phy_shift \in Seq(Bit) /\ phy_shift # <<>> /\ Len(phy_shift) <= DataBits + 1
        BY <1>t, <2>4 DEF PhyTypeOK, PhyInStep, Bit
      <3>2. /\ Tail(phy_shift) \in Seq(Bit)
            /\ Len(Tail(phy_shift)) = Len(phy_shift) - 1
        BY <3>1
      <3>3. CASE Len(phy_shift) = 1
        <4>1. phy_shift' = <<>> /\ phy_frame' = <<>> /\ phy_drives' = 0
          BY <1>3, <2>4, <3>1, <3>2, <3>3 DEF PhySend
        <4> QED
          BY <1>3, <1>t, <4>1 DEF PhySend, PhyTypeOK, PhyInStep, HeaderComplete, Bit
      <3>4. CASE Len(phy_shift) # 1
        <4>1. phy_shift' = Tail(phy_shift) /\ phy_frame' = phy_frame /\ phy_drives' = 1
          BY <1>3, <2>4, <3>4 DEF PhySend
        <4>2. phy_shift' # <<>>
          BY <3>1, <3>4, <4>1, ShiftedOut
        <4>3. PhyTypeOK'
          <5>1. phy_shift' \in Seq(Bit) /\ Len(phy_shift') <= DataBits + 1
            BY <3>1, <3>4, <4>1, ShiftedOut
          <5> QED
            BY <1>3, <1>t, <4>1, <5>1 DEF PhySend, PhyTypeOK, Bit
        <4>4. HeaderComplete' /\ OperationOf(phy_frame)' = PHY_READ
          BY <1>3, <4>1 DEF PhySend, HeaderComplete, OperationOf
        <4> QED
          BY <4>1, <4>2, <4>3, <4>4 DEF PhyInStep
      <3> QED
        BY <3>3, <3>4
    <2> QED
      BY <2>3, <2>4
  <1>4. CASE PhyReceive(level)
    <2>1. phy_drives = 0
      BY <1>4, <1>t, <1>o DEF PhyReceive, PhyInStep, PhyTypeOK, Bit
    <2>2. CASE Len(phy_shift) < DataBits + 1
      <3>1. /\ phy_shift' \in Seq(Bit)
            /\ Len(phy_shift') <= DataBits + 1
        <4>1. phy_shift' = Append(phy_shift, level)
          BY <1>4, <2>2 DEF PhyReceive
        <4>2. phy_shift \in Seq(Bit) /\ Len(phy_shift) \in Nat
          BY <1>t DEF PhyTypeOK
        <4>3. /\ Append(phy_shift, level) \in Seq(Bit)
              /\ Len(Append(phy_shift, level)) = Len(phy_shift) + 1
          BY <4>2
        <4> QED
          BY <2>2, <4>1, <4>2, <4>3
      <3>2. phy_frame' = phy_frame
        BY <1>4, <2>2 DEF PhyReceive
      <3>3. HeaderComplete' /\ OperationOf(phy_frame)' # PHY_READ
        BY <1>4, <1>o, <3>2 DEF PhyReceive, HeaderComplete, OperationOf
      <3> QED
        BY <1>4, <1>t, <2>1, <2>2, <3>1, <3>2, <3>3
        DEF PhyReceive, PhyTypeOK, PhyInStep, Bit
    <2>3. CASE ~(Len(phy_shift) < DataBits + 1)
      <3>1. \A i \in 1 .. DataBits : i # DataBits => phy_shift[i + 2] \in Bit
        BY <1>t, <2>3 DEF PhyTypeOK
      <3>2. phy_space' \in [PhyAddress -> Word]
        <4> DEFINE word == [i \in 1 .. DataBits |->
                              IF i = DataBits THEN level ELSE phy_shift[i + 2]]
        <4>1. word \in Word
          BY <1>t, <3>1 DEF Word
        <4>2. phy_space' = [phy_space EXCEPT ![FrameRegister] = word]
          BY <1>4, <2>3 DEF PhyReceive
        <4>3. phy_space \in [PhyAddress -> Word]
          BY <1>t DEF PhyTypeOK
        <4> HIDE DEF word
        <4> QED
          BY <4>1, <4>2, <4>3
      <3>3. phy_shift' = <<>> /\ phy_frame' = <<>>
        BY <1>4, <2>3 DEF PhyReceive
      <3> QED
        BY <1>4, <1>t, <2>1, <3>2, <3>3
        DEF PhyReceive, PhyTypeOK, PhyInStep, HeaderComplete, Bit
    <2> QED
      BY <2>2, <2>3
  <1> QED
    BY <1>1, <1>2, <1>3, <1>4 DEF PhyEdge

-----------------------------------------------------------------------------
(* The whole link. *)

\* The power-up state is in range.
LEMMA LinkInvInit ==
    ASSUME LinkInit
    PROVE  LinkInv
  <1> USE SizeFacts
  <1>1. ZeroWord \in Word
    BY DEF ZeroWord, Word, Bit
  <1>2. SignalsTypeOK
    BY <1>1 DEF LinkInit, SignalsInit, SignalsTypeOK, Bit
  <1>3. MdioTypeOK
    BY <1>1 DEF LinkInit, MdioInit, MdioTypeOK, MdioState, Bit
  <1>4. PhyTypeOK
    BY LinkAssumption, EmptySeq DEF LinkInit, PhyInit, PhyTypeOK, Bit
  <1>5. ButtonTypeOK
    BY ButtonAssumption DEF LinkInit, ButtonInit, ButtonTypeOK
  <1>6. CountersInStep
    BY DEF LinkInit, MdioInit, CountersInStep
  <1>7. PhyInStep
    BY DEF LinkInit, PhyInit, PhyInStep
  <1> QED
    BY <1>2, <1>3, <1>4, <1>5, <1>6, <1>7 DEF LinkInv, LinkTypeOK

\* An edge of enet_mdc_clk keeps the ranges: this side and the PHY, each by its own actions.
LEMMA MdcTickStep ==
    ASSUME LinkInv, MdcTick
    PROVE  LinkInv'
  <1>1. PICK level \in PinLevels : MdcEdge(level) /\ PhyEdge(level)
    BY DEF MdcTick
  <1>2. level \in Bit
    BY PinLevelsType
  <1>3. UNCHANGED <<CPU_RESETn, phy_reg_write_done>>
    BY DEF MdcTick, CountMdcEdge
  <1>4. MdioTypeOK' /\ CountersInStep' /\ SignalsTypeOK'
    BY <1>1, <1>2, <1>3, MdcEdgeStep
  <1>5. PhyTypeOK' /\ PhyInStep'
    BY <1>1, <1>2, PhyEdgeStep
  <1>6. ButtonTypeOK'
    BY ButtonAssumption DEF MdcTick, CountMdcEdge, ButtonTypeOK, LinkInv, LinkTypeOK
  <1> QED
    BY <1>4, <1>5, <1>6 DEF LinkInv, LinkTypeOK

\* Everything else leaves both ends of the pin alone.
LEMMA OffTickStep ==
    ASSUME LinkInv, UNCHANGED <<mdioVars, phyVars>>, ButtonTypeOK',
           CPU_RESETn' \in Bit, phy_reg_write_done' \in Bit
    PROVE  LinkInv'
  <1>1. SignalsTypeOK'
    BY DEF LinkInv, LinkTypeOK, SignalsTypeOK, mdioVars, requests
  <1>2. MdioTypeOK'
    BY DEF LinkInv, LinkTypeOK, MdioTypeOK, mdioVars, counters, loopbackFlags, wire
  <1>3. PhyTypeOK'
    BY DEF LinkInv, LinkTypeOK, PhyTypeOK, phyVars
  <1>4. CountersInStep'
    BY DEF LinkInv, CountersInStep, mdioVars, counters
  <1>5. PhyInStep'
    BY DEF LinkInv, PhyInStep, phyVars, HeaderComplete, OperationOf
  <1> QED
    BY <1>1, <1>2, <1>3, <1>4, <1>5 DEF LinkInv, LinkTypeOK

\* Every step of the link keeps the ranges.
LEMMA LinkInvStep ==
    ASSUME LinkInv, [LinkNext]_linkVars
    PROVE  LinkInv'
  <1> USE ButtonAssumption
  <1>t. ButtonTypeOK /\ CPU_RESETn \in Bit /\ phy_reg_write_done \in Bit
    BY DEF LinkInv, LinkTypeOK, SignalsTypeOK
  <1>1. CASE MdcTick
    BY <1>1, MdcTickStep
  <1>2. CASE Press
    <2>1. ButtonTypeOK' /\ CPU_RESETn' \in Bit
      BY <1>2, <1>t DEF Press, PressButton, ButtonTypeOK, Bit
    <2> QED
      BY <1>2, <1>t, <2>1, OffTickStep DEF Press
  <1>3. CASE Release
    <2>1. ButtonTypeOK' /\ CPU_RESETn' \in Bit
      BY <1>3, <1>t DEF Release, ReleaseButton, ButtonTypeOK, buttonVars, Bit
    <2> QED
      BY <1>3, <1>t, <2>1, OffTickStep DEF Release
  <1>4. CASE RamAnswers \/ RamWithdraws \/ RxSeesButton
    <2>1. CountRxEdge
      BY <1>4 DEF RamAnswers, RamWithdraws, RxSeesButton
    <2>2. ButtonTypeOK' /\ CPU_RESETn' \in Bit
      BY <2>1, <1>t DEF CountRxEdge, ButtonTypeOK
    <2>3. UNCHANGED <<mdioVars, phyVars>>
      BY <1>4 DEF RamAnswers, RamWithdraws, RxSeesButton
    <2>4. phy_reg_write_done' \in Bit
      BY <1>4, <1>t DEF RamAnswers, RamWithdraws, RxSeesButton, Bit
    <2> QED
      BY <2>2, <2>3, <2>4, OffTickStep
  <1>5. CASE UNCHANGED linkVars
    <2>1. UNCHANGED <<mdioVars, phyVars, buttonVars, CPU_RESETn, phy_reg_write_done>>
      BY <1>5 DEF linkVars
    <2>2. ButtonTypeOK'
      BY <2>1, <1>t DEF ButtonTypeOK, buttonVars
    <2> QED
      BY <1>t, <2>1, <2>2, OffTickStep
  <1> QED
    BY <1>1, <1>2, <1>3, <1>4, <1>5 DEF LinkNext

\* LinkInv is an invariant: the counters of altera_max_10.v never pass the value
\* the next-state logic tests them for, so no state is stuck, and the registers
\* keep their ranges.
THEOREM LinkInvariance == LinkSpec => []LinkInv
  <1>1. LinkInit => LinkInv
    BY LinkInvInit
  <1>2. LinkInv /\ [LinkNext]_linkVars => LinkInv'
    BY LinkInvStep
  <1> QED
    BY <1>1, <1>2, PTL DEF LinkSpec

\* Every register of the management state machine, the PHY and the button has a
\* value of its type, whatever the number and the width of the PHY registers.
THEOREM LinkTypes == LinkSpec => []LinkTypeOK
  <1>1. LinkInv => LinkTypeOK
    BY DEF LinkInv
  <1> QED
    BY <1>1, LinkInvariance, PTL

-----------------------------------------------------------------------------
(* The snapshot stands still while the RAM writer copies it. *)

\* The request is up only from WAIT_FOR_RAM_WRITE_s until the state after it, be
\* that ENABLE_LOOPBACK_s or the reset.
RequestHeld ==
    write_phy_reg_space_to_ram = 1 =>
        current_state \in {"WAIT_FOR_RAM_WRITE_s", "ENABLE_LOOPBACK_s", "RESET_s"}

\* Nothing is asked at power-up.
LEMMA RequestHeldInit ==
    ASSUME LinkInit
    PROVE  RequestHeld
  BY DEF LinkInit, MdioInit, RequestHeld

\* No state writes the snapshot while the request stays up.
LEMMA RequestHeldEdge ==
    ASSUME RequestHeld, NEW level, MdcEdge(level)
    PROVE  /\ RequestHeld'
           /\ write_phy_reg_space_to_ram = 1 /\ write_phy_reg_space_to_ram' = 1
                => UNCHANGED phy_reg
  <1> USE DEF RequestHeld, Goto
  <1>1. CASE Reset
    BY <1>1 DEF Reset
  <1>2. CASE PostRstWaiting \/ Preamble \/ SendReadCmd \/ SendWriteCmd \/ SendWriteData
    BY <1>2 DEF PostRstWaiting, Preamble, SendReadCmd, SendWriteCmd, SendWriteData, requests
  <1>3. CASE Turnaround \/ Read(level) \/ StoreReadData
    BY <1>3 DEF Turnaround, Read, StoreReadData, requests
  <1>4. CASE WaitForRamWrite
    BY <1>4 DEF WaitForRamWrite
  <1>5. CASE EnableLoopback
    BY <1>5 DEF EnableLoopback
  <1> QED
    BY <1>1, <1>2, <1>3, <1>4, <1>5 DEF MdcEdge

\* The same of every step of the link.
LEMMA RequestHeldStep ==
    ASSUME RequestHeld, [LinkNext]_linkVars
    PROVE  /\ RequestHeld'
           /\ write_phy_reg_space_to_ram = 1 /\ write_phy_reg_space_to_ram' = 1
                => UNCHANGED phy_reg
  <1>1. CASE MdcTick
    BY <1>1, RequestHeldEdge DEF MdcTick
  <1>2. CASE UNCHANGED mdioVars
    BY <1>2 DEF RequestHeld, mdioVars, requests
  <1>3. MdcTick \/ UNCHANGED mdioVars
    BY DEF LinkNext, Press, Release, RamAnswers, RamWithdraws, RxSeesButton, linkVars
  <1> QED
    BY <1>1, <1>2, <1>3

\* The 32 words that the RAM writer multiplexes on the other clock
\* (altera_max_10.v:149-198) do not change while it is being asked to copy them.
THEOREM SnapshotStability == LinkSpec => SnapshotStable
  <1>1. LinkInit => RequestHeld
    BY RequestHeldInit
  <1>2. RequestHeld /\ [LinkNext]_linkVars => RequestHeld'
    BY RequestHeldStep
  <1>3. RequestHeld /\ [LinkNext]_linkVars =>
          [write_phy_reg_space_to_ram = 1 /\ write_phy_reg_space_to_ram' = 1
             => UNCHANGED phy_reg]_linkVars
    BY RequestHeldStep
  <1> QED
    BY <1>1, <1>2, <1>3, PTL DEF LinkSpec, SnapshotStable
-----------------------------------------------------------------------------
(* Both ends of the wire follow the same frame. *)

\* The bits that both ends agree on are the first n of a command.
Prefix(command, n) ==
    Len(phy_frame) = n /\ \A i \in 1 .. n : phy_frame[i] = command[i]

\* Nobody is sending: the PHY is in no frame, so the pin is left to the pull-up.
Quiet == phy_frame = <<>> /\ phy_drives = 0

PastPreamble == phy_preamble_count \notin 1 .. PreambleBits

\* In POST_RST_WAIT_s the pin is released, and a frame that the reset cut short
\* is fed by the pull-up, one bit per edge: it has taken at least as many as the
\* wait has counted.  Ones match the address of a register and its data, but no
\* address of the PHY, so a frame that is to be answered had its PHY address
\* before the wait.
Doomed == \E i \in 5 .. 4 + PhyAddrBits : i <= Len(phy_frame) /\ phy_frame[i] = 1

Draining(edges) ==
    /\ phy_frame # <<>> /\ ~HeaderComplete =>
          /\ Len(phy_frame) > edges
          /\ \/ Len(phy_frame) < 4 + PhyAddrBits
             \/ Len(phy_frame) >= 4 + PhyAddrBits + edges
             \/ Doomed
    /\ HeaderComplete /\ OperationOf(phy_frame) = PHY_READ =>
          IF phy_drives = 0 THEN edges <= RegAddrBits
          ELSE Len(phy_shift) + edges <= RegAddrBits + DataBits + 2
    /\ HeaderComplete /\ OperationOf(phy_frame) = PHY_WRITE =>
          edges <= RegAddrBits + Len(phy_shift)

InWait ==
    current_state = "POST_RST_WAIT_s" =>
        /\ write_enet_mdio = 0
        /\ phy_preamble_count = 0
        /\ Draining(phy_wait_after_reset_count)

InPreamble ==
    current_state = "PHY_PREAMBLE_s" =>
        /\ Quiet
        /\ phy_preamble_count \in 1 .. PreambleBits =>
              /\ write_enet_mdio = 1 /\ enet_mdio = 1
              /\ phy_ones >= phy_preamble_count - 1
        /\ write_enet_mdio = 1 /\ enet_mdio = 0 => phy_ones # PreambleBits

InReadCommand ==
    current_state = "SEND_READ_CMD_s" =>
        /\ write_enet_mdio = 1
        /\ phy_drives = 0
        /\ enet_mdio_bit_count = 0 =>
              phy_frame = <<>> /\ phy_ones = PreambleBits /\ enet_mdio = 1
        /\ enet_mdio_bit_count = 1 => phy_ones = PreambleBits
        /\ enet_mdio_bit_count >= 1 =>
              /\ serial_rd_cmd_to_phy = ReadCommand(phy_registers_read)
              /\ enet_mdio = ReadCommand(phy_registers_read)[enet_mdio_bit_count]
              /\ Prefix(ReadCommand(phy_registers_read), enet_mdio_bit_count - 1)

InReadBody ==
    /\ current_state = "TURNAROUND_z_s" =>
          phy_drives = 0 /\ HeaderComplete /\ OperationOf(phy_frame) = PHY_READ
    /\ current_state = "TURNAROUND_0_s" =>
          write_enet_mdio = 0 /\ phy_drives = 1 /\ Len(phy_shift) = DataBits + 1
    /\ current_state = "READ_s" =>
          /\ write_enet_mdio = 0 /\ phy_drives = 1
          /\ Len(phy_shift) = DataBits - enet_mdio_read_count

BetweenFrames ==
    /\ current_state \in {"STORE_READ_DATA_s", "WAIT_FOR_RAM_WRITE_s", "ENABLE_LOOPBACK_s"} =>
          Quiet /\ write_enet_mdio = 0
    /\ current_state \in {"WAIT_FOR_RAM_WRITE_s", "ENABLE_LOOPBACK_s"} =>
          phy_preamble_count = 0

InWriteCommand ==
    current_state = "SEND_WRITE_CMD_s" =>
        /\ PastPreamble
        /\ write_enet_mdio = 1
        /\ phy_drives = 0
        /\ enet_mdio_wr_cmd_count = 0 =>
              phy_frame = <<>> /\ phy_ones = PreambleBits /\ enet_mdio = 1
        /\ enet_mdio_wr_cmd_count = 1 => phy_ones = PreambleBits
        /\ enet_mdio_wr_cmd_count > 1 => phy_ones = 0
        /\ enet_mdio_wr_cmd_count \in 1 .. CommandBits + 1 =>
              /\ enet_mdio = WriteCommand[enet_mdio_wr_cmd_count]
              /\ Prefix(WriteCommand, enet_mdio_wr_cmd_count - 1)
        /\ enet_mdio_wr_cmd_count > CommandBits =>
              /\ HeaderComplete /\ OperationOf(phy_frame) = PHY_WRITE
              /\ Len(phy_shift) = enet_mdio_wr_cmd_count - CommandBits - 1

InWriteData ==
    current_state = "SEND_WRITE_DATA_s" =>
        /\ PastPreamble
        /\ write_enet_mdio = 1
        /\ phy_drives = 0
        /\ phy_ones = 0
        /\ HeaderComplete /\ OperationOf(phy_frame) = PHY_WRITE
        /\ Len(phy_shift) = enet_mdio_write_count + 2

Accepted == HeaderComplete => OperationOf(phy_frame) \in {PHY_READ, PHY_WRITE}

Aligned ==
    /\ NoContention
    /\ Accepted
    /\ serial_rd_cmd_to_phy[1] = 0
    /\ InWait
    /\ InPreamble
    /\ InReadCommand
    /\ InReadBody
    /\ BetweenFrames
    /\ InWriteCommand
    /\ InWriteData

-----------------------------------------------------------------------------
(* What an edge does to the PHY. *)

\* The sizes that keep the frames apart.
LEMMA FrameFacts ==
    /\ PreambleBits >= 1 /\ PhyAddrBits >= 1
    /\ PostRstWait > RegAddrBits + DataBits
    /\ PostRstWait + 2 >= CommandBits
    /\ CommandBits = 4 + PhyAddrBits + RegAddrBits
    /\ PHY_READ # PHY_WRITE
  BY LinkAssumption DEF CommandBits, PHY_READ, PHY_WRITE

\* Outside a frame the PHY takes no step but PhyIdle.
LEMMA IdleOnly ==
    ASSUME LinkInv, phy_frame = <<>>, NEW level, PhyEdge(level)
    PROVE  PhyIdle(level) /\ ~HeaderComplete
  <1>1. ~HeaderComplete
    BY SizeFacts DEF HeaderComplete
  <1> QED
    BY <1>1 DEF PhyEdge, PhyHeader, PhySend, PhyReceive

\* A quiet PHY stays quiet unless a 0 follows a full preamble.
LEMMA QuietEdge ==
    ASSUME LinkInv, Quiet, NEW level \in Bit, PhyEdge(level),
           level = 0 => phy_ones # PreambleBits
    PROVE  /\ Quiet'
           /\ phy_ones' = IF level = 0 THEN 0
                          ELSE IF phy_ones < PreambleBits THEN phy_ones + 1 ELSE phy_ones
  <1>1. PhyIdle(level)
    BY IdleOnly DEF Quiet
  <1> QED
    BY <1>1 DEF PhyIdle, Quiet

\* The first bit of a frame, after a full preamble.
LEMMA StartBit ==
    ASSUME LinkInv, phy_frame = <<>>, phy_ones = PreambleBits, PhyEdge(0)
    PROVE  /\ phy_frame' = << 0 >> /\ phy_ones' = 0
           /\ phy_shift' = <<>> /\ phy_drives' = phy_drives
  <1>1. PhyIdle(0) /\ ~HeaderComplete
    BY IdleOnly
  <1>2. phy_shift = <<>>
    BY <1>1 DEF LinkInv, PhyInStep
  <1> QED
    BY <1>1, <1>2 DEF PhyIdle

\* The header of a command for this PHY, for the operation op.
IsCommand(command, op) ==
    /\ command[1] = 0 /\ command[2] = 1
    /\ \A i \in 1 .. 4 : command[i] = op[i]
    /\ \A i \in 1 .. PhyAddrBits : command[4 + i] = PHY_ADDR[i]

\* A header that agrees with such a command to its end is for this PHY.
LEMMA HeaderFields ==
    ASSUME NEW op \in {PHY_READ, PHY_WRITE}, NEW command, IsCommand(command, op),
           NEW f, \A i \in 1 .. CommandBits : f[i] = command[i]
    PROVE  OperationOf(f) = op /\ PhyAddrOf(f) = PHY_ADDR
  <1> USE SizeFacts, FrameFacts
  <1>1. \A i \in 1 .. 4 : f[i] = op[i]
    BY DEF IsCommand
  <1>2. OperationOf(f) = op
    <2>1. op = [i \in 1 .. 4 |-> op[i]]
      BY DEF PHY_READ, PHY_WRITE
    <2> QED
      BY <1>1, <2>1 DEF OperationOf
  <1>3. \A i \in 1 .. PhyAddrBits : f[4 + i] = PHY_ADDR[i]
    BY DEF IsCommand
  <1>4. PHY_ADDR \in [1 .. PhyAddrBits -> Bit]
    BY PhyAddrType
  <1>5. PhyAddrOf(f) = PHY_ADDR
    BY <1>3, <1>4 DEF PhyAddrOf
  <1> QED
    BY <1>2, <1>5

\* The PHY follows the header of a command that is sent to it bit by bit.
LEMMA HeaderBit ==
    ASSUME LinkInv, NEW op \in {PHY_READ, PHY_WRITE}, NEW command, IsCommand(command, op),
           NEW n \in 1 .. CommandBits - 1, Prefix(command, n),
           command[n + 1] \in Bit, PhyEdge(command[n + 1])
    PROVE  /\ Prefix(command, n + 1)'
           /\ phy_ones' = phy_ones /\ phy_shift' = <<>> /\ phy_drives' = 0
           /\ n + 1 = CommandBits => HeaderComplete' /\ OperationOf(phy_frame)' = op
  <1> USE SizeFacts, FrameFacts
  <1> DEFINE level == command[n + 1]
             f == Append(phy_frame, level)
  <1>t. phy_frame \in Seq(Bit) /\ PhyTypeOK
    BY DEF LinkInv, LinkTypeOK, PhyTypeOK
  <1>1. phy_frame # <<>> /\ ~HeaderComplete
    BY DEF Prefix, HeaderComplete
  <1>2. PhyHeader(level)
    BY <1>1 DEF PhyEdge, PhyIdle, PhySend, PhyReceive
  <1>3. Len(f) = n + 1 /\ \A i \in 1 .. n + 1 : f[i] = command[i]
    <2>1. Len(phy_frame) = n /\ \A i \in 1 .. n : phy_frame[i] = command[i]
      BY DEF Prefix
    <2>2. /\ Len(f) = Len(phy_frame) + 1 /\ f[Len(phy_frame) + 1] = level
          /\ \A i \in 1 .. Len(phy_frame) : f[i] = phy_frame[i]
      BY <1>t, AppendProperties
    <2>3. Len(f) = n + 1 /\ f[n + 1] = level /\ \A i \in 1 .. n : f[i] = command[i]
      BY <2>1, <2>2
    <2> HIDE DEF f
    <2>4. \A i \in 1 .. n + 1 : i \in 1 .. n \/ i = n + 1
      OBVIOUS
    <2> QED
      BY <2>3, <2>4
  <1>4. n + 1 = CommandBits => OperationOf(f) = op /\ PhyAddrOf(f) = PHY_ADDR
    <2>1. ASSUME n + 1 = CommandBits
          PROVE  \A i \in 1 .. CommandBits : f[i] = command[i]
      BY <1>3, <2>1
    <2> HIDE DEF f
    <2> QED
      BY <2>1, HeaderFields
  <1>5. n + 1 = 2 => level = 1
    BY DEF IsCommand
  <1>6. phy_frame' = f
    <2>1. ~(Len(f) = 2 /\ level = 0)
      BY <1>3, <1>5
    <2>2. ~(Len(f) = CommandBits /\ (OperationOf(f) \notin {PHY_READ, PHY_WRITE}
                                      \/ PhyAddrOf(f) # PHY_ADDR))
      BY <1>3, <1>4
    <2> QED
      BY <1>2, <2>1, <2>2 DEF PhyHeader
  <1>7. phy_shift = <<>> /\ phy_drives = 0
    BY <1>1, <1>t DEF LinkInv, PhyInStep, PhyTypeOK, Bit
  <1>8. Prefix(command, n + 1)'
    BY <1>3, <1>6 DEF Prefix
  <1>9. n + 1 = CommandBits => HeaderComplete' /\ OperationOf(phy_frame)' = op
    <2>1. OperationOf(phy_frame)' = OperationOf(f)
      BY <1>6 DEF OperationOf
    <2>2. n + 1 = CommandBits => HeaderComplete'
      BY <1>3, <1>6 DEF HeaderComplete
    <2> QED
      BY <1>4, <2>1, <2>2
  <1> QED
    BY <1>2, <1>7, <1>8, <1>9 DEF PhyHeader

\* The PHY answers a read.
LEMMA ReadBody ==
    ASSUME LinkInv, HeaderComplete, OperationOf(phy_frame) = PHY_READ,
           NEW level, PhyEdge(level)
    PROVE  /\ phy_drives = 0 => /\ phy_drives' = 1 /\ phy_frame' = phy_frame
                                /\ Len(phy_shift') = DataBits + 1
           /\ phy_drives = 1 /\ Len(phy_shift) # 1 =>
                 /\ phy_drives' = 1 /\ phy_frame' = phy_frame
                 /\ Len(phy_shift') = Len(phy_shift) - 1
           /\ phy_drives = 1 /\ Len(phy_shift) = 1 => Quiet'
  <1> USE SizeFacts, FrameFacts
  <1>t. PhyTypeOK /\ PhyInStep
    BY DEF LinkInv, LinkTypeOK
  <1>1. phy_frame # <<>>
    BY DEF HeaderComplete
  <1>2. PhySend
    BY <1>1 DEF PhyEdge, PhyIdle, PhyHeader, PhyReceive
  <1>3. CASE phy_drives = 0
    <2>1. FrameRegister \in PhyAddress
      BY <1>t DEF HeaderComplete, FrameRegister, PhyAddress, PhyTypeOK, CommandBits
    <2>2. /\ phy_space[FrameRegister] \in Seq(Bit)
          /\ Len(phy_space[FrameRegister]) = DataBits
      BY <2>1, <1>t, VectorIsSeq DEF PhyTypeOK, Word
    <2>3. << 0 >> \in Seq(Bit) /\ Len(<< 0 >>) = 1
      BY DEF Bit
    <2>4. phy_shift' = << 0 >> \o phy_space[FrameRegister]
      BY <1>2, <1>3 DEF PhySend
    <2>5. Len(<< 0 >> \o phy_space[FrameRegister]) = 1 + DataBits
      BY <2>2, <2>3, JoinType
    <2>6. Len(phy_shift') = DataBits + 1
      BY <2>4, <2>5
    <2> QED
      BY <1>2, <1>3, <2>6 DEF PhySend
  <1>4. CASE phy_drives = 1
    <2>1. phy_shift \in Seq(Bit) /\ phy_shift # <<>>
      BY <1>t, <1>4 DEF PhyTypeOK, PhyInStep
    <2>2. Len(Tail(phy_shift)) = Len(phy_shift) - 1
      BY <2>1
    <2> QED
      BY <1>2, <1>4, <2>2 DEF PhySend, Quiet
  <1> QED
    BY <1>3, <1>4

\* The PHY receives a write.
LEMMA WriteBody ==
    ASSUME LinkInv, HeaderComplete, OperationOf(phy_frame) = PHY_WRITE,
           NEW level \in Bit, PhyEdge(level)
    PROVE  /\ phy_ones' = phy_ones /\ phy_drives' = 0
           /\ Len(phy_shift) < DataBits + 1 =>
                 phy_frame' = phy_frame /\ Len(phy_shift') = Len(phy_shift) + 1
           /\ Len(phy_shift) >= DataBits + 1 => Quiet'
  <1> USE SizeFacts, FrameFacts
  <1>t. PhyTypeOK /\ PhyInStep
    BY DEF LinkInv, LinkTypeOK
  <1>1. phy_frame # <<>>
    BY DEF HeaderComplete
  <1>2. PhyReceive(level)
    BY <1>1 DEF PhyEdge, PhyIdle, PhyHeader, PhySend
  <1>3. phy_drives = 0
    BY <1>t DEF PhyTypeOK, PhyInStep, Bit
  <1>4. Len(Append(phy_shift, level)) = Len(phy_shift) + 1 /\ Len(phy_shift) \in Nat
    BY <1>t DEF PhyTypeOK
  <1> QED
    BY <1>2, <1>3, <1>4 DEF PhyReceive, Quiet

\* The PHY completes no header but that of a read or a write.
LEMMA AcceptedEdge ==
    ASSUME LinkInv, Accepted, NEW level \in Bit, PhyEdge(level)
    PROVE  Accepted'
  <1> USE SizeFacts
  <1>t. phy_frame \in Seq(Bit) /\ Len(phy_frame) \in Nat
    BY DEF LinkInv, LinkTypeOK, PhyTypeOK
  <1>1. CASE PhyIdle(level)
    <2>1. phy_frame' = <<>> \/ phy_frame' = << 0 >>
      BY <1>1 DEF PhyIdle
    <2>2. Len(phy_frame') <= 1
      BY <2>1, StartOfFrame
    <2> QED
      BY <2>2 DEF Accepted, HeaderComplete
  <1>2. CASE PhyHeader(level)
    <2> DEFINE f == Append(phy_frame, level)
    <2>1. phy_frame' = <<>> \/ phy_frame' = f
      BY <1>2 DEF PhyHeader
    <2>2. CASE phy_frame' = <<>>
      BY <2>2 DEF Accepted, HeaderComplete
    <2>3. CASE phy_frame' = f /\ Len(f) = CommandBits
      <3>1. f # <<>>
        BY <2>3
      <3>2. OperationOf(f) \in {PHY_READ, PHY_WRITE}
        BY <1>2, <2>3, <3>1 DEF PhyHeader
      <3>3. OperationOf(phy_frame)' = OperationOf(f)
        BY <2>3 DEF OperationOf
      <3> QED
        BY <3>2, <3>3 DEF Accepted
    <2>4. CASE phy_frame' = f /\ Len(f) # CommandBits
      BY <2>4 DEF Accepted, HeaderComplete
    <2> QED
      BY <2>1, <2>2, <2>3, <2>4
  <1>3. CASE PhySend \/ PhyReceive(level)
    <2>1. phy_frame' = phy_frame \/ phy_frame' = <<>>
      BY <1>3 DEF PhySend, PhyReceive
    <2>2. CASE phy_frame' = <<>>
      BY <2>2 DEF Accepted, HeaderComplete
    <2>3. CASE phy_frame' = phy_frame
      BY <2>3 DEF Accepted, HeaderComplete, OperationOf
    <2> QED
      BY <2>1, <2>2, <2>3
  <1> QED
    BY <1>1, <1>2, <1>3 DEF PhyEdge

\* One more bit of a frame that a reset cut short.
LEMMA DrainEdge ==
    ASSUME LinkInv, NEW edges \in Nat, Draining(edges), NEW level \in Bit,
           phy_drives = 0 => level = 1, PhyEdge(level)
    PROVE  Draining(edges + 1)'
  <1> USE SizeFacts, FrameFacts
  <1>t. PhyTypeOK /\ PhyInStep /\ phy_frame \in Seq(Bit) /\ Len(phy_frame) \in Nat
        /\ Len(phy_shift) \in Nat
    BY DEF LinkInv, LinkTypeOK, PhyTypeOK
  <1>e. ASSUME phy_frame' = <<>>
        PROVE  Draining(edges + 1)'
    BY <1>e DEF Draining, HeaderComplete
  <1>1. CASE PhyIdle(level)
    <2>1. phy_drives = 0
      BY <1>1, <1>t, IdleOnly DEF PhyIdle, PhyInStep, PhyTypeOK, Bit
    <2>2. phy_frame' = <<>>
      BY <1>1, <2>1 DEF PhyIdle
    <2> QED
      BY <1>e, <2>2
  <1>2. CASE PhyHeader(level)
    <2> DEFINE f == Append(phy_frame, level)
    <2>1. phy_frame' = <<>> \/ phy_frame' = f
      BY <1>2 DEF PhyHeader
    <2>2. phy_drives = 0 /\ phy_shift = <<>> /\ level = 1
      BY <1>2, <1>t DEF PhyHeader, PhyInStep, PhyTypeOK, Bit
    <2>3. phy_drives' = 0 /\ phy_shift' = <<>>
      BY <1>2, <2>2 DEF PhyHeader
    <2>4. /\ Len(f) = Len(phy_frame) + 1 /\ f[Len(f)] = 1
          /\ \A i \in 1 .. Len(phy_frame) : f[i] = phy_frame[i]
      BY <1>t, <2>2
    <2>5. /\ Len(phy_frame) > edges
          /\ \/ Len(phy_frame) < 4 + PhyAddrBits
             \/ Len(phy_frame) >= 4 + PhyAddrBits + edges
             \/ Doomed
      BY <1>2 DEF PhyHeader, Draining
    <2>6. \/ Len(f) < 4 + PhyAddrBits
          \/ Len(f) >= 4 + PhyAddrBits + edges + 1
          \/ \E i \in 5 .. 4 + PhyAddrBits : i <= Len(f) /\ f[i] = 1
      <3>1. CASE Len(phy_frame) < 4 + PhyAddrBits
        <4>1. Len(f) < 4 + PhyAddrBits \/ Len(f) = 4 + PhyAddrBits
          BY <1>t, <2>4, <3>1
        <4>2. 4 + PhyAddrBits \in 5 .. 4 + PhyAddrBits
          OBVIOUS
        <4>3. ASSUME Len(f) = 4 + PhyAddrBits
              PROVE  \E i \in 5 .. 4 + PhyAddrBits : i <= Len(f) /\ f[i] = 1
          <5>1. f[4 + PhyAddrBits] = 1
            BY <2>4, <4>3
          <5>2. 4 + PhyAddrBits <= Len(f)
            BY <4>3
          <5> HIDE DEF f
          <5> QED
            BY <4>2, <5>1, <5>2
        <4> QED
          BY <4>1, <4>3
      <3>2. CASE Len(phy_frame) >= 4 + PhyAddrBits + edges
        BY <1>t, <2>4, <3>2
      <3>3. CASE Doomed
        BY <1>t, <2>4, <3>3 DEF Doomed
      <3> QED
        BY <2>5, <3>1, <3>2, <3>3
    <2>7. CASE phy_frame' = f /\ Len(f) # CommandBits
      BY <1>t, <2>4, <2>5, <2>6, <2>7 DEF Draining, HeaderComplete, Doomed
    <2>8. CASE phy_frame' = f /\ Len(f) = CommandBits
      <3>1. f # <<>>
        BY <2>8
      <3>2. PhyAddrOf(f) = PHY_ADDR
        BY <1>2, <2>8, <3>1 DEF PhyHeader
      <3>3. \A i \in 1 .. PhyAddrBits : f[4 + i] = 0
        BY <3>2 DEF PhyAddrOf, PHY_ADDR
      <3>4. ASSUME NEW i \in 5 .. 4 + PhyAddrBits
            PROVE  f[i] = 0
        <4>1. i - 4 \in 1 .. PhyAddrBits /\ 4 + (i - 4) = i
          OBVIOUS
        <4> QED
          BY <3>3, <4>1
      <3>5. edges + 1 <= RegAddrBits
        BY <2>6, <2>8, <3>4
      <3>6. HeaderComplete'
        BY <2>8 DEF HeaderComplete
      <3>7. Len(phy_shift') = 0
        BY <2>3
      <3> QED
        BY <2>3, <3>5, <3>6, <3>7 DEF Draining
    <2> QED
      BY <1>e, <2>1, <2>7, <2>8
  <1>3. CASE PhySend
    <2>1. HeaderComplete /\ OperationOf(phy_frame) = PHY_READ
      BY <1>3 DEF PhySend
    <2>2. IF phy_drives = 0 THEN edges <= RegAddrBits
          ELSE Len(phy_shift) + edges <= RegAddrBits + DataBits + 2
      BY <2>1 DEF Draining
    <2>3. phy_drives \in Bit
      BY <1>t DEF PhyTypeOK
    <2>4. \/ Quiet'
          \/ /\ phy_drives' = 1 /\ phy_frame' = phy_frame
             /\ Len(phy_shift') + edges + 1 <= RegAddrBits + DataBits + 2
      BY <1>t, <2>1, <2>2, <2>3, ReadBody DEF Bit
    <2>5. CASE phy_drives' = 1 /\ phy_frame' = phy_frame
               /\ Len(phy_shift') + edges + 1 <= RegAddrBits + DataBits + 2
      <3>1. Len(phy_shift') \in Nat
        BY PhyEdgeStep DEF PhyTypeOK
      <3>2. HeaderComplete' /\ OperationOf(phy_frame)' = PHY_READ
        BY <2>1, <2>5 DEF HeaderComplete, OperationOf
      <3> QED
        BY <2>5, <3>1, <3>2 DEF Draining
    <2> QED
      BY <1>e, <2>4, <2>5 DEF Quiet
  <1>4. CASE PhyReceive(level)
    <2>1. HeaderComplete /\ OperationOf(phy_frame) = PHY_WRITE
      BY <1>4 DEF PhyReceive
    <2>2. edges <= RegAddrBits + Len(phy_shift)
      BY <2>1 DEF Draining
    <2>3. CASE Len(phy_shift) < DataBits + 1
      <3>1. phy_frame' = phy_frame /\ Len(phy_shift') = Len(phy_shift) + 1
        BY <2>1, <2>3, WriteBody
      <3>2. HeaderComplete' /\ OperationOf(phy_frame)' = PHY_WRITE
        BY <2>1, <3>1 DEF HeaderComplete, OperationOf
      <3> QED
        BY <1>t, <2>2, <3>1, <3>2 DEF Draining
    <2>4. CASE Len(phy_shift) >= DataBits + 1
      BY <1>e, <2>1, <2>4, WriteBody DEF Quiet
    <2> QED
      BY <1>t, <2>3, <2>4
  <1> QED
    BY <1>1, <1>2, <1>3, <1>4 DEF PhyEdge

-----------------------------------------------------------------------------
(* What an edge does to both ends. *)

\* The elements of a joined sequence.
LEMMA JoinIndex ==
    ASSUME NEW s \in Seq(Bit), NEW t \in Seq(Bit)
    PROVE  /\ \A i \in 1 .. Len(s) : (s \o t)[i] = s[i]
           /\ \A i \in 1 .. Len(t) : (s \o t)[Len(s) + i] = t[i]
  <1>1. /\ Len(s) \in Nat /\ Len(t) \in Nat
        /\ \A i \in 1 .. Len(s) + Len(t) :
              (s \o t)[i] = IF i <= Len(s) THEN s[i] ELSE t[i - Len(s)]
    BY ConcatProperties
  <1> QED
    BY <1>1

\* The two commands are headers for this PHY.
LEMMA Commands ==
    /\ \A r : IsCommand(ReadCommand(r), PHY_READ)
    /\ IsCommand(WriteCommand, PHY_WRITE)
  <1> USE SizeFacts
  <1>p. /\ PHY_READ \in Seq(Bit) /\ Len(PHY_READ) = 4
        /\ PHY_READ[1] = 0 /\ PHY_READ[2] = 1
        /\ PHY_WRITE \in Seq(Bit) /\ Len(PHY_WRITE) = 4
        /\ PHY_WRITE[1] = 0 /\ PHY_WRITE[2] = 1
    BY DEF PHY_READ, PHY_WRITE, Bit
  <1>a. PHY_ADDR \in Seq(Bit) /\ Len(PHY_ADDR) = PhyAddrBits
    BY PhyAddrType
  <1>1. ASSUME NEW op \in Seq(Bit), Len(op) = 4, op[1] = 0, op[2] = 1,
               NEW reg \in Seq(Bit)
        PROVE  /\ op \o PHY_ADDR \o reg \in Seq(Bit)
               /\ Len(op \o PHY_ADDR \o reg) = 4 + PhyAddrBits + Len(reg)
               /\ IsCommand(op \o PHY_ADDR \o reg, op)
    <2> DEFINE head == op \o PHY_ADDR
    <2>1. head \in Seq(Bit) /\ Len(head) = 4 + PhyAddrBits
      BY <1>1, <1>a, JoinType
    <2>2. head \o reg \in Seq(Bit) /\ Len(head \o reg) = 4 + PhyAddrBits + Len(reg)
      BY <1>1, <2>1, JoinType
    <2>3. \A i \in 1 .. 4 : head[i] = op[i]
      <3>1. \A i \in 1 .. Len(op) : head[i] = op[i]
        BY <1>1, <1>a, JoinIndex
      <3> QED
        BY <1>1, <3>1
    <2>4. \A i \in 1 .. PhyAddrBits : head[4 + i] = PHY_ADDR[i]
      <3>1. \A i \in 1 .. Len(PHY_ADDR) : head[Len(op) + i] = PHY_ADDR[i]
        BY <1>1, <1>a, JoinIndex
      <3> QED
        BY <1>1, <1>a, <3>1
    <2> HIDE DEF head
    <2>5. \A i \in 1 .. 4 + PhyAddrBits : (head \o reg)[i] = head[i]
      BY <1>1, <2>1, JoinIndex
    <2>6. \A i \in 1 .. 4 : (head \o reg)[i] = op[i]
      <3>1. \A i \in 1 .. 4 : i \in 1 .. 4 + PhyAddrBits
        OBVIOUS
      <3> QED
        BY <2>3, <2>5, <3>1
    <2>7. \A i \in 1 .. PhyAddrBits : (head \o reg)[4 + i] = PHY_ADDR[i]
      <3>1. \A i \in 1 .. PhyAddrBits : 4 + i \in 1 .. 4 + PhyAddrBits
        OBVIOUS
      <3> QED
        BY <2>4, <2>5, <3>1
    <2>8. (head \o reg)[1] = 0 /\ (head \o reg)[2] = 1
      <3>1. 1 \in 1 .. 4 /\ 2 \in 1 .. 4
        OBVIOUS
      <3>2. (head \o reg)[1] = op[1] /\ (head \o reg)[2] = op[2]
        BY <2>6, <3>1
      <3> QED
        BY <1>1, <3>2
    <2>9. IsCommand(head \o reg, op)
      BY <2>6, <2>7, <2>8 DEF IsCommand
    <2> QED
      BY <2>2, <2>9 DEF head
  <1>2. ASSUME NEW r
        PROVE  IsCommand(ReadCommand(r), PHY_READ)
    <2>1. Bits(r, RegAddrBits) \in Seq(Bit)
      BY BitsType
    <2> QED
      BY <1>p, <1>1, <2>1 DEF ReadCommand
  <1>3. IsCommand(WriteCommand, PHY_WRITE)
    <2> DEFINE reg == Bits(0, RegAddrBits)
               cmd == PHY_WRITE \o PHY_ADDR \o reg
    <2>1. reg \in Seq(Bit)
      BY BitsType
    <2>2. /\ cmd \in Seq(Bit) /\ Len(cmd) = 4 + PhyAddrBits + Len(reg)
          /\ IsCommand(cmd, PHY_WRITE)
      BY <1>p, <1>1, <2>1
    <2>3. PHY_WR_TURNAROUND \in Seq(Bit)
      BY DEF PHY_WR_TURNAROUND, Bit
    <2>4. WriteCommand = cmd \o PHY_WR_TURNAROUND
      BY DEF WriteCommand
    <2>5. Len(reg) \in Nat
      BY <2>1
    <2> HIDE DEF cmd, reg
    <2>6. \A i \in 1 .. 4 + PhyAddrBits : WriteCommand[i] = cmd[i]
      BY <2>2, <2>3, <2>4, <2>5
    <2> QED
      BY <2>2, <2>6 DEF IsCommand
  <1> QED
    BY <1>2, <1>3

\* Who drives the pin decides its level.
LEMMA PinFacts ==
    ASSUME LinkInv, Aligned, NEW level \in PinLevels
    PROVE  /\ level \in Bit
           /\ phy_drives = 0 /\ write_enet_mdio = 0 => level = 1
           /\ phy_drives = 0 /\ write_enet_mdio = 1 => level = enet_mdio
           /\ Quiet /\ write_enet_mdio = 0 => level = 1
  <1>1. level \in Bit
    BY PinLevelsType
  <1> QED
    BY <1>1 DEF PinLevels, PULL_UP, Quiet

\* The first bit of the shift register for the command is always a 0.
FirstBit == serial_rd_cmd_to_phy[1] = 0

\* The bit of the register read before that a frame begins with is a 0 like the new one.
LEMMA FirstBitEdge ==
    ASSUME FirstBit, NEW level, MdcEdge(level)
    PROVE  FirstBit'
  <1>1. \A r : ReadCommand(r)[1] = 0
    BY Commands DEF IsCommand
  <1>2. \/ serial_rd_cmd_to_phy' = serial_rd_cmd_to_phy
        \/ serial_rd_cmd_to_phy' = ReadCommand(phy_registers_read)
    BY DEF MdcEdge, Reset, PostRstWaiting, Preamble, SendReadCmd, Turnaround, Read,
           StoreReadData, WaitForRamWrite, EnableLoopback, SendWriteCmd, SendWriteData
  <1> QED
    BY <1>1, <1>2 DEF FirstBit

\* What is left to show of each edge: no contention, and what holds in the state
\* it ends in.
Rest ==
    /\ NoContention
    /\ InWait
    /\ InPreamble
    /\ InReadCommand
    /\ InReadBody
    /\ BetweenFrames
    /\ InWriteCommand
    /\ InWriteData

\* The edge that finds RESET_s leaves a torn frame to run out during the wait.
LEMMA ResetEdge ==
    ASSUME LinkInv, LinkInv', Reset
    PROVE  Rest'
  <1> USE SizeFacts, FrameFacts
  <1>1. write_enet_mdio' = 0 /\ phy_preamble_count' = 0 /\ phy_wait_after_reset_count' = 0
    BY DEF Reset
  <1>2. current_state' \in {"RESET_s", "POST_RST_WAIT_s"}
    BY DEF Reset, Goto
  <1>3. /\ Len(phy_frame)' \in Nat /\ Len(phy_shift)' \in Nat
        /\ Len(phy_shift)' <= DataBits + 1
    BY DEF LinkInv, LinkTypeOK, PhyTypeOK
  <1>4. phy_frame' # <<>> => Len(phy_frame)' > 0
    BY <1>3, EmptySeq DEF LinkInv, LinkTypeOK, PhyTypeOK
  <1>5. \/ Len(phy_frame)' < 4 + PhyAddrBits
        \/ Len(phy_frame)' >= 4 + PhyAddrBits + 0
    BY <1>3
  <1>6. Draining(0)'
    BY <1>3, <1>4, <1>5 DEF Draining
  <1>7. InWait'
    BY <1>1, <1>6 DEF InWait, Draining, HeaderComplete, OperationOf, Doomed
  <1> QED
    BY <1>1, <1>2, <1>7
    DEF Rest, NoContention, InPreamble, InReadCommand, InReadBody, BetweenFrames,
        InWriteCommand, InWriteData

\* During the wait a torn frame runs out.
LEMMA WaitEdge ==
    ASSUME LinkInv, LinkInv', Aligned, Accepted', NEW level \in PinLevels,
           PostRstWaiting, PhyEdge(level)
    PROVE  Rest'
  <1> USE SizeFacts, FrameFacts
  <1>1. PICK edges \in Nat : edges = phy_wait_after_reset_count /\ edges <= PostRstWait
    BY DEF LinkInv, LinkTypeOK, MdioTypeOK, CountersInStep, PostRstWaiting
  <1>2. write_enet_mdio = 0 /\ phy_preamble_count = 0 /\ Draining(edges)
    BY <1>1 DEF Aligned, InWait, PostRstWaiting
  <1>3. level \in Bit /\ (phy_drives = 0 => level = 1)
    BY <1>2, PinFacts
  <1>4. Draining(edges + 1)'
    BY <1>1, <1>2, <1>3, DrainEdge
  <1>5. /\ write_enet_mdio' = 0 /\ phy_preamble_count' = 0
        /\ phy_wait_after_reset_count' = edges + 1
    BY <1>1, <1>2 DEF PostRstWaiting, wire
  <1>6. InWait'
    BY <1>4, <1>5 DEF InWait, Draining, HeaderComplete, OperationOf, Doomed
  <1>7. ASSUME edges = PostRstWait
        PROVE  Quiet'
    <2>1. PhyTypeOK' /\ PhyInStep' /\ Len(phy_frame)' \in Nat /\ Len(phy_shift)' \in Nat
          /\ Len(phy_frame)' <= CommandBits /\ Len(phy_shift)' <= DataBits + 1
      BY DEF LinkInv, LinkTypeOK, PhyTypeOK
    <2>2. CASE HeaderComplete' /\ OperationOf(phy_frame)' = PHY_READ
      <3>1. IF phy_drives' = 0 THEN edges + 1 <= RegAddrBits
            ELSE Len(phy_shift)' + edges + 1 <= RegAddrBits + DataBits + 2
        BY <1>1, <1>4, <2>1, <2>2 DEF Draining
      <3>2. phy_drives' # 0 /\ Len(phy_shift)' = 0
        BY <1>7, <2>1, <3>1
      <3>3. phy_drives' = 1 /\ phy_shift' # <<>>
        BY <2>1, <3>2 DEF PhyTypeOK, PhyInStep, Bit
      <3> QED
        BY <2>1, <3>2, <3>3, EmptySeq DEF PhyTypeOK
    <2>3. CASE HeaderComplete' /\ OperationOf(phy_frame)' = PHY_WRITE
      <3>1. edges + 1 <= RegAddrBits + Len(phy_shift)'
        BY <1>1, <1>4, <2>3 DEF Draining
      <3> QED
        BY <1>1, <1>7, <2>1, <3>1
    <2>4. CASE ~HeaderComplete'
      <3>1. phy_drives' = 0
        BY <2>1, <2>4 DEF PhyTypeOK, PhyInStep, Bit
      <3>2. ASSUME phy_frame' # <<>>
            PROVE  FALSE
        <4>1. Len(phy_frame)' > edges + 1
          BY <1>1, <1>4, <2>4, <3>2 DEF Draining
        <4> QED
          BY <1>1, <1>7, <2>1, <2>4, <4>1 DEF HeaderComplete
      <3> QED
        BY <3>1, <3>2 DEF Quiet
    <2> QED
      BY <2>2, <2>3, <2>4 DEF Accepted
  <1>8. \/ current_state' \in {"RESET_s", "POST_RST_WAIT_s"}
        \/ current_state' = "PHY_PREAMBLE_s" /\ Quiet'
    BY <1>1, <1>7 DEF PostRstWaiting, PostRstWaited, Goto
  <1> QED
    BY <1>5, <1>6, <1>8
    DEF Rest, NoContention, InPreamble, InReadCommand, InReadBody, BetweenFrames,
        InWriteCommand, InWriteData

\* The preamble is counted by the PHY as by the machine.
LEMMA PreambleEdge ==
    ASSUME LinkInv, LinkInv', Aligned, NEW level \in PinLevels, Preamble, PhyEdge(level)
    PROVE  Rest'
  <1> USE SizeFacts, FrameFacts
  <1> DEFINE count == phy_preamble_count
  <1>1. count \in 0 .. PreambleWrap - 1 /\ phy_ones \in 0 .. PreambleBits
        /\ enet_mdio \in Bit /\ write_enet_mdio \in Bit /\ enet_mdio_bit_count = 0
    BY DEF LinkInv, LinkTypeOK, MdioTypeOK, PhyTypeOK, CountersInStep, Preamble
  <1>2. /\ Quiet
        /\ count \in 1 .. PreambleBits =>
              write_enet_mdio = 1 /\ enet_mdio = 1 /\ phy_ones >= count - 1
        /\ write_enet_mdio = 1 /\ enet_mdio = 0 => phy_ones # PreambleBits
    BY DEF Aligned, InPreamble, Preamble
  <1>3. /\ level \in Bit
        /\ write_enet_mdio = 0 => level = 1
        /\ write_enet_mdio = 1 => level = enet_mdio
    BY <1>2, PinFacts DEF Quiet
  <1>4. level = 0 => phy_ones # PreambleBits
    BY <1>1, <1>2, <1>3 DEF Bit
  <1>5. /\ Quiet'
        /\ phy_ones' = IF level = 0 THEN 0
                       ELSE IF phy_ones < PreambleBits THEN phy_ones + 1 ELSE phy_ones
    BY <1>2, <1>3, <1>4, QuietEdge
  <1>6. /\ write_enet_mdio' = 1 /\ enet_mdio' = 1
        /\ enet_mdio_bit_count' = 0 /\ enet_mdio_wr_cmd_count' = 0
        /\ phy_preamble_count' = (count + 1) % PreambleWrap
    BY <1>1 DEF Preamble
  <1>7. \/ count + 1 < PreambleWrap /\ phy_preamble_count' = count + 1
        \/ count + 1 = PreambleWrap /\ phy_preamble_count' = 0
    BY <1>1, <1>6
  <1>8. CASE count = PreambleBits
    <2>1. level = 1 /\ phy_ones >= PreambleBits - 1
      BY <1>2, <1>3, <1>8
    <2>2. phy_ones' = PreambleBits
      BY <1>1, <1>5, <2>1
    <2>3. PastPreamble'
      BY <1>7, <1>8 DEF PastPreamble
    <2>4. current_state' \in {"RESET_s", "SEND_READ_CMD_s", "SEND_WRITE_CMD_s"}
      BY <1>8 DEF Preamble, PreambleDone, Goto
    <2> QED
      BY <1>5, <1>6, <2>2, <2>3, <2>4
      DEF Rest, NoContention, Quiet, InWait, InPreamble, InReadCommand, InReadBody,
          BetweenFrames, InWriteCommand, InWriteData
  <1>9. CASE count # PreambleBits
    <2>0. phy_ones' \in Nat
      BY DEF LinkInv, LinkTypeOK, PhyTypeOK
    <2>1. phy_preamble_count' \in 1 .. PreambleBits => phy_ones' >= phy_preamble_count' - 1
      <3>1. CASE count = 0
        <4>1. phy_preamble_count' = 0 \/ phy_preamble_count' = 1
          BY <1>7, <3>1
        <4>2. phy_ones' >= 1 - 1
          BY <2>0
        <4> QED
          BY <4>1, <4>2
      <3>2. CASE count \in 1 .. PreambleBits
        <4>1. level = 1 /\ phy_ones >= count - 1
          BY <1>2, <1>3, <3>2
        <4>2. phy_ones' = IF phy_ones < PreambleBits THEN phy_ones + 1 ELSE phy_ones
          BY <1>5, <4>1
        <4>3. phy_ones' >= count
          BY <1>1, <1>9, <3>2, <4>1, <4>2
        <4>4. phy_preamble_count' \in {0, count + 1}
          BY <1>7
        <4> QED
          BY <1>1, <4>3, <4>4
      <3>3. CASE count > PreambleBits
        BY <1>1, <1>7, <3>3
      <3> QED
        BY <1>1, <3>1, <3>2, <3>3
    <2>2. current_state' \in {"RESET_s", "PHY_PREAMBLE_s"}
      BY <1>9 DEF Preamble, PreambleDone, Goto
    <2> QED
      BY <1>5, <1>6, <2>1, <2>2
      DEF Rest, NoContention, Quiet, InWait, InPreamble, InReadCommand, InReadBody,
          BetweenFrames, InWriteCommand, InWriteData
  <1> QED
    BY <1>8, <1>9

\* A quiet PHY between two frames: the pull-up holds the pin.
LEMMA BetweenEdge ==
    ASSUME LinkInv, Aligned, NEW level \in PinLevels,
           StoreReadData \/ WaitForRamWrite \/ EnableLoopback, PhyEdge(level)
    PROVE  Rest'
  <1>1. Quiet /\ write_enet_mdio = 0
    BY DEF Aligned, BetweenFrames, StoreReadData, WaitForRamWrite, EnableLoopback
  <1>2. level \in Bit /\ level = 1
    BY <1>1, PinFacts
  <1>3. Quiet'
    BY <1>1, <1>2, QuietEdge
  <1>4. write_enet_mdio' = 0
    BY <1>1 DEF StoreReadData, WaitForRamWrite, EnableLoopback, wire
  <1>5. phy_preamble_count' = 0
    BY DEF Aligned, BetweenFrames, StoreReadData, WaitForRamWrite, EnableLoopback
  <1>6. current_state' \in {"RESET_s", "PHY_PREAMBLE_s", "WAIT_FOR_RAM_WRITE_s",
                           "ENABLE_LOOPBACK_s"}
    BY DEF StoreReadData, WaitForRamWrite, EnableLoopback, Goto
  <1> QED
    BY <1>3, <1>4, <1>5, <1>6
    DEF Rest, NoContention, Quiet, InWait, InPreamble, InReadCommand, InReadBody,
        BetweenFrames, InWriteCommand, InWriteData

\* The states that follow a header, and those of the body of a read.
LEMMA ReadBodyEdge ==
    ASSUME LinkInv, Aligned, NEW level \in PinLevels,
           Turnaround \/ Read(level), PhyEdge(level)
    PROVE  Rest'
  <1> USE SizeFacts
  <1>t. PhyInStep /\ enet_mdio_read_count \in 0 .. DataBits
    BY DEF LinkInv, LinkTypeOK, MdioTypeOK
  <1>w. write_enet_mdio' = 0
    BY DEF Turnaround, Read
  <1>1. CASE current_state = "TURNAROUND_z_s"
    <2>1. phy_drives' = 1 /\ Len(phy_shift)' = DataBits + 1
      BY <1>1, ReadBody DEF Aligned, InReadBody
    <2>2. current_state' \in {"RESET_s", "TURNAROUND_0_s"}
      BY <1>1 DEF Turnaround, Read, Goto
    <2> QED
      BY <1>w, <2>1, <2>2
      DEF Rest, NoContention, InWait, InPreamble, InReadCommand, InReadBody,
          BetweenFrames, InWriteCommand, InWriteData
  <1>2. CASE current_state = "TURNAROUND_0_s"
    <2>1. phy_drives = 1 /\ Len(phy_shift) = DataBits + 1
      BY <1>2 DEF Aligned, InReadBody
    <2>2. HeaderComplete /\ OperationOf(phy_frame) = PHY_READ
      BY <1>t, <2>1 DEF PhyInStep
    <2>3. phy_drives' = 1 /\ Len(phy_shift)' = DataBits
      BY <2>1, <2>2, ReadBody
    <2>4. enet_mdio_read_count' = 0
      BY <1>2 DEF LinkInv, CountersInStep, Turnaround, Read, counters
    <2>5. Len(phy_shift)' = DataBits - enet_mdio_read_count'
      BY <2>3, <2>4
    <2>6. current_state' \in {"RESET_s", "READ_s"}
      BY <1>2 DEF Turnaround, Read, Goto
    <2> QED
      BY <1>w, <2>3, <2>5, <2>6
      DEF Rest, NoContention, InWait, InPreamble, InReadCommand, InReadBody,
          BetweenFrames, InWriteCommand, InWriteData
  <1>3. CASE current_state = "READ_s"
    <2>1. phy_drives = 1 /\ Len(phy_shift) = DataBits - enet_mdio_read_count
      BY <1>3 DEF Aligned, InReadBody
    <2>2. HeaderComplete /\ OperationOf(phy_frame) = PHY_READ
      BY <1>t, <2>1 DEF PhyInStep
    <2>3. enet_mdio_read_count < DataBits
      BY <1>3 DEF LinkInv, CountersInStep
    <2>4. CASE WordRead
      <3>1. Len(phy_shift) = 1
        BY <1>t, <2>1, <2>4 DEF WordRead
      <3>2. Quiet'
        BY <2>1, <2>2, <3>1, ReadBody
      <3>3. current_state' \in {"RESET_s", "STORE_READ_DATA_s"}
        BY <1>3, <2>4 DEF Turnaround, Read, Goto
      <3> QED
        BY <1>w, <3>2, <3>3
        DEF Rest, NoContention, InWait, InPreamble, InReadCommand, InReadBody,
            BetweenFrames, InWriteCommand, InWriteData
    <2>5. CASE ~WordRead
      <3>1. Len(phy_shift) # 1
        BY <1>t, <2>1, <2>3, <2>5 DEF WordRead
      <3>2. phy_drives' = 1 /\ Len(phy_shift)' = Len(phy_shift) - 1
        BY <2>1, <2>2, <3>1, ReadBody
      <3>3. enet_mdio_read_count' = enet_mdio_read_count + 1
        BY <1>3 DEF Turnaround, Read
      <3>4. Len(phy_shift)' = DataBits - enet_mdio_read_count'
        BY <1>t, <2>1, <3>2, <3>3
      <3>5. current_state' \in {"RESET_s", "READ_s"}
        BY <1>3, <2>5 DEF Turnaround, Read, Goto
      <3> QED
        BY <1>w, <3>2, <3>4, <3>5
        DEF Rest, NoContention, InWait, InPreamble, InReadCommand, InReadBody,
            BetweenFrames, InWriteCommand, InWriteData
    <2> QED
      BY <2>4, <2>5
  <1> QED
    BY <1>1, <1>2, <1>3 DEF Turnaround, Read

\* One more bit of a command: the PHY is one behind the state machine.
\* count is the number of edges in the state before this one.
LEMMA CommandBit ==
    ASSUME LinkInv, NEW op \in {PHY_READ, PHY_WRITE}, NEW command, IsCommand(command, op),
           NEW width \in Nat, width >= CommandBits, command \in [1 .. width -> Bit],
           NEW count \in 0 .. CommandBits, phy_drives = 0,
           count = 0 => phy_frame = <<>> /\ phy_ones = PreambleBits /\ enet_mdio = 1,
           count = 1 => phy_ones = PreambleBits,
           count >= 1 => enet_mdio = command[count] /\ Prefix(command, count - 1),
           PhyEdge(enet_mdio)
    PROVE  /\ phy_drives' = 0
           /\ Prefix(command, count)'
           /\ count = 0 => phy_ones' = PreambleBits
           /\ count = 1 => phy_ones' = 0
           /\ count > 1 => phy_ones' = phy_ones
           /\ count = CommandBits => /\ HeaderComplete' /\ OperationOf(phy_frame)' = op
                                     /\ phy_shift' = <<>>
  <1> USE SizeFacts, FrameFacts
  <1>1. CASE count = 0
    <2>1. Quiet /\ enet_mdio \in Bit
      BY <1>1 DEF Quiet, Bit
    <2>2. Quiet' /\ phy_ones' = PreambleBits
      BY <1>1, <2>1, QuietEdge
    <2>3. Prefix(command, 0)'
      BY <2>2 DEF Quiet, Prefix
    <2> QED
      BY <1>1, <2>2, <2>3 DEF Quiet
  <1>2. CASE count = 1
    <2>1. Len(phy_frame) = 0 /\ phy_frame \in Seq(Bit)
      BY <1>2 DEF Prefix, LinkInv, LinkTypeOK, PhyTypeOK
    <2>2. phy_frame = <<>> /\ phy_ones = PreambleBits
      BY <1>2, <2>1, EmptySeq
    <2>3. enet_mdio = 0
      BY <1>2 DEF IsCommand
    <2>4. phy_frame' = << 0 >> /\ phy_ones' = 0 /\ phy_drives' = phy_drives
      BY <2>2, <2>3, StartBit
    <2>5. Prefix(command, 1)'
      BY <2>4 DEF Prefix, IsCommand
    <2> QED
      BY <1>2, <2>4, <2>5
  <1>3. CASE count > 1
    <2>1. PICK n \in 1 .. CommandBits - 1 : n = count - 1
      BY <1>3
    <2>2. n + 1 = count
      BY <2>1
    <2>3. enet_mdio = command[n + 1] /\ Prefix(command, n)
      BY <1>3, <2>1, <2>2
    <2>4. command[n + 1] \in Bit
      BY <2>2
    <2>5. PhyEdge(command[n + 1])
      BY <2>3
    <2>6. /\ Prefix(command, n + 1)'
          /\ phy_ones' = phy_ones /\ phy_shift' = <<>> /\ phy_drives' = 0
          /\ n + 1 = CommandBits => HeaderComplete' /\ OperationOf(phy_frame)' = op
      BY <2>3, <2>4, <2>5, HeaderBit
    <2> QED
      BY <1>3, <2>2, <2>6
  <1> QED
    BY <1>1, <1>2, <1>3

\* Each edge of SEND_READ_CMD_s puts one more bit of the command into the frame.
LEMMA ReadCommandEdge ==
    ASSUME LinkInv, LinkInv', Aligned, FirstBit, NEW level \in PinLevels,
           SendReadCmd, PhyEdge(level)
    PROVE  /\ Rest'
           /\ enet_mdio_bit_count = CommandBits =>
                 Prefix(ReadCommand(phy_registers_read), CommandBits)'
  <1> USE SizeFacts, FrameFacts
  <1>1. PICK count \in 0 .. CommandBits : count = enet_mdio_bit_count
    BY DEF LinkInv, LinkTypeOK, MdioTypeOK, CountersInStep, SendReadCmd
  <1>2. PICK r \in Nat : r = phy_registers_read
    BY DEF LinkInv, LinkTypeOK, MdioTypeOK
  <1>3. PICK command : command = ReadCommand(r)
    OBVIOUS
  <1>4. command \in [1 .. CommandBits -> Bit] /\ IsCommand(command, PHY_READ)
    BY <1>3, ReadCommandType, Commands
  <1>5. /\ write_enet_mdio = 1 /\ phy_drives = 0
        /\ count = 0 => phy_frame = <<>> /\ phy_ones = PreambleBits /\ enet_mdio = 1
        /\ count = 1 => phy_ones = PreambleBits
        /\ count >= 1 => /\ serial_rd_cmd_to_phy = command
                         /\ enet_mdio = command[count]
                         /\ Prefix(command, count - 1)
    BY <1>1, <1>2, <1>3 DEF Aligned, InReadCommand, SendReadCmd
  <1>6. level = enet_mdio
    BY <1>5, PinFacts
  <1>7. /\ phy_drives' = 0
        /\ Prefix(command, count)'
        /\ count = 0 => phy_ones' = PreambleBits
        /\ count = CommandBits => HeaderComplete' /\ OperationOf(phy_frame)' = PHY_READ
    BY <1>4, <1>5, <1>6, CommandBit
  <1>8. /\ write_enet_mdio' = 1
        /\ serial_rd_cmd_to_phy' = command
        /\ enet_mdio_bit_count' = count + 1
        /\ phy_registers_read' = r
    BY <1>1, <1>2, <1>3 DEF SendReadCmd
  <1>9. ASSUME count < CommandBits
        PROVE  enet_mdio' = command[count + 1]
    <2>1. enet_mdio' = serial_rd_cmd_to_phy[count + 1]
      BY <1>1, <1>9 DEF SendReadCmd, SelectedBit
    <2>2. CASE count = 0
      BY <1>4, <2>1, <2>2 DEF FirstBit, IsCommand
    <2>3. CASE count >= 1
      BY <1>5, <2>1, <2>3
    <2> QED
      BY <2>2, <2>3
  <1>10. CASE count = CommandBits
    <2>1. current_state' \in {"RESET_s", "TURNAROUND_z_s"}
      BY <1>1, <1>10 DEF SendReadCmd, ReadCommandDone, Goto
    <2>2. Rest'
      BY <1>7, <1>10, <2>1
      DEF Rest, NoContention, InWait, InPreamble, InReadCommand, InReadBody,
          BetweenFrames, InWriteCommand, InWriteData
    <2>3. ReadCommand(phy_registers_read)' = command
      BY <1>3, <1>8 DEF ReadCommand
    <2>4. Prefix(ReadCommand(phy_registers_read), CommandBits)'
      BY <1>7, <1>10, <2>3 DEF Prefix
    <2> QED
      BY <2>2, <2>4
  <1>11. CASE count < CommandBits
    <2>1. current_state' \in {"RESET_s", "SEND_READ_CMD_s"}
      BY <1>1, <1>11 DEF SendReadCmd, ReadCommandDone, Goto
    <2>2. enet_mdio_bit_count' # 0 /\ enet_mdio_bit_count' - 1 = count
      BY <1>8
    <2>3. enet_mdio_bit_count' = 1 => phy_ones' = PreambleBits
      BY <1>7, <1>8
    <2>4. ReadCommand(phy_registers_read)' = command
      BY <1>3, <1>8 DEF ReadCommand
    <2>5. enet_mdio' = ReadCommand(phy_registers_read)'[enet_mdio_bit_count']
      BY <1>8, <1>9, <1>11, <2>4
    <2>6. Prefix(ReadCommand(phy_registers_read), enet_mdio_bit_count - 1)'
      BY <1>7, <2>2, <2>4 DEF Prefix
    <2>7. InReadCommand'
      BY <1>7, <1>8, <2>2, <2>3, <2>4, <2>5, <2>6 DEF InReadCommand
    <2> QED
      BY <1>1, <1>7, <1>11, <2>1, <2>7
      DEF Rest, NoContention, InWait, InPreamble, InReadBody, BetweenFrames,
          InWriteCommand, InWriteData
  <1> QED
    BY <1>10, <1>11

\* The same of SEND_WRITE_CMD_s, through the turnaround.
LEMMA WriteCommandEdge ==
    ASSUME LinkInv, LinkInv', Aligned, NEW level \in PinLevels, SendWriteCmd, PhyEdge(level)
    PROVE  /\ Rest'
           /\ enet_mdio_wr_cmd_count = CommandBits => Prefix(WriteCommand, CommandBits)'
  <1> USE SizeFacts, FrameFacts
  <1>1. PICK count \in 0 .. CommandBits + 2 : count = enet_mdio_wr_cmd_count
    BY DEF LinkInv, LinkTypeOK, MdioTypeOK, CountersInStep, SendWriteCmd
  <1>2. WriteCommand \in [1 .. CommandBits + 2 -> Bit] /\ IsCommand(WriteCommand, PHY_WRITE)
    BY WriteCommandType, Commands
  <1>3. /\ PastPreamble /\ write_enet_mdio = 1 /\ phy_drives = 0
        /\ count = 0 => phy_frame = <<>> /\ phy_ones = PreambleBits /\ enet_mdio = 1
        /\ count = 1 => phy_ones = PreambleBits
        /\ count > 1 => phy_ones = 0
        /\ count \in 1 .. CommandBits + 1 =>
              enet_mdio = WriteCommand[count] /\ Prefix(WriteCommand, count - 1)
        /\ count > CommandBits =>
              /\ HeaderComplete /\ OperationOf(phy_frame) = PHY_WRITE
              /\ Len(phy_shift) = count - CommandBits - 1
    BY <1>1 DEF Aligned, InWriteCommand, SendWriteCmd
  <1>4. level = enet_mdio /\ level \in Bit
    BY <1>3, PinFacts
  <1>5. /\ write_enet_mdio' = 1
        /\ enet_mdio_wr_cmd_count' = count + 1
        /\ phy_preamble_count' = phy_preamble_count
        /\ enet_mdio_write_count' = 0
    BY <1>1 DEF SendWriteCmd, LinkInv, CountersInStep
  <1>6. PastPreamble'
    BY <1>3, <1>5 DEF PastPreamble
  <1>7. CASE count <= CommandBits
    <2>1. count \in 0 .. CommandBits
          /\ (count >= 1 => enet_mdio = WriteCommand[count]
                            /\ Prefix(WriteCommand, count - 1))
      BY <1>3, <1>7
    <2>2. /\ phy_drives' = 0
          /\ Prefix(WriteCommand, count)'
          /\ count = 0 => phy_ones' = PreambleBits
          /\ count = 1 => phy_ones' = 0
          /\ count > 1 => phy_ones' = phy_ones
          /\ count = CommandBits => /\ HeaderComplete' /\ OperationOf(phy_frame)' = PHY_WRITE
                                    /\ phy_shift' = <<>>
      BY <1>2, <1>3, <1>4, <2>1, CommandBit
    <2>3. enet_mdio' = WriteCommand[count + 1]
      BY <1>1, <1>7 DEF SendWriteCmd, SelectedBit
    <2>4. current_state' \in {"RESET_s", "SEND_WRITE_CMD_s"}
      BY <1>1, <1>7 DEF SendWriteCmd, WriteCommandDone, Goto
    <2>5. enet_mdio_wr_cmd_count' # 0 /\ enet_mdio_wr_cmd_count' - 1 = count
      BY <1>5
    <2>6. /\ enet_mdio_wr_cmd_count' = 1 => phy_ones' = PreambleBits
          /\ enet_mdio_wr_cmd_count' > 1 => phy_ones' = 0
      BY <1>3, <1>5, <2>2
    <2>7. Prefix(WriteCommand, enet_mdio_wr_cmd_count - 1)'
      BY <2>2, <2>5 DEF Prefix
    <2>8. enet_mdio_wr_cmd_count' > CommandBits =>
             /\ HeaderComplete' /\ OperationOf(phy_frame)' = PHY_WRITE
             /\ Len(phy_shift)' = enet_mdio_wr_cmd_count' - CommandBits - 1
      <3>1. enet_mdio_wr_cmd_count' > CommandBits =>
              count = CommandBits /\ enet_mdio_wr_cmd_count' - CommandBits - 1 = 0
        BY <1>5, <1>7
      <3> QED
        BY <2>2, <3>1
    <2>9. InWriteCommand'
      BY <1>5, <1>6, <2>2, <2>3, <2>5, <2>6, <2>7, <2>8 DEF InWriteCommand
    <2>10. Rest'
      BY <2>2, <2>4, <2>9
      DEF Rest, NoContention, InWait, InPreamble, InReadCommand, InReadBody,
          BetweenFrames, InWriteData
    <2> QED
      BY <1>1, <2>2, <2>10
  <1>8. CASE count > CommandBits
    <2>1. /\ HeaderComplete /\ OperationOf(phy_frame) = PHY_WRITE
          /\ Len(phy_shift) = count - CommandBits - 1 /\ Len(phy_shift) < DataBits + 1
      BY <1>3, <1>8
    <2>2. /\ phy_ones' = 0 /\ phy_drives' = 0
          /\ phy_frame' = phy_frame /\ Len(phy_shift)' = count - CommandBits
      BY <1>3, <1>4, <1>8, <2>1, WriteBody
    <2>3. HeaderComplete' /\ OperationOf(phy_frame)' = PHY_WRITE
      BY <2>1, <2>2 DEF HeaderComplete, OperationOf
    <2>4. CASE count = CommandBits + 1
      <3>1. current_state' \in {"RESET_s", "SEND_WRITE_CMD_s"}
        BY <1>1, <2>4 DEF SendWriteCmd, WriteCommandDone, Goto
      <3>2. enet_mdio_wr_cmd_count' = CommandBits + 2
        BY <1>5, <2>4
      <3>3. Len(phy_shift)' = enet_mdio_wr_cmd_count' - CommandBits - 1
        BY <2>2, <2>4, <3>2
      <3>4. /\ enet_mdio_wr_cmd_count' # 0 /\ enet_mdio_wr_cmd_count' # 1
            /\ enet_mdio_wr_cmd_count' \notin 1 .. CommandBits + 1
        BY <3>2
      <3>5. InWriteCommand'
        BY <1>5, <1>6, <2>2, <2>3, <3>3, <3>4 DEF InWriteCommand
      <3> QED
        BY <1>1, <1>8, <2>2, <3>1, <3>5
        DEF Rest, NoContention, InWait, InPreamble, InReadCommand, InReadBody,
            BetweenFrames, InWriteData
    <2>5. CASE count = CommandBits + 2
      <3>1. current_state' \in {"RESET_s", "SEND_WRITE_DATA_s"}
        BY <1>1, <2>5 DEF SendWriteCmd, WriteCommandDone, Goto
      <3>2. Len(phy_shift)' = enet_mdio_write_count' + 2
        BY <1>5, <2>2, <2>5
      <3>3. InWriteData'
        BY <1>5, <1>6, <2>2, <2>3, <3>2 DEF InWriteData
      <3> QED
        BY <1>1, <1>8, <2>2, <3>1, <3>3
        DEF Rest, NoContention, InWait, InPreamble, InReadCommand, InReadBody,
            BetweenFrames, InWriteCommand
    <2> QED
      BY <1>8, <2>4, <2>5
  <1> QED
    BY <1>7, <1>8

\* The word follows, one bit on an edge, and the preamble follows the word.
LEMMA WriteDataEdge ==
    ASSUME LinkInv, Aligned, NEW level \in PinLevels, SendWriteData, PhyEdge(level)
    PROVE  Rest'
  <1> USE SizeFacts, FrameFacts
  <1>1. PICK count \in 0 .. DataBits - 1 : count = enet_mdio_write_count
    BY DEF LinkInv, LinkTypeOK, MdioTypeOK, CountersInStep, SendWriteData
  <1>2. /\ PastPreamble /\ write_enet_mdio = 1 /\ phy_drives = 0 /\ phy_ones = 0
        /\ HeaderComplete /\ OperationOf(phy_frame) = PHY_WRITE
        /\ Len(phy_shift) = count + 2
    BY <1>1 DEF Aligned, InWriteData, SendWriteData
  <1>3. level \in Bit
    BY PinFacts
  <1>4. /\ write_enet_mdio' = 1
        /\ enet_mdio_write_count' = count + 1
        /\ phy_preamble_count' = phy_preamble_count
    BY <1>1 DEF SendWriteData
  <1>5. PastPreamble'
    BY <1>2, <1>4 DEF PastPreamble
  <1>6. phy_ones' = 0 /\ phy_drives' = 0
    BY <1>2, <1>3, WriteBody
  <1>7. CASE count = DataBits - 1
    <2>1. Len(phy_shift) >= DataBits + 1
      BY <1>2, <1>7
    <2>2. Quiet'
      BY <1>2, <1>3, <2>1, WriteBody
    <2>3. current_state' \in {"RESET_s", "PHY_PREAMBLE_s"}
      BY <1>1, <1>7 DEF SendWriteData, WordWritten, Goto
    <2>4. phy_ones' # PreambleBits
      BY <1>6
    <2> QED
      BY <1>5, <1>6, <2>2, <2>3, <2>4
      DEF Rest, NoContention, PastPreamble, InWait, InPreamble, InReadCommand,
          InReadBody, BetweenFrames, InWriteCommand, InWriteData
  <1>8. CASE count < DataBits - 1
    <2>1. Len(phy_shift) < DataBits + 1
      BY <1>2, <1>8
    <2>2. phy_frame' = phy_frame /\ Len(phy_shift)' = Len(phy_shift) + 1
      BY <1>2, <1>3, <2>1, WriteBody
    <2>3. HeaderComplete' /\ OperationOf(phy_frame)' = PHY_WRITE
      BY <1>2, <2>2 DEF HeaderComplete, OperationOf
    <2>4. Len(phy_shift)' = enet_mdio_write_count' + 2
      BY <1>2, <1>4, <2>2
    <2>5. current_state' \in {"RESET_s", "SEND_WRITE_DATA_s"}
      BY <1>1, <1>8 DEF SendWriteData, WordWritten, Goto
    <2>6. InWriteData'
      BY <1>4, <1>5, <1>6, <2>3, <2>4 DEF InWriteData
    <2> QED
      BY <1>6, <2>5, <2>6
      DEF Rest, NoContention, InWait, InPreamble, InReadCommand, InReadBody,
          BetweenFrames, InWriteCommand
  <1> QED
    BY <1>7, <1>8

-----------------------------------------------------------------------------
(* The two ends stay in step. *)

\* The two ends are aligned at power-up.
LEMMA AlignedInit ==
    ASSUME LinkInit
    PROVE  Aligned
  <1> USE SizeFacts, FrameFacts
  <1>1. serial_rd_cmd_to_phy[1] = 0
    BY DEF LinkInit, MdioInit
  <1>2. Accepted /\ NoContention
    BY DEF LinkInit, PhyInit, Accepted, HeaderComplete, NoContention
  <1>3. current_state = "RESET_s"
    BY DEF LinkInit, MdioInit
  <1> QED
    BY <1>1, <1>2, <1>3
    DEF Aligned, InWait, InPreamble, InReadCommand, InReadBody, BetweenFrames,
        InWriteCommand, InWriteData

\* Every edge of enet_mdc_clk keeps them aligned, whichever state it finds.
LEMMA AlignedTick ==
    ASSUME LinkInv, LinkInv', Aligned, MdcTick
    PROVE  Aligned'
  <1>1. PICK level \in PinLevels : MdcEdge(level) /\ PhyEdge(level)
    BY DEF MdcTick
  <1>2. level \in Bit
    BY PinFacts
  <1>3. Accepted'
    BY <1>1, <1>2, AcceptedEdge DEF Aligned
  <1>4. FirstBit /\ FirstBit'
    BY <1>1, FirstBitEdge DEF Aligned, FirstBit
  <1>5. Rest'
    <2>1. CASE Reset
      BY <2>1, ResetEdge
    <2>2. CASE PostRstWaiting
      BY <1>1, <1>3, <2>2, WaitEdge
    <2>3. CASE Preamble
      BY <1>1, <2>3, PreambleEdge
    <2>4. CASE SendReadCmd
      BY <1>1, <1>4, <2>4, ReadCommandEdge
    <2>5. CASE Turnaround \/ Read(level)
      BY <1>1, <2>5, ReadBodyEdge
    <2>6. CASE StoreReadData \/ WaitForRamWrite \/ EnableLoopback
      BY <1>1, <2>6, BetweenEdge
    <2>7. CASE SendWriteCmd
      BY <1>1, <2>7, WriteCommandEdge
    <2>8. CASE SendWriteData
      BY <1>1, <2>8, WriteDataEdge
    <2> QED
      BY <1>1, <2>1, <2>2, <2>3, <2>4, <2>5, <2>6, <2>7, <2>8 DEF MdcEdge
  <1> QED
    BY <1>3, <1>4, <1>5 DEF Aligned, Rest, FirstBit

\* So does every step of the link.
LEMMA AlignedStep ==
    ASSUME LinkInv, LinkInv', Aligned, [LinkNext]_linkVars
    PROVE  Aligned'
  <1>1. CASE MdcTick
    BY <1>1, AlignedTick
  <1>2. CASE UNCHANGED <<mdioVars, phyVars>>
    <2>1. Accepted' /\ NoContention' /\ FirstBit' = FirstBit
      BY <1>2 DEF Aligned, Accepted, HeaderComplete, OperationOf, NoContention, FirstBit,
                  mdioVars, phyVars, wire
    <2>2. InWait' /\ InPreamble'
      BY <1>2 DEF Aligned, InWait, InPreamble, Draining, HeaderComplete, OperationOf,
                  Doomed, Quiet, mdioVars, phyVars, wire
    <2>3. InReadCommand'
      BY <1>2 DEF Aligned, InReadCommand, Prefix, mdioVars, phyVars, wire, counters
    <2>4. InReadBody' /\ BetweenFrames' /\ InWriteData'
      BY <1>2 DEF Aligned, InReadBody, BetweenFrames, InWriteData, HeaderComplete,
                  OperationOf, Quiet, PastPreamble, mdioVars, phyVars, wire, counters
    <2>5. InWriteCommand'
      BY <1>2 DEF Aligned, InWriteCommand, Prefix, HeaderComplete, OperationOf,
                  PastPreamble, mdioVars, phyVars, wire, counters
    <2> QED
      BY <2>1, <2>2, <2>3, <2>4, <2>5 DEF Aligned, FirstBit
  <1>3. MdcTick \/ UNCHANGED <<mdioVars, phyVars>>
    BY DEF LinkNext, Press, Release, RamAnswers, RamWithdraws, RxSeesButton, linkVars
  <1> QED
    BY <1>1, <1>2, <1>3

\* What the two ends agree on in a frame keeps them from driving the pin together,
\* and has the PHY waiting for a frame when one starts.
LEMMA AlignedImpliesBusInStep ==
    ASSUME LinkInv, Aligned
    PROVE  BusInStep
  <1>1. CASE current_state = "SEND_READ_CMD_s" /\ enet_mdio_bit_count = 1
    <2>1. phy_ones = PreambleBits /\ Len(phy_frame) = 0
      BY <1>1 DEF Aligned, InReadCommand, Prefix
    <2>2. phy_frame = <<>>
      BY <2>1, EmptySeq DEF LinkInv, LinkTypeOK, PhyTypeOK
    <2> QED
      BY <2>1, <2>2 DEF BusInStep, FrameStartsInStep, Aligned
  <1>2. CASE current_state = "SEND_WRITE_CMD_s" /\ enet_mdio_wr_cmd_count = 1
    <2>1. 1 \in 1 .. CommandBits + 1
      BY SizeFacts
    <2>2. phy_ones = PreambleBits /\ Len(phy_frame) = 0
      BY <1>2, <2>1 DEF Aligned, InWriteCommand, Prefix
    <2>3. phy_frame = <<>>
      BY <2>2, EmptySeq DEF LinkInv, LinkTypeOK, PhyTypeOK
    <2> QED
      BY <2>2, <2>3 DEF BusInStep, FrameStartsInStep, Aligned
  <1> QED
    BY <1>1, <1>2 DEF BusInStep, FrameStartsInStep, Aligned

\* The two ends are aligned in every state.
LEMMA AlignedInvariance == LinkSpec => []Aligned
  <1>1. LinkInit => Aligned
    BY AlignedInit
  <1>2. LinkInv /\ LinkInv' /\ Aligned /\ [LinkNext]_linkVars => Aligned'
    BY AlignedStep
  <1> QED
    BY <1>1, <1>2, LinkInvariance, PTL DEF LinkSpec

\* The state machine and the PHY never drive ENET_MDIO together, and each frame
\* finds the PHY at the end of a full preamble, whatever frame an earlier press of
\* the button cut short: the preamble, the turnaround and the wait after a reset
\* (altera_max_10.v:344-376 and :448-488) are long enough for any widths and any preamble.
THEOREM BusAlignment == LinkSpec => []BusInStep
  <1>1. LinkInv /\ Aligned => BusInStep
    BY AlignedImpliesBusInStep
  <1> QED
    BY <1>1, LinkInvariance, AlignedInvariance, PTL

-----------------------------------------------------------------------------
(* What the frames carry. *)

\* Register r of the PHY, as the read frame for it addresses it.
Source(r) == phy_space[AddressOf(r)]

\* The header the PHY holds is the command that was sent.
HeaderKept ==
    /\ current_state \in {"TURNAROUND_z_s", "TURNAROUND_0_s", "READ_s"} =>
          Prefix(ReadCommand(phy_registers_read), CommandBits)
    /\ current_state = "SEND_WRITE_CMD_s" /\ enet_mdio_wr_cmd_count > CommandBits =>
          Prefix(WriteCommand, CommandBits)
    /\ current_state = "SEND_WRITE_DATA_s" => Prefix(WriteCommand, CommandBits)

\* The bits of the register that is being read are on their way, in order.
WordKept ==
    /\ current_state = "TURNAROUND_0_s" =>
          \A i \in 1 .. DataBits : phy_shift[i + 1] = Source(phy_registers_read)[i]
    /\ current_state = "READ_s" =>
          /\ \A i \in 1 .. DataBits - enet_mdio_read_count :
                phy_shift[i] = Source(phy_registers_read)[enet_mdio_read_count + i]
          /\ \A i \in 1 .. enet_mdio_read_count :
                bits_read_from_phy[DataBits - enet_mdio_read_count + i]
                   = Source(phy_registers_read)[i]
    /\ current_state = "STORE_READ_DATA_s" => bits_read_from_phy = Source(phy_registers_read)

\* The bits of the loopback word follow the turnaround, one place late.
LoopbackKept ==
    current_state = "SEND_WRITE_DATA_s" =>
        /\ enet_mdio_write_count >= 1 => enet_mdio = REG0_LOOPBACK[enet_mdio_write_count]
        /\ \A i \in 2 .. enet_mdio_write_count : phy_shift[i + 2] = REG0_LOOPBACK[i - 1]

\* The registers read so far, and all of them once the RAM writer is asked.
SnapshotKept ==
    /\ current_state \notin {"RESET_s", "POST_RST_WAIT_s"} =>
          \A r \in RegIndex : r < phy_registers_read => phy_reg[r] = Source(r)
    /\ current_state \in {"WAIT_FOR_RAM_WRITE_s", "ENABLE_LOOPBACK_s"} =>
          \A r \in RegIndex : phy_reg[r] = Source(r)
    /\ current_state \in {"POST_RST_WAIT_s", "ENABLE_LOOPBACK_s", "SEND_WRITE_CMD_s",
                         "SEND_WRITE_DATA_s"} => phy_registers_read = 0
    /\ set_reg0_to_loopback = 1 /\ current_state # "RESET_s" =>
          /\ current_state \in {"PHY_PREAMBLE_s", "SEND_WRITE_CMD_s", "SEND_WRITE_DATA_s"}
          /\ phy_registers_read = 0
    /\ SnapshotExact

\* Once register 0 is written it stays in loopback; traffic waits for that.
FlagsKept ==
    /\ current_state = "POST_RST_WAIT_s" => reg0_in_loopback = 0
    /\ reg0_in_loopback = 1
       /\ current_state \notin {"RESET_s", "POST_RST_WAIT_s", "SEND_WRITE_DATA_s"} =>
          Source(0) \in LoopbackWords
    /\ start_loopback_traffic = 1 =>
          /\ current_state \in {"RESET_s", "WAIT_FOR_RAM_WRITE_s"}
          /\ write_phy_reg_space_to_ram = 1 /\ reg0_in_loopback = 1
          /\ Source(0) \in LoopbackWords

Carried ==
    /\ HeaderKept
    /\ WordKept
    /\ LoopbackKept
    /\ SnapshotKept
    /\ FlagsKept

\* The register address in the two commands.
LEMMA CommandRegister ==
    ASSUME NEW i \in 1 .. RegAddrBits
    PROVE  /\ \A r : ReadCommand(r)[4 + PhyAddrBits + i] = AddressOf(r)[i]
           /\ WriteCommand[4 + PhyAddrBits + i] = AddressOf(0)[i]
  <1> USE SizeFacts, FrameFacts
  <1>a. PHY_ADDR \in Seq(Bit) /\ Len(PHY_ADDR) = PhyAddrBits
    BY PhyAddrType
  <1>p. /\ PHY_READ \in Seq(Bit) /\ Len(PHY_READ) = 4
        /\ PHY_WRITE \in Seq(Bit) /\ Len(PHY_WRITE) = 4
    BY DEF PHY_READ, PHY_WRITE, Bit
  <1>b. \A r : AddressOf(r) \in Seq(Bit) /\ Len(AddressOf(r)) = RegAddrBits
    BY BitsType DEF AddressOf
  <1>1. ASSUME NEW op \in Seq(Bit), Len(op) = 4, NEW r
        PROVE  /\ op \o PHY_ADDR \o AddressOf(r) \in Seq(Bit)
               /\ Len(op \o PHY_ADDR \o AddressOf(r)) = CommandBits
               /\ (op \o PHY_ADDR \o AddressOf(r))[4 + PhyAddrBits + i] = AddressOf(r)[i]
    <2> DEFINE head == op \o PHY_ADDR
    <2>1. head \in Seq(Bit) /\ Len(head) = 4 + PhyAddrBits
      BY <1>1, <1>a, JoinType
    <2> HIDE DEF head
    <2>2. head \o AddressOf(r) \in Seq(Bit) /\ Len(head \o AddressOf(r)) = CommandBits
      BY <1>b, <2>1, JoinType
    <2>3. \A k \in 1 .. Len(AddressOf(r)) :
             (head \o AddressOf(r))[Len(head) + k] = AddressOf(r)[k]
      BY <1>b, <2>1, JoinIndex
    <2>4. (head \o AddressOf(r))[4 + PhyAddrBits + i] = AddressOf(r)[i]
      BY <1>b, <2>1, <2>3
    <2> QED
      BY <2>2, <2>4 DEF head
  <1>2. \A r : ReadCommand(r)[4 + PhyAddrBits + i] = AddressOf(r)[i]
    BY <1>p, <1>1 DEF ReadCommand, AddressOf
  <1>3. WriteCommand[4 + PhyAddrBits + i] = AddressOf(0)[i]
    <2> DEFINE cmd == PHY_WRITE \o PHY_ADDR \o AddressOf(0)
    <2>1. /\ cmd \in Seq(Bit) /\ Len(cmd) = CommandBits
          /\ cmd[4 + PhyAddrBits + i] = AddressOf(0)[i]
      BY <1>p, <1>1
    <2>2. PHY_WR_TURNAROUND \in Seq(Bit)
      BY DEF PHY_WR_TURNAROUND, Bit
    <2>3. WriteCommand = cmd \o PHY_WR_TURNAROUND
      BY DEF WriteCommand, AddressOf
    <2> HIDE DEF cmd
    <2>4. \A k \in 1 .. CommandBits : WriteCommand[k] = cmd[k]
      BY <2>1, <2>2, <2>3, JoinIndex
    <2>5. 4 + PhyAddrBits + i \in 1 .. CommandBits
      OBVIOUS
    <2> QED
      BY <2>1, <2>4, <2>5
  <1> QED
    BY <1>2, <1>3

\* The register address of a complete header is the one that was sent.
LEMMA FrameRegisterIs ==
    /\ \A r : AddressOf(r) \in PhyAddress
    /\ \A r : Prefix(ReadCommand(r), CommandBits) => FrameRegister = AddressOf(r)
    /\ Prefix(WriteCommand, CommandBits) => FrameRegister = AddressOf(0)
  <1> USE SizeFacts, FrameFacts
  <1>1. \A r : AddressOf(r) \in [1 .. RegAddrBits -> Bit]
    BY BitsType DEF AddressOf
  <1>2. ASSUME NEW command, Prefix(command, CommandBits), NEW r,
               \A i \in 1 .. RegAddrBits : command[4 + PhyAddrBits + i] = AddressOf(r)[i]
        PROVE  FrameRegister = AddressOf(r)
    <2>1. ASSUME NEW i \in 1 .. RegAddrBits
          PROVE  phy_frame[4 + PhyAddrBits + i] = AddressOf(r)[i]
      <3>1. 4 + PhyAddrBits + i \in 1 .. CommandBits
        OBVIOUS
      <3> QED
        BY <1>2, <3>1 DEF Prefix
    <2>2. FrameRegister = [i \in 1 .. RegAddrBits |-> AddressOf(r)[i]]
      BY <2>1 DEF FrameRegister
    <2> QED
      BY <1>1, <2>2
  <1> QED
    BY <1>1, <1>2, CommandRegister DEF PhyAddress

\* The word the PHY answers with leaves it in order.
LEMMA ReadBodyData ==
    ASSUME LinkInv, HeaderComplete, OperationOf(phy_frame) = PHY_READ,
           NEW level, PhyEdge(level)
    PROVE  /\ phy_drives = 0 =>
                 \A i \in 1 .. DataBits : phy_shift'[i + 1] = phy_space[FrameRegister][i]
           /\ phy_drives = 1 /\ Len(phy_shift) # 1 =>
                 \A i \in 1 .. Len(phy_shift) - 1 : phy_shift'[i] = phy_shift[i + 1]
  <1> USE SizeFacts, FrameFacts
  <1>t. PhyTypeOK /\ PhyInStep
    BY DEF LinkInv, LinkTypeOK
  <1>1. phy_frame # <<>>
    BY DEF HeaderComplete
  <1>2. PhySend
    BY <1>1 DEF PhyEdge, PhyIdle, PhyHeader, PhyReceive
  <1>3. CASE phy_drives = 0
    <2>1. FrameRegister \in PhyAddress
      BY <1>t DEF HeaderComplete, FrameRegister, PhyAddress, PhyTypeOK, CommandBits
    <2>2. /\ phy_space[FrameRegister] \in Seq(Bit)
          /\ Len(phy_space[FrameRegister]) = DataBits
      BY <2>1, <1>t, VectorIsSeq DEF PhyTypeOK, Word
    <2>3. << 0 >> \in Seq(Bit) /\ Len(<< 0 >>) = 1
      BY DEF Bit
    <2>4. phy_shift' = << 0 >> \o phy_space[FrameRegister]
      BY <1>2, <1>3 DEF PhySend
    <2>5. \A i \in 1 .. DataBits :
             (<< 0 >> \o phy_space[FrameRegister])[1 + i] = phy_space[FrameRegister][i]
      BY <2>2, <2>3, JoinIndex
    <2>6. \A i \in 1 .. DataBits : phy_shift'[1 + i] = phy_space[FrameRegister][i]
      BY <2>4, <2>5
    <2>7. \A i \in 1 .. DataBits : 1 + i = i + 1
      OBVIOUS
    <2> QED
      BY <1>3, <2>6, <2>7
  <1>4. CASE phy_drives = 1 /\ Len(phy_shift) # 1
    <2>1. phy_shift \in Seq(Bit) /\ phy_shift # <<>>
      BY <1>t, <1>4 DEF PhyTypeOK, PhyInStep
    <2>2. \A i \in 1 .. Len(phy_shift) - 1 : Tail(phy_shift)[i] = phy_shift[i + 1]
      BY <2>1
    <2>3. phy_shift' = Tail(phy_shift)
      BY <1>2, <1>4 DEF PhySend
    <2> QED
      BY <1>4, <2>2, <2>3
  <1> QED
    BY <1>3, <1>4

\* The word of a write enters the PHY in order.
LEMMA WriteBodyData ==
    ASSUME LinkInv, HeaderComplete, OperationOf(phy_frame) = PHY_WRITE,
           NEW level \in Bit, PhyEdge(level)
    PROVE  /\ Len(phy_shift) < DataBits + 1 =>
                 /\ phy_shift'[Len(phy_shift) + 1] = level
                 /\ \A i \in 1 .. Len(phy_shift) : phy_shift'[i] = phy_shift[i]
           /\ Len(phy_shift) >= DataBits + 1 =>
                 phy_space' = [phy_space EXCEPT ![FrameRegister] =
                                 [i \in 1 .. DataBits |->
                                    IF i = DataBits THEN level ELSE phy_shift[i + 2]]]
  <1> USE SizeFacts, FrameFacts
  <1>1. phy_frame # <<>>
    BY DEF HeaderComplete
  <1>2. PhyReceive(level)
    BY <1>1 DEF PhyEdge, PhyIdle, PhyHeader, PhySend
  <1>3. phy_shift \in Seq(Bit) /\ Len(phy_shift) \in Nat
    BY DEF LinkInv, LinkTypeOK, PhyTypeOK
  <1>4. CASE Len(phy_shift) < DataBits + 1
    <2>1. phy_shift' = Append(phy_shift, level)
      BY <1>2, <1>4 DEF PhyReceive
    <2>2. /\ Append(phy_shift, level)[Len(phy_shift) + 1] = level
          /\ \A i \in 1 .. Len(phy_shift) : Append(phy_shift, level)[i] = phy_shift[i]
      BY <1>3
    <2> QED
      BY <1>3, <1>4, <2>1, <2>2
  <1>5. CASE Len(phy_shift) >= DataBits + 1
    BY <1>2, <1>3, <1>5 DEF PhyReceive
  <1> QED
    BY <1>3, <1>4, <1>5

\* The registers of the PHY change in no state but these three.
LEMMA SpaceStill ==
    ASSUME LinkInv, Aligned, NEW level, PhyEdge(level),
           current_state \notin {"RESET_s", "POST_RST_WAIT_s", "SEND_WRITE_DATA_s"}
    PROVE  UNCHANGED phy_space
  <1> USE SizeFacts, FrameFacts
  <1>t. PhyTypeOK /\ PhyInStep /\ CountersInStep /\ current_state \in MdioState
        /\ enet_mdio_bit_count \in Nat /\ enet_mdio_wr_cmd_count \in Nat
        /\ enet_mdio_read_count \in Nat
    BY DEF LinkInv, LinkTypeOK, MdioTypeOK
  <1>1. PhyReceive(level) \/ UNCHANGED phy_space
    BY DEF PhyEdge, PhyIdle, PhyHeader, PhySend
  <1>2. CASE current_state \in {"PHY_PREAMBLE_s", "STORE_READ_DATA_s",
                                "WAIT_FOR_RAM_WRITE_s", "ENABLE_LOOPBACK_s"}
    <2>1. phy_frame = <<>>
      BY <1>2 DEF Aligned, InPreamble, BetweenFrames, Quiet
    <2> QED
      BY <1>1, <2>1 DEF PhyReceive, HeaderComplete
  <1>3. CASE current_state = "SEND_READ_CMD_s"
    <2>1. phy_frame = <<>> \/ Len(phy_frame) = enet_mdio_bit_count - 1
      BY <1>t, <1>3 DEF Aligned, InReadCommand, Prefix
    <2>2. enet_mdio_bit_count <= CommandBits
      BY <1>t, <1>3 DEF CountersInStep
    <2>3. Len(phy_frame) # CommandBits
      BY <1>t, <2>1, <2>2
    <2> QED
      BY <1>1, <2>3 DEF PhyReceive, HeaderComplete
  <1>4. CASE current_state \in {"TURNAROUND_z_s", "TURNAROUND_0_s", "READ_s"}
    <2>1. OperationOf(phy_frame) = PHY_READ
      BY <1>t, <1>4 DEF Aligned, InReadBody, PhyInStep
    <2> QED
      BY <1>1, <2>1 DEF PhyReceive
  <1>5. CASE current_state = "SEND_WRITE_CMD_s"
    <2>1. enet_mdio_wr_cmd_count <= CommandBits + 2
      BY <1>t, <1>5 DEF CountersInStep
    <2>2. CASE enet_mdio_wr_cmd_count > CommandBits
      <3>1. Len(phy_shift) = enet_mdio_wr_cmd_count - CommandBits - 1
        BY <1>5, <2>2 DEF Aligned, InWriteCommand
      <3>2. Len(phy_shift) < DataBits + 1
        BY <1>t, <2>1, <3>1
      <3> QED
        BY <1>1, <3>2 DEF PhyReceive
    <2>3. CASE enet_mdio_wr_cmd_count <= CommandBits
      <3>1. phy_frame = <<>> \/ Len(phy_frame) = enet_mdio_wr_cmd_count - 1
        BY <1>t, <1>5, <2>3 DEF Aligned, InWriteCommand, Prefix
      <3>2. Len(phy_frame) # CommandBits
        BY <1>t, <2>3, <3>1
      <3> QED
        BY <1>1, <3>2 DEF PhyReceive, HeaderComplete
    <2> QED
      BY <1>t, <2>2, <2>3
  <1> QED
    BY <1>t, <1>2, <1>3, <1>4, <1>5 DEF MdioState

\* Between header and last bit the frame stays open.
LEMMA ReadFrameKept ==
    ASSUME LinkInv, Aligned, NEW level, PhyEdge(level),
           \/ current_state \in {"TURNAROUND_z_s", "TURNAROUND_0_s"}
           \/ current_state = "READ_s" /\ ~WordRead
    PROVE  phy_frame' = phy_frame
  <1> USE SizeFacts
  <1>t. PhyInStep /\ CountersInStep /\ enet_mdio_read_count \in 0 .. DataBits
    BY DEF LinkInv, LinkTypeOK, MdioTypeOK
  <1>1. CASE current_state = "TURNAROUND_z_s"
    BY <1>1, ReadBody DEF Aligned, InReadBody
  <1>2. CASE current_state \in {"TURNAROUND_0_s", "READ_s"}
    <2>1. phy_drives = 1 /\ Len(phy_shift) # 1
      <3>1. CASE current_state = "TURNAROUND_0_s"
        <4>1. phy_drives = 1 /\ Len(phy_shift) = DataBits + 1
          BY <3>1 DEF Aligned, InReadBody
        <4> QED
          BY <4>1
      <3>2. CASE current_state = "READ_s"
        <4>1. phy_drives = 1 /\ Len(phy_shift) = DataBits - enet_mdio_read_count
          BY <3>2 DEF Aligned, InReadBody
        <4>2. enet_mdio_read_count # DataBits - 1
          BY <3>2 DEF WordRead
        <4> QED
          BY <1>t, <4>1, <4>2
      <3> QED
        BY <1>2, <3>1, <3>2
    <2>2. HeaderComplete /\ OperationOf(phy_frame) = PHY_READ
      BY <1>t, <2>1 DEF PhyInStep
    <2> QED
      BY <2>1, <2>2, ReadBody
  <1> QED
    BY <1>1, <1>2

\* A complete header is the command, and stays it while the frame lasts.
LEMMA HeaderKeptEdge ==
    ASSUME LinkInv, LinkInv', Aligned, HeaderKept, FirstBit, NEW level \in PinLevels,
           MdcEdge(level), PhyEdge(level)
    PROVE  HeaderKept'
  <1> USE SizeFacts, FrameFacts
  <1>t. CountersInStep /\ enet_mdio_wr_cmd_count \in Nat /\ enet_mdio_write_count \in Nat
    BY DEF LinkInv, LinkTypeOK, MdioTypeOK
  <1>b. level \in Bit
    BY PinFacts
  <1>1. CASE SendReadCmd
    <2>1. current_state' = "TURNAROUND_z_s" => enet_mdio_bit_count = CommandBits
      BY <1>1 DEF SendReadCmd, ReadCommandDone, Goto
    <2>2. current_state' \in {"RESET_s", "SEND_READ_CMD_s", "TURNAROUND_z_s"}
      BY <1>1 DEF SendReadCmd, Goto
    <2> QED
      BY <1>1, <2>1, <2>2, ReadCommandEdge DEF HeaderKept
  <1>2. CASE Turnaround \/ Read(level)
    <2>1. Prefix(ReadCommand(phy_registers_read), CommandBits)
      BY <1>2 DEF HeaderKept, Turnaround, Read
    <2>2. CASE current_state = "READ_s" /\ WordRead
      <3>1. current_state' \in {"RESET_s", "STORE_READ_DATA_s"}
        BY <1>2, <2>2 DEF Turnaround, Read, Goto
      <3> QED
        BY <3>1 DEF HeaderKept
    <2>3. CASE ~(current_state = "READ_s" /\ WordRead)
      <3>1. phy_frame' = phy_frame
        BY <1>2, <2>3, ReadFrameKept DEF Turnaround, Read
      <3>2. phy_registers_read' = phy_registers_read
        BY <1>2 DEF Turnaround, Read
      <3>3. Prefix(ReadCommand(phy_registers_read), CommandBits)'
        BY <2>1, <3>1, <3>2 DEF Prefix, ReadCommand
      <3>4. current_state' \in {"RESET_s", "TURNAROUND_0_s", "READ_s", "STORE_READ_DATA_s"}
        BY <1>2 DEF Turnaround, Read, Goto
      <3> QED
        BY <3>3, <3>4 DEF HeaderKept
    <2> QED
      BY <2>2, <2>3
  <1>3. CASE SendWriteCmd
    <2>1. enet_mdio_wr_cmd_count' = enet_mdio_wr_cmd_count + 1
          /\ enet_mdio_wr_cmd_count <= CommandBits + 2
      BY <1>t, <1>3 DEF SendWriteCmd, CountersInStep
    <2>2. current_state' \in {"RESET_s", "SEND_WRITE_CMD_s", "SEND_WRITE_DATA_s"}
          /\ (current_state' = "SEND_WRITE_DATA_s" =>
                enet_mdio_wr_cmd_count = CommandBits + 2)
      BY <1>3 DEF SendWriteCmd, WriteCommandDone, Goto
    <2>3. CASE enet_mdio_wr_cmd_count < CommandBits
      <3>1. current_state' # "SEND_WRITE_DATA_s" /\ ~(enet_mdio_wr_cmd_count' > CommandBits)
        BY <1>t, <2>1, <2>2, <2>3
      <3> QED
        BY <2>2, <3>1 DEF HeaderKept
    <2>4. CASE enet_mdio_wr_cmd_count = CommandBits
      <3>1. Prefix(WriteCommand, CommandBits)'
        BY <1>3, <2>4, WriteCommandEdge
      <3> QED
        BY <2>2, <3>1 DEF HeaderKept
    <2>5. CASE enet_mdio_wr_cmd_count > CommandBits
      <3>1. /\ HeaderComplete /\ OperationOf(phy_frame) = PHY_WRITE
            /\ Len(phy_shift) = enet_mdio_wr_cmd_count - CommandBits - 1
            /\ Prefix(WriteCommand, CommandBits)
        BY <1>3, <2>5 DEF Aligned, InWriteCommand, HeaderKept, SendWriteCmd
      <3>2. Len(phy_shift) < DataBits + 1
        BY <1>t, <2>1, <3>1
      <3>3. phy_frame' = phy_frame
        BY <1>b, <3>1, <3>2, WriteBody
      <3>4. Prefix(WriteCommand, CommandBits)'
        BY <3>1, <3>3 DEF Prefix
      <3> QED
        BY <2>2, <3>4 DEF HeaderKept
    <2> QED
      BY <1>t, <2>3, <2>4, <2>5
  <1>4. CASE SendWriteData
    <2>1. /\ HeaderComplete /\ OperationOf(phy_frame) = PHY_WRITE
          /\ Len(phy_shift) = enet_mdio_write_count + 2
          /\ Prefix(WriteCommand, CommandBits) /\ enet_mdio_write_count < DataBits
      BY <1>t, <1>4 DEF Aligned, InWriteData, HeaderKept, SendWriteData, CountersInStep
    <2>2. CASE WordWritten
      <3>1. current_state' \in {"RESET_s", "PHY_PREAMBLE_s"}
        BY <1>4, <2>2 DEF SendWriteData, Goto
      <3> QED
        BY <3>1 DEF HeaderKept
    <2>3. CASE ~WordWritten
      <3>1. Len(phy_shift) < DataBits + 1
        BY <1>t, <2>1, <2>3 DEF WordWritten
      <3>2. phy_frame' = phy_frame
        BY <1>b, <2>1, <3>1, WriteBody
      <3>3. Prefix(WriteCommand, CommandBits)'
        BY <2>1, <3>2 DEF Prefix
      <3>4. current_state' \in {"RESET_s", "SEND_WRITE_DATA_s"}
        BY <1>4, <2>3 DEF SendWriteData, Goto
      <3> QED
        BY <3>3, <3>4 DEF HeaderKept
    <2> QED
      BY <2>2, <2>3
  <1>5. CASE Preamble
    <2>1. enet_mdio_wr_cmd_count' = 0
      BY <1>5 DEF Preamble
    <2>2. current_state' \in {"RESET_s", "PHY_PREAMBLE_s", "SEND_READ_CMD_s",
                             "SEND_WRITE_CMD_s"}
      BY <1>5 DEF Preamble, Goto
    <2> QED
      BY <2>1, <2>2 DEF HeaderKept
  <1>6. CASE Reset \/ PostRstWaiting \/ StoreReadData \/ WaitForRamWrite \/ EnableLoopback
    <2>1. current_state' \in {"RESET_s", "POST_RST_WAIT_s", "PHY_PREAMBLE_s",
                             "WAIT_FOR_RAM_WRITE_s", "ENABLE_LOOPBACK_s"}
      BY <1>6 DEF Reset, PostRstWaiting, StoreReadData, WaitForRamWrite, EnableLoopback, Goto
    <2> QED
      BY <2>1 DEF HeaderKept
  <1> QED
    BY <1>1, <1>2, <1>3, <1>4, <1>5, <1>6 DEF MdcEdge

\* The registers of the PHY are words.
LEMMA SourceType ==
    ASSUME LinkInv, NEW r
    PROVE  Source(r) \in [1 .. DataBits -> Bit]
  BY FrameRegisterIs DEF Source, LinkInv, LinkTypeOK, PhyTypeOK, Word

\* The bits of the register are read in order, none lost and none twice.
LEMMA WordKeptEdge ==
    ASSUME LinkInv, LinkInv', Aligned, HeaderKept, WordKept, NEW level \in PinLevels,
           MdcEdge(level), PhyEdge(level)
    PROVE  WordKept'
  <1> USE SizeFacts, FrameFacts
  <1>1. CASE Turnaround \/ Read(level)
    <2>1. PICK r : r = phy_registers_read
      OBVIOUS
    <2>2. PICK word \in [1 .. DataBits -> Bit] : word = Source(r)
      BY SourceType
    <2>3. phy_registers_read' = r
      BY <1>1, <2>1 DEF Turnaround, Read
    <2>4. Source(phy_registers_read)' = word
      <3>1. UNCHANGED phy_space
        BY <1>1, SpaceStill DEF Turnaround, Read
      <3> QED
        BY <2>2, <2>3, <3>1 DEF Source, AddressOf, Bits
    <2>5. FrameRegister = AddressOf(r)
      BY <1>1, <2>1, FrameRegisterIs DEF HeaderKept, Turnaround, Read
    <2>6. CASE current_state = "TURNAROUND_z_s"
      <3>1. \A i \in 1 .. DataBits : phy_shift'[i + 1] = word[i]
        BY <2>2, <2>5, <2>6, ReadBodyData DEF Aligned, InReadBody, Source
      <3>2. current_state' \in {"RESET_s", "TURNAROUND_0_s"}
        BY <1>1, <2>6 DEF Turnaround, Read, Goto
      <3> QED
        BY <2>4, <3>1, <3>2 DEF WordKept
    <2>7. CASE current_state = "TURNAROUND_0_s"
      <3>1. /\ phy_drives = 1 /\ Len(phy_shift) = DataBits + 1
            /\ \A i \in 1 .. DataBits : phy_shift[i + 1] = word[i]
        BY <2>1, <2>2, <2>7 DEF Aligned, InReadBody, WordKept
      <3>2. HeaderComplete /\ OperationOf(phy_frame) = PHY_READ
        BY <3>1 DEF LinkInv, PhyInStep
      <3>3. \A i \in 1 .. DataBits : phy_shift'[i] = word[i]
        <4>1. Len(phy_shift) # 1 /\ Len(phy_shift) - 1 = DataBits
          BY <3>1
        <4>2. \A i \in 1 .. DataBits : phy_shift'[i] = phy_shift[i + 1]
          BY <3>1, <3>2, <4>1, ReadBodyData
        <4> QED
          BY <3>1, <4>2
      <3>4. enet_mdio_read_count' = 0
        BY <1>1, <2>7 DEF LinkInv, CountersInStep, Turnaround, Read, counters
      <3>5. /\ \A i \in 1 .. DataBits - enet_mdio_read_count' :
                  phy_shift'[i] = word[enet_mdio_read_count' + i]
            /\ \A i \in 1 .. enet_mdio_read_count' :
                  bits_read_from_phy'[DataBits - enet_mdio_read_count' + i] = word[i]
        BY <3>3, <3>4
      <3>6. current_state' \in {"RESET_s", "READ_s"}
        BY <1>1, <2>7 DEF Turnaround, Read, Goto
      <3> QED
        BY <2>4, <3>5, <3>6 DEF WordKept
    <2>8. CASE current_state = "READ_s"
      <3>1. PICK j \in 0 .. DataBits - 1 : j = enet_mdio_read_count
        BY <2>8 DEF LinkInv, LinkTypeOK, MdioTypeOK, CountersInStep
      <3>2. /\ write_enet_mdio = 0 /\ phy_drives = 1 /\ Len(phy_shift) = DataBits - j
            /\ \A i \in 1 .. DataBits - j : phy_shift[i] = word[j + i]
            /\ \A i \in 1 .. j : bits_read_from_phy[DataBits - j + i] = word[i]
        BY <2>1, <2>2, <2>8, <3>1 DEF Aligned, InReadBody, WordKept
      <3>3. HeaderComplete /\ OperationOf(phy_frame) = PHY_READ
        BY <3>2 DEF LinkInv, PhyInStep
      <3>4. level = word[j + 1]
        <4>1. phy_shift \in Seq(Bit) /\ 1 \in 1 .. DataBits - j
          BY <3>1 DEF LinkInv, LinkTypeOK, PhyTypeOK
        <4>2. level = Head(phy_shift)
          BY <3>2 DEF PinLevels
        <4>3. Head(phy_shift) = phy_shift[1]
          BY <3>2, <4>1
        <4> QED
          BY <3>2, <4>1, <4>2, <4>3
      <3>5. /\ enet_mdio_read_count' = j + 1
            /\ bits_read_from_phy' = [i \in 1 .. DataBits |->
                  IF i = DataBits THEN level ELSE bits_read_from_phy[i + 1]]
        BY <1>1, <2>8, <3>1 DEF Turnaround, Read
      <3>6. ASSUME NEW i \in 1 .. j + 1
            PROVE  bits_read_from_phy'[DataBits - (j + 1) + i] = word[i]
        <4>1. DataBits - (j + 1) + i \in 1 .. DataBits
          BY <3>1
        <4>2. CASE i = j + 1
          BY <3>4, <3>5, <4>1, <4>2
        <4>3. CASE i <= j
          <5>1. /\ DataBits - (j + 1) + i # DataBits
                /\ DataBits - (j + 1) + i + 1 = DataBits - j + i
            BY <4>3
          <5>2. bits_read_from_phy'[DataBits - (j + 1) + i]
                   = bits_read_from_phy[DataBits - j + i]
            BY <3>5, <4>1, <5>1
          <5> QED
            BY <3>2, <4>3, <5>2
        <4> QED
          BY <4>2, <4>3
      <3>7. CASE j = DataBits - 1
        <4>1. current_state' \in {"RESET_s", "STORE_READ_DATA_s"}
          BY <1>1, <2>8, <3>1, <3>7 DEF Turnaround, Read, WordRead, Goto
        <4>2. \A i \in 1 .. DataBits : DataBits - (j + 1) + i = i /\ i \in 1 .. j + 1
          BY <3>7
        <4>3. \A i \in 1 .. DataBits : bits_read_from_phy'[i] = word[i]
          BY <3>6, <4>2
        <4>4. bits_read_from_phy' \in [1 .. DataBits -> Bit]
          BY DEF LinkInv, LinkTypeOK, MdioTypeOK, Word
        <4>5. bits_read_from_phy' = word
          BY <4>3, <4>4
        <4> QED
          BY <2>4, <4>1, <4>5 DEF WordKept
      <3>8. CASE j < DataBits - 1
        <4>1. current_state' \in {"RESET_s", "READ_s"}
          BY <1>1, <2>8, <3>1, <3>8 DEF Turnaround, Read, WordRead, Goto
        <4>2. Len(phy_shift) # 1
          BY <3>2, <3>8
        <4>3. \A i \in 1 .. Len(phy_shift) - 1 : phy_shift'[i] = phy_shift[i + 1]
          BY <3>2, <3>3, <4>2, ReadBodyData
        <4>4. ASSUME NEW i \in 1 .. DataBits - (j + 1)
              PROVE  phy_shift'[i] = word[j + 1 + i]
          <5>1. i \in 1 .. Len(phy_shift) - 1 /\ i + 1 \in 1 .. DataBits - j
            BY <3>2
          <5>2. phy_shift'[i] = phy_shift[i + 1]
            BY <4>3, <5>1
          <5>3. phy_shift[i + 1] = word[j + (i + 1)] /\ j + (i + 1) = j + 1 + i
            BY <3>2, <5>1
          <5> QED
            BY <5>2, <5>3
        <4>5. /\ \A i \in 1 .. DataBits - enet_mdio_read_count' :
                    phy_shift'[i] = word[enet_mdio_read_count' + i]
              /\ \A i \in 1 .. enet_mdio_read_count' :
                    bits_read_from_phy'[DataBits - enet_mdio_read_count' + i] = word[i]
          BY <3>5, <3>6, <4>4
        <4> QED
          BY <2>4, <4>1, <4>5 DEF WordKept
      <3> QED
        BY <3>7, <3>8
    <2> QED
      BY <1>1, <2>6, <2>7, <2>8 DEF Turnaround, Read
  <1>2. CASE ~(Turnaround \/ Read(level))
    <2>1. current_state' \notin {"TURNAROUND_0_s", "READ_s", "STORE_READ_DATA_s"}
      BY <1>2 DEF MdcEdge, Reset, PostRstWaiting, Preamble, SendReadCmd, StoreReadData,
                  WaitForRamWrite, EnableLoopback, SendWriteCmd, SendWriteData, Goto
    <2> QED
      BY <2>1 DEF WordKept
  <1> QED
    BY <1>1, <1>2

\* The bits of the loopback word follow each other, one place late.
LEMMA LoopbackKeptEdge ==
    ASSUME LinkInv, LinkInv', Aligned, LoopbackKept, NEW level \in PinLevels,
           MdcEdge(level), PhyEdge(level)
    PROVE  LoopbackKept'
  <1> USE SizeFacts, FrameFacts
  <1>1. CASE SendWriteData
    <2>1. PICK j \in 0 .. DataBits - 1 : j = enet_mdio_write_count
      BY <1>1 DEF LinkInv, LinkTypeOK, MdioTypeOK, CountersInStep, SendWriteData
    <2>2. /\ write_enet_mdio = 1 /\ phy_drives = 0
          /\ HeaderComplete /\ OperationOf(phy_frame) = PHY_WRITE
          /\ Len(phy_shift) = j + 2
          /\ j >= 1 => enet_mdio = REG0_LOOPBACK[j]
          /\ \A i \in 2 .. j : phy_shift[i + 2] = REG0_LOOPBACK[i - 1]
      BY <1>1, <2>1 DEF Aligned, InWriteData, LoopbackKept, SendWriteData
    <2>3. level \in Bit /\ level = enet_mdio
      BY <2>2, PinFacts
    <2>4. enet_mdio' = REG0_LOOPBACK[j + 1] /\ enet_mdio_write_count' = j + 1
      BY <1>1, <2>1 DEF SendWriteData, SelectedBit
    <2>5. CASE j = DataBits - 1
      <3>1. current_state' \in {"RESET_s", "PHY_PREAMBLE_s"}
        BY <1>1, <2>1, <2>5 DEF SendWriteData, WordWritten, Goto
      <3> QED
        BY <3>1 DEF LoopbackKept
    <2>6. CASE j < DataBits - 1
      <3>1. Len(phy_shift) < DataBits + 1
        BY <2>2, <2>6
      <3>2. /\ phy_shift'[j + 3] = level
            /\ \A i \in 1 .. j + 2 : phy_shift'[i] = phy_shift[i]
        <4>1. j + 2 + 1 = j + 3
          OBVIOUS
        <4> QED
          BY <2>2, <2>3, <3>1, <4>1, WriteBodyData
      <3>3. ASSUME NEW i \in 2 .. j + 1
            PROVE  phy_shift'[i + 2] = REG0_LOOPBACK[i - 1]
        <4>1. CASE i = j + 1
          <5>1. i + 2 = j + 3 /\ i - 1 = j /\ j >= 1
            BY <4>1
          <5> QED
            BY <2>2, <2>3, <3>2, <5>1
        <4>2. CASE i <= j
          <5>1. i + 2 \in 1 .. j + 2 /\ i \in 2 .. j
            BY <4>2
          <5> QED
            BY <2>2, <3>2, <5>1
        <4> QED
          BY <4>1, <4>2
      <3> QED
        BY <2>4, <3>3 DEF LoopbackKept
    <2> QED
      BY <2>5, <2>6
  <1>2. CASE SendWriteCmd
    <2>1. enet_mdio_write_count' = 0
      BY <1>2 DEF SendWriteCmd, LinkInv, CountersInStep
    <2> QED
      BY <2>1 DEF LoopbackKept
  <1>3. CASE ~(SendWriteData \/ SendWriteCmd)
    <2>1. current_state' # "SEND_WRITE_DATA_s"
      BY <1>3 DEF MdcEdge, Reset, PostRstWaiting, Preamble, SendReadCmd, StoreReadData,
                  Turnaround, Read, WaitForRamWrite, EnableLoopback, Goto
    <2> QED
      BY <2>1 DEF LoopbackKept
  <1> QED
    BY <1>1, <1>2, <1>3

\* What each state does to the snapshot and to the flags.
LEMMA SnapshotKeptEdge ==
    ASSUME LinkInv, LinkInv', Aligned, WordKept, SnapshotKept, RequestHeld,
           NEW level \in PinLevels, MdcEdge(level), PhyEdge(level)
    PROVE  SnapshotKept'
  <1> USE SizeFacts, FrameFacts
  <1>t. phy_registers_read \in 0 .. NumRegs /\ phy_reg \in [RegIndex -> Word]
    BY DEF LinkInv, LinkTypeOK, MdioTypeOK, SignalsTypeOK
  <1>s. ASSUME UNCHANGED phy_space
        PROVE  \A r : Source(r)' = Source(r)
    BY <1>s DEF Source, AddressOf, Bits
  <1>1. CASE Reset
    <2>1. phy_registers_read' = 0 /\ write_phy_reg_space_to_ram' = 0
          /\ set_reg0_to_loopback' = 0
      BY <1>1 DEF Reset
    <2>2. current_state' \in {"RESET_s", "POST_RST_WAIT_s"}
      BY <1>1 DEF Reset, Goto
    <2> QED
      BY <2>1, <2>2 DEF SnapshotKept, SnapshotExact
  <1>2. CASE PostRstWaiting
    <2>1. phy_registers_read = 0 /\ set_reg0_to_loopback # 1
      BY <1>2 DEF SnapshotKept, PostRstWaiting
    <2>2. write_phy_reg_space_to_ram # 1
      BY <1>2 DEF RequestHeld, PostRstWaiting
    <2>3. /\ phy_registers_read' = 0 /\ set_reg0_to_loopback' # 1
          /\ write_phy_reg_space_to_ram' # 1
      BY <1>2, <2>1, <2>2 DEF PostRstWaiting, loopbackFlags, requests
    <2>4. current_state' \in {"RESET_s", "POST_RST_WAIT_s", "PHY_PREAMBLE_s"}
      BY <1>2 DEF PostRstWaiting, Goto
    <2>5. \A r \in RegIndex : ~(r < phy_registers_read')
      BY <2>3 DEF RegIndex
    <2> QED
      BY <2>3, <2>4, <2>5 DEF SnapshotKept, SnapshotExact
  <1>3. CASE Preamble \/ SendReadCmd \/ Turnaround \/ Read(level)
    <2>1. current_state \in {"PHY_PREAMBLE_s", "SEND_READ_CMD_s", "TURNAROUND_z_s",
                            "TURNAROUND_0_s", "READ_s"}
      BY <1>3 DEF Preamble, SendReadCmd, Turnaround, Read
    <2>2. \A r : Source(r)' = Source(r)
      BY <1>s, <2>1, SpaceStill
    <2>3. write_phy_reg_space_to_ram # 1
      BY <2>1 DEF RequestHeld
    <2>4. /\ phy_registers_read' = phy_registers_read /\ phy_reg' = phy_reg
          /\ set_reg0_to_loopback' = set_reg0_to_loopback
          /\ write_phy_reg_space_to_ram' # 1
      BY <1>3, <2>3 DEF Preamble, SendReadCmd, Turnaround, Read, loopbackFlags, requests
    <2>5. \A r \in RegIndex : r < phy_registers_read' => phy_reg'[r] = Source(r)'
      BY <2>1, <2>2, <2>4 DEF SnapshotKept
    <2>6. set_reg0_to_loopback = 1 =>
             current_state = "PHY_PREAMBLE_s" /\ phy_registers_read = 0
      BY <2>1 DEF SnapshotKept
    <2>7. CASE Preamble
      <3>1. current_state' \in {"RESET_s", "PHY_PREAMBLE_s", "SEND_READ_CMD_s",
                               "SEND_WRITE_CMD_s"}
            /\ (current_state' = "SEND_WRITE_CMD_s" => set_reg0_to_loopback = 1)
            /\ (current_state' = "SEND_READ_CMD_s" => set_reg0_to_loopback # 1)
        BY <2>7 DEF Preamble, Goto
      <3> QED
        BY <2>4, <2>5, <2>6, <3>1 DEF SnapshotKept, SnapshotExact
    <2>8. CASE SendReadCmd \/ Turnaround \/ Read(level)
      <3>1. current_state' \in {"RESET_s", "SEND_READ_CMD_s", "TURNAROUND_z_s",
                               "TURNAROUND_0_s", "READ_s", "STORE_READ_DATA_s"}
            /\ current_state # "PHY_PREAMBLE_s"
        BY <2>8 DEF SendReadCmd, Turnaround, Read, Goto
      <3> QED
        BY <2>4, <2>5, <2>6, <3>1 DEF SnapshotKept, SnapshotExact
    <2> QED
      BY <1>3, <2>7, <2>8
  <1>4. CASE StoreReadData
    <2>1. PICK n \in 0 .. NumRegs - 1 : n = phy_registers_read
      BY <1>4, <1>t DEF LinkInv, CountersInStep, StoreReadData
    <2>2. \A r : Source(r)' = Source(r)
      BY <1>4, <1>s, SpaceStill DEF StoreReadData
    <2>3. phy_reg' = [phy_reg EXCEPT ![n] = Source(n)]
      BY <1>4, <2>1 DEF StoreReadData, WordKept
    <2>4. phy_registers_read' = n + 1
      BY <1>4, <2>1 DEF StoreReadData
    <2>5. ASSUME NEW r \in RegIndex, r < n + 1
          PROVE  phy_reg'[r] = Source(r)'
      <3>1. CASE r = n
        BY <1>t, <2>2, <2>3, <3>1 DEF RegIndex
      <3>2. CASE r # n
        <4>1. r < n
          BY <2>5, <3>2 DEF RegIndex
        <4>2. phy_reg[r] = Source(r)
          BY <1>4, <2>1, <4>1 DEF SnapshotKept, StoreReadData
        <4> QED
          BY <1>t, <2>2, <2>3, <3>2, <4>2
      <3> QED
        BY <3>1, <3>2
    <2>6. write_phy_reg_space_to_ram' # 1 /\ set_reg0_to_loopback' # 1
      BY <1>4 DEF StoreReadData, RequestHeld, SnapshotKept, loopbackFlags, requests
    <2>7. current_state' \in {"RESET_s", "PHY_PREAMBLE_s", "WAIT_FOR_RAM_WRITE_s"}
          /\ (current_state' = "WAIT_FOR_RAM_WRITE_s" => n = NumRegs - 1)
      BY <1>4, <2>1 DEF StoreReadData, LastRegister, Goto
    <2>8. current_state' = "WAIT_FOR_RAM_WRITE_s" =>
            \A r \in RegIndex : phy_reg'[r] = Source(r)'
      BY <2>5, <2>7 DEF RegIndex
    <2> QED
      BY <2>4, <2>5, <2>6, <2>7, <2>8 DEF SnapshotKept, SnapshotExact
  <1>5. CASE WaitForRamWrite \/ EnableLoopback
    <2>1. \A r : Source(r)' = Source(r)
      BY <1>5, <1>s, SpaceStill DEF WaitForRamWrite, EnableLoopback
    <2>2. phy_reg' = phy_reg /\ \A r \in RegIndex : phy_reg[r] = Source(r)
      BY <1>5 DEF SnapshotKept, WaitForRamWrite, EnableLoopback
    <2>3. \A r \in RegIndex : phy_reg'[r] = Source(r)'
      BY <2>1, <2>2
    <2>4. \A r \in RegIndex : phy_reg'[r] = phy_space'[AddressOf(r)]
      BY <2>3 DEF Source, AddressOf, Bits
    <2>5. phy_registers_read' = 0
      BY <1>5 DEF SnapshotKept, WaitForRamWrite, EnableLoopback
    <2>6. /\ current_state' \in {"RESET_s", "WAIT_FOR_RAM_WRITE_s", "ENABLE_LOOPBACK_s",
                                "PHY_PREAMBLE_s"}
          /\ set_reg0_to_loopback' = 1 => current_state' \in {"RESET_s", "PHY_PREAMBLE_s"}
      BY <1>5 DEF SnapshotKept, WaitForRamWrite, EnableLoopback, Goto, loopbackFlags
    <2>7. SnapshotExact'
      BY <2>4 DEF SnapshotExact
    <2> QED
      BY <2>3, <2>5, <2>6, <2>7 DEF SnapshotKept
  <1>6. CASE SendWriteCmd \/ SendWriteData
    <2>1. phy_registers_read = 0 /\ write_phy_reg_space_to_ram # 1
      BY <1>6 DEF SnapshotKept, RequestHeld, SendWriteCmd, SendWriteData
    <2>2. phy_registers_read' = 0 /\ write_phy_reg_space_to_ram' # 1
      BY <1>6, <2>1 DEF SendWriteCmd, SendWriteData, requests
    <2>3. current_state' \in {"RESET_s", "PHY_PREAMBLE_s", "SEND_WRITE_CMD_s",
                             "SEND_WRITE_DATA_s"}
      BY <1>6 DEF SendWriteCmd, SendWriteData, Goto
    <2>4. \A r \in RegIndex : ~(r < phy_registers_read')
      BY <2>2 DEF RegIndex
    <2> QED
      BY <2>2, <2>3, <2>4 DEF SnapshotKept, SnapshotExact
  <1> QED
    BY <1>1, <1>2, <1>3, <1>4, <1>5, <1>6 DEF MdcEdge

\* The word that the write frame leaves in register 0.
LEMMA WrittenWord ==
    ASSUME LinkInv, Aligned, HeaderKept, LoopbackKept, NEW level \in PinLevels,
           SendWriteData, WordWritten, PhyEdge(level)
    PROVE  \E w \in LoopbackWords :
              /\ phy_space' = [phy_space EXCEPT ![AddressOf(0)] = w]
              /\ phy_space'[AddressOf(0)] = w
  <1> USE SizeFacts, FrameFacts
  <1>1. PICK j \in 0 .. DataBits - 1 : j = enet_mdio_write_count
    BY DEF LinkInv, LinkTypeOK, MdioTypeOK, CountersInStep, SendWriteData
  <1>2. /\ write_enet_mdio = 1 /\ phy_drives = 0
        /\ HeaderComplete /\ OperationOf(phy_frame) = PHY_WRITE
        /\ Len(phy_shift) = j + 2
        /\ j >= 1 => enet_mdio = REG0_LOOPBACK[j]
        /\ \A i \in 2 .. j : phy_shift[i + 2] = REG0_LOOPBACK[i - 1]
    BY <1>1 DEF Aligned, InWriteData, LoopbackKept, SendWriteData
  <1>3. level \in Bit /\ level = enet_mdio
    BY <1>2, PinFacts
  <1>4. j = DataBits - 1
    BY <1>1 DEF WordWritten
  <1>5. Len(phy_shift) >= DataBits + 1
    BY <1>2, <1>4
  <1> DEFINE w == [i \in 1 .. DataBits |-> IF i = DataBits THEN level ELSE phy_shift[i + 2]]
             top == IF DataBits = 1 THEN level ELSE phy_shift[3]
  <1>6. FrameRegister = AddressOf(0) /\ AddressOf(0) \in PhyAddress
    BY FrameRegisterIs DEF HeaderKept, SendWriteData
  <1>7. phy_space' = [phy_space EXCEPT ![AddressOf(0)] = w]
    BY <1>2, <1>3, <1>5, <1>6, WriteBodyData
  <1>8. top \in Bit
    <2>1. phy_shift \in Seq(Bit)
      BY DEF LinkInv, LinkTypeOK, PhyTypeOK
    <2>2. DataBits # 1 => 3 \in 1 .. Len(phy_shift)
      BY <1>2, <1>4
    <2> QED
      BY <1>3, <2>1, <2>2
  <1>9. ASSUME NEW i \in 1 .. DataBits
        PROVE  w[i] = IF i = 1 THEN top ELSE REG0_LOOPBACK[i - 1]
    <2>1. CASE i = 1
      BY <2>1
    <2>2. CASE i # 1 /\ i = DataBits
      <3>1. j >= 1 /\ i - 1 = j
        BY <1>4, <2>2
      <3> QED
        BY <1>2, <1>3, <2>2, <3>1
    <2>3. CASE i # 1 /\ i # DataBits
      <3>1. i \in 2 .. j
        BY <1>4, <2>3
      <3> QED
        BY <1>2, <2>3, <3>1
    <2> QED
      BY <2>1, <2>2, <2>3
  <1>10. w = [i \in 1 .. DataBits |-> IF i = 1 THEN top ELSE REG0_LOOPBACK[i - 1]]
    BY <1>9
  <1>11. w \in LoopbackWords
    <2> HIDE DEF w, top
    <2> QED
      BY <1>8, <1>10 DEF LoopbackWords
  <1>12. phy_space'[AddressOf(0)] = w
    <2>1. AddressOf(0) \in DOMAIN phy_space
      BY <1>6 DEF LinkInv, LinkTypeOK, PhyTypeOK
    <2> HIDE DEF w
    <2> QED
      BY <1>7, <2>1
  <1> HIDE DEF w
  <1> QED
    BY <1>7, <1>11, <1>12

\* The flags say what register 0 of the PHY holds.
LEMMA FlagsKeptEdge ==
    ASSUME LinkInv, Aligned, HeaderKept, LoopbackKept, SnapshotKept, FlagsKept,
           NEW level \in PinLevels, MdcEdge(level), PhyEdge(level)
    PROVE  FlagsKept'
  <1> USE SizeFacts, FrameFacts
  <1>t. start_loopback_traffic \in Bit /\ reg0_in_loopback \in Bit
    BY DEF LinkInv, LinkTypeOK, MdioTypeOK, SignalsTypeOK
  <1>s. ASSUME UNCHANGED phy_space
        PROVE  Source(0)' = Source(0)
    BY <1>s DEF Source, AddressOf, Bits
  <1>1. CASE Reset
    <2>1. reg0_in_loopback' = 0 /\ start_loopback_traffic' = 0
      BY <1>1 DEF Reset
    <2> QED
      BY <2>1 DEF FlagsKept
  <1>2. CASE PostRstWaiting
    <2>1. reg0_in_loopback' = 0 /\ start_loopback_traffic' # 1
      BY <1>2 DEF PostRstWaiting, FlagsKept, loopbackFlags, requests
    <2> QED
      BY <2>1 DEF FlagsKept
  <1>3. CASE Preamble \/ SendReadCmd \/ Turnaround \/ Read(level) \/ StoreReadData
             \/ EnableLoopback \/ SendWriteCmd
    <2>1. Source(0)' = Source(0)
      BY <1>3, <1>s, SpaceStill DEF Preamble, SendReadCmd, Turnaround, Read, StoreReadData,
                                    EnableLoopback, SendWriteCmd
    <2>2. current_state \notin {"RESET_s", "POST_RST_WAIT_s", "SEND_WRITE_DATA_s",
                               "WAIT_FOR_RAM_WRITE_s"}
      BY <1>3 DEF Preamble, SendReadCmd, Turnaround, Read, StoreReadData,
                  EnableLoopback, SendWriteCmd
    <2>3. /\ reg0_in_loopback' = reg0_in_loopback
          /\ start_loopback_traffic' = start_loopback_traffic
      BY <1>3 DEF Preamble, SendReadCmd, Turnaround, Read, StoreReadData,
                  EnableLoopback, SendWriteCmd, loopbackFlags, requests
    <2>4. current_state' # "POST_RST_WAIT_s"
      BY <1>3 DEF Preamble, SendReadCmd, Turnaround, Read, StoreReadData,
                  EnableLoopback, SendWriteCmd, Goto
    <2>5. start_loopback_traffic' # 1
      BY <2>2, <2>3 DEF FlagsKept
    <2>6. reg0_in_loopback' = 1 => Source(0)' \in LoopbackWords
      BY <2>1, <2>2, <2>3 DEF FlagsKept
    <2> QED
      BY <2>4, <2>5, <2>6 DEF FlagsKept
  <1>4. CASE WaitForRamWrite
    <2>1. Source(0)' = Source(0)
      BY <1>4, <1>s, SpaceStill DEF WaitForRamWrite
    <2>2. reg0_in_loopback = 1 => Source(0) \in LoopbackWords
      BY <1>4 DEF FlagsKept, WaitForRamWrite
    <2>3. /\ reg0_in_loopback' = reg0_in_loopback
          /\ write_phy_reg_space_to_ram' = 1
          /\ start_loopback_traffic' = 1 => reg0_in_loopback = 1
      BY <1>4 DEF WaitForRamWrite, loopbackFlags, FlagsKept
    <2>4. /\ current_state' \in {"RESET_s", "WAIT_FOR_RAM_WRITE_s", "ENABLE_LOOPBACK_s"}
          /\ current_state' = "ENABLE_LOOPBACK_s" => reg0_in_loopback = 0
      BY <1>4 DEF WaitForRamWrite, RamSaved, Goto
    <2> QED
      BY <2>1, <2>2, <2>3, <2>4 DEF FlagsKept
  <1>5. CASE SendWriteData
    <2>1. start_loopback_traffic' # 1
      BY <1>5 DEF SendWriteData, FlagsKept, requests
    <2>2. CASE WordWritten
      <3>1. Source(0)' \in LoopbackWords
        <4>1. phy_space'[AddressOf(0)] \in LoopbackWords
          BY <1>5, <2>2, WrittenWord
        <4>2. Source(0)' = phy_space'[AddressOf(0)]
          BY DEF Source, AddressOf, Bits
        <4> QED
          BY <4>1, <4>2
      <3>2. current_state' # "POST_RST_WAIT_s"
        BY <1>5 DEF SendWriteData, Goto
      <3> QED
        BY <2>1, <3>1, <3>2 DEF FlagsKept
    <2>3. CASE ~WordWritten
      <3>1. current_state' \in {"RESET_s", "SEND_WRITE_DATA_s"}
        BY <1>5, <2>3 DEF SendWriteData, Goto
      <3> QED
        BY <2>1, <3>1 DEF FlagsKept
    <2> QED
      BY <2>2, <2>3
  <1> QED
    BY <1>1, <1>2, <1>3, <1>4, <1>5 DEF MdcEdge

\* Nothing is under way at power-up.
LEMMA CarriedInit ==
    ASSUME LinkInit
    PROVE  Carried
  <1>1. /\ current_state = "RESET_s" /\ start_loopback_traffic = 0
        /\ write_phy_reg_space_to_ram = 0
    BY DEF LinkInit, MdioInit, SignalsInit
  <1> QED
    BY <1>1 DEF Carried, HeaderKept, WordKept, LoopbackKept, SnapshotKept, SnapshotExact,
                FlagsKept

\* Every step keeps the bits that are under way.
LEMMA CarriedStep ==
    ASSUME LinkInv, LinkInv', Aligned, RequestHeld, Carried, [LinkNext]_linkVars
    PROVE  Carried'
  <1>1. CASE MdcTick
    <2>1. PICK level \in PinLevels : MdcEdge(level) /\ PhyEdge(level)
      BY <1>1 DEF MdcTick
    <2>2. FirstBit
      BY DEF Aligned, FirstBit
    <2> QED
      BY <2>1, <2>2, HeaderKeptEdge, WordKeptEdge, LoopbackKeptEdge, SnapshotKeptEdge,
         FlagsKeptEdge DEF Carried
  <1>2. CASE UNCHANGED <<mdioVars, phyVars>>
    <2>1. HeaderKept' /\ LoopbackKept'
      BY <1>2 DEF Carried, HeaderKept, LoopbackKept, Prefix, ReadCommand, mdioVars, phyVars,
                  counters, wire
    <2>2. \A r : Source(r)' = Source(r)
      BY <1>2 DEF Source, AddressOf, Bits, phyVars
    <2>3. WordKept'
      <3>1. Source(phy_registers_read)' = Source(phy_registers_read)
        BY <1>2 DEF Source, AddressOf, Bits, mdioVars, phyVars
      <3> QED
        BY <1>2, <3>1 DEF Carried, WordKept, mdioVars, phyVars, counters
    <2>4. SnapshotKept'
      <3>1. SnapshotExact'
        BY <1>2 DEF Carried, SnapshotKept, SnapshotExact, AddressOf, Bits, mdioVars,
                    phyVars, requests
      <3> QED
        BY <1>2, <2>2, <3>1 DEF Carried, SnapshotKept, mdioVars, loopbackFlags
    <2>5. FlagsKept'
      BY <1>2, <2>2 DEF Carried, FlagsKept, mdioVars, loopbackFlags, requests
    <2> QED
      BY <2>1, <2>3, <2>4, <2>5 DEF Carried
  <1>3. MdcTick \/ UNCHANGED <<mdioVars, phyVars>>
    BY DEF LinkNext, Press, Release, RamAnswers, RamWithdraws, RxSeesButton, linkVars
  <1> QED
    BY <1>1, <1>2, <1>3

\* What has been carried makes the snapshot true.
LEMMA CarriedImpliesSnapshotsTrue ==
    ASSUME LinkInv, Carried
    PROVE  SnapshotsTrue
  <1>1. SnapshotExact
    BY DEF Carried, SnapshotKept
  <1>2. ASSUME start_loopback_traffic = 1
        PROVE  /\ phy_space[AddressOf(0)] \in LoopbackWords
               /\ phy_reg[0] = phy_space[AddressOf(0)]
    <2>1. 0 \in RegIndex
      BY SizeFacts DEF RegIndex
    <2>2. write_phy_reg_space_to_ram = 1 /\ Source(0) \in LoopbackWords
      BY <1>2 DEF Carried, FlagsKept
    <2> QED
      BY <1>1, <2>1, <2>2 DEF SnapshotExact, Source
  <1> QED
    BY <1>1, <1>2 DEF SnapshotsTrue, TrafficOnlyInLoopback

\* The snapshot that the RAM writer is asked to save holds every register of the
\* PHY, bit for bit, and frames are sent only to a PHY whose register 0 holds the
\* loopback word (altera_max_10.v:442-551): serial reads and the serial write, for
\* any number and width of the registers and with a reset at any edge.
THEOREM SnapshotTruth == LinkSpec => []SnapshotsTrue
  <1>1. LinkInit => RequestHeld /\ Carried
    BY RequestHeldInit, CarriedInit
  <1>2. RequestHeld /\ [LinkNext]_linkVars => RequestHeld'
    BY RequestHeldStep
  <1>3. LinkInv /\ LinkInv' /\ Aligned /\ RequestHeld /\ Carried /\ [LinkNext]_linkVars
          => Carried'
    BY CarriedStep
  <1>4. LinkInv /\ Carried => SnapshotsTrue
    BY CarriedImpliesSnapshotsTrue
  <1> QED
    BY <1>1, <1>2, <1>3, <1>4, LinkInvariance, AlignedInvariance, PTL DEF LinkSpec

-----------------------------------------------------------------------------
(* What is written into the PHY. *)

\* The register address in the header f is a run of zeros and a run of ones, as
\* far as it is in, or f is no write.
Cut(f) ==
    \/ \E i \in 1 .. 4 : i <= Len(f) /\ f[i] # PHY_WRITE[i]
    \/ \E k \in 0 .. RegAddrBits :
          \A i \in 1 .. RegAddrBits :
             4 + PhyAddrBits + i <= Len(f) =>
                f[4 + PhyAddrBits + i] = IF i > k THEN 1 ELSE 0

\* So it is now, and with the bit on the wire.
CutKept ==
    /\ Cut(phy_frame)
    /\ write_enet_mdio = 1 => Cut(Append(phy_frame, enet_mdio))

\* A header with no register address yet.
LEMMA CutShort ==
    ASSUME NEW f, Len(f) \in Nat, Len(f) <= 4 + PhyAddrBits
    PROVE  Cut(f)
  <1> USE SizeFacts
  <1>1. \A i \in 1 .. RegAddrBits : ~(4 + PhyAddrBits + i <= Len(f))
    OBVIOUS
  <1>2. 0 \in 0 .. RegAddrBits
    OBVIOUS
  <1> QED
    BY <1>1, <1>2 DEF Cut

\* The pull-up only adds ones.
LEMMA CutOne ==
    ASSUME NEW f \in Seq(Bit), Cut(f)
    PROVE  Cut(Append(f, 1))
  <1> USE SizeFacts
  <1> DEFINE g == Append(f, 1)
             n == 4 + PhyAddrBits
  <1>1. /\ Len(f) \in Nat /\ Len(g) = Len(f) + 1 /\ g[Len(f) + 1] = 1
        /\ \A i \in 1 .. Len(f) : g[i] = f[i]
    OBVIOUS
  <1> HIDE DEF g
  <1>2. CASE \E i \in 1 .. 4 : i <= Len(f) /\ f[i] # PHY_WRITE[i]
    <2>1. PICK i \in 1 .. 4 : i <= Len(f) /\ f[i] # PHY_WRITE[i]
      BY <1>2
    <2>2. i <= Len(g) /\ g[i] # PHY_WRITE[i]
      BY <1>1, <2>1
    <2> QED
      BY <2>2 DEF Cut, g
  <1>3. CASE \E k \in 0 .. RegAddrBits : \A i \in 1 .. RegAddrBits :
                n + i <= Len(f) => f[n + i] = IF i > k THEN 1 ELSE 0
    <2>1. PICK k \in 0 .. RegAddrBits : \A i \in 1 .. RegAddrBits :
                n + i <= Len(f) => f[n + i] = IF i > k THEN 1 ELSE 0
      BY <1>3
    <2>2. ASSUME NEW m \in 0 .. RegAddrBits, NEW i \in 1 .. RegAddrBits, n + i <= Len(g),
                 n + i = Len(f) + 1 => i > m,
                 n + i <= Len(f) => (i > m <=> i > k)
          PROVE  g[n + i] = IF i > m THEN 1 ELSE 0
      <3>1. CASE n + i = Len(f) + 1
        BY <1>1, <2>2, <3>1
      <3>2. CASE n + i <= Len(f)
        <4>1. g[n + i] = f[n + i]
          BY <1>1, <3>2
        <4>2. f[n + i] = IF i > k THEN 1 ELSE 0
          BY <2>1, <3>2
        <4> QED
          BY <2>2, <3>2, <4>1, <4>2
      <3> QED
        BY <1>1, <2>2, <3>1, <3>2
    <2>3. CASE k <= Len(f) - n
      <3>1. ASSUME NEW i \in 1 .. RegAddrBits, n + i <= Len(g)
            PROVE  g[n + i] = IF i > k THEN 1 ELSE 0
        <4>1. n + i = Len(f) + 1 => i > k
          BY <1>1, <2>3
        <4> QED
          BY <2>2, <3>1, <4>1
      <3> QED
        BY <3>1 DEF Cut, g
    <2>4. CASE k > Len(f) - n /\ Len(f) >= n
      <3> DEFINE m == Len(f) - n
      <3>1. m \in 0 .. RegAddrBits
        BY <1>1, <2>4
      <3>2. ASSUME NEW i \in 1 .. RegAddrBits, n + i <= Len(g)
            PROVE  g[n + i] = IF i > m THEN 1 ELSE 0
        <4>1. n + i = Len(f) + 1 => i > m
          BY <1>1
        <4>2. n + i <= Len(f) => (i > m <=> i > k)
          BY <1>1, <2>4
        <4> HIDE DEF m
        <4> QED
          BY <2>2, <3>1, <3>2, <4>1, <4>2
      <3> QED
        BY <3>1, <3>2 DEF Cut, g
    <2>5. CASE Len(f) < n
      <3>1. Len(g) \in Nat /\ Len(g) <= 4 + PhyAddrBits
        BY <1>1, <2>5
      <3>2. Cut(g)
        BY <3>1, CutShort
      <3> QED
        BY <3>2 DEF g
    <2> QED
      BY <1>1, <2>3, <2>4, <2>5
  <1> QED
    BY <1>2, <1>3 DEF Cut, g

\* A power of two is positive, so every bit of 0 is a 0.
LEMMA PowerPositive ==
    ASSUME NEW n \in Nat
    PROVE  2 ^ n \in Nat /\ 2 ^ n > 0
  <1>1. IsFiniteSet(1 .. n) /\ Cardinality(1 .. n) = n
    BY FS_Interval
  <1>2. IsFiniteSet(SUBSET (1 .. n)) /\ Cardinality(SUBSET (1 .. n)) = 2 ^ n
    BY <1>1, FS_SUBSET
  <1>3. Cardinality(SUBSET (1 .. n)) \in Nat
    BY <1>2, FS_CardinalityType
  <1>4. SUBSET (1 .. n) # {}
    OBVIOUS
  <1>5. Cardinality(SUBSET (1 .. n)) # 0
    BY <1>2, <1>4, FS_EmptySet
  <1> QED
    BY <1>2, <1>3, <1>5

\* The number 0 is all zeros in binary.
LEMMA ZeroBits ==
    ASSUME NEW w \in Nat, NEW i \in 1 .. w
    PROVE  Bits(0, w)[i] = 0
  <1>1. 2 ^ (w - i) \in Nat /\ 2 ^ (w - i) > 0
    BY PowerPositive
  <1>2. PICK p \in Nat : p > 0 /\ p = 2 ^ (w - i)
    BY <1>1
  <1>3. (0 \div p) % 2 # 1
    BY <1>2
  <1> QED
    BY <1>2, <1>3 DEF Bits

\* The header of the loopback command is a write to register 0 as far as it goes,
\* that of a read is no write.
LEMMA CutCommands ==
    ASSUME NEW f, Len(f) \in Nat, NEW n \in Nat, Len(f) = n, NEW r,
           \/ \A i \in 1 .. n : f[i] = ReadCommand(r)[i]
           \/ \A i \in 1 .. n : i <= CommandBits => f[i] = WriteCommand[i]
    PROVE  Cut(f)
  <1> USE SizeFacts, FrameFacts
  <1>1. CASE n <= 4 + PhyAddrBits
    BY <1>1, CutShort
  <1>2. CASE n > 4 + PhyAddrBits /\ \A i \in 1 .. n : f[i] = ReadCommand(r)[i]
    <2>1. PHY_READ[3] = 1 /\ PHY_WRITE[3] = 0
      BY DEF PHY_READ, PHY_WRITE
    <2>2. 3 \in 1 .. 4 /\ 3 \in 1 .. n
      BY <1>2
    <2>3. f[3] = PHY_READ[3]
      BY <1>2, <2>2, Commands DEF IsCommand
    <2> QED
      BY <2>1, <2>2, <2>3 DEF Cut
  <1>3. CASE n > 4 + PhyAddrBits
             /\ \A i \in 1 .. n : i <= CommandBits => f[i] = WriteCommand[i]
    <2>1. ASSUME NEW i \in 1 .. RegAddrBits, 4 + PhyAddrBits + i <= n
          PROVE  f[4 + PhyAddrBits + i] = 0
      <3>1. 4 + PhyAddrBits + i \in 1 .. n /\ 4 + PhyAddrBits + i <= CommandBits
        BY <2>1
      <3>2. WriteCommand[4 + PhyAddrBits + i] = Bits(0, RegAddrBits)[i]
        BY CommandRegister DEF AddressOf
      <3> QED
        BY <1>3, <3>1, <3>2, ZeroBits
    <2>2. RegAddrBits \in 0 .. RegAddrBits /\ \A i \in 1 .. RegAddrBits : ~(i > RegAddrBits)
      OBVIOUS
    <2> QED
      BY <2>1, <2>2 DEF Cut
  <1> QED
    BY <1>1, <1>2, <1>3

\* A header keeps its shape while it grows, the pull-up being all ones.
LEMMA CutFrameEdge ==
    ASSUME LinkInv, Aligned, CutKept, NEW level \in PinLevels, PhyEdge(level)
    PROVE  Cut(phy_frame')
  <1> USE SizeFacts, FrameFacts
  <1>t. phy_frame \in Seq(Bit) /\ phy_drives \in Bit /\ write_enet_mdio \in Bit
    BY DEF LinkInv, LinkTypeOK, PhyTypeOK, MdioTypeOK
  <1>1. \/ phy_frame' = <<>> \/ phy_frame' = << 0 >> \/ phy_frame' = phy_frame
        \/ ~HeaderComplete /\ phy_frame' = Append(phy_frame, level)
    BY DEF PhyEdge, PhyIdle, PhyHeader, PhySend, PhyReceive
  <1>2. CASE phy_frame' = <<>> \/ phy_frame' = << 0 >>
    <2>1. Len(phy_frame') \in Nat /\ Len(phy_frame') <= 1
      BY <1>2, StartOfFrame
    <2> QED
      BY <2>1, CutShort
  <1>3. CASE phy_frame' = phy_frame
    BY <1>3 DEF CutKept
  <1>4. CASE ~HeaderComplete /\ phy_frame' = Append(phy_frame, level)
    <2>1. phy_drives = 0
      BY <1>t, <1>4 DEF LinkInv, PhyInStep, Bit
    <2>2. CASE write_enet_mdio = 1
      BY <1>4, <2>1, <2>2, PinFacts DEF CutKept
    <2>3. CASE write_enet_mdio = 0
      BY <1>t, <1>4, <2>1, <2>3, PinFacts, CutOne DEF CutKept
    <2> QED
      BY <1>t, <2>2, <2>3 DEF Bit
  <1> QED
    BY <1>1, <1>2, <1>3, <1>4

\* What follows a complete header does not change its register.
LEMMA CutComplete ==
    ASSUME NEW f \in Seq(Bit), Len(f) = CommandBits, Cut(f), NEW bit
    PROVE  Cut(Append(f, bit))
  <1> USE SizeFacts, FrameFacts
  <1> DEFINE g == Append(f, bit)
  <1>1. /\ Len(g) = CommandBits + 1
        /\ \A i \in 1 .. CommandBits : g[i] = f[i]
    <2>1. Len(g) = Len(f) + 1
      OBVIOUS
    <2>2. \A i \in 1 .. Len(f) : g[i] = f[i]
      OBVIOUS
    <2> QED
      BY <2>1, <2>2
  <1> HIDE DEF g
  <1>2. CASE \E i \in 1 .. 4 : i <= Len(f) /\ f[i] # PHY_WRITE[i]
    <2>1. PICK i \in 1 .. 4 : i <= Len(f) /\ f[i] # PHY_WRITE[i]
      BY <1>2
    <2>2. i <= Len(g) /\ g[i] # PHY_WRITE[i]
      BY <1>1, <2>1
    <2> QED
      BY <2>2 DEF Cut, g
  <1>3. CASE \E k \in 0 .. RegAddrBits : \A i \in 1 .. RegAddrBits :
                4 + PhyAddrBits + i <= Len(f) =>
                   f[4 + PhyAddrBits + i] = IF i > k THEN 1 ELSE 0
    <2>1. PICK k \in 0 .. RegAddrBits : \A i \in 1 .. RegAddrBits :
                4 + PhyAddrBits + i <= Len(f) =>
                   f[4 + PhyAddrBits + i] = IF i > k THEN 1 ELSE 0
      BY <1>3
    <2>2. ASSUME NEW i \in 1 .. RegAddrBits
          PROVE  g[4 + PhyAddrBits + i] = IF i > k THEN 1 ELSE 0
      <3>1. 4 + PhyAddrBits + i \in 1 .. CommandBits /\ 4 + PhyAddrBits + i <= Len(f)
        OBVIOUS
      <3> QED
        BY <1>1, <2>1, <3>1
    <2> QED
      BY <2>2 DEF Cut, g
  <1> QED
    BY <1>2, <1>3 DEF Cut, g

\* The bit that follows a prefix of a command continues that prefix.
LEMMA CutPrefix ==
    ASSUME NEW f \in Seq(Bit), NEW bit \in Bit, NEW command,
           (\E r : command = ReadCommand(r)) \/ command = WriteCommand,
           NEW n \in 0 .. CommandBits, Len(f) = n, \A i \in 1 .. n : f[i] = command[i],
           n < CommandBits => bit = command[n + 1]
    PROVE  Cut(Append(f, bit))
  <1> USE SizeFacts, FrameFacts
  <1>1. CASE n = CommandBits
    <2>1. Cut(f)
      BY CutCommands
    <2> QED
      BY <1>1, <2>1, CutComplete
  <1>2. CASE n < CommandBits
    <2> DEFINE g == Append(f, bit)
    <2>1. /\ Len(g) = n + 1 /\ g[n + 1] = bit
          /\ \A i \in 1 .. n : g[i] = f[i]
      OBVIOUS
    <2> HIDE DEF g
    <2>2. \A i \in 1 .. n + 1 : g[i] = command[i]
      <3>1. \A i \in 1 .. n + 1 : i = n + 1 \/ i \in 1 .. n
        OBVIOUS
      <3> QED
        BY <1>2, <2>1, <3>1
    <2>3. PICK m \in Nat : m = n + 1
      OBVIOUS
    <2>4. CASE \E r : command = ReadCommand(r)
      <3>1. PICK r : command = ReadCommand(r)
        BY <2>4
      <3>2. Len(g) = m /\ \A i \in 1 .. m : g[i] = ReadCommand(r)[i]
        BY <2>1, <2>2, <2>3, <3>1
      <3>3. Cut(g)
        BY <3>2, CutCommands
      <3> QED
        BY <3>3 DEF g
    <2>5. CASE command = WriteCommand
      <3>1. Len(g) = m /\ \A i \in 1 .. m : i <= CommandBits => g[i] = WriteCommand[i]
        BY <2>1, <2>2, <2>3, <2>5
      <3>2. Cut(g)
        BY <3>1, CutCommands
      <3> QED
        BY <3>2 DEF g
    <2> QED
      BY <2>4, <2>5
  <1> QED
    BY <1>1, <1>2

\* An empty header and a bit are no register yet.
LEMMA CutEmpty ==
    ASSUME NEW bit
    PROVE  Cut(Append(<<>>, bit))
  <1>1. Len(Append(<<>>, bit)) \in Nat /\ Len(Append(<<>>, bit)) <= 4 + PhyAddrBits
    BY SizeFacts
  <1> QED
    BY <1>1, CutShort

\* The bit put on the wire is a bit of a command or of the preamble, or follows a
\* complete header.
LEMMA CutWireEdge ==
    ASSUME LinkInv, LinkInv', Aligned, FirstBit, CutKept, NEW level \in PinLevels,
           MdcEdge(level), PhyEdge(level), write_enet_mdio' = 1
    PROVE  Cut(Append(phy_frame, enet_mdio))'
  <1> USE SizeFacts, FrameFacts
  <1>t. phy_frame' \in Seq(Bit) /\ phy_frame \in Seq(Bit) /\ enet_mdio' \in Bit
    BY DEF LinkInv, LinkTypeOK, PhyTypeOK, MdioTypeOK
  <1>b. level \in Bit
    BY PinFacts
  <1>e. ASSUME phy_frame' = <<>>
        PROVE  Cut(Append(phy_frame, enet_mdio))'
    <2>1. Cut(Append(phy_frame', enet_mdio'))
      BY <1>e, CutEmpty
    <2> QED
      BY <2>1 DEF Cut
  <1>c. ASSUME phy_frame' = phy_frame, HeaderComplete
        PROVE  Cut(Append(phy_frame, enet_mdio))'
    <2>1. Len(phy_frame) = CommandBits /\ Cut(phy_frame)
      BY <1>c DEF HeaderComplete, CutKept
    <2>2. Cut(Append(phy_frame, enet_mdio'))
      BY <1>t, <2>1, CutComplete
    <2>3. Cut(Append(phy_frame', enet_mdio'))
      BY <1>c, <2>2
    <2> QED
      BY <2>3 DEF Cut
  <1>1. CASE Preamble
    <2>1. Quiet'
      <3>1. Quiet
        BY <1>1 DEF Aligned, InPreamble, Preamble
      <3>2. /\ write_enet_mdio = 0 => level = 1
            /\ write_enet_mdio = 1 => level = enet_mdio
            /\ write_enet_mdio \in Bit
        BY <3>1, PinFacts DEF Quiet, LinkInv, LinkTypeOK, MdioTypeOK
      <3>3. write_enet_mdio = 1 /\ enet_mdio = 0 => phy_ones # PreambleBits
        BY <1>1 DEF Aligned, InPreamble, Preamble
      <3>4. level = 0 => phy_ones # PreambleBits
        BY <3>2, <3>3 DEF Bit
      <3> QED
        BY <1>b, <3>1, <3>4, QuietEdge
    <2> QED
      BY <1>e, <2>1 DEF Quiet
  <1>2. CASE SendReadCmd
    <2>1. PICK count \in 0 .. CommandBits : count = enet_mdio_bit_count
      BY <1>2 DEF LinkInv, LinkTypeOK, MdioTypeOK, CountersInStep, SendReadCmd
    <2>2. PICK r \in Nat : r = phy_registers_read
      BY DEF LinkInv, LinkTypeOK, MdioTypeOK
    <2>3. PICK command : command = ReadCommand(r)
      OBVIOUS
    <2>4. command \in [1 .. CommandBits -> Bit] /\ IsCommand(command, PHY_READ)
      BY <2>3, ReadCommandType, Commands
    <2>5. /\ write_enet_mdio = 1 /\ phy_drives = 0
          /\ count = 0 => phy_frame = <<>> /\ phy_ones = PreambleBits /\ enet_mdio = 1
          /\ count = 1 => phy_ones = PreambleBits
          /\ count >= 1 => /\ serial_rd_cmd_to_phy = command
                           /\ enet_mdio = command[count]
                           /\ Prefix(command, count - 1)
      BY <1>2, <2>1, <2>2, <2>3 DEF Aligned, InReadCommand, SendReadCmd
    <2>6. level = enet_mdio
      BY <2>5, PinFacts
    <2>7. Prefix(command, count)'
      BY <2>4, <2>5, <2>6, CommandBit
    <2>8. count < CommandBits => enet_mdio' = command[count + 1]
      <3>1. count < CommandBits => enet_mdio' = serial_rd_cmd_to_phy[count + 1]
        BY <1>2, <2>1 DEF SendReadCmd, SelectedBit
      <3>2. CASE count = 0
        BY <2>4, <3>1, <3>2 DEF FirstBit, IsCommand
      <3>3. CASE count >= 1
        BY <2>5, <3>1, <3>3
      <3> QED
        BY <3>2, <3>3
    <2> QED
      <3>1. Len(phy_frame') = count /\ \A i \in 1 .. count : phy_frame'[i] = command[i]
        BY <2>7 DEF Prefix
      <3>2. Cut(Append(phy_frame', enet_mdio'))
        BY <1>t, <2>3, <2>8, <3>1, CutPrefix
      <3> QED
        BY <3>2 DEF Cut
  <1>3. CASE SendWriteCmd
    <2>1. PICK count \in 0 .. CommandBits + 2 : count = enet_mdio_wr_cmd_count
      BY <1>3 DEF LinkInv, LinkTypeOK, MdioTypeOK, CountersInStep, SendWriteCmd
    <2>2. /\ write_enet_mdio = 1 /\ phy_drives = 0
          /\ count = 0 => phy_frame = <<>> /\ phy_ones = PreambleBits /\ enet_mdio = 1
          /\ count = 1 => phy_ones = PreambleBits
          /\ count \in 1 .. CommandBits + 1 =>
                enet_mdio = WriteCommand[count] /\ Prefix(WriteCommand, count - 1)
          /\ count > CommandBits =>
                /\ HeaderComplete /\ OperationOf(phy_frame) = PHY_WRITE
                /\ Len(phy_shift) = count - CommandBits - 1
      BY <1>3, <2>1 DEF Aligned, InWriteCommand, SendWriteCmd
    <2>3. WriteCommand \in [1 .. CommandBits + 2 -> Bit] /\ IsCommand(WriteCommand, PHY_WRITE)
      BY WriteCommandType, Commands
    <2>4. level = enet_mdio
      BY <2>2, PinFacts
    <2>5. CASE count <= CommandBits
      <3>1. count \in 0 .. CommandBits
            /\ (count >= 1 => enet_mdio = WriteCommand[count]
                              /\ Prefix(WriteCommand, count - 1))
        BY <2>2, <2>5
      <3>2. Prefix(WriteCommand, count)'
        BY <2>2, <2>3, <2>4, <3>1, CommandBit
      <3>3. enet_mdio' = WriteCommand[count + 1]
        BY <1>3, <2>1, <2>5 DEF SendWriteCmd, SelectedBit
      <3> QED
        <4>1. Len(phy_frame') = count
              /\ \A i \in 1 .. count : phy_frame'[i] = WriteCommand[i]
          BY <3>2 DEF Prefix
        <4>2. Cut(Append(phy_frame', enet_mdio'))
          BY <1>t, <3>1, <3>3, <4>1, CutPrefix
        <4> QED
          BY <4>2 DEF Cut
    <2>6. CASE count > CommandBits
      <3>1. Len(phy_shift) < DataBits + 1
        BY <2>2, <2>6
      <3>2. phy_frame' = phy_frame
        BY <1>b, <2>2, <2>6, <3>1, WriteBody
      <3> QED
        BY <1>c, <2>2, <2>6, <3>2
    <2> QED
      BY <2>5, <2>6
  <1>4. CASE SendWriteData
    <2>1. HeaderComplete /\ OperationOf(phy_frame) = PHY_WRITE
      BY <1>4 DEF Aligned, InWriteData, SendWriteData
    <2>2. Len(phy_shift) \in Nat
      BY DEF LinkInv, LinkTypeOK, PhyTypeOK
    <2>3. CASE Len(phy_shift) < DataBits + 1
      <3>1. phy_frame' = phy_frame
        BY <1>b, <2>1, <2>3, WriteBody
      <3> QED
        BY <1>c, <2>1, <3>1
    <2>4. CASE Len(phy_shift) >= DataBits + 1
      <3>1. Quiet'
        BY <1>b, <2>1, <2>4, WriteBody
      <3> QED
        BY <1>e, <3>1 DEF Quiet
    <2> QED
      BY <2>2, <2>3, <2>4
  <1>5. CASE \/ Reset \/ PostRstWaiting \/ Turnaround \/ Read(level)
             \/ StoreReadData \/ WaitForRamWrite \/ EnableLoopback
    <2>1. write_enet_mdio' = 0
      BY <1>5 DEF Reset, PostRstWaiting, Turnaround, Read, StoreReadData, WaitForRamWrite,
                  EnableLoopback, wire, Aligned, InWait, BetweenFrames
    <2> QED
      BY <2>1
  <1> QED
    BY <1>1, <1>2, <1>3, <1>4, <1>5 DEF MdcEdge

\* No frame is under way at power-up.
LEMMA CutInit ==
    ASSUME LinkInit
    PROVE  CutKept
  <1>1. phy_frame = <<>> /\ write_enet_mdio = 0
    BY DEF LinkInit, PhyInit, MdioInit
  <1>2. Cut(<<>>)
    BY CutShort, SizeFacts
  <1> QED
    BY <1>1, <1>2 DEF CutKept

\* Every step keeps the shape of a cut header.
LEMMA CutStep ==
    ASSUME LinkInv, LinkInv', Aligned, CutKept, [LinkNext]_linkVars
    PROVE  CutKept'
  <1>1. CASE MdcTick
    <2>1. PICK level \in PinLevels : MdcEdge(level) /\ PhyEdge(level)
      BY <1>1 DEF MdcTick
    <2>2. FirstBit
      BY DEF Aligned, FirstBit
    <2>3. Cut(phy_frame)'
      <3>1. Cut(phy_frame')
        BY <2>1, CutFrameEdge
      <3> QED
        BY <3>1 DEF Cut
    <2>4. write_enet_mdio' = 1 => Cut(Append(phy_frame, enet_mdio))'
      BY <2>1, <2>2, CutWireEdge
    <2> QED
      BY <2>3, <2>4 DEF CutKept
  <1>2. CASE UNCHANGED <<mdioVars, phyVars>>
    BY <1>2 DEF CutKept, Cut, mdioVars, phyVars, wire
  <1>3. MdcTick \/ UNCHANGED <<mdioVars, phyVars>>
    BY DEF LinkNext, Press, Release, RamAnswers, RamWithdraws, RxSeesButton, linkVars
  <1> QED
    BY <1>1, <1>2, <1>3

\* The register of a complete write frame is one a press can have made.
LEMMA TornRegister ==
    ASSUME LinkInv, CutKept, HeaderComplete, OperationOf(phy_frame) = PHY_WRITE
    PROVE  FrameRegister \in TornAddresses
  <1> USE SizeFacts, FrameFacts
  <1>1. Len(phy_frame) = CommandBits /\ Cut(phy_frame)
    BY DEF HeaderComplete, CutKept
  <1>2. \A i \in 1 .. 4 : phy_frame[i] = PHY_WRITE[i]
    <2>1. \A i \in 1 .. 4 : OperationOf(phy_frame)[i] = phy_frame[i]
      BY DEF OperationOf
    <2> QED
      BY <2>1
  <1>3. PICK k \in 0 .. RegAddrBits : \A i \in 1 .. RegAddrBits :
              4 + PhyAddrBits + i <= Len(phy_frame) =>
                 phy_frame[4 + PhyAddrBits + i] = IF i > k THEN 1 ELSE 0
    BY <1>1, <1>2 DEF Cut
  <1>4. \A i \in 1 .. RegAddrBits :
           phy_frame[4 + PhyAddrBits + i] = IF i > k THEN 1 ELSE 0
    <2>1. \A i \in 1 .. RegAddrBits : 4 + PhyAddrBits + i <= CommandBits
      OBVIOUS
    <2> QED
      BY <1>1, <1>3, <2>1
  <1>5. FrameRegister = [i \in 1 .. RegAddrBits |-> IF i > k THEN 1 ELSE 0]
    BY <1>4 DEF FrameRegister
  <1> QED
    BY <1>5 DEF TornAddresses

\* What a step may write into the PHY.
AllowedWrite ==
    phy_space' # phy_space =>
        \E r \in PhyAddress :
           /\ phy_space' = [phy_space EXCEPT ![r] = phy_space'[r]]
           /\ \/ /\ current_state = "SEND_WRITE_DATA_s"
                 /\ r = AddressOf(0) /\ phy_space'[r] \in LoopbackWords
              \/ /\ current_state \in {"RESET_s", "POST_RST_WAIT_s"}
                 /\ r \in TornAddresses

\* A step that changes the PHY writes the loopback word or finishes a torn frame.
LEMMA AllowedWriteStep ==
    ASSUME LinkInv, Aligned, HeaderKept, LoopbackKept, CutKept, [LinkNext]_linkVars
    PROVE  AllowedWrite
  <1> USE SizeFacts, FrameFacts
  <1> SUFFICES ASSUME phy_space' # phy_space
               PROVE  \E r \in PhyAddress :
                         /\ phy_space' = [phy_space EXCEPT ![r] = phy_space'[r]]
                         /\ \/ /\ current_state = "SEND_WRITE_DATA_s"
                               /\ r = AddressOf(0) /\ phy_space'[r] \in LoopbackWords
                            \/ /\ current_state \in {"RESET_s", "POST_RST_WAIT_s"}
                               /\ r \in TornAddresses
    BY DEF AllowedWrite
  <1>1. MdcTick
    BY DEF LinkNext, Press, Release, RamAnswers, RamWithdraws, RxSeesButton, linkVars, phyVars
  <1>2. PICK level \in PinLevels : MdcEdge(level) /\ PhyEdge(level)
    BY <1>1 DEF MdcTick
  <1>3. level \in Bit
    BY PinFacts
  <1>4. current_state \in {"RESET_s", "POST_RST_WAIT_s", "SEND_WRITE_DATA_s"}
    BY <1>2, SpaceStill
  <1>5. /\ HeaderComplete /\ OperationOf(phy_frame) = PHY_WRITE
        /\ Len(phy_shift) >= DataBits + 1
    <2>1. PhyReceive(level) /\ ~(Len(phy_shift) < DataBits + 1)
      BY <1>2 DEF PhyEdge, PhyIdle, PhyHeader, PhySend, PhyReceive
    <2>2. Len(phy_shift) \in Nat
      BY DEF LinkInv, LinkTypeOK, PhyTypeOK
    <2> QED
      BY <2>1, <2>2 DEF PhyReceive
  <1>6. CASE current_state \in {"RESET_s", "POST_RST_WAIT_s"}
    <2> DEFINE w == [i \in 1 .. DataBits |-> IF i = DataBits THEN level ELSE phy_shift[i + 2]]
    <2>1. phy_space' = [phy_space EXCEPT ![FrameRegister] = w]
      BY <1>2, <1>3, <1>5, WriteBodyData
    <2>2. FrameRegister \in TornAddresses
      BY <1>5, TornRegister
    <2>3. FrameRegister \in PhyAddress
      BY <2>2 DEF TornAddresses, PhyAddress, Bit
    <2>4. FrameRegister \in DOMAIN phy_space
      BY <2>3 DEF LinkInv, LinkTypeOK, PhyTypeOK
    <2> HIDE DEF w
    <2>5. PICK r \in PhyAddress : r = FrameRegister
      BY <2>3
    <2>6. phy_space' = [phy_space EXCEPT ![r] = w] /\ r \in DOMAIN phy_space
          /\ r \in TornAddresses
      BY <2>1, <2>2, <2>4, <2>5
    <2>7. phy_space'[r] = w
      BY <2>6
    <2>8. phy_space' = [phy_space EXCEPT ![r] = phy_space'[r]]
      BY <2>6, <2>7
    <2> QED
      BY <1>6, <2>6, <2>8
  <1>7. CASE current_state = "SEND_WRITE_DATA_s"
    <2>1. SendWriteData
      BY <1>2, <1>7 DEF MdcEdge, Reset, PostRstWaiting, Preamble, SendReadCmd, Turnaround,
         Read, StoreReadData, WaitForRamWrite, EnableLoopback, SendWriteCmd
    <2>2. WordWritten
      <3>1. Len(phy_shift) = enet_mdio_write_count + 2
            /\ enet_mdio_write_count < DataBits /\ enet_mdio_write_count \in Nat
        BY <1>7 DEF Aligned, InWriteData, LinkInv, LinkTypeOK, MdioTypeOK, CountersInStep
      <3> QED
        BY <1>5, <3>1 DEF WordWritten
    <2>3. PICK w \in LoopbackWords :
             /\ phy_space' = [phy_space EXCEPT ![AddressOf(0)] = w]
             /\ phy_space'[AddressOf(0)] = w
      BY <1>2, <2>1, <2>2, WrittenWord
    <2>4. AddressOf(0) \in PhyAddress
      BY FrameRegisterIs
    <2> QED
      BY <1>7, <2>3, <2>4
  <1> QED
    BY <1>4, <1>6, <1>7

\* The only register the design writes is register 0, with the loopback word
\* (altera_max_10.v:464-477).  A press in the middle of that frame lets the pull-up
\* finish it: it then goes to a register whose address is zeros followed by ones,
\* and is over before the design leaves POST_RST_WAIT_s; a press in the middle of a
\* read frame writes nothing at all.
THEOREM PhyWritesOnly == LinkSpec => PhyWrites
  <1>1. LinkInit => RequestHeld /\ Carried /\ CutKept
    BY RequestHeldInit, CarriedInit, CutInit
  <1>2. RequestHeld /\ [LinkNext]_linkVars => RequestHeld'
    BY RequestHeldStep
  <1>3. LinkInv /\ LinkInv' /\ Aligned /\ RequestHeld /\ Carried /\ [LinkNext]_linkVars
          => Carried'
    BY CarriedStep
  <1>4. LinkInv /\ LinkInv' /\ Aligned /\ CutKept /\ [LinkNext]_linkVars => CutKept'
    BY CutStep
  <1>5. LinkInv /\ Aligned /\ Carried /\ CutKept /\ [LinkNext]_linkVars => [AllowedWrite]_linkVars
    BY AllowedWriteStep DEF Carried
  <1> QED
    BY <1>1, <1>2, <1>3, <1>4, <1>5, LinkInvariance, AlignedInvariance, PTL
    DEF LinkSpec, PhyWrites, AllowedWrite

-----------------------------------------------------------------------------
(* The scan that the frames implement. *)

\* Without its fairness, which is TLC's part.
ScanSafety == Scan!Init /\ [][Scan!Next]_(Scan!scanVars)

\* The phase, as a function of the registers it depends on.
PhaseAt(state, set, loopback) ==
    IF state \in {"RESET_s", "POST_RST_WAIT_s"} THEN "off"
    ELSE IF state = "WAIT_FOR_RAM_WRITE_s"
         THEN IF loopback = 1 THEN "traffic" ELSE "save"
    ELSE IF \/ state \in {"ENABLE_LOOPBACK_s", "SEND_WRITE_CMD_s", "SEND_WRITE_DATA_s"}
            \/ set = 1
         THEN "configure"
    ELSE IF loopback = 1 THEN "rescan" ELSE "scan"

NextAt(phase, count) == IF phase \in {"scan", "rescan"} THEN count ELSE 0

\* The phase of the scan, state by state.
LEMMA PhaseCases ==
    ASSUME NEW state \in MdioState, NEW set, NEW loopback
    PROVE  /\ state \in {"RESET_s", "POST_RST_WAIT_s"} <=> PhaseAt(state, set, loopback) = "off"
           /\ state = "WAIT_FOR_RAM_WRITE_s" =>
                PhaseAt(state, set, loopback) = IF loopback = 1 THEN "traffic" ELSE "save"
           /\ state \in {"ENABLE_LOOPBACK_s", "SEND_WRITE_CMD_s", "SEND_WRITE_DATA_s"} =>
                PhaseAt(state, set, loopback) = "configure"
           /\ state \in {"PHY_PREAMBLE_s", "SEND_READ_CMD_s", "TURNAROUND_z_s",
                         "TURNAROUND_0_s", "READ_s", "STORE_READ_DATA_s"} =>
                PhaseAt(state, set, loopback) =
                   IF set = 1 THEN "configure" ELSE IF loopback = 1 THEN "rescan" ELSE "scan"
  BY DEF PhaseAt, MdioState

\* An untouched snapshot waits for the first read.
BlankKept ==
    current_state = "POST_RST_WAIT_s" => phy_reg = [r \in RegIndex |-> ZeroWord]

\* After a reset the snapshot is blank until the first register is stored.
LEMMA BlankStep ==
    ASSUME LinkInv, BlankKept, [LinkNext]_linkVars
    PROVE  BlankKept'
  <1>1. CASE MdcTick
    <2>1. PICK level \in PinLevels : MdcEdge(level)
      BY <1>1 DEF MdcTick
    <2>2. CASE Reset \/ PostRstWaiting
      BY <2>2 DEF Reset, PostRstWaiting, BlankKept, RegIndex, ZeroWord
    <2>3. CASE ~(Reset \/ PostRstWaiting)
      <3>1. current_state' # "POST_RST_WAIT_s"
        BY <2>1, <2>3 DEF MdcEdge, Preamble, SendReadCmd, Turnaround, Read, StoreReadData,
           WaitForRamWrite, EnableLoopback, SendWriteCmd, SendWriteData, Goto
      <3> QED
        BY <3>1 DEF BlankKept
    <2> QED
      BY <2>2, <2>3
  <1>2. CASE UNCHANGED <<mdioVars, phyVars>>
    BY <1>2 DEF BlankKept, mdioVars, RegIndex, ZeroWord
  <1>3. MdcTick \/ UNCHANGED <<mdioVars, phyVars>>
    BY DEF LinkNext, Press, Release, RamAnswers, RamWithdraws, RxSeesButton, linkVars
  <1> QED
    BY <1>1, <1>2, <1>3

\* A frame that a press cut short has run out before the last edge of the wait.
LEMMA WaitOver ==
    ASSUME LinkInv, Aligned, PostRstWait > RegAddrBits + DataBits + 1, NEW level,
           PostRstWaiting, PostRstWaited, PhyEdge(level)
    PROVE  UNCHANGED phy_space
  <1> USE SizeFacts, FrameFacts
  <1>1. phy_wait_after_reset_count = PostRstWait /\ Draining(PostRstWait)
    BY DEF PostRstWaiting, PostRstWaited, Aligned, InWait
  <1>2. Len(phy_shift) \in Nat /\ Len(phy_shift) <= DataBits + 1
    BY DEF LinkInv, LinkTypeOK, PhyTypeOK
  <1>3. ~(HeaderComplete /\ OperationOf(phy_frame) = PHY_WRITE)
    BY <1>1, <1>2 DEF Draining
  <1> QED
    BY <1>3 DEF PhyEdge, PhyIdle, PhyHeader, PhySend, PhyReceive

\* The steps of the scan, on the values before and after an edge.
ScanStep(p, n, snap, space, p2, n2, snap2, space2) ==
    \/ /\ p2 = p /\ n2 = n /\ snap2 = snap /\ space2 = space
    \/ /\ p = "off" /\ p2 = "scan" /\ n2 = n
       /\ snap = [r \in RegIndex |-> ZeroWord] /\ snap2 = snap /\ space2 = space
    \/ /\ p \in {"scan", "rescan"} /\ space2 = space
       /\ snap2 = [snap EXCEPT ![n] = space[AddressOf(n)]]
       /\ IF n < NumRegs - 1 THEN n2 = n + 1 /\ p2 = p
          ELSE n2 = 0 /\ p2 = (IF p = "scan" THEN "save" ELSE "traffic")
    \/ /\ p = "save" /\ p2 = "configure" /\ n2 = n /\ snap2 = snap /\ space2 = space
    \/ /\ p = "configure" /\ p2 = "rescan" /\ n2 = n /\ snap2 = snap
       /\ \E w \in LoopbackWords : space2 = [space EXCEPT ![AddressOf(0)] = w]
    \/ /\ p # "off" /\ p2 = "off" /\ n2 = 0
       /\ \/ snap2 = snap /\ space2 = space
          \/ /\ p \in {"scan", "rescan"} /\ space2 = space
             /\ snap2 = [snap EXCEPT ![n] = space[AddressOf(n)]]
          \/ /\ p = "configure" /\ snap2 = snap
             /\ \E w \in LoopbackWords : space2 = [space EXCEPT ![AddressOf(0)] = w]
    \/ /\ p = "off" /\ p2 = "off" /\ n2 = n
       /\ snap2 = snap \/ snap2 = [r \in RegIndex |-> ZeroWord]
       /\ \/ space2 = space
          \/ /\ space2 \in [PhyAddress -> Word]
             /\ \E r \in TornAddresses : space2 = [space EXCEPT ![r] = space2[r]]

\* ScanStep, which is written for this proof, is a step of RegisterScan or a stutter.
LEMMA ScanStepIsNext ==
    ASSUME ScanStep(ScanPhase, NextAt(ScanPhase, phy_registers_read), phy_reg, phy_space,
                    ScanPhase', NextAt(ScanPhase', phy_registers_read'), phy_reg', phy_space')
    PROVE  [Scan!Next]_(Scan!scanVars)
  <1> DEFINE n == NextAt(ScanPhase, phy_registers_read)
             n2 == NextAt(ScanPhase', phy_registers_read')
  <1>1. n = (IF ScanPhase \in {"scan", "rescan"} THEN phy_registers_read ELSE 0)
        /\ n2 = (IF ScanPhase \in {"scan", "rescan"} THEN phy_registers_read ELSE 0)'
    BY DEF NextAt
  <1> QED
    BY <1>1 DEF ScanStep, Scan!Next, Scan!scanVars, Scan!Start, Scan!Stored,
       Scan!ReadRegister, Scan!Saved, Scan!Configure, Scan!Reset, Scan!Forget, Scan!Tear,
       Scan!ForgetAndTear, Scan!DeviceTorn

\* An edge is a step of the scan or none.
LEMMA ScanEdge ==
    ASSUME LinkInv, LinkInv', Aligned, Carried, BlankKept, AllowedWrite,
           PostRstWait > RegAddrBits + DataBits + 1,
           NEW level \in PinLevels, MdcEdge(level), PhyEdge(level)
    PROVE  ScanStep(ScanPhase, NextAt(ScanPhase, phy_registers_read), phy_reg, phy_space,
                    ScanPhase', NextAt(ScanPhase', phy_registers_read'), phy_reg', phy_space')
  <1>m. PICK n : n = NextAt(ScanPhase, phy_registers_read)
    OBVIOUS
  <1>m2. PICK n2 : n2 = NextAt(ScanPhase', phy_registers_read')
    OBVIOUS
  <1> SUFFICES ScanStep(ScanPhase, n, phy_reg, phy_space,
                        ScanPhase', n2, phy_reg', phy_space')
    BY <1>m, <1>m2
  <1>t. /\ current_state \in MdioState /\ current_state' \in MdioState
        /\ phy_space' \in [PhyAddress -> Word]
        /\ set_reg0_to_loopback \in Bit /\ reg0_in_loopback \in Bit
    BY DEF LinkInv, LinkTypeOK, MdioTypeOK, PhyTypeOK
  <1>p. /\ ScanPhase = PhaseAt(current_state, set_reg0_to_loopback, reg0_in_loopback)
        /\ ScanPhase' = PhaseAt(current_state', set_reg0_to_loopback', reg0_in_loopback')
    BY DEF ScanPhase, PhaseAt
  <1>q. /\ current_state \in {"RESET_s", "POST_RST_WAIT_s"} <=> ScanPhase = "off"
        /\ current_state = "WAIT_FOR_RAM_WRITE_s" =>
              ScanPhase = IF reg0_in_loopback = 1 THEN "traffic" ELSE "save"
        /\ current_state \in {"ENABLE_LOOPBACK_s", "SEND_WRITE_CMD_s", "SEND_WRITE_DATA_s"} =>
              ScanPhase = "configure"
        /\ current_state \in {"PHY_PREAMBLE_s", "SEND_READ_CMD_s", "TURNAROUND_z_s",
                              "TURNAROUND_0_s", "READ_s", "STORE_READ_DATA_s"} =>
              ScanPhase = IF set_reg0_to_loopback = 1 THEN "configure"
                          ELSE IF reg0_in_loopback = 1 THEN "rescan" ELSE "scan"
    BY <1>t, <1>p, PhaseCases
  <1>r. /\ current_state' \in {"RESET_s", "POST_RST_WAIT_s"} <=> ScanPhase' = "off"
        /\ current_state' = "WAIT_FOR_RAM_WRITE_s" =>
              ScanPhase' = IF reg0_in_loopback' = 1 THEN "traffic" ELSE "save"
        /\ current_state' \in {"ENABLE_LOOPBACK_s", "SEND_WRITE_CMD_s", "SEND_WRITE_DATA_s"} =>
              ScanPhase' = "configure"
        /\ current_state' \in {"PHY_PREAMBLE_s", "SEND_READ_CMD_s", "TURNAROUND_z_s",
                               "TURNAROUND_0_s", "READ_s", "STORE_READ_DATA_s"} =>
              ScanPhase' = IF set_reg0_to_loopback' = 1 THEN "configure"
                           ELSE IF reg0_in_loopback' = 1 THEN "rescan" ELSE "scan"
    BY <1>t, <1>p, PhaseCases
  <1>n. /\ n = IF ScanPhase \in {"scan", "rescan"} THEN phy_registers_read ELSE 0
        /\ n2 = IF ScanPhase' \in {"scan", "rescan"} THEN phy_registers_read' ELSE 0
    BY <1>m, <1>m2 DEF NextAt
  <1>s. HeaderKept /\ WordKept /\ LoopbackKept /\ SnapshotKept /\ FlagsKept
    BY DEF Carried
  <1>z. ASSUME ScanPhase # "off", current_state' = "RESET_s", UNCHANGED <<phy_reg, phy_space>>
        PROVE  ScanStep(ScanPhase, n, phy_reg, phy_space, ScanPhase', n2, phy_reg', phy_space')
    BY <1>n, <1>r, <1>z DEF ScanStep
  <1>w. ASSUME ScanPhase' = ScanPhase, UNCHANGED <<phy_registers_read, phy_reg, phy_space>>
        PROVE  ScanStep(ScanPhase, n, phy_reg, phy_space, ScanPhase', n2, phy_reg', phy_space')
    BY <1>n, <1>w DEF ScanStep
  <1>o. ASSUME current_state \in {"RESET_s", "POST_RST_WAIT_s"},
               current_state' \in {"RESET_s", "POST_RST_WAIT_s"},
               phy_reg' = phy_reg \/ phy_reg' = [r \in RegIndex |-> ZeroWord]
        PROVE  ScanStep(ScanPhase, n, phy_reg, phy_space, ScanPhase', n2, phy_reg', phy_space')
    <2>1. ScanPhase = "off" /\ ScanPhase' = "off" /\ n = 0 /\ n2 = 0
      BY <1>n, <1>o, <1>q, <1>r
    <2>2. \/ phy_space' = phy_space
          \/ \E r \in TornAddresses : phy_space' = [phy_space EXCEPT ![r] = phy_space'[r]]
      BY <1>o DEF AllowedWrite
    <2> QED
      BY <1>o, <1>t, <2>1, <2>2 DEF ScanStep
  <1>1. CASE Reset
    BY <1>1, <1>o DEF Reset, Goto
  <1>2. CASE PostRstWaiting
    <2>1. CASE current_state' = "PHY_PREAMBLE_s"
      <3>1. PostRstWaited
        BY <1>2, <2>1 DEF PostRstWaiting, Goto
      <3>2. phy_space' = phy_space
        BY <1>2, <3>1, WaitOver
      <3>3. /\ reg0_in_loopback' = 0 /\ set_reg0_to_loopback' # 1
            /\ phy_registers_read' = 0 /\ phy_reg' = phy_reg
            /\ phy_reg = [r \in RegIndex |-> ZeroWord] /\ current_state = "POST_RST_WAIT_s"
        BY <1>2, <1>s DEF PostRstWaiting, FlagsKept, SnapshotKept, BlankKept, loopbackFlags
      <3>4. ScanPhase = "off" /\ ScanPhase' = "scan"
        BY <1>q, <1>r, <2>1, <3>3
      <3> QED
        BY <1>n, <3>2, <3>3, <3>4 DEF ScanStep
    <2>2. CASE current_state' # "PHY_PREAMBLE_s"
      BY <1>2, <1>o, <2>2 DEF PostRstWaiting, Goto
    <2> QED
      BY <2>1, <2>2
  <1>3. CASE Preamble \/ SendReadCmd \/ Turnaround \/ Read(level)
    <2>1. current_state \in {"PHY_PREAMBLE_s", "SEND_READ_CMD_s", "TURNAROUND_z_s",
                             "TURNAROUND_0_s", "READ_s"}
      BY <1>3 DEF Preamble, SendReadCmd, Turnaround, Read
    <2>2. /\ UNCHANGED <<phy_registers_read, phy_reg>>
          /\ set_reg0_to_loopback' = set_reg0_to_loopback
          /\ reg0_in_loopback' = reg0_in_loopback
      BY <1>3 DEF Preamble, SendReadCmd, Turnaround, Read, loopbackFlags
    <2>3. phy_space' = phy_space
      BY <2>1, SpaceStill
    <2>4. ScanPhase # "off"
      BY <1>q, <2>1
    <2>5. CASE current_state' = "RESET_s"
      BY <1>z, <2>2, <2>3, <2>4, <2>5
    <2>6. CASE current_state' # "RESET_s"
      <3>1. /\ current_state' \in {"PHY_PREAMBLE_s", "SEND_READ_CMD_s", "SEND_WRITE_CMD_s",
                                   "TURNAROUND_z_s", "TURNAROUND_0_s", "READ_s",
                                   "STORE_READ_DATA_s"}
            /\ current_state' = "SEND_WRITE_CMD_s" => set_reg0_to_loopback = 1
        BY <1>3, <2>6 DEF Preamble, SendReadCmd, Turnaround, Read, Goto
      <3>2. ScanPhase' = ScanPhase
        BY <1>q, <1>r, <2>1, <2>2, <3>1
      <3> QED
        BY <1>w, <2>2, <2>3, <3>2
    <2> QED
      BY <2>5, <2>6
  <1>4. CASE EnableLoopback \/ SendWriteCmd
    <2>1. current_state \in {"ENABLE_LOOPBACK_s", "SEND_WRITE_CMD_s"}
      BY <1>4 DEF EnableLoopback, SendWriteCmd
    <2>2. /\ UNCHANGED <<phy_registers_read, phy_reg>>
          /\ current_state' = "PHY_PREAMBLE_s" => set_reg0_to_loopback' = 1
          /\ current_state' \in {"RESET_s", "PHY_PREAMBLE_s", "SEND_WRITE_CMD_s",
                                 "SEND_WRITE_DATA_s"}
      BY <1>4 DEF EnableLoopback, SendWriteCmd, Goto
    <2>3. phy_space' = phy_space
      BY <2>1, SpaceStill
    <2>4. ScanPhase = "configure"
      BY <1>q, <2>1
    <2>5. current_state' # "RESET_s" => ScanPhase' = "configure"
      BY <1>r, <2>2
    <2> QED
      BY <1>z, <1>w, <2>2, <2>3, <2>4, <2>5
  <1>5. CASE StoreReadData
    <2>1. PICK r \in RegIndex : r = phy_registers_read
      <3>1. phy_registers_read \in 0 .. NumRegs /\ phy_registers_read < NumRegs
        BY <1>5 DEF StoreReadData, LinkInv, CountersInStep, LinkTypeOK, MdioTypeOK
      <3> QED
        BY <3>1, SizeFacts DEF RegIndex
    <2>2. set_reg0_to_loopback = 0
      BY <1>5, <1>s, <1>t DEF StoreReadData, SnapshotKept, Bit
    <2>3. ScanPhase = IF reg0_in_loopback = 1 THEN "rescan" ELSE "scan"
      BY <1>5, <1>q, <2>2 DEF StoreReadData
    <2>4. bits_read_from_phy = phy_space[AddressOf(r)]
      BY <1>5, <1>s, <2>1 DEF StoreReadData, WordKept, Source
    <2>5. phy_space' = phy_space
      BY <1>5, SpaceStill DEF StoreReadData
    <2>6. /\ phy_reg' = [phy_reg EXCEPT ![r] = phy_space[AddressOf(r)]]
          /\ phy_registers_read' = r + 1
          /\ set_reg0_to_loopback' = 0 /\ reg0_in_loopback' = reg0_in_loopback
      BY <1>5, <2>1, <2>2, <2>4 DEF StoreReadData, loopbackFlags
    <2>7. n = r
      BY <1>n, <2>1, <2>3
    <2>8. CASE current_state' = "RESET_s"
      <3>1. ScanPhase' = "off" /\ n2 = 0
        BY <1>n, <1>r, <2>8
      <3> QED
        BY <2>3, <2>5, <2>6, <2>7, <3>1 DEF ScanStep
    <2>9. CASE current_state' # "RESET_s" /\ r = NumRegs - 1
      <3>1. current_state' = "WAIT_FOR_RAM_WRITE_s"
        BY <1>5, <2>1, <2>9 DEF StoreReadData, LastRegister, Goto
      <3>2. ScanPhase' = (IF ScanPhase = "scan" THEN "save" ELSE "traffic") /\ n2 = 0
        BY <1>n, <1>r, <2>3, <2>6, <3>1
      <3>3. ~(n < NumRegs - 1)
        BY <2>7, <2>9, SizeFacts
      <3> QED
        BY <2>3, <2>5, <2>6, <2>7, <3>2, <3>3 DEF ScanStep
    <2>10. CASE current_state' # "RESET_s" /\ r # NumRegs - 1
      <3>1. current_state' = "PHY_PREAMBLE_s"
        BY <1>5, <2>1, <2>10 DEF StoreReadData, LastRegister, Goto
      <3>2. ScanPhase' = ScanPhase /\ n2 = r + 1
        BY <1>n, <1>r, <2>3, <2>6, <3>1
      <3>3. n < NumRegs - 1
        BY <2>7, <2>10, SizeFacts DEF RegIndex
      <3> QED
        BY <2>3, <2>5, <2>6, <2>7, <3>2, <3>3 DEF ScanStep
    <2> QED
      BY <2>8, <2>9, <2>10
  <1>6. CASE WaitForRamWrite
    <2>1. phy_space' = phy_space
      BY <1>6, SpaceStill DEF WaitForRamWrite
    <2>2. /\ phy_reg' = phy_reg /\ reg0_in_loopback' = reg0_in_loopback
          /\ current_state' \in {"RESET_s", "WAIT_FOR_RAM_WRITE_s", "ENABLE_LOOPBACK_s"}
          /\ current_state' = "ENABLE_LOOPBACK_s" => reg0_in_loopback = 0
      BY <1>6 DEF WaitForRamWrite, RamSaved, Goto, loopbackFlags
    <2>3. ScanPhase = (IF reg0_in_loopback = 1 THEN "traffic" ELSE "save") /\ n = 0
      BY <1>6, <1>n, <1>q DEF WaitForRamWrite
    <2>4. CASE current_state' = "RESET_s"
      BY <1>z, <2>1, <2>2, <2>3, <2>4
    <2>5. CASE current_state' = "WAIT_FOR_RAM_WRITE_s"
      <3>1. ScanPhase' = ScanPhase /\ n2 = 0
        BY <1>n, <1>r, <2>2, <2>3, <2>5
      <3> QED
        BY <2>1, <2>2, <2>3, <3>1 DEF ScanStep
    <2>6. CASE current_state' = "ENABLE_LOOPBACK_s"
      <3>1. ScanPhase = "save" /\ ScanPhase' = "configure" /\ n2 = 0
        BY <1>n, <1>r, <2>2, <2>3, <2>6
      <3> QED
        BY <2>1, <2>2, <2>3, <3>1 DEF ScanStep
    <2> QED
      BY <2>2, <2>4, <2>5, <2>6
  <1>7. CASE SendWriteData
    <2>1. /\ current_state = "SEND_WRITE_DATA_s"
          /\ phy_reg' = phy_reg /\ phy_registers_read' = 0 /\ phy_registers_read = 0
          /\ set_reg0_to_loopback' = 0 /\ reg0_in_loopback' = 1
      BY <1>7, <1>s DEF SendWriteData, SnapshotKept
    <2>2. ScanPhase = "configure" /\ n = 0 /\ n2 = 0
      BY <1>n, <1>q, <2>1
    <2>3. CASE WordWritten
      <3>1. \E w \in LoopbackWords : phy_space' = [phy_space EXCEPT ![AddressOf(0)] = w]
        BY <1>7, <1>s, <2>3, WrittenWord
      <3>2. current_state' \in {"RESET_s", "PHY_PREAMBLE_s"}
        BY <1>7, <2>3 DEF SendWriteData, Goto
      <3>3. ScanPhase' = IF current_state' = "RESET_s" THEN "off" ELSE "rescan"
        BY <1>r, <2>1, <3>2
      <3> QED
        BY <2>1, <2>2, <3>1, <3>3 DEF ScanStep
    <2>4. CASE ~WordWritten
      <3>1. phy_space' = phy_space
        <4>1. /\ Len(phy_shift) = enet_mdio_write_count + 2
              /\ enet_mdio_write_count < DataBits /\ enet_mdio_write_count \in Nat
          BY <2>1 DEF Aligned, InWriteData, LinkInv, LinkTypeOK, MdioTypeOK, CountersInStep
        <4>2. Len(phy_shift) < DataBits + 1
          BY <2>4, <4>1, SizeFacts DEF WordWritten
        <4> QED
          BY <4>2 DEF PhyEdge, PhyIdle, PhyHeader, PhySend, PhyReceive
      <3>2. current_state' \in {"RESET_s", "SEND_WRITE_DATA_s"}
        BY <1>7, <2>4 DEF SendWriteData, Goto
      <3>3. CASE current_state' = "RESET_s"
        BY <1>z, <2>1, <2>2, <3>1, <3>3
      <3>4. CASE current_state' = "SEND_WRITE_DATA_s"
        <4>1. ScanPhase' = ScanPhase
          BY <1>r, <2>2, <3>4
        <4> QED
          BY <1>w, <2>1, <3>1, <4>1
      <3> QED
        BY <3>2, <3>3, <3>4
    <2> QED
      BY <2>3, <2>4
  <1> QED
    BY <1>1, <1>2, <1>3, <1>4, <1>5, <1>6, <1>7 DEF MdcEdge

\* Every step of the link is one of them.
LEMMA ScanLinkStep ==
    ASSUME LinkInv, LinkInv', Aligned, Carried, BlankKept, CutKept, [LinkNext]_linkVars,
           PostRstWait > RegAddrBits + DataBits + 1
    PROVE  [Scan!Next]_(Scan!scanVars)
  <1>1. CASE MdcTick
    <2>1. PICK level \in PinLevels : MdcEdge(level) /\ PhyEdge(level)
      BY <1>1 DEF MdcTick
    <2>2. AllowedWrite
      BY AllowedWriteStep DEF Carried
    <2> QED
      BY <2>1, <2>2, ScanEdge, ScanStepIsNext
  <1>2. CASE UNCHANGED <<mdioVars, phyVars>>
    <2>1. UNCHANGED <<ScanPhase, phy_registers_read, phy_reg, phy_space>>
      BY <1>2 DEF ScanPhase, mdioVars, phyVars, loopbackFlags
    <2> QED
      BY <2>1, ScanStepIsNext DEF ScanStep, NextAt
  <1>3. MdcTick \/ UNCHANGED <<mdioVars, phyVars>>
    BY DEF LinkNext, Press, Release, RamAnswers, RamWithdraws, RxSeesButton, linkVars
  <1> QED
    BY <1>1, <1>2, <1>3

\* MDIO frames, bit by bit and with a reset at any edge, implement the reading and
\* writing of whole registers in the order of RegisterScan
\* (altera_max_10.v:328-551), for all widths.  The wait after a reset is one edge
\* longer than LinkAssumption asks for, so that the last bit of a torn frame does
\* not come with the first edge of the scan; the liveness of RegisterScan is left
\* to the run.
THEOREM LinkImplementsScan ==
    ASSUME PostRstWait > RegAddrBits + DataBits + 1
    PROVE  LinkSpec => ScanSafety
  <1>1. LinkInit => RequestHeld /\ Carried /\ CutKept /\ BlankKept /\ Scan!Init
    <2>1. LinkInit => Scan!Init
      BY LinkAssumption DEF LinkInit, SignalsInit, MdioInit, ScanPhase, Scan!Init
    <2>2. LinkInit => BlankKept
      BY DEF LinkInit, MdioInit, BlankKept
    <2> QED
      BY <2>1, <2>2, RequestHeldInit, CarriedInit, CutInit
  <1>2. RequestHeld /\ [LinkNext]_linkVars => RequestHeld'
    BY RequestHeldStep
  <1>3. LinkInv /\ LinkInv' /\ Aligned /\ RequestHeld /\ Carried /\ [LinkNext]_linkVars
          => Carried'
    BY CarriedStep
  <1>4. LinkInv /\ LinkInv' /\ Aligned /\ CutKept /\ [LinkNext]_linkVars => CutKept'
    BY CutStep
  <1>5. LinkInv /\ BlankKept /\ [LinkNext]_linkVars => BlankKept'
    BY BlankStep
  <1>6. LinkInv /\ LinkInv' /\ Aligned /\ Carried /\ BlankKept /\ CutKept /\ [LinkNext]_linkVars
          => [Scan!Next]_(Scan!scanVars)
    BY ScanLinkStep
  <1> QED
    BY <1>1, <1>2, <1>3, <1>4, <1>5, <1>6, LinkInvariance, AlignedInvariance, PTL
    DEF LinkSpec, ScanSafety

-----------------------------------------------------------------------------
(***************************************************************************)
(*                            The whole design                             *)
(***************************************************************************)
-----------------------------------------------------------------------------
(* Sizes. *)

\* What the assumptions say of the constants.
LEMMA TopSizes ==
    /\ NumRegs \in Nat /\ NumRegs >= 2
    /\ WritesPerReg \in Nat /\ WritesPerReg >= 1
    /\ WaitPeriod \in Nat /\ WaitPeriod >= 7
    /\ FirstAddr \in Nat /\ RamWords \in Nat /\ FirstAddr < RamWords
    /\ BlockWords \in Nat
    /\ FirstAddr + 2 * BlockWords < RamWords
    /\ ResetMdcEdges \in Nat /\ ResetMdcEdges >= 2
    /\ ResetRxEdges \in Nat /\ ResetRxEdges >= 1
    /\ MaxMdcPerRx \in Nat
  <1>1. \A m, n \in Nat : m * n \in Nat
    OBVIOUS
  <1> QED
    BY <1>1, SizesAssumption, RamAssumption, TopAssumption, ButtonAssumption DEF BlockWords

\* Multiplication by the number of words of a register.
LEMMA WholeRegisters ==
    ASSUME NEW W \in Nat, NEW n \in Nat
    PROVE  /\ n * W \in Nat
           /\ 0 * W = 0
           /\ (n + 1) * W = n * W + W
  OBVIOUS

\* The words of whole registers never exceed those of more whole registers.
LEMMA MoreRegisters ==
    ASSUME NEW W \in Nat, NEW m \in Nat, NEW n \in Nat, m <= n
    PROVE  m * W <= n * W
  <1>1. PICK d \in Nat : n = m + d
    <2>1. n - m \in Nat /\ n = m + (n - m)
      OBVIOUS
    <2> QED
      BY <2>1
  <1>2. n * W = m * W + d * W
    BY <1>1
  <1>3. d * W \in Nat /\ m * W \in Nat
    OBVIOUS
  <1> QED
    BY <1>2, <1>3

-----------------------------------------------------------------------------
(* The RAM writer implements the handshake that MdioLink has in its place. *)

\* An edge of the writer answers, withdraws, or is not noticed by the link.
LEMMA WriterAnswersLink ==
    ASSUME LinkTypeOK, RxDomain
    PROVE  RamAnswers \/ RamWithdraws \/ RxSeesButton
  <1> USE DEF RxDomain, RamEdge
  <1>t. phy_reg_write_done \in Bit
    BY DEF LinkTypeOK, SignalsTypeOK
  <1>1. CASE WriterResets
    BY <1>1, <1>t DEF WriterResets, RamWithdraws, RxSeesButton, Bit
  <1>2. CASE WriterFull \/ WriterSetsUp \/ WriterStrobes \/ WriterReleases
    BY <1>2 DEF WriterFull, WriterSetsUp, WriterStrobes, WriterReleases, Copying,
                RxSeesButton
  <1>3. CASE WriterIdle
    BY <1>3, <1>t DEF WriterIdle, RamWithdraws, RxSeesButton, Bit
  <1>4. CASE WriterAnswers
    BY <1>4, <1>t DEF WriterAnswers, Running, RamAnswers, RxSeesButton, Bit
  <1> QED
    BY <1>1, <1>2, <1>3, <1>4

\* Every step of the design is a step of the link, or leaves it alone.
LEMMA TopStepsLink ==
    ASSUME LinkTypeOK, [Next]_vars
    PROVE  [LinkNext]_linkVars
  <1>1. CASE MdcDomain \/ ButtonDown \/ ButtonUp
    BY <1>1 DEF MdcDomain, ButtonDown, ButtonUp, LinkNext
  <1>2. CASE RxDomain
    BY <1>2, WriterAnswersLink DEF LinkNext
  <1>3. CASE UNCHANGED vars
    BY <1>3 DEF vars
  <1> QED
    BY <1>1, <1>2, <1>3 DEF Next

\* The ranges of the link hold in the whole design: the writer keeps to the handshake
\* of altera_max_10.v:130-135 and :207-211.
THEOREM TopLinkInvariance == Spec => []LinkInv
  <1>1. Init => LinkInv
    BY LinkInvInit DEF Init
  <1>2. LinkInv /\ [Next]_vars => LinkInv'
    BY TopStepsLink, LinkInvStep DEF LinkInv
  <1> QED
    BY <1>1, <1>2, PTL DEF Spec

-----------------------------------------------------------------------------
(* Types of the RAM writer and of the frame sender. *)

\* The writer is in its types at power-up.
LEMMA RamInitTypes ==
    ASSUME Init
    PROVE  RamTypeOK
  BY TopSizes DEF Init, RamInit, RamTypeOK, RamIndex, RamValues, Bit

\* The memory takes words only.
LEMMA RamPortTypes ==
    ASSUME RamTypeOK, RamPort
    PROVE  ram' \in [RamIndex -> RamValues]
  <1>1. onchip_memory2_0_s1_writedata \in RamValues /\ ram \in [RamIndex -> RamValues]
    BY DEF RamTypeOK
  <1> QED
    BY <1>1 DEF RamPort

\* Every branch of the writer keeps its types.
LEMMA RamEdgeTypes ==
    ASSUME RamTypeOK, SignalsTypeOK, RamEdge
    PROVE  RamTypeOK'
  <1> USE TopSizes
  <1> USE DEF RamTypeOK
  <1>r. ram' \in [RamIndex -> RamValues]
    BY RamPortTypes DEF RamEdge
  <1>w. NextWait \in 0 .. WaitPeriod - 1
    BY DEF NextWait
  <1>1. CASE WriterResets
    BY <1>1, <1>r DEF WriterResets, StartAddress, RamValues, Bit
  <1>2. CASE WriterFull
    BY <1>2, <1>r DEF WriterFull, progress, Bit
  <1>3. CASE WriterIdle
    BY <1>3, <1>r, <1>w DEF WriterIdle, Running, port
  <1>4. CASE WriterSetsUp
    <2>1. phy_regs_written_to_ram \in RegIndex
      BY <1>4 DEF WriterSetsUp, Copying, RegIndex
    <2>2. RegWord(phy_regs_written_to_ram) \in RamValues
      BY <2>1 DEF RegWord, RamValues, SignalsTypeOK
    <2>3. SetUpWord \in RamValues
      BY <2>2 DEF SetUpWord, RamValues
    <2>4. onchip_memory2_0_s1_address' \in 0 .. RamWords
      BY <1>4 DEF WriterSetsUp, Copying, Running, Room
    <2>5. /\ ram_writes_per_phy_addr' \in 0 .. WritesPerReg - 1
          /\ phy_regs_written_to_ram' \in 0 .. NumRegs
      BY <1>4 DEF WriterSetsUp, Copying, LastCopy
    <2>6. add_delimiter' \in Bit
      BY <1>4 DEF WriterSetsUp, Bit
    <2> QED
      BY <1>4, <1>r, <1>w, <2>3, <2>4, <2>5, <2>6 DEF WriterSetsUp, Copying, Running
  <1>5. CASE WriterStrobes \/ WriterReleases
    BY <1>5, <1>r, <1>w DEF WriterStrobes, WriterReleases, Copying, Running, progress, Bit
  <1>6. CASE WriterAnswers
    BY <1>6, <1>r, <1>w DEF WriterAnswers, Running, port, progress
  <1> QED
    BY <1>1, <1>2, <1>3, <1>4, <1>5, <1>6 DEF RamEdge

\* So does every step of the design.
LEMMA RamStepTypes ==
    ASSUME RamTypeOK, SignalsTypeOK, [Next]_vars
    PROVE  RamTypeOK'
  <1>1. CASE RxDomain
    BY <1>1, RamEdgeTypes DEF RxDomain
  <1>2. CASE UNCHANGED rxVars
    BY <1>2 DEF rxVars, port, progress, RamTypeOK
  <1>3. RxDomain \/ UNCHANGED rxVars
    BY DEF Next, MdcDomain, ButtonDown, ButtonUp, vars
  <1> QED
    BY <1>1, <1>2, <1>3

\* The field being sent is not sent yet, and the fields after it are not begun.
TxInStep ==
    to_phy_cur_state \in Fields =>
        /\ phy_field_count[to_phy_cur_state] < FieldBits[to_phy_cur_state]
        /\ \A g \in Fields : g > to_phy_cur_state => phy_field_count[g] = 0

TxInv == TxTypeOK /\ TxInStep

\* What the assumptions say of the fields.
LEMMA FieldFacts ==
    /\ Len(FieldBits) \in Nat
    /\ Fields = 1 .. Len(FieldBits)
    /\ \A f \in Fields : FieldBits[f] \in Nat /\ FieldBits[f] >= 1
    /\ NO_BIT \in TxBit
  <1>1. FieldBits \in Seq(Nat \ {0})
    BY FieldAssumption
  <1>2. /\ Len(FieldBits) \in Nat
        /\ FieldBits \in [1 .. Len(FieldBits) -> Nat \ {0}]
        /\ DOMAIN FieldBits = 1 .. Len(FieldBits)
    BY <1>1, LenProperties
  <1>3. \A f \in Fields : FieldBits[f] \in Nat \ {0}
    BY <1>2 DEF Fields
  <1> QED
    BY <1>2, <1>3 DEF Fields, TxBit

\* The sender is in its types at power-up.
LEMMA TxInitInv ==
    ASSUME Init
    PROVE  TxInv
  <1>1. to_phy_cur_state = 0 /\ 0 \notin Fields
    BY FieldFacts DEF Init, TxInit, TO_PHY_RESET_s
  <1> QED
    BY <1>1, FieldFacts
    DEF Init, TxInit, TxInv, TxTypeOK, TxInStep, TO_PHY_RESET_s, TO_PHY_READ_LB_PKT_s, Bit

\* The counters of the fields pass no last value.
LEMMA TxEdgeInv ==
    ASSUME TxInv, TxEdge
    PROVE  TxInv'
  <1> USE FieldFacts
  <1> USE DEF TxInv, TxTypeOK, TO_PHY_RESET_s, TO_PHY_READ_LB_PKT_s
  <1>1. CASE TxReset
    BY <1>1 DEF TxReset, TxGoto, TxInStep, Bit
  <1>2. ASSUME NEW f \in Fields, TxSend(f)
        PROVE  TxInv'
    <2>1. /\ phy_field_count[f] \in Nat /\ phy_field_count[f] < FieldBits[f]
          /\ \A g \in Fields : g > f => phy_field_count[g] = 0
      BY <1>2 DEF TxSend, TxInStep
    <2>2. phy_field_count' = [phy_field_count EXCEPT ![f] = phy_field_count[f] + 1]
      BY <1>2 DEF TxSend
    <2>3. /\ phy_field_count' \in [Fields -> Nat]
          /\ \A g \in Fields : phy_field_count'[g] <= FieldBits[g]
      BY <2>1, <2>2
    <2>4. eneta_tx_d' \in TxBit
      BY <1>2, <2>1 DEF TxSend, TxBit
    <2>5. \/ to_phy_cur_state' = 0
          \/ to_phy_cur_state' = f + 1 /\ FieldSent(f)
          \/ to_phy_cur_state' = f /\ ~FieldSent(f)
      BY <1>2 DEF TxSend, TxGoto
    <2>6. TxInStep'
      <3>1. CASE to_phy_cur_state' = 0
        BY <3>1 DEF TxInStep
      <3>2. CASE to_phy_cur_state' = f + 1
        BY <3>2, <2>1, <2>2 DEF TxInStep
      <3>3. CASE to_phy_cur_state' = f /\ ~FieldSent(f)
        BY <3>3, <2>1, <2>2 DEF TxInStep, FieldSent
      <3> QED
        BY <2>5, <3>1, <3>2, <3>3
    <2> QED
      BY <1>2, <2>3, <2>4, <2>5, <2>6 DEF TxSend
  <1>3. CASE TxReadLbPkt
    BY <1>3 DEF TxReadLbPkt, TxGoto, TxInStep, Bit
  <1> QED
    BY <1>1, <1>2, <1>3 DEF TxEdge

\* The same of every step of the design.
LEMMA TxStepInv ==
    ASSUME TxInv, [Next]_vars
    PROVE  TxInv'
  <1>1. CASE RxDomain
    BY <1>1, TxEdgeInv DEF RxDomain
  <1>2. CASE UNCHANGED rxVars
    BY <1>2 DEF rxVars, txVars, TxInv, TxTypeOK, TxInStep
  <1>3. RxDomain \/ UNCHANGED rxVars
    BY DEF Next, MdcDomain, ButtonDown, ButtonUp, vars
  <1> QED
    BY <1>1, <1>2, <1>3

\* The count of edges stays below its bound.
LEMMA MdcSinceRxStep ==
    ASSUME mdc_since_rx \in 0 .. MaxMdcPerRx, [Next]_vars
    PROVE  mdc_since_rx' \in 0 .. MaxMdcPerRx
  BY TopSizes DEF Next, MdcDomain, RxDomain, ButtonDown, ButtonUp, vars

\* Every register of altera_max_10.v keeps its type in both clock domains, for
\* all sizes: no counter passes its last value, no index leaves its range.
THEOREM TopTypes == Spec => []TypeOK
  <1> DEFINE Inv == LinkInv /\ RamTypeOK /\ TxInv /\ mdc_since_rx \in 0 .. MaxMdcPerRx
  <1>1. Init => Inv
    BY LinkInvInit, RamInitTypes, TxInitInv, TopSizes DEF Init
  <1>2. Inv /\ [Next]_vars => Inv'
    BY TopStepsLink, LinkInvStep, RamStepTypes, TxStepInv, MdcSinceRxStep
    DEF LinkInv, LinkTypeOK
  <1>3. Inv => TypeOK
    BY DEF LinkInv, TxInv, TypeOK
  <1> QED
    BY <1>1, <1>2, <1>3, PTL DEF Spec

-----------------------------------------------------------------------------
(* The blocks of the memory. *)

\* What the arguments below need of the types.
Ranges == LinkInv /\ RamTypeOK

\* A block is never overfull.
LEMMA WordsSetUpBound ==
    ASSUME RamTypeOK, phy_regs_written_to_ram = NumRegs => ram_writes_per_phy_addr = 0
    PROVE  /\ WordsSetUp \in Nat /\ WordsSetUp <= BlockWords
           /\ phy_regs_written_to_ram < NumRegs => WordsSetUp < BlockWords
  <1> USE TopSizes
  <1> DEFINE n == phy_regs_written_to_ram
             k == ram_writes_per_phy_addr
  <1>1. n \in 0 .. NumRegs /\ k \in 0 .. WritesPerReg - 1
    BY DEF RamTypeOK
  <1>2. n * WritesPerReg \in Nat
    BY <1>1, WholeRegisters
  <1>3. CASE n = NumRegs
    BY <1>1, <1>2, <1>3 DEF WordsSetUp, BlockWords
  <1>4. CASE n < NumRegs
    <2>1. (n + 1) * WritesPerReg = n * WritesPerReg + WritesPerReg
      BY <1>1, WholeRegisters
    <2>2. (n + 1) * WritesPerReg <= NumRegs * WritesPerReg
      BY <1>1, <1>4, MoreRegisters
    <2>3. WordsSetUp = n * WritesPerReg + k
      BY DEF WordsSetUp
    <2>4. BlockWords \in Nat /\ BlockWords = NumRegs * WritesPerReg
      BY DEF BlockWords
    <2> HIDE DEF n, k
    <2> QED
      BY <1>1, <1>2, <2>1, <2>2, <2>3, <2>4
  <1> QED
    BY <1>1, <1>3, <1>4

\* Setting up a word counts one.
LEMMA SetsUpOneWord ==
    ASSUME RamTypeOK, WriterSetsUp
    PROVE  /\ WordsSetUp' = WordsSetUp + 1
           /\ phy_regs_written_to_ram' = NumRegs => ram_writes_per_phy_addr' = 0
  <1> USE TopSizes
  <1> DEFINE n == phy_regs_written_to_ram
             k == ram_writes_per_phy_addr
  <1>1. n \in 0 .. NumRegs - 1 /\ k \in 0 .. WritesPerReg - 1
    BY DEF RamTypeOK, WriterSetsUp, Copying
  <1>2. /\ n * WritesPerReg \in Nat
        /\ (n + 1) * WritesPerReg = n * WritesPerReg + WritesPerReg
    BY <1>1, WholeRegisters
  <1>3. CASE LastCopy
    <2>1. n' = n + 1 /\ k' = 0 /\ k = WritesPerReg - 1
      BY <1>3 DEF WriterSetsUp, LastCopy
    <2>2. WordsSetUp' = (n + 1) * WritesPerReg + 0
      BY <2>1 DEF WordsSetUp
    <2>3. WordsSetUp = n * WritesPerReg + (WritesPerReg - 1)
      BY <2>1 DEF WordsSetUp
    <2> QED
      BY <1>2, <2>1, <2>2, <2>3
  <1>4. CASE ~LastCopy
    <2>1. n' = n /\ k' = k + 1
      BY <1>4 DEF WriterSetsUp
    <2>2. WordsSetUp' = n * WritesPerReg + (k + 1)
      BY <2>1 DEF WordsSetUp
    <2>3. WordsSetUp = n * WritesPerReg + k
      BY DEF WordsSetUp
    <2> QED
      BY <1>1, <1>2, <2>1, <2>2, <2>3
  <1> QED
    BY <1>3, <1>4

\* At the beginning of its block the writer has set up nothing; with all
\* registers done, everything.
LEMMA WordsAtEnds ==
    ASSUME RamTypeOK, ram_writes_per_phy_addr = 0
    PROVE  /\ phy_regs_written_to_ram = 0 => WordsSetUp = 0
           /\ phy_regs_written_to_ram = NumRegs => WordsSetUp = BlockWords
  <1> USE TopSizes
  <1>1. NumRegs * WritesPerReg \in Nat /\ 0 * WritesPerReg = 0
    BY WholeRegisters
  <1>2. CASE phy_regs_written_to_ram = 0
    BY <1>1, <1>2 DEF WordsSetUp
  <1>3. CASE phy_regs_written_to_ram = NumRegs
    BY <1>1, <1>3 DEF WordsSetUp, BlockWords
  <1> QED
    BY <1>2, <1>3

\* The writer is in no block at power-up.
LEMMA BlockInvInit ==
    ASSUME Init
    PROVE  BlockInv
  BY TopSizes
  DEF Init, LinkInit, SignalsInit, MdioInit, ButtonInit, RamInit, BlockInv, PressSeen,
      FirstBlock, SecondBlock, StrobeInWindow, WriterInRange

\* An edge of the receive clock.
LEMMA BlockInvRx ==
    ASSUME Ranges, Ranges', BlockInv, RxDomain
    PROVE  BlockInv'
  <1> USE TopSizes
  <1>m. /\ UNCHANGED <<current_state, write_phy_reg_space_to_ram, set_reg0_to_loopback,
                      reg0_in_loopback, CPU_RESETn, mdc_edges_in_reset>>
        /\ CPU_RESETn \in Bit /\ write_phy_reg_space_to_ram \in Bit
        /\ set_reg0_to_loopback \in Bit /\ reg0_in_loopback \in Bit
        /\ phy_reg_write_done \in Bit
        /\ rx_edges_in_reset \in Nat
    BY DEF RxDomain, CountRxEdge, mdioVars, requests, loopbackFlags, Ranges, LinkInv,
           LinkTypeOK, SignalsTypeOK, MdioTypeOK, ButtonTypeOK
  <1>t. /\ onchip_memory2_0_s1_address \in Nat /\ onchip_memory2_0_s1_write \in Bit
        /\ ram_writes_per_phy_addr \in 0 .. WritesPerReg - 1
        /\ phy_regs_written_to_ram \in 0 .. NumRegs
        /\ dummy_wait \in 0 .. WaitPeriod - 1
    BY DEF Ranges, RamTypeOK
  <1>b. /\ WordsSetUp \in Nat /\ WordsSetUp <= BlockWords
        /\ phy_regs_written_to_ram < NumRegs => WordsSetUp < BlockWords
    BY WordsSetUpBound DEF Ranges, BlockInv, WriterInRange
  <1>1. CASE CPU_RESETn = 0
    <2>1. WriterResets
      BY <1>1 DEF RxDomain, RamEdge, WriterFull, WriterIdle, WriterSetsUp, WriterStrobes,
                  WriterReleases, WriterAnswers, Copying, Running
    <2>2. WriterAtStart'
      BY <2>1 DEF WriterResets, WriterAtStart, StartAddress
    <2>3. PressSeen'
      BY <1>1, <1>m, <2>2 DEF BlockInv, PressSeen
    <2>4. WriterInRange'
      BY <2>2 DEF WriterInRange, WriterAtStart
    <2> QED
      BY <1>1, <1>m, <2>3, <2>4 DEF BlockInv, FirstBlock, SecondBlock, StrobeInWindow
  <1>2. CASE CPU_RESETn = 1
    <2>p. PressSeen'
      BY <1>2, <1>m DEF PressSeen
    <2>1. CASE WriterFull
      <3>1. /\ UNCHANGED <<onchip_memory2_0_s1_address, ram_writes_per_phy_addr,
                          phy_regs_written_to_ram, phy_reg_write_done>>
            /\ onchip_memory2_0_s1_write' = 0
        BY <2>1 DEF WriterFull, progress
      <3>2. WordsSetUp' = WordsSetUp /\ (WriterAtStart => WriterAtStart')
        BY <3>1 DEF WordsSetUp, WriterAtStart
      <3> QED
        BY <1>2, <1>m, <1>t, <2>p, <3>1, <3>2
        DEF BlockInv, FirstBlock, SecondBlock, StrobeInWindow, WriterInRange
    <2>2. CASE WriterIdle
      <3>1. /\ UNCHANGED <<onchip_memory2_0_s1_address, onchip_memory2_0_s1_write,
                          ram_writes_per_phy_addr>>
            /\ phy_regs_written_to_ram' = 0 /\ phy_reg_write_done' = 0
            /\ write_phy_reg_space_to_ram = 0
        BY <2>2 DEF WriterIdle, port
      <3>2. onchip_memory2_0_s1_write = 0
        BY <1>2, <1>t, <3>1 DEF BlockInv, StrobeInWindow, Bit
      <3>3. CASE set_reg0_to_loopback = 0 /\ reg0_in_loopback = 0
        <4>1. WriterAtStart /\ WriterAtStart'
          BY <1>2, <3>1, <3>3 DEF BlockInv, FirstBlock, WriterAtStart
        <4>2. WordsSetUp' = 0
          BY <4>1, WordsAtEnds, <1>m DEF WriterAtStart, Ranges, WordsSetUp
        <4>3. FirstBlock'
          BY <1>2, <1>m, <3>1, <3>3, <4>1, <4>2 DEF BlockInv, FirstBlock, WriterAtStart
        <4> QED
          BY <1>2, <1>m, <1>t, <2>p, <3>1, <3>2, <3>3, <4>1, <4>3
          DEF BlockInv, SecondBlock, StrobeInWindow, WriterInRange, WriterAtStart
      <3>4. CASE set_reg0_to_loopback = 1 \/ reg0_in_loopback = 1
        <4>1. /\ onchip_memory2_0_s1_address = FirstAddr + BlockWords
              /\ ram_writes_per_phy_addr = 0
          BY <1>2, <3>1, <3>4 DEF BlockInv, SecondBlock
        <4>2. WordsSetUp' \in Nat
          BY <3>1, <4>1, WholeRegisters DEF WordsSetUp
        <4>3. /\ onchip_memory2_0_s1_address' = FirstAddr + BlockWords
              /\ onchip_memory2_0_s1_address' >= FirstAddr + BlockWords
              /\ onchip_memory2_0_s1_address' <= FirstAddr + BlockWords + WordsSetUp'
              /\ phy_regs_written_to_ram' \in {0, NumRegs}
              /\ ram_writes_per_phy_addr' = 0
              /\ write_phy_reg_space_to_ram' = 0
          <5>1. onchip_memory2_0_s1_address' = FirstAddr + BlockWords
            BY <3>1, <4>1
          <5>2. \A n \in Nat : FirstAddr + BlockWords <= FirstAddr + BlockWords + n
            OBVIOUS
          <5>3. onchip_memory2_0_s1_address' <= FirstAddr + BlockWords + WordsSetUp'
            BY <4>2, <5>1, <5>2
          <5>4. onchip_memory2_0_s1_address' >= FirstAddr + BlockWords
            BY <5>1
          <5> QED
            BY <1>m, <3>1, <4>1, <5>1, <5>3, <5>4
        <4>4. SecondBlock'
          BY <1>2, <1>m, <3>4, <4>3 DEF BlockInv, SecondBlock
        <4> QED
          BY <1>2, <1>m, <1>t, <2>p, <3>1, <3>2, <3>4, <4>1, <4>4
          DEF BlockInv, FirstBlock, StrobeInWindow, WriterInRange, Bit
      <3> QED
        BY <1>m, <3>3, <3>4 DEF Bit
    <2>3. CASE WriterSetsUp
      <3>1. /\ write_phy_reg_space_to_ram = 1 /\ phy_regs_written_to_ram < NumRegs
            /\ dummy_wait = 0
            /\ onchip_memory2_0_s1_address' = onchip_memory2_0_s1_address + 1
            /\ onchip_memory2_0_s1_write' = onchip_memory2_0_s1_write
            /\ phy_reg_write_done' = phy_reg_write_done
        BY <2>3 DEF WriterSetsUp, Copying
      <3>2. onchip_memory2_0_s1_write = 0
        BY <1>2, <1>t, <3>1 DEF BlockInv, StrobeInWindow, Bit
      <3>3. /\ WordsSetUp' = WordsSetUp + 1
            /\ phy_regs_written_to_ram' = NumRegs => ram_writes_per_phy_addr' = 0
        BY <2>3, SetsUpOneWord DEF Ranges
      <3>4. WordsSetUp' <= BlockWords
        BY <1>b, <3>1, <3>3
      <3>5. FirstBlock'
        BY <1>2, <1>m, <1>t, <1>b, <3>1, <3>2, <3>3 DEF BlockInv, FirstBlock
      <3>6. SecondBlock'
        BY <1>2, <1>m, <1>t, <1>b, <3>1, <3>2, <3>3 DEF BlockInv, SecondBlock
      <3>7. onchip_memory2_0_s1_address' <= FirstAddr + 2 * BlockWords
        BY <1>2, <1>m, <1>t, <1>b, <3>1, <3>3, <3>4
        DEF BlockInv, FirstBlock, SecondBlock, Bit
      <3> QED
        BY <1>2, <1>m, <2>p, <3>1, <3>2, <3>3, <3>5, <3>6, <3>7
        DEF BlockInv, StrobeInWindow, WriterInRange
    <2>4. CASE WriterStrobes \/ WriterReleases
      <3>1. /\ write_phy_reg_space_to_ram = 1 /\ phy_regs_written_to_ram < NumRegs
            /\ UNCHANGED <<onchip_memory2_0_s1_address, ram_writes_per_phy_addr,
                          phy_regs_written_to_ram, phy_reg_write_done>>
        BY <2>4 DEF WriterStrobes, WriterReleases, Copying, progress
      <3>2. WordsSetUp' = WordsSetUp
        BY <3>1 DEF WordsSetUp
      <3>3. \/ onchip_memory2_0_s1_write' = 0
            \/ onchip_memory2_0_s1_write' = 1 /\ dummy_wait' \in 2 .. 6
        BY <1>t, <2>4 DEF WriterStrobes, WriterReleases, Copying, Running, NextWait
      <3>4. FirstBlock'
        BY <1>2, <1>m, <1>t, <3>1, <3>2 DEF BlockInv, FirstBlock
      <3>5. SecondBlock'
        BY <1>2, <1>m, <3>1, <3>2 DEF BlockInv, SecondBlock
      <3>6. StrobeInWindow'
        BY <1>m, <3>1, <3>3 DEF StrobeInWindow
      <3>7. onchip_memory2_0_s1_address >= FirstAddr
        BY <1>2, <1>m, <1>t, <1>b DEF BlockInv, FirstBlock, SecondBlock, Bit
      <3> QED
        BY <2>p, <3>1, <3>4, <3>5, <3>6, <3>7 DEF BlockInv, WriterInRange
    <2>5. CASE WriterAnswers
      <3>1. /\ write_phy_reg_space_to_ram = 1 /\ phy_regs_written_to_ram = NumRegs
            /\ UNCHANGED <<onchip_memory2_0_s1_address, onchip_memory2_0_s1_write,
                          ram_writes_per_phy_addr, phy_regs_written_to_ram>>
            /\ phy_reg_write_done' = 1
        BY <1>t, <2>5 DEF WriterAnswers, port, progress
      <3>2. WordsSetUp' = WordsSetUp
        BY <3>1 DEF WordsSetUp
      <3>3. onchip_memory2_0_s1_write = 0
        BY <1>2, <1>t, <3>1 DEF BlockInv, StrobeInWindow, Bit
      <3> QED
        BY <1>2, <1>m, <2>p, <3>1, <3>2, <3>3
        DEF BlockInv, FirstBlock, SecondBlock, StrobeInWindow, WriterInRange
    <2> QED
      BY <1>2, <2>1, <2>2, <2>3, <2>4, <2>5 DEF RxDomain, RamEdge, WriterResets
  <1> QED
    BY <1>1, <1>2, <1>m DEF Bit

\* What an edge of enet_mdc_clk means for the blocks, as long as the button is up.
LEMMA BlockInvMdcRunning ==
    ASSUME Ranges, BlockInv, CPU_RESETn = 1, MdcDomain
    PROVE  FirstBlock' /\ SecondBlock' /\ StrobeInWindow'
  <1> USE TopSizes
  <1>t. /\ write_phy_reg_space_to_ram \in Bit /\ phy_reg_write_done \in Bit
        /\ set_reg0_to_loopback \in Bit /\ reg0_in_loopback \in Bit
        /\ onchip_memory2_0_s1_write \in Bit /\ phy_regs_written_to_ram \in Nat
    BY DEF Ranges, LinkInv, LinkTypeOK, SignalsTypeOK, MdioTypeOK, RamTypeOK
  <1>u. /\ UNCHANGED <<CPU_RESETn, onchip_memory2_0_s1_address, onchip_memory2_0_s1_write,
                      ram_writes_per_phy_addr, phy_regs_written_to_ram, dummy_wait,
                      phy_reg_write_done>>
        /\ \E level : MdcEdge(level)
    BY DEF MdcDomain, MdcTick, CountMdcEdge, rxVars, port, progress
  <1>w. WordsSetUp' = WordsSetUp /\ (WriterAtStart => WriterAtStart')
    BY <1>u DEF WordsSetUp, WriterAtStart
  <1>a. WriterAtStart => WordsSetUp = 0
    BY WordsAtEnds DEF Ranges, WriterAtStart
  <1>z. phy_regs_written_to_ram = NumRegs =>
          ram_writes_per_phy_addr = 0 /\ WordsSetUp = BlockWords
    BY WordsAtEnds DEF Ranges, BlockInv, WriterInRange
  <1>g. \A s : Goto(s) = s
    BY DEF Goto
  <1>f. FirstBlock /\ SecondBlock /\ StrobeInWindow
    BY DEF BlockInv
  <1> USE <1>t, <1>u, <1>w, <1>f, <1>g DEF FirstBlock, SecondBlock, StrobeInWindow
  <1>1. CASE Reset
    <2>1. set_reg0_to_loopback = 0 /\ reg0_in_loopback = 0
      BY <1>1 DEF Reset, Bit
    <2>2. write_phy_reg_space_to_ram = 0
      BY <1>1, <2>1 DEF Reset, Bit
    <2> QED
      BY <1>1, <1>a, <2>1, <2>2 DEF Reset, WriterAtStart
  <1>2. CASE PostRstWaiting
    BY <1>2 DEF PostRstWaiting, loopbackFlags, requests, Bit
  <1>3. CASE Preamble
    BY <1>3 DEF Preamble, loopbackFlags, requests, Bit
  <1>4. CASE SendReadCmd
    BY <1>4 DEF SendReadCmd, loopbackFlags, requests, Bit
  <1>5. CASE Turnaround
    BY <1>5 DEF Turnaround, loopbackFlags, requests, Bit
  <1>6. ASSUME NEW level, Read(level)
        PROVE  FirstBlock' /\ SecondBlock' /\ StrobeInWindow'
    BY <1>6 DEF Read, loopbackFlags, requests, Bit
  <1>7. CASE StoreReadData
    BY <1>7 DEF StoreReadData, loopbackFlags, requests, Bit
  <1>8. CASE WaitForRamWrite
    <2>1. /\ write_phy_reg_space_to_ram' = 1
          /\ UNCHANGED <<set_reg0_to_loopback, reg0_in_loopback>>
          /\ current_state' = IF RamSaved THEN "ENABLE_LOOPBACK_s" ELSE "WAIT_FOR_RAM_WRITE_s"
      BY <1>8 DEF WaitForRamWrite, loopbackFlags
    <2>2. current_state = "WAIT_FOR_RAM_WRITE_s"
      BY <1>8 DEF WaitForRamWrite
    <2>3. CASE set_reg0_to_loopback = 0 /\ reg0_in_loopback = 0
      <3>1. RamSaved => phy_regs_written_to_ram = NumRegs /\ onchip_memory2_0_s1_write = 0
        BY <2>3 DEF RamSaved, Bit
      <3> QED
        BY <2>1, <2>2, <2>3, <3>1
    <2>4. CASE set_reg0_to_loopback = 1 \/ reg0_in_loopback = 1
      <3>1. reg0_in_loopback = 1
        BY <2>2, <2>4 DEF Bit
      <3>2. current_state' = "WAIT_FOR_RAM_WRITE_s"
        BY <2>1, <3>1 DEF RamSaved
      <3> QED
        BY <2>1, <2>2, <2>4, <3>1, <3>2
    <2> QED
      BY <2>3, <2>4 DEF Bit
  <1>9. CASE EnableLoopback
    <2>1. /\ set_reg0_to_loopback = 0 /\ reg0_in_loopback = 0
          /\ phy_regs_written_to_ram = NumRegs
          /\ onchip_memory2_0_s1_write = 0
      BY <1>9 DEF EnableLoopback, Bit
    <2>2. /\ onchip_memory2_0_s1_address = FirstAddr + BlockWords
          /\ ram_writes_per_phy_addr = 0
      BY <2>1, <1>z
    <2>3. /\ write_phy_reg_space_to_ram' = 0
          /\ set_reg0_to_loopback' = 1 /\ reg0_in_loopback' = 0
          /\ current_state' = "PHY_PREAMBLE_s"
      BY <1>9, <2>1 DEF EnableLoopback
    <2> QED
      BY <1>z, <2>1, <2>2, <2>3
  <1>10. CASE SendWriteCmd
    BY <1>10 DEF SendWriteCmd, loopbackFlags, requests, Bit
  <1>11. CASE SendWriteData
    BY <1>11 DEF SendWriteData, requests, Bit
  <1> QED
    BY <1>1, <1>2, <1>3, <1>4, <1>5, <1>6, <1>7, <1>8, <1>9, <1>10, <1>11
    DEF MdcEdge

\* An edge of enet_mdc_clk, with the button up or down.
LEMMA BlockInvMdc ==
    ASSUME Ranges, BlockInv, MdcDomain
    PROVE  BlockInv'
  <1> USE TopSizes
  <1>u. /\ UNCHANGED <<CPU_RESETn, onchip_memory2_0_s1_address, onchip_memory2_0_s1_write,
                      ram_writes_per_phy_addr, phy_regs_written_to_ram,
                      phy_reg_write_done, rx_edges_in_reset>>
        /\ CPU_RESETn \in Bit
    BY DEF MdcDomain, MdcTick, CountMdcEdge, rxVars, port, progress,
           Ranges, LinkInv, LinkTypeOK, SignalsTypeOK
  <1>r. WriterInRange'
    BY <1>u DEF BlockInv, WriterInRange
  <1>1. CASE CPU_RESETn = 1
    <2>1. PressSeen'
      BY <1>1, <1>u DEF PressSeen
    <2> QED
      BY <1>1, <1>r, <2>1, BlockInvMdcRunning DEF BlockInv
  <1>2. CASE CPU_RESETn = 0
    <2>1. current_state' = "RESET_s"
      <3>1. PICK level : MdcEdge(level)
        BY DEF MdcDomain, MdcTick
      <3>2. \A s : Goto(s) = "RESET_s"
        BY <1>2 DEF Goto
      <3> QED
        BY <3>1, <3>2 DEF MdcEdge, Reset, PostRstWaiting, Preamble, SendReadCmd, Turnaround,
                          Read, StoreReadData, WaitForRamWrite, EnableLoopback, SendWriteCmd,
                          SendWriteData
    <2>2. /\ mdc_edges_in_reset \in Nat /\ mdc_edges_in_reset' \in Nat
          /\ mdc_edges_in_reset' >= 2 => mdc_edges_in_reset >= 1
      BY <1>2 DEF MdcDomain, MdcTick, CountMdcEdge, Ranges, LinkInv, LinkTypeOK, ButtonTypeOK
    <2>3. ASSUME mdc_edges_in_reset >= 1
          PROVE  /\ write_phy_reg_space_to_ram' = 0
                 /\ set_reg0_to_loopback' = 0
                 /\ reg0_in_loopback' = 0
      <3>1. current_state = "RESET_s"
        BY <1>2, <2>3 DEF BlockInv, PressSeen
      <3>2. PICK level : MdcEdge(level)
        BY DEF MdcDomain, MdcTick
      <3>3. Reset
        BY <3>1, <3>2 DEF MdcEdge, PostRstWaiting, Preamble, SendReadCmd, Turnaround,
                          Read, StoreReadData, WaitForRamWrite, EnableLoopback, SendWriteCmd,
                          SendWriteData
      <3> QED
        BY <3>3 DEF Reset
    <2>4. WriterAtStart => WriterAtStart'
      BY <1>u DEF WriterAtStart
    <2>5. PressSeen'
      BY <1>2, <1>u, <2>1, <2>2, <2>3, <2>4 DEF BlockInv, PressSeen
    <2> QED
      BY <1>2, <1>u, <1>r, <2>5 DEF BlockInv, FirstBlock, SecondBlock, StrobeInWindow
  <1> QED
    BY <1>1, <1>2, <1>u DEF Bit

\* A press and a release.
LEMMA BlockInvButton ==
    ASSUME Ranges, BlockInv, ButtonDown \/ ButtonUp
    PROVE  BlockInv'
  <1> USE TopSizes
  <1>u. UNCHANGED <<current_state, write_phy_reg_space_to_ram, set_reg0_to_loopback,
                   reg0_in_loopback, onchip_memory2_0_s1_address, onchip_memory2_0_s1_write,
                   ram_writes_per_phy_addr, phy_regs_written_to_ram, phy_reg_write_done,
                   dummy_wait>>
    BY DEF ButtonDown, ButtonUp, Press, Release, mdioVars, requests, loopbackFlags,
           rxVars, port, progress
  <1>r. WriterInRange'
    BY <1>u DEF BlockInv, WriterInRange
  <1>1. CASE ButtonDown
    <2>1. CPU_RESETn' = 0 /\ mdc_edges_in_reset' = 0 /\ rx_edges_in_reset' = 0
      BY <1>1 DEF ButtonDown, Press, PressButton
    <2> QED
      BY <1>r, <2>1 DEF BlockInv, PressSeen, FirstBlock, SecondBlock, StrobeInWindow
  <1>2. CASE ButtonUp
    <2>1. /\ CPU_RESETn = 0 /\ CPU_RESETn' = 1
          /\ mdc_edges_in_reset >= 2 /\ mdc_edges_in_reset >= 1
          /\ rx_edges_in_reset >= 1
      BY <1>2 DEF ButtonUp, Release, ReleaseButton
    <2>2. /\ current_state = "RESET_s"
          /\ write_phy_reg_space_to_ram = 0
          /\ set_reg0_to_loopback = 0 /\ reg0_in_loopback = 0
          /\ WriterAtStart
      BY <2>1 DEF BlockInv, PressSeen
    <2>3. WriterAtStart'
      BY <1>u, <2>2 DEF WriterAtStart
    <2>4. WordsSetUp' = 0
      BY <1>u, <2>2, WordsAtEnds DEF Ranges, WriterAtStart, WordsSetUp
    <2> QED
      BY <1>r, <1>u, <2>1, <2>2, <2>3, <2>4
      DEF BlockInv, PressSeen, FirstBlock, SecondBlock, StrobeInWindow, WriterAtStart
  <1> QED
    BY <1>1, <1>2

\* Every step of the design keeps the writer in its block.
LEMMA BlockInvStep ==
    ASSUME Ranges, Ranges', BlockInv, [Next]_vars
    PROVE  BlockInv'
  <1>1. CASE UNCHANGED vars
    BY <1>1 DEF vars, linkVars, rxVars, mdioVars, requests, loopbackFlags, buttonVars, port,
                progress, BlockInv, PressSeen, FirstBlock, SecondBlock, StrobeInWindow,
                WriterInRange, WriterAtStart, WordsSetUp
  <1> QED
    BY <1>1, BlockInvRx, BlockInvMdc, BlockInvButton DEF Next

\* The types that the invariants use hold in every state.
LEMMA RangesInvariant == Spec => []Ranges
  <1>1. Init => Ranges
    BY LinkInvInit, RamInitTypes DEF Init, Ranges
  <1>2. Ranges /\ [Next]_vars => Ranges'
    BY TopStepsLink, LinkInvStep, RamStepTypes DEF Ranges, LinkInv, LinkTypeOK
  <1> QED
    BY <1>1, <1>2, PTL DEF Spec

\* The state machine goes on to loopback only with the whole first block set up,
\* and enters the second block once, whatever the order of the edges of the two
\* clocks and whenever the button is pressed.
THEOREM BlockInvariance == Spec => []BlockInv
  <1>1. Init => BlockInv
    BY BlockInvInit
  <1>2. Ranges /\ Ranges' /\ BlockInv /\ [Next]_vars => BlockInv'
    BY BlockInvStep
  <1> QED
    BY <1>1, <1>2, RangesInvariant, PTL DEF Spec

\* The RAM writer never goes past the two blocks of one bring-up.
THEOREM TwoBlocks == Spec => []TwoBlocksAtMost
  <1>1. BlockInv => TwoBlocksAtMost
    BY DEF BlockInv, WriterInRange, TwoBlocksAtMost
  <1> QED
    BY <1>1, BlockInvariance, PTL

\* The program of the processor, which is in the same memory below the blocks,
\* is never changed.
THEOREM ProgramIsUntouched == Spec => []ProgramUntouched
  <1> USE TopSizes
  <1>1. Init => ProgramUntouched
    BY DEF Init, RamInit, ProgramUntouched, RamIndex
  <1>2. ASSUME Ranges, BlockInv, ProgramUntouched, [Next]_vars
        PROVE  ProgramUntouched'
    <2>1. CASE RxDomain /\ onchip_memory2_0_s1_write = 1
      <3>1. /\ onchip_memory2_0_s1_address \in Nat
            /\ onchip_memory2_0_s1_address >= FirstAddr
            /\ onchip_memory2_0_s1_address < RamWords
        BY <1>2, <2>1 DEF BlockInv, WriterInRange, Ranges, RamTypeOK
      <3>2. onchip_memory2_0_s1_address % RamWords = onchip_memory2_0_s1_address
        BY <3>1
      <3>3. ram' = [ram EXCEPT ![onchip_memory2_0_s1_address] = onchip_memory2_0_s1_writedata]
        BY <2>1, <3>2 DEF RxDomain, RamEdge, RamPort
      <3>4. \A a \in 0 .. FirstAddr - 1 : ram'[a] = ram[a]
        BY <1>2, <3>1, <3>3 DEF Ranges, RamTypeOK, RamIndex
      <3> QED
        BY <1>2, <3>4 DEF ProgramUntouched
    <2>2. CASE ram' = ram
      BY <1>2, <2>2 DEF ProgramUntouched
    <2>3. (RxDomain /\ onchip_memory2_0_s1_write = 1) \/ ram' = ram
      BY <1>2 DEF Next, MdcDomain, RxDomain, RamEdge, RamPort, ButtonDown, ButtonUp, vars, rxVars
    <2> QED
      BY <2>1, <2>2, <2>3
  <1> QED
    BY <1>1, <1>2, RangesInvariant, BlockInvariance, PTL DEF Spec

\* The memory's port is not changed while it is strobed.
THEOREM StrobeStability == Spec => StrobeStable
  <1>1. ASSUME Ranges, BlockInv, [Next]_vars
        PROVE  [onchip_memory2_0_s1_write = 1 /\ onchip_memory2_0_s1_write' = 1
                  => UNCHANGED port]_vars
    <2>1. SUFFICES ASSUME RxDomain, onchip_memory2_0_s1_write = 1,
                          onchip_memory2_0_s1_write' = 1
                   PROVE  UNCHANGED port
      BY <1>1 DEF Next, MdcDomain, ButtonDown, ButtonUp, vars, rxVars
    <2>2. CPU_RESETn \in Bit
      BY <1>1 DEF Ranges, LinkInv, LinkTypeOK, SignalsTypeOK
    <2>3. CASE CPU_RESETn = 0
      BY <2>1, <2>3 DEF RxDomain, RamEdge, WriterResets, WriterFull, WriterIdle, WriterSetsUp,
                        WriterStrobes, WriterReleases, WriterAnswers, Copying, Running
    <2>4. CASE CPU_RESETn = 1
      <3>1. dummy_wait # 0
        BY <1>1, <2>1, <2>4 DEF BlockInv, StrobeInWindow
      <3> QED
        BY <2>1, <2>4, <3>1 DEF RxDomain, RamEdge, WriterResets, WriterFull, WriterIdle,
                                WriterSetsUp, WriterStrobes, WriterReleases, WriterAnswers, port
    <2> QED
      BY <2>2, <2>3, <2>4 DEF Bit
  <1> QED
    BY <1>1, RangesInvariant, BlockInvariance, PTL DEF Spec, StrobeStable

-----------------------------------------------------------------------------
(* The link's properties hold in the design. *)

\* What the design does to the link, the link's own specification allows but for
\* its fairness, so what is proved of each step of the link holds here.
LinkFacts == LinkInv /\ Aligned /\ RequestHeld /\ Carried /\ CutKept

\* All that is known of the link holds in the whole design.
LEMMA LinkFactsInvariant == Spec => []LinkFacts
  <1>1. Init => LinkInv /\ Aligned /\ RequestHeld /\ Carried /\ CutKept
    BY LinkInvInit, AlignedInit, RequestHeldInit, CarriedInit, CutInit DEF Init
  <1>2. LinkInv /\ LinkInv' /\ LinkFacts /\ [Next]_vars => LinkFacts'
    BY TopStepsLink, AlignedStep, RequestHeldStep, CarriedStep, CutStep
    DEF LinkFacts, LinkInv
  <1> QED
    BY <1>1, <1>2, TopLinkInvariance, PTL DEF Spec, LinkFacts

\* With the real RAM writer in the place of the handshake, too, the two ends of the
\* MDIO pin stay in step, and the snapshot is true whenever the writer is asked to
\* save it (altera_max_10.v:442-551).
THEOREM DesignKeepsLink == Spec => [](BusInStep /\ SnapshotsTrue)
  <1>1. LinkFacts => BusInStep /\ SnapshotsTrue
    BY AlignedImpliesBusInStep, CarriedImpliesSnapshotsTrue DEF LinkFacts
  <1> QED
    BY <1>1, LinkFactsInvariant, PTL

\* The design writes nothing into the PHY but the loopback word in register 0, and
\* what a press makes of that frame (altera_max_10.v:464-477).
THEOREM DesignWritesOnly == Spec => PhyWrites
  <1>1. LinkFacts /\ [Next]_vars => [AllowedWrite]_linkVars
    BY TopStepsLink, AllowedWriteStep DEF LinkFacts, LinkInv, Carried
  <1> QED
    BY <1>1, LinkFactsInvariant, PTL DEF Spec, PhyWrites, AllowedWrite

-----------------------------------------------------------------------------
(* Where the words of a block go. *)

\* Word k of register r, counted from the beginning of its block.
Index(r, k) == r * WritesPerReg + k

CopyIndex == 0 .. WritesPerReg - 1

\* The word the writer saves there.
SavedWord(r, k) ==
    IF (r = 0 /\ k = 0) \/ (r = NumRegs - 1 /\ k = WritesPerReg - 1)
    THEN DELIMITER ELSE RegWord(r)

\* Words are numbered from 0, the delimiters being the first and the last.
LEMMA IndexRange ==
    ASSUME NEW r \in RegIndex, NEW k \in CopyIndex
    PROVE  /\ Index(r, k) \in Nat /\ Index(r, k) < BlockWords
           /\ Index(r, k) = 0 => r = 0 /\ k = 0
           /\ r = 0 /\ k = 0 => Index(r, k) = 0
           /\ r = NumRegs - 1 /\ k = WritesPerReg - 1 => Index(r, k) = BlockWords - 1
  <1> USE TopSizes
  <1>1. /\ r \in Nat /\ r + 1 <= NumRegs /\ k \in Nat /\ k < WritesPerReg
        /\ r * WritesPerReg \in Nat
        /\ (r + 1) * WritesPerReg = r * WritesPerReg + WritesPerReg
        /\ 0 * WritesPerReg = 0
    BY WholeRegisters DEF RegIndex, CopyIndex
  <1>2. (r + 1) * WritesPerReg <= NumRegs * WritesPerReg
    BY <1>1, MoreRegisters
  <1>3. PICK p \in Nat : p = r * WritesPerReg
    BY <1>1
  <1>4. Index(r, k) = p + k /\ p + WritesPerReg <= BlockWords
    BY <1>1, <1>2, <1>3 DEF Index, BlockWords
  <1>5. r > 0 => p >= WritesPerReg
    <2> SUFFICES ASSUME r > 0
                 PROVE  p >= WritesPerReg
      OBVIOUS
    <2>1. 1 * WritesPerReg <= r * WritesPerReg
      BY <1>1, MoreRegisters
    <2> QED
      BY <1>3, <2>1
  <1>6. r = NumRegs - 1 => p + WritesPerReg = BlockWords
    BY <1>1, <1>3 DEF BlockWords
  <1>7. r = 0 => p = 0
    BY <1>1, <1>3
  <1> QED
    BY <1>1, <1>4, <1>5, <1>6, <1>7

\* No two words have the same place.
LEMMA IndexUnique ==
    ASSUME NEW r \in RegIndex, NEW k \in CopyIndex, NEW s \in RegIndex, NEW j \in CopyIndex,
           Index(r, k) = Index(s, j)
    PROVE  r = s /\ k = j
  <1> USE TopSizes
  <1>1. ASSUME NEW a \in RegIndex, NEW b \in RegIndex, NEW c \in CopyIndex,
               NEW d \in CopyIndex, a < b
        PROVE  Index(a, c) < Index(b, d)
    <2>1. a \in Nat /\ b \in Nat /\ a + 1 <= b /\ c \in Nat /\ c < WritesPerReg /\ d \in Nat
      BY <1>1 DEF RegIndex, CopyIndex
    <2>2. /\ a * WritesPerReg \in Nat /\ b * WritesPerReg \in Nat
          /\ (a + 1) * WritesPerReg = a * WritesPerReg + WritesPerReg
          /\ (a + 1) * WritesPerReg <= b * WritesPerReg
      BY <2>1, WholeRegisters, MoreRegisters
    <2> QED
      BY <2>1, <2>2 DEF Index
  <1>2. /\ r \in Nat /\ s \in Nat /\ k \in Nat /\ j \in Nat
        /\ Index(r, k) \in Nat /\ Index(s, j) \in Nat
    BY IndexRange DEF RegIndex, CopyIndex
  <1>3. ~(r < s) /\ ~(s < r)
    BY <1>1, <1>2
  <1>4. r = s
    BY <1>2, <1>3
  <1>5. r * WritesPerReg \in Nat
    BY <1>2, WholeRegisters
  <1> QED
    BY <1>2, <1>4, <1>5 DEF Index

-----------------------------------------------------------------------------
(* What reaches the memory. *)

\* The block that the writer is in.
BlockStart ==
    IF set_reg0_to_loopback = 0 /\ reg0_in_loopback = 0 THEN FirstAddr
    ELSE FirstAddr + BlockWords

Serving == CPU_RESETn = 1 /\ write_phy_reg_space_to_ram = 1
Busy == Serving /\ phy_regs_written_to_ram < NumRegs

\* The address counts the words, and the answer comes after the last one.
WriterFollows ==
    /\ Serving => onchip_memory2_0_s1_address = BlockStart + WordsSetUp
    /\ CPU_RESETn = 1 /\ phy_reg_write_done = 1 => phy_regs_written_to_ram = NumRegs

\* The word set up last is on the port, ...
WordOnPort ==
    Busy => \A r \in RegIndex, k \in CopyIndex :
        Index(r, k) + 1 = WordsSetUp => onchip_memory2_0_s1_writedata = SavedWord(r, k)

\* ... is strobed after it, ...
WordStrobed ==
    Busy /\ WordsSetUp >= 1 /\ dummy_wait \in 2 .. 6 => onchip_memory2_0_s1_write = 1

\* ... and is in the memory before the next one is set up.
WordsInRam ==
    /\ Serving => \A r \in RegIndex, k \in CopyIndex :
          Index(r, k) + 1 < WordsSetUp =>
             ram[BlockStart + 1 + Index(r, k)] = SavedWord(r, k)
    /\ Busy /\ dummy_wait \notin {1, 2} => \A r \in RegIndex, k \in CopyIndex :
          Index(r, k) + 1 = WordsSetUp =>
             ram[BlockStart + 1 + Index(r, k)] = SavedWord(r, k)

\* The first word of a block is going to be a delimiter, none other of the first
\* register.
DelimiterDue ==
    CPU_RESETn = 1 \/ rx_edges_in_reset >= 1 =>
        /\ phy_regs_written_to_ram = 0 => (add_delimiter = 1 <=> ram_writes_per_phy_addr = 0)
        /\ phy_regs_written_to_ram = NumRegs => add_delimiter = 1

\* The writer sees the first request withdrawn within the preamble that follows:
\* an edge of its clock falls between any MaxMdcPerRx + 1 edges of the other.
IdleSeen ==
    /\ /\ CPU_RESETn = 1
       /\ set_reg0_to_loopback = 1 \/ reg0_in_loopback = 1
       /\ write_phy_reg_space_to_ram = 0
       /\ phy_regs_written_to_ram # 0 \/ phy_reg_write_done = 1
       => /\ current_state = "PHY_PREAMBLE_s"
          /\ set_reg0_to_loopback = 1
          /\ phy_preamble_count <= mdc_since_rx
    /\ current_state \in {"WAIT_FOR_RAM_WRITE_s", "ENABLE_LOOPBACK_s"} =>
          phy_preamble_count = 0

\* The memory stands still once the snapshot is in it.
StrobeDown ==
    current_state = "ENABLE_LOOPBACK_s" \/ phy_reg_write_done = 1 =>
        onchip_memory2_0_s1_write = 0

\* The second wait starts without an answer, and lets the frame sender go.
SecondWait ==
    reg0_in_loopback = 1 /\ current_state = "WAIT_FOR_RAM_WRITE_s" =>
        IF write_phy_reg_space_to_ram = 0 THEN phy_reg_write_done = 0
        ELSE start_loopback_traffic = 1

SaveInv ==
    /\ WriterFollows /\ WordOnPort /\ WordStrobed /\ WordsInRam
    /\ DelimiterDue /\ IdleSeen /\ StrobeDown /\ SecondWait
    /\ SavedBeforeLoopback /\ SavedInLoopback

\* What the argument needs of the rest of the design.
Context ==
    /\ LinkFacts /\ Ranges /\ BlockInv
    /\ mdc_since_rx \in 0 .. MaxMdcPerRx

\* Nothing is saved at power-up.
LEMMA SaveInvInit ==
    ASSUME Init
    PROVE  SaveInv
  <1>1. /\ CPU_RESETn = 0 /\ phy_reg_write_done = 0 /\ rx_edges_in_reset = 0
        /\ current_state = "RESET_s" /\ onchip_memory2_0_s1_write = 0
        /\ start_loopback_traffic = 0
    BY DEF Init, LinkInit, SignalsInit, MdioInit, ButtonInit, RamInit
  <1> QED
    BY <1>1 DEF SaveInv, WriterFollows, WordOnPort, WordStrobed, WordsInRam, Serving, Busy,
                DelimiterDue, IdleSeen, StrobeDown, SecondWait, SavedBeforeLoopback,
                SavedInLoopback

\* With all registers set up, the block holds what the PHY held.
LEMMA BlockSaved ==
    ASSUME Context, WordsInRam, Serving, phy_regs_written_to_ram = NumRegs
    PROVE  Saved(BlockStart)
  <1> USE TopSizes
  <1>1. WordsSetUp = BlockWords
    BY WordsAtEnds DEF Context, Ranges, BlockInv, WriterInRange
  <1>2. SUFFICES ASSUME NEW r \in RegIndex, NEW k \in 0 .. WritesPerReg - 1,
                        Index(r, k) < BlockWords - 1
                 PROVE  ram[BlockStart + 1 + Index(r, k)]
                           = IF Index(r, k) = 0 THEN DELIMITER
                             ELSE <<r, phy_space[AddressOf(r)]>>
    BY DEF Saved, Index
  <1>3. k \in CopyIndex
    BY DEF CopyIndex
  <1>4. /\ Index(r, k) \in Nat
        /\ Index(r, k) = 0 <=> (r = 0 /\ k = 0)
        /\ ~(r = NumRegs - 1 /\ k = WritesPerReg - 1)
    BY <1>2, <1>3, IndexRange
  <1>5. ram[BlockStart + 1 + Index(r, k)] = SavedWord(r, k)
    <2>1. Index(r, k) + 1 < WordsSetUp
      BY <1>1, <1>2, <1>4
    <2> QED
      BY <1>3, <2>1 DEF WordsInRam
  <1>6. phy_reg[r] = phy_space[AddressOf(r)]
    BY DEF Context, LinkFacts, Carried, SnapshotKept, SnapshotExact, Serving
  <1> QED
    BY <1>4, <1>5, <1>6 DEF SavedWord, RegWord

\* What the writer's clock does while the button is down.
LEMMA SaveInvCleared ==
    ASSUME Context, SaveInv, RxDomain, CPU_RESETn = 0
    PROVE  SaveInv'
  <1> USE TopSizes
  <1>1. WriterResets /\ RamPort
    BY DEF RxDomain, RamEdge, WriterFull, WriterIdle, WriterSetsUp, WriterStrobes,
           WriterReleases, WriterAnswers, Copying, Running
  <1>2. /\ CPU_RESETn' = 0 /\ phy_reg_write_done' = 0 /\ onchip_memory2_0_s1_write' = 0
        /\ ram_writes_per_phy_addr' = 0 /\ phy_regs_written_to_ram' = 0
        /\ add_delimiter' = 1
    BY <1>1 DEF WriterResets, RxDomain, CountRxEdge
  <1>3. UNCHANGED <<current_state, phy_space, phy_preamble_count, reg0_in_loopback,
                   write_phy_reg_space_to_ram, start_loopback_traffic>>
    BY DEF RxDomain, mdioVars, phyVars, requests, loopbackFlags
  <1>4. SavedBeforeLoopback'
    <2>1. SUFFICES ASSUME current_state = "ENABLE_LOOPBACK_s"
                   PROVE  Saved(FirstAddr)'
      BY <1>3 DEF SavedBeforeLoopback
    <2>2. ram' = ram
      BY <1>1, <2>1 DEF RamPort, SaveInv, StrobeDown
    <2> QED
      BY <1>3, <2>1, <2>2 DEF SaveInv, SavedBeforeLoopback, Saved, AddressOf, Bits
  <1>5. SecondWait'
    <2>1. write_phy_reg_space_to_ram \in Bit
      BY DEF Context, Ranges, LinkInv, LinkTypeOK, SignalsTypeOK
    <2> QED
      BY <1>2, <1>3, <2>1 DEF SaveInv, SecondWait
  <1> QED
    BY <1>2, <1>3, <1>4, <1>5
    DEF SaveInv, WriterFollows, WordOnPort, WordStrobed, WordsInRam, Serving, Busy,
        DelimiterDue, IdleSeen, StrobeDown, SavedInLoopback

\* The words that an edge of the writer's clock leaves in place.
LEMMA WordsKept ==
    ASSUME Context, SaveInv, RxDomain, Busy, ~WriterSetsUp
    PROVE  WordsInRam' /\ WordOnPort' /\ WordStrobed'
  <1> USE TopSizes
  <1>1. (WriterStrobes \/ WriterReleases) /\ RamPort
    <2>1. /\ onchip_memory2_0_s1_address < RamWords
          /\ phy_regs_written_to_ram \in Nat
      BY DEF Context, Ranges, RamTypeOK, BlockInv, WriterInRange
    <2> QED
      BY <2>1 DEF RxDomain, RamEdge, WriterResets, WriterFull, WriterIdle, WriterAnswers,
                  Busy, Serving, Room
  <1>2. /\ UNCHANGED <<onchip_memory2_0_s1_address, onchip_memory2_0_s1_writedata,
                      ram_writes_per_phy_addr, phy_regs_written_to_ram>>
        /\ UNCHANGED <<CPU_RESETn, write_phy_reg_space_to_ram, phy_reg,
                      set_reg0_to_loopback, reg0_in_loopback>>
        /\ dummy_wait' = NextWait
    BY <1>1 DEF WriterStrobes, WriterReleases, Copying, Running, progress, RxDomain,
                CountRxEdge, mdioVars, requests, loopbackFlags
  <1>3. /\ WordsSetUp' = WordsSetUp /\ BlockStart' = BlockStart
        /\ Serving' /\ Busy' /\ \A r, k : SavedWord(r, k)' = SavedWord(r, k)
    BY <1>2 DEF WordsSetUp, BlockStart, Serving, Busy, SavedWord, RegWord
  <1>4. WordOnPort'
    BY <1>2, <1>3 DEF SaveInv, WordOnPort
  <1>5. dummy_wait \in 0 .. WaitPeriod - 1
    BY DEF Context, Ranges, RamTypeOK
  <1>6. WordStrobed'
    <2>1. CASE WriterStrobes
      BY <2>1 DEF WriterStrobes, WordStrobed
    <2>2. CASE WriterReleases
      <3>1. dummy_wait' \notin 2 .. 6
        BY <1>2, <1>5, <2>2 DEF WriterReleases, NextWait
      <3> QED
        BY <3>1 DEF WordStrobed
    <2> QED
      BY <1>1, <2>1, <2>2
  <1>7. PICK a : a = onchip_memory2_0_s1_address
    OBVIOUS
  <1>8. /\ a \in Nat /\ a < RamWords /\ a = BlockStart + WordsSetUp
        /\ WordsSetUp \in Nat /\ BlockStart \in Nat
    BY <1>7, WordsSetUpBound
    DEF Context, Ranges, RamTypeOK, BlockInv, WriterInRange, SaveInv, WriterFollows,
        Busy, BlockStart
  <1>9. ram' = ram \/ ram' = [ram EXCEPT ![a] = onchip_memory2_0_s1_writedata]
    <2>1. a % RamWords = a
      BY <1>8
    <2> QED
      BY <1>1, <1>7, <2>1 DEF RamPort
  <1>10. ASSUME NEW r \in RegIndex, NEW k \in CopyIndex, Index(r, k) + 1 < WordsSetUp
         PROVE  ram'[BlockStart + 1 + Index(r, k)] = SavedWord(r, k)
    <2>1. PICK b : b = BlockStart + 1 + Index(r, k)
      OBVIOUS
    <2>2. b \in RamIndex /\ b # a
      BY <1>8, <1>10, <2>1, IndexRange DEF RamIndex
    <2>3. ram[b] = SavedWord(r, k)
      BY <1>10, <2>1 DEF SaveInv, WordsInRam, Busy
    <2>4. ram'[b] = ram[b]
      BY <1>9, <2>2 DEF Context, Ranges, RamTypeOK
    <2> QED
      BY <2>1, <2>3, <2>4
  <1>11. ASSUME NEW r \in RegIndex, NEW k \in CopyIndex, Index(r, k) + 1 = WordsSetUp,
                dummy_wait' \notin {1, 2}
         PROVE  ram'[BlockStart + 1 + Index(r, k)] = SavedWord(r, k)
    <2>1. BlockStart + 1 + Index(r, k) = a /\ WordsSetUp >= 1
      BY <1>8, <1>11, IndexRange
    <2>2. onchip_memory2_0_s1_writedata = SavedWord(r, k)
      BY <1>11 DEF SaveInv, WordOnPort
    <2>3. CASE onchip_memory2_0_s1_write = 1
      <3>1. ram' = [ram EXCEPT ![a] = onchip_memory2_0_s1_writedata]
        <4>1. a % RamWords = a
          BY <1>8
        <4> QED
          BY <1>1, <1>7, <2>3, <4>1 DEF RamPort
      <3>2. a \in RamIndex
        BY <1>8 DEF RamIndex
      <3> QED
        BY <2>1, <2>2, <3>1, <3>2 DEF Context, Ranges, RamTypeOK
    <2>4. CASE onchip_memory2_0_s1_write # 1
      <3>1. dummy_wait \notin 2 .. 6
        BY <2>1, <2>4 DEF SaveInv, WordStrobed
      <3>2. dummy_wait # 1
        BY <1>2, <1>11 DEF NextWait
      <3>3. dummy_wait \notin {1, 2}
        BY <1>5, <3>1, <3>2
      <3>4. ram' = ram
        BY <1>1, <2>4 DEF RamPort
      <3> QED
        BY <1>11, <3>3, <3>4 DEF SaveInv, WordsInRam
    <2> QED
      BY <2>3, <2>4
  <1>12. WordsInRam'
    BY <1>3, <1>10, <1>11 DEF WordsInRam, Index, CopyIndex
  <1> QED
    BY <1>4, <1>6, <1>12

\* The word that is set up is the next of the block, and the one before it is in
\* the memory by then.
LEMMA WordsSetUpNext ==
    ASSUME Context, SaveInv, RxDomain, WriterSetsUp
    PROVE  WordsInRam' /\ WordOnPort' /\ WordStrobed' /\ DelimiterDue'
  <1> USE TopSizes
  <1>1. /\ dummy_wait = 0 /\ Busy
        /\ UNCHANGED <<CPU_RESETn, write_phy_reg_space_to_ram, phy_reg,
                      set_reg0_to_loopback, reg0_in_loopback>>
        /\ dummy_wait' = 1
    BY DEF WriterSetsUp, Copying, Running, NextWait, Busy, Serving, RxDomain, CountRxEdge,
           mdioVars, requests, loopbackFlags
  <1>2. PICK m : m = WordsSetUp
    OBVIOUS
  <1>3. /\ WordsSetUp' = m + 1 /\ m \in Nat
        /\ BlockStart' = BlockStart /\ \A r, k : SavedWord(r, k)' = SavedWord(r, k)
    BY <1>1, <1>2, SetsUpOneWord, WordsSetUpBound
    DEF BlockStart, SavedWord, RegWord, Context, Ranges, BlockInv, WriterInRange
  <1>4. ram' = ram
    BY <1>1 DEF RxDomain, RamEdge, RamPort, Context, BlockInv, StrobeInWindow, Busy, Serving
  <1>5. WordStrobed'
    BY <1>1 DEF WordStrobed
  <1>6. WordsInRam'
    <2>1. ASSUME NEW r \in RegIndex, NEW k \in CopyIndex, Index(r, k) + 1 < m + 1
          PROVE  ram[BlockStart + 1 + Index(r, k)] = SavedWord(r, k)
      <3>1. Index(r, k) + 1 < m \/ Index(r, k) + 1 = m
        BY <1>3, <2>1, IndexRange
      <3> QED
        BY <1>1, <1>2, <3>1 DEF SaveInv, WordsInRam, Busy
    <2> QED
      BY <1>1, <1>3, <1>4, <2>1 DEF WordsInRam, Index, CopyIndex
  <1>7. PICK s, j : s = phy_regs_written_to_ram /\ j = ram_writes_per_phy_addr
    OBVIOUS
  <1>8. /\ s \in RegIndex /\ j \in CopyIndex /\ m = Index(s, j)
        /\ s \in Nat /\ j \in Nat /\ j < WritesPerReg /\ add_delimiter \in Bit
    BY <1>1, <1>2, <1>7
    DEF Context, Ranges, RamTypeOK, RegIndex, CopyIndex, Index, WordsSetUp, Busy
  <1>9. s = 0 => (add_delimiter = 1 <=> j = 0)
    BY <1>1, <1>7 DEF SaveInv, DelimiterDue, Busy, Serving
  <1>10. WordOnPort'
    <2>1. onchip_memory2_0_s1_writedata' = SavedWord(s, j)
      BY <1>7, <1>9 DEF WriterSetsUp, SetUpWord, LastCopy, SavedWord
    <2>2. ASSUME NEW r \in RegIndex, NEW k \in CopyIndex, Index(r, k) + 1 = m + 1
          PROVE  r = s /\ k = j
      <3>1. Index(r, k) = Index(s, j)
        BY <1>3, <1>8, <2>2, IndexRange
      <3> QED
        BY <1>8, <3>1, IndexUnique
    <2> QED
      BY <1>3, <2>1, <2>2 DEF WordOnPort, Index, CopyIndex
  <1>11. DelimiterDue'
    <2>1. CASE j = WritesPerReg - 1
      <3>1. phy_regs_written_to_ram' = s + 1
        BY <1>7, <2>1 DEF WriterSetsUp, LastCopy
      <3>2. s # 0 => add_delimiter' = 1
        BY <1>7, <2>1 DEF WriterSetsUp, LastCopy
      <3> QED
        BY <1>8, <3>1, <3>2 DEF DelimiterDue
    <2>2. CASE j # WritesPerReg - 1
      <3>1. /\ phy_regs_written_to_ram' = s /\ ram_writes_per_phy_addr' = j + 1
            /\ s = 0 => add_delimiter' = 0
        BY <1>7, <1>8, <1>9, <2>2 DEF WriterSetsUp, LastCopy, Bit
      <3>2. s # NumRegs
        BY <1>1, <1>7, <1>8 DEF Busy
      <3> QED
        BY <1>8, <3>1, <3>2 DEF DelimiterDue
    <2> QED
      BY <2>1, <2>2
  <1> QED
    BY <1>5, <1>6, <1>10, <1>11

\* An edge of the writer's clock, with the button up.
LEMMA SaveInvRx ==
    ASSUME Context, Context', SaveInv, RxDomain, CPU_RESETn = 1
    PROVE  SaveInv'
  <1> USE TopSizes
  <1>m. /\ UNCHANGED <<CPU_RESETn, current_state, phy_space, phy_reg, phy_preamble_count,
                      set_reg0_to_loopback, reg0_in_loopback,
                      write_phy_reg_space_to_ram, start_loopback_traffic>>
        /\ BlockStart' = BlockStart
    BY DEF RxDomain, CountRxEdge, mdioVars, phyVars, requests, loopbackFlags, BlockStart
  <1>t. /\ write_phy_reg_space_to_ram \in Bit /\ phy_reg_write_done \in Bit
        /\ set_reg0_to_loopback \in Bit /\ reg0_in_loopback \in Bit
        /\ onchip_memory2_0_s1_write \in Bit /\ onchip_memory2_0_s1_write' \in Bit
        /\ onchip_memory2_0_s1_address \in Nat
        /\ phy_regs_written_to_ram \in 0 .. NumRegs
    BY DEF Context, Ranges, LinkInv, LinkTypeOK, SignalsTypeOK, MdioTypeOK, RamTypeOK
  <1>r. RamPort /\ (onchip_memory2_0_s1_write = 0 => ram' = ram)
    BY DEF RxDomain, RamEdge, RamPort
  <1>1. \/ WriterIdle /\ ~Serving
        \/ WriterSetsUp /\ Busy
        \/ (WriterStrobes \/ WriterReleases) /\ Busy /\ ~WriterSetsUp
        \/ WriterAnswers /\ Serving /\ phy_regs_written_to_ram = NumRegs
    <2>1. onchip_memory2_0_s1_address < RamWords
      BY <1>t DEF Context, BlockInv, WriterInRange
    <2> QED
      BY <1>t, <2>1 DEF RxDomain, RamEdge, WriterResets, WriterFull, WriterIdle, WriterSetsUp,
                        WriterStrobes, WriterReleases, WriterAnswers, Copying, Running, Room,
                        Serving, Busy
  \* Idle, the writer has a block to begin.
  <1>2. ASSUME WriterIdle, ~Serving
        PROVE  /\ WriterFollows' /\ WordOnPort' /\ WordStrobed' /\ WordsInRam'
               /\ DelimiterDue' /\ IdleSeen'
    <2>1. /\ phy_regs_written_to_ram' = 0 /\ phy_reg_write_done' = 0
          /\ UNCHANGED <<ram_writes_per_phy_addr, add_delimiter>>
          /\ write_phy_reg_space_to_ram = 0 /\ ~Serving' /\ ~Busy'
      BY <1>2, <1>m DEF WriterIdle, Serving, Busy
    <2>2. ram_writes_per_phy_addr = 0 /\ phy_regs_written_to_ram \in {0, NumRegs}
      BY <1>t, <2>1 DEF Context, BlockInv, FirstBlock, SecondBlock, WriterAtStart, Bit
    <2>3. add_delimiter = 1
      BY <2>2 DEF SaveInv, DelimiterDue
    <2>4. DelimiterDue'
      BY <2>1, <2>2, <2>3 DEF DelimiterDue
    <2>5. IdleSeen'
      BY <1>m, <2>1 DEF SaveInv, IdleSeen
    <2> QED
      BY <2>1, <2>4, <2>5
      DEF WriterFollows, WordOnPort, WordStrobed, WordsInRam, Busy
  <1>3. ASSUME Busy, WriterSetsUp \/ WriterStrobes \/ WriterReleases
        PROVE  WriterFollows'
    <2>1. CASE WriterSetsUp
      <3>1. onchip_memory2_0_s1_address' = onchip_memory2_0_s1_address + 1
            /\ phy_reg_write_done' = phy_reg_write_done
        BY <2>1 DEF WriterSetsUp, Copying
      <3>2. PICK m : m = WordsSetUp
        OBVIOUS
      <3>3. WordsSetUp' = m + 1 /\ m \in Nat
        BY <2>1, <3>2, SetsUpOneWord, WordsSetUpBound
        DEF Context, Ranges, BlockInv, WriterInRange
      <3>4. onchip_memory2_0_s1_address = BlockStart + m /\ BlockStart \in Nat
        BY <1>3, <3>2 DEF SaveInv, WriterFollows, Busy, BlockStart
      <3>5. phy_reg_write_done # 1
        BY <1>3, <1>t DEF SaveInv, WriterFollows, Busy, Serving
      <3> QED
        BY <1>m, <3>1, <3>3, <3>4, <3>5 DEF WriterFollows
    <2>2. CASE WriterStrobes \/ WriterReleases
      <3>1. UNCHANGED <<onchip_memory2_0_s1_address, ram_writes_per_phy_addr,
                       phy_regs_written_to_ram, phy_reg_write_done>>
        BY <2>2 DEF WriterStrobes, WriterReleases, Copying, progress
      <3> QED
        BY <1>m, <3>1 DEF SaveInv, WriterFollows, WordsSetUp, Serving
    <2> QED
      BY <1>3, <2>1, <2>2
  \* The answer follows the last word; nothing is strobed any more.
  <1>4. ASSUME WriterAnswers, Serving, phy_regs_written_to_ram = NumRegs
        PROVE  /\ WriterFollows' /\ WordOnPort' /\ WordStrobed' /\ WordsInRam'
               /\ DelimiterDue' /\ IdleSeen'
    <2>1. UNCHANGED <<onchip_memory2_0_s1_address, ram_writes_per_phy_addr,
                     phy_regs_written_to_ram, add_delimiter>>
      BY <1>4 DEF WriterAnswers, port, progress
    <2>2. onchip_memory2_0_s1_write = 0
      BY <1>t, <1>4 DEF Context, BlockInv, StrobeInWindow, Bit
    <2>3. ram' = ram
      BY <1>r, <2>2
    <2>4. /\ WordsSetUp' = WordsSetUp /\ ~Busy' /\ Serving'
          /\ \A r, k : SavedWord(r, k)' = SavedWord(r, k)
      BY <1>m, <1>4, <2>1 DEF WordsSetUp, Busy, Serving, SavedWord, RegWord
    <2>5. WordsInRam'
      BY <1>m, <1>4, <2>3, <2>4 DEF SaveInv, WordsInRam, Index, CopyIndex
    <2>6. WriterFollows'
      BY <1>m, <1>4, <2>1, <2>4 DEF SaveInv, WriterFollows
    <2>7. DelimiterDue'
      BY <1>m, <2>1 DEF SaveInv, DelimiterDue
    <2> QED
      BY <1>m, <1>4, <2>4, <2>5, <2>6, <2>7
      DEF SaveInv, WordOnPort, WordStrobed, IdleSeen, Serving
  <1>5. /\ WriterFollows' /\ WordOnPort' /\ WordStrobed' /\ WordsInRam'
        /\ DelimiterDue' /\ IdleSeen'
    <2>1. Busy => IdleSeen'
      BY <1>m DEF SaveInv, IdleSeen, Busy, Serving
    <2>2. WriterStrobes \/ WriterReleases => DelimiterDue'
      BY <1>m DEF SaveInv, DelimiterDue, WriterStrobes, WriterReleases, progress
    <2> QED
      BY <1>1, <1>2, <1>3, <1>4, <2>1, <2>2, WordsKept, WordsSetUpNext
  <1>6. StrobeDown'
    <2>1. phy_reg_write_done' = 1 => onchip_memory2_0_s1_write' = 0
      BY <1>m, <1>5, <1>t DEF WriterFollows, Context, BlockInv, StrobeInWindow, Bit
    <2>2. current_state = "ENABLE_LOOPBACK_s" => onchip_memory2_0_s1_write' = 0
      BY <1>m, <1>t DEF Context, BlockInv, FirstBlock, SecondBlock, Bit
    <2> QED
      BY <1>m, <2>1, <2>2 DEF StrobeDown
  <1>7. SecondWait'
    <2>1. write_phy_reg_space_to_ram = 0 /\ phy_reg_write_done = 0 => phy_reg_write_done' = 0
      BY <1>1 DEF WriterIdle, WriterSetsUp, WriterStrobes, WriterReleases, WriterAnswers,
                  Copying, Serving, Busy
    <2> QED
      BY <1>m, <1>t, <2>1 DEF SaveInv, SecondWait, Bit
  <1>8. SavedBeforeLoopback'
    <2>1. SUFFICES ASSUME current_state = "ENABLE_LOOPBACK_s"
                   PROVE  Saved(FirstAddr)'
      BY <1>m DEF SavedBeforeLoopback
    <2>2. ram' = ram
      BY <1>r, <2>1 DEF SaveInv, StrobeDown
    <2> QED
      BY <1>m, <2>1, <2>2 DEF SaveInv, SavedBeforeLoopback, Saved, AddressOf, Bits
  <1>9. SavedInLoopback'
    <2>1. SUFFICES ASSUME start_loopback_traffic' = 1, write_phy_reg_space_to_ram' = 1,
                          phy_reg_write_done' = 1
                   PROVE  Saved(FirstAddr + BlockWords)'
      BY DEF SavedInLoopback, Saved, BlockWords
    <2>2. Serving /\ phy_regs_written_to_ram = NumRegs
      <3>1. phy_reg_write_done' = phy_reg_write_done \/ ~Busy
        BY <1>t DEF RxDomain, RamEdge, WriterResets, WriterFull, WriterIdle, WriterSetsUp,
                    WriterStrobes, WriterReleases, WriterAnswers, Copying, Busy, Serving
      <3>2. ~Busy
        BY <1>t, <2>1, <3>1 DEF SaveInv, WriterFollows, Busy, Serving
      <3> QED
        BY <1>m, <1>t, <2>1, <3>2 DEF Busy, Serving
    <2>3. Saved(BlockStart)
      BY <2>2, BlockSaved DEF SaveInv
    <2>4. reg0_in_loopback = 1
      BY <1>m, <2>1 DEF Context, LinkFacts, Carried, FlagsKept
    <2>5. BlockStart = FirstAddr + BlockWords
      BY <2>4 DEF BlockStart
    <2>6. onchip_memory2_0_s1_write = 0
      BY <1>t, <2>2 DEF Serving, Context, BlockInv, StrobeInWindow, Bit
    <2>7. ram' = ram
      BY <1>r, <2>6
    <2> QED
      BY <1>m, <2>3, <2>5, <2>7 DEF Saved, AddressOf, Bits
  <1> QED
    BY <1>5, <1>6, <1>7, <1>8, <1>9 DEF SaveInv

\* Only the wait lets traffic start, and only there can it be going on.
LEMMA SavedInLoopbackMdc ==
    ASSUME Context, SaveInv, MdcDomain
    PROVE  SavedInLoopback'
  <1>1. PICK level \in PinLevels : MdcEdge(level) /\ PhyEdge(level)
    BY DEF MdcDomain, MdcTick
  <1>2. UNCHANGED <<ram, phy_reg_write_done>>
    BY DEF MdcDomain, MdcTick, rxVars
  <1>t. /\ write_phy_reg_space_to_ram \in Bit
        /\ start_loopback_traffic \in Bit
    BY DEF Context, Ranges, LinkInv, LinkTypeOK, SignalsTypeOK
  <1>3. SUFFICES ASSUME start_loopback_traffic' = 1, phy_reg_write_done = 1
                 PROVE  Saved(FirstAddr + BlockWords)'
    BY <1>2 DEF SavedInLoopback, Saved, BlockWords
  <1>4. WaitForRamWrite
    <2>1. start_loopback_traffic = 1 =>
            current_state \in {"RESET_s", "WAIT_FOR_RAM_WRITE_s"}
      BY DEF Context, LinkFacts, Carried, FlagsKept
    <2> QED
      BY <1>1, <1>3, <2>1
      DEF MdcEdge, Reset, PostRstWaiting, Preamble, SendReadCmd, Turnaround, Read,
          StoreReadData, EnableLoopback, SendWriteCmd, SendWriteData, requests
  <1>5. reg0_in_loopback = 1 /\ current_state = "WAIT_FOR_RAM_WRITE_s"
    BY <1>3, <1>4 DEF WaitForRamWrite, Context, LinkFacts, Carried, FlagsKept
  <1>6. write_phy_reg_space_to_ram = 1 /\ start_loopback_traffic = 1
    BY <1>t, <1>3, <1>5 DEF SaveInv, SecondWait, Bit
  <1>7. Saved(FirstAddr + BlockWords)
    BY <1>3, <1>6 DEF SaveInv, SavedInLoopback
  <1>8. UNCHANGED phy_space
    BY <1>1, <1>5, SpaceStill DEF Context, LinkFacts
  <1> QED
    BY <1>2, <1>7, <1>8 DEF Saved, BlockWords, AddressOf, Bits

\* An edge of enet_mdc_clk while the button is down.
LEMMA SaveInvMdcReset ==
    ASSUME Context, SaveInv, MdcDomain, CPU_RESETn = 0
    PROVE  SaveInv'
  <1>1. current_state' = "RESET_s"
    <2>1. PICK level : MdcEdge(level)
      BY DEF MdcDomain, MdcTick
    <2>2. \A s : Goto(s) = "RESET_s"
      BY DEF Goto
    <2> QED
      BY <2>1, <2>2 DEF MdcEdge, Reset, PostRstWaiting, Preamble, SendReadCmd, Turnaround,
                        Read, StoreReadData, WaitForRamWrite, EnableLoopback, SendWriteCmd,
                        SendWriteData
  <1>2. UNCHANGED <<CPU_RESETn, rx_edges_in_reset, phy_reg_write_done,
                   onchip_memory2_0_s1_write, add_delimiter, ram_writes_per_phy_addr,
                   phy_regs_written_to_ram>>
    BY DEF MdcDomain, MdcTick, CountMdcEdge, rxVars, port, progress
  <1> QED
    BY <1>1, <1>2, SavedInLoopbackMdc
    DEF SaveInv, WriterFollows, WordOnPort, WordStrobed, WordsInRam, Serving, Busy,
        DelimiterDue, IdleSeen, StrobeDown, SecondWait, SavedBeforeLoopback

\* When the machine asks, the writer stands at the beginning of a block.
LEMMA NothingSetUp ==
    ASSUME Context, SaveInv, CPU_RESETn = 1, write_phy_reg_space_to_ram = 0,
           current_state = "WAIT_FOR_RAM_WRITE_s"
    PROVE  WordsSetUp = 0 /\ onchip_memory2_0_s1_address = BlockStart
  <1> USE TopSizes
  <1>t. set_reg0_to_loopback \in Bit /\ reg0_in_loopback \in Bit
    BY DEF Context, Ranges, LinkInv, LinkTypeOK, MdioTypeOK
  <1>1. CASE set_reg0_to_loopback = 0 /\ reg0_in_loopback = 0
    <2>1. WriterAtStart
      BY <1>1 DEF Context, BlockInv, FirstBlock
    <2> QED
      BY <1>1, <2>1, WordsAtEnds DEF WriterAtStart, BlockStart, Context, Ranges
  <1>2. CASE set_reg0_to_loopback = 1 \/ reg0_in_loopback = 1
    <2>1. onchip_memory2_0_s1_address = FirstAddr + BlockWords /\ ram_writes_per_phy_addr = 0
      BY <1>2 DEF Context, BlockInv, SecondBlock
    <2>2. phy_regs_written_to_ram = 0
      BY <1>2 DEF SaveInv, IdleSeen
    <2>3. BlockStart = FirstAddr + BlockWords
      BY <1>2 DEF BlockStart
    <2> QED
      BY <2>1, <2>2, <2>3, WordsAtEnds DEF Context, Ranges
  <1> QED
    BY <1>t, <1>1, <1>2 DEF Bit

\* The words follow the request.
LEMMA WordsKeptMdc ==
    ASSUME Context, SaveInv, MdcDomain, CPU_RESETn = 1
    PROVE  WriterFollows' /\ WordOnPort' /\ WordStrobed' /\ WordsInRam'
  <1> USE TopSizes
  <1>1. PICK level \in PinLevels : MdcEdge(level) /\ PhyEdge(level)
    BY DEF MdcDomain, MdcTick
  <1>u. /\ UNCHANGED <<CPU_RESETn, phy_reg_write_done, ram, dummy_wait,
                      onchip_memory2_0_s1_address, onchip_memory2_0_s1_write,
                      onchip_memory2_0_s1_writedata, ram_writes_per_phy_addr,
                      phy_regs_written_to_ram>>
        /\ WordsSetUp' = WordsSetUp
    BY DEF MdcDomain, MdcTick, CountMdcEdge, rxVars, port, progress, WordsSetUp
  <1>t. write_phy_reg_space_to_ram \in Bit
    BY DEF Context, Ranges, LinkInv, LinkTypeOK, SignalsTypeOK
  <1>2. SUFFICES ASSUME Serving'
                 PROVE  WriterFollows' /\ WordOnPort' /\ WordStrobed' /\ WordsInRam'
    BY <1>u DEF SaveInv, WriterFollows, WordOnPort, WordStrobed, WordsInRam, Busy
  <1>3. WaitForRamWrite
    <2>1. write_phy_reg_space_to_ram = 1 =>
            current_state \in {"WAIT_FOR_RAM_WRITE_s", "ENABLE_LOOPBACK_s", "RESET_s"}
      BY DEF Context, LinkFacts, RequestHeld
    <2>2. write_phy_reg_space_to_ram' = 1
      BY <1>2 DEF Serving
    <2> QED
      BY <1>1, <2>1, <2>2
      DEF MdcEdge, Reset, PostRstWaiting, Preamble, SendReadCmd, Turnaround, Read,
          StoreReadData, EnableLoopback, SendWriteCmd, SendWriteData, requests
  <1>4. /\ UNCHANGED <<set_reg0_to_loopback, reg0_in_loopback, phy_reg>>
        /\ current_state = "WAIT_FOR_RAM_WRITE_s"
    BY <1>3 DEF WaitForRamWrite, loopbackFlags
  <1>5. BlockStart' = BlockStart /\ \A r, k : SavedWord(r, k)' = SavedWord(r, k)
    BY <1>4 DEF BlockStart, SavedWord, RegWord
  <1>6. CASE write_phy_reg_space_to_ram = 1
    <2>1. Serving /\ (Busy' <=> Busy)
      BY <1>2, <1>6, <1>u DEF Serving, Busy
    <2>2. WriterFollows'
      BY <1>5, <1>u, <2>1 DEF SaveInv, WriterFollows
    <2>3. WordOnPort' /\ WordStrobed'
      BY <1>5, <1>u, <2>1 DEF SaveInv, WordOnPort, WordStrobed, Index, CopyIndex
    <2>4. WordsInRam'
      BY <1>5, <1>u, <2>1 DEF SaveInv, WordsInRam, Index, CopyIndex
    <2> QED
      BY <2>2, <2>3, <2>4
  <1>7. CASE write_phy_reg_space_to_ram = 0
    <2>1. WordsSetUp' = 0 /\ onchip_memory2_0_s1_address' = BlockStart'
      BY <1>4, <1>5, <1>7, <1>u, NothingSetUp
    <2>2. \A r \in RegIndex, k \in CopyIndex : Index(r, k) \in Nat
      BY IndexRange
    <2>3. \A r \in RegIndex, k \in CopyIndex :
            ~(Index(r, k)' + 1 = WordsSetUp') /\ ~(Index(r, k)' + 1 < WordsSetUp')
      BY <2>1, <2>2 DEF Index
    <2>4. WriterFollows'
      <3>1. BlockStart' \in Nat
        BY <1>5 DEF BlockStart
      <3>2. onchip_memory2_0_s1_address' = BlockStart' + WordsSetUp'
        <4>1. \A b \in Nat : b = b + 0
          OBVIOUS
        <4> QED
          BY <2>1, <3>1, <4>1
      <3> QED
        BY <1>u, <3>2 DEF SaveInv, WriterFollows
    <2>5. WordOnPort' /\ WordsInRam'
      BY <2>3 DEF WordOnPort, WordsInRam, CopyIndex
    <2>6. WordStrobed'
      BY <2>1 DEF WordStrobed
    <2> QED
      BY <2>4, <2>5, <2>6
  <1> QED
    BY <1>t, <1>6, <1>7 DEF Bit

\* From one request to the next the writer has the whole preamble to see that the
\* first is withdrawn.
LEMMA IdleSeenMdc ==
    ASSUME MaxMdcPerRx <= PreambleBits,
           Context, SaveInv, MdcDomain, CPU_RESETn = 1
    PROVE  IdleSeen' /\ SecondWait'
  <1> USE TopSizes, MdioAssumption
  <1>1. PICK level : MdcEdge(level)
    BY DEF MdcDomain, MdcTick
  <1>u. /\ UNCHANGED <<CPU_RESETn, phy_reg_write_done, phy_regs_written_to_ram>>
        /\ mdc_since_rx < MaxMdcPerRx /\ mdc_since_rx' = mdc_since_rx + 1
        /\ mdc_since_rx \in Nat
    BY DEF MdcDomain, MdcTick, CountMdcEdge, rxVars, progress, Context
  <1>g. \A s : Goto(s) = s
    BY DEF Goto
  <1>t. /\ write_phy_reg_space_to_ram \in Bit /\ phy_reg_write_done \in Bit
        /\ set_reg0_to_loopback \in Bit /\ reg0_in_loopback \in Bit
        /\ phy_preamble_count \in 0 .. PreambleWrap - 1
        /\ current_state \in MdioState
    BY DEF Context, Ranges, LinkInv, LinkTypeOK, SignalsTypeOK, MdioTypeOK
  <1>h. write_phy_reg_space_to_ram = 1 =>
          current_state \in {"WAIT_FOR_RAM_WRITE_s", "ENABLE_LOOPBACK_s", "RESET_s"}
    BY DEF Context, LinkFacts, RequestHeld
  <1>w. set_reg0_to_loopback = 0 /\ reg0_in_loopback = 0 =>
          current_state \notin {"SEND_WRITE_CMD_s", "SEND_WRITE_DATA_s"}
    BY DEF Context, BlockInv, FirstBlock
  <1>i. IdleSeen /\ SecondWait
    BY DEF SaveInv
  <1>2. CASE EnableLoopback
    <2>1. /\ current_state' = "PHY_PREAMBLE_s" /\ set_reg0_to_loopback' = 1
          /\ phy_preamble_count' = 0
      BY <1>2, <1>g, <1>i DEF EnableLoopback, IdleSeen
    <2> QED
      BY <1>u, <2>1 DEF IdleSeen, SecondWait
  <1>3. CASE Reset
    <2>1. /\ current_state' = "POST_RST_WAIT_s"
          /\ set_reg0_to_loopback' = 0 /\ reg0_in_loopback' = 0
      BY <1>3, <1>g DEF Reset
    <2> QED
      BY <2>1 DEF IdleSeen, SecondWait
  <1>4. CASE WaitForRamWrite
    <2>1. /\ write_phy_reg_space_to_ram' = 1 /\ phy_preamble_count' = phy_preamble_count
          /\ phy_preamble_count = 0 /\ reg0_in_loopback' = reg0_in_loopback
          /\ reg0_in_loopback = 1 => start_loopback_traffic' = 1
      BY <1>4, <1>i DEF WaitForRamWrite, IdleSeen, loopbackFlags
    <2> QED
      BY <2>1 DEF IdleSeen, SecondWait
  <1>5. CASE StoreReadData
    <2>1. /\ phy_preamble_count' = 0 /\ current_state = "STORE_READ_DATA_s"
          /\ UNCHANGED <<set_reg0_to_loopback, reg0_in_loopback,
                        write_phy_reg_space_to_ram, start_loopback_traffic>>
      BY <1>5 DEF StoreReadData, loopbackFlags, requests
    <2>2. write_phy_reg_space_to_ram = 0
      BY <1>h, <1>t, <2>1 DEF Bit
    <2>3. set_reg0_to_loopback = 1 \/ reg0_in_loopback = 1 =>
            phy_regs_written_to_ram = 0 /\ phy_reg_write_done = 0
      BY <1>i, <1>t, <2>1, <2>2 DEF IdleSeen, Bit
    <2>4. IdleSeen'
      BY <1>u, <2>1, <2>3 DEF IdleSeen
    <2>5. SecondWait'
      BY <1>u, <2>1, <2>2, <2>3 DEF SecondWait
    <2> QED
      BY <2>4, <2>5
  <1>6. CASE Preamble
    <2>1. /\ current_state = "PHY_PREAMBLE_s"
          /\ UNCHANGED <<set_reg0_to_loopback, reg0_in_loopback, write_phy_reg_space_to_ram>>
          /\ phy_preamble_count' = (phy_preamble_count + 1) % PreambleWrap
          /\ current_state' = IF ~PreambleDone THEN "PHY_PREAMBLE_s"
                              ELSE IF set_reg0_to_loopback = 1 THEN "SEND_WRITE_CMD_s"
                              ELSE "SEND_READ_CMD_s"
      BY <1>6, <1>g DEF Preamble, loopbackFlags, requests
    <2>2. phy_preamble_count' <= phy_preamble_count + 1
      BY <1>t, <2>1
    <2>3. ASSUME phy_preamble_count <= mdc_since_rx
          PROVE  /\ current_state' = "PHY_PREAMBLE_s"
                 /\ phy_preamble_count' <= mdc_since_rx'
      <3>1. ~PreambleDone
        BY <1>t, <1>u, <2>3 DEF PreambleDone
      <3>2. phy_preamble_count' \in Nat
        BY <1>t, <2>1
      <3> QED
        BY <1>t, <1>u, <2>1, <2>2, <2>3, <3>1, <3>2
    <2>4. current_state' \notin {"WAIT_FOR_RAM_WRITE_s", "ENABLE_LOOPBACK_s"}
      BY <2>1
    <2> QED
      BY <1>i, <1>u, <2>1, <2>3, <2>4 DEF IdleSeen, SecondWait
  <1>7. CASE PostRstWaiting \/ SendReadCmd \/ Turnaround \/ Read(level) \/ SendWriteCmd
             \/ SendWriteData
    <2>1. /\ current_state \notin {"PHY_PREAMBLE_s", "WAIT_FOR_RAM_WRITE_s",
                                  "ENABLE_LOOPBACK_s", "RESET_s"}
          /\ current_state' \notin {"WAIT_FOR_RAM_WRITE_s", "ENABLE_LOOPBACK_s"}
          /\ UNCHANGED write_phy_reg_space_to_ram
      <3>1. CASE PostRstWaiting \/ SendReadCmd \/ Turnaround
        BY <3>1, <1>g DEF PostRstWaiting, SendReadCmd, Turnaround, requests
      <3>2. CASE Read(level) \/ SendWriteCmd \/ SendWriteData
        BY <3>2, <1>g DEF Read, SendWriteCmd, SendWriteData, requests
      <3> QED
        BY <1>7, <3>1, <3>2
    <2>2. write_phy_reg_space_to_ram = 0
      BY <1>h, <1>t, <2>1 DEF Bit
    <2>3. set_reg0_to_loopback' = 1 \/ reg0_in_loopback' = 1 =>
            set_reg0_to_loopback = 1 \/ reg0_in_loopback = 1
      BY <1>7, <1>t, <1>w DEF PostRstWaiting, SendReadCmd, Turnaround, Read, SendWriteCmd,
                              SendWriteData, loopbackFlags, Bit
    <2>4. IdleSeen'
      BY <1>i, <1>u, <2>1, <2>2, <2>3 DEF IdleSeen
    <2> QED
      BY <2>1, <2>4 DEF SecondWait
  <1> QED
    BY <1>1, <1>2, <1>3, <1>4, <1>5, <1>6, <1>7 DEF MdcEdge

\* An edge of enet_mdc_clk with the button up.
LEMMA SaveInvMdc ==
    ASSUME MaxMdcPerRx <= PreambleBits,
           Context, Context', SaveInv, MdcDomain, CPU_RESETn = 1
    PROVE  SaveInv'
  <1> USE TopSizes
  <1>1. PICK level \in PinLevels : MdcEdge(level) /\ PhyEdge(level)
    BY DEF MdcDomain, MdcTick
  <1>u. UNCHANGED <<CPU_RESETn, rx_edges_in_reset, phy_reg_write_done, ram,
                   onchip_memory2_0_s1_write, add_delimiter, ram_writes_per_phy_addr,
                   phy_regs_written_to_ram>>
    BY DEF MdcDomain, MdcTick, CountMdcEdge, rxVars, port, progress
  <1>2. DelimiterDue'
    BY <1>u DEF SaveInv, DelimiterDue
  <1>3. ASSUME current_state' = "ENABLE_LOOPBACK_s"
        PROVE  onchip_memory2_0_s1_write' = 0 /\ Saved(FirstAddr)'
    <2>1. WaitForRamWrite /\ RamSaved
      BY <1>1, <1>3
      DEF MdcEdge, Goto, Reset, PostRstWaiting, Preamble, SendReadCmd, Turnaround, Read,
          StoreReadData, WaitForRamWrite, EnableLoopback, SendWriteCmd, SendWriteData
    <2>2. /\ current_state = "WAIT_FOR_RAM_WRITE_s"
          /\ phy_reg_write_done = 1 /\ reg0_in_loopback = 0
          /\ UNCHANGED <<set_reg0_to_loopback, reg0_in_loopback, phy_reg>>
      BY <2>1 DEF WaitForRamWrite, RamSaved, loopbackFlags
    <2>3. /\ set_reg0_to_loopback \in Bit /\ write_phy_reg_space_to_ram \in Bit
          /\ onchip_memory2_0_s1_write \in Bit
      BY DEF Context, Ranges, LinkInv, LinkTypeOK, SignalsTypeOK, MdioTypeOK, RamTypeOK
    <2>4. set_reg0_to_loopback = 0
      BY <1>3, <1>u, <2>2, <2>3 DEF Context, BlockInv, SecondBlock, Bit
    <2>5. Serving /\ phy_regs_written_to_ram = NumRegs
      BY <2>2, <2>3, <2>4
      DEF Context, BlockInv, FirstBlock, WriterAtStart, Serving, SaveInv, WriterFollows, Bit
    <2>6. Saved(FirstAddr)
      <3>1. Saved(BlockStart)
        BY <2>5, BlockSaved DEF SaveInv
      <3> QED
        BY <2>2, <2>4, <3>1 DEF BlockStart
    <2>7. UNCHANGED phy_space
      BY <1>1, <2>2, SpaceStill DEF Context, LinkFacts
    <2>8. onchip_memory2_0_s1_write = 0
      BY <2>2 DEF SaveInv, StrobeDown
    <2> QED
      BY <1>u, <2>6, <2>7, <2>8 DEF Saved, BlockWords, AddressOf, Bits
  <1>4. StrobeDown'
    BY <1>u, <1>3 DEF SaveInv, StrobeDown
  <1>5. SavedBeforeLoopback'
    BY <1>3 DEF SavedBeforeLoopback, Saved
  <1> QED
    BY <1>2, <1>4, <1>5, WordsKeptMdc, IdleSeenMdc, SavedInLoopbackMdc DEF SaveInv

\* A press and a release.
LEMMA SaveInvButton ==
    ASSUME Context, SaveInv, ButtonDown \/ ButtonUp
    PROVE  SaveInv'
  <1> USE TopSizes
  <1>u. /\ UNCHANGED <<current_state, phy_space, phy_reg, phy_preamble_count,
                      set_reg0_to_loopback, reg0_in_loopback, write_phy_reg_space_to_ram,
                      start_loopback_traffic, phy_reg_write_done>>
        /\ UNCHANGED <<ram, onchip_memory2_0_s1_write, add_delimiter,
                      ram_writes_per_phy_addr, phy_regs_written_to_ram>>
    BY DEF ButtonDown, ButtonUp, Press, Release, mdioVars, phyVars, requests, loopbackFlags,
           rxVars, port, progress
  <1>1. StrobeDown' /\ SecondWait' /\ SavedBeforeLoopback' /\ SavedInLoopback'
    BY <1>u DEF SaveInv, StrobeDown, SecondWait, SavedBeforeLoopback, SavedInLoopback,
                Saved, BlockWords, AddressOf, Bits
  <1>2. CASE ButtonDown
    <2>1. CPU_RESETn' = 0 /\ rx_edges_in_reset' = 0
      BY <1>2 DEF ButtonDown, Press, PressButton
    <2> QED
      BY <1>u, <1>1, <2>1
      DEF SaveInv, WriterFollows, WordOnPort, WordStrobed, WordsInRam, Serving, Busy,
          DelimiterDue, IdleSeen
  <1>3. CASE ButtonUp
    <2>1. /\ CPU_RESETn = 0 /\ rx_edges_in_reset >= 1
          /\ mdc_edges_in_reset >= 1 /\ mdc_edges_in_reset >= 2
      BY <1>3 DEF ButtonUp, Release, ReleaseButton
    <2>2. /\ write_phy_reg_space_to_ram = 0 /\ set_reg0_to_loopback = 0
          /\ reg0_in_loopback = 0 /\ phy_reg_write_done = 0
      BY <2>1 DEF Context, BlockInv, PressSeen, WriterAtStart
    <2> QED
      BY <1>u, <1>1, <2>1, <2>2
      DEF SaveInv, WriterFollows, WordOnPort, WordStrobed, WordsInRam, Serving, Busy,
          DelimiterDue, IdleSeen
  <1> QED
    BY <1>2, <1>3

\* Every step of the design keeps what is saved.
LEMMA SaveInvStep ==
    ASSUME MaxMdcPerRx <= PreambleBits, Context, Context', SaveInv, [Next]_vars
    PROVE  SaveInv'
  <1>1. CASE UNCHANGED vars
    <2>1. /\ UNCHANGED <<current_state, phy_space, phy_reg, phy_preamble_count,
                        set_reg0_to_loopback, reg0_in_loopback, write_phy_reg_space_to_ram,
                        start_loopback_traffic, phy_reg_write_done, CPU_RESETn,
                        rx_edges_in_reset, mdc_since_rx>>
          /\ UNCHANGED <<ram, port, progress, dummy_wait>>
      BY <1>1 DEF vars, linkVars, rxVars, mdioVars, phyVars, requests, loopbackFlags,
                  buttonVars
    <2>2. WordsSetUp' = WordsSetUp /\ BlockStart' = BlockStart
          /\ \A r, k : SavedWord(r, k)' = SavedWord(r, k)
      BY <2>1 DEF WordsSetUp, BlockStart, SavedWord, RegWord, progress
    <2>3. WriterFollows' /\ WordOnPort' /\ WordStrobed' /\ WordsInRam'
      BY <2>1, <2>2 DEF SaveInv, WriterFollows, WordOnPort, WordStrobed, WordsInRam, Serving,
                        Busy, Index, CopyIndex, port, progress
    <2> QED
      BY <2>1, <2>3 DEF SaveInv, DelimiterDue, IdleSeen, StrobeDown, SecondWait,
                        SavedBeforeLoopback, SavedInLoopback, Saved, BlockWords, AddressOf,
                        Bits, port, progress
  <1>2. CPU_RESETn \in Bit
    BY DEF Context, Ranges, LinkInv, LinkTypeOK, SignalsTypeOK
  <1> QED
    BY <1>1, <1>2, SaveInvCleared, SaveInvRx, SaveInvMdcReset, SaveInvMdc, SaveInvButton
    DEF Next, Bit

\* The point of the design: register 0 of the PHY is rewritten only when the first
\* block of the memory holds what all its registers were, and when the second
\* request has been answered, the second block holds what they are in loopback
\* (altera_max_10.v:137-211 and :538-551).  It holds for every number and width of
\* the registers, every order of the edges of the two clocks and every press, as long
\* as an edge of the receive clock falls within every preamble.  With none at all
\* between the two requests the writer would miss that the first was withdrawn, and
\* its old answer would pass for the second.
THEOREM SnapshotsReachRam ==
    ASSUME MaxMdcPerRx <= PreambleBits
    PROVE  Spec => []SnapshotsSaved
  <1>1. Init => SaveInv
    BY SaveInvInit
  <1>2. Context /\ Context' /\ SaveInv /\ [Next]_vars => SaveInv'
    BY SaveInvStep
  <1>3. Spec => []Context
    <2>1. TypeOK => mdc_since_rx \in 0 .. MaxMdcPerRx
      BY DEF TypeOK
    <2> QED
      BY <2>1, LinkFactsInvariant, RangesInvariant, BlockInvariance, TopTypes, PTL DEF Context
  <1>4. SaveInv => SnapshotsSaved
    BY DEF SaveInv, SnapshotsSaved
  <1> QED
    BY <1>1, <1>2, <1>3, <1>4, PTL DEF Spec

-----------------------------------------------------------------------------
(* The frame on the wire. *)

LastBit == <<Len(FieldBits), FieldBits[Len(FieldBits)] - 1>>

\* The bit that the one to be sent next follows.
BitBefore(f) ==
    IF phy_field_count[f] > 0 THEN <<f, phy_field_count[f] - 1>>
    ELSE IF f = 1 THEN NO_BIT ELSE <<f - 1, FieldBits[f - 1] - 1>>

TxWire ==
    /\ to_phy_cur_state \in Fields => eneta_tx_d = BitBefore(to_phy_cur_state)
    /\ to_phy_cur_state = TO_PHY_READ_LB_PKT_s => eneta_tx_d = LastBit

\* A press stops the sender, and out of a press it sends as long as it may; the bit
\* that a press leaves on the wire is gone before the wait after the reset is over.
TxStops ==
    /\ CPU_RESETn = 0 /\ rx_edges_in_reset >= 1 => to_phy_cur_state = TO_PHY_RESET_s
    /\ CPU_RESETn = 1 /\ to_phy_cur_state # TO_PHY_RESET_s => start_loopback_traffic = 1
    /\ CPU_RESETn = 1 /\ to_phy_cur_state = TO_PHY_RESET_s /\ eneta_tx_d # NO_BIT =>
          \/ current_state = "RESET_s"
          \/ /\ current_state = "POST_RST_WAIT_s"
             /\ phy_wait_after_reset_count <= mdc_since_rx

\* The bit on the wire is the one before the next to be sent.
LEMMA TxWireEdge ==
    ASSUME TxInv, TxWire, TxEdge
    PROVE  TxWire'
  <1> USE FieldFacts DEF TxInv, TxTypeOK, TO_PHY_RESET_s, TO_PHY_READ_LB_PKT_s
  <1>1. CASE TxReset
    <2>1. to_phy_cur_state' \in {0, 1} /\ eneta_tx_d' = NO_BIT
      BY <1>1 DEF TxReset, TxGoto
    <2>2. 1 \in Fields /\ phy_field_count'[1] = 0
      <3>1. Len(FieldBits) # 0
        BY FieldAssumption, EmptySeq
      <3> QED
        BY <1>1, <3>1 DEF TxReset
    <2>3. to_phy_cur_state' # Len(FieldBits) + 1
      BY <2>1, <2>2
    <2> QED
      BY <2>1, <2>2, <2>3 DEF TxWire, BitBefore
  <1>2. ASSUME NEW f \in Fields, TxSend(f)
        PROVE  TxWire'
    <2>1. PICK c : c = phy_field_count[f]
      OBVIOUS
    <2>2. /\ c \in Nat /\ f \in Nat /\ f >= 1 /\ f <= Len(FieldBits)
          /\ \A g \in Fields : g > f => phy_field_count[g] = 0
      BY <1>2, <2>1 DEF TxSend, TxInStep
    <2>3. /\ phy_field_count' = [phy_field_count EXCEPT ![f] = c + 1]
          /\ eneta_tx_d' = <<f, c>>
      BY <1>2, <2>1 DEF TxSend
    <2>4. \/ to_phy_cur_state' = 0
          \/ to_phy_cur_state' = f + 1 /\ c = FieldBits[f] - 1
          \/ to_phy_cur_state' = f
      BY <1>2, <2>1 DEF TxSend, TxGoto, FieldSent
    <2>5. CASE to_phy_cur_state' = 0
      BY <2>5 DEF TxWire
    <2>6. CASE to_phy_cur_state' = f + 1 /\ c = FieldBits[f] - 1
      <3>1. CASE f = Len(FieldBits)
        BY <2>2, <2>3, <2>6, <3>1 DEF TxWire, LastBit
      <3>2. CASE f < Len(FieldBits)
        <4>1. f + 1 \in Fields /\ phy_field_count'[f + 1] = 0
          BY <2>2, <2>3, <3>2
        <4>2. BitBefore(f + 1)' = <<f, FieldBits[f] - 1>>
          BY <2>2, <4>1 DEF BitBefore
        <4> QED
          BY <2>2, <2>3, <2>6, <3>2, <4>2 DEF TxWire, BitBefore
      <3> QED
        BY <2>2, <3>1, <3>2
    <2>7. CASE to_phy_cur_state' = f
      <3>1. phy_field_count'[f] = c + 1
        BY <2>3
      <3>2. BitBefore(f)' = <<f, c>>
        BY <2>2, <3>1 DEF BitBefore
      <3> QED
        BY <2>2, <2>3, <2>7, <3>2 DEF TxWire, BitBefore
    <2> QED
      BY <2>4, <2>5, <2>6, <2>7
  <1>3. CASE TxReadLbPkt
    BY <1>3 DEF TxReadLbPkt, TxGoto, TxWire, LastBit
  <1> QED
    BY <1>1, <1>2, <1>3 DEF TxEdge

\* The sender stops at an edge of its own clock during a press, ...
LEMMA TxStopsRx ==
    ASSUME TxInv, TxStops, RxDomain, CPU_RESETn \in Bit, start_loopback_traffic \in Bit
    PROVE  TxStops'
  <1> USE FieldFacts DEF TO_PHY_RESET_s, TO_PHY_READ_LB_PKT_s
  <1>1. TxEdge
    BY DEF RxDomain
  <1>2. UNCHANGED <<CPU_RESETn, start_loopback_traffic>>
    BY DEF RxDomain, CountRxEdge, mdioVars, requests
  <1>3. CASE CPU_RESETn = 0
    <2>1. to_phy_cur_state' = 0
      BY <1>1, <1>3 DEF TxEdge, TxReset, TxSend, TxReadLbPkt, TxGoto
    <2> QED
      BY <1>2, <1>3, <2>1 DEF TxStops
  <1>4. CASE CPU_RESETn = 1
    <2>1. CASE TxReset
      <3>1. eneta_tx_d' = NO_BIT
        BY <2>1 DEF TxReset
      <3>2. to_phy_cur_state' # 0 => start_loopback_traffic # 0
        BY <2>1 DEF TxReset, TxGoto
      <3> QED
        BY <1>2, <1>4, <3>1, <3>2 DEF TxStops, Bit
    <2>2. CASE ~TxReset
      <3>1. to_phy_cur_state # 0
        <4>1. \A f \in Fields : f # 0
          OBVIOUS
        <4>2. Len(FieldBits) + 1 # 0
          OBVIOUS
        <4> QED
          BY <1>1, <2>2, <4>1, <4>2 DEF TxEdge, TxSend, TxReadLbPkt
      <3>2. start_loopback_traffic = 1
        BY <1>4, <3>1 DEF TxStops
      <3>3. \A s : TxGoto(s) = s
        BY <1>4, <3>2 DEF TxGoto
      <3>4. to_phy_cur_state' # 0
        <4>1. CASE TxReadLbPkt
          BY <3>3, <4>1 DEF TxReadLbPkt
        <4>2. ASSUME NEW f \in Fields, TxSend(f)
              PROVE  to_phy_cur_state' # 0
          BY <3>3, <4>2 DEF TxSend
        <4> QED
          BY <1>1, <2>2, <4>1, <4>2 DEF TxEdge
      <3> QED
        BY <1>2, <1>4, <3>2, <3>4 DEF TxStops
    <2> QED
      BY <2>1, <2>2
  <1> QED
    BY <1>3, <1>4 DEF Bit

\* ... and the state machine does not let it go on before it has waited.
LEMMA TxStopsMdc ==
    ASSUME MaxMdcPerRx <= PostRstWait, Context, TxStops, MdcDomain
    PROVE  TxStops'
  <1> USE TopSizes, MdioAssumption
  <1>1. PICK level : MdcEdge(level)
    BY DEF MdcDomain, MdcTick
  <1>u. /\ UNCHANGED <<CPU_RESETn, rx_edges_in_reset, to_phy_cur_state, eneta_tx_d>>
        /\ mdc_since_rx \in Nat /\ mdc_since_rx < MaxMdcPerRx
        /\ mdc_since_rx' = mdc_since_rx + 1
    BY DEF MdcDomain, MdcTick, CountMdcEdge, rxVars, txVars, Context
  <1>t. /\ CPU_RESETn \in Bit /\ set_reg0_to_loopback \in Bit /\ reg0_in_loopback \in Bit
        /\ phy_wait_after_reset_count \in Nat
    BY DEF Context, Ranges, LinkInv, LinkTypeOK, SignalsTypeOK, MdioTypeOK
  <1>2. CASE CPU_RESETn = 0
    BY <1>2, <1>u DEF TxStops
  <1>3. CASE CPU_RESETn = 1
    <2>g. \A s : Goto(s) = s
      BY <1>3 DEF Goto
    <2>1. start_loopback_traffic = 1 => start_loopback_traffic' = 1
      <3>1. current_state = "RESET_s" => write_phy_reg_space_to_ram # 1
        BY <1>3, <1>t DEF Context, BlockInv, FirstBlock, SecondBlock, Bit
      <3>2. start_loopback_traffic = 1 => current_state # "RESET_s"
        BY <3>1 DEF Context, LinkFacts, Carried, FlagsKept
      <3> QED
        BY <1>1, <3>2
        DEF MdcEdge, Reset, PostRstWaiting, Preamble, SendReadCmd, Turnaround, Read,
            StoreReadData, WaitForRamWrite, EnableLoopback, SendWriteCmd, SendWriteData,
            requests
    <2>2. CASE current_state = "RESET_s"
      <3>1. current_state' = "POST_RST_WAIT_s" /\ phy_wait_after_reset_count' = 0
        BY <1>1, <2>2, <2>g
        DEF MdcEdge, Reset, PostRstWaiting, Preamble, SendReadCmd, Turnaround, Read,
            StoreReadData, WaitForRamWrite, EnableLoopback, SendWriteCmd, SendWriteData
      <3>2. phy_wait_after_reset_count' <= mdc_since_rx'
        BY <1>u, <3>1
      <3> QED
        BY <1>u, <1>3, <2>1, <3>1, <3>2 DEF TxStops
    <2>3. CASE current_state = "POST_RST_WAIT_s" /\ phy_wait_after_reset_count <= mdc_since_rx
      <3>1. PostRstWaiting
        BY <1>1, <2>3
        DEF MdcEdge, Reset, Preamble, SendReadCmd, Turnaround, Read,
            StoreReadData, WaitForRamWrite, EnableLoopback, SendWriteCmd, SendWriteData
      <3>2. ~PostRstWaited
        BY <1>u, <1>t, <2>3 DEF PostRstWaited
      <3>3. /\ current_state' = "POST_RST_WAIT_s"
            /\ phy_wait_after_reset_count' = phy_wait_after_reset_count + 1
        BY <2>g, <3>1, <3>2 DEF PostRstWaiting
      <3>4. phy_wait_after_reset_count' <= mdc_since_rx'
        BY <1>t, <1>u, <2>3, <3>3
      <3> QED
        BY <1>u, <1>3, <2>1, <3>3, <3>4 DEF TxStops
    <2> QED
      BY <1>u, <1>3, <2>1, <2>2, <2>3 DEF TxStops
  <1> QED
    BY <1>t, <1>2, <1>3 DEF Bit

\* The same of every step of the design.
LEMMA TxStopsStep ==
    ASSUME MaxMdcPerRx <= PostRstWait, Context, TxInv, TxStops, [Next]_vars
    PROVE  TxStops'
  <1> USE TopSizes
  <1>1. CASE RxDomain
    BY <1>1, TxStopsRx DEF Context, Ranges, LinkInv, LinkTypeOK, SignalsTypeOK
  <1>2. CASE MdcDomain
    BY <1>2, TxStopsMdc
  <1>3. CASE ButtonDown
    <2>1. CPU_RESETn' = 0 /\ rx_edges_in_reset' = 0
      BY <1>3 DEF ButtonDown, Press, PressButton
    <2> QED
      BY <2>1 DEF TxStops
  <1>4. CASE ButtonUp
    <2>1. /\ CPU_RESETn = 0 /\ rx_edges_in_reset >= 1 /\ mdc_edges_in_reset >= 1
          /\ UNCHANGED <<current_state, to_phy_cur_state>>
      BY <1>4 DEF ButtonUp, Release, ReleaseButton, mdioVars, rxVars, txVars
    <2> QED
      BY <2>1 DEF TxStops, Context, BlockInv, PressSeen
  <1>5. CASE UNCHANGED vars
    BY <1>5 DEF vars, linkVars, rxVars, txVars, mdioVars, buttonVars, requests, TxStops
  <1> QED
    BY <1>1, <1>2, <1>3, <1>4, <1>5 DEF Next

\* The frame goes out bit after bit without a gap, and only a reset cuts it short:
\* the seven counters of altera_max_10.v:607-680 lead from each field's last bit to
\* the next one's first, whatever the lengths of the fields.  A bit that a press
\* leaves on the wire is gone before traffic can start again, if an edge of the
\* receive clock falls within the wait after a reset.
THEOREM FramesGoOut ==
    ASSUME MaxMdcPerRx <= PostRstWait
    PROVE  Spec => FrameInOrder
  <1> DEFINE Ordered ==
               /\ eneta_tx_d' # eneta_tx_d => eneta_tx_d' \in {BitAfter(eneta_tx_d), NO_BIT}
               /\ eneta_tx_d' = eneta_tx_d /\ RxDomain
                    => eneta_tx_d \in {NO_BIT, LastBit}
               /\ eneta_tx_d # NO_BIT /\ eneta_tx_d' = NO_BIT
                    => start_loopback_traffic = 0 \/ CPU_RESETn = 0
  <1>1. Init => TxInv /\ TxWire /\ TxStops
    <2> SUFFICES ASSUME Init
                 PROVE  TxInv /\ TxWire /\ TxStops
      OBVIOUS
    <2>1. /\ to_phy_cur_state = 0 /\ eneta_tx_d = NO_BIT /\ 0 \notin Fields
          /\ Len(FieldBits) + 1 # 0
      BY FieldFacts DEF Init, TxInit, TO_PHY_RESET_s
    <2> QED
      BY <2>1, TxInitInv DEF TxWire, TxStops, TO_PHY_RESET_s, TO_PHY_READ_LB_PKT_s
  <1>2. TxInv /\ TxWire /\ [Next]_vars => TxWire'
    <2> SUFFICES ASSUME TxInv, TxWire, [Next]_vars
                 PROVE  TxWire'
      OBVIOUS
    <2>1. CASE RxDomain
      BY <2>1, TxWireEdge DEF RxDomain
    <2>2. CASE UNCHANGED txVars
      BY <2>2 DEF txVars, TxWire, BitBefore, LastBit, Fields, TO_PHY_READ_LB_PKT_s
    <2> QED
      BY <2>1, <2>2 DEF Next, MdcDomain, ButtonDown, ButtonUp, vars, rxVars
  <1>3. TxInv /\ TxStops /\ Context /\ [Next]_vars => TxStops'
    BY TxStopsStep
  <1>4. TxInv /\ [Next]_vars => TxInv'
    BY TxStepInv
  <1>5. Context /\ TxInv /\ TxWire /\ TxStops /\ [Next]_vars => [Ordered]_vars
    <2> SUFFICES ASSUME Context, TxInv, TxWire, TxStops, [Next]_vars
                 PROVE  Ordered
      OBVIOUS
    <2> USE FieldFacts DEF TO_PHY_RESET_s, TO_PHY_READ_LB_PKT_s
    <2>1. CASE UNCHANGED eneta_tx_d /\ ~RxDomain
      BY <2>1
    <2>2. CASE RxDomain /\ TxReset
      <3>1. eneta_tx_d' = NO_BIT
        BY <2>2 DEF TxReset
      <3>2. /\ CPU_RESETn \in Bit /\ set_reg0_to_loopback \in Bit
            /\ reg0_in_loopback \in Bit /\ start_loopback_traffic \in Bit
        BY DEF Context, Ranges, LinkInv, LinkTypeOK, SignalsTypeOK, MdioTypeOK
      <3>3. ASSUME CPU_RESETn = 1, eneta_tx_d # NO_BIT
            PROVE  start_loopback_traffic = 0
        <4>1. current_state \in {"RESET_s", "POST_RST_WAIT_s"}
          BY <2>2, <3>3 DEF TxStops, TxReset
        <4>2. current_state = "RESET_s" => write_phy_reg_space_to_ram # 1
          BY <3>2, <3>3 DEF Context, BlockInv, FirstBlock, SecondBlock, Bit
        <4> QED
          BY <3>2, <4>1, <4>2 DEF Context, LinkFacts, Carried, FlagsKept, Bit
      <3> QED
        BY <3>1, <3>2, <3>3 DEF Bit
    <2>3. ASSUME NEW f \in Fields, TxSend(f)
          PROVE  Ordered
      <3>1. PICK c : c = phy_field_count[f]
        OBVIOUS
      <3>2. /\ c \in Nat /\ f \in Nat /\ f >= 1 /\ f <= Len(FieldBits)
            /\ c < FieldBits[f] /\ eneta_tx_d' = <<f, c>> /\ eneta_tx_d = BitBefore(f)
        BY <2>3, <3>1 DEF TxSend, TxInv, TxTypeOK, TxInStep, TxWire
      <3>3. \A g \in Fields, n \in Nat : <<g, n>> # NO_BIT
        BY FieldAssumption DEF Fields
      <3>4. CASE c > 0
        <4>1. eneta_tx_d = <<f, c - 1>> /\ c - 1 \in Nat /\ c - 1 < FieldBits[f] - 1
          BY <3>1, <3>2, <3>4 DEF BitBefore
        <4>2. BitAfter(eneta_tx_d) = <<f, c>>
          BY <3>2, <3>3, <4>1 DEF BitAfter
        <4> QED
          BY <3>2, <3>3, <4>1, <4>2
      <3>5. CASE c = 0 /\ f = 1
        <4>1. eneta_tx_d = NO_BIT
          BY <3>1, <3>2, <3>5 DEF BitBefore
        <4> QED
          BY <3>2, <3>3, <3>5, <4>1 DEF BitAfter
      <3>6. CASE c = 0 /\ f > 1
        <4>1. /\ eneta_tx_d = <<f - 1, FieldBits[f - 1] - 1>>
              /\ f - 1 \in Fields /\ FieldBits[f - 1] - 1 \in Nat
          BY <3>1, <3>2, <3>6 DEF BitBefore
        <4>2. BitAfter(eneta_tx_d) = <<f, 0>>
          BY <3>2, <3>3, <4>1 DEF BitAfter
        <4> QED
          BY <3>2, <3>3, <3>6, <4>1, <4>2
      <3> QED
        BY <3>2, <3>4, <3>5, <3>6
    <2>4. CASE RxDomain /\ TxReadLbPkt
      BY <2>4 DEF TxReadLbPkt, TxWire
    <2>5. RxDomain \/ UNCHANGED eneta_tx_d
      BY DEF Next, MdcDomain, ButtonDown, ButtonUp, vars, rxVars, txVars
    <2> QED
      BY <2>1, <2>2, <2>3, <2>4, <2>5 DEF RxDomain, TxEdge
  <1>6. Spec => []Context
    <2>1. TypeOK => mdc_since_rx \in 0 .. MaxMdcPerRx
      BY DEF TypeOK
    <2> QED
      BY <2>1, LinkFactsInvariant, RangesInvariant, BlockInvariance, TopTypes, PTL DEF Context
  <1>7. FrameInOrder <=> [][Ordered]_vars
    BY DEF FrameInOrder, LastBit
  <1> HIDE DEF Ordered
  <1> QED
    BY <1>1, <1>2, <1>3, <1>4, <1>5, <1>6, <1>7, PTL DEF Spec

=============================================================================
