------------------------------ MODULE PhyDevice ------------------------------
(***************************************************************************)
(* The management port of the PHY on the other end of ENET_MDC/ENET_MDIO.  *)
(* It is not part of the repository: this is the IEEE 802.3 clause 22      *)
(* slave that altera_max_10.v expects, with the alignment its turnaround   *)
(* and read states rely on.  FPGA resets do not reach it (ENETA_RESETn is  *)
(* an input of the design).                                                *)
(*                                                                         *)
(* The PHY samples the pin on each posedge of MDC.  PreambleBits ones in a *)
(* row arm it; the next 01 opens a frame, whose header is the operation,   *)
(* the PHY address and the register address.  A read answers, after one    *)
(* undriven bit, with a 0 and then the register; a write takes the         *)
(* DataBits bits after the two turnaround bits, whoever drives them.       *)
(***************************************************************************)
EXTENDS MdioMaster

VARIABLES
    phy_space,      \* the PHY's own registers, by the bits of their address
    phy_ones,       \* ones in a row on the pin, up to PreambleBits
    phy_frame,      \* header bits of the open frame, <<>> outside a frame
    phy_shift,      \* body bits: what was received, or what is left to send
    phy_drives      \* 1 while the PHY drives the pin with Head(phy_shift)

phyVars == <<phy_space, phy_ones, phy_frame, phy_shift, phy_drives>>

PhyAddress == [1 .. RegAddrBits -> Bit]
AddressOf(r) == Bits(r, RegAddrBits)

\* The pull-up resistor of the pin gives 1 when nobody drives it.
PULL_UP == 1

\* The levels the pin can have: the value driven, or either when both drive.
PinLevels ==
    IF write_enet_mdio = 1
    THEN IF phy_drives = 1 THEN {enet_mdio, Head(phy_shift)} ELSE {enet_mdio}
    ELSE IF phy_drives = 1 THEN {Head(phy_shift)} ELSE {PULL_UP}

\* The fields of a header.
OperationOf(f) == [i \in 1 .. 4 |-> f[i]]
PhyAddrOf(f) == [i \in 1 .. PhyAddrBits |-> f[4 + i]]
FrameRegister == [i \in 1 .. RegAddrBits |-> phy_frame[4 + PhyAddrBits + i]]
HeaderComplete == Len(phy_frame) = CommandBits

PhyInit ==
    /\ phy_ones = 0
    /\ phy_frame = <<>>
    /\ phy_shift = <<>>
    /\ phy_drives = 0

\* Outside a frame: count ones, and take a 0 after enough of them as the
\* first bit of a frame.
PhyIdle(level) ==
    /\ phy_frame = <<>>
    /\ phy_frame' = IF level = 0 /\ phy_ones = PreambleBits THEN <<0>> ELSE <<>>
    /\ phy_ones' = IF level = 0 THEN 0
                   ELSE IF phy_ones < PreambleBits THEN phy_ones + 1 ELSE phy_ones
    /\ UNCHANGED <<phy_space, phy_shift, phy_drives>>

\* A header that is no read or write command, or is addressed to another PHY,
\* is dropped when its last bit is in; an illegal start as soon as it is seen.
PhyHeader(level) ==
    /\ phy_frame # <<>> /\ ~HeaderComplete
    /\ LET f == Append(phy_frame, level)
           bad == \/ Len(f) = 2 /\ level = 0
                  \/ Len(f) = CommandBits
                     /\ \/ OperationOf(f) \notin {PHY_READ, PHY_WRITE}
                        \/ PhyAddrOf(f) # PHY_ADDR
       IN  phy_frame' = IF bad THEN <<>> ELSE f
    /\ UNCHANGED <<phy_space, phy_ones, phy_shift, phy_drives>>

\* The body of a read: the undriven turnaround bit, then a 0 and the register,
\* latched here, then the pin is released.
PhySend ==
    /\ HeaderComplete /\ OperationOf(phy_frame) = PHY_READ
    /\ IF phy_drives = 0
       THEN /\ phy_drives' = 1
            /\ phy_shift' = <<0>> \o phy_space[FrameRegister]
            /\ phy_frame' = phy_frame
       ELSE /\ phy_shift' = Tail(phy_shift)
            /\ phy_drives' = IF Len(phy_shift) = 1 THEN 0 ELSE 1
            /\ phy_frame' = IF Len(phy_shift) = 1 THEN <<>> ELSE phy_frame
    /\ UNCHANGED <<phy_space, phy_ones>>

\* The body of a write: two turnaround bits and the data.
PhyReceive(level) ==
    /\ HeaderComplete /\ OperationOf(phy_frame) = PHY_WRITE
    /\ IF Len(phy_shift) < DataBits + 1
       THEN /\ phy_shift' = Append(phy_shift, level)
            /\ UNCHANGED <<phy_space, phy_frame>>
       ELSE /\ phy_shift' = <<>>
            /\ phy_frame' = <<>>
            /\ phy_space' = [phy_space EXCEPT ![FrameRegister] =
                               [i \in 1 .. DataBits |->
                                  IF i = DataBits THEN level ELSE phy_shift[i + 2]]]
    /\ UNCHANGED <<phy_ones, phy_drives>>

PhyEdge(level) ==
    \/ PhyIdle(level) \/ PhyHeader(level) \/ PhySend \/ PhyReceive(level)

PhyTypeOK ==
    /\ phy_space \in [PhyAddress -> Word]
    /\ phy_ones \in 0 .. PreambleBits
    /\ phy_frame \in Seq(Bit) /\ Len(phy_frame) <= CommandBits
    /\ phy_shift \in Seq(Bit) /\ Len(phy_shift) <= DataBits + 1
    /\ phy_drives \in Bit
=============================================================================
