----------------------------- MODULE LoopbackTx -----------------------------
(***************************************************************************)
(* The state machine of altera_max_10.v that shifts one Ethernet frame out *)
(* on ENETA_TX_D[0] when the PHY has been set to loopback.  Every posedge  *)
(* of ENETA_RX_CLK sends one bit of the current field, the most            *)
(* significant first.                                                      *)
(*                                                                         *)
(* The seven field states differ in the field they send and the counter    *)
(* they keep, so they are one action, indexed by the field.  A bit on the  *)
(* wire is the pair of its field and its position; NO_BIT is the idle 0.   *)
(***************************************************************************)
EXTENDS Max10Signals

CONSTANTS
    FieldBits,  \* lengths of the fields of the frame: 56, 8, 48, 48, 16, 512, 32
    NO_BIT

ASSUME FieldAssumption ==
    /\ FieldBits \in Seq(Nat \ {0}) /\ FieldBits # <<>>
    /\ NO_BIT \notin (DOMAIN FieldBits) \X Nat

VARIABLES
    to_phy_cur_state,   \* TO_PHY_RESET_s, the number of a field, or TO_PHY_READ_LB_PKT_s
    phy_field_count,    \* phy_eth_preamble_count .. phy_crc_count
    eneta_tx_d,         \* bit 0 of the register
    reg_LED0

txVars == <<to_phy_cur_state, phy_field_count, eneta_tx_d, reg_LED0>>

Fields == DOMAIN FieldBits
TO_PHY_RESET_s == 0
TO_PHY_READ_LB_PKT_s == Len(FieldBits) + 1

\* What to_phy_cur_state becomes when the next-state logic chooses s.
TxGoto(s) ==
    IF CPU_RESETn = 0 \/ start_loopback_traffic = 0 THEN TO_PHY_RESET_s ELSE s

TxInit ==
    /\ to_phy_cur_state = TO_PHY_RESET_s
    /\ phy_field_count = [f \in Fields |-> 0]
    /\ eneta_tx_d = NO_BIT
    /\ reg_LED0 = 0

TxReset ==
    /\ to_phy_cur_state = TO_PHY_RESET_s
    /\ to_phy_cur_state' = TxGoto(1)
    /\ phy_field_count' = [f \in Fields |-> 0]
    /\ eneta_tx_d' = NO_BIT
    /\ reg_LED0' = 0

FieldSentLate(f) == phy_field_count[f] = FieldBits[f]    \* mutant
FieldSent(f) == phy_field_count[f] = FieldBits[f] - 1

TxSend(f) ==
    /\ to_phy_cur_state = f
    /\ to_phy_cur_state' = TxGoto(IF FieldSent(f) THEN f + 1 ELSE f)
    /\ eneta_tx_d' = <<f, phy_field_count[f]>>
    /\ phy_field_count' = [phy_field_count EXCEPT ![f] = @ + 1]
    /\ UNCHANGED reg_LED0

\* The last bit stays on the wire.
TxReadLbPkt ==
    /\ to_phy_cur_state = TO_PHY_READ_LB_PKT_s
    /\ to_phy_cur_state' = TxGoto(TO_PHY_READ_LB_PKT_s)
    /\ reg_LED0' = 1
    /\ UNCHANGED <<phy_field_count, eneta_tx_d>>

\* One posedge of ENETA_RX_CLK for the frame sender.
TxEdge == TxReset \/ (\E f \in Fields : TxSend(f)) \/ TxReadLbPkt

TxBit == (Fields \X Nat) \cup {NO_BIT}

TxTypeOK ==
    /\ to_phy_cur_state \in TO_PHY_RESET_s .. TO_PHY_READ_LB_PKT_s
    /\ phy_field_count \in [Fields -> Nat]
    /\ \A f \in Fields : phy_field_count[f] <= FieldBits[f]
    /\ eneta_tx_d \in TxBit
    /\ reg_LED0 \in Bit
=============================================================================
