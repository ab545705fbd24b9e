---------------------------- MODULE Max10Signals ----------------------------
(***************************************************************************)
(* The registers of altera_max_10.v that one always block assigns and      *)
(* another one reads, and the sizes every block shares.                    *)
(*                                                                         *)
(* The design has two clock domains.  The MDC domain (MdioMaster) drives   *)
(* phy_reg, write_phy_reg_space_to_ram and start_loopback_traffic; the     *)
(* ENETA_RX_CLK domain (RamWriter, LoopbackTx) drives phy_reg_write_done.  *)
(* Both sample the push button CPU_RESETn on their own clock edge.         *)
(*                                                                         *)
(* A Verilog vector is a sequence of bits, most significant bit first, so  *)
(* v[DataBits-1-i] of the source is v[i+1] here.                           *)
(***************************************************************************)
EXTENDS Naturals, Sequences

CONSTANTS
    NumRegs,    \* PHY registers that are scanned: 32
    DataBits    \* width of a PHY register: 16

ASSUME SizesAssumption ==
    /\ NumRegs \in Nat \ {0, 1}
    /\ DataBits \in Nat \ {0}

VARIABLES
    CPU_RESETn,                   \* push button, 0 while pressed
    phy_reg,                      \* phy_reg_0 .. phy_reg_31: the snapshot
    write_phy_reg_space_to_ram,   \* request of the MDC domain to the RAM writer
    phy_reg_write_done,           \* answer of the RAM writer
    start_loopback_traffic        \* go-ahead of the MDC domain to the frame sender

Bit == {0, 1}
RegIndex == 0 .. NumRegs - 1
Word == [1 .. DataBits -> Bit]
ZeroWord == [i \in 1 .. DataBits |-> 0]

SignalsInit ==
    /\ CPU_RESETn = 0
    /\ phy_reg = [r \in RegIndex |-> ZeroWord]
    /\ write_phy_reg_space_to_ram = 0
    /\ phy_reg_write_done = 0
    /\ start_loopback_traffic = 0

SignalsTypeOK ==
    /\ CPU_RESETn \in Bit
    /\ phy_reg \in [RegIndex -> Word]
    /\ write_phy_reg_space_to_ram \in Bit
    /\ phy_reg_write_done \in Bit
    /\ start_loopback_traffic \in Bit

-----------------------------------------------------------------------------
(* The push button may be pressed at any moment; a press lasts long enough *)
(* for each clock domain to see it on a number of its edges.               *)

CONSTANTS
    ResetMdcEdges,  \* posedges of enet_mdc_clk that fall in every press, at least
    ResetRxEdges,   \* posedges of ENETA_RX_CLK that fall in every press, at least
    MaxPresses      \* bound: how often the button is pressed in a behaviour

ASSUME ButtonAssumption ==
    /\ ResetMdcEdges \in Nat
    /\ ResetRxEdges \in Nat
    /\ MaxPresses \in Nat

VARIABLES
    presses,
    mdc_edges_in_reset,     \* edges of this press, up to ResetMdcEdges
    rx_edges_in_reset       \* edges of this press, up to ResetRxEdges

buttonVars == <<presses, mdc_edges_in_reset, rx_edges_in_reset>>

\* cocotb/testbench.py starts with the button pressed.
ButtonInit ==
    /\ presses = 0
    /\ mdc_edges_in_reset = 0
    /\ rx_edges_in_reset = 0

PressButton ==
    /\ CPU_RESETn = 1
    /\ presses < MaxPresses
    /\ CPU_RESETn' = 0
    /\ presses' = presses + 1
    /\ mdc_edges_in_reset' = 0
    /\ rx_edges_in_reset' = 0

ReleaseButton ==
    /\ CPU_RESETn = 0
    /\ mdc_edges_in_reset = ResetMdcEdges
    /\ rx_edges_in_reset = ResetRxEdges
    /\ CPU_RESETn' = 1
    /\ UNCHANGED buttonVars

CountMdcEdge ==
    /\ mdc_edges_in_reset' =
          IF CPU_RESETn = 0 /\ mdc_edges_in_reset < ResetMdcEdges
          THEN mdc_edges_in_reset + 1 ELSE mdc_edges_in_reset
    /\ UNCHANGED <<CPU_RESETn, presses, rx_edges_in_reset>>

CountRxEdge ==
    /\ rx_edges_in_reset' =
          IF CPU_RESETn = 0 /\ rx_edges_in_reset < ResetRxEdges
          THEN rx_edges_in_reset + 1 ELSE rx_edges_in_reset
    /\ UNCHANGED <<CPU_RESETn, presses, mdc_edges_in_reset>>

ButtonTypeOK ==
    /\ presses \in 0 .. MaxPresses
    /\ mdc_edges_in_reset \in 0 .. ResetMdcEdges
    /\ rx_edges_in_reset \in 0 .. ResetRxEdges
=============================================================================
