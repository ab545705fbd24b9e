---------------------------- MODULE MCMax10Top -----------------------------
(***************************************************************************)
(* Max10Top with 2 registers of 2 bits, so that every interleaving of the  *)
(* two clocks and every moment of a reset can be explored; and statements  *)
(* that comments of altera_max_10.v make about the design and that the     *)
(* design does not satisfy.                                                *)
(***************************************************************************)
EXTENDS Max10Top

MCLoopback == <<1, 0>>
MCFields == <<2, 1>>
MCContents == {[a \in PhyAddress |-> IF a = AddressOf(0) THEN <<0, 0>> ELSE <<1, 0>>]}

\* altera_max_10.v:756 calls LED 0 "write to mem complete": when it is lit, the
\* RAM writer has answered.
Led0MeansSaved == reg_LED0 = 1 => phy_reg_write_done = 1

\* altera_max_10.v:140 says that "delimiters don't increase these counters":
\* setting up a delimiter leaves ram_writes_per_phy_addr alone.
DelimitersNotCounted ==
    [][WriterSetsUp /\ onchip_memory2_0_s1_writedata' = DELIMITER
         => UNCHANGED ram_writes_per_phy_addr]_vars
=============================================================================
