----------------------------- MODULE MCMdioLink -----------------------------
(***************************************************************************)
(* MdioLink at the widths of the source: 32 registers of 16 bits, 5-bit    *)
(* addresses, a preamble of 32 ones; the wait after a reset is the least   *)
(* that LinkAssumption allows.                                             *)
(***************************************************************************)
EXTENDS MdioLink

\* n as a register value.
WordOf(n) == Bits(n, DataBits)

MCLoopback == WordOf(41600)     \* 16'hA280

\* A power-up image in which all registers differ and every bit position
\* takes both values; register 0 holds its default 16'h1140.
ContentsOf(r) == WordOf(IF r = 0 THEN 4416 ELSE (r * 40503 + 321) % 65536)

MCContents ==
    {[a \in PhyAddress |-> ContentsOf(CHOOSE r \in 0 .. 31 : AddressOf(r) = a)]}
=============================================================================
