------------------------------- MODULE MCProgram -------------------------------
(* The program and the writer of the memory it dumps.  Three benches that share   *)
(* nothing: the writer alone, which is asked for blocks for ever and may be reset *)
(* at any moment; the program's dump beside the writer; a line of the dump, for   *)
(* addresses of every length and words of small, middle and high digits.          *)
EXTENDS NiosDump

CONSTANTS Addresses, Words

VARIABLES bench, addr, data, pc, digit_shift, line

Line == INSTANCE NiosConsole
ASSUME ConsoleAssumption == Line!WordsAssumption

lineVars == <<addr, data, pc, digit_shift, line>>
benchVars == <<bench, allVars, lineVars>>

Zeros == [i \in 0 .. 7 |-> 0]
MCSnapshots == {[r \in RegIndex |-> <<(r + b) % 2>>] : b \in Bit}
MCAddresses == {[i \in 0 .. 7 |-> IF i < n THEN 4 ELSE 0] : n \in 0 .. 5}
MCWords == {w \in [0 .. 7 -> {0, 7, 8}] : \A i \in 0 .. 6 : w[i] # 7}

BenchInit ==
    /\ bench \in {"writer", "dump", "line"}
    /\ DumpInit /\ Line!ConsoleInit
    /\ bench # "line" => addr = Zeros /\ data = Zeros

BenchNext ==
    \/ bench = "writer" /\ LinkNext /\ UNCHANGED <<bench, dumpVars, lineVars>>
    \/ bench = "dump" /\ DumpNext /\ presses' = 0 /\ phy_reg'[0] # <<1>>
       /\ UNCHANGED <<bench, lineVars>>
    \/ bench = "line" /\ Line!PrintData /\ UNCHANGED <<bench, allVars>>

\* The receive clock runs; the processor executes and the host reads its console.
BenchSpec ==
    /\ BenchInit /\ [][BenchNext]_benchVars
    /\ WF_linkVars(bench # "line" /\ RxTick)
    /\ WF_allVars(bench = "dump" /\ Program) /\ WF_allVars(bench = "dump" /\ HostShows)

\* Whatever the writer does meanwhile, a dump comes to its end.
DumpingEnds == bench = "dump" ~> dpc = "done"

\* A line of the dump stands in its columns and reads back as the word it shows.
LineReadable == Line!Aligned /\ Line!Readable
=============================================================================
