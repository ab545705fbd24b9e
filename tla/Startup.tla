-------------------------------- MODULE Startup --------------------------------
(* From the reset of the processor to main and past its end: crt0.S clears .bss and *)
(* copies .rwdata from its image word by word, alt_main brings up the HAL in order.  *)
(* Everything lies in the on-chip memory, which a reset does not clear, and the     *)
(* button may reset the processor at any moment: between two words or in main.      *)
EXTENDS Integers, Sequences

CONSTANTS Sections,        \* what alt_load copies: from, to, end
          Bss,             \* the addresses from __bss_start up to __bss_end
          Image,           \* what the memory holds when the board is configured
          Words,           \* what the program stores in its variables
          Constructors,    \* how many, and as many destructors
          MaxResets        \* bound

Range(s) == s.to .. s.end - 1
SectionNumbers == DOMAIN Sections
Copied == {k \in SectionNumbers : Sections[k].from # Sections[k].to}
Variables == Bss \cup UNION {Range(Sections[k]) : k \in Copied}
FromImage(s, a) == s.from + (a - s.to)
Address == DOMAIN Image

\* The linker script puts .bss together, the sections that are copied beside it and each
\* other, and the image of .rwdata before .bss, so no variable lies in it; sections that
\* are not copied are linked where they run.
StartupAssumption ==
  /\ Address \subseteq Nat /\ Bss \subseteq Address /\ {Constructors, MaxResets} \subseteq Nat
  /\ \A a, b \in Bss : a .. b \subseteq Bss
  /\ Sections \in Seq([from : Nat, to : Nat, end : Nat]) /\ Sections # << >>
  /\ \A k \in SectionNumbers :
       /\ Sections[k].to <= Sections[k].end
       /\ \A a \in Range(Sections[k]) :
            /\ {a, FromImage(Sections[k], a)} \subseteq Address /\ a \notin Bss
            /\ k \in Copied => FromImage(Sections[k], a) \notin Variables
            /\ \A j \in Copied \ {k} : a \notin Range(Sections[j])

VARIABLES memory,
          pc, cursor,          \* where the code is, and in what loop
          build,               \* ALT_NO_EXIT, ALT_NO_CLEAN_EXIT, ALT_NO_C_PLUS_PLUS, ALT_USE_DIRECT_DRIVERS
          pie, drivers, redirected, atexit, constructed, destroyed,   \* since the reset
          closed,              \* close has been asked of the driver of standard output
          mains, halts, resets
done == << pie, drivers, redirected, atexit, constructed, destroyed, closed, mains, halts >>
vars == << memory, pc, cursor, build, done, resets >>

AtReset ==
  /\ pc = "bss" /\ cursor = [section |-> 1, k |-> 0]
  /\ pie = FALSE /\ drivers = FALSE /\ redirected = FALSE /\ atexit = FALSE
  /\ constructed = << >> /\ destroyed = << >> /\ closed = FALSE /\ mains = 0 /\ halts = 0

StartupInit ==
  /\ memory = Image
  /\ build \in [NO_EXIT : BOOLEAN, NO_CLEAN_EXIT : BOOLEAN, NO_C_PLUS_PLUS : BOOLEAN, DIRECT : BOOLEAN]
  /\ AtReset /\ resets = 0

Reset ==
  /\ resets < MaxResets /\ resets' = resets + 1
  /\ pc' = "bss" /\ cursor' = [section |-> 1, k |-> 0]
  /\ pie' = FALSE /\ drivers' = FALSE /\ redirected' = FALSE /\ atexit' = FALSE
  /\ constructed' = << >> /\ destroyed' = << >> /\ closed' = FALSE /\ mains' = 0 /\ halts' = 0
  /\ UNCHANGED << memory, build >>

Goto(next) == pc' = next /\ UNCHANGED cursor
Still == UNCHANGED << build, resets >>

----------------------------------------------------------------------------
(* crt0.S and alt_load. *)
BssStart == CHOOSE a \in Bss : \A b \in Bss : a <= b
ClearBss ==
  /\ pc = "bss"
  /\ IF BssStart + cursor.k \in Bss
     THEN /\ memory' = [memory EXCEPT ![BssStart + cursor.k] = 0]
          /\ cursor' = [cursor EXCEPT !.k = @ + 1] /\ UNCHANGED pc
     ELSE pc' = "load" /\ cursor' = [cursor EXCEPT !.k = 0] /\ UNCHANGED memory
  /\ UNCHANGED done /\ Still

NotLastWord(s, k) == s.to + k # s.end - 1       \* mutant: one word short
MoreToCopy(s, k) == s.to + k # s.end

\* Three sections one after the other, then the caches.
alt_load_section ==
  LET s == Sections[cursor.section] k == cursor.k IN
  /\ pc = "load"
  /\ IF s.to # s.from /\ MoreToCopy(s, k)
     THEN /\ memory' = [memory EXCEPT ![s.to + k] = memory[s.from + k]]
          /\ cursor' = [cursor EXCEPT !.k = @ + 1] /\ UNCHANGED pc
     ELSE /\ cursor' = IF cursor.section = Len(Sections) THEN cursor
                       ELSE [section |-> cursor.section + 1, k |-> 0]
          /\ pc' = IF cursor.section = Len(Sections) THEN "irq_init" ELSE "load"
          /\ UNCHANGED memory
  /\ UNCHANGED done /\ Still

----------------------------------------------------------------------------
(* alt_main. *)
CallsIrqInit ==
  /\ pc = "irq_init" /\ pie' = TRUE /\ Goto("sys_init")
  /\ UNCHANGED << memory, drivers, redirected, atexit, constructed, destroyed, closed, mains, halts >> /\ Still

alt_sys_init ==
  /\ pc = "sys_init" /\ drivers' = TRUE
  /\ Goto(IF build.DIRECT THEN "ctors" ELSE "redirect")
  /\ UNCHANGED << memory, pie, redirected, atexit, constructed, destroyed, closed, mains, halts >> /\ Still

CallsIoRedirect ==
  /\ pc = "redirect" /\ redirected' = TRUE /\ Goto("ctors")
  /\ UNCHANGED << memory, pie, drivers, atexit, constructed, destroyed, closed, mains, halts >> /\ Still

\* From the last of the list to the first.
do_ctors ==
  /\ pc = "ctors"
  /\ LET i == Constructors - Len(constructed) IN
       IF ~build.NO_C_PLUS_PLUS /\ i >= 1
       THEN constructed' = Append(constructed, i) /\ UNCHANGED << pc, cursor >>
       ELSE Goto("atexit") /\ UNCHANGED constructed
  /\ UNCHANGED << memory, pie, drivers, redirected, atexit, destroyed, closed, mains, halts >> /\ Still

RegistersDestructors ==
  /\ pc = "atexit"
  /\ atexit' = (~build.NO_C_PLUS_PLUS /\ ~build.NO_CLEAN_EXIT /\ ~build.NO_EXIT)
  /\ mains' = mains + 1 /\ Goto("main")
  /\ UNCHANGED << memory, pie, drivers, redirected, constructed, destroyed, closed, halts >> /\ Still

\* The program stores in its variables, and may return.
Main ==
  /\ pc = "main"
  /\ \E a \in Variables, w \in Words : memory' = [memory EXCEPT ![a] = w]
  /\ UNCHANGED << pc, cursor, done >> /\ Still
MainReturns ==
  /\ pc = "main" /\ Goto(IF build.NO_EXIT THEN "spin" ELSE "close")
  /\ UNCHANGED << memory, done >> /\ Still

\* close(STDOUT_FILENO): with a table the driver's close, and the descriptor, one of the
\* three of the C library, stays; with direct drivers a stub that fails, and nobody looks.
CloseStdout ==
  /\ pc = "close" /\ closed' = ~build.DIRECT /\ Goto("dtors")
  /\ UNCHANGED << memory, pie, drivers, redirected, atexit, constructed, destroyed, mains, halts >> /\ Still

\* exit: what was registered, then _exit, which tells the simulator and spins.
do_dtors ==
  /\ pc = "dtors"
  /\ LET i == Constructors - Len(destroyed) IN
       IF atexit /\ i >= 1
       THEN destroyed' = Append(destroyed, i) /\ UNCHANGED << pc, cursor >>
       ELSE Goto("exit") /\ UNCHANGED destroyed
  /\ UNCHANGED << memory, pie, drivers, redirected, atexit, constructed, closed, mains, halts >> /\ Still
\* The simulator, or a debugger, is told; on a board nobody may be there.
alt_sim_halt == halts' = halts + 1
ALT_EXIT ==
  /\ pc = "exit" /\ alt_sim_halt /\ Goto("spin")
  /\ UNCHANGED << memory, pie, drivers, redirected, atexit, constructed, destroyed, closed, mains >> /\ Still

Step ==
  \/ ClearBss \/ alt_load_section \/ CallsIrqInit \/ alt_sys_init \/ CallsIoRedirect
  \/ do_ctors \/ RegistersDestructors \/ CloseStdout \/ do_dtors \/ ALT_EXIT
StartupNext == Step \/ Main \/ MainReturns \/ Reset

----------------------------------------------------------------------------
\* From alt_main to the first store of the program, its variables are what the linker
\* gave them and .bss is zero, however often and wherever it was reset before.
Reborn ==
  pc \in {"irq_init", "sys_init", "redirect", "ctors", "atexit"} =>
    /\ \A k \in SectionNumbers : \A a \in Range(Sections[k]) :
         memory[a] = Image[FromImage(Sections[k], a)]
    /\ \A a \in Bss : memory[a] = 0

\* main comes once to each reset, with drivers, standard files and every constructor
\* done; destructors come after it, with standard output closed by then where closing does
\* anything, and only in a build that exits cleanly.
BroughtUp ==
  /\ mains = 1 <=> pc \in {"main", "close", "dtors", "exit", "spin"}
  /\ mains = 1 =>
       /\ pie /\ drivers /\ (redirected \/ build.DIRECT)
       /\ Len(constructed) = IF build.NO_C_PLUS_PLUS THEN 0 ELSE Constructors
  /\ destroyed # << >> => mains = 1 /\ atexit /\ (closed \/ build.DIRECT)
  /\ pc = "spin" /\ ~build.NO_EXIT =>
       halts = 1 /\ (Len(destroyed) = IF atexit THEN Constructors ELSE 0)
================================================================================
