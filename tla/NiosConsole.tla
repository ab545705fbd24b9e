------------------------------ MODULE NiosConsole ------------------------------
(* One line of the dump, character by character: print_data of altera_max_10.c    *)
(* over alt_printf and its %x loop.  A 32-bit word is its eight hexadecimal       *)
(* digits; a literal of a format string is one symbol, a padding blank is one     *)
(* symbol each, for the columns are what the padding is about.                    *)
EXTENDS Naturals, Sequences, FiniteSetsExt

CONSTANTS Addresses, Words     \* the arguments print_data is called with

Top == 7             \* the most significant digit: digit_shift 28 / 4
Zero == [i \in 0 .. Top |-> 0]

\* Words below 16^k.
Below(w, k) == \A i \in k .. Top : w[i] = 0

\* print_data has six columns for an address; the on-chip memory ends below 0x8000.
WordsAssumption ==
  /\ Addresses \cup Words \subseteq [0 .. Top -> 0 .. 15]
  /\ \A w \in Addresses : Below(w, 6)

VARIABLES addr, data,   \* the arguments of print_data
          pc,           \* the statement of print_data
          digit_shift,  \* of the %x being printed, in digits; 8 before its loop
          line          \* the characters printed
vars == << addr, data, pc, digit_shift, line >>

Negative(w) == w[Top] >= 8

ConsoleInit ==
  /\ addr \in Addresses /\ data \in Words
  /\ pc = "A" /\ digit_shift = Top + 1 /\ line = << >>

Putchars(s) == line' = line \o s
Blank == 16          \* not a digit
Blanks(n) == [i \in 1 .. n |-> Blank]

----------------------------------------------------------------------------
\* alt_printf meets %x: zero is one digit, else the first non-zero digit is
\* looked for from the top.
FirstDigitFromTop(w) == Top                                \* mutant: leading zeros
FirstDigit(w) == Max({i \in 0 .. Top : w[i] # 0})

PrintfHex(w, next) ==
  \/ /\ digit_shift = Top + 1 /\ w = Zero
     /\ Putchars(<< 0 >>) /\ pc' = next /\ UNCHANGED digit_shift
  \/ /\ digit_shift = Top + 1 /\ w # Zero
     /\ digit_shift' = FirstDigit(w) /\ UNCHANGED << pc, line >>
  \/ /\ digit_shift <= Top
     /\ Putchars(<< w[digit_shift] >>)
     /\ IF digit_shift = 0 THEN digit_shift' = Top + 1 /\ pc' = next
        ELSE digit_shift' = digit_shift - 1 /\ UNCHANGED pc

Literal(name, at, next) ==
  pc = at /\ Putchars(<< name >>) /\ pc' = next /\ UNCHANGED digit_shift

\* One blank for every digit of the column the word does not fill.
PadTo(w, width) == Cardinality({k \in 1 .. width - 1 : Below(w, k)})

AddrPad == PadTo(addr, 6)

\* A negative word is not padded: the comparisons that follow would all hold.
DataPad == IF Negative(data) THEN 0 ELSE PadTo(data, 8)

\* print_data
PrintData ==
  /\ \/ Literal("A", "A", "addr")
     \/ pc = "addr" /\ PrintfHex(addr, "addr pad")
     \/ pc = "addr pad" /\ Putchars(Blanks(AddrPad)) /\ pc' = "D" /\ UNCHANGED digit_shift
     \/ Literal("D", "D", "data")
     \/ pc = "data" /\ PrintfHex(data, "data pad")
     \/ pc = "data pad" /\ Putchars(Blanks(DataPad)) /\ pc' = "end" /\ UNCHANGED digit_shift
     \/ Literal("||", "end", "done")
  /\ UNCHANGED << addr, data >>

ConsoleSpec == ConsoleInit /\ [][PrintData]_vars

----------------------------------------------------------------------------
\* "so memory print statements are nicely aligned": A, D and || stand in the same
\* columns on every line.
Aligned ==
  pc = "done" => Len(line) = 1 + 6 + 1 + 8 + 1 /\ line[1] = "A" /\ line[8] = "D" /\ line[17] = "||"

\* A sequence of digits, the most significant first, as a word.
WordOf(s) == [i \in 0 .. Top |-> IF i < Len(s) THEN s[Len(s) - i] ELSE 0]

\* Columns first to last show w: its digits at the left, without a leading zero, then blanks.
Shows(w, first, last) ==
  \E n \in 1 .. last - first + 1 :
    /\ WordOf(SubSeq(line, first, first + n - 1)) = w
    /\ n > 1 => line[first] # 0
    /\ \A p \in first .. last : line[p] = Blank <=> p >= first + n

\* What a reader of the console reads back is what was in the memory.
Readable == pc = "done" => Shows(addr, 2, 7) /\ Shows(data, 9, 16)
================================================================================
