------------------------------- MODULE LogFormat -------------------------------
(* alt_log_private_printf, the "stripped down printf" of the log: a scanner of the  *)
(* format that prints as it goes. One step reads one character of a format; the     *)
(* argument of a conversion is chosen as it is read. A machine word has Word values, *)
(* its upper half negative.                                                          *)
EXTENDS Integers, Sequences

CONSTANTS Word,          \* 2^32 in the code
          Args, Strings, \* arguments of the integer conversions, and of %s
          Digits,        \* the decimal digits formats are made of
          MaxFormat,     \* bound: characters of one conversion
          MaxWidth       \* bound: widths and precisions

DecimalDigits == {"0", "1", "2", "3", "4", "5", "6", "7", "8", "9"}
\* Of 32 bits or fewer.
LogFormatAssumption ==
  /\ Word \in Nat /\ Word % 2 = 0 /\ (Word - 1) \div 65536 < 65536
  /\ Args \subseteq 0 .. Word - 1 /\ Strings \subseteq Seq(STRING) /\ Digits \subseteq DecimalDigits
  /\ {MaxFormat, MaxWidth} \subseteq Nat

VARIABLES state,                                  \* of the scanner
          fmtLeadingZero, fmtBeforeDecimal, fmtAfterDecimal,
          format,                                 \* the conversion read so far
          printed                                 \* format, argument and text of the last one
vars == << state, fmtLeadingZero, fmtBeforeDecimal, fmtAfterDecimal, format, printed >>
widths == << fmtBeforeDecimal, fmtAfterDecimal >>

Integer == {"d", "i", "u", "o", "x", "X"}
FormatChars == Digits \cup Integer \cup {"a", "%", ".", "l", "c", "s"}
Nothing == [format |-> << >>, arg |-> 0, string |-> << >>, text |-> << >>]

Small == << "0", "1", "2", "3", "4", "5", "6", "7", "8", "9", "a", "b", "c", "d", "e", "f" >>
Capital == << "0", "1", "2", "3", "4", "5", "6", "7", "8", "9", "A", "B", "C", "D", "E", "F" >>
ValueOf(c) == (CHOOSE k \in 1 .. 16 : c \in {Small[k], Capital[k]}) - 1

LogFormatInit ==
  /\ state = "chars" /\ format = << >> /\ printed = Nothing
  /\ fmtLeadingZero = FALSE /\ fmtBeforeDecimal = 0 /\ fmtAfterDecimal = 0

----------------------------------------------------------------------------
\* What the places of a number are worth, up to the eleventh: a word has no more digits.
MaxDigits == 11
Place(base) == LET p[n \in 0 .. MaxDigits] == IF n = 0 THEN 1 ELSE base * p[n - 1] IN p

\* How many digits the loop that shrinks v counts, at least one, ...
digitCount(v, base) ==
  CHOOSE n \in 1 .. MaxDigits : v < Place(base)[n] /\ (n = 1 \/ Place(base)[n - 1] <= v)

\* ... and the digits it prints, from the highest place down.
DigitsOf(v, base, alphabet) ==
  LET n == digitCount(v, base) IN
  [k \in 1 .. n |-> alphabet[1 + ((v \div Place(base)[n - k]) % base)]]

\* Nothing for a count below one.
alt_log_repchar(c, r) == [k \in 1 .. (IF r > 0 THEN r ELSE 0) |-> c]

\* A long is as wide as an int, so the sign is bit 31 with and without the l.
Negative(v, letter) == letter \in {"d", "i"} /\ v >= Word \div 2
Base(letter) == CASE letter = "o" -> 8 [] letter \in {"x", "X"} -> 16 [] OTHER -> 10

PadWithoutSign(width, digits, sign) == width - Len(digits)             \* mutant
Pad(width, digits, sign) == width - Len(digits) - Len(sign)

IntegerText(v, letter) ==
  LET negative == Negative(v, letter)
      digits == DigitsOf(IF negative THEN Word - v ELSE v, Base(letter),
                         IF letter = "X" THEN Capital ELSE Small)
      sign == IF negative THEN << "-" >> ELSE << >>
      pad == Pad(fmtBeforeDecimal, digits, sign)
  IN IF fmtLeadingZero THEN sign \o alt_log_repchar("0", pad) \o digits
                       ELSE alt_log_repchar(" ", pad) \o sign \o digits

----------------------------------------------------------------------------
\* pfState_chars.
Literal(c) ==
  /\ state = "chars" /\ c # "%"
  /\ printed' = [Nothing EXCEPT !.text = << c >>]
  /\ UNCHANGED << state, format, fmtLeadingZero, widths >>
Percent(c) ==
  /\ state = "chars" /\ c = "%"
  /\ state' = "firstFmtChar" /\ format' = << >> /\ printed' = Nothing
  /\ fmtLeadingZero' = FALSE /\ fmtBeforeDecimal' = -1 /\ fmtAfterDecimal' = -1

Reads(c) == Len(format) < MaxFormat /\ format' = Append(format, c)
Prints(c, arg, string, text) ==
  /\ Reads(c) /\ state' = "chars"
  /\ printed' = [format |-> Append(format, c), arg |-> arg, string |-> string, text |-> text]
  /\ UNCHANGED << fmtLeadingZero, widths >>

\* pfState_firstFmtChar: all but these two go on to pfState_otherFmtChar at once.
LeadingZero(c) ==
  /\ state = "firstFmtChar" /\ c = "0"
  /\ Reads(c) /\ state' = "otherFmtChar" /\ fmtLeadingZero' = TRUE
  /\ UNCHANGED << widths, printed >>
PercentPercent(c) ==
  /\ state = "firstFmtChar" /\ c = "%" /\ Prints(c, 0, << >>, << "%" >>)

InFormat(c) == state = "otherFmtChar" \/ (state = "firstFmtChar" /\ c \notin {"0", "%"})
Scans(c) == InFormat(c) /\ Reads(c) /\ state' = "otherFmtChar" /\ UNCHANGED << fmtLeadingZero, printed >>

Point(c) == c = "." /\ Scans(c) /\ fmtAfterDecimal' = 0 /\ UNCHANGED fmtBeforeDecimal
LongModifier(c) == c = "l" /\ Scans(c) /\ UNCHANGED widths

\* A digit goes to the width, or to the precision once there was a point.
Digit(c) ==
  /\ c \in Digits /\ Scans(c)
  /\ IF fmtAfterDecimal < 0
     THEN /\ fmtBeforeDecimal' = (IF fmtBeforeDecimal < 0 THEN 0 ELSE fmtBeforeDecimal * 10) + ValueOf(c)
          /\ UNCHANGED fmtAfterDecimal
     ELSE fmtAfterDecimal' = fmtAfterDecimal * 10 + ValueOf(c) /\ UNCHANGED fmtBeforeDecimal
  /\ fmtBeforeDecimal' <= MaxWidth /\ fmtAfterDecimal' <= MaxWidth

doIntegerPrint(c) ==
  /\ InFormat(c) /\ c \in Integer
  /\ \E v \in Args : Prints(c, v, << >>, IntegerText(v, c))
CharConversion(c) ==
  /\ InFormat(c) /\ c = "c"
  /\ Prints(c, 0, << "q" >>, alt_log_repchar(" ", fmtBeforeDecimal - 1) \o << "q" >>)
\* The whole string: the precision is not looked at.
StringConversion(c) ==
  /\ InFormat(c) /\ c = "s"
  /\ \E s \in Strings : Prints(c, 0, s, alt_log_repchar(" ", fmtBeforeDecimal - Len(s)) \o s)
\* Any other character ends the conversion, prints nothing and takes no argument.
Unknown(c) ==
  /\ InFormat(c) /\ c \notin Digits \cup Integer \cup {".", "l", "c", "s"}
  /\ Prints(c, 0, << >>, << >>)

LogFormatNext ==
  \E c \in FormatChars :
    \/ Literal(c) \/ Percent(c) \/ LeadingZero(c) \/ PercentPercent(c)
    \/ Point(c) \/ LongModifier(c) \/ Digit(c)
    \/ doIntegerPrint(c) \/ CharConversion(c) \/ StringConversion(c) \/ Unknown(c)

----------------------------------------------------------------------------
(* What C's printf prints for the conversions both know: %, a 0 or not, a width,  *)
(* an l or not, and a letter; a 0 before %c or %s is undefined.                    *)
Letter(f) == f[Len(f)]
Body(f) == LET n == Len(f) - 1 IN SubSeq(f, 1, IF n > 0 /\ f[n] = "l" THEN n - 1 ELSE n)
ZeroFlag(f) == Len(Body(f)) > 0 /\ Body(f)[1] = "0"
Standard(f) ==
  /\ Len(f) > 0 /\ \A k \in DOMAIN Body(f) : Body(f)[k] \in Digits
  /\ Letter(f) \in Integer \/ (Letter(f) \in {"c", "s"} /\ ~ZeroFlag(f))

\* The number that a sequence of digits, among blanks and signs, stands for.
ReadBack(text, base) ==
  LET r[k \in 0 .. Len(text)] ==
        IF k = 0 THEN 0
        ELSE IF text[k] \in {" ", "-"} THEN r[k - 1] ELSE base * r[k - 1] + ValueOf(text[k])
  IN r[Len(text)]
WidthOf(f) == ReadBack(Body(f), 10)

\* An integer reads back as its argument, sign and all; blanks come before the sign
\* and zeros after it, and the field is as wide as asked, or wider without padding.
IntegerShown(f, v, t) ==
  LET negative == Negative(v, Letter(f))
      first == CHOOSE k \in DOMAIN t : t[k] # " " /\ \A j \in 1 .. k - 1 : t[j] = " "
      width == Len(t) - first + 1
  IN /\ ReadBack(t, Base(Letter(f))) = IF negative THEN Word - v ELSE v
     /\ \A k \in DOMAIN t : (t[k] = "-" <=> negative /\ k = first) /\ (t[k] = " " <=> k < first)
     /\ Len(t) >= WidthOf(f)
     /\ ZeroFlag(f) => first = 1
     /\ Len(t) > WidthOf(f) => first = 1 /\ (t[IF negative THEN 2 ELSE 1] = "0" => v = 0)

\* Every conversion C knows as well shows its argument as C does.
Formatted ==
  state = "chars" /\ Standard(printed.format) =>
    LET f == printed.format  t == printed.text  s == printed.string IN
    IF Letter(f) \in Integer THEN IntegerShown(f, printed.arg, t)
    ELSE /\ Len(t) = IF Len(s) > WidthOf(f) THEN Len(s) ELSE WidthOf(f)
         /\ SubSeq(t, Len(t) - Len(s) + 1, Len(t)) = s
         /\ \A k \in 1 .. Len(t) - Len(s) : t[k] = " "
================================================================================
