------------------------------- MODULE MCSystem --------------------------------
(* What runs around the program, services that share nothing, one of them in a       *)
(* behaviour. "port": echoes of up to four characters through a buffer for three,   *)
(* two interrupts to a call. "format": conversions of up to five characters.         *)
(* "startup": .rwdata of two words, its image and .bss of two, two resets.           *)
(* "devices": four devices, two names.                                               *)
EXTENDS LogPort

CONSTANTS Word, Args, Strings, Digits, MaxFormat, MaxWidth,
          Sections, Bss, Image, Words, Constructors, MaxResets,
          Kind, Name, NoName, MaxDevices

VARIABLES service,
          state, fmtLeadingZero, fmtBeforeDecimal, fmtAfterDecimal, format, printed,
          memory, pc, cursor, build, pie, drivers, redirected, atexit, constructed, destroyed, closed,
          mains, halts, resets,
          list, made, opened, result

Format == INSTANCE LogFormat
Boot == INSTANCE Startup
Dev == INSTANCE Devices
ASSUME SystemAssumption ==
  /\ LogPortAssumption /\ Format!LogFormatAssumption
  /\ Boot!StartupAssumption /\ Dev!DevicesAssumption

formatVars == << state, fmtLeadingZero, fmtBeforeDecimal, fmtAfterDecimal, format, printed >>
bootVars == << memory, pc, cursor, build, pie, drivers, redirected, atexit, constructed, destroyed, closed,
               mains, halts, resets >>
devVars == << list, made, opened, result >>

MCData == {<< "a", "EOT", "a", "a" >>, << "EOT", "a", "EOT" >>, << "a", "NUL", "a" >>,
           << "a", "a" >>, << "a" >>}
MCIsrData == {<< "b", "b", "b" >>, << "EOT", "b" >>}
MCStrings == {<< >>, << "p" >>, << "p", "q", "r" >>}
\* .rwdata at 0 with its image at 2; exception code and constants, at 6, stay in place.
MCSections == << [from |-> 2, to |-> 0, end |-> 2], [from |-> 6, to |-> 6, end |-> 7],
                 [from |-> 6, to |-> 6, end |-> 7] >>
MCBss == {4, 5}
MCImage == [a \in 0 .. 6 |-> IF a \in {2, 3, 6} THEN a ELSE 0]

SystemInit ==
  /\ service \in {"port", "format", "startup", "devices"}
  /\ LogPortInit /\ Format!LogFormatInit /\ Boot!StartupInit /\ Dev!DevicesInit
  /\ service # "port" => ALT_LOG_FLAGS = 0
  /\ service # "startup" => \A option \in DOMAIN build : build[option] = TRUE
SystemNext ==
  /\ \/ service = "port" /\ LogPortNext /\ UNCHANGED << formatVars, bootVars, devVars >>
     \/ service = "format" /\ Format!LogFormatNext /\ UNCHANGED << vars, bootVars, devVars >>
     \/ service = "startup" /\ Boot!StartupNext /\ UNCHANGED << vars, formatVars, devVars >>
     \/ service = "devices" /\ Dev!DevicesNext /\ UNCHANGED << vars, formatVars, bootVars >>
  /\ UNCHANGED service
SystemSpec == SystemInit /\ [][SystemNext]_<< service, vars, formatVars, bootVars, devVars >>

\* No message runs out of the shared buffer or ends the terminal.  An echo is the text that
\* was written unless an echo of an interrupt routine overwrites the buffer; then it is so
\* far only as it had come, and each interrupt costs it one more character at most.
LogKept == service = "port" => LogSafe

\* A conversion that C knows as well shows its argument as C's printf does.
FormatKept == service = "format" => Format!Formatted

\* After any reset main finds its variables as they were linked and the HAL brought up.
StartsClean == service = "startup" => Boot!Reborn /\ Boot!BroughtUp

\* An opened channel or flash device is the newest of its name and kind.
DevicesFound == service = "devices" => Dev!OpenedIsNewest
================================================================================
