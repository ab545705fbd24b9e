-------------------------------- MODULE LogPort --------------------------------
(* The log of the HAL: messages of the program and of interrupt routines go to one *)
(* port, a character at a time, by polling, and nothing is locked. Both echo what   *)
(* is written through the one buffer alt_log_write_buf. An interrupt routine runs   *)
(* to its end. One character stands for the fixed text of a message.                *)
EXTENDS Integers, Sequences

CONSTANTS ALT_LOG_WRITE_ECHO_LEN,
          FifoDepth,
          Data,            \* what the program writes
          IsrData,         \* what interrupt routines write
          Interval,        \* ALT_LOG_SYS_CLK_INTERVAL
          MaxTicks,        \* bound: ticks of the system clock
          MaxHits          \* bound: interrupts of one call of the program

Char == {"a", "b", "D", "EOT", "NUL", "NL", "CR", "text"}
LogPortAssumption ==
  /\ ALT_LOG_WRITE_ECHO_LEN \in Nat /\ ALT_LOG_WRITE_ECHO_LEN >= 2 /\ FifoDepth \in Nat \ {0}
  /\ Data \cup IsrData \subseteq Seq(Char) /\ {Interval, MaxTicks, MaxHits} \subseteq Nat

VARIABLES ALT_LOG_FLAGS,
          alt_log_write_buf,
          room,                        \* in the FIFO of the port
          call,                        \* of the program and of the interrupt routine
          sent,                        \* what the last call of each wrote to the port, and
                                       \* "lost" for a character that the port dropped
          lost, hits,                  \* of the program's call: characters lost, interrupts
          cut,                         \* and how many characters it had of its echo when an
                                       \* interrupt's echo took the buffer; -1: none did
          alt_log_sys_clk_count, alt_system_clock_in_sec, ticks
clock == << alt_log_sys_clk_count, alt_system_clock_in_sec, ticks >>
vars == << ALT_LOG_FLAGS, alt_log_write_buf, room, call, sent, lost, hits, cut, clock >>

\* The groups of messages that each level turns on.
boot_on == ALT_LOG_FLAGS # -1
sys_clk_on == ALT_LOG_FLAGS \in 1 .. 3
startup_info_on == ALT_LOG_FLAGS \in 1 .. 3
write_on == ALT_LOG_FLAGS \in 2 .. 3
alarm_on == ALT_LOG_FLAGS \in 2 .. 3
isr_on == ALT_LOG_FLAGS = 3

Index == 0 .. ALT_LOG_WRITE_ECHO_LEN + 1
Who == {"program", "isr"}
NoCall == [pc |-> "idle", data |-> << >>, k |-> 0, c |-> "NUL"]

LogPortInit ==
  /\ ALT_LOG_FLAGS \in -1 .. 3
  /\ alt_log_write_buf = [k \in Index |-> "NUL"] /\ room = FifoDepth
  /\ call = [w \in Who |-> NoCall] /\ sent = [w \in Who |-> << >>]
  /\ lost = 0 /\ hits = 0 /\ cut = -1
  /\ alt_log_sys_clk_count = 0 /\ alt_system_clock_in_sec = 0 /\ ticks = 0

Running == IF call["isr"].pc # "idle" THEN "isr" ELSE "program"
me == call[Running]
At(pc) == me.pc = pc
Goto(pc) == call' = [call EXCEPT ![Running].pc = pc]
Next_k(pc) == call' = [call EXCEPT ![Running].pc = pc, ![Running].k = @ + 1]

----------------------------------------------------------------------------
(* Calls. The program's is made when it is idle; an interrupt comes at any moment. *)
Taken == Len(sent["program"]) + (IF call["program"].pc \in {"poll", "put"} THEN 1 ELSE 0)
TakesBuffer(first) == first.data # << >> /\ call["program"].pc # "idle" /\ cut = -1
Begins(w, first) ==
  /\ Running = "program" /\ (w = "program" => call[w].pc = "idle")
  /\ call' = [call EXCEPT ![w] = first] /\ sent' = [sent EXCEPT ![w] = << >>]
  /\ IF w = "program" THEN lost' = 0 /\ hits' = 0 /\ cut' = -1
     ELSE /\ hits < MaxHits /\ UNCHANGED lost
          /\ hits' = IF call["program"].pc = "idle" THEN hits ELSE hits + 1
          /\ cut' = IF TakesBuffer(first) THEN Taken ELSE cut
  /\ UNCHANGED << ALT_LOG_FLAGS, alt_log_write_buf, room >>

length(data) ==
  IF ALT_LOG_WRITE_ECHO_LEN > Len(data) THEN Len(data) ELSE ALT_LOG_WRITE_ECHO_LEN

alt_log_write(w, data) ==
  /\ write_on /\ length(data) >= 2
  /\ Begins(w, [NoCall EXCEPT !.pc = "copy", !.data = data])
  /\ UNCHANGED clock

alt_log_printf_proc == [NoCall EXCEPT !.pc = "poll", !.c = "text"]

\* Boot messages; at startup the driver of the UART prints its control register, as
\* its interrupt handler and its alarm do later.
ALT_LOG_PRINT_BOOT == boot_on /\ Begins("program", alt_log_printf_proc) /\ UNCHANGED clock
alt_log_jtag_uart_startup_info ==
  startup_info_on /\ Begins("program", alt_log_printf_proc) /\ UNCHANGED clock
alt_log_jtag_uart_isr_proc ==
  isr_on /\ Begins("isr", alt_log_printf_proc) /\ UNCHANGED clock
altera_avalon_jtag_uart_report_log ==
  alarm_on /\ Begins("isr", alt_log_printf_proc) /\ UNCHANGED clock

CountTick == IF alt_log_sys_clk_count + 1 > Interval THEN 0 ELSE alt_log_sys_clk_count + 1

alt_log_system_clock ==
  /\ sys_clk_on /\ ticks < MaxTicks
  /\ ticks' = ticks + 1 /\ alt_log_sys_clk_count' = CountTick
  /\ IF alt_log_sys_clk_count + 1 > Interval
     THEN /\ Begins("isr", alt_log_printf_proc)
          /\ alt_system_clock_in_sec' = alt_system_clock_in_sec + 1
     ELSE /\ Running = "program"
          /\ UNCHANGED << ALT_LOG_FLAGS, alt_log_write_buf, room, call, sent, lost, hits, cut,
                          alt_system_clock_in_sec >>

----------------------------------------------------------------------------
(* alt_log_write, store by store. *)
Store(k, c) == alt_log_write_buf' = [alt_log_write_buf EXCEPT ![k] = c]
Rest == << ALT_LOG_FLAGS, room, sent, lost, hits, cut, clock >>

\* strncpy: after a NUL only NULs.
Copied(data, k) == IF \E i \in 1 .. k + 1 : data[i] = "NUL" THEN "NUL" ELSE data[k + 1]

Copy ==
  /\ At("copy") /\ Store(me.k, Copied(me.data, me.k))
  /\ Next_k(IF me.k + 1 < length(me.data) THEN "copy" ELSE "newline")
  /\ UNCHANGED Rest
Newline == At("newline") /\ Store(me.k - 1, "NL") /\ Goto("return") /\ UNCHANGED Rest
Return == At("return") /\ Store(me.k, "CR") /\ Goto("end") /\ UNCHANGED Rest
End ==
  /\ At("end") /\ Store(me.k + 1, "NUL")
  /\ call' = [call EXCEPT ![Running].pc = "look", ![Running].k = 0]
  /\ UNCHANGED Rest

EscapeFirstOnly(k) == FALSE                                            \* mutant
EscapeMore(k) == k + 1 < length(me.data)

\* Ctrl-D is looked for and overwritten in two steps.
Escaped(k) ==
  IF EscapeMore(k) THEN Next_k("look")
  ELSE call' = [call EXCEPT ![Running].pc = "poll", ![Running].k = 0, ![Running].c = "text"]
LookForCtrlD ==
  /\ At("look")
  /\ IF alt_log_write_buf[me.k] = "EOT" THEN Goto("escape") ELSE Escaped(me.k)
  /\ UNCHANGED << Rest, alt_log_write_buf >>
EscapeCtrlD == At("escape") /\ Store(me.k, "D") /\ Escaped(me.k) /\ UNCHANGED Rest

----------------------------------------------------------------------------
(* Printing. The %s conversion looks at a character and fetches it again to print. *)
LookForEnd ==
  /\ At("test")
  /\ Goto(IF alt_log_write_buf[me.k] = "NUL" THEN "idle" ELSE "fetch")
  /\ UNCHANGED << Rest, alt_log_write_buf >>
Fetch ==
  /\ At("fetch")
  /\ call' = [call EXCEPT ![Running].pc = "poll", ![Running].k = @ + 1,
                          ![Running].c = alt_log_write_buf[me.k]]
  /\ UNCHANGED << Rest, alt_log_write_buf >>

\* alt_log_txchar: wait for room, then write; a full FIFO drops what is written.
Poll == At("poll") /\ room > 0 /\ Goto("put") /\ UNCHANGED << Rest, alt_log_write_buf >>
Put ==
  /\ At("put")
  /\ IF room > 0
     THEN room' = room - 1 /\ sent' = [sent EXCEPT ![Running] = Append(@, me.c)] /\ UNCHANGED lost
     ELSE lost' = lost + 1 /\ sent' = [sent EXCEPT ![Running] = Append(@, "lost")] /\ UNCHANGED room
  /\ Goto(IF me.data = << >> THEN "idle" ELSE "test")
  /\ UNCHANGED << ALT_LOG_FLAGS, alt_log_write_buf, hits, cut, clock >>

HostDrains ==
  /\ room < FifoDepth /\ room' = room + 1
  /\ UNCHANGED << ALT_LOG_FLAGS, alt_log_write_buf, call, sent, lost, hits, cut, clock >>

LogPortNext ==
  \/ \E d \in Data : alt_log_write("program", d)
  \/ \E d \in IsrData : alt_log_write("isr", d)
  \/ ALT_LOG_PRINT_BOOT \/ alt_log_jtag_uart_startup_info
  \/ alt_log_jtag_uart_isr_proc \/ altera_avalon_jtag_uart_report_log \/ alt_log_system_clock
  \/ Copy \/ Newline \/ Return \/ End \/ LookForCtrlD \/ EscapeCtrlD
  \/ LookForEnd \/ Fetch \/ Poll \/ Put \/ HostDrains

----------------------------------------------------------------------------
\* What an echo of data puts on the port if nothing comes between: of the n characters
\* copied the first n - 1, for the newline takes the place of the last (the comments in
\* alt_log_printf.c:437-439 and alt_log_printf.h:330-331 promise the first n).
Echo(data) ==
  LET n == length(data)
      text == [k \in 1 .. n - 1 |-> IF data[k] = "EOT" THEN "D" ELSE data[k]]
      zeros == {k \in 1 .. n - 1 : data[k] = "NUL"}
  IN << "text" >> \o (IF zeros = {} THEN text \o << "NL", "CR" >>
                      ELSE SubSeq(text, 1, (CHOOSE k \in zeros : \A j \in zeros : k <= j) - 1))

\* However calls interrupt each other in the shared buffer, Ctrl-D never goes out and
\* no print runs past the buffer: a NUL lies ahead of it.
BufferSafe ==
  \A w \in Who :
    /\ \A i \in DOMAIN sent[w] : sent[w][i] # "EOT"
    /\ call[w].pc \in {"test", "fetch", "poll", "put"} /\ call[w].data # << >> =>
         \E k \in Index : k >= call[w].k /\ alt_log_write_buf[k] = "NUL"

\* An interrupt routine's echo goes out whole.  The program's is its own text, but for
\* a character lost to each interrupt at most: to the end if no echo of an interrupt
\* routine came between, otherwise only as far as it had been fetched from the buffer
\* when the first one did.  What follows then is whatever is in the buffer, which still
\* ends where the longest echo would.
EchoKept ==
  /\ call["isr"].pc = "idle" /\ call["isr"].data # << >> =>
       sent["isr"] = Echo(call["isr"].data)
  /\ call["program"].pc = "idle" /\ call["program"].data # << >> =>
       LET s == sent["program"]
           own == Echo(call["program"].data)
           kept == IF cut = -1 THEN Len(own) ELSE cut
       IN  /\ kept <= Len(own) /\ kept <= Len(s) /\ (cut = -1 => Len(s) = kept)
           /\ \A i \in 1 .. kept : s[i] \in {own[i], "lost"}
           /\ Len(s) <= ALT_LOG_WRITE_ECHO_LEN + 2
  /\ lost <= hits

\* The clock's messages come every Interval + 1 ticks, and at level -1 none at all.
LevelsHold ==
  /\ alt_system_clock_in_sec * (Interval + 1) + alt_log_sys_clk_count = ticks
  /\ ALT_LOG_FLAGS = -1 => sent = [w \in Who |-> << >>]

LogSafe == BufferSafe /\ EchoKept /\ LevelsHold
================================================================================
