------------------------------- MODULE JtagUart --------------------------------
(* The interrupt-driven ("fast") JTAG UART driver: two circular buffers shared   *)
(* between the one program thread (write, read, close, ioctl) and interrupt      *)
(* handlers (the UART's own and the one-second alarm), the device's two FIFOs    *)
(* and a debug host that may come and go.  The build is the one without an       *)
(* operating system, so waiting is spinning and the semaphores are empty.        *)
(*                                                                               *)
(* A byte is its position in its stream.  A handler runs to completion with the  *)
(* program frozen, but the host keeps moving; every volatile read of the program *)
(* is a step of its own.                                                         *)
EXTENDS Naturals, Sequences

CONSTANTS BUF_LEN,          \* ALTERA_AVALON_JTAG_UART_BUF_LEN
          DEFAULT_TIMEOUT,  \* ALTERA_AVALON_JTAG_UART_DEFAULT_TIMEOUT, in alarms
          INT_MAX,
          TimeoutArgs,      \* arguments of ioctl(TIOCSTIMEOUT)
          FIFO_DEPTH,       \* each of the device's FIFOs
          THRESHOLD,        \* WI is raised at or below this many characters
          MaxCount,         \* bound: bytes asked for by one call
          MaxOut, MaxIn     \* bounds: bytes of each stream in a behaviour

ASSUME BufLenAssumption == BUF_LEN \in Nat /\ BUF_LEN >= 2
ASSUME DeviceAssumption == FIFO_DEPTH \in Nat \ {0} /\ THRESHOLD \in 0 .. FIFO_DEPTH - 1
ASSUME TimeoutAssumption ==
  /\ INT_MAX \in Nat /\ DEFAULT_TIMEOUT \in 1 .. INT_MAX - 2
  /\ TimeoutArgs \subseteq Nat
ASSUME BoundAssumption == MaxCount \in Nat /\ MaxOut \in Nat /\ MaxIn \in Nat

VARIABLES tx_buf, tx_in, tx_out, rx_buf, rx_in, rx_out,
          irq_enable, host_inactive, timeout,
          pc, nonblock, count, done, in, out, ret,      \* the program's call
          isr, ctl, data_avail,                         \* the handler's locals
          hwTx, hwRx, ac, connected,                    \* the device and the host
          written, received, given, delivered           \* stream positions

txRing == << tx_buf, tx_in, tx_out >>
rxRing == << rx_buf, rx_in, rx_out >>
activity == << host_inactive, timeout >>
call == << pc, nonblock, count, done, in, out, ret >>
handler == << isr, ctl, data_avail >>
device == << hwTx, hwRx, ac, connected >>
txStream == << written, received >>
rxStream == << given, delivered >>
vars == << txRing, rxRing, irq_enable, activity, call, handler, device, txStream, rxStream >>

Slots == 0 .. BUF_LEN - 1
Ring(buf, first, last) ==
  [i \in 1 .. (last + BUF_LEN - first) % BUF_LEN |-> buf[(first + i - 1) % BUF_LEN]]

----------------------------------------------------------------------------
\* The UART's control register: a condition is pending while its enable is set.
RI == "RE" \in irq_enable /\ hwRx # << >>
WI == "WE" \in irq_enable /\ Len(hwTx) <= THRESHOLD
WSPACE == FIFO_DEPTH - Len(hwTx)

\* The state structure as the macro lays it out; all but base and timeout are zero.
StateInstance ==
  /\ tx_buf = [s \in Slots |-> 0] /\ tx_in = 0 /\ tx_out = 0
  /\ rx_buf = [s \in Slots |-> 0] /\ rx_in = 0 /\ rx_out = 0
  /\ host_inactive = 0
\* altera_avalon_jtag_uart_init: receive interrupts on, then the alarm, which
\* cannot be started in a system without a timer.
JtagUartInit ==
  /\ StateInstance /\ irq_enable = {"RE"}
  /\ timeout \in {DEFAULT_TIMEOUT, INT_MAX}
  /\ pc = "idle" /\ nonblock = FALSE /\ count = 0 /\ done = 0
  /\ in = 0 /\ out = 0 /\ ret = "none"
  /\ isr = "off" /\ ctl = [ri |-> FALSE, wi |-> FALSE, space |-> 0] /\ data_avail = FALSE
  /\ hwTx = << >> /\ hwRx = << >> /\ ac = FALSE /\ connected \in BOOLEAN
  /\ written = 0 /\ received = 0 /\ given = 0 /\ delivered = 0

\* The program runs only while no handler does.
Program == isr = "off"
Running(label) == Program /\ pc = label
Goto(label) == pc' = label

----------------------------------------------------------------------------
(* altera_avalon_jtag_uart_write *)
WriteCall ==
  /\ Running("idle")
  /\ \E c \in 1 .. MaxCount, nb \in BOOLEAN :
       written + c <= MaxOut /\ count' = c /\ nonblock' = nb
  /\ ret' = "none" /\ Goto("w_load")
  /\ UNCHANGED << txRing, rxRing, irq_enable, activity, done, in, out, handler, device,
                  txStream, rxStream >>

\* The two pointers are read once; the handler may move tx_out right after.
WriteLoad ==
  /\ Running("w_load") /\ count > 0
  /\ in' = tx_in /\ out' = tx_out /\ Goto("w_copy")
  /\ UNCHANGED << txRing, rxRing, irq_enable, activity, nonblock, count, done, ret,
                  handler, device, txStream, rxStream >>

FreeRunFills == IF in < out THEN out - 1 - in ELSE BUF_LEN - in \* mutant: no slot kept free
FreeRun == IF in < out THEN out - 1 - in
           ELSE IF out > 0 THEN BUF_LEN - in ELSE BUF_LEN - 1 - in

\* One memcpy into the free run, then tx_in is published.
WriteCopy ==
  LET n == IF FreeRun > count THEN count ELSE FreeRun IN
  /\ Running("w_copy") /\ FreeRun > 0
  /\ tx_buf' = [s \in Slots |-> IF s \in in .. in + n - 1 THEN written + 1 + (s - in)
                                ELSE tx_buf[s]]
  /\ tx_in' = (in + n) % BUF_LEN
  /\ count' = count - n /\ done' = done + n /\ written' = written + n
  /\ Goto("w_load")
  /\ UNCHANGED << tx_out, rxRing, irq_enable, activity, nonblock, in, out, ret,
                  handler, device, received, rxStream >>

WriteNoKick ==    \* mutant: the transmit interrupt is not turned on
  /\ Program
  /\ (pc = "w_load" /\ count = 0) \/ (pc = "w_copy" /\ FreeRun = 0)
  /\ Goto(IF count > 0 /\ ~nonblock THEN "w_wait" ELSE "w_return")
  /\ UNCHANGED << txRing, rxRing, irq_enable, activity, nonblock, count, done, in, out, ret,
                  handler, device, txStream, rxStream >>
\* Interrupts are disabled round the read-modify-write of irq_enable.
WriteKick ==
  /\ Program
  /\ (pc = "w_load" /\ count = 0) \/ (pc = "w_copy" /\ FreeRun = 0)
  /\ irq_enable' = irq_enable \cup {"WE"}
  /\ Goto(IF count > 0 /\ ~nonblock THEN "w_wait" ELSE "w_return")
  /\ UNCHANGED << txRing, rxRing, activity, nonblock, count, done, in, out, ret,
                  handler, device, txStream, rxStream >>

WriteWait ==
  /\ Running("w_wait")
  /\ out # tx_out \/ host_inactive >= timeout
  /\ Goto("w_check")
  /\ UNCHANGED << txRing, rxRing, irq_enable, activity, nonblock, count, done, in, out,
                  ret, handler, device, txStream, rxStream >>

WriteCheck ==
  /\ Running("w_check")
  /\ Goto(IF host_inactive > 0 THEN "w_return" ELSE "w_load")
  /\ UNCHANGED << txRing, rxRing, irq_enable, activity, nonblock, count, done, in, out,
                  ret, handler, device, txStream, rxStream >>

\* What a call returns: bytes moved, else an error.  Its locals die with it.
EndCall == nonblock' = FALSE /\ count' = 0 /\ done' = 0 /\ in' = 0 /\ out' = 0
Result == IF done > 0 THEN "moved" ELSE IF nonblock THEN "EWOULDBLOCK" ELSE "EIO"

WriteReturn ==
  /\ Running("w_return")
  /\ ret' = Result /\ Goto("idle") /\ EndCall
  /\ UNCHANGED << txRing, rxRing, irq_enable, activity, handler, device, txStream, rxStream >>

----------------------------------------------------------------------------
(* altera_avalon_jtag_uart_read *)
ReadCall ==
  /\ Running("idle")
  /\ \E c \in 1 .. MaxCount, nb \in BOOLEAN : count' = c /\ nonblock' = nb
  /\ MaxIn > 0
  /\ ret' = "none" /\ Goto("r_load")
  /\ UNCHANGED << txRing, rxRing, irq_enable, activity, done, in, out, handler, device,
                  txStream, rxStream >>

ReadLoad ==
  /\ Running("r_load")
  /\ in' = rx_in /\ out' = rx_out /\ Goto("r_copy")
  /\ UNCHANGED << txRing, rxRing, irq_enable, activity, nonblock, count, done, ret,
                  handler, device, txStream, rxStream >>

FilledRun == IF in >= out THEN in - out ELSE BUF_LEN - out

\* One memcpy out of the filled run; the bytes are delivered to the caller.
ReadCopy ==
  LET n == IF FilledRun > count THEN count ELSE FilledRun IN
  /\ Running("r_copy") /\ FilledRun > 0
  /\ rx_out' = (out + n) % BUF_LEN
  /\ count' = count - n /\ done' = done + n /\ delivered' = delivered + n
  /\ Goto(IF count = n THEN "r_enable" ELSE "r_load")
  /\ UNCHANGED << txRing, rx_buf, rx_in, irq_enable, activity, nonblock, in, out, ret,
                  handler, device, txStream, given >>

ReadEmpty ==
  /\ Running("r_copy") /\ FilledRun = 0
  /\ Goto(IF done > 0 THEN "r_enable" ELSE IF nonblock THEN "r_return" ELSE "r_wait")
  /\ UNCHANGED << txRing, rxRing, irq_enable, activity, nonblock, count, done, in, out,
                  ret, handler, device, txStream, rxStream >>

ReadWait ==
  /\ Running("r_wait")
  /\ in # rx_in \/ host_inactive >= timeout
  /\ Goto("r_check")
  /\ UNCHANGED << txRing, rxRing, irq_enable, activity, nonblock, count, done, in, out,
                  ret, handler, device, txStream, rxStream >>

ReadCheck ==
  /\ Running("r_check")
  /\ Goto(IF in = rx_in THEN "r_return" ELSE "r_load")
  /\ UNCHANGED << txRing, rxRing, irq_enable, activity, nonblock, count, done, in, out,
                  ret, handler, device, txStream, rxStream >>

\* Data was taken, so there is room: receive interrupts on again.
ReadEnable ==
  /\ Running("r_enable")
  /\ irq_enable' = irq_enable \cup {"RE"}
  /\ Goto("r_return")
  /\ UNCHANGED << txRing, rxRing, activity, nonblock, count, done, in, out, ret,
                  handler, device, txStream, rxStream >>

ReadReturn ==
  /\ Running("r_return")
  /\ ret' = Result /\ Goto("idle") /\ EndCall
  /\ UNCHANGED << txRing, rxRing, irq_enable, activity, handler, device, txStream, rxStream >>

----------------------------------------------------------------------------
(* altera_avalon_jtag_uart_close and _ioctl *)
CloseCall ==
  /\ Running("idle")
  /\ \E nb \in BOOLEAN : nonblock' = nb
  /\ ret' = "none" /\ Goto("close")
  /\ UNCHANGED << txRing, rxRing, irq_enable, activity, count, done, in, out, handler,
                  device, txStream, rxStream >>

CloseReturn ==
  LET pending == tx_out # tx_in /\ host_inactive < timeout IN
  /\ Running("close")
  /\ pending => nonblock
  /\ ret' = IF pending THEN "EWOULDBLOCK" ELSE "closed"
  /\ Goto("idle") /\ EndCall
  /\ UNCHANGED << txRing, rxRing, irq_enable, activity, handler, device, txStream, rxStream >>

\* TIOCSTIMEOUT; with the alarm missing the timeout stays INT_MAX.
SetTimeout ==
  /\ Running("idle") /\ timeout # INT_MAX
  /\ \E arg \in TimeoutArgs :
       timeout' = IF arg >= 2 /\ arg < INT_MAX THEN arg ELSE INT_MAX - 1
  /\ UNCHANGED << txRing, rxRing, irq_enable, host_inactive, call, handler, device,
                  txStream, rxStream >>

----------------------------------------------------------------------------
(* altera_avalon_jtag_uart_irq *)
IsrEnter ==
  /\ isr = "off" /\ (RI \/ WI)
  /\ isr' = "poll"
  /\ UNCHANGED << txRing, rxRing, irq_enable, activity, call, ctl, data_avail, device,
                  txStream, rxStream >>

\* One read of the control register starts a pass or ends the handler.
IsrPoll ==
  /\ isr = "poll"
  /\ ctl' = [ri |-> RI, wi |-> WI, space |-> WSPACE]
  /\ isr' = IF RI THEN "rx" ELSE IF WI THEN "tx" ELSE "off"
  /\ data_avail' = TRUE
  /\ UNCHANGED << txRing, rxRing, irq_enable, activity, call, device, txStream, rxStream >>

RxFull == (rx_in + 1) % BUF_LEN = rx_out

IsrReceive ==
  /\ isr = "rx" /\ ~RxFull /\ hwRx # << >>
  /\ rx_buf' = [rx_buf EXCEPT ![rx_in] = Head(hwRx)]
  /\ rx_in' = (rx_in + 1) % BUF_LEN
  /\ hwRx' = Tail(hwRx)
  /\ data_avail' = (Tail(hwRx) # << >>)
  /\ UNCHANGED << txRing, rx_out, irq_enable, activity, call, isr, ctl, hwTx, ac,
                  connected, txStream, rxStream >>

\* The buffer is full, or the data register came back invalid.  Data left behind
\* turns the receive interrupt off until read() makes room.
IsrReceiveEnd ==
  LET left == IF RxFull THEN data_avail ELSE FALSE IN
  /\ isr = "rx" /\ (RxFull \/ hwRx = << >>)
  /\ irq_enable' = IF left THEN irq_enable \ {"RE"} ELSE irq_enable
  /\ isr' = IF ctl.wi THEN "tx" ELSE "poll"
  /\ data_avail' = left
  /\ UNCHANGED << txRing, rxRing, activity, call, ctl, device, txStream, rxStream >>

IsrTransmit ==
  /\ isr = "tx" /\ ctl.space > 0 /\ tx_out # tx_in
  /\ hwTx' = Append(hwTx, tx_buf[tx_out])
  /\ tx_out' = (tx_out + 1) % BUF_LEN
  /\ ctl' = [ctl EXCEPT !.space = @ - 1]
  /\ UNCHANGED << tx_buf, tx_in, rxRing, irq_enable, activity, call, isr, data_avail,
                  hwRx, ac, connected, txStream, rxStream >>

IsrTransmitEndOff ==    \* mutant: off although characters remain
  /\ isr = "tx" /\ (ctl.space = 0 \/ tx_out = tx_in)
  /\ irq_enable' = irq_enable \ {"WE"} /\ isr' = "poll"
  /\ UNCHANGED << txRing, rxRing, activity, call, ctl, data_avail, device, txStream, rxStream >>
\* Room left over: nothing to send, so the transmit interrupt goes off.
IsrTransmitEnd ==
  /\ isr = "tx" /\ (ctl.space = 0 \/ tx_out = tx_in)
  /\ irq_enable' = IF ctl.space > 0 THEN irq_enable \ {"WE"} ELSE irq_enable
  /\ isr' = "poll"
  /\ UNCHANGED << txRing, rxRing, activity, call, ctl, data_avail, device, txStream, rxStream >>

\* altera_avalon_jtag_uart_timeout, once a second if the alarm runs.
Timeout ==
  /\ isr = "off" /\ timeout # INT_MAX
  /\ IF ac THEN host_inactive' = 0
     ELSE host_inactive' = IF host_inactive + 2 < INT_MAX THEN host_inactive + 1
                           ELSE host_inactive
  /\ ac' = FALSE
  /\ UNCHANGED << txRing, rxRing, irq_enable, timeout, call, handler, hwTx, hwRx,
                  connected, txStream, rxStream >>

----------------------------------------------------------------------------
(* The host's debug software: it may appear and vanish at any time. *)
HostTake ==
  /\ connected /\ hwTx # << >>
  /\ hwTx' = Tail(hwTx) /\ received' = received + 1 /\ ac' = TRUE
  /\ UNCHANGED << txRing, rxRing, irq_enable, activity, call, handler, hwRx, connected,
                  written, rxStream >>

HostGive ==
  /\ connected /\ Len(hwRx) < FIFO_DEPTH /\ given < MaxIn
  /\ hwRx' = Append(hwRx, given + 1) /\ given' = given + 1 /\ ac' = TRUE
  /\ UNCHANGED << txRing, rxRing, irq_enable, activity, call, handler, hwTx, connected,
                  txStream, delivered >>

HostPoll ==
  /\ connected /\ ~ac
  /\ ac' = TRUE
  /\ UNCHANGED << txRing, rxRing, irq_enable, activity, call, handler, hwTx, hwRx,
                  connected, txStream, rxStream >>

HostPlug ==
  /\ connected' = ~connected
  /\ UNCHANGED << txRing, rxRing, irq_enable, activity, call, handler, hwTx, hwRx, ac,
                  txStream, rxStream >>

----------------------------------------------------------------------------
WriteStep == WriteLoad \/ WriteCopy \/ WriteKick \/ WriteWait \/ WriteCheck \/ WriteReturn
ReadStep == ReadLoad \/ ReadCopy \/ ReadEmpty \/ ReadWait \/ ReadCheck \/ ReadEnable \/ ReadReturn
CallStep == WriteStep \/ ReadStep \/ CloseReturn
IsrStep == IsrPoll \/ IsrReceive \/ IsrReceiveEnd \/ IsrTransmit \/ IsrTransmitEnd
HostStep == HostTake \/ HostGive \/ HostPoll \/ HostPlug

JtagUartNext ==
  \/ WriteCall \/ ReadCall \/ CloseCall \/ SetTimeout
  \/ CallStep \/ IsrEnter \/ IsrStep \/ Timeout \/ HostStep

\* The processor keeps executing, interrupts are taken, the alarm keeps firing,
\* and a host that keeps coming back keeps reading.
JtagUartFairness ==
  /\ WF_vars(CallStep) /\ WF_vars(IsrEnter) /\ WF_vars(IsrStep) /\ WF_vars(Timeout)
  /\ SF_vars(HostTake)

JtagUartSpec == JtagUartInit /\ [][JtagUartNext]_vars
FairJtagUartSpec == JtagUartSpec /\ JtagUartFairness

----------------------------------------------------------------------------
WriteLabels == {"w_load", "w_copy", "w_wait", "w_check", "w_return"}
ReadLabels == {"r_load", "r_copy", "r_wait", "r_check", "r_enable", "r_return"}

JtagUartTypeOK ==
  /\ tx_buf \in [Slots -> Nat] /\ tx_in \in Slots /\ tx_out \in Slots
  /\ rx_buf \in [Slots -> Nat] /\ rx_in \in Slots /\ rx_out \in Slots
  /\ irq_enable \in SUBSET {"RE", "WE"}
  /\ host_inactive \in 0 .. INT_MAX /\ timeout \in 1 .. INT_MAX
  /\ pc \in {"idle", "close"} \cup WriteLabels \cup ReadLabels
  /\ nonblock \in BOOLEAN /\ count \in 0 .. MaxCount /\ done \in 0 .. MaxCount
  /\ in \in Slots /\ out \in Slots
  /\ ret \in {"none", "moved", "EIO", "EWOULDBLOCK", "closed"}
  /\ isr \in {"off", "poll", "rx", "tx"}
  /\ ctl \in [ri : BOOLEAN, wi : BOOLEAN, space : 0 .. FIFO_DEPTH]
  /\ data_avail \in BOOLEAN /\ ac \in BOOLEAN /\ connected \in BOOLEAN
  /\ hwTx \in Seq(Nat) /\ hwRx \in Seq(Nat)
  /\ written \in Nat /\ received \in Nat /\ given \in Nat /\ delivered \in Nat

\* The handler never writes a character the transmit FIFO has no room for: the
\* space it read before its loop is still there when it uses it.
FifoNotOverrun ==
  /\ Len(hwTx) <= FIFO_DEPTH
  /\ isr = "tx" => ctl.space <= WSPACE

\* Characters waiting in the transmit buffer always have something that will send
\* them: the transmit interrupt is on, or the program is about to turn it on.
TxNotStalled ==
  tx_in # tx_out => "WE" \in irq_enable \/ pc \in {"w_load", "w_copy"}

\* The receive interrupt is off only while the reader has something to do: the
\* buffer holds characters, or a read took some and is about to turn it on.
RxNotStalled ==
  "RE" \notin irq_enable =>
    \/ rx_in # rx_out
    \/ pc \in {"r_load", "r_copy", "r_enable"} /\ done > 0

\* What is between the program and the host: buffer first, then device.
TxInFlight == hwTx \o Ring(tx_buf, tx_out, tx_in)
RxInFlight == Ring(rx_buf, rx_out, rx_in) \o hwRx

\* Each direction is a byte channel: every order of program, handler and host
\* leaves the bytes in order, none lost and none sent twice.
TxChannel == INSTANCE ByteChannel WITH
  Capacity <- BUF_LEN - 1 + FIFO_DEPTH,
  inFlight <- TxInFlight, accepted <- written, delivered <- received
RxChannel == INSTANCE ByteChannel WITH
  Capacity <- BUF_LEN - 1 + FIFO_DEPTH,
  inFlight <- RxInFlight, accepted <- given, delivered <- delivered
ImplementsTxChannel == TxChannel!ChannelSpec
ImplementsRxChannel == RxChannel!ChannelSpec

\* A write or close never hangs, host or no host, once a finite timeout is set.
WriteEnds ==
  (pc \in WriteLabels \cup {"close"} /\ timeout < INT_MAX - 1) ~> (pc = "idle")

\* A blocked read is not left waiting for a host that is gone.
ReadEnds ==
  (pc \in ReadLabels /\ timeout < INT_MAX - 1) ~> (pc = "idle" \/ connected)

\* What the program wrote reaches a host that keeps coming back.
TxDelivered ==
  []<>connected => \A n \in 1 .. MaxOut : (written >= n) ~> (received >= n)
================================================================================
