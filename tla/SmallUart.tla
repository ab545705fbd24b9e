------------------------------- MODULE SmallUart -------------------------------
(* The polled ("small") JTAG UART driver, the one this system is built with, and  *)
(* the character calls above it: no interrupt, no buffer, no timeout; a write     *)
(* spins until the device's FIFO has taken every byte, a read spins until there   *)
(* is at least one.  A byte is its position in its stream.                        *)
EXTENDS Naturals, Sequences

CONSTANTS FIFO_DEPTH,  \* each of the device's FIFOs
          MaxCount,    \* bound: bytes asked for by one call
          MaxOut, MaxIn \* bounds: bytes of each stream in a behaviour

SmallUartAssumption ==
  /\ FIFO_DEPTH \in Nat \ {0} /\ MaxCount \in Nat \ {0} /\ MaxOut \in Nat /\ MaxIn \in Nat

VARIABLES pc, nonblock, left, moved, ret,       \* the program's call
          hwTx, hwRx,                           \* the device's FIFOs
          written, received, given, delivered   \* stream positions

call == << pc, nonblock, left, moved >>
txStream == << hwTx, written, received >>
rxStream == << hwRx, given, delivered >>
vars == << call, ret, txStream, rxStream >>

SmallUartInit ==
  /\ pc = "idle" /\ nonblock = FALSE /\ left = 0 /\ moved = 0 /\ ret = "none"
  /\ hwTx = << >> /\ hwRx = << >>
  /\ written = 0 /\ received = 0 /\ given = 0 /\ delivered = 0

Return(value) ==
  pc' = "idle" /\ nonblock' = FALSE /\ left' = 0 /\ moved' = 0 /\ ret' = value

----------------------------------------------------------------------------
\* altera_avalon_jtag_uart_write, called with n bytes.
StartWrite(n) ==
  /\ pc = "idle" /\ written + n <= MaxOut
  /\ left' = n /\ pc' = "write" /\ moved' = 0 /\ ret' = "none"
  /\ UNCHANGED << txStream, rxStream >>

WriteCall == (\E n \in 1 .. MaxCount : StartWrite(n)) /\ nonblock' \in BOOLEAN
\* alt_putstr writes a whole string, alt_putchar one character, both blocking.
PutstrCall == (\E n \in 1 .. MaxCount : StartWrite(n)) /\ nonblock' = FALSE
PutcharCall == StartWrite(1) /\ nonblock' = FALSE

WriteSpace == Len(hwTx) < FIFO_DEPTH

\* The flags are not looked at: a non-blocking write spins too.
WriteByte ==
  /\ pc = "write" /\ left > 0 /\ WriteSpace
  /\ hwTx' = Append(hwTx, written + 1) /\ written' = written + 1
  /\ left' = left - 1 /\ moved' = moved + 1
  /\ UNCHANGED << pc, nonblock, ret, received, rxStream >>

WriteReturn ==
  /\ pc = "write" /\ left = 0
  /\ Return("count")
  /\ UNCHANGED << txStream, rxStream >>

----------------------------------------------------------------------------
\* altera_avalon_jtag_uart_read
ReadCall ==
  /\ pc = "idle" /\ MaxIn > 0
  /\ left' \in 1 .. MaxCount /\ nonblock' \in BOOLEAN
  /\ pc' = "read" /\ moved' = 0 /\ ret' = "none"
  /\ UNCHANGED << txStream, rxStream >>

\* One read of the data register pops the FIFO.
ReadByte ==
  /\ pc = "read" /\ left > 0 /\ hwRx # << >>
  /\ hwRx' = Tail(hwRx) /\ delivered' = delivered + 1
  /\ left' = left - 1 /\ moved' = moved + 1
  /\ UNCHANGED << pc, nonblock, ret, txStream, given >>

ReadStops == moved > 0 \/ nonblock

ReadReturn ==
  /\ pc = "read"
  /\ left = 0 \/ (hwRx = << >> /\ ReadStops)
  /\ Return(IF moved > 0 THEN "count" ELSE IF nonblock THEN "EWOULDBLOCK" ELSE "EIO")
  /\ UNCHANGED << txStream, rxStream >>

----------------------------------------------------------------------------
\* alt_getchar: a read of one byte, with the flags of stdin; -1 for no byte.
GetcharCall ==
  /\ pc = "idle" /\ MaxIn > 0
  /\ left' = 1 /\ moved' = 0 /\ nonblock' \in BOOLEAN
  /\ pc' = "getchar" /\ ret' = "none"
  /\ UNCHANGED << txStream, rxStream >>

GetcharReturn ==
  /\ pc = "getchar"
  /\ \/ /\ hwRx # << >>
        /\ hwRx' = Tail(hwRx) /\ delivered' = delivered + 1
        /\ Return("char")
     \/ /\ hwRx = << >> /\ nonblock
        /\ Return("no char")
        /\ UNCHANGED << hwRx, delivered >>
  /\ UNCHANGED << txStream, given >>

\* The host's debug software.
HostTake ==
  /\ hwTx # << >>
  /\ hwTx' = Tail(hwTx) /\ received' = received + 1
  /\ UNCHANGED << call, ret, written, rxStream >>

HostGive ==
  /\ Len(hwRx) < FIFO_DEPTH /\ given < MaxIn
  /\ hwRx' = Append(hwRx, given + 1) /\ given' = given + 1
  /\ UNCHANGED << call, ret, txStream, delivered >>

----------------------------------------------------------------------------
CallStep == WriteByte \/ WriteReturn \/ ReadByte \/ ReadReturn \/ GetcharReturn

SmallUartNext ==
  \/ WriteCall \/ PutstrCall \/ PutcharCall \/ ReadCall \/ GetcharCall
  \/ CallStep \/ HostTake \/ HostGive

SmallUartSpec == SmallUartInit /\ [][SmallUartNext]_vars
\* The processor executes and the host keeps reading what it is sent.
FairSmallUartSpec == SmallUartSpec /\ WF_vars(CallStep) /\ WF_vars(HostTake)

SmallUartTypeOK ==
  /\ pc \in {"idle", "write", "read", "getchar"} /\ nonblock \in BOOLEAN
  /\ left \in 0 .. MaxCount /\ moved \in 0 .. MaxCount
  /\ ret \in {"none", "count", "EWOULDBLOCK", "EIO", "char", "no char"}
  /\ hwTx \in Seq(1 .. MaxOut) /\ hwRx \in Seq(1 .. MaxIn)
  /\ written \in 0 .. MaxOut /\ received \in 0 .. MaxOut
  /\ given \in 0 .. MaxIn /\ delivered \in 0 .. MaxIn

\* Each direction is a byte channel whose only buffer is the device's FIFO: the
\* driver never writes into a full FIFO and keeps no byte back.
TxChannel == INSTANCE ByteChannel WITH
  Capacity <- FIFO_DEPTH, inFlight <- hwTx, accepted <- written, delivered <- received
RxChannel == INSTANCE ByteChannel WITH
  Capacity <- FIFO_DEPTH, inFlight <- hwRx, accepted <- given, delivered <- delivered
ImplementsTxChannel == TxChannel!ChannelSpec
ImplementsRxChannel == RxChannel!ChannelSpec

\* The error that means "host not connected" in the fast driver cannot come from
\* this one: a read either moves something, would block, or never returns.
NeverEio == ret # "EIO"

\* With a host that keeps reading every write returns, whatever its size.
WriteEnds == pc = "write" ~> pc = "idle"
================================================================================
