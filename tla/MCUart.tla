-------------------------------- MODULE MCUart ---------------------------------
(* Both builds of the JTAG UART driver. They share the call of the program, the   *)
(* device's FIFOs and the streams; the buffers, the interrupt enables and the     *)
(* handlers are the fast driver's and rest at their initial values in the other.  *)
(* A behaviour uses one direction of the UART.                                    *)
EXTENDS JtagUart

VARIABLES small,         \* ALTERA_AVALON_JTAG_UART_SMALL
          left, moved    \* locals of the polled driver

Small == INSTANCE SmallUart
ASSUME SmallAssumption == Small!SmallUartAssumption

fastOnly == << txRing, rxRing, irq_enable, activity, count, done, in, out, handler, ac, connected >>
smallOnly == << small, left, moved >>

UartInit ==
  /\ JtagUartInit
  /\ small \in BOOLEAN /\ left = 0 /\ moved = 0
  /\ small => timeout = INT_MAX /\ connected = TRUE

OneDirection ==
  written' > 0 \/ pc' \in WriteLabels \cup {"write"} => given' = 0

UartNext ==
  /\ \/ small = FALSE /\ JtagUartNext /\ UNCHANGED smallOnly
     \/ small = TRUE /\ Small!SmallUartNext /\ UNCHANGED << fastOnly, small >>
  /\ OneDirection

Build(isSmall, A) == small = isSmall /\ A
UartSpec ==
  /\ UartInit /\ [][UartNext]_<< vars, smallOnly >>
  /\ WF_vars(Build(FALSE, CallStep)) /\ WF_vars(Build(FALSE, IsrEnter))
  /\ WF_vars(Build(FALSE, IsrStep)) /\ WF_vars(Build(FALSE, Timeout))
  /\ SF_vars(Build(FALSE, HostTake))
  /\ WF_Small!vars(Build(TRUE, Small!CallStep)) /\ WF_Small!vars(Build(TRUE, Small!HostTake))

\* Neither direction of the fast driver gets stuck and the device is not overrun.
\* The polled driver cannot return the error that means "host not connected".
NeverStuck ==
  /\ IF small THEN Small!SmallUartTypeOK ELSE JtagUartTypeOK
  /\ FifoNotOverrun /\ TxNotStalled /\ RxNotStalled
  /\ small => Small!NeverEio

\* In both builds each direction is a byte channel: every order of program, handler
\* and host leaves the bytes in order, none lost and none sent twice.
ImplementsChannels == ImplementsTxChannel /\ ImplementsRxChannel

\* In both builds no call hangs and what was written reaches the host: once a finite
\* timeout is set and if the host keeps coming back, or, polled, if it keeps reading.
CallsEnd == WriteEnds /\ ReadEnds /\ TxDelivered /\ Small!WriteEnds
================================================================================
