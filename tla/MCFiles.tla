-------------------------------- MODULE MCFiles --------------------------------
(* The two builds of the system calls on files.  "table": a console with the        *)
(* callbacks of the fast JTAG UART driver and a file system that may refuse an       *)
(* open, stdin and stderr staying at the null device.  "both": one program in the    *)
(* build without the table and, beside it, in the build with the table, the console  *)
(* at all three standard descriptors as in this BSP; 6 is SIGABRT and 17 a signal     *)
(* that is ignored.                                                                  *)
EXTENDS FileTable, TLC

CONSTANTS uart, fs,
          Signal, FatalSignal, Pid, File,
          StdinPresent, StdoutPresent, StderrPresent

VARIABLES build, errno, running, direct_call

Direct == INSTANCE DirectFiles WITH call <- direct_call
\* The console is at all three descriptors, with the fast JTAG UART driver's callbacks
\* and a name of its own.
ASSUME FilesAssumption ==
  /\ Direct!SignalAssumption /\ Direct!PresentAssumption
  /\ StdinPresent /\ StdoutPresent /\ StderrPresent
  /\ uart \in Device \ {alt_dev_null} /\ Op[uart] = {"read", "write", "close", "ioctl"}
  /\ \A d \in Device : NameOf[d] = NameOf[uart] => d = uart
  /\ ALT_MAX_FD > 3

MCNameOf == (uart :> << "dev", "uart" >>) @@ (fs :> << "mnt" >>)
            @@ (alt_dev_null :> << "dev", "null" >>)
MCOp == (uart :> {"read", "write", "close", "ioctl"}) @@ (fs :> {"open", "read", "lseek", "fstat"})
        @@ (alt_dev_null :> {"write"})
MCName == {<< "dev", "uart" >>, << "mnt", "a" >>, << "b" >>}
MCOpenFlags == {{}, {"O_RDWR", "O_NONBLOCK", "EXCL"}}
MCStdName == [f \in 0 .. 2 |-> IF f = 1 THEN << "dev", "uart" >> ELSE << "b" >>]
MCPid == {-1, 0, 1}
MCFile == -1 .. 3

directVars == << errno, running, direct_call >>

FilesInit == build \in {"table", "both"} /\ TableInit /\ Direct!CallsInit

\* The start of the build with the table: all devices, then the redirection.
BringUp ==
  \/ \E d \in Device : alt_dev_reg(d)
  \/ \E d \in FileSystem : alt_fs_reg(d)
  \/ InList(uart, alt_dev_list) /\ alt_io_redirect(NameOf[uart], NameOf[uart], NameOf[uart])

Asked == direct_call.driver
TableAsked == call.callback # NoCallback
Succeeded == IF direct_call.name = "isatty" THEN direct_call.ret = 1 ELSE direct_call.ret >= 0
TableSucceeded == call.error = "ok"

\* The same call with the table: on a standard descriptor and on -1; of another one the
\* table knows no device.  The one driver gives both builds the same answer.
Beside(f, withTable) ==
  /\ \/ f \in 0 .. 2 /\ withTable
     \/ f = -1 /\ BadDescriptor
     \/ f \notin -1 .. 2 /\ UNCHANGED vars
  /\ Asked' /\ TableAsked' => (Succeeded' <=> TableSucceeded')

Exclusive == {"TIOCEXCL", "TIOCNXCL"}
DriverRequest == {"TIOCSTIMEOUT", "TIOCGCONNECTED"}

OnDescriptor(f) ==
  \/ Direct!read(f) /\ Beside(f, ALT_READ(f))
  \/ Direct!write(f) /\ Beside(f, ALT_WRITE(f))
  \/ \E req \in DriverRequest : Direct!ioctl(f, req) /\ Beside(f, ALT_IOCTL(f))
  \/ Direct!ioctl(f, "TIOCEXCL") /\ Beside(f, Lock(f))
  \/ Direct!ioctl(f, "TIOCNXCL") /\ Beside(f, alt_fd_unlock(f))
  \/ Direct!fstat(f) /\ Beside(f, ALT_FSTAT(f))
  \/ Direct!isatty(f) /\ Beside(f, ALT_ISATTY(f))
  \/ Direct!lseek(f) /\ Beside(f, ALT_LSEEK(f))
  \/ Direct!close(f) /\ Beside(f, ALT_CLOSE(f))

\* What an open comes to with the table is the subject of the other build's behaviours.
BothCall ==
  /\ phase = "run" /\ running
  /\ \/ (\E f \in File : OnDescriptor(f)) /\ UNCHANGED running
     \/ Direct!OtherCalls /\ UNCHANGED vars

FilesNext ==
  /\ \/ build = "table" /\ TableNext /\ UNCHANGED directVars
     \/ build = "both" /\ BringUp /\ UNCHANGED directVars
     \/ build = "both" /\ BothCall
  /\ UNCHANGED build
FilesSpec == FilesInit /\ [][FilesNext]_<< build, vars, directVars >>

Alike == {"read", "write", "fstat", "isatty", "lseek"} \cup DriverRequest

\* A program with its three descriptors at the console makes these calls alike in both
\* builds: on those descriptors and on -1 each reaches the driver with the table if and
\* only if it does without, and succeeds if and only if it does there.  Requests for
\* exclusive access tell the builds apart: without the table the driver is asked, with it
\* never.  (So do open and close, which always fail without it, and errno.)
AsWithTable ==
  /\ direct_call.name \in Alike /\ direct_call.arg \in -1 .. 2 =>
       (Asked <=> TableAsked) /\ (Succeeded <=> TableSucceeded)
  /\ direct_call.name \in Exclusive /\ direct_call.arg \in 0 .. 2 => Asked /\ ~TableAsked
================================================================================
