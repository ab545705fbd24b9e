------------------------------ MODULE DirectFiles ------------------------------
(* The system calls of this build, which has no table of descriptors: the three    *)
(* standard ones are switched straight to the driver of the console, everything    *)
(* else fails.  MCFiles puts the calls of the build with the table beside them.     *)
EXTENDS Integers, Sequences

CONSTANTS Signal, FatalSignal,    \* signals, those that end the program
          Pid                     \* process numbers programs pass
CONSTANTS StdinPresent, StdoutPresent, StderrPresent

SignalAssumption == FatalSignal \subseteq Signal /\ 0 \notin Signal
PresentAssumption == {StdinPresent, StdoutPresent, StderrPresent} \subseteq BOOLEAN

VARIABLES errno, running,
          call     \* the last call: its name (of an ioctl, the request), its argument,
                   \* what it returned and whether it asked the driver

Std == {f \in 0 .. 2 : << StdinPresent, StdoutPresent, StderrPresent >>[f + 1]}

CallsInit ==
  /\ errno = "none" /\ running = TRUE
  /\ call = [name |-> "none", arg |-> 0, ret |-> 0, driver |-> FALSE]

Returns(name, arg, ret, asked) ==
  call' = [name |-> name, arg |-> arg, ret |-> ret, driver |-> asked]
Succeeds(name, arg, ret, asked) == Returns(name, arg, ret, asked) /\ UNCHANGED errno
Fails(name, arg, error) == Returns(name, arg, -1, FALSE) /\ errno' = error

\* The driver's answer is the call's: a number of bytes, or minus an error that never
\* gets to errno.
DriverAnswers(name, file) ==
  \E ret \in {-5, 0, 3} : Succeeds(name, file, ret, TRUE)

Stub(name, arg) == Fails(name, arg, "ENOSYS")

open == Stub("open", 0)
close(file) == Stub("close", file)
lseek(file) == Stub("lseek", file)
execve == Stub("execve", 0)
fork == Stub("fork", 0)
link == Stub("link", 0)
rename == Stub("rename", 0)
unlink == Stub("unlink", 0)

read(file) ==
  \/ file = 0 /\ file \in Std /\ DriverAnswers("read", file)
  \/ ~(file = 0 /\ file \in Std) /\ Fails("read", file, "EBADFD")

WriteAny(file) == DriverAnswers("write", file)     \* mutant: a descriptor is not looked at
write(file) ==
  \/ file \in Std \ {0} /\ DriverAnswers("write", file)
  \/ file \notin Std \ {0} /\ Fails("write", file, "EBADFD")

\* Every request is the driver's, those for exclusive access too.
ioctl(file, req) ==
  \/ file \in Std /\ DriverAnswers(req, file)
  \/ file \notin Std /\ Fails(req, file, "EBADFD")

\* Every descriptor there is is a character device; the others fail without an error.
fstat(file) == Succeeds("fstat", file, IF file \in Std THEN 0 ELSE -1, FALSE)
isatty(file) == Succeeds("isatty", file, IF file \in Std THEN 1 ELSE 0, FALSE)

wait == Fails("wait", 0, "ECHILD")
getpid == Succeeds("getpid", 0, 0, FALSE)

\* There is one process, 0; a signal to it ends the program, is ignored or is unknown.
kill(pid, sig) ==
  \/ pid > 0 /\ Fails("kill", pid, "ESRCH") /\ UNCHANGED running
  \/ pid <= 0 /\ sig \in FatalSignal /\ running' = FALSE /\ Returns("_exit", 0, 0, FALSE) /\ UNCHANGED errno
  \/ pid <= 0 /\ sig \in (Signal \ FatalSignal) \cup {0} /\ Succeeds("kill", pid, 0, FALSE) /\ UNCHANGED running
  \/ pid <= 0 /\ sig \notin Signal \cup {0} /\ Fails("kill", pid, "EINVAL") /\ UNCHANGED running

\* The calls that name no descriptor.
OtherCalls ==
  \/ (open \/ execve \/ fork \/ link \/ rename \/ unlink \/ wait \/ getpid) /\ UNCHANGED running
  \/ \E pid \in Pid, sig \in Signal \cup {0, -1} : kill(pid, sig)
================================================================================
