------------------------------- MODULE FileTable -------------------------------
(* The HAL's file descriptors in the build without direct drivers: devices and     *)
(* file systems register themselves, the standard descriptors are redirected, and  *)
(* the program then opens, uses, locks and closes descriptors.  One thread runs    *)
(* and the semaphore is empty, so a call is one step; what is hard is the order of *)
(* calls.  A program passes the descriptors it holds and what a failed open gave   *)
(* it, -1: the code traps only that one.                                           *)
EXTENDS Integers, Sequences

CONSTANTS ALT_MAX_FD,
          Device, FileSystem,   \* drivers' alt_dev structures
          alt_dev_null,         \* the null device
          None,                 \* no device
          NameOf,               \* device |-> its name, file system |-> where it is mounted
          Op,                   \* device or file system |-> the callbacks it has
          Name,                 \* what programs open: paths, sequences of components
          OpenFlags,            \* flags programs open with
          StdName               \* standard descriptor |-> the device redirection names

Fd == 0 .. ALT_MAX_FD - 1
Driver == Device \cup FileSystem
Callback == {"open", "close", "read", "write", "lseek", "fstat", "ioctl"}
NullCallback == {"write"}      \* of the null device
ALT_FD_FLAGS_MASK == {"EXCL", "DEV"}
O_ACCMODE == {"O_WRONLY", "O_RDWR"}
ALT_FCNTL_FLAGS_MASK == {"O_APPEND", "O_NONBLOCK"}
Flag == ALT_FD_FLAGS_MASK \cup O_ACCMODE \cup ALT_FCNTL_FLAGS_MASK

ASSUME FdAssumption == ALT_MAX_FD \in Nat /\ ALT_MAX_FD > 2
ASSUME DriverAssumption ==
  /\ alt_dev_null \in Device /\ Device \cap FileSystem = {} /\ None \notin Driver
  /\ Op \in [Driver -> SUBSET Callback] /\ Op[alt_dev_null] = NullCallback
ASSUME NameAssumption ==
  /\ DOMAIN NameOf = Driver /\ DOMAIN StdName = 0 .. 2
  /\ \A d \in Driver : NameOf[d] \in Seq(STRING)
  /\ Name \subseteq Seq(STRING) /\ \A f \in 0 .. 2 : StdName[f] \in Seq(STRING)
ASSUME FlagAssumption == OpenFlags \subseteq SUBSET Flag

VARIABLES dev, fd_flags,          \* alt_fd_list
          alt_max_fd,
          alt_dev_list, alt_fs_list,
          phase,                  \* of the start of the system
          call                    \* the last call: what it was, its error or "ok", and
                                  \* the driver's callback it made

table == << dev, fd_flags >>
lists == << alt_dev_list, alt_fs_list >>
vars == << table, alt_max_fd, lists, phase, call >>

Open == {f \in Fd : dev[f] # None}
NoCallback == << "none", -1 >>
Called(name, file, error, callback) ==
  call' = [name |-> name, file |-> file, error |-> error, callback |-> callback]

TableInit ==
  /\ dev = [f \in Fd |-> IF f <= 2 THEN alt_dev_null ELSE None]
  /\ fd_flags = [f \in Fd |-> {}]
  /\ alt_max_fd = -1
  /\ alt_dev_list = << alt_dev_null >> /\ alt_fs_list = << >>
  /\ phase = "init"
  /\ call = [name |-> "none", file |-> -1, error |-> "ok", callback |-> NoCallback]

----------------------------------------------------------------------------
(* alt_sys_init: drivers register themselves, each in front of the list. *)
InList(d, list) == \E i \in DOMAIN list : list[i] = d

alt_dev_llist_insert(d, list) == << d >> \o list

alt_dev_reg(d) ==
  /\ phase = "init" /\ ~InList(d, alt_dev_list)
  /\ alt_dev_list' = alt_dev_llist_insert(d, alt_dev_list)
  /\ Called("alt_dev_reg", -1, "ok", NoCallback)
  /\ UNCHANGED << table, alt_max_fd, alt_fs_list, phase >>

alt_fs_reg(d) ==
  /\ phase = "init" /\ ~InList(d, alt_fs_list)
  /\ alt_fs_list' = alt_dev_llist_insert(d, alt_fs_list)
  /\ Called("alt_fs_reg", -1, "ok", NoCallback)
  /\ UNCHANGED << table, alt_max_fd, alt_dev_list, phase >>

\* The first entry of a list that matches, or None.
FirstIn(list, Match(_)) ==
  LET hits == {i \in DOMAIN list : Match(list[i])} IN
  IF hits = {} THEN None ELSE list[CHOOSE i \in hits : \A j \in hits : i <= j]

\* A device is found by its whole name, a file system by the path it is mounted at.
alt_find_dev(name) == FirstIn(alt_dev_list, LAMBDA d : NameOf[d] = name)
alt_find_file(name) ==
  FirstIn(alt_fs_list, LAMBDA d : /\ Len(NameOf[d]) <= Len(name)
                                  /\ SubSeq(name, 1, Len(NameOf[d])) = NameOf[d])
Find(name) ==
  IF alt_find_dev(name) # None THEN alt_find_dev(name) ELSE alt_find_file(name)

----------------------------------------------------------------------------
(* The table, and what the helpers make of it. *)
Table == [dev |-> dev, flags |-> fd_flags, max |-> alt_max_fd]
SetTable(t) == dev' = t.dev /\ fd_flags' = t.flags /\ alt_max_fd' = t.max

Free(t) == {f \in Fd : t.dev[f] = None}
LowestFree(t) == CHOOSE f \in Free(t) : \A g \in Free(t) : f <= g

\* The two flags of the table's own cannot be passed to open.
NewFlags(d, flags) ==
  (flags \ ALT_FD_FLAGS_MASK) \cup (IF d \in Device THEN {"DEV"} ELSE {})

GetFdNotRaised(t, f, d, flags) ==       \* mutant: compared the wrong way round
  [dev |-> [t.dev EXCEPT ![f] = d], flags |-> [t.flags EXCEPT ![f] = NewFlags(d, flags)],
   max |-> IF f < t.max THEN f ELSE t.max]
alt_get_fd(t, f, d, flags) ==
  [dev |-> [t.dev EXCEPT ![f] = d], flags |-> [t.flags EXCEPT ![f] = NewFlags(d, flags)],
   max |-> IF f > t.max THEN f ELSE t.max]

\* The standard descriptors stay reserved.
alt_release_fd(t, f) ==
  IF f > 2 THEN [dev |-> [t.dev EXCEPT ![f] = None], flags |-> [t.flags EXCEPT ![f] = {}],
                 max |-> t.max]
  ELSE t

LockedAboveStd(t, f) ==        \* mutant: the standard descriptors are not looked at
  \E g \in 3 .. t.max : g # f /\ t.dev[g] = t.dev[f] /\ "EXCL" \in t.flags[g]
alt_file_locked(t, f) ==
  \E g \in 0 .. t.max : g # f /\ t.dev[g] = t.dev[f] /\ "EXCL" \in t.flags[g]

----------------------------------------------------------------------------
(* open, as what it may come to: table, descriptor or -1, error, callback made. *)
Outcome(t, f, error, callback) == [table |-> t, fd |-> f, error |-> error, callback |-> callback]

DriverOpensKeeps(t, f, d) ==     \* mutant: a refused descriptor is not released
  IF "open" \in Op[d]
  THEN {Outcome(t, f, "ok", << "open", f >>), Outcome(t, -1, "refused", << "open", f >>)}
  ELSE {Outcome(t, f, "ok", NoCallback)}
\* The driver's open() may refuse.
DriverOpens(t, f, d) ==
  IF "open" \in Op[d]
  THEN {Outcome(t, f, "ok", << "open", f >>),
        Outcome(alt_release_fd(t, f), -1, "refused", << "open", f >>)}
  ELSE {Outcome(t, f, "ok", NoCallback)}

Opened(t, name, flags) ==
  LET d == Find(name)
      f == LowestFree(t)
      new == alt_get_fd(t, f, d, flags)
  IN IF d = None THEN {Outcome(t, -1, "ENODEV", NoCallback)}
     ELSE IF Free(t) = {} THEN {Outcome(t, -1, "EMFILE", NoCallback)}
     ELSE IF alt_find_dev(name) # None /\ alt_file_locked(new, f)
          THEN {Outcome(alt_release_fd(new, f), -1, "EACCES", NoCallback)}
     ELSE DriverOpens(new, f, d)

ALT_OPEN(name, flags) ==
  /\ phase = "run"
  /\ \E o \in Opened(Table, name, flags) :
       SetTable(o.table) /\ Called("open", o.fd, o.error, o.callback)
  /\ UNCHANGED << lists, phase >>

----------------------------------------------------------------------------
(* alt_main: stdout, stdin and stderr are redirected in this order.  A descriptor *)
(* is opened, copied over the standard one and released without being closed.     *)
alt_open_fd(std, name, flags, from, to) ==
  /\ phase = from /\ phase' = to
  /\ \E o \in Opened(Table, name, flags) :
       /\ SetTable(IF o.fd < 0 THEN o.table
                   ELSE alt_release_fd(
                          [dev |-> [o.table.dev EXCEPT ![std] = o.table.dev[o.fd]],
                           flags |-> [o.table.flags EXCEPT ![std] = o.table.flags[o.fd]],
                           max |-> o.table.max], o.fd))
       /\ Called("redirect", std, o.error, o.callback)
  /\ UNCHANGED lists

alt_io_redirect(stdout_dev, stdin_dev, stderr_dev) ==
  \/ alt_open_fd(1, stdout_dev, {"O_WRONLY"}, "init", "stdin")
  \/ alt_open_fd(0, stdin_dev, {}, "stdin", "stderr")
  \/ alt_open_fd(2, stderr_dev, {"O_WRONLY"}, "stderr", "run")

----------------------------------------------------------------------------
(* The calls on a descriptor. *)
Using(f) == phase \in {"init", "run"} /\ f \in Open
Same == UNCHANGED << table, alt_max_fd, lists, phase >>
DriverAnswer == {"ok", "refused"}

\* What is asked of the driver if it has the callback, else the error in its place.
Asks(name, f, op, otherwise) ==
  /\ \/ /\ op \in Op[dev[f]]
        /\ \E answer \in DriverAnswer : Called(name, f, answer, << op, f >>)
     \/ op \notin Op[dev[f]] /\ Called(name, f, otherwise, NoCallback)
  /\ Same

ALT_CLOSE(f) ==
  /\ Using(f) /\ phase = "run"
  /\ \E answer \in IF "close" \in Op[dev[f]] THEN DriverAnswer ELSE {"ok"} :
       Called("close", f, answer,
              IF "close" \in Op[dev[f]] THEN << "close", f >> ELSE NoCallback)
  /\ SetTable(alt_release_fd(Table, f))
  /\ UNCHANGED << lists, phase >>

Readable(f) == fd_flags[f] \cap O_ACCMODE # {"O_WRONLY"}
Writeable(f) == fd_flags[f] \cap O_ACCMODE # {}

ALT_READ(f) ==
  /\ Using(f)
  /\ \/ Readable(f) /\ Asks("read", f, "read", "EACCES")
     \/ ~Readable(f) /\ Called("read", f, "EACCES", NoCallback) /\ Same

ALT_WRITE(f) ==
  /\ Using(f)
  /\ \/ Writeable(f) /\ Asks("write", f, "write", "EACCES")
     \/ ~Writeable(f) /\ Called("write", f, "EACCES", NoCallback) /\ Same

ALT_LSEEK(f) == Using(f) /\ Asks("lseek", f, "lseek", "ENOTSUP")
\* Without fstat() in the driver a descriptor is a character device, a terminal.
ALT_FSTAT(f) == Using(f) /\ Asks("fstat", f, "fstat", "ok")
ALT_ISATTY(f) == Using(f) /\ Asks("isatty", f, "fstat", "ok")

SetFl(old, flags) ==
  (old \ ALT_FCNTL_FLAGS_MASK) \cup (flags \cap ALT_FCNTL_FLAGS_MASK)

\* F_SETFL; F_GETFL changes nothing and any other command is refused.
ALT_FCNTL(f) ==
  /\ Using(f)
  /\ \/ /\ \E flags \in OpenFlags : fd_flags' = [fd_flags EXCEPT ![f] = SetFl(@, flags)]
        /\ Called("fcntl", f, "ok", NoCallback)
        /\ UNCHANGED << dev, alt_max_fd, lists, phase >>
     \/ \E error \in {"ok", "EINVAL"} : Called("fcntl", f, error, NoCallback) /\ Same

\* The last descriptor ever allocated is not looked at.
alt_fd_lock(f) == \A g \in 0 .. alt_max_fd - 1 : g # f => dev[g] # dev[f]

\* ioctl(TIOCEXCL)
Lock(f) ==
  /\ Using(f) /\ "DEV" \in fd_flags[f]
  /\ \/ /\ alt_fd_lock(f)
        /\ fd_flags' = [fd_flags EXCEPT ![f] = @ \cup {"EXCL"}]
        /\ Called("lock", f, "ok", NoCallback)
        /\ UNCHANGED << dev, alt_max_fd, lists, phase >>
     \/ ~alt_fd_lock(f) /\ Called("lock", f, "EACCES", NoCallback) /\ Same

\* ioctl(TIOCNXCL)
alt_fd_unlock(f) ==
  /\ Using(f) /\ "DEV" \in fd_flags[f]
  /\ fd_flags' = [fd_flags EXCEPT ![f] = @ \ {"EXCL"}]
  /\ Called("unlock", f, "ok", NoCallback)
  /\ UNCHANGED << dev, alt_max_fd, lists, phase >>

ALT_IOCTL(f) == Using(f) /\ Asks("ioctl", f, "ioctl", "ENOTTY")

\* stat opens the file, asks for its status and closes it again, whatever came of
\* the open: on -1 the other two calls fail too.
ALT_STAT(name) ==
  /\ phase = "run"
  /\ \E o \in Opened(Table, name, {}) :
       /\ SetTable(alt_release_fd(o.table, o.fd))
       /\ Called("stat", -1, IF o.fd < 0 THEN "EBADFD" ELSE "ok", NoCallback)
  /\ UNCHANGED << lists, phase >>

\* Every call that takes a descriptor traps the -1 of a failed open.
BadDescriptor ==
  /\ phase = "run" /\ Called("any", -1, "EBADFD", NoCallback) /\ Same

TableNext ==
  \/ \E d \in Device : alt_dev_reg(d)
  \/ \E d \in FileSystem : alt_fs_reg(d)
  \/ alt_io_redirect(StdName[1], StdName[0], StdName[2])
  \/ \E name \in Name : ALT_STAT(name) \/ \E flags \in OpenFlags : ALT_OPEN(name, flags)
  \/ \E f \in Fd :
       \/ ALT_CLOSE(f) \/ ALT_READ(f) \/ ALT_WRITE(f) \/ ALT_LSEEK(f) \/ ALT_FSTAT(f)
       \/ ALT_ISATTY(f) \/ ALT_FCNTL(f) \/ Lock(f) \/ alt_fd_unlock(f) \/ ALT_IOCTL(f)
  \/ BadDescriptor

TableSpec == TableInit /\ [][TableNext]_vars

----------------------------------------------------------------------------
TableTypeOK ==
  /\ dev \in [Fd -> Driver \cup {None}] /\ fd_flags \in [Fd -> SUBSET Flag]
  /\ alt_max_fd \in {-1} \cup Fd
  /\ \A f \in Fd : "DEV" \in fd_flags[f] => dev[f] \in Device
  /\ phase \in {"init", "stdin", "stderr", "run"}

\* What the search for a lock rests on: no open descriptor lies above alt_max_fd,
\* though it is never lowered and does not count the standard ones.
OpenBelowMax == \A f \in Open : f > 2 => f <= alt_max_fd

\* The standard descriptors can always be used, and a free descriptor carries no
\* flag into its next use.
PoolClean ==
  \A f \in Fd : (f <= 2 => dev[f] # None) /\ (dev[f] = None => fd_flags[f] = {})

\* Exclusive access is a matter of devices only: whatever flags programs pass, a
\* file of a file system is never locked here.
OnlyDevicesLocked == \A f \in Fd : "EXCL" \in fd_flags[f] => dev[f] \in Device

\* Opening, closing and locking are those of the abstract pool: in particular no
\* device is opened while it is locked through another descriptor.
Pool == INSTANCE FdPool WITH
  NullDevice <- alt_dev_null, open <- [f \in Open |-> dev[f]],
  locked <- {f \in Fd : "EXCL" \in fd_flags[f]}
ImplementsFdPool == Pool!PoolSpec

\* A call that fails leaves the table as it was, and stat() always does.  (A close
\* that the driver refuses still gives the descriptor back.)
FailureChangesNothing ==
  [][(call'.error # "ok" /\ call'.name # "close") \/ call'.name = "stat" => UNCHANGED table]_vars

\* "All other flags remain unchanged": while a descriptor stays open, only fcntl's
\* two flags and the lock change; its access mode is that of its open().
AccessKept ==
  [][\A f \in Open : phase = "run" /\ dev'[f] # None =>
       fd_flags'[f] \cap (O_ACCMODE \cup {"DEV"}) = fd_flags[f] \cap (O_ACCMODE \cup {"DEV"})]_vars

\* The table's invariants: what the search for a lock rests on, the standard
\* descriptors kept, no flag left over, no file locked.
TableInv == TableTypeOK /\ OpenBelowMax /\ PoolClean /\ OnlyDevicesLocked

\* A call that fails leaves the table alone, and an open descriptor's access mode is
\* that of its open().
CallsKeepTable == FailureChangesNothing /\ AccessKept
================================================================================
