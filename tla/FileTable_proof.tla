---------------------------- MODULE FileTable_proof ----------------------------
(* The table of descriptors for any number of descriptors, devices and file        *)
(* systems: its invariants, what a call may change, and that it is the pool of     *)
(* FdPool; and the build without a table, which makes the same calls beside it.    *)
EXTENDS MCFiles, TLAPS, SequenceTheorems, WellFoundedInduction

Lists == alt_dev_list \in Seq(Device) /\ alt_fs_list \in Seq(FileSystem)

\* Nothing is locked before the program runs: until the first redirection no
\* descriptor is marked as a device's, and during redirection nobody locks.
NotYetLocked ==
  /\ phase = "init" => \A f \in Fd : "DEV" \notin fd_flags[f]
  /\ phase # "run" => \A f \in Fd : "EXCL" \notin fd_flags[f]

Inv == TableInv /\ Lists /\ NotYetLocked

\* What opening a file comes to: nothing but a higher mark, or the lowest free
\* descriptor given to a driver that no other descriptor has locked.
MaxGrown(max) == max \in {-1} \cup Fd /\ max >= alt_max_fd
Refused(o) ==
  /\ o.fd = -1 /\ o.error # "ok"
  /\ o.table.dev = dev /\ o.table.flags = fd_flags /\ MaxGrown(o.table.max)
Unlocked(d, f) == \A g \in Fd : g # f /\ "EXCL" \in fd_flags[g] => dev[g] # d
LowestOf(f) == f \in Fd /\ f > 2 /\ dev[f] = None /\ \A g \in Fd : dev[g] = None => f <= g
Given(o, d, flags) ==
  /\ LowestOf(o.fd) /\ o.error = "ok"
  /\ o.table.dev = [dev EXCEPT ![o.fd] = d]
  /\ o.table.flags = [fd_flags EXCEPT ![o.fd] = NewFlags(d, flags)]
  /\ MaxGrown(o.table.max) /\ o.fd <= o.table.max
  /\ d \in Device => Unlocked(d, o.fd)

----------------------------------------------------------------------------
LEMMA Smallest ==
  ASSUME NEW set, set \subseteq Nat, set # {}
  PROVE  \E i \in set : \A j \in set : i <= j
<1> DEFINE R == {ss \in Nat \X Nat : ss[1] < ss[2]}
<1>1. IsWellFoundedOn(R, Nat)
  BY NatLessThanWellFounded, Zenon DEF OpToRel
<1>2. PICK i \in set : \A j \in set : ~(<< j, i >> \in R)
  <2> HIDE DEF R
  <2>1. QED
    BY <1>1, WFMin
<1>3. ASSUME NEW j \in set PROVE i <= j
  <2>1. i \in Nat /\ j \in Nat /\ ~(<< j, i >> \in R)
    BY <1>2
  <2>2. QED
    BY <2>1
<1>4. QED
  BY <1>3

LEMMA FdType == Fd \subseteq Nat /\ {0, 1, 2} \subseteq Fd /\ -1 \notin Fd
BY FdAssumption DEF Fd

\* The first of a list that matches is in the list.
LEMMA FirstOf ==
  ASSUME NEW D, NEW list \in Seq(D), NEW hits, hits \subseteq DOMAIN list, hits # {}
  PROVE  list[CHOOSE i \in hits : \A j \in hits : i <= j] \in D
<1>1. Len(list) \in Nat /\ DOMAIN list = 1 .. Len(list)
  BY LenProperties
<1>2. hits \subseteq Nat
  BY <1>1
<1>3. \E i \in hits : \A j \in hits : i <= j
  BY <1>2, Smallest
<1>4. (CHOOSE i \in hits : \A j \in hits : i <= j) \in hits
  BY <1>3
<1>5. QED
  BY <1>1, <1>4, ElementOfSeq

\* Devices are found among the devices, files among the file systems.
LEMMA FindType ==
  ASSUME Inv, NEW name
  PROVE  /\ alt_find_dev(name) \in Device \cup {None}
         /\ alt_find_file(name) \in FileSystem \cup {None}
<1>1. alt_find_dev(name) \in Device \cup {None}
  <2> DEFINE hits == {i \in DOMAIN alt_dev_list : NameOf[alt_dev_list[i]] = name}
  <2>1. alt_find_dev(name) =
          IF hits = {} THEN None ELSE alt_dev_list[CHOOSE i \in hits : \A j \in hits : i <= j]
    BY DEF alt_find_dev, FirstIn
  <2>2. hits \subseteq DOMAIN alt_dev_list /\ alt_dev_list \in Seq(Device)
    BY DEF Inv, Lists
  <2> HIDE DEF hits
  <2>3. hits # {} => alt_dev_list[CHOOSE i \in hits : \A j \in hits : i <= j] \in Device
    BY <2>2, FirstOf
  <2>4. QED
    BY <2>1, <2>3
<1>2. alt_find_file(name) \in FileSystem \cup {None}
  <2> DEFINE Mounted(d) == /\ Len(NameOf[d]) <= Len(name)
                           /\ SubSeq(name, 1, Len(NameOf[d])) = NameOf[d]
             hits == {i \in DOMAIN alt_fs_list : Mounted(alt_fs_list[i])}
  <2>1. alt_find_file(name) =
          IF hits = {} THEN None ELSE alt_fs_list[CHOOSE i \in hits : \A j \in hits : i <= j]
    BY DEF alt_find_file, FirstIn
  <2>2. hits \subseteq DOMAIN alt_fs_list /\ alt_fs_list \in Seq(FileSystem)
    BY DEF Inv, Lists
  <2> HIDE DEF hits
  <2>3. hits # {} => alt_fs_list[CHOOSE i \in hits : \A j \in hits : i <= j] \in FileSystem
    BY <2>2, FirstOf
  <2>4. QED
    BY <2>1, <2>3
<1>3. QED
  BY <1>1, <1>2

LEMMA LowestIsFree ==
  ASSUME Inv, Free(Table) # {}
  PROVE  LowestOf(LowestFree(Table))
<1>1. Free(Table) = {f \in Fd : dev[f] = None}
  BY DEF Free, Table
<1>2. Free(Table) \subseteq Nat
  BY <1>1, FdType
<1>3. \E i \in Free(Table) : \A j \in Free(Table) : i <= j
  BY <1>2, Smallest
<1>4. LowestFree(Table) \in Free(Table) /\ \A g \in Free(Table) : LowestFree(Table) <= g
  BY <1>3 DEF LowestFree
<1> DEFINE f == LowestFree(Table)
<1>5. f \in Fd /\ f \in Nat /\ dev[f] = None
  BY <1>1, <1>4, FdType
<1>6. f > 2
  BY <1>5 DEF Inv, TableInv, PoolClean
<1>7. QED
  BY <1>1, <1>4, <1>5, <1>6 DEF LowestOf

\* A descriptor that is allocated and given back leaves the table as it was, but for
\* the mark.
LEMMA TakenBack ==
  ASSUME Inv, NEW f, LowestOf(f), NEW d \in Driver, NEW flags,
         NEW new, new = alt_get_fd(Table, f, d, flags)
  PROVE  /\ new.dev = [dev EXCEPT ![f] = d]
         /\ new.flags = [fd_flags EXCEPT ![f] = NewFlags(d, flags)]
         /\ MaxGrown(new.max) /\ f <= new.max
         /\ alt_release_fd(new, f).dev = dev /\ alt_release_fd(new, f).flags = fd_flags
         /\ alt_release_fd(new, f).max = new.max
<1>1. /\ new.dev = [dev EXCEPT ![f] = d]
      /\ new.flags = [fd_flags EXCEPT ![f] = NewFlags(d, flags)]
      /\ new.max = IF f > alt_max_fd THEN f ELSE alt_max_fd
  BY DEF alt_get_fd, Table
<1>2. f \in Fd /\ f > 2 /\ f \in Nat /\ dev[f] = None /\ fd_flags[f] = {}
  BY FdType DEF LowestOf, Inv, TableInv, PoolClean
<1>3. dev \in [Fd -> Driver \cup {None}] /\ fd_flags \in [Fd -> SUBSET Flag] /\ alt_max_fd \in {-1} \cup Fd
  BY DEF Inv, TableInv, TableTypeOK
<1>4. alt_max_fd \in Int
  BY <1>3, FdType
<1>5. MaxGrown(new.max) /\ f <= new.max
  BY <1>1, <1>2, <1>3, <1>4 DEF MaxGrown
<1>6. alt_release_fd(new, f) =
        [dev |-> [new.dev EXCEPT ![f] = None], flags |-> [new.flags EXCEPT ![f] = {}], max |-> new.max]
  BY <1>2 DEF alt_release_fd
<1>7. [new.dev EXCEPT ![f] = None] = dev /\ [new.flags EXCEPT ![f] = {}] = fd_flags
  BY <1>1, <1>2, <1>3
<1>8. QED
  BY <1>1, <1>5, <1>6, <1>7

\* The search for a lock looks at every descriptor that may hold one.
LEMMA NobodyLocked ==
  ASSUME Inv, NEW f, LowestOf(f), NEW d, NEW flags, NEW new,
         new.dev = [dev EXCEPT ![f] = d], new.flags = [fd_flags EXCEPT ![f] = flags],
         MaxGrown(new.max), f <= new.max, ~alt_file_locked(new, f)
  PROVE  Unlocked(d, f)
<1> SUFFICES ASSUME NEW g \in Fd, g # f, "EXCL" \in fd_flags[g], dev[g] = d PROVE FALSE
  BY DEF Unlocked
<1>1. f \in Fd /\ f > 2 /\ f \in Nat /\ g \in Nat
  BY FdType DEF LowestOf
<1>2. dev \in [Fd -> Driver \cup {None}] /\ fd_flags \in [Fd -> SUBSET Flag] /\ alt_max_fd \in {-1} \cup Fd
  BY DEF Inv, TableInv, TableTypeOK
<1>3. dev[g] # None
  BY DriverAssumption DEF Inv, TableInv, OnlyDevicesLocked, Driver
<1>4. g > 2 => g <= alt_max_fd
  BY <1>3 DEF Inv, TableInv, OpenBelowMax, Open
<1>5. alt_max_fd \in Int /\ new.max \in Int /\ new.max >= alt_max_fd
  <2>1. \A max \in {-1} \cup Fd : max \in Int
    BY FdType
  <2>2. new.max \in {-1} \cup Fd /\ new.max >= alt_max_fd
    BY DEF MaxGrown
  <2>3. QED
    BY <1>2, <2>1, <2>2
<1>6. g \in 0 .. new.max
  BY <1>1, <1>4, <1>5
<1>7. new.dev[g] = new.dev[f] /\ "EXCL" \in new.flags[g]
  BY <1>1, <1>2
<1>8. QED
  BY <1>6, <1>7 DEF alt_file_locked

LEMMA OpenedIs ==
  ASSUME Inv, NEW name, NEW flags, NEW o \in Opened(Table, name, flags)
  PROVE  Refused(o) \/ \E d \in Driver : Given(o, d, flags)
<1> DEFINE d == Find(name)
           f == LowestFree(Table)
           new == alt_get_fd(Table, f, d, flags)
<1>1. o \in IF d = None THEN {Outcome(Table, -1, "ENODEV", NoCallback)}
            ELSE IF Free(Table) = {} THEN {Outcome(Table, -1, "EMFILE", NoCallback)}
            ELSE IF alt_find_dev(name) # None /\ alt_file_locked(new, f)
                 THEN {Outcome(alt_release_fd(new, f), -1, "EACCES", NoCallback)}
            ELSE DriverOpens(new, f, d)
  BY DEF Opened
<1>2. d \in Driver \cup {None} /\ (d \in Device => d # None /\ alt_find_dev(name) # None)
  BY FindType, DriverAssumption DEF Find, Driver
<1>3. CASE d = None \/ Free(Table) = {}
  <2>1. o.fd = -1 /\ o.error \in {"ENODEV", "EMFILE"} /\ o.table = Table
    BY <1>1, <1>3 DEF Outcome
  <2>2. alt_max_fd \in {-1} \cup Fd /\ alt_max_fd >= alt_max_fd
    BY FdType DEF Inv, TableInv, TableTypeOK
  <2>3. QED
    BY <2>1, <2>2 DEF Refused, MaxGrown, Table
<1>4. CASE d # None /\ Free(Table) # {}
  <2>1. LowestOf(f) /\ d \in Driver
    BY <1>2, <1>4, LowestIsFree
  <2> HIDE DEF d, f
  <2>2. /\ new.dev = [dev EXCEPT ![f] = d]
        /\ new.flags = [fd_flags EXCEPT ![f] = NewFlags(d, flags)]
        /\ MaxGrown(new.max) /\ f <= new.max
        /\ alt_release_fd(new, f).dev = dev /\ alt_release_fd(new, f).flags = fd_flags
        /\ alt_release_fd(new, f).max = new.max
    BY <2>1, TakenBack
  <2> HIDE DEF new
  <2>3. CASE alt_find_dev(name) # None /\ alt_file_locked(new, f)
    <3>1. o.fd = -1 /\ o.error = "EACCES" /\ o.table = alt_release_fd(new, f)
      BY <1>1, <1>4, <2>3 DEF Outcome
    <3>2. QED
      BY <2>2, <3>1 DEF Refused
  <2>4. CASE ~(alt_find_dev(name) # None /\ alt_file_locked(new, f))
    <3>1. o \in DriverOpens(new, f, d)
      BY <1>1, <1>4, <2>4
    <3>2. \/ o.fd = f /\ o.error = "ok" /\ o.table = new
          \/ o.fd = -1 /\ o.error = "refused" /\ o.table = alt_release_fd(new, f)
      BY <3>1 DEF DriverOpens, Outcome
    <3>3. d \in Device => Unlocked(d, f)
      BY <1>2, <2>1, <2>2, <2>4, NobodyLocked
    <3>4. CASE o.fd = f /\ o.error = "ok" /\ o.table = new
      BY <2>1, <2>2, <3>3, <3>4 DEF Given
    <3>5. CASE o.fd = -1 /\ o.error = "refused" /\ o.table = alt_release_fd(new, f)
      BY <2>2, <3>5 DEF Refused
    <3>6. QED
      BY <3>2, <3>4, <3>5
  <2>5. QED
    BY <2>3, <2>4
<1>5. QED
  BY <1>3, <1>4

----------------------------------------------------------------------------
(* What the steps do to the table. *)
Phase == {"init", "stdin", "stderr", "run"}
\* The start of the system goes forward.
PhaseStep ==
  /\ phase' \in Phase
  /\ phase' = "init" => phase = "init"
  /\ phase' # "run" => phase # "run"

\* One descriptor is given another driver or other flags.
Entry(f, d, flags) ==
  dev' = [dev EXCEPT ![f] = d] /\ fd_flags' = [fd_flags EXCEPT ![f] = flags]

LEMMA Kept_Inv ==
  ASSUME Inv, UNCHANGED table, MaxGrown(alt_max_fd'), Lists', PhaseStep
  PROVE  Inv'
<1>1. dev' = dev /\ fd_flags' = fd_flags
  BY DEF table
<1>2. TableTypeOK'
  BY <1>1 DEF Inv, TableInv, TableTypeOK, MaxGrown, PhaseStep, Phase
<1>3. OpenBelowMax'
  <2>1. SUFFICES ASSUME NEW f \in Fd, dev[f] # None, f > 2 PROVE f <= alt_max_fd'
    BY <1>1 DEF OpenBelowMax, Open
  <2>2. f <= alt_max_fd /\ alt_max_fd' >= alt_max_fd
    BY <2>1 DEF Inv, TableInv, OpenBelowMax, Open, MaxGrown
  <2>3. \A max \in {-1} \cup Fd : max \in Int
    BY FdType
  <2>4. alt_max_fd \in Int /\ alt_max_fd' \in Int /\ f \in Int
    BY <2>3 DEF Inv, TableInv, TableTypeOK, MaxGrown
  <2>5. QED
    BY <2>2, <2>4
<1>4. PoolClean' /\ OnlyDevicesLocked'
  BY <1>1 DEF Inv, TableInv, PoolClean, OnlyDevicesLocked
<1>5. NotYetLocked'
  BY <1>1 DEF Inv, NotYetLocked, PhaseStep
<1>6. QED
  BY <1>2, <1>3, <1>4, <1>5 DEF Inv, TableInv

LEMMA Entry_Inv ==
  ASSUME Inv, NEW f \in Fd, NEW d \in Driver \cup {None}, NEW flags \in SUBSET Flag,
         Entry(f, d, flags), MaxGrown(alt_max_fd'), Lists', PhaseStep,
         flags \cap ALT_FD_FLAGS_MASK # {} => d \in Device,
         f <= 2 => d # None, f > 2 /\ d # None => f <= alt_max_fd', d = None => flags = {},
         phase' = "init" => "DEV" \notin flags, phase' # "run" => "EXCL" \notin flags
  PROVE  Inv'
<1>1. /\ dev \in [Fd -> Driver \cup {None}] /\ fd_flags \in [Fd -> SUBSET Flag]
      /\ alt_max_fd \in {-1} \cup Fd
  BY DEF Inv, TableInv, TableTypeOK
<1>2. /\ dev' \in [Fd -> Driver \cup {None}] /\ fd_flags' \in [Fd -> SUBSET Flag]
      /\ dev'[f] = d /\ fd_flags'[f] = flags
      /\ \A g \in Fd : g # f => dev'[g] = dev[g] /\ fd_flags'[g] = fd_flags[g]
  BY <1>1 DEF Entry
<1>3. ("DEV" \in flags \/ "EXCL" \in flags) => d \in Device
  BY DEF ALT_FD_FLAGS_MASK
<1>4. TableTypeOK'
  BY <1>2, <1>3 DEF Inv, TableInv, TableTypeOK, MaxGrown, PhaseStep, Phase
<1>5. OpenBelowMax'
  <2>1. SUFFICES ASSUME NEW g \in Fd, dev'[g] # None, g > 2 PROVE g <= alt_max_fd'
    BY DEF OpenBelowMax, Open
  <2>2. CASE g = f
    BY <1>2, <2>1, <2>2
  <2>3. CASE g # f
    <3>1. g <= alt_max_fd /\ alt_max_fd' >= alt_max_fd
      BY <1>2, <2>1, <2>3 DEF Inv, TableInv, OpenBelowMax, Open, MaxGrown
    <3>2. \A max \in {-1} \cup Fd : max \in Int
      BY FdType
    <3>3. alt_max_fd \in Int /\ alt_max_fd' \in Int /\ g \in Int
      BY <1>1, <3>2 DEF MaxGrown
    <3>4. QED
      BY <3>1, <3>3
  <2>4. QED
    BY <2>2, <2>3
<1>6. PoolClean' /\ OnlyDevicesLocked'
  BY <1>2, <1>3 DEF Inv, TableInv, PoolClean, OnlyDevicesLocked
<1>7. NotYetLocked'
  BY <1>2 DEF Inv, NotYetLocked, PhaseStep
<1>8. QED
  BY <1>4, <1>5, <1>6, <1>7 DEF Inv, TableInv

----------------------------------------------------------------------------
(* What they do to the pool. *)
PoolStep == [Pool!PoolNext]_<< [f \in Open |-> dev[f]], {f \in Fd : "EXCL" \in fd_flags[f]} >>

LEMMA Kept_Pool ==
  ASSUME UNCHANGED table
  PROVE  PoolStep
<1>1. dev' = dev /\ fd_flags' = fd_flags
  BY DEF table
<1>2. Open' = Open
  BY <1>1 DEF Open
<1>3. QED
  BY <1>1, <1>2 DEF PoolStep

LEMMA EntryIs ==
  ASSUME Inv, NEW f \in Fd, NEW d, NEW flags, Entry(f, d, flags)
  PROVE  /\ dev'[f] = d /\ fd_flags'[f] = flags
         /\ \A g \in Fd : g # f => dev'[g] = dev[g] /\ fd_flags'[g] = fd_flags[g]
BY DEF Entry, Inv, TableInv, TableTypeOK

LEMMA Take_Pool ==
  ASSUME Inv, NEW f, LowestOf(f), NEW d \in Driver, NEW flags, "EXCL" \notin flags,
         Entry(f, d, flags), d \in Device => Unlocked(d, f)
  PROVE  PoolStep
<1>1. f \in Fd /\ dev[f] = None /\ fd_flags[f] = {}
  BY DEF LowestOf, Inv, TableInv, PoolClean
<1>2. /\ dev'[f] = d /\ fd_flags'[f] = flags
      /\ \A g \in Fd : g # f => dev'[g] = dev[g] /\ fd_flags'[g] = fd_flags[g]
  BY <1>1, EntryIs
<1>3. d # None
  BY DriverAssumption
<1>4. Open' = Open \cup {f} /\ f \notin Open
  BY <1>1, <1>2, <1>3 DEF Open
<1>5. {g \in Fd : "EXCL" \in fd_flags'[g]} = {g \in Fd : "EXCL" \in fd_flags[g]}
  BY <1>1, <1>2
<1>6. [g \in Open' |-> dev'[g]] = [g \in Open \cup {f} |-> IF g = f THEN d ELSE dev[g]]
  BY <1>2, <1>4 DEF Open
<1>7. Pool!LowestFree(f)
  BY <1>1, <1>4 DEF Pool!LowestFree, LowestOf, Open
<1>8. \A g \in {g \in Fd : "EXCL" \in fd_flags[g]} : g \in Open
  BY DriverAssumption DEF Inv, TableInv, OnlyDevicesLocked, Open, Driver
<1>9. Pool!Take(f, d)
  BY <1>1, <1>4, <1>5, <1>6, <1>7, <1>8 DEF Pool!Take, Unlocked
<1>10. QED
  BY <1>1, <1>9 DEF PoolStep, Pool!PoolNext

LEMMA Drop_Pool ==
  ASSUME Inv, NEW f \in Open, f > 2, Entry(f, None, {})
  PROVE  PoolStep
<1>1. f \in Fd /\ dev[f] # None
  BY DEF Open
<1>2. /\ dev'[f] = None /\ fd_flags'[f] = {}
      /\ \A g \in Fd : g # f => dev'[g] = dev[g] /\ fd_flags'[g] = fd_flags[g]
  BY <1>1, EntryIs
<1>3. Open' = Open \ {f}
  BY <1>2 DEF Open
<1>4. {g \in Fd : "EXCL" \in fd_flags'[g]} = {g \in Fd : "EXCL" \in fd_flags[g]} \ {f}
  BY <1>2
<1>5. [g \in Open' |-> dev'[g]] = [g \in Open \ {f} |-> dev[g]]
  BY <1>2, <1>3 DEF Open
<1>6. Pool!Drop(f)
  BY <1>3, <1>4, <1>5 DEF Pool!Drop
<1>7. QED
  BY <1>1, <1>6 DEF PoolStep, Pool!PoolNext

LEMMA Redirect_Pool ==
  ASSUME Inv, phase # "run", NEW f \in 0 .. 2, NEW d \in Driver, NEW flags, "EXCL" \notin flags,
         Entry(f, d, flags)
  PROVE  PoolStep
<1>1. f \in Fd /\ dev[f] # None
  BY FdAssumption DEF Fd, Inv, TableInv, PoolClean
<1>2. /\ dev'[f] = d /\ fd_flags'[f] = flags
      /\ \A g \in Fd : g # f => dev'[g] = dev[g] /\ fd_flags'[g] = fd_flags[g]
  BY <1>1, EntryIs
<1>3. Open' = Open /\ f \in Open
  BY <1>1, <1>2, DriverAssumption DEF Open
<1>4. {g \in Fd : "EXCL" \in fd_flags[g]} = {}
  BY DEF Inv, NotYetLocked
<1>5. {g \in Fd : "EXCL" \in fd_flags'[g]} = {}
  BY <1>2, <1>4
<1>6. [g \in Open' |-> dev'[g]] = [[g \in Open |-> dev[g]] EXCEPT ![f] = d]
  BY <1>2, <1>3 DEF Open
<1>7. Pool!Redirect(f, d)
  BY <1>3, <1>4, <1>5, <1>6 DEF Pool!Redirect
<1>8. QED
  BY <1>1, <1>7 DEF PoolStep, Pool!PoolNext

\* Flags of an open descriptor, the lock set, cleared or left.
LEMMA Flags_Pool ==
  ASSUME Inv, NEW f \in Open, NEW flags, UNCHANGED dev, fd_flags' = [fd_flags EXCEPT ![f] = flags]
  PROVE  PoolStep
<1>1. f \in Fd
  BY DEF Open
<1>2. /\ fd_flags'[f] = flags /\ \A g \in Fd : g # f => fd_flags'[g] = fd_flags[g]
  BY <1>1 DEF Inv, TableInv, TableTypeOK
<1>3. Open' = Open /\ [g \in Open' |-> dev'[g]] = [g \in Open |-> dev[g]]
  BY DEF Open
<1> DEFINE locked == {g \in Fd : "EXCL" \in fd_flags[g]}
<1>4. CASE "EXCL" \in flags
  <2>1. locked' = locked \cup {f}
    BY <1>1, <1>2, <1>4
  <2>2. Pool!Lock(f)
    BY <1>3, <2>1 DEF Pool!Lock
  <2>3. QED
    BY <1>1, <2>2 DEF PoolStep, Pool!PoolNext
<1>5. CASE "EXCL" \notin flags
  <2>1. locked' = locked \ {f}
    BY <1>2, <1>5
  <2>2. Pool!Unlock(f)
    BY <1>3, <2>1 DEF Pool!Unlock
  <2>3. QED
    BY <1>1, <2>2 DEF PoolStep, Pool!PoolNext
<1>6. QED
  BY <1>4, <1>5

----------------------------------------------------------------------------
(* Each call: the invariant, a step of the pool, and what a call may change. *)
FailureStep ==
  (call'.error # "ok" /\ call'.name # "close") \/ call'.name = "stat" => UNCHANGED table
AccessFlags == O_ACCMODE \cup {"DEV"}
AccessStep ==
  \A f \in Open : phase = "run" /\ dev'[f] # None =>
    fd_flags'[f] \cap AccessFlags = fd_flags[f] \cap AccessFlags
Step == Inv' /\ PoolStep /\ FailureStep /\ AccessStep

LEMMA Kept_Step ==
  ASSUME Inv, UNCHANGED table, MaxGrown(alt_max_fd'), Lists', PhaseStep
  PROVE  Step
<1>1. FailureStep /\ AccessStep
  BY DEF FailureStep, AccessStep, table
<1>2. QED
  BY <1>1, Kept_Inv, Kept_Pool DEF Step

LEMMA MarkKept ==
  ASSUME Inv, UNCHANGED alt_max_fd
  PROVE  MaxGrown(alt_max_fd')
<1>1. \A max \in {-1} \cup Fd : max >= max
  BY FdType
<1>2. QED
  BY <1>1 DEF Inv, TableInv, TableTypeOK, MaxGrown

LEMMA Phases ==
  ASSUME Inv, UNCHANGED phase
  PROVE  PhaseStep
BY DEF Inv, TableInv, TableTypeOK, PhaseStep, Phase

LEMMA Same_Step ==
  ASSUME Inv, UNCHANGED << table, alt_max_fd, lists, phase >>
  PROVE  Step
<1>1. Lists'
  BY DEF Inv, Lists, lists
<1>2. QED
  BY <1>1, MarkKept, Phases, Kept_Step

LEMMA Register_Step ==
  ASSUME Inv, (\E d \in Device : alt_dev_reg(d)) \/ (\E d \in FileSystem : alt_fs_reg(d))
  PROVE  Step
<1>1. ASSUME NEW D, NEW d \in D, NEW list \in Seq(D) PROVE alt_dev_llist_insert(d, list) \in Seq(D)
  <2>1. << d >> \in Seq(D)
    OBVIOUS
  <2>2. QED
    BY <2>1, ConcatProperties DEF alt_dev_llist_insert
<1>2. alt_dev_list \in Seq(Device) /\ alt_fs_list \in Seq(FileSystem)
  BY DEF Inv, Lists
<1>3. CASE \E d \in Device : alt_dev_reg(d)
  <2>1. PICK d \in Device : alt_dev_reg(d)
    BY <1>3
  <2>2. alt_dev_list' \in Seq(Device) /\ UNCHANGED << table, alt_max_fd, alt_fs_list, phase >>
    BY <1>1, <1>2, <2>1 DEF alt_dev_reg
  <2>3. QED
    BY <1>2, <2>2, MarkKept, Phases, Kept_Step DEF Lists
<1>4. CASE \E d \in FileSystem : alt_fs_reg(d)
  <2>1. PICK d \in FileSystem : alt_fs_reg(d)
    BY <1>4
  <2>2. alt_fs_list' \in Seq(FileSystem) /\ UNCHANGED << table, alt_max_fd, alt_dev_list, phase >>
    BY <1>1, <1>2, <2>1 DEF alt_fs_reg
  <2>3. QED
    BY <1>2, <2>2, MarkKept, Phases, Kept_Step DEF Lists
<1>5. QED
  BY <1>3, <1>4

\* The flags of a new descriptor.
LEMMA NewFlagsType ==
  ASSUME NEW d \in Driver, NEW flags \in SUBSET Flag
  PROVE  /\ NewFlags(d, flags) \in SUBSET Flag /\ "EXCL" \notin NewFlags(d, flags)
         /\ NewFlags(d, flags) \cap ALT_FD_FLAGS_MASK # {} => d \in Device
BY DEF NewFlags, ALT_FD_FLAGS_MASK, Flag

LEMMA Open_Step ==
  ASSUME Inv, NEW name, NEW flags \in OpenFlags, ALT_OPEN(name, flags)
  PROVE  Step
<1>1. PICK o \in Opened(Table, name, flags) :
        SetTable(o.table) /\ Called("open", o.fd, o.error, o.callback)
  BY DEF ALT_OPEN
<1>2. /\ dev' = o.table.dev /\ fd_flags' = o.table.flags /\ alt_max_fd' = o.table.max
      /\ call'.name = "open" /\ call'.error = o.error /\ phase = "run"
      /\ UNCHANGED << lists, phase >>
  BY <1>1 DEF SetTable, Called, ALT_OPEN
<1>3. Lists' /\ PhaseStep
  BY <1>2, Phases DEF Inv, Lists, lists
<1>4. CASE Refused(o)
  BY <1>2, <1>3, <1>4, Kept_Step DEF Refused, table
<1>5. CASE \E d \in Driver : Given(o, d, flags)
  <2>1. PICK d \in Driver : Given(o, d, flags)
    BY <1>5
  <2> DEFINE f == o.fd
             new == NewFlags(d, flags)
  <2>2. /\ f \in Fd /\ f > 2 /\ dev[f] = None /\ LowestOf(f) /\ Entry(f, d, new)
        /\ MaxGrown(alt_max_fd') /\ f <= alt_max_fd'
        /\ d \in Device => Unlocked(d, f)
    BY <1>2, <2>1 DEF Given, LowestOf, Entry
  <2>3. /\ new \in SUBSET Flag /\ "EXCL" \notin new
        /\ new \cap ALT_FD_FLAGS_MASK # {} => d \in Device
    BY FlagAssumption, NewFlagsType
  <2>4. d # None /\ d \in Driver \cup {None} /\ ~(f <= 2)
    <3>1. \A x \in Driver : x # None
      BY DriverAssumption
    <3>2. f \in Nat /\ f > 2
      BY <2>2, FdType
    <3>3. QED
      BY <3>1, <3>2
  <2> HIDE DEF f, new
  <2>5. Inv'
    BY <1>2, <1>3, <2>2, <2>3, <2>4, Entry_Inv
  <2>6. PoolStep
    BY <2>2, <2>3, Take_Pool
  <2>7. AccessStep
    BY <2>2, EntryIs DEF AccessStep, Open
  <2>8. FailureStep
    BY <1>2, <2>1 DEF FailureStep, Given
  <2>9. QED
    BY <2>5, <2>6, <2>7, <2>8 DEF Step
<1>6. QED
  BY <1>1, <1>4, <1>5, OpenedIs

\* A descriptor above the standard ones is emptied, those stay.
LEMMA Close_Step ==
  ASSUME Inv, NEW f \in Fd, ALT_CLOSE(f)
  PROVE  Step
<1>1. /\ f \in Open /\ phase = "run" /\ call'.name = "close" /\ UNCHANGED << lists, phase >>
      /\ SetTable(alt_release_fd(Table, f))
  BY DEF ALT_CLOSE, Using, Called
<1>2. Lists' /\ PhaseStep
  BY <1>1, Phases DEF Inv, Lists, lists
<1>3. CASE f > 2
  <2>1. Entry(f, None, {}) /\ UNCHANGED alt_max_fd
    BY <1>1, <1>3 DEF SetTable, alt_release_fd, Table, Entry
  <2>2. ~(f <= 2)
    BY <1>3, FdType
  <2>3. Inv'
    BY <1>1, <1>2, <2>1, <2>2, MarkKept, Entry_Inv
  <2>4. PoolStep
    BY <1>1, <1>3, <2>1, Drop_Pool
  <2>5. AccessStep
    BY <2>1, EntryIs DEF AccessStep, Open
  <2>6. QED
    BY <1>1, <2>3, <2>4, <2>5 DEF Step, FailureStep
<1>4. CASE ~(f > 2)
  <2>1. UNCHANGED << table, alt_max_fd, lists, phase >>
    BY <1>1, <1>4 DEF SetTable, alt_release_fd, Table, table
  <2>2. QED
    BY <2>1, Same_Step
<1>5. QED
  BY <1>3, <1>4

LEMMA Stat_Step ==
  ASSUME Inv, NEW name, ALT_STAT(name)
  PROVE  Step
<1>1. PICK o \in Opened(Table, name, {}) : SetTable(alt_release_fd(o.table, o.fd))
  BY DEF ALT_STAT
<1>2. UNCHANGED << lists, phase >>
  BY DEF ALT_STAT
<1>3. Lists' /\ PhaseStep
  BY <1>2, Phases DEF Inv, Lists, lists
<1>4. UNCHANGED table /\ MaxGrown(alt_max_fd')
  <2>1. CASE Refused(o)
    <3>1. alt_release_fd(o.table, o.fd) = o.table
      BY <2>1 DEF alt_release_fd, Refused
    <3>2. QED
      BY <1>1, <2>1, <3>1 DEF Refused, SetTable, table
  <2>2. CASE \E d \in Driver : Given(o, d, {})
    <3>1. PICK d \in Driver : Given(o, d, {})
      BY <2>2
    <3>2. /\ o.fd \in Fd /\ o.fd > 2 /\ dev[o.fd] = None /\ fd_flags[o.fd] = {}
          /\ dev \in [Fd -> Driver \cup {None}] /\ fd_flags \in [Fd -> SUBSET Flag]
      BY <3>1 DEF Given, LowestOf, Inv, TableInv, PoolClean, TableTypeOK
    <3>3. /\ dev' = [o.table.dev EXCEPT ![o.fd] = None]
          /\ fd_flags' = [o.table.flags EXCEPT ![o.fd] = {}] /\ alt_max_fd' = o.table.max
      BY <1>1, <3>2 DEF SetTable, alt_release_fd
    <3>4. dev' = dev /\ fd_flags' = fd_flags
      BY <3>1, <3>2, <3>3 DEF Given
    <3>5. QED
      BY <3>1, <3>3, <3>4 DEF Given, table
  <2>3. QED
    BY <2>1, <2>2, OpenedIs
<1>5. QED
  BY <1>3, <1>4, Kept_Step

\* What the redirection of one descriptor comes to, when the device could be opened.
Redirected(o, std) ==
  SetTable(IF o.fd < 0 THEN o.table
           ELSE alt_release_fd(
                  [dev |-> [o.table.dev EXCEPT ![std] = o.table.dev[o.fd]],
                   flags |-> [o.table.flags EXCEPT ![std] = o.table.flags[o.fd]],
                   max |-> o.table.max], o.fd))

LEMMA Redirect_Entry ==
  ASSUME Inv, NEW std \in 0 .. 2, NEW d \in Driver, NEW flags, NEW o, Given(o, d, flags),
         Redirected(o, std)
  PROVE  /\ Entry(std, d, NewFlags(d, flags)) /\ std \in Fd
         /\ alt_max_fd' = o.table.max /\ MaxGrown(o.table.max)
<1> DEFINE f == o.fd
           new == NewFlags(d, flags)
<1>1. /\ f \in Fd /\ f > 2 /\ dev[f] = None /\ fd_flags[f] = {} /\ f \in Nat
      /\ dev \in [Fd -> Driver \cup {None}] /\ fd_flags \in [Fd -> SUBSET Flag]
      /\ MaxGrown(o.table.max)
      /\ o.table.dev = [dev EXCEPT ![f] = d] /\ o.table.flags = [fd_flags EXCEPT ![f] = new]
  BY FdType DEF Given, LowestOf, Inv, TableInv, PoolClean, TableTypeOK
<1>2. std \in Fd /\ std # f /\ ~(f < 0)
  BY <1>1, FdAssumption DEF Fd
<1>3. /\ dev' = [[o.table.dev EXCEPT ![std] = o.table.dev[f]] EXCEPT ![f] = None]
      /\ fd_flags' = [[o.table.flags EXCEPT ![std] = o.table.flags[f]] EXCEPT ![f] = {}]
      /\ alt_max_fd' = o.table.max
  BY <1>1, <1>2 DEF Redirected, SetTable, alt_release_fd
<1> HIDE DEF f, new
<1>4. o.table.dev[f] = d /\ o.table.flags[f] = new
  BY <1>1
<1>5. [[[dev EXCEPT ![f] = d] EXCEPT ![std] = d] EXCEPT ![f] = None] = [dev EXCEPT ![std] = d]
  BY <1>1, <1>2
<1>6. [[[fd_flags EXCEPT ![f] = new] EXCEPT ![std] = new] EXCEPT ![f] = {}]
        = [fd_flags EXCEPT ![std] = new]
  BY <1>1, <1>2
<1>7. Entry(std, d, new)
  BY <1>1, <1>3, <1>4, <1>5, <1>6 DEF Entry
<1>8. QED
  BY <1>1, <1>2, <1>3, <1>7 DEF new

LEMMA Redirect_Step ==
  ASSUME Inv, NEW std \in 0 .. 2, NEW name, NEW flags \in SUBSET Flag,
         NEW from \in {"init", "stdin", "stderr"}, NEW to \in {"stdin", "stderr", "run"},
         alt_open_fd(std, name, flags, from, to)
  PROVE  Step
<1>1. PICK o \in Opened(Table, name, flags) :
        Redirected(o, std) /\ Called("redirect", std, o.error, o.callback)
  BY DEF alt_open_fd, Redirected
<1>2. /\ phase = from /\ phase' = to /\ UNCHANGED lists
      /\ call'.name = "redirect" /\ call'.error = o.error
  BY <1>1 DEF alt_open_fd, Called
<1>3. Lists' /\ PhaseStep /\ phase # "run" /\ phase' # "init"
  BY <1>2 DEF Inv, Lists, lists, PhaseStep, Phase
<1>4. CASE Refused(o)
  <2>1. o.fd < 0
    BY <1>4 DEF Refused
  <2>2. UNCHANGED table /\ MaxGrown(alt_max_fd')
    BY <1>1, <1>4, <2>1 DEF Refused, Redirected, SetTable, table
  <2>3. QED
    BY <1>3, <2>2, Kept_Step
<1>5. CASE \E d \in Driver : Given(o, d, flags)
  <2>1. PICK d \in Driver : Given(o, d, flags)
    BY <1>5
  <2> DEFINE new == NewFlags(d, flags)
  <2>2. o.error = "ok" /\ std <= 2 /\ ~(std > 2)
    BY <2>1 DEF Given
  <2>3. /\ new \in SUBSET Flag /\ "EXCL" \notin new
        /\ new \cap ALT_FD_FLAGS_MASK # {} => d \in Device
    BY NewFlagsType
  <2>4. Entry(std, d, new) /\ std \in Fd /\ MaxGrown(alt_max_fd')
    BY <1>1, <2>1, Redirect_Entry
  <2> HIDE DEF new
  <2>5. d # None /\ d \in Driver \cup {None}
    BY DriverAssumption
  <2>6. Inv'
    BY <1>3, <2>2, <2>3, <2>4, <2>5, Entry_Inv
  <2>7. PoolStep
    BY <1>3, <2>3, <2>4, Redirect_Pool
  <2>8. AccessStep /\ FailureStep
    BY <1>2, <1>3, <2>2 DEF AccessStep, FailureStep
  <2>9. QED
    BY <2>6, <2>7, <2>8 DEF Step
<1>6. QED
  BY <1>1, <1>4, <1>5, OpenedIs

LEMMA AllRedirect_Step ==
  ASSUME Inv, NEW stdout_dev, NEW stdin_dev, NEW stderr_dev,
         alt_io_redirect(stdout_dev, stdin_dev, stderr_dev)
  PROVE  Step
<1>1. {} \in SUBSET Flag /\ {"O_WRONLY"} \in SUBSET Flag
  BY DEF Flag, O_ACCMODE
<1>2. 0 \in 0 .. 2 /\ 1 \in 0 .. 2 /\ 2 \in 0 .. 2
  OBVIOUS
<1>3. CASE alt_open_fd(1, stdout_dev, {"O_WRONLY"}, "init", "stdin")
  BY <1>1, <1>2, <1>3, Redirect_Step
<1>4. CASE alt_open_fd(0, stdin_dev, {}, "stdin", "stderr")
  BY <1>1, <1>2, <1>4, Redirect_Step
<1>5. CASE alt_open_fd(2, stderr_dev, {"O_WRONLY"}, "stderr", "run")
  BY <1>1, <1>2, <1>5, Redirect_Step
<1>6. QED
  BY <1>3, <1>4, <1>5 DEF alt_io_redirect

\* Calls that change the flags of an open descriptor.
LEMMA Flags_Step ==
  ASSUME Inv, NEW f \in Fd, Using(f), NEW flags \in SUBSET Flag,
         UNCHANGED << dev, alt_max_fd, lists, phase >>,
         fd_flags' = [fd_flags EXCEPT ![f] = flags], call'.error = "ok", call'.name # "stat",
         flags \cap AccessFlags = fd_flags[f] \cap AccessFlags,
         "EXCL" \in flags => "EXCL" \in fd_flags[f] \/ "DEV" \in fd_flags[f]
  PROVE  Step
<1>1. f \in Open /\ dev[f] # None /\ phase \in {"init", "run"}
  BY DEF Open, Using
<1>2. /\ dev \in [Fd -> Driver \cup {None}] /\ fd_flags \in [Fd -> SUBSET Flag]
      /\ alt_max_fd \in {-1} \cup Fd
  BY DEF Inv, TableInv, TableTypeOK
<1>3. Entry(f, dev[f], flags)
  BY <1>1, <1>2 DEF Entry
<1>4. "DEV" \in flags <=> "DEV" \in fd_flags[f]
  BY DEF AccessFlags
<1>5. flags \cap ALT_FD_FLAGS_MASK # {} => dev[f] \in Device
  BY <1>1, <1>4 DEF ALT_FD_FLAGS_MASK, Inv, TableInv, TableTypeOK, OnlyDevicesLocked
<1>6. phase' = "init" => "DEV" \notin flags
  BY <1>1, <1>4 DEF Inv, NotYetLocked
<1>7. phase' # "run" => "EXCL" \notin flags
  BY <1>1 DEF Inv, NotYetLocked
<1>8. f > 2 /\ dev[f] # None => f <= alt_max_fd'
  BY <1>1 DEF Inv, TableInv, OpenBelowMax
<1>9. Lists' /\ PhaseStep /\ MaxGrown(alt_max_fd')
  BY Phases, MarkKept DEF Inv, Lists, lists
<1>10. Inv'
  BY <1>1, <1>2, <1>3, <1>5, <1>6, <1>7, <1>8, <1>9, Entry_Inv
<1>11. PoolStep
  BY <1>1, Flags_Pool
<1>12. AccessStep
  BY <1>1, <1>2 DEF AccessStep, Open
<1>13. QED
  BY <1>10, <1>11, <1>12 DEF Step, FailureStep

LEMMA Control_Step ==
  ASSUME Inv, NEW f \in Fd, ALT_FCNTL(f) \/ Lock(f) \/ alt_fd_unlock(f)
  PROVE  Step
<1>1. /\ dev \in [Fd -> Driver \cup {None}] /\ fd_flags \in [Fd -> SUBSET Flag]
      /\ fd_flags[f] \in SUBSET Flag /\ Using(f)
  BY DEF Inv, TableInv, TableTypeOK, ALT_FCNTL, Lock, alt_fd_unlock
<1>2. CASE ALT_FCNTL(f)
  <2>1. CASE \E error \in {"ok", "EINVAL"} : Called("fcntl", f, error, NoCallback) /\ Same
    BY <2>1, Same_Step DEF Same
  <2>2. CASE /\ \E flags \in OpenFlags : fd_flags' = [fd_flags EXCEPT ![f] = SetFl(@, flags)]
             /\ Called("fcntl", f, "ok", NoCallback)
             /\ UNCHANGED << dev, alt_max_fd, lists, phase >>
    <3>1. PICK flags \in OpenFlags : fd_flags' = [fd_flags EXCEPT ![f] = SetFl(fd_flags[f], flags)]
      BY <2>2
    <3>2. flags \in SUBSET Flag
      BY FlagAssumption
    <3> DEFINE new == SetFl(fd_flags[f], flags)
    <3>3. /\ new \in SUBSET Flag /\ new \cap AccessFlags = fd_flags[f] \cap AccessFlags
          /\ "EXCL" \in new => "EXCL" \in fd_flags[f]
      BY <1>1, <3>2 DEF SetFl, AccessFlags, ALT_FCNTL_FLAGS_MASK, O_ACCMODE
    <3>4. call'.error = "ok" /\ call'.name # "stat"
      BY <2>2 DEF Called
    <3> HIDE DEF new
    <3>5. fd_flags' = [fd_flags EXCEPT ![f] = new]
      BY <3>1 DEF new
    <3>6. QED
      BY <1>1, <2>2, <3>3, <3>4, <3>5, Flags_Step
  <2>3. QED
    BY <1>2, <2>1, <2>2 DEF ALT_FCNTL
<1>3. CASE Lock(f)
  <2>1. CASE ~alt_fd_lock(f)
    BY <1>3, <2>1, Same_Step DEF Lock, Same
  <2>2. CASE alt_fd_lock(f)
    <3> DEFINE new == fd_flags[f] \cup {"EXCL"}
    <3>1. /\ "DEV" \in fd_flags[f] /\ fd_flags' = [fd_flags EXCEPT ![f] = new]
          /\ call'.error = "ok" /\ call'.name # "stat"
          /\ UNCHANGED << dev, alt_max_fd, lists, phase >>
      BY <1>3, <2>2 DEF Lock, Called
    <3>2. new \in SUBSET Flag /\ new \cap AccessFlags = fd_flags[f] \cap AccessFlags
      BY <1>1 DEF Flag, ALT_FD_FLAGS_MASK, AccessFlags, O_ACCMODE
    <3> HIDE DEF new
    <3>3. QED
      BY <1>1, <3>1, <3>2, Flags_Step
  <2>3. QED
    BY <2>1, <2>2
<1>4. CASE alt_fd_unlock(f)
  <2> DEFINE new == fd_flags[f] \ {"EXCL"}
  <2>1. /\ fd_flags' = [fd_flags EXCEPT ![f] = new]
        /\ call'.error = "ok" /\ call'.name # "stat"
        /\ UNCHANGED << dev, alt_max_fd, lists, phase >>
    BY <1>4 DEF alt_fd_unlock, Called
  <2>2. /\ new \in SUBSET Flag /\ new \cap AccessFlags = fd_flags[f] \cap AccessFlags
        /\ "EXCL" \notin new
    BY <1>1 DEF AccessFlags, O_ACCMODE
  <2> HIDE DEF new
  <2>3. QED
    BY <1>1, <2>1, <2>2, Flags_Step
<1>5. QED
  BY <1>2, <1>3, <1>4

----------------------------------------------------------------------------
LEMMA Next_Step ==
  ASSUME Inv, [TableNext]_vars
  PROVE  Step
<1>1. CASE (\E d \in Device : alt_dev_reg(d)) \/ (\E d \in FileSystem : alt_fs_reg(d))
  BY <1>1, Register_Step
<1>2. CASE alt_io_redirect(StdName[1], StdName[0], StdName[2])
  BY <1>2, AllRedirect_Step
<1>3. CASE \E name \in Name : ALT_STAT(name) \/ \E flags \in OpenFlags : ALT_OPEN(name, flags)
  BY <1>3, Stat_Step, Open_Step
<1>4. ASSUME NEW f \in Fd,
             \/ ALT_CLOSE(f) \/ ALT_READ(f) \/ ALT_WRITE(f) \/ ALT_LSEEK(f) \/ ALT_FSTAT(f)
             \/ ALT_ISATTY(f) \/ ALT_FCNTL(f) \/ Lock(f) \/ alt_fd_unlock(f) \/ ALT_IOCTL(f)
      PROVE  Step
  <2>1. CASE ALT_CLOSE(f)
    BY <2>1, Close_Step
  <2>2. CASE ALT_FCNTL(f) \/ Lock(f) \/ alt_fd_unlock(f)
    BY <2>2, Control_Step
  <2>3. CASE \/ ALT_READ(f) \/ ALT_WRITE(f) \/ ALT_LSEEK(f) \/ ALT_FSTAT(f) \/ ALT_ISATTY(f)
             \/ ALT_IOCTL(f)
    <3>1. Same
      BY <2>3 DEF ALT_READ, ALT_WRITE, ALT_LSEEK, ALT_FSTAT, ALT_ISATTY, ALT_IOCTL, Asks
    <3>2. QED
      BY <3>1, Same_Step DEF Same
  <2>4. QED
    BY <1>4, <2>1, <2>2, <2>3
<1>5. CASE BadDescriptor
  BY <1>5, Same_Step DEF BadDescriptor, Same
<1>6. CASE UNCHANGED vars
  <2>1. Step
    BY <1>6, Same_Step DEF vars
  <2>2. QED
    BY <2>1
<1>7. QED
  BY <1>1, <1>2, <1>3, <1>4, <1>5, <1>6 DEF TableNext

LEMMA Init_Inv == TableInit => Inv /\ Pool!PoolInit
<1> SUFFICES ASSUME TableInit PROVE Inv /\ Pool!PoolInit
  OBVIOUS
<1>1. /\ dev = [f \in Fd |-> IF f <= 2 THEN alt_dev_null ELSE None]
      /\ fd_flags = [f \in Fd |-> {}] /\ alt_max_fd = -1
      /\ alt_dev_list = << alt_dev_null >> /\ alt_fs_list = << >> /\ phase = "init"
  BY DEF TableInit
<1>2. alt_dev_null \in Device /\ alt_dev_null \in Driver /\ None \notin Driver
  BY DriverAssumption DEF Driver
<1>3. TableTypeOK
  BY <1>1, <1>2 DEF TableTypeOK
<1>4. OpenBelowMax /\ PoolClean /\ OnlyDevicesLocked
  BY <1>1, <1>2, FdType DEF OpenBelowMax, Open, PoolClean, OnlyDevicesLocked
<1>5. Lists /\ NotYetLocked
  BY <1>1, <1>2 DEF Lists, NotYetLocked
<1>6. Open = 0 .. 2
  <2>1. alt_dev_null # None
    BY <1>2
  <2>2. \A f \in Fd : dev[f] # None <=> f <= 2
    BY <1>1, <2>1
  <2>3. {f \in Fd : f <= 2} = 0 .. 2
    BY FdAssumption DEF Fd
  <2>4. QED
    BY <2>2, <2>3 DEF Open
<1>7. Pool!PoolInit
  <2>1. [f \in Open |-> dev[f]] = [f \in 0 .. 2 |-> alt_dev_null]
    BY <1>1, <1>6, FdAssumption DEF Fd
  <2>2. {f \in Fd : "EXCL" \in fd_flags[f]} = {}
    BY <1>1
  <2>3. QED
    BY <2>1, <2>2 DEF Pool!PoolInit
<1>8. QED
  BY <1>3, <1>4, <1>5, <1>7 DEF Inv, TableInv

(* The search for a lock reaches every open descriptor, the standard descriptors    *)
(* stay usable, no flag survives into the next use of a descriptor and no file is   *)
(* locked: whatever the numbers of descriptors, devices and file systems.           *)
THEOREM TableSafety == TableSpec => []TableInv
<1>1. Inv /\ [TableNext]_vars => Inv'
  BY Next_Step DEF Step
<1>2. Inv => TableInv
  BY DEF Inv
<1>3. QED
  BY <1>1, <1>2, Init_Inv, PTL DEF TableSpec

(* Opening, closing, redirecting and locking descriptors are those of the pool: the *)
(* lowest free descriptor is taken, and no device is opened while another           *)
(* descriptor has it locked.                                                        *)
THEOREM TableImplementsPool == TableSpec => ImplementsFdPool
<1>1. Inv /\ [TableNext]_vars => Inv' /\ PoolStep
  BY Next_Step DEF Step
<1>2. Inv /\ [TableNext]_vars => [Pool!PoolNext]_(Pool!poolVars)
  BY <1>1 DEF PoolStep, Pool!poolVars
<1>3. QED
  BY <1>1, <1>2, Init_Inv, PTL DEF TableSpec, ImplementsFdPool, Pool!PoolSpec

(* A call that fails, and every stat(), leaves the table as it was, and an open     *)
(* descriptor keeps the access mode of its open().                                  *)
THEOREM CallsKeep == TableSpec => CallsKeepTable
<1>1. Inv /\ [TableNext]_vars => Inv'
  BY Next_Step DEF Step
<1>2. Inv /\ [TableNext]_vars => [FailureStep]_vars /\ [AccessStep]_vars
  BY Next_Step DEF Step
<1>3. TableSpec => [][FailureStep]_vars /\ [][AccessStep]_vars
  BY <1>1, <1>2, Init_Inv, PTL DEF TableSpec
<1>4. QED
  BY <1>3 DEF CallsKeepTable, FailureChangesNothing, AccessKept, FailureStep, AccessStep, AccessFlags
----------------------------------------------------------------------------
(* The two builds side by side. *)
StdAccess(f) == {"DEV"} \cup IF f = 0 THEN {} ELSE {"O_WRONLY"}
AtConsole(f) == dev[f] = uart /\ fd_flags[f] \cap AccessFlags = StdAccess(f)

\* The table is brought up as far as its phase says, with nothing open above the
\* standard descriptors before the program runs; and no call is made before that.
UpTo ==
  /\ phase # "run" => \A f \in Fd : f > 2 => dev[f] = None
  /\ phase \in {"stdin", "stderr", "run"} => AtConsole(1)
  /\ phase \in {"stderr", "run"} => AtConsole(0)
  /\ phase = "run" => AtConsole(2)
BothInv ==
  /\ Inv /\ (build = "both" => UpTo)
  /\ build = "table" \/ phase # "run" => direct_call.name = "none"
  /\ build \in {"table", "both"}

\* What the direct calls and the table's answer.
Answer(name, f, asked, ret) ==
  /\ direct_call'.name = name /\ direct_call'.arg = f
  /\ direct_call'.driver = asked /\ direct_call'.ret = ret
TableAnswer(asked, ok) ==
  (call'.callback # NoCallback <=> asked) /\ (call'.error = "ok" <=> ok)

\* The three descriptors are there.
LEMMA StdIs == Direct!Std = {0, 1, 2}
<1> DEFINE present == << StdinPresent, StdoutPresent, StderrPresent >>
<1>1. StdinPresent = TRUE /\ StdoutPresent = TRUE /\ StderrPresent = TRUE
  BY FilesAssumption
<1>2. present[1] /\ present[2] /\ present[3]
  BY <1>1
<1>3. 0 .. 2 = {0, 1, 2} /\ 0 + 1 = 1 /\ 1 + 1 = 2 /\ 2 + 1 = 3
  OBVIOUS
<1>4. Direct!Std = {f \in 0 .. 2 : present[f + 1]}
  BY DEF Direct!Std
<1> HIDE DEF present
<1>5. QED
  BY <1>2, <1>3, <1>4

\* The console is found by its name.
LEMMA ConsoleFound ==
  ASSUME Inv, InList(uart, alt_dev_list)
  PROVE  alt_find_dev(NameOf[uart]) = uart /\ Find(NameOf[uart]) = uart /\ uart # None
<1> DEFINE hits == {i \in DOMAIN alt_dev_list : NameOf[alt_dev_list[i]] = NameOf[uart]}
<1>1. uart \in Device /\ uart # None
  BY FilesAssumption, DriverAssumption DEF Driver
<1>2. alt_dev_list \in Seq(Device)
  BY DEF Inv, Lists
<1>3. DOMAIN alt_dev_list \subseteq Nat /\ \A i \in DOMAIN alt_dev_list : alt_dev_list[i] \in Device
  <2>1. Len(alt_dev_list) \in Nat /\ DOMAIN alt_dev_list = 1 .. Len(alt_dev_list)
    BY <1>2, LenProperties
  <2>2. QED
    BY <1>2, <2>1
<1>4. \A i \in hits : alt_dev_list[i] = uart
  BY <1>3, FilesAssumption
<1>5. hits # {} /\ hits \subseteq Nat
  BY <1>3 DEF InList
<1>6. alt_find_dev(NameOf[uart]) =
        IF hits = {} THEN None ELSE alt_dev_list[CHOOSE i \in hits : \A j \in hits : i <= j]
  BY DEF alt_find_dev, FirstIn
<1> HIDE DEF hits
<1>7. \E i \in hits : \A j \in hits : i <= j
  BY <1>5, Smallest
<1>8. alt_find_dev(NameOf[uart]) = uart
  BY <1>4, <1>5, <1>6, <1>7
<1>9. QED
  BY <1>1, <1>8 DEF Find

\* While nothing is open above the standard descriptors and nothing locked, opening the
\* console succeeds.
LEMMA ConsoleOpens ==
  ASSUME Inv, UpTo, phase # "run", InList(uart, alt_dev_list), NEW flags,
         NEW o \in Opened(Table, NameOf[uart], flags)
  PROVE  Given(o, uart, flags)
<1> DEFINE f == LowestFree(Table)
           new == alt_get_fd(Table, f, uart, flags)
<1>1. /\ alt_find_dev(NameOf[uart]) = uart /\ Find(NameOf[uart]) = uart /\ uart # None
      /\ uart \in Driver
  BY ConsoleFound, FilesAssumption DEF Driver
<1>2. 3 \in Fd /\ dev[3] = None
  BY FilesAssumption, FdAssumption DEF Fd, UpTo
<1>3. Free(Table) # {}
  BY <1>2 DEF Free, Table
<1>4. LowestOf(f)
  BY <1>3, LowestIsFree
<1>5. o \in IF alt_file_locked(new, f)
            THEN {Outcome(alt_release_fd(new, f), -1, "EACCES", NoCallback)}
            ELSE DriverOpens(new, f, uart)
  BY <1>1, <1>3 DEF Opened
<1> HIDE DEF f
<1>6. /\ new.dev = [dev EXCEPT ![f] = uart]
      /\ new.flags = [fd_flags EXCEPT ![f] = NewFlags(uart, flags)]
      /\ MaxGrown(new.max) /\ f <= new.max
  BY <1>1, <1>4, TakenBack
<1> HIDE DEF new
<1>7. \A g \in Fd : "EXCL" \notin fd_flags[g]
  BY DEF Inv, NotYetLocked
<1>8. ~alt_file_locked(new, f)
  <2>1. SUFFICES ASSUME NEW g \in 0 .. new.max, g # f, "EXCL" \in new.flags[g] PROVE FALSE
    BY DEF alt_file_locked
  <2>2. f \in Nat /\ f \in Fd /\ new.max \in {-1} \cup Fd
    BY <1>4, <1>6, FdType DEF LowestOf, MaxGrown
  <2>3. g \in Fd
    BY <2>2, FdAssumption DEF Fd
  <2>4. fd_flags \in [Fd -> SUBSET Flag]
    BY DEF Inv, TableInv, TableTypeOK
  <2>5. new.flags[g] = fd_flags[g]
    BY <1>6, <2>1, <2>2, <2>3, <2>4
  <2>6. QED
    BY <1>7, <2>1, <2>3, <2>5
<1>9. "open" \notin Op[uart]
  BY FilesAssumption
<1>10. o = Outcome(new, f, "ok", NoCallback)
  BY <1>5, <1>8, <1>9 DEF DriverOpens
<1>11. Unlocked(uart, f)
  BY <1>7 DEF Unlocked
<1>12. QED
  BY <1>4, <1>6, <1>10, <1>11 DEF Given, Outcome

LEMMA ConsoleRedirect ==
  ASSUME Inv, UpTo, InList(uart, alt_dev_list), NEW std \in 0 .. 2, NEW flags \in SUBSET Flag,
         flags \cap AccessFlags = StdAccess(std) \ {"DEV"},
         NEW from \in {"init", "stdin", "stderr"}, NEW to,
         alt_open_fd(std, NameOf[uart], flags, from, to)
  PROVE  /\ AtConsole(std)' /\ phase = from /\ phase' = to
         /\ \A f \in Fd : f # std => dev'[f] = dev[f] /\ (AtConsole(f) => AtConsole(f)')
<1>1. phase # "run" /\ phase = from /\ phase' = to
  BY DEF alt_open_fd
<1>2. PICK o \in Opened(Table, NameOf[uart], flags) : Redirected(o, std)
  BY DEF alt_open_fd, Redirected
<1>3. uart \in Device /\ uart \in Driver
  BY FilesAssumption DEF Driver
<1> DEFINE new == NewFlags(uart, flags)
<1>4. Given(o, uart, flags)
  BY <1>1, <1>2, ConsoleOpens
<1>5. Entry(std, uart, new) /\ std \in Fd
  BY <1>2, <1>3, <1>4, Redirect_Entry
<1>6. new \cap AccessFlags = StdAccess(std)
  BY <1>3 DEF NewFlags, AccessFlags, O_ACCMODE, ALT_FD_FLAGS_MASK, StdAccess
<1> HIDE DEF new
<1>7. /\ dev'[std] = uart /\ fd_flags'[std] = new
      /\ \A f \in Fd : f # std => dev'[f] = dev[f] /\ fd_flags'[f] = fd_flags[f]
  BY <1>5, EntryIs
<1>8. QED
  BY <1>1, <1>6, <1>7 DEF AtConsole

LEMMA BringUp_Both ==
  ASSUME BothInv, build = "both", BringUp, UNCHANGED << build, directVars >>
  PROVE  BothInv' /\ AsWithTable'
<1>1. Inv /\ UpTo /\ 0 \in Fd /\ 1 \in Fd /\ 2 \in Fd
  BY FdType DEF BothInv
<1>2. direct_call' = direct_call /\ build' = build
  BY DEF directVars
<1>3. phase # "run" /\ direct_call.name = "none"
  BY DEF BothInv, BringUp, alt_dev_reg, alt_fs_reg, alt_io_redirect, alt_open_fd
<1>4. AsWithTable'
  BY <1>2, <1>3 DEF AsWithTable, Alike, DriverRequest, Exclusive
<1>5. Inv'
  BY <1>1, Register_Step, AllRedirect_Step DEF BringUp, Step
<1>6. CASE (\E d \in Device : alt_dev_reg(d)) \/ (\E d \in FileSystem : alt_fs_reg(d))
  <2>1. dev' = dev /\ fd_flags' = fd_flags /\ phase' = phase
    BY <1>6 DEF alt_dev_reg, alt_fs_reg, table
  <2>2. UpTo'
    BY <1>1, <2>1 DEF UpTo, AtConsole
  <2>3. QED
    BY <1>2, <1>3, <1>4, <1>5, <2>2 DEF BothInv
<1>7. CASE InList(uart, alt_dev_list) /\ alt_io_redirect(NameOf[uart], NameOf[uart], NameOf[uart])
  <2>1. /\ {} \in SUBSET Flag /\ {"O_WRONLY"} \in SUBSET Flag
        /\ {} \cap AccessFlags = StdAccess(0) \ {"DEV"}
        /\ {"O_WRONLY"} \cap AccessFlags = StdAccess(1) \ {"DEV"}
        /\ {"O_WRONLY"} \cap AccessFlags = StdAccess(2) \ {"DEV"}
    BY DEF Flag, O_ACCMODE, AccessFlags, StdAccess
  <2>2. 0 \in 0 .. 2 /\ 1 \in 0 .. 2 /\ 2 \in 0 .. 2 /\ \A f \in Fd : f > 2 => f \notin {0, 1, 2}
    BY FdType
  <2>3. ASSUME alt_open_fd(1, NameOf[uart], {"O_WRONLY"}, "init", "stdin") PROVE UpTo'
    <3>1. /\ AtConsole(1)' /\ phase = "init" /\ phase' = "stdin"
          /\ \A f \in Fd : f # 1 => dev'[f] = dev[f] /\ (AtConsole(f) => AtConsole(f)')
      BY <1>1, <1>7, <2>1, <2>2, <2>3, ConsoleRedirect
    <3>2. QED
      BY <1>1, <2>2, <3>1 DEF UpTo
  <2>4. ASSUME alt_open_fd(0, NameOf[uart], {}, "stdin", "stderr") PROVE UpTo'
    <3>1. /\ AtConsole(0)' /\ phase = "stdin" /\ phase' = "stderr"
          /\ \A f \in Fd : f # 0 => dev'[f] = dev[f] /\ (AtConsole(f) => AtConsole(f)')
      BY <1>1, <1>7, <2>1, <2>2, <2>4, ConsoleRedirect
    <3>2. QED
      BY <1>1, <2>2, <3>1 DEF UpTo
  <2>5. ASSUME alt_open_fd(2, NameOf[uart], {"O_WRONLY"}, "stderr", "run") PROVE UpTo'
    <3>1. /\ AtConsole(2)' /\ phase = "stderr" /\ phase' = "run"
          /\ \A f \in Fd : f # 2 => dev'[f] = dev[f] /\ (AtConsole(f) => AtConsole(f)')
      BY <1>1, <1>7, <2>1, <2>2, <2>5, ConsoleRedirect
    <3>2. QED
      BY <1>1, <2>2, <3>1 DEF UpTo
  <2>6. UpTo'
    BY <1>7, <2>3, <2>4, <2>5 DEF alt_io_redirect
  <2>7. QED
    BY <1>2, <1>3, <1>4, <1>5, <2>6 DEF BothInv
<1>8. QED
  BY <1>6, <1>7 DEF BringUp

\* A call on a standard descriptor leaves it what it was.
TableCall(f) ==
  \/ ALT_CLOSE(f) \/ ALT_READ(f) \/ ALT_WRITE(f) \/ ALT_LSEEK(f) \/ ALT_FSTAT(f)
  \/ ALT_ISATTY(f) \/ Lock(f) \/ alt_fd_unlock(f) \/ ALT_IOCTL(f)

LEMMA Call_Keeps ==
  ASSUME Inv, UpTo, phase = "run", NEW f \in 0 .. 2, TableCall(f)
  PROVE  Inv' /\ UpTo' /\ phase' = "run"
<1>1. f \in Fd /\ f <= 2 /\ ~(f > 2)
  BY FdAssumption DEF Fd
<1>2. TableNext
  BY <1>1 DEF TableNext, TableCall
<1>3. Step
  BY <1>2, Next_Step
<1>4. ASSUME ALT_CLOSE(f) PROVE dev' = dev /\ phase' = phase
  BY <1>1, <1>4 DEF ALT_CLOSE, SetTable, alt_release_fd, Table
<1>5. dev' = dev /\ phase' = phase
  BY <1>4 DEF TableCall, ALT_READ, ALT_WRITE, ALT_LSEEK, ALT_FSTAT, ALT_ISATTY,
     Lock, alt_fd_unlock, ALT_IOCTL, Asks, Same, table
<1>6. uart # None
  BY FilesAssumption, DriverAssumption DEF Driver
<1>7. ASSUME NEW g \in Fd, AtConsole(g) PROVE AtConsole(g)'
  BY <1>3, <1>5, <1>6, <1>7 DEF AtConsole, Step, AccessStep, Open
<1>8. 0 \in Fd /\ 1 \in Fd /\ 2 \in Fd
  BY FdType
<1>9. UpTo'
  BY <1>5, <1>7, <1>8 DEF UpTo
<1>10. QED
  BY <1>3, <1>5, <1>9 DEF Step

\* What the table answers on a standard descriptor.
LEMMA TableAnswers ==
  ASSUME UpTo, phase = "run", NEW f \in 0 .. 2
  PROVE  /\ ALT_READ(f) => IF f = 0 THEN call'.callback # NoCallback ELSE TableAnswer(FALSE, FALSE)
         /\ ALT_WRITE(f) => IF f = 0 THEN TableAnswer(FALSE, FALSE) ELSE call'.callback # NoCallback
         /\ ALT_IOCTL(f) => call'.callback # NoCallback
         /\ Lock(f) \/ alt_fd_unlock(f) => call'.callback = NoCallback
         /\ ALT_FSTAT(f) \/ ALT_ISATTY(f) => TableAnswer(FALSE, TRUE)
         /\ ALT_LSEEK(f) => TableAnswer(FALSE, FALSE)
<1>1. f = 0 \/ f = 1 \/ f = 2
  OBVIOUS
<1>2. dev[f] = uart /\ fd_flags[f] \cap AccessFlags = StdAccess(f)
  BY <1>1 DEF UpTo, AtConsole
<1>3. /\ "read" \in Op[dev[f]] /\ "write" \in Op[dev[f]] /\ "ioctl" \in Op[dev[f]]
      /\ "fstat" \notin Op[dev[f]] /\ "lseek" \notin Op[dev[f]]
  BY <1>2, FilesAssumption
<1>4. Readable(f) <=> f = 0
  BY <1>1, <1>2 DEF Readable, AccessFlags, StdAccess, O_ACCMODE
<1>5. Writeable(f) <=> f # 0
  BY <1>1, <1>2 DEF Writeable, AccessFlags, StdAccess, O_ACCMODE
<1>6. ASSUME NEW name, NEW op, NEW otherwise, Asks(name, f, op, otherwise)
      PROVE  /\ op \in Op[dev[f]] => call'.callback # NoCallback
             /\ op \notin Op[dev[f]] => call'.callback = NoCallback /\ call'.error = otherwise
  <2>1. ASSUME NEW answer PROVE << op, f >> # NoCallback
    <3>1. << op, f >>[2] = f /\ NoCallback[2] = -1 /\ f # -1
      BY <1>1 DEF NoCallback
    <3>2. QED
      BY <3>1
  <2>2. QED
    BY <1>6, <2>1 DEF Asks, Called
<1>7. ASSUME NEW name, Called(name, f, "EACCES", NoCallback) PROVE TableAnswer(FALSE, FALSE)
  BY <1>7 DEF Called, TableAnswer
<1>8. ASSUME ALT_READ(f)
      PROVE  IF f = 0 THEN call'.callback # NoCallback ELSE TableAnswer(FALSE, FALSE)
  BY <1>3, <1>4, <1>6, <1>7, <1>8 DEF ALT_READ
<1>9. ASSUME ALT_WRITE(f)
      PROVE  IF f = 0 THEN TableAnswer(FALSE, FALSE) ELSE call'.callback # NoCallback
  BY <1>3, <1>5, <1>6, <1>7, <1>9 DEF ALT_WRITE
<1>10. ALT_IOCTL(f) => call'.callback # NoCallback
  BY <1>3, <1>6 DEF ALT_IOCTL
<1>11. Lock(f) \/ alt_fd_unlock(f) => call'.callback = NoCallback
  BY DEF Lock, alt_fd_unlock, Called
<1>12. ALT_FSTAT(f) \/ ALT_ISATTY(f) => TableAnswer(FALSE, TRUE)
  BY <1>3, <1>6 DEF ALT_FSTAT, ALT_ISATTY, TableAnswer
<1>13. "ENOTSUP" # "ok"
  OBVIOUS
<1>14. ALT_LSEEK(f) => TableAnswer(FALSE, FALSE)
  BY <1>3, <1>6, <1>13 DEF ALT_LSEEK, TableAnswer
<1>15. QED
  BY <1>8, <1>9, <1>10, <1>11, <1>12, <1>14

LEMMA BadAnswers ==
  ASSUME BadDescriptor
  PROVE  TableAnswer(FALSE, FALSE)
BY DEF BadDescriptor, Called, TableAnswer

----------------------------------------------------------------------------
\* What the other build answers on any descriptor.
LEMMA DirectAnswers ==
  ASSUME NEW f
  PROVE  /\ Direct!read(f) => IF f = 0 THEN \E ret \in Int : Answer("read", f, TRUE, ret)
                              ELSE Answer("read", f, FALSE, -1)
         /\ Direct!write(f) => IF f \in {1, 2} THEN \E ret \in Int : Answer("write", f, TRUE, ret)
                               ELSE Answer("write", f, FALSE, -1)
         /\ \A req : Direct!ioctl(f, req) =>
              IF f \in {0, 1, 2} THEN \E ret \in Int : Answer(req, f, TRUE, ret)
              ELSE Answer(req, f, FALSE, -1)
         /\ Direct!fstat(f) => Answer("fstat", f, FALSE, IF f \in {0, 1, 2} THEN 0 ELSE -1)
         /\ Direct!isatty(f) => Answer("isatty", f, FALSE, IF f \in {0, 1, 2} THEN 1 ELSE 0)
         /\ Direct!lseek(f) => Answer("lseek", f, FALSE, -1)
         /\ Direct!close(f) => Answer("close", f, FALSE, -1)
<1>1. ASSUME NEW name, Direct!DriverAnswers(name, f)
      PROVE  \E ret \in Int : Answer(name, f, TRUE, ret)
  <2>1. PICK ret \in {-5, 0, 3} : Direct!Succeeds(name, f, ret, TRUE)
    BY <1>1 DEF Direct!DriverAnswers
  <2>2. ret \in Int /\ Answer(name, f, TRUE, ret)
    BY <2>1 DEF Direct!Succeeds, Direct!Returns, Answer
  <2>3. QED
    BY <2>2
<1>2. ASSUME NEW name, NEW error, Direct!Fails(name, f, error) PROVE Answer(name, f, FALSE, -1)
  BY <1>2 DEF Direct!Fails, Direct!Returns, Answer
<1>3. Direct!Std = {0, 1, 2} /\ Direct!Std \ {0} = {1, 2}
  BY StdIs
<1>4. Direct!read(f) => IF f = 0 THEN \E ret \in Int : Answer("read", f, TRUE, ret)
                        ELSE Answer("read", f, FALSE, -1)
  BY <1>1, <1>2, <1>3 DEF Direct!read
<1>5. Direct!write(f) => IF f \in {1, 2} THEN \E ret \in Int : Answer("write", f, TRUE, ret)
                         ELSE Answer("write", f, FALSE, -1)
  BY <1>1, <1>2, <1>3 DEF Direct!write
<1>6. ASSUME NEW req, Direct!ioctl(f, req)
      PROVE  IF f \in {0, 1, 2} THEN \E ret \in Int : Answer(req, f, TRUE, ret)
             ELSE Answer(req, f, FALSE, -1)
  BY <1>1, <1>2, <1>3, <1>6 DEF Direct!ioctl
<1>7. Direct!fstat(f) => Answer("fstat", f, FALSE, IF f \in {0, 1, 2} THEN 0 ELSE -1)
  BY <1>3 DEF Direct!fstat, Direct!Succeeds, Direct!Returns, Answer
<1>8. Direct!isatty(f) => Answer("isatty", f, FALSE, IF f \in {0, 1, 2} THEN 1 ELSE 0)
  BY <1>3 DEF Direct!isatty, Direct!Succeeds, Direct!Returns, Answer
<1>9. Direct!lseek(f) => Answer("lseek", f, FALSE, -1)
  BY <1>2 DEF Direct!lseek, Direct!Stub
<1>10. Direct!close(f) => Answer("close", f, FALSE, -1)
  BY <1>2 DEF Direct!close, Direct!Stub
<1>11. QED
  BY <1>4, <1>5, <1>6, <1>7, <1>8, <1>9, <1>10

\* Every call on a descriptor records it.
LEMMA DirectArg ==
  ASSUME NEW f, OnDescriptor(f)
  PROVE  direct_call'.arg = f
<1>1. ASSUME NEW name, NEW asked, NEW ret, Answer(name, f, asked, ret)
      PROVE  direct_call'.arg = f
  BY <1>1 DEF Answer
<1>2. CASE Direct!read(f)
  BY <1>1, <1>2, DirectAnswers
<1>3. CASE Direct!write(f)
  BY <1>1, <1>3, DirectAnswers
<1>4. ASSUME NEW req, Direct!ioctl(f, req) PROVE direct_call'.arg = f
  <2>1. IF f \in {0, 1, 2} THEN \E ret \in Int : Answer(req, f, TRUE, ret)
        ELSE Answer(req, f, FALSE, -1)
    BY <1>4, DirectAnswers
  <2>2. QED
    BY <1>1, <2>1
<1>5. CASE Direct!fstat(f)
  BY <1>1, <1>5, DirectAnswers
<1>6. CASE Direct!isatty(f)
  BY <1>1, <1>6, DirectAnswers
<1>7. CASE Direct!lseek(f)
  BY <1>1, <1>7, DirectAnswers
<1>8. CASE Direct!close(f)
  BY <1>1, <1>8, DirectAnswers
<1>9. QED
  BY <1>2, <1>3, <1>4, <1>5, <1>6, <1>7, <1>8 DEF OnDescriptor

\* Two answers that agree: both ask the driver, which answers both alike, or neither does.
Agree == (Asked' <=> TableAsked') /\ (Succeeded' <=> TableSucceeded')

LEMMA Agreed ==
  ASSUME NEW name \in Alike, direct_call'.name = name, Agree
  PROVE  AsWithTable'
<1>1. name \notin Exclusive
  BY DEF Alike, Exclusive, DriverRequest
<1>2. QED
  BY <1>1 DEF AsWithTable, Agree

LEMMA BothAsk ==
  ASSUME NEW name \in Alike, NEW f, NEW ret, Answer(name, f, TRUE, ret),
         Asked' /\ TableAsked' => (Succeeded' <=> TableSucceeded'), call'.callback # NoCallback
  PROVE  AsWithTable'
BY Agreed DEF Answer, Agree, Asked, TableAsked

LEMMA BothFail ==
  ASSUME NEW name \in Alike, NEW f, Answer(name, f, FALSE, -1), TableAnswer(FALSE, FALSE)
  PROVE  AsWithTable'
<1>1. direct_call'.name = name /\ direct_call'.ret = -1 /\ ~Asked' /\ ~TableAsked' /\ ~TableSucceeded'
  BY DEF Answer, TableAnswer, Asked, TableAsked, TableSucceeded
<1>2. ~(-1 >= 0) /\ -1 # 1
  OBVIOUS
<1>3. ~Succeeded'
  BY <1>1, <1>2 DEF Succeeded
<1>4. QED
  BY <1>1, <1>3, Agreed DEF Agree

\* The calls of both builds on a standard descriptor, and on -1.
LEMMA StdAgree ==
  ASSUME UpTo, phase = "run", NEW f \in 0 .. 2, OnDescriptor(f)
  PROVE  AsWithTable' /\ TableCall(f)
<1>1. f \in {0, 1, 2} /\ (f # 0 => f \in {1, 2}) /\ (f = 0 => f \notin {1, 2})
  OBVIOUS
<1>2. "read" \in Alike /\ "write" \in Alike /\ "fstat" \in Alike /\ "isatty" \in Alike
      /\ "lseek" \in Alike /\ DriverRequest \subseteq Alike
  BY DEF Alike
<1>3. ASSUME NEW ACTION A, Beside(f, A)
      PROVE  A /\ (Asked' /\ TableAsked' => (Succeeded' <=> TableSucceeded'))
  <2>1. f \in 0 .. 2 /\ f # -1 /\ f \in -1 .. 2
    OBVIOUS
  <2>2. QED
    BY <1>3, <2>1 DEF Beside
<1>4. CASE Direct!read(f) /\ Beside(f, ALT_READ(f))
  <2>1. ALT_READ(f) /\ (Asked' /\ TableAsked' => (Succeeded' <=> TableSucceeded'))
    BY <1>3, <1>4
  <2>2. CASE f = 0
    BY <1>2, <1>4, <2>1, <2>2, DirectAnswers, TableAnswers, BothAsk DEF TableCall
  <2>3. CASE f # 0
    BY <1>2, <1>4, <2>1, <2>3, DirectAnswers, TableAnswers, BothFail DEF TableCall
  <2>4. QED
    BY <2>2, <2>3
<1>5. CASE Direct!write(f) /\ Beside(f, ALT_WRITE(f))
  <2>1. ALT_WRITE(f) /\ (Asked' /\ TableAsked' => (Succeeded' <=> TableSucceeded'))
    BY <1>3, <1>5
  <2>2. CASE f = 0
    BY <1>1, <1>2, <1>5, <2>1, <2>2, DirectAnswers, TableAnswers, BothFail DEF TableCall
  <2>3. CASE f # 0
    BY <1>1, <1>2, <1>5, <2>1, <2>3, DirectAnswers, TableAnswers, BothAsk DEF TableCall
  <2>4. QED
    BY <2>2, <2>3
<1>6. ASSUME NEW req \in DriverRequest, Direct!ioctl(f, req) /\ Beside(f, ALT_IOCTL(f))
      PROVE  AsWithTable' /\ TableCall(f)
  <2>1. ALT_IOCTL(f) /\ (Asked' /\ TableAsked' => (Succeeded' <=> TableSucceeded'))
    BY <1>3, <1>6
  <2>2. call'.callback # NoCallback /\ req \in Alike
    BY <1>2, <2>1, TableAnswers
  <2>3. \E ret \in Int : Answer(req, f, TRUE, ret)
    BY <1>1, <1>6, DirectAnswers
  <2>4. QED
    BY <2>1, <2>2, <2>3, BothAsk DEF TableCall
<1>7. ASSUME NEW req \in Exclusive, Direct!ioctl(f, req), Lock(f) \/ alt_fd_unlock(f)
      PROVE  AsWithTable'
  <2>1. call'.callback = NoCallback
    BY <1>7, TableAnswers
  <2>2. PICK ret \in Int : Answer(req, f, TRUE, ret)
    BY <1>1, <1>7, DirectAnswers
  <2>3. direct_call'.name = req /\ Asked' /\ ~TableAsked'
    BY <2>1, <2>2 DEF Answer, Asked, TableAsked
  <2>4. req \notin Alike
    BY DEF Alike, Exclusive, DriverRequest
  <2>5. QED
    BY <2>3, <2>4 DEF AsWithTable
<1>8. CASE Direct!ioctl(f, "TIOCEXCL") /\ Beside(f, Lock(f))
  <2>1. Lock(f) /\ "TIOCEXCL" \in Exclusive
    BY <1>3, <1>8 DEF Exclusive
  <2>2. QED
    BY <1>7, <1>8, <2>1 DEF TableCall
<1>9. CASE Direct!ioctl(f, "TIOCNXCL") /\ Beside(f, alt_fd_unlock(f))
  <2>1. alt_fd_unlock(f) /\ "TIOCNXCL" \in Exclusive
    BY <1>3, <1>9 DEF Exclusive
  <2>2. QED
    BY <1>7, <1>9, <2>1 DEF TableCall
<1>10. CASE Direct!fstat(f) /\ Beside(f, ALT_FSTAT(f))
  <2>1. ALT_FSTAT(f)
    BY <1>3, <1>10
  <2>2. Answer("fstat", f, FALSE, 0) /\ TableAnswer(FALSE, TRUE)
    BY <1>1, <1>10, <2>1, DirectAnswers, TableAnswers
  <2>3. Agree
    BY <2>2 DEF Answer, TableAnswer, Agree, Asked, TableAsked, Succeeded, TableSucceeded
  <2>4. QED
    BY <1>2, <2>1, <2>2, <2>3, Agreed DEF TableCall, Answer
<1>11. CASE Direct!isatty(f) /\ Beside(f, ALT_ISATTY(f))
  <2>1. ALT_ISATTY(f)
    BY <1>3, <1>11
  <2>2. Answer("isatty", f, FALSE, 1) /\ TableAnswer(FALSE, TRUE)
    BY <1>1, <1>11, <2>1, DirectAnswers, TableAnswers
  <2>3. Agree
    BY <2>2 DEF Answer, TableAnswer, Agree, Asked, TableAsked, Succeeded, TableSucceeded
  <2>4. QED
    BY <1>2, <2>1, <2>2, <2>3, Agreed DEF TableCall, Answer
<1>12. CASE Direct!lseek(f) /\ Beside(f, ALT_LSEEK(f))
  <2>1. ALT_LSEEK(f)
    BY <1>3, <1>12
  <2>2. QED
    BY <1>2, <1>12, <2>1, DirectAnswers, TableAnswers, BothFail DEF TableCall
<1>13. CASE Direct!close(f) /\ Beside(f, ALT_CLOSE(f))
  <2>1. ALT_CLOSE(f)
    BY <1>3, <1>13
  <2>2. Answer("close", f, FALSE, -1)
    BY <1>13, DirectAnswers
  <2>3. direct_call'.name = "close"
    BY <2>2 DEF Answer
  <2>4. QED
    BY <2>1, <2>3 DEF AsWithTable, Alike, Exclusive, DriverRequest, TableCall
<1>14. QED
  BY <1>4, <1>5, <1>6, <1>8, <1>9, <1>10, <1>11, <1>12, <1>13 DEF OnDescriptor

LEMMA BadAgree ==
  ASSUME OnDescriptor(-1)
  PROVE  AsWithTable' /\ BadDescriptor
<1>1. -1 \notin {0, 1, 2} /\ -1 \notin {1, 2} /\ -1 # 0 /\ -1 \notin 0 .. 2 /\ -1 \in -1 .. 2
  OBVIOUS
<1>2. BadDescriptor
  BY <1>1 DEF OnDescriptor, Beside
<1>3. TableAnswer(FALSE, FALSE)
  BY <1>2, BadAnswers
<1>4. DriverRequest \cup {"read", "write", "lseek"} \subseteq Alike
  BY DEF Alike
<1>5. ASSUME NEW name \in DriverRequest \cup {"read", "write", "lseek"}, Answer(name, -1, FALSE, -1)
      PROVE  AsWithTable'
  BY <1>3, <1>4, <1>5, BothFail
<1>6. ASSUME NEW name \in Exclusive \cup {"close"}, Answer(name, -1, FALSE, -1)
      PROVE  AsWithTable'
  <2>1. direct_call'.name = name /\ direct_call'.arg = -1 /\ name \notin Alike
    BY <1>6 DEF Answer, Alike, Exclusive, DriverRequest
  <2>2. QED
    BY <1>1, <2>1 DEF AsWithTable
<1>7. ASSUME Answer("fstat", -1, FALSE, -1) PROVE AsWithTable'
  BY <1>3, <1>7, BothFail DEF Alike
<1>8. ASSUME Answer("isatty", -1, FALSE, 0) PROVE AsWithTable'
  <2>1. Agree /\ direct_call'.name = "isatty"
    BY <1>3, <1>8 DEF Answer, TableAnswer, Agree, Asked, TableAsked, Succeeded, TableSucceeded
  <2>2. QED
    BY <2>1, Agreed DEF Alike
<1>9. Exclusive = {"TIOCEXCL", "TIOCNXCL"}
  BY DEF Exclusive
<1>10. QED
  BY <1>1, <1>2, <1>5, <1>6, <1>7, <1>8, <1>9, DirectAnswers DEF OnDescriptor

LEMMA Call_Both ==
  ASSUME BothInv, build = "both", BothCall, UNCHANGED build
  PROVE  BothInv' /\ AsWithTable'
<1>1. Inv /\ UpTo /\ phase = "run"
  BY DEF BothInv, BothCall
<1>2. CASE Direct!OtherCalls /\ UNCHANGED vars
  <2>1. direct_call'.name \in {"open", "execve", "fork", "link", "rename", "unlink"}
          \cup {"wait", "getpid", "kill", "_exit"}
    BY <1>2 DEF Direct!OtherCalls, Direct!open, Direct!execve, Direct!fork, Direct!link,
       Direct!rename, Direct!unlink, Direct!wait, Direct!getpid, Direct!kill, Direct!Stub,
       Direct!Fails, Direct!Succeeds, Direct!Returns
  <2>2. AsWithTable'
    BY <2>1 DEF AsWithTable, Alike, Exclusive, DriverRequest
  <2>3. Inv' /\ UpTo' /\ phase' = "run"
    BY <1>1, <1>2, Same_Step DEF vars, table, Step, UpTo, AtConsole
  <2>4. QED
    BY <2>2, <2>3 DEF BothInv
<1>3. ASSUME NEW f \in File, OnDescriptor(f) PROVE BothInv' /\ AsWithTable'
  <2>1. CASE f \in 0 .. 2
    <3>1. AsWithTable' /\ TableCall(f)
      BY <1>1, <1>3, <2>1, StdAgree
    <3>2. Inv' /\ UpTo' /\ phase' = "run"
      BY <1>1, <2>1, <3>1, Call_Keeps
    <3>3. QED
      BY <3>1, <3>2 DEF BothInv
  <2>2. CASE f = -1
    <3>1. AsWithTable' /\ BadDescriptor
      BY <1>3, <2>2, BadAgree
    <3>2. Inv' /\ UpTo' /\ phase' = "run"
      BY <1>1, <3>1, Same_Step DEF BadDescriptor, Same, table, Step, UpTo, AtConsole
    <3>3. QED
      BY <3>1, <3>2 DEF BothInv
  <2>3. CASE f \notin -1 .. 2
    <3>1. f \notin 0 .. 2 /\ f # -1
      BY <2>3
    <3>2. UNCHANGED vars
      BY <1>3, <3>1 DEF OnDescriptor, Beside
    <3>3. direct_call'.arg = f
      BY <1>3, DirectArg
    <3>4. AsWithTable'
      <4>1. f \notin 0 .. 2 /\ f \notin -1 .. 2
        BY <2>3
      <4>2. QED
        BY <3>3, <4>1 DEF AsWithTable
    <3>5. Inv' /\ UpTo' /\ phase' = "run"
      BY <1>1, <3>2, Same_Step DEF vars, table, Step, UpTo, AtConsole
    <3>6. QED
      BY <3>4, <3>5 DEF BothInv
  <2>4. QED
    BY <2>1, <2>2, <2>3
<1>4. QED
  BY <1>2, <1>3 DEF BothCall

(* With the console at the three standard descriptors, as the redirection leaves it, *)
(* reads, writes, seeks, status calls and the driver's own requests come to the same *)
(* in both builds; requests for exclusive access reach the driver only without the   *)
(* table.                                                                            *)
THEOREM CallsAsWithTable == FilesSpec => []AsWithTable
<1>1. FilesInit => BothInv /\ AsWithTable
  <2> SUFFICES ASSUME FilesInit PROVE BothInv /\ AsWithTable
    OBVIOUS
  <2>1. Inv /\ direct_call.name = "none" /\ build \in {"table", "both"}
    BY Init_Inv DEF FilesInit, Direct!CallsInit
  <2>2. phase = "init" /\ dev = [f \in Fd |-> IF f <= 2 THEN alt_dev_null ELSE None]
    BY DEF FilesInit, TableInit
  <2>3. \A f \in Fd : f > 2 => ~(f <= 2)
    BY FdType
  <2>4. UpTo
    BY <2>2, <2>3 DEF UpTo
  <2>5. QED
    BY <2>1, <2>4 DEF BothInv, AsWithTable, Alike, Exclusive, DriverRequest
<1>2. BothInv /\ AsWithTable /\ [FilesNext]_<< build, vars, directVars >> => (BothInv /\ AsWithTable)'
  <2> SUFFICES ASSUME BothInv, AsWithTable, [FilesNext]_<< build, vars, directVars >>
      PROVE  BothInv' /\ AsWithTable'
    OBVIOUS
  <2>1. CASE UNCHANGED << build, vars, directVars >>
    <3>1. Inv'
      BY <2>1, Same_Step DEF BothInv, vars, Step
    <3>2. /\ build' = build /\ dev' = dev /\ fd_flags' = fd_flags /\ phase' = phase /\ call' = call
          /\ direct_call' = direct_call
      BY <2>1 DEF vars, table, directVars
    <3>3. UpTo => UpTo'
      BY <3>2 DEF UpTo, AtConsole
    <3>4. BothInv'
      BY <3>1, <3>2, <3>3 DEF BothInv
    <3>5. AsWithTable'
      BY <3>2 DEF AsWithTable, Asked, TableAsked, Succeeded, TableSucceeded
    <3>6. QED
      BY <3>4, <3>5
  <2>2. CASE build = "table" /\ TableNext /\ UNCHANGED << build, directVars >>
    <3>1. Inv'
      BY <2>2, Next_Step DEF BothInv, Step
    <3>2. direct_call' = direct_call /\ build' = build /\ direct_call.name = "none"
      BY <2>2 DEF directVars, BothInv
    <3>3. AsWithTable'
      BY <3>2 DEF AsWithTable, Alike, Exclusive, DriverRequest
    <3>4. QED
      BY <2>2, <3>1, <3>2, <3>3 DEF BothInv
  <2>3. CASE build = "both" /\ BringUp /\ UNCHANGED << build, directVars >>
    BY <2>3, BringUp_Both
  <2>4. CASE build = "both" /\ BothCall /\ UNCHANGED build
    BY <2>4, Call_Both
  <2>5. QED
    BY <2>1, <2>2, <2>3, <2>4 DEF FilesNext
<1>3. QED
  BY <1>1, <1>2, PTL DEF FilesSpec
===============================================================================
