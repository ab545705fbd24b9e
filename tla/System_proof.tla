------------------------------ MODULE System_proof ------------------------------
(* The services around the program, for any instance of them: what main finds      *)
(* after any reset, what an open by name gives, what the log prints while interrupt *)
(* routines print through the same buffer, and what it prints of an argument.       *)
EXTENDS MCSystem, TLAPS, SequenceTheorems, WellFoundedInduction

\* A set of numbers that is not empty has a least one.
LEMMA Smallest ==
  ASSUME NEW S \in SUBSET Nat, NEW n \in S
  PROVE  \E m \in S : \A k \in S : m <= k
<1> DEFINE R == OpToRel(<, Nat)
<1>1. IsWellFoundedOn(R, Nat)
  BY NatLessThanWellFounded, Zenon DEF OpToRel
<1>2. \A i, j \in Nat : << i, j >> \in R <=> i < j
  BY DEF OpToRel
<1>3. PICK m \in S : \A k \in S : ~(<< k, m >> \in R)
  BY <1>1, WFMin
<1>4. \A k \in S : m \in Nat /\ k \in Nat /\ ~(k < m)
  BY <1>2, <1>3
<1>5. QED
  BY <1>4

----------------------------------------------------------------------------
(* Devices: a list has the newest device first, so the first of a name is the       *)
(* newest of that name.                                                             *)
Entry == [dev : Nat \ {0}, name : Name, open : BOOLEAN]
Handle == [name : Name \cup {NoName}, dev : Nat, newest : Nat, closed : BOOLEAN]

NewestFirst(queue) ==
  /\ queue \in Seq(Entry)
  /\ \A i \in 1 .. Len(queue) : queue[i].dev <= made
  /\ \A i, j \in 1 .. Len(queue) : i < j => queue[j].dev < queue[i].dev

DevInv ==
  /\ made \in Nat
  /\ DOMAIN list = Kind /\ \A kind \in Kind : NewestFirst(list[kind])
  /\ opened \in [Kind -> Handle]
  /\ Dev!OpenedIsNewest

----------------------------------------------------------------------------
(* Start-up: how far it is. *)
ToIrq == {"bss", "load", "irq_init"}
ToInit == ToIrq \cup {"sys_init"}
ToRedirect == ToInit \cup {"redirect"}
ToCtors == ToRedirect \cup {"ctors"}
ToMain == ToCtors \cup {"atexit"}
Loaded == ToMain \ {"bss", "load"}
InMain == {"main", "close", "dtors", "exit", "spin"}

\* What has been copied so far of section j.
CopiedTo(j, at) ==
  IF j < at.section THEN Boot!Range(Sections[j])
  ELSE IF j = at.section THEN Sections[j].to .. Sections[j].to + at.k - 1
  ELSE {}

\* Nothing but the variables is ever stored in; .bss is zero up to the cursor and the
\* copied sections are as their images up to the cursor.
MemoryInv ==
  /\ DOMAIN memory = Boot!Address
  /\ \A a \in Boot!Address \ Boot!Variables : memory[a] = Image[a]
  /\ cursor \in [section : 1 .. Len(Sections), k : Nat]
  /\ pc = "bss" => cursor.section = 1 /\ \A a \in Bss : a < Boot!BssStart + cursor.k => memory[a] = 0
  /\ pc \in Loaded \cup {"load"} =>
       \A a \in Bss : memory[a] = 0
  /\ pc = "load" => \A j \in Boot!Copied :
       /\ j = cursor.section => Sections[j].to + cursor.k <= Sections[j].end
       /\ \A a \in CopiedTo(j, cursor) : memory[a] = Image[Boot!FromImage(Sections[j], a)]
  /\ pc \in Loaded =>
       \A j \in Boot!Copied : \A a \in Boot!Range(Sections[j]) :
          memory[a] = Image[Boot!FromImage(Sections[j], a)]

\* What each step of alt_main leaves for the ones after it.
OrderInv ==
  /\ pc \in ToMain \cup InMain
  /\ build \in [NO_EXIT : BOOLEAN, NO_CLEAN_EXIT : BOOLEAN, NO_C_PLUS_PLUS : BOOLEAN, DIRECT : BOOLEAN]
  /\ atexit \in BOOLEAN /\ constructed \in Seq(Nat) /\ destroyed \in Seq(Nat)
  /\ Len(constructed) <= Constructors /\ Len(destroyed) <= Constructors
  /\ mains = IF pc \in InMain THEN 1 ELSE 0
  /\ pc \notin ToIrq => pie
  /\ pc \notin ToInit => drivers
  /\ pc \notin ToRedirect => redirected \/ build.DIRECT
  /\ build.NO_C_PLUS_PLUS => constructed = << >>
  /\ pc \notin ToCtors => Len(constructed) = IF build.NO_C_PLUS_PLUS THEN 0 ELSE Constructors
  /\ destroyed # << >> => pc \in {"dtors", "exit", "spin"} /\ atexit
  /\ pc \in {"close", "dtors", "exit"} => ~build.NO_EXIT
  /\ pc \in {"dtors", "exit"} => closed \/ build.DIRECT
  /\ destroyed # << >> => closed \/ build.DIRECT
  /\ pc \in {"exit", "spin"} /\ ~build.NO_EXIT => Len(destroyed) = IF atexit THEN Constructors ELSE 0
  /\ halts = IF pc = "spin" /\ ~build.NO_EXIT THEN 1 ELSE 0

BootInv == MemoryInv /\ OrderInv

----------------------------------------------------------------------------
(* The log.  A call writes its text into the buffer, makes D of Ctrl-D, and prints    *)
(* up to a NUL; an interrupt may have written another text into it by then.           *)
Writing == {"copy", "newline", "return", "end"}
Escaping == {"look", "escape"}
Printing == {"test", "fetch", "poll", "put"}
Last == ALT_LOG_WRITE_ECHO_LEN + 1
Call == [pc : {"idle"} \cup Writing \cup Escaping \cup Printing,
         data : Seq(Char), k : Nat, c : Char]

\* What an echo of data leaves at place i of the buffer before and after its Ctrl-D are
\* escaped, and the characters it prints.
Raw(data, i) ==
  IF i < length(data) - 1 THEN Copied(data, i)
  ELSE IF i = length(data) - 1 THEN "NL" ELSE IF i = length(data) THEN "CR" ELSE "NUL"
Final(data, i) == IF Raw(data, i) = "EOT" THEN "D" ELSE Raw(data, i)
Stream(data, j) == IF j = 1 THEN "text" ELSE Final(data, j - 2)
Upto(data, n) == [j \in 1 .. n |-> Stream(data, j)]

\* Where in the buffer a call is.
Within(c) ==
  /\ c.data = << >> => c.pc \in {"idle", "poll", "put"}
  /\ c.data # << >> => length(c.data) >= 2
  /\ c.pc \in {"copy"} \cup Escaping => c.k < length(c.data)
  /\ c.pc \in {"newline", "return", "end"} => c.k = length(c.data)
  /\ c.pc \in Printing => c.k <= Last
  /\ c.pc = "fetch" => c.k < Last
  /\ c.pc \in {"poll", "put"} => c.c # "EOT"

\* A call nobody interrupted finds in the buffer b what it wrote.
Own(c, b) ==
  LET n == length(c.data) IN
  /\ c.pc \in {"copy", "newline"} => \A i \in 0 .. c.k - 1 : b[i] = Copied(c.data, i)
  /\ c.pc = "return" => \A i \in 0 .. n - 1 : b[i] = Raw(c.data, i)
  /\ c.pc = "end" => \A i \in 0 .. n : b[i] = Raw(c.data, i)
  /\ c.pc \in Escaping =>
       \A i \in 0 .. n + 1 : b[i] = IF i < c.k THEN Final(c.data, i) ELSE Raw(c.data, i)
  /\ c.pc = "escape" => b[c.k] = "EOT"
  /\ c.pc \in Printing /\ c.data # << >> => \A i \in 0 .. n + 1 : b[i] = Final(c.data, i)

\* s is the first n characters of it, but for those that were lost.
OwnText(s, data, n) == Len(s) = n /\ \A j \in 1 .. n : s[j] \in {Stream(data, j), "lost"}

\* ... and has sent s of it.
Told(c, s) ==
  c.data # << >> =>
    /\ c.pc \in Writing \cup Escaping => s = << >>
    /\ c.pc \in Printing => \A i \in 0 .. c.k - 1 : Final(c.data, i) # "NUL"
    /\ c.pc \in {"poll", "put"} => OwnText(s, c.data, c.k) /\ c.c = Stream(c.data, c.k + 1)
    /\ c.pc \in {"test", "fetch"} => OwnText(s, c.data, c.k + 1)
    /\ c.pc = "fetch" => Final(c.data, c.k) # "NUL"
    /\ c.pc = "idle" => \E n \in Nat : OwnText(s, c.data, n) /\ Upto(c.data, n) = Echo(c.data)

\* How much a call at c has sent, whatever it is.
Counted(c, s) ==
  c.data # << >> =>
    /\ c.pc \in Writing \cup Escaping => Len(s) = 0
    /\ c.pc \in {"poll", "put"} => Len(s) = c.k
    /\ c.pc \in {"test", "fetch"} => Len(s) = c.k + 1
    /\ c.pc = "idle" => Len(s) <= Last + 1

\* The n characters a call had fetched of its own echo when another one took the buffer:
\* all are sent, but the last may still be on its way.
CutOff(c, s, n) ==
  c.data # << >> /\ n # -1 =>
    /\ n \in Nat /\ n <= Len(Echo(c.data))
    /\ \A i \in 1 .. n : i <= Len(s) => s[i] \in {Echo(c.data)[i], "lost"}
    /\ n > Len(s) => c.pc \in {"poll", "put"} /\ n = Len(s) + 1 /\ c.c = Echo(c.data)[n]

\* The last place the call c of an interrupt routine writes, or -1.
Reach(c) == IF c.pc = "idle" \/ c.data = << >> THEN -1 ELSE length(c.data) + 1

\* When an interrupt routine that writes up to place r has returned, the program's call c
\* will find a NUL at k and no Ctrl-D before it that it does not look for itself.
EndsAt(c, b, r, k) ==
  /\ k > r => b[k] = "NUL"
  /\ \A i \in Index : r < i /\ i <= k
       /\ ~(c.pc \in Escaping /\ c.k <= i /\ i < length(c.data)) => b[i] # "EOT"
Ends(c, b, r, least) == \E k \in Index : least <= k /\ EndsAt(c, b, r, k)
Clean(c, b, r) ==
  /\ c.pc = "end" => length(c.data) <= r \/ b[length(c.data)] # "EOT"
  /\ c.pc \in Escaping => Ends(c, b, r, length(c.data) + 1)
  /\ c.pc = "fetch" => Ends(c, b, r, c.k + 1)
  /\ c.pc \in Printing /\ c.data # << >> => Ends(c, b, r, c.k)

PortTypes ==
  /\ ALT_LOG_FLAGS \in -1 .. 3 /\ room \in Nat /\ lost \in Nat /\ hits \in Nat /\ cut \in Int
  /\ alt_log_write_buf \in [Index -> Char] /\ call \in [Who -> Call]
  /\ sent \in [Who -> Seq(Char \cup {"lost"})]

\* A character is lost only between the look at the port and the write, to an interrupt.
LostOK ==
  /\ lost <= hits
  /\ call["program"].pc = "put" /\ room = 0 => lost < hits
  /\ call["isr"].pc # "idle" /\ call["program"].pc # "idle" => lost < hits
  /\ call["isr"].pc = "put" => room > 0

Silent ==
  ALT_LOG_FLAGS = -1 => \A w \in Who : call[w].pc = "idle" /\ sent[w] = << >>

ClockOK ==
  /\ alt_log_sys_clk_count \in 0 .. Interval /\ alt_system_clock_in_sec \in Nat /\ ticks \in Nat
  /\ alt_system_clock_in_sec * (Interval + 1) + alt_log_sys_clk_count = ticks

\* An echo of an interrupt routine that the program waits for has taken the buffer.
Overtaken ==
  call["isr"].pc # "idle" /\ call["isr"].data # << >> /\ call["program"].pc # "idle" => cut # -1

Kept(w) == Own(call[w], alt_log_write_buf) /\ Told(call[w], sent[w])
PortInv ==
  /\ PortTypes /\ alt_log_write_buf[Last] = "NUL"
  /\ \A w \in Who : Within(call[w]) /\ \A i \in DOMAIN sent[w] : sent[w][i] # "EOT"
  /\ Kept("isr") /\ (cut = -1 => Kept("program"))
  /\ \A i \in DOMAIN sent["isr"] : sent["isr"][i] # "lost"
  /\ \A w \in Who : Counted(call[w], sent[w])
  /\ CutOff(call["program"], sent["program"], cut) /\ Overtaken
  /\ Clean(call["program"], alt_log_write_buf, Reach(call["isr"]))
  /\ LostOK /\ Silent /\ ClockOK

----------------------------------------------------------------------------
(* Devices, step by step. *)

\* The first device of a name is the newest of that name.
LEMMA FirstIsNewest ==
  ASSUME NEW kind \in Kind, NEW name \in Name, NewestFirst(list[kind])
  PROVE  /\ Dev!alt_find_dev(kind, name).dev = Dev!Newest(kind, name)
         /\ Dev!alt_find_dev(kind, name).dev \in Nat
         /\ Dev!alt_find_dev(kind, name).dev # 0 =>
              \E k \in DOMAIN list[kind] :
                /\ list[kind][k] = Dev!alt_find_dev(kind, name)
                /\ list[kind][k].name = name
<1> DEFINE queue == list[kind]
           S == Dev!Named(kind, name)
           D == {queue[k].dev : k \in S}
<1>1. /\ queue \in Seq(Entry) /\ DOMAIN queue = 1 .. Len(queue) /\ Len(queue) \in Nat
      /\ S = {k \in 1 .. Len(queue) : queue[k].name = name}
  BY LenProperties DEF NewestFirst, Dev!Named
<1>2. \A k \in S : queue[k] \in Entry
  BY <1>1, ElementOfSeq
<1>3. CASE S = {}
  <2>1. D = {}
    BY <1>3
  <2>2. QED
    BY <1>3, <2>1 DEF Dev!alt_find_dev, Dev!Newest, Dev!NULL
<1>4. CASE S # {}
  <2>1. S \in SUBSET Nat
    BY <1>1
  <2>2. PICK m \in S : \A k \in S : m <= k
    BY <1>4, <2>1, Smallest
  <2>3. \A k \in S : (\A j \in S : k <= j) => k = m
    BY <2>1, <2>2
  <2>4. (CHOOSE k \in S : \A j \in S : k <= j) = m
    BY <2>2, <2>3
  <2>5. Dev!alt_find_dev(kind, name) = queue[m]
    BY <1>4, <2>4 DEF Dev!alt_find_dev
  <2>6. /\ queue[m].dev \in D /\ queue[m].dev \in Nat /\ queue[m].dev # 0
        /\ \A e \in D : e \in Nat /\ queue[m].dev >= e
    <3>1. queue[m].dev \in D /\ queue[m].dev \in Nat /\ queue[m].dev # 0
      BY <1>2, <2>2 DEF Entry
    <3>2. ASSUME NEW k \in S PROVE queue[k].dev \in Nat /\ queue[m].dev >= queue[k].dev
      <4>1. queue[k].dev \in Nat
        BY <1>2 DEF Entry
      <4>2. k # m => queue[k].dev < queue[m].dev
        BY <1>1, <2>1, <2>2 DEF NewestFirst
      <4>3. QED
        BY <3>1, <4>1, <4>2
    <3>3. QED
      BY <3>1, <3>2
  <2>7. \A d \in D : (\A e \in D : d >= e) => d = queue[m].dev
    <3>1. SUFFICES ASSUME NEW d \in D, \A e \in D : d >= e PROVE d = queue[m].dev
      OBVIOUS
    <3>2. d >= queue[m].dev /\ queue[m].dev >= d /\ d \in Nat /\ queue[m].dev \in Nat
      BY <2>6, <3>1
    <3>3. QED
      BY <3>2
  <2>8. Dev!Newest(kind, name) = queue[m].dev
    BY <2>6, <2>7 DEF Dev!Newest
  <2>9. QED
    BY <1>1, <2>2, <2>5, <2>6, <2>8
<1>5. QED
  BY <1>3, <1>4

LEMMA DevInit == Dev!DevicesInit => DevInv
<1>1. SUFFICES ASSUME Dev!DevicesInit PROVE DevInv
  OBVIOUS
<1>2. \A kind \in Kind : list[kind] = << >>
  BY <1>1 DEF Dev!DevicesInit
<1>3. << >> \in Seq(Entry) /\ Len(<< >>) = 0
  BY EmptySeq
<1>4. \A kind \in Kind : NewestFirst(list[kind])
  <2>1. SUFFICES ASSUME NEW kind \in Kind PROVE NewestFirst(list[kind])
    OBVIOUS
  <2>2. 1 .. Len(list[kind]) = {}
    BY <1>2, <1>3
  <2>3. QED
    BY <1>2, <1>3, <2>2 DEF NewestFirst
<1>5. opened \in [Kind -> Handle] /\ Dev!OpenedIsNewest
  BY <1>1 DEF Dev!DevicesInit, Dev!NULL, Handle, Dev!OpenedIsNewest
<1>6. QED
  BY <1>1, <1>4, <1>5 DEF DevInv, Dev!DevicesInit

\* A device put in front is newer than all there are.
LEMMA Registers ==
  ASSUME DevInv, NEW kind \in Kind, NEW open \in BOOLEAN, Dev!Register(kind, open)
  PROVE  DevInv'
<1>1. PICK name \in Name \cup {NoName} :
        /\ IF name = NoName THEN result' = Dev!EINVAL /\ UNCHANGED << list, made >>
           ELSE /\ made' = made + 1 /\ result' = 0
                /\ list' = [list EXCEPT ![kind] = Dev!alt_llist_insert(@,
                              [dev |-> made + 1, name |-> name, open |-> open])]
        /\ UNCHANGED opened
  BY DEF Dev!Register
<1>2. CASE name = NoName
  BY <1>1, <1>2 DEF DevInv, NewestFirst, Dev!OpenedIsNewest, Dev!MayRefuse
<1>3. CASE name # NoName
  <2> DEFINE new == [dev |-> made + 1, name |-> name, open |-> open]
             old == list[kind]
             queue == << new >> \o old
  <2>1. made \in Nat /\ new \in Entry /\ new.dev = made + 1 /\ new.name = name
    BY <1>3 DEF DevInv, Entry
  <2>2. made' = made + 1 /\ DOMAIN list' = Kind /\ list'[kind] = queue
        /\ \A other \in Kind : other # kind => list'[other] = list[other]
    BY <1>1, <1>3 DEF DevInv, Dev!alt_llist_insert
  <2>3. NewestFirst(old) /\ old \in Seq(Entry) /\ Len(old) \in Nat
    BY LenProperties DEF DevInv, NewestFirst
  <2> HIDE DEF new, old
  <2>4. /\ queue \in Seq(Entry) /\ Len(queue) = Len(old) + 1 /\ queue[1] = new
        /\ \A i \in 1 .. Len(old) : queue[i + 1] = old[i]
    BY <2>1, <2>3
  <2> HIDE DEF queue
  <2>5. \A i \in 2 .. Len(queue) : /\ i - 1 \in 1 .. Len(old) /\ queue[i] = old[i - 1]
                                 /\ queue[i].dev \in Nat /\ queue[i].dev <= made
    <3>1. SUFFICES ASSUME NEW i \in 2 .. Len(queue)
                   PROVE  /\ i - 1 \in 1 .. Len(old) /\ queue[i] = old[i - 1]
                          /\ queue[i].dev \in Nat /\ queue[i].dev <= made
      OBVIOUS
    <3>2. i - 1 \in 1 .. Len(old) /\ (i - 1) + 1 = i
      BY <2>3, <2>4
    <3>3. queue[i] = old[i - 1]
      BY <2>4, <3>2
    <3>4. old[i - 1].dev \in Nat /\ old[i - 1].dev <= made
      <4>1. old[i - 1] \in Entry
        BY <2>3, <3>2, ElementOfSeq
      <4>2. old[i - 1].dev <= made
        BY <2>3, <3>2 DEF NewestFirst
      <4>3. QED
        BY <4>1, <4>2 DEF Entry
    <3>5. QED
      BY <3>2, <3>3, <3>4
  <2>6. NewestFirst(list[kind])'
    <3>1. \A i \in 1 .. Len(queue) : queue[i].dev <= made + 1
      <4>1. SUFFICES ASSUME NEW i \in 1 .. Len(queue) PROVE queue[i].dev <= made + 1
        OBVIOUS
      <4>2. CASE i = 1
        BY <2>1, <2>4, <4>2
      <4>3. CASE i \in 2 .. Len(queue)
        BY <2>1, <2>5, <4>3
      <4>4. QED
        BY <2>3, <2>4, <4>2, <4>3
    <3>2. \A i, j \in 1 .. Len(queue) : i < j => queue[j].dev < queue[i].dev
      <4>1. SUFFICES ASSUME NEW i \in 1 .. Len(queue), NEW j \in 1 .. Len(queue), i < j
                     PROVE  queue[j].dev < queue[i].dev
        OBVIOUS
      <4>2. j \in 2 .. Len(queue)
        BY <2>3, <2>4, <4>1
      <4>3. CASE i = 1
        BY <2>1, <2>4, <2>5, <4>2, <4>3
      <4>4. CASE i \in 2 .. Len(queue)
        <5>1. old[j - 1].dev < old[i - 1].dev
          <6>1. i - 1 \in 1 .. Len(old) /\ j - 1 \in 1 .. Len(old) /\ i - 1 < j - 1
            BY <2>5, <4>1, <4>2, <4>4
          <6>2. QED
            BY <2>3, <6>1 DEF NewestFirst
        <5>2. QED
          BY <2>5, <4>2, <4>4, <5>1
      <4>5. QED
        BY <2>3, <2>4, <4>3, <4>4
    <3>3. QED
      BY <2>2, <2>4, <3>1, <3>2 DEF NewestFirst
  <2>7. ASSUME NEW other \in Kind, other # kind PROVE NewestFirst(list[other])'
    <3>1. NewestFirst(list[other]) /\ list'[other] = list[other]
      BY <2>2, <2>7 DEF DevInv
    <3>2. \A i \in 1 .. Len(list[other]) : list[other][i].dev \in Nat
      <4>1. list[other] \in Seq(Entry)
        BY <3>1 DEF NewestFirst
      <4>2. \A i \in 1 .. Len(list[other]) : list[other][i] \in Entry
        BY <4>1, ElementOfSeq
      <4>3. QED
        BY <4>2 DEF Entry
    <3>3. QED
      BY <2>1, <2>2, <3>1, <3>2 DEF NewestFirst
  <2>8. Dev!OpenedIsNewest'
    <3>1. \A k \in DOMAIN old : k + 1 \in DOMAIN queue /\ queue[k + 1] = old[k]
      BY <2>3, <2>4, LenProperties
    <3>2. ASSUME NEW any \in Kind, NEW k \in DOMAIN list[any]
          PROVE  \E j \in DOMAIN list'[any] : list'[any][j] = list[any][k]
      <4>1. CASE any # kind
        BY <2>2, <3>2, <4>1
      <4>2. CASE any = kind
        BY <2>2, <3>1, <3>2, <4>2 DEF old
      <4>3. QED
        BY <4>1, <4>2
    <3>3. ASSUME NEW any \in Kind, NEW dev, Dev!MayRefuse(any, dev) PROVE Dev!MayRefuse(any, dev)'
      BY <3>2, <3>3 DEF Dev!MayRefuse
    <3>4. QED
      BY <1>1, <3>2, <3>3 DEF DevInv, Dev!OpenedIsNewest, Dev!NULL
  <2>9. QED
    BY <1>1, <2>1, <2>2, <2>6, <2>7, <2>8 DEF DevInv
<1>4. QED
  BY <1>2, <1>3

\* What an open gives, or NULL, is the newest of its name in the list.
LEMMA Opening ==
  ASSUME DevInv, NEW kind \in Kind, NEW name \in Name,
         NEW dev, Dev!Opens(kind, name, dev),
         \/ dev = Dev!alt_find_dev(kind, name).dev
         \/ dev = Dev!NULL /\ Dev!alt_find_dev(kind, name).open
  PROVE  DevInv'
<1>1. /\ opened' = [opened EXCEPT ![kind] =
           [name |-> name, dev |-> dev, newest |-> Dev!Newest(kind, name), closed |-> FALSE]]
      /\ list' = list /\ made' = made
  BY DEF Dev!Opens
<1>2. /\ Dev!alt_find_dev(kind, name).dev = Dev!Newest(kind, name)
      /\ Dev!Newest(kind, name) \in Nat
      /\ Dev!alt_find_dev(kind, name).dev # 0 =>
           \E k \in DOMAIN list[kind] :
             list[kind][k] = Dev!alt_find_dev(kind, name) /\ list[kind][k].name = name
  BY FirstIsNewest DEF DevInv
<1>3. opened \in [Kind -> Handle]
  BY DEF DevInv
<1>4. /\ opened' \in [Kind -> Handle] /\ opened'[kind].dev = dev /\ opened'[kind].name = name
      /\ opened'[kind].newest = Dev!Newest(kind, name)
      /\ \A other \in Kind : other # kind => opened'[other] = opened[other]
  BY <1>1, <1>2, <1>3 DEF Handle, Dev!NULL
<1>5. Dev!OpenedIsNewest'
  <2>1. opened'[kind].dev = 0 =>
          opened'[kind].newest = 0 \/ Dev!MayRefuse(kind, opened'[kind].newest)
    BY <1>2, <1>4 DEF Dev!MayRefuse, Dev!NULL
  <2>2. opened'[kind].dev # 0 => \E k \in DOMAIN list[kind] :
          list[kind][k].dev = opened'[kind].dev /\ list[kind][k].name = opened'[kind].name
    BY <1>2, <1>4 DEF Dev!NULL
  <2>3. opened'[kind].dev \in {0, opened'[kind].newest}
    BY <1>2, <1>4 DEF Dev!NULL
  <2>4. ASSUME NEW any \in Kind
        PROVE  /\ opened'[any].dev \in {0, opened'[any].newest}
               /\ opened'[any].dev = 0 =>
                    \/ opened'[any].newest = 0 \/ opened'[any].closed
                    \/ Dev!MayRefuse(any, opened'[any].newest)
               /\ opened'[any].dev # 0 => \E k \in DOMAIN list[any] :
                    list[any][k].dev = opened'[any].dev /\ list[any][k].name = opened'[any].name
    <3>1. CASE any = kind
      BY <2>1, <2>2, <2>3, <3>1
    <3>2. CASE any # kind
      BY <1>4, <3>2 DEF DevInv, Dev!OpenedIsNewest, Dev!NULL
    <3>3. QED
      BY <3>1, <3>2
  <2>5. QED
    BY <1>1, <2>4 DEF Dev!OpenedIsNewest, Dev!MayRefuse, Dev!NULL
<1>6. QED
  BY <1>1, <1>4, <1>5 DEF DevInv, NewestFirst

\* What the program does with a device it opened changes no list; closing leaves NULL.
LEMMA Closing ==
  ASSUME DevInv, Dev!alt_flash_close_dev
  PROVE  DevInv'
<1>1. /\ opened' = [opened EXCEPT !["flash"].dev = 0, !["flash"].closed = TRUE]
      /\ list' = list /\ made' = made
      /\ opened \in [Kind -> Handle] /\ "flash" \in Kind
  BY DEF Dev!alt_flash_close_dev, DevInv, Dev!NULL
<1>2. /\ opened' \in [Kind -> Handle] /\ opened'["flash"].dev = 0 /\ opened'["flash"].closed
      /\ \A other \in Kind : other # "flash" => opened'[other] = opened[other]
  BY <1>1 DEF Handle
<1>3. Dev!OpenedIsNewest'
  BY <1>1, <1>2 DEF DevInv, Dev!OpenedIsNewest, Dev!MayRefuse, Dev!NULL
<1>4. QED
  BY <1>1, <1>2, <1>3 DEF DevInv, NewestFirst

LEMMA DevStep == DevInv /\ [Dev!DevicesNext]_devVars => DevInv'
<1>1. SUFFICES ASSUME DevInv, [Dev!DevicesNext]_devVars PROVE DevInv'
  OBVIOUS
<1>2. CASE UNCHANGED devVars
  BY <1>1, <1>2 DEF DevInv, NewestFirst, Dev!OpenedIsNewest, Dev!MayRefuse, Dev!NULL, devVars
<1>3. CASE \E kind \in Kind : Dev!alt_dma_chan_reg(kind)
  BY <1>1, <1>3, Registers DEF Dev!alt_dma_chan_reg
<1>4. CASE Dev!alt_flash_device_register
  BY <1>1, <1>4, Registers DEF Dev!alt_flash_device_register
<1>5. CASE \/ \E kind \in Kind : Dev!alt_dma_chan_operation(kind)
           \/ Dev!alt_flash_operation
  <2>1. list' = list /\ made' = made /\ opened' = opened
    BY <1>5 DEF Dev!alt_dma_chan_operation, Dev!alt_flash_operation
  <2>2. QED
    BY <1>1, <2>1 DEF DevInv, NewestFirst, Dev!OpenedIsNewest, Dev!MayRefuse
<1>6. CASE Dev!alt_flash_close_dev
  BY <1>1, <1>6, Closing
<1>7. CASE \E kind \in Kind, name \in Name : Dev!alt_dma_chan_open(kind, name)
  BY <1>1, <1>7, Opening DEF Dev!alt_dma_chan_open
<1>8. CASE \E name \in Name : Dev!alt_flash_open_dev(name)
  BY <1>1, <1>8, Opening DEF Dev!alt_flash_open_dev
<1>9. QED
  BY <1>1, <1>2, <1>3, <1>4, <1>5, <1>6, <1>7, <1>8 DEF Dev!DevicesNext

----------------------------------------------------------------------------
(* Start-up, step by step. *)

\* What the linker script says of the sections.
LEMMA Linked ==
  /\ Boot!Address \subseteq Nat /\ Bss \subseteq Boot!Address /\ Bss \subseteq Boot!Variables
  /\ Constructors \in Nat
  /\ \A a, b \in Bss : a .. b \subseteq Bss
  /\ Len(Sections) >= 1 /\ Len(Sections) \in Nat /\ Boot!SectionNumbers = 1 .. Len(Sections)
  /\ \A j \in Boot!SectionNumbers :
       /\ Sections[j].from \in Nat /\ Sections[j].to \in Nat /\ Sections[j].end \in Nat
       /\ Sections[j].to <= Sections[j].end
       /\ \A a \in Boot!Range(Sections[j]) :
            /\ a \in Boot!Address /\ Boot!FromImage(Sections[j], a) \in Boot!Address /\ a \notin Bss
            /\ j \in Boot!Copied => a \in Boot!Variables
            /\ j \in Boot!Copied => Boot!FromImage(Sections[j], a) \notin Boot!Variables
            /\ \A i \in Boot!Copied \ {j} : a \notin Boot!Range(Sections[i])
<1>1. Boot!StartupAssumption
  BY SystemAssumption
<1>2. /\ Sections \in Seq([from : Nat, to : Nat, end : Nat]) /\ Sections # << >>
      /\ Boot!SectionNumbers = DOMAIN Sections
  BY <1>1 DEF Boot!StartupAssumption, Boot!SectionNumbers
<1>3. Len(Sections) >= 1 /\ Len(Sections) \in Nat /\ DOMAIN Sections = 1 .. Len(Sections)
  BY <1>2, LenProperties, EmptySeq
<1>4. \A j \in 1 .. Len(Sections) : Sections[j] \in [from : Nat, to : Nat, end : Nat]
  BY <1>2, ElementOfSeq
<1>5. \A j \in Boot!SectionNumbers :
        Sections[j].from \in Nat /\ Sections[j].to \in Nat /\ Sections[j].end \in Nat
  BY <1>2, <1>3, <1>4
<1>6. \A j \in Boot!Copied : j \in Boot!SectionNumbers
  BY DEF Boot!Copied
<1>7. Bss \subseteq Boot!Variables /\ \A j \in Boot!Copied : Boot!Range(Sections[j]) \subseteq Boot!Variables
  BY DEF Boot!Variables
<1>8. QED
  BY <1>1, <1>2, <1>3, <1>5, <1>7 DEF Boot!StartupAssumption

\* A section that runs where it was linked holds no variable.
LEMMA InPlace ==
  ASSUME NEW j \in Boot!SectionNumbers, j \notin Boot!Copied, NEW a \in Boot!Range(Sections[j])
  PROVE  a \in Boot!Address \ Boot!Variables /\ Boot!FromImage(Sections[j], a) = a
<1>1. a \in Boot!Address /\ a \notin Bss /\ \A i \in Boot!Copied : a \notin Boot!Range(Sections[i])
  BY Linked
<1>2. a \notin Boot!Variables
  BY <1>1 DEF Boot!Variables
<1>3. Sections[j].from = Sections[j].to /\ Sections[j].to \in Nat /\ a \in Nat
  BY <1>1, Linked DEF Boot!Copied
<1>4. QED
  BY <1>1, <1>2, <1>3 DEF Boot!FromImage

\* .bss begins somewhere, if there is any.
LEMMA BssFirst ==
  ASSUME NEW b \in Bss
  PROVE  Boot!BssStart \in Bss /\ Boot!BssStart \in Nat /\ b \in Nat /\ Boot!BssStart <= b
<1>1. Bss \in SUBSET Nat
  BY Linked
<1>2. \E m \in Bss : \A k \in Bss : m <= k
  BY <1>1, Smallest
<1>3. QED
  BY <1>1, <1>2 DEF Boot!BssStart

LEMMA BootInit == Boot!StartupInit => BootInv
<1>1. SUFFICES ASSUME Boot!StartupInit PROVE BootInv
  OBVIOUS
<1>2. MemoryInv
  <2>1. /\ memory = Image /\ pc = "bss" /\ cursor = [section |-> 1, k |-> 0]
    BY <1>1 DEF Boot!StartupInit, Boot!AtReset
  <2>2. ASSUME NEW a \in Bss PROVE ~(a < Boot!BssStart + 0)
    BY BssFirst
  <2>3. cursor \in [section : 1 .. Len(Sections), k : Nat] /\ cursor.k = 0
    BY <2>1, Linked
  <2>4. QED
    BY <2>1, <2>2, <2>3 DEF MemoryInv, Boot!Address, Loaded, ToMain, ToCtors, ToRedirect, ToInit, ToIrq
<1>3. OrderInv
  <2>1. << >> \in Seq(Nat) /\ Len(<< >>) = 0 /\ Constructors \in Nat
    BY EmptySeq, Linked
  <2>2. /\ pc = "bss" /\ atexit = FALSE /\ mains = 0 /\ halts = 0
        /\ constructed = << >> /\ destroyed = << >>
        /\ constructed \in Seq(Nat) /\ destroyed \in Seq(Nat)
        /\ Len(constructed) <= Constructors /\ Len(destroyed) <= Constructors
    BY <1>1, <2>1 DEF Boot!StartupInit, Boot!AtReset
  <2>3. build \in [NO_EXIT : BOOLEAN, NO_CLEAN_EXIT : BOOLEAN, NO_C_PLUS_PLUS : BOOLEAN, DIRECT : BOOLEAN]
    BY <1>1 DEF Boot!StartupInit
  <2>4. QED
    BY <2>2, <2>3 DEF OrderInv, InMain, ToMain, ToCtors, ToRedirect, ToInit, ToIrq
<1>4. QED
  BY <1>2, <1>3 DEF BootInv

\* After the sections are loaded the memory is left alone until main.
LEMMA Stays ==
  ASSUME MemoryInv, memory' = memory, cursor' = cursor, pc' \notin {"bss", "load"},
         pc' \in Loaded => pc \in Loaded
  PROVE  MemoryInv'
BY DEF MemoryInv, Loaded

LEMMA Clears ==
  ASSUME MemoryInv, Boot!ClearBss
  PROVE  MemoryInv'
<1> DEFINE x == Boot!BssStart + cursor.k
<1>1. /\ DOMAIN memory = Boot!Address /\ cursor \in [section : 1 .. Len(Sections), k : Nat]
      /\ cursor.section = 1 /\ cursor.k \in Nat /\ pc = "bss"
      /\ \A a \in Boot!Address \ Boot!Variables : memory[a] = Image[a]
      /\ \A a \in Bss : a < x => memory[a] = 0
  BY DEF MemoryInv, Boot!ClearBss
<1>2. CASE x \in Bss
  <2>1. memory' = [memory EXCEPT ![x] = 0] /\ cursor' = [cursor EXCEPT !.k = @ + 1] /\ pc' = pc
    BY <1>2 DEF Boot!ClearBss
  <2>2. cursor' \in [section : 1 .. Len(Sections), k : Nat] /\ cursor'.section = 1 /\ cursor'.k = cursor.k + 1
    BY <1>1, <2>1
  <2>3. x \in Boot!Address /\ x \in Boot!Variables /\ memory'[x] = 0 /\ DOMAIN memory' = Boot!Address
        /\ \A a \in Boot!Address : a # x => memory'[a] = memory[a]
    BY <1>1, <1>2, <2>1, Linked
  <2>4. ASSUME NEW a \in Bss, a < Boot!BssStart + cursor'.k PROVE memory'[a] = 0
    <3>1. a \in Nat /\ Boot!BssStart \in Nat
      BY BssFirst
    <3>2. a = x \/ (a # x /\ a < x)
      BY <1>1, <2>2, <2>4, <3>1
    <3>3. QED
      BY <1>1, <2>3, <3>2, Linked
  <2>5. \A a \in Boot!Address \ Boot!Variables : memory'[a] = Image[a]
    BY <1>1, <2>3
  <2>6. QED
    BY <1>1, <2>1, <2>2, <2>3, <2>4, <2>5 DEF MemoryInv, Loaded
<1>3. CASE x \notin Bss
  <2>1. memory' = memory /\ cursor' = [cursor EXCEPT !.k = 0] /\ pc' = "load"
    BY <1>3 DEF Boot!ClearBss
  <2>2. cursor' \in [section : 1 .. Len(Sections), k : Nat] /\ cursor'.section = 1 /\ cursor'.k = 0
    BY <1>1, <2>1
  <2>3. ASSUME NEW a \in Bss PROVE memory[a] = 0
    <3>1. a \in Nat /\ Boot!BssStart \in Bss /\ Boot!BssStart \in Nat /\ Boot!BssStart <= a
      BY BssFirst
    <3>2. Boot!BssStart .. a \subseteq Bss
      BY <3>1, Linked
    <3>3. x \notin Boot!BssStart .. a
      BY <1>3, <3>2
    <3>4. a < x
      BY <1>1, <3>1, <3>3
    <3>5. QED
      BY <1>1, <3>4
  <2>4. ASSUME NEW j \in Boot!Copied
        PROVE  Sections[j].to + cursor'.k <= Sections[j].end /\ CopiedTo(j, cursor') = {}
    <3>1. j \in Nat /\ j >= 1 /\ Sections[j].to \in Nat /\ Sections[j].end \in Nat
          /\ Sections[j].to <= Sections[j].end
      BY Linked DEF Boot!Copied
    <3>2. Sections[j].to .. Sections[j].to + 0 - 1 = {}
      BY <3>1
    <3>3. QED
      BY <2>2, <3>1, <3>2 DEF CopiedTo
  <2>5. QED
    BY <1>1, <2>1, <2>2, <2>3, <2>4 DEF MemoryInv, Loaded, ToMain, ToCtors, ToRedirect, ToInit, ToIrq
<1>4. QED
  BY <1>2, <1>3

\* One word from the image, which holds no variable, to its place, which is in no other
\* section that is copied; or on to the next section.
LEMMA Loads ==
  ASSUME MemoryInv, Boot!alt_load_section
  PROVE  MemoryInv'
<1> DEFINE here == cursor.section
           s == Sections[here]
           k == cursor.k
           x == s.to + k
<1>1. /\ DOMAIN memory = Boot!Address /\ cursor \in [section : 1 .. Len(Sections), k : Nat]
      /\ \A a \in Boot!Address \ Boot!Variables : memory[a] = Image[a]
      /\ pc = "load" /\ \A a \in Bss : memory[a] = 0
      /\ \A j \in Boot!Copied :
           /\ j = here => Sections[j].to + k <= Sections[j].end
           /\ \A a \in CopiedTo(j, cursor) : memory[a] = Image[Boot!FromImage(Sections[j], a)]
  BY DEF MemoryInv, Boot!alt_load_section, Loaded
<1>2. /\ here \in 1 .. Len(Sections) /\ here \in Boot!SectionNumbers /\ k \in Nat
      /\ s.to \in Nat /\ s.from \in Nat /\ s.end \in Nat
      /\ (here \in Boot!Copied <=> s.to # s.from)
  BY <1>1, Linked DEF Boot!Copied
<1>3. CASE s.to # s.from /\ Boot!MoreToCopy(s, k)
  <2>1. /\ memory' = [memory EXCEPT ![x] = memory[s.from + k]]
        /\ cursor' = [cursor EXCEPT !.k = @ + 1] /\ pc' = pc
    BY <1>3 DEF Boot!alt_load_section
  <2>2. cursor' \in [section : 1 .. Len(Sections), k : Nat] /\ cursor'.section = here /\ cursor'.k = k + 1
    BY <1>1, <2>1
  <2>3. here \in Boot!Copied /\ x < s.end /\ x >= s.to /\ x \in Nat
    BY <1>1, <1>2, <1>3 DEF Boot!MoreToCopy
  <2>4. x \in Boot!Range(s) /\ s.from + k = Boot!FromImage(s, x)
    BY <1>2, <2>3 DEF Boot!Range, Boot!FromImage
  <2>5. /\ x \in Boot!Address /\ x \in Boot!Variables /\ x \notin Bss
        /\ Boot!FromImage(s, x) \in Boot!Address \ Boot!Variables
        /\ \A j \in Boot!Copied : j # here => x \notin Boot!Range(Sections[j])
    BY <1>2, <2>3, <2>4, Linked
  <2>6. /\ memory'[x] = Image[Boot!FromImage(s, x)] /\ DOMAIN memory' = Boot!Address
        /\ \A a \in Boot!Address : a # x => memory'[a] = memory[a]
    BY <1>1, <2>1, <2>4, <2>5
  <2>7. \A a \in Boot!Address \ Boot!Variables : memory'[a] = Image[a]
    BY <1>1, <2>5, <2>6
  <2>8. \A a \in Bss : memory'[a] = 0
    BY <1>1, <2>5, <2>6, Linked
  <2>9. ASSUME NEW j \in Boot!Copied, NEW a \in CopiedTo(j, cursor')
        PROVE  memory'[a] = Image[Boot!FromImage(Sections[j], a)]
    <3>1. j \in Boot!SectionNumbers /\ j \in Nat /\ Boot!Range(Sections[j]) \subseteq Boot!Address
      BY Linked DEF Boot!Copied
    <3>2. CASE j < here
      <4>1. a \in Boot!Range(Sections[j]) /\ a \in CopiedTo(j, cursor)
        BY <2>2, <2>9, <3>2 DEF CopiedTo
      <4>2. a # x /\ a \in Boot!Address
        BY <1>2, <2>5, <3>1, <3>2, <4>1
      <4>3. QED
        BY <1>1, <2>6, <4>1, <4>2
    <3>3. CASE j = here
      <4>1. a \in s.to .. s.to + (k + 1) - 1
        BY <2>2, <2>9, <3>3 DEF CopiedTo
      <4>2. a \in Nat /\ a >= s.to /\ (a = x \/ (a # x /\ a <= s.to + k - 1))
        <5>1. PICK t \in Nat, n \in Nat : t = s.to /\ n = k
          BY <1>2
        <5>2. a \in t .. t + (n + 1) - 1
          BY <4>1, <5>1
        <5>3. a \in Nat /\ a >= t /\ (a = t + n \/ (a # t + n /\ a <= t + n - 1))
          BY <5>2
        <5>4. QED
          BY <5>1, <5>3
      <4>3. CASE a = x
        BY <2>6, <3>3, <4>3
      <4>4. CASE a # x
        <5>1. a \in CopiedTo(j, cursor)
          BY <1>2, <3>3, <4>2, <4>4 DEF CopiedTo
        <5>2. a \in Boot!Range(s)
          BY <1>2, <2>3, <4>2, <4>4 DEF Boot!Range
        <5>3. QED
          BY <1>1, <2>6, <3>1, <3>3, <4>4, <5>1, <5>2
      <4>5. QED
        BY <4>3, <4>4
    <3>4. ~(j < here) /\ j # here => CopiedTo(j, cursor') = {}
      BY <2>2 DEF CopiedTo
    <3>5. QED
      BY <2>9, <3>2, <3>3, <3>4
  <2>10. s.to + (k + 1) <= s.end
    BY <1>2, <2>3
  <2>11. QED
    BY <1>1, <2>1, <2>2, <2>6, <2>7, <2>8, <2>9, <2>10
    DEF MemoryInv, Loaded, ToMain, ToCtors, ToRedirect, ToInit, ToIrq
<1>4. CASE ~(s.to # s.from /\ Boot!MoreToCopy(s, k))
  <2>1. /\ memory' = memory
        /\ cursor' = IF here = Len(Sections) THEN cursor ELSE [section |-> here + 1, k |-> 0]
        /\ pc' = IF here = Len(Sections) THEN "irq_init" ELSE "load"
    BY <1>4 DEF Boot!alt_load_section
  <2>2. ASSUME NEW j \in Boot!Copied, j <= here, NEW a \in Boot!Range(Sections[j])
        PROVE  memory[a] = Image[Boot!FromImage(Sections[j], a)]
    <3>1. j \in Nat
      BY Linked DEF Boot!Copied
    <3>2. CASE j < here
      BY <1>1, <2>2, <3>2 DEF CopiedTo
    <3>3. CASE j = here
      <4>1. s.to + k = s.end
        BY <1>2, <1>4, <2>2, <3>3 DEF Boot!MoreToCopy
      <4>2. a \in CopiedTo(j, cursor)
        BY <1>2, <2>2, <3>3, <4>1 DEF CopiedTo, Boot!Range
      <4>3. QED
        BY <1>1, <4>2
    <3>4. QED
      BY <1>2, <2>2, <3>1, <3>2, <3>3
  <2>3. CASE here = Len(Sections)
    <3>1. \A j \in Boot!Copied : j <= here
      BY <2>3, Linked DEF Boot!Copied
    <3>2. QED
      BY <1>1, <2>1, <2>2, <2>3, <3>1
      DEF MemoryInv, Loaded, ToMain, ToCtors, ToRedirect, ToInit, ToIrq
  <2>4. CASE here # Len(Sections)
    <3>1. /\ cursor' = [section |-> here + 1, k |-> 0] /\ pc' = "load"
          /\ cursor' \in [section : 1 .. Len(Sections), k : Nat]
          /\ cursor'.section = here + 1 /\ cursor'.k = 0
      BY <1>2, <2>1, <2>4, Linked
    <3>2. ASSUME NEW j \in Boot!Copied
          PROVE  /\ j = here + 1 => Sections[j].to + 0 <= Sections[j].end
                 /\ \A a \in CopiedTo(j, cursor') : memory[a] = Image[Boot!FromImage(Sections[j], a)]
      <4>1. j \in Nat /\ Sections[j].to \in Nat /\ Sections[j].end \in Nat
            /\ Sections[j].to <= Sections[j].end
        BY Linked DEF Boot!Copied
      <4>2. Sections[j].to .. Sections[j].to + 0 - 1 = {}
        BY <4>1
      <4>3. CASE j <= here
        <5>1. CopiedTo(j, cursor') = Boot!Range(Sections[j]) /\ j # here + 1
          BY <1>2, <3>1, <4>1, <4>3 DEF CopiedTo
        <5>2. QED
          BY <2>2, <4>3, <5>1
      <4>4. CASE ~(j <= here)
        <5>1. CopiedTo(j, cursor') = {}
          BY <1>2, <3>1, <4>1, <4>2, <4>4 DEF CopiedTo
        <5>2. QED
          BY <4>1, <5>1
      <4>5. QED
        BY <4>3, <4>4
    <3>3. QED
      BY <1>1, <2>1, <3>1, <3>2
      DEF MemoryInv, Loaded, ToMain, ToCtors, ToRedirect, ToInit, ToIrq
  <2>5. QED
    BY <2>3, <2>4
<1>5. QED
  BY <1>3, <1>4

\* The program stores in its variables, where no image and no constant is.
LEMMA Stores ==
  ASSUME MemoryInv, Boot!Main
  PROVE  MemoryInv'
<1>1. PICK a \in Boot!Variables, w \in Words : memory' = [memory EXCEPT ![a] = w]
  BY DEF Boot!Main
<1>2. pc = "main" /\ pc' = pc /\ cursor' = cursor
  BY DEF Boot!Main
<1>3. QED
  BY <1>1, <1>2 DEF MemoryInv, Loaded, ToMain, ToCtors, ToRedirect, ToInit, ToIrq

\* A reset leaves the memory as it is, and begins again.
LEMMA Resets ==
  ASSUME BootInv, Boot!Reset
  PROVE  BootInv'
<1>1. /\ memory' = memory /\ build' = build /\ pc' = "bss" /\ cursor' = [section |-> 1, k |-> 0]
      /\ atexit' = FALSE /\ constructed' = << >> /\ destroyed' = << >> /\ mains' = 0 /\ halts' = 0
  BY DEF Boot!Reset
<1>2. MemoryInv'
  <2>1. ASSUME NEW a \in Bss PROVE ~(a < Boot!BssStart + 0)
    BY BssFirst
  <2>2. cursor' \in [section : 1 .. Len(Sections), k : Nat] /\ cursor'.k = 0 /\ cursor'.section = 1
    BY <1>1, Linked
  <2>3. QED
    BY <1>1, <2>1, <2>2 DEF BootInv, MemoryInv, Loaded, ToMain, ToCtors, ToRedirect, ToInit, ToIrq
<1>3. OrderInv'
  <2>1. << >> \in Seq(Nat) /\ Len(<< >>) = 0 /\ Constructors \in Nat
    BY EmptySeq, Linked
  <2>2. /\ constructed' \in Seq(Nat) /\ destroyed' \in Seq(Nat)
        /\ Len(constructed') <= Constructors /\ Len(destroyed') <= Constructors
    BY <1>1, <2>1
  <2>3. QED
    BY <1>1, <2>2 DEF BootInv, OrderInv, InMain, ToMain, ToCtors, ToRedirect, ToInit, ToIrq
<1>4. QED
  BY <1>2, <1>3 DEF BootInv

\* One more constructor, or destructor, from the last to the first.
LEMMA OneMoreCalled ==
  ASSUME NEW q \in Seq(Nat), Constructors - Len(q) >= 1
  PROVE  /\ Append(q, Constructors - Len(q)) \in Seq(Nat)
         /\ Len(Append(q, Constructors - Len(q))) = Len(q) + 1
         /\ Len(q) + 1 <= Constructors /\ Append(q, Constructors - Len(q)) # << >>
<1>1. Len(q) \in Nat /\ Constructors \in Nat
  BY LenProperties, Linked
<1>2. Constructors - Len(q) \in Nat /\ Len(q) + 1 <= Constructors
  BY <1>1
<1>3. QED
  BY <1>1, <1>2, AppendProperties

LEMMA BootStep == BootInv /\ [Boot!StartupNext]_bootVars => BootInv'
<1>1. SUFFICES ASSUME BootInv, [Boot!StartupNext]_bootVars PROVE BootInv'
  OBVIOUS
<1> USE DEF InMain, ToMain, ToCtors, ToRedirect, ToInit, ToIrq
<1>2. MemoryInv /\ OrderInv
  BY <1>1 DEF BootInv
<1>3. CASE UNCHANGED bootVars
  BY <1>2, <1>3 DEF BootInv, MemoryInv, OrderInv, Loaded, bootVars
<1>4. CASE Boot!ClearBss
  <2>1. OrderInv'
    BY <1>2, <1>4 DEF OrderInv, Boot!ClearBss, Boot!done, Boot!Still
  <2>2. QED
    BY <1>2, <1>4, <2>1, Clears DEF BootInv
<1>5. CASE Boot!alt_load_section
  <2>1. OrderInv'
    BY <1>2, <1>5 DEF OrderInv, Boot!alt_load_section, Boot!done, Boot!Still
  <2>2. QED
    BY <1>2, <1>5, <2>1, Loads DEF BootInv
<1>6. CASE Boot!CallsIrqInit \/ Boot!alt_sys_init \/ Boot!CallsIoRedirect
  <2>1. OrderInv'
    BY <1>2, <1>6 DEF OrderInv, Boot!CallsIrqInit, Boot!alt_sys_init, Boot!CallsIoRedirect, Boot!Goto, Boot!Still
  <2>2. /\ memory' = memory /\ cursor' = cursor /\ pc' \notin {"bss", "load"} /\ pc \in Loaded
    BY <1>2, <1>6 DEF OrderInv, Boot!CallsIrqInit, Boot!alt_sys_init, Boot!CallsIoRedirect, Boot!Goto, Loaded
  <2>3. QED
    BY <1>2, <2>1, <2>2, Stays DEF BootInv
<1>7. CASE Boot!do_ctors
  <2>1. constructed \in Seq(Nat) /\ Len(constructed) \in Nat /\ Constructors \in Nat
        /\ Len(constructed) <= Constructors
    BY <1>2, LenProperties, Linked DEF OrderInv
  <2>2. CASE ~build.NO_C_PLUS_PLUS /\ Constructors - Len(constructed) >= 1
    <3>1. constructed' = Append(constructed, Constructors - Len(constructed)) /\ pc' = pc /\ pc = "ctors"
      BY <1>7, <2>2 DEF Boot!do_ctors
    <3>2. constructed' \in Seq(Nat) /\ Len(constructed') <= Constructors
      BY <2>1, <2>2, <3>1, OneMoreCalled
    <3>3. QED
      BY <1>2, <1>7, <2>2, <3>1, <3>2 DEF OrderInv, Boot!do_ctors, Boot!Goto, Boot!Still, BootInv, MemoryInv, Loaded
  <2>3. CASE ~(~build.NO_C_PLUS_PLUS /\ Constructors - Len(constructed) >= 1)
    <3>1. constructed' = constructed /\ pc' = "atexit" /\ pc = "ctors" /\ cursor' = cursor /\ memory' = memory
      BY <1>7, <2>3 DEF Boot!do_ctors, Boot!Goto
    <3>2. Len(constructed) = IF build.NO_C_PLUS_PLUS THEN 0 ELSE Constructors
      <4>1. CASE build.NO_C_PLUS_PLUS
        BY <1>2, <4>1, EmptySeq DEF OrderInv
      <4>2. CASE ~build.NO_C_PLUS_PLUS
        BY <2>1, <2>3, <4>2
      <4>3. QED
        BY <4>1, <4>2
    <3>3. OrderInv'
      BY <1>2, <1>7, <3>1, <3>2 DEF OrderInv, Boot!do_ctors, Boot!Still
    <3>4. QED
      BY <1>2, <3>1, <3>3, Stays DEF BootInv, Loaded
  <2>4. QED
    BY <2>2, <2>3
<1>8. CASE Boot!RegistersDestructors
  <2>1. OrderInv'
    BY <1>2, <1>8 DEF OrderInv, Boot!RegistersDestructors, Boot!Goto, Boot!Still
  <2>2. /\ memory' = memory /\ cursor' = cursor /\ pc' = "main"
    BY <1>8 DEF Boot!RegistersDestructors, Boot!Goto
  <2>3. QED
    BY <1>2, <2>1, <2>2, Stays DEF BootInv, Loaded
<1>9. CASE Boot!do_dtors
  <2>1. destroyed \in Seq(Nat) /\ Len(destroyed) \in Nat /\ Constructors \in Nat
        /\ Len(destroyed) <= Constructors
    BY <1>2, LenProperties, Linked DEF OrderInv
  <2>2. CASE atexit /\ Constructors - Len(destroyed) >= 1
    <3>1. destroyed' = Append(destroyed, Constructors - Len(destroyed)) /\ pc' = pc /\ pc = "dtors"
      BY <1>9, <2>2 DEF Boot!do_dtors
    <3>2. destroyed' \in Seq(Nat) /\ Len(destroyed') <= Constructors
      BY <2>1, <2>2, <3>1, OneMoreCalled
    <3>3. QED
      BY <1>2, <1>9, <2>2, <3>1, <3>2 DEF OrderInv, Boot!do_dtors, Boot!Goto, Boot!Still, BootInv, MemoryInv, Loaded
  <2>3. CASE ~(atexit /\ Constructors - Len(destroyed) >= 1)
    <3>1. destroyed' = destroyed /\ pc' = "exit" /\ pc = "dtors" /\ cursor' = cursor /\ memory' = memory
      BY <1>9, <2>3 DEF Boot!do_dtors, Boot!Goto
    <3>2. Len(destroyed) = IF atexit THEN Constructors ELSE 0
      <4>1. CASE atexit
        BY <2>1, <2>3, <4>1
      <4>2. CASE ~atexit
        BY <1>2, <4>2, EmptySeq DEF OrderInv
      <4>3. QED
        BY <4>1, <4>2
    <3>3. OrderInv'
      BY <1>2, <1>9, <3>1, <3>2 DEF OrderInv, Boot!do_dtors, Boot!Still
    <3>4. QED
      BY <1>2, <3>1, <3>3, Stays DEF BootInv, Loaded
  <2>4. QED
    BY <2>2, <2>3
<1>10. CASE Boot!ALT_EXIT
  <2>1. OrderInv'
    BY <1>2, <1>10 DEF OrderInv, Boot!ALT_EXIT, Boot!alt_sim_halt, Boot!Goto, Boot!Still
  <2>2. /\ memory' = memory /\ cursor' = cursor /\ pc' = "spin"
    BY <1>10 DEF Boot!ALT_EXIT, Boot!Goto
  <2>3. QED
    BY <1>2, <2>1, <2>2, Stays DEF BootInv, Loaded
<1>11. CASE Boot!Main
  <2>1. OrderInv'
    BY <1>2, <1>11 DEF OrderInv, Boot!Main, Boot!done, Boot!Still
  <2>2. QED
    BY <1>2, <1>11, <2>1, Stores DEF BootInv
<1>12. CASE Boot!MainReturns
  <2>1. OrderInv'
    BY <1>2, <1>12 DEF OrderInv, Boot!MainReturns, Boot!done, Boot!Goto, Boot!Still
  <2>2. /\ memory' = memory /\ cursor' = cursor /\ pc' \in {"spin", "close"}
    BY <1>12 DEF Boot!MainReturns, Boot!Goto
  <2>3. QED
    BY <1>2, <2>1, <2>2, Stays DEF BootInv, Loaded
<1>13. CASE Boot!CloseStdout
  <2>1. OrderInv'
    BY <1>2, <1>13 DEF OrderInv, Boot!CloseStdout, Boot!Goto, Boot!Still
  <2>2. /\ memory' = memory /\ cursor' = cursor /\ pc' = "dtors"
    BY <1>13 DEF Boot!CloseStdout, Boot!Goto
  <2>3. QED
    BY <1>2, <2>1, <2>2, Stays DEF BootInv, Loaded
<1>14. CASE Boot!Reset
  BY <1>1, <1>14, Resets
<1>15. QED
  BY <1>1, <1>3, <1>4, <1>5, <1>6, <1>7, <1>8, <1>9, <1>10, <1>11, <1>12, <1>13, <1>14
  DEF Boot!StartupNext, Boot!Step

----------------------------------------------------------------------------
(* The log, step by step. *)
LEMMA PortSizes ==
  /\ ALT_LOG_WRITE_ECHO_LEN \in Nat /\ ALT_LOG_WRITE_ECHO_LEN >= 2 /\ FifoDepth \in Nat \ {0}
  /\ Data \subseteq Seq(Char) /\ IsrData \subseteq Seq(Char) /\ Interval \in Nat
  /\ Last \in Index /\ Last \in Nat /\ Last = ALT_LOG_WRITE_ECHO_LEN + 1 /\ Index = 0 .. Last
BY SystemAssumption DEF LogPortAssumption, Last, Index

\* An echo is no longer than the buffer, with the newline, the return and the NUL.
LEMMA LengthIs ==
  ASSUME NEW data \in Seq(Char)
  PROVE  /\ length(data) \in Nat /\ length(data) <= Len(data) /\ length(data) + 1 <= Last
         /\ \A i \in 0 .. length(data) - 1 : data[i + 1] \in Char
<1>1. PICK l \in Nat, e \in Nat : l = Len(data) /\ e = ALT_LOG_WRITE_ECHO_LEN
  BY LenProperties, PortSizes
<1>2. length(data) = IF e > l THEN l ELSE e
  BY <1>1 DEF length
<1>3. \A i \in 1 .. l : data[i] \in Char
  BY <1>1, ElementOfSeq
<1>4. length(data) \in Nat /\ length(data) <= l /\ length(data) + 1 <= e + 1
  BY <1>2
<1>5. ASSUME NEW i \in 0 .. length(data) - 1 PROVE data[i + 1] \in Char
  <2>1. i + 1 \in 1 .. l
    BY <1>4
  <2>2. QED
    BY <1>3, <2>1
<1>6. QED
  BY <1>1, <1>4, <1>5, PortSizes

\* What is written is of the alphabet; what is printed is no Ctrl-D and ends in a NUL.
LEMMA RawIs ==
  ASSUME NEW data \in Seq(Char), length(data) >= 2
  PROVE  LET n == length(data) IN
         /\ \A i \in 0 .. n - 1 : Copied(data, i) \in Char
         /\ \A i \in Nat : Raw(data, i) \in Char /\ Final(data, i) \in Char /\ Final(data, i) # "EOT"
         /\ \A i \in 0 .. n - 2 : Raw(data, i) = Copied(data, i)
         /\ Raw(data, n - 1) = "NL" /\ Raw(data, n) = "CR" /\ Raw(data, n + 1) = "NUL"
         /\ Final(data, n - 1) = "NL" /\ Final(data, n) = "CR" /\ Final(data, n + 1) = "NUL"
<1> DEFINE n == length(data)
<1>1. n \in Nat /\ n >= 2 /\ \A i \in 0 .. n - 1 : data[i + 1] \in Char
  BY LengthIs
<1> HIDE DEF n
<1>2. \A i \in 0 .. n - 1 : Copied(data, i) \in Char
  BY <1>1 DEF Copied, Char
<1>3. \A i \in Nat : Raw(data, i) = IF i < n - 1 THEN Copied(data, i)
                      ELSE IF i = n - 1 THEN "NL" ELSE IF i = n THEN "CR" ELSE "NUL"
  BY DEF Raw, n
<1>4. ASSUME NEW i \in Nat PROVE Raw(data, i) \in Char
  <2>1. CASE i < n - 1
    <3>1. i \in 0 .. n - 1
      BY <1>1, <2>1
    <3>2. QED
      BY <1>2, <1>3, <2>1, <3>1
  <2>2. CASE ~(i < n - 1)
    BY <1>3, <2>2 DEF Char
  <2>3. QED
    BY <2>1, <2>2
<1>5. \A i \in Nat : Final(data, i) \in Char /\ Final(data, i) # "EOT"
  BY <1>4 DEF Final, Char
<1>6. \A i \in 0 .. n - 2 : Raw(data, i) = Copied(data, i)
  BY <1>1, <1>3
<1>7. Raw(data, n - 1) = "NL" /\ Raw(data, n) = "CR" /\ Raw(data, n + 1) = "NUL"
  <2>1. n - 1 \in Nat /\ n + 1 \in Nat /\ ~(n - 1 < n - 1) /\ ~(n < n - 1) /\ n # n - 1
        /\ ~(n + 1 < n - 1) /\ n + 1 # n - 1 /\ n + 1 # n
    BY <1>1
  <2>2. QED
    BY <1>1, <1>3, <2>1
<1>8. QED
  BY <1>2, <1>4, <1>5, <1>6, <1>7 DEF n, Final

\* A step of the running call from c and the buffer b to c1 and b1.
Stored(b, i, ch) == [b EXCEPT ![i] = ch]
To(c, label) == [c EXCEPT !.pc = label]
On(c, label) == [c EXCEPT !.pc = label, !.k = @ + 1]
Fine(c, b, c1, b1) ==
  /\ c1 \in Call /\ b1 \in [Index -> Char] /\ Within(c1) /\ c1.data = c.data
  /\ b[Last] = "NUL" => b1[Last] = "NUL"
  /\ \A i \in Index : i > length(c.data) + 1 => b1[i] = b[i]
  /\ Own(c, b) => Own(c1, b1)
  /\ Clean(c, b, -1) => Clean(c1, b1, -1)

\* A call at c with its buffer.
Calling(c, b) == c \in Call /\ b \in [Index -> Char] /\ Within(c)

\* Its fields, and its place in the buffer.
LEMMA CallIs ==
  ASSUME NEW c, NEW b, Calling(c, b)
  PROVE  /\ c.data \in Seq(Char) /\ c.k \in Nat /\ c.c \in Char
         /\ length(c.data) \in Nat /\ length(c.data) + 1 <= Last
         /\ c.pc \in Writing \cup Escaping \cup {"test", "fetch"} => c.data # << >>
         /\ c.data # << >> => length(c.data) >= 2
<1>1. c.data \in Seq(Char) /\ c.k \in Nat /\ c.c \in Char
  BY DEF Calling, Call
<1>2. QED
  BY <1>1, LengthIs DEF Calling, Within, Writing, Escaping

Label == {"idle"} \cup Writing \cup Escaping \cup Printing
LEMMA ToIs ==
  ASSUME NEW c \in Call, NEW label \in Label
  PROVE  /\ To(c, label).pc = label /\ To(c, label).data = c.data /\ To(c, label).k = c.k
         /\ To(c, label).c = c.c /\ To(c, label) \in Call
BY DEF To, Call, Label

LEMMA OnIs ==
  ASSUME NEW c \in Call, NEW label \in Label
  PROVE  /\ On(c, label).pc = label /\ On(c, label).data = c.data /\ On(c, label).k = c.k + 1
         /\ On(c, label).c = c.c /\ On(c, label) \in Call
<1>1. c.k \in Nat /\ c.k + 1 \in Nat
  BY DEF Call
<1>2. QED
  BY <1>1 DEF On, Call, Label

LEMMA CopyStep ==
  ASSUME NEW c, NEW b, Calling(c, b), c.pc = "copy"
  PROVE  Fine(c, b, On(c, IF c.k + 1 < length(c.data) THEN "copy" ELSE "newline"),
              Stored(b, c.k, Copied(c.data, c.k)))
<1> DEFINE n == length(c.data)
           k == c.k
           c1 == On(c, IF k + 1 < n THEN "copy" ELSE "newline")
           b1 == Stored(b, k, Copied(c.data, k))
<1>1. /\ c \in Call /\ b \in [Index -> Char] /\ Within(c) /\ c.data \in Seq(Char) /\ k \in Nat
      /\ n \in Nat /\ n >= 2 /\ n + 1 <= Last /\ k < n /\ c.data # << >>
  BY CallIs DEF Calling, Within, Writing
<1>2. Copied(c.data, k) \in Char /\ k \in Index /\ k # Last
  <2>1. k \in 0 .. n - 1 /\ k \in 0 .. Last /\ k # Last
    BY <1>1, PortSizes
  <2>2. QED
    BY <1>1, <2>1, RawIs, PortSizes
<1>3. /\ c1.pc = (IF k + 1 < n THEN "copy" ELSE "newline") /\ c1.data = c.data /\ c1.k = k + 1 /\ c1.c = c.c
      /\ c1 \in Call
  <2>1. (IF k + 1 < n THEN "copy" ELSE "newline") \in Label
    BY DEF Label, Writing
  <2>2. QED
    BY <1>1, <2>1, OnIs
<1>4. /\ b1 \in [Index -> Char] /\ b1[k] = Copied(c.data, k)
      /\ \A i \in Index : i # k => b1[i] = b[i]
  BY <1>1, <1>2 DEF Stored
<1> HIDE DEF c1, b1, n, k
<1>5. Within(c1)
  BY <1>1, <1>3 DEF Within, Escaping, Printing, n
<1>6. Own(c, b) => Own(c1, b1)
  <2>1. SUFFICES ASSUME Own(c, b) PROVE \A i \in 0 .. (k + 1) - 1 : b1[i] = Copied(c.data, i)
    BY <1>3 DEF Own, Escaping, Printing
  <2>2. \A i \in 0 .. k - 1 : b[i] = Copied(c.data, i)
    BY <2>1 DEF Own, k
  <2>3. ASSUME NEW i \in 0 .. (k + 1) - 1 PROVE b1[i] = Copied(c.data, i)
    <3>1. i \in Index /\ (i = k \/ (i # k /\ i \in 0 .. k - 1))
      BY <1>1, PortSizes
    <3>2. QED
      BY <1>4, <2>2, <3>1
  <2>4. QED
    BY <2>3
<1>7. \A i \in Index : i > n + 1 => b1[i] = b[i]
  BY <1>1, <1>4, PortSizes
<1>8. Clean(c1, b1, -1)
  BY <1>3 DEF Clean, Escaping, Printing
<1>9. QED
  BY <1>2, <1>3, <1>4, <1>5, <1>6, <1>7, <1>8, PortSizes DEF Fine, c1, b1, n, k

LEMMA NewlineStep ==
  ASSUME NEW c, NEW b, Calling(c, b), c.pc = "newline"
  PROVE  Fine(c, b, To(c, "return"), Stored(b, c.k - 1, "NL"))
<1> DEFINE n == length(c.data)
           k == c.k
<1>1. /\ c \in Call /\ b \in [Index -> Char] /\ Within(c) /\ c.data \in Seq(Char) /\ k \in Nat
      /\ n \in Nat /\ n >= 2 /\ n + 1 <= Last /\ c.data # << >> /\ Last \in Nat /\ Index = 0 .. Last
      /\ k = n
  BY CallIs, PortSizes DEF Calling, Within, Writing, Escaping
<1> DEFINE c1 == To(c, "return")
           b1 == Stored(b, k - 1, "NL")
<1>2. c1.pc = "return" /\ c1.data = c.data /\ c1.k = k /\ c1.c = c.c /\ c1 \in Call
  BY <1>1, ToIs DEF Label, Writing
<1>3. "NL" \in Char /\ k - 1 \in Index /\ k - 1 # Last /\ Last \in Index
  BY <1>1 DEF Char
<1>4. /\ b1 \in [Index -> Char] /\ b1[k - 1] = "NL"
      /\ \A i \in Index : i # k - 1 => b1[i] = b[i]
  BY <1>1, <1>3 DEF Stored
<1> HIDE DEF c1, b1, n, k
<1>5. Within(c1)
  BY <1>1, <1>2 DEF Within, Escaping, Printing, n
<1>6. Own(c, b) => Own(c1, b1)
  <2>1. SUFFICES ASSUME Own(c, b) PROVE \A i \in 0 .. n - 1 : b1[i] = Raw(c.data, i)
    BY <1>2 DEF Own, Escaping, Printing, n
  <2>2. \A i \in 0 .. k - 1 : b[i] = Copied(c.data, i)
    BY <2>1 DEF Own, k
  <2>3. /\ \A i \in 0 .. n - 2 : Raw(c.data, i) = Copied(c.data, i)
        /\ Raw(c.data, n - 1) = "NL"
    BY <1>1, RawIs DEF n
  <2>4. ASSUME NEW i \in 0 .. n - 1 PROVE b1[i] = Raw(c.data, i)
    <3>1. i \in Index /\ i \in 0 .. k - 1 /\ (i = k - 1 \/ (i # k - 1 /\ i \in 0 .. n - 2))
      BY <1>1
    <3>2. CASE i = k - 1
      BY <1>1, <1>4, <2>3, <3>2
    <3>3. CASE i # k - 1
      BY <1>4, <2>2, <2>3, <3>1, <3>3
    <3>4. QED
      BY <3>2, <3>3
  <2>5. QED
    BY <2>4
<1>7. \A i \in Index : i > n + 1 => b1[i] = b[i]
  BY <1>1, <1>4
<1>8. Clean(c1, b1, -1)
  BY <1>2 DEF Clean, Escaping, Printing
<1>9. QED
  BY <1>2, <1>3, <1>4, <1>5, <1>6, <1>7, <1>8 DEF Fine, c1, b1, n, k

LEMMA ReturnStep ==
  ASSUME NEW c, NEW b, Calling(c, b), c.pc = "return"
  PROVE  Fine(c, b, To(c, "end"), Stored(b, c.k, "CR"))
<1> DEFINE n == length(c.data)
           k == c.k
<1>1. /\ c \in Call /\ b \in [Index -> Char] /\ Within(c) /\ c.data \in Seq(Char) /\ k \in Nat
      /\ n \in Nat /\ n >= 2 /\ n + 1 <= Last /\ c.data # << >> /\ Last \in Nat /\ Index = 0 .. Last
      /\ k = n
  BY CallIs, PortSizes DEF Calling, Within, Writing, Escaping
<1> DEFINE c1 == To(c, "end")
           b1 == Stored(b, k, "CR")
<1>2. c1.pc = "end" /\ c1.data = c.data /\ c1.k = k /\ c1.c = c.c /\ c1 \in Call
  BY <1>1, ToIs DEF Label, Writing
<1>3. "CR" \in Char /\ k \in Index /\ k # Last /\ Last \in Index
  BY <1>1 DEF Char
<1>4. /\ b1 \in [Index -> Char] /\ b1[k] = "CR"
      /\ \A i \in Index : i # k => b1[i] = b[i]
  BY <1>1, <1>3 DEF Stored
<1> HIDE DEF c1, b1, n, k
<1>5. Within(c1)
  BY <1>1, <1>2 DEF Within, Escaping, Printing, n
<1>6. Own(c, b) => Own(c1, b1)
  <2>1. SUFFICES ASSUME Own(c, b) PROVE \A i \in 0 .. n : b1[i] = Raw(c.data, i)
    BY <1>2 DEF Own, Escaping, Printing, n
  <2>2. \A i \in 0 .. n - 1 : b[i] = Raw(c.data, i)
    BY <2>1 DEF Own, n
  <2>3. Raw(c.data, n) = "CR"
    BY <1>1, RawIs DEF n
  <2>4. ASSUME NEW i \in 0 .. n PROVE b1[i] = Raw(c.data, i)
    <3>1. i \in Index /\ (i = k \/ (i # k /\ i \in 0 .. n - 1))
      BY <1>1
    <3>2. QED
      BY <1>1, <1>4, <2>2, <2>3, <3>1
  <2>5. QED
    BY <2>4
<1>7. \A i \in Index : i > n + 1 => b1[i] = b[i]
  BY <1>1, <1>4
<1>8. Clean(c1, b1, -1)
  BY <1>1, <1>2, <1>4 DEF Clean, Escaping, Printing, n
<1>9. QED
  BY <1>2, <1>3, <1>4, <1>5, <1>6, <1>7, <1>8 DEF Fine, c1, b1, n, k

Ended(c) == [c EXCEPT !.pc = "look", !.k = 0]
LEMMA EndStep ==
  ASSUME NEW c, NEW b, Calling(c, b), c.pc = "end"
  PROVE  Fine(c, b, Ended(c), Stored(b, c.k + 1, "NUL"))
<1> DEFINE n == length(c.data)
           k == c.k
<1>1. /\ c \in Call /\ b \in [Index -> Char] /\ Within(c) /\ c.data \in Seq(Char) /\ k \in Nat
      /\ n \in Nat /\ n >= 2 /\ n + 1 <= Last /\ c.data # << >> /\ Last \in Nat /\ Index = 0 .. Last
      /\ k = n
  BY CallIs, PortSizes DEF Calling, Within, Writing, Escaping
<1> DEFINE c1 == Ended(c)
           b1 == Stored(b, k + 1, "NUL")
<1>2. c1.pc = "look" /\ c1.data = c.data /\ c1.k = 0 /\ c1.c = c.c /\ c1 \in Call
  BY <1>1 DEF Ended, Call, Escaping
<1>3. "NUL" \in Char /\ k + 1 \in Index /\ Last \in Index
  BY <1>1 DEF Char
<1>4. /\ b1 \in [Index -> Char] /\ b1[k + 1] = "NUL"
      /\ \A i \in Index : i # k + 1 => b1[i] = b[i]
  BY <1>1, <1>3 DEF Stored
<1> HIDE DEF c1, b1, n, k
<1>5. Within(c1)
  BY <1>1, <1>2 DEF Within, Escaping, Printing, n
<1>6. Own(c, b) => Own(c1, b1)
  <2>1. SUFFICES ASSUME Own(c, b)
                 PROVE  \A i \in 0 .. n + 1 : b1[i] = IF i < 0 THEN Final(c.data, i) ELSE Raw(c.data, i)
    BY <1>2 DEF Own, Writing, Printing, n
  <2>2. \A i \in 0 .. n : b[i] = Raw(c.data, i)
    BY <2>1 DEF Own, n
  <2>3. Raw(c.data, n + 1) = "NUL"
    BY <1>1, RawIs DEF n
  <2>4. ASSUME NEW i \in 0 .. n + 1 PROVE b1[i] = Raw(c.data, i) /\ ~(i < 0)
    <3>1. i \in Index /\ ~(i < 0) /\ (i = k + 1 \/ (i # k + 1 /\ i \in 0 .. n))
      BY <1>1
    <3>2. QED
      BY <1>1, <1>4, <2>2, <2>3, <3>1
  <2>5. QED
    BY <2>4
<1>7. \A i \in Index : i > n + 1 => b1[i] = b[i]
  BY <1>1, <1>4
<1>8. Clean(c, b, -1) => Clean(c1, b1, -1)
  <2>1. SUFFICES ASSUME Clean(c, b, -1) PROVE EndsAt(c1, b1, -1, n + 1)
    BY <1>1, <1>2, <1>3 DEF Clean, Ends, Printing, n
  <2>2. b[n] # "EOT"
    BY <1>1, <2>1 DEF Clean, n
  <2>3. ASSUME NEW i \in Index, i <= n + 1, ~(0 <= i /\ i < n) PROVE b1[i] # "EOT"
    <3>1. i = k + 1 \/ (i # k + 1 /\ i = n)
      BY <1>1, <2>3
    <3>2. QED
      BY <1>1, <1>4, <2>2, <3>1
  <2>4. QED
    BY <1>1, <1>2, <1>4, <2>3 DEF EndsAt, Escaping, n
<1>9. QED
  BY <1>2, <1>3, <1>4, <1>5, <1>6, <1>7, <1>8 DEF Fine, c1, b1, n, k

\* The place looked at holds what it should: on to the next, or to printing.
Looked(c) ==
  IF c.k + 1 < length(c.data) THEN On(c, "look")
  ELSE [c EXCEPT !.pc = "poll", !.k = 0, !.c = "text"]
EscapedAt(c, b, b1) ==
  /\ b1 \in [Index -> Char] /\ \A i \in Index : i # c.k => b1[i] = b[i]
  /\ b1[c.k] # "EOT" /\ (Own(c, b) => b1[c.k] = Final(c.data, c.k))

LEMMA LookedStep ==
  ASSUME NEW c, NEW b, NEW b1, Calling(c, b), c.pc \in Escaping, EscapedAt(c, b, b1)
  PROVE  Fine(c, b, Looked(c), b1)
<1> DEFINE n == length(c.data)
           k == c.k
<1>1. /\ c \in Call /\ b \in [Index -> Char] /\ Within(c) /\ c.data \in Seq(Char) /\ k \in Nat
      /\ n \in Nat /\ n >= 2 /\ n + 1 <= Last /\ c.data # << >> /\ Last \in Nat /\ Index = 0 .. Last
      /\ k < n
  BY CallIs, PortSizes DEF Calling, Within, Writing, Escaping
<1> DEFINE c1 == Looked(c)
<1>2. /\ b1 \in [Index -> Char] /\ \A i \in Index : i # k => b1[i] = b[i]
      /\ b1[k] # "EOT" /\ (Own(c, b) => b1[k] = Final(c.data, k))
  BY DEF EscapedAt
<1>3. Last \in Index /\ k # Last /\ \A i \in Index : i > n + 1 => b1[i] = b[i]
  BY <1>1, <1>2
<1>4. CASE k + 1 < n
  <2>1. c1.pc = "look" /\ c1.data = c.data /\ c1.k = k + 1 /\ c1.c = c.c /\ c1 \in Call
    BY <1>1, <1>4, OnIs DEF Looked, Label, Escaping
  <2> HIDE DEF c1, n, k
  <2>2. Within(c1)
    BY <1>1, <1>4, <2>1 DEF Within, Escaping, Printing, n
  <2>3. Own(c, b) => Own(c1, b1)
    <3>1. SUFFICES ASSUME Own(c, b)
                   PROVE  \A i \in 0 .. n + 1 : b1[i] = IF i < k + 1 THEN Final(c.data, i) ELSE Raw(c.data, i)
      BY <2>1 DEF Own, Writing, Printing, n
    <3>2. \A i \in 0 .. n + 1 : b[i] = IF i < k THEN Final(c.data, i) ELSE Raw(c.data, i)
      BY <3>1 DEF Own, n, k
    <3>3. ASSUME NEW i \in 0 .. n + 1
          PROVE  b1[i] = IF i < k + 1 THEN Final(c.data, i) ELSE Raw(c.data, i)
      <4>1. CASE i = k
        <5>1. i < k + 1
          BY <1>1, <4>1
        <5>2. QED
          BY <1>2, <3>1, <4>1, <5>1
      <4>2. CASE i # k
        <5>1. i \in Index /\ (i < k + 1 <=> i < k)
          BY <1>1, <4>2
        <5>2. QED
          BY <1>2, <3>2, <4>2, <5>1
      <4>3. QED
        BY <4>1, <4>2
    <3>4. QED
      BY <3>3
  <2>4. Clean(c, b, -1) => Clean(c1, b1, -1)
    <3>1. SUFFICES ASSUME Clean(c, b, -1) PROVE Ends(c1, b1, -1, n + 1)
      BY <2>1 DEF Clean, Printing, n
    <3>2. PICK K \in Index : n + 1 <= K /\ EndsAt(c, b, -1, K)
      BY <3>1 DEF Clean, Ends, n
    <3>3. /\ b[K] = "NUL"
          /\ \A i \in Index : i <= K /\ ~(k <= i /\ i < n) => b[i] # "EOT"
      BY <1>1, <3>2 DEF EndsAt, n, k
    <3>4. b1[K] = "NUL"
      BY <1>1, <1>2, <3>2, <3>3
    <3>5. ASSUME NEW i \in Index, i <= K, ~(k + 1 <= i /\ i < n) PROVE b1[i] # "EOT"
      <4>1. CASE i = k
        BY <1>2, <4>1
      <4>2. CASE i # k
        <5>1. ~(k <= i /\ i < n)
          BY <1>1, <3>5, <4>2
        <5>2. QED
          BY <1>2, <3>3, <3>5, <4>2, <5>1
      <4>3. QED
        BY <4>1, <4>2
    <3>6. EndsAt(c1, b1, -1, K)
      BY <2>1, <3>4, <3>5 DEF EndsAt, Escaping, n
    <3>7. QED
      BY <3>2, <3>6 DEF Ends
  <2>5. QED
    BY <1>2, <1>3, <2>1, <2>2, <2>3, <2>4 DEF Fine, n, c1
<1>5. CASE ~(k + 1 < n)
  <2>1. c1.pc = "poll" /\ c1.data = c.data /\ c1.k = 0 /\ c1.c = "text" /\ c1 \in Call
    BY <1>1, <1>5 DEF Looked, Call, Printing, Char
  <2>2. k = n - 1
    BY <1>1, <1>5
  <2> HIDE DEF c1, n, k
  <2>3. Within(c1)
    BY <1>1, <2>1 DEF Within, Escaping, Printing, n
  <2>4. Own(c, b) => Own(c1, b1)
    <3>1. SUFFICES ASSUME Own(c, b) PROVE \A i \in 0 .. n + 1 : b1[i] = Final(c.data, i)
      BY <2>1 DEF Own, Writing, Escaping, n
    <3>2. \A i \in 0 .. n + 1 : b[i] = IF i < k THEN Final(c.data, i) ELSE Raw(c.data, i)
      BY <3>1 DEF Own, n, k
    <3>3. Raw(c.data, n) = "CR" /\ Raw(c.data, n + 1) = "NUL" /\ Final(c.data, n) = "CR"
          /\ Final(c.data, n + 1) = "NUL"
      BY <1>1, RawIs DEF n
    <3>4. ASSUME NEW i \in 0 .. n + 1 PROVE b1[i] = Final(c.data, i)
      <4>1. CASE i = k
        BY <1>2, <3>1, <4>1
      <4>2. CASE i # k
        <5>1. i \in Index /\ (i < k \/ (~(i < k) /\ (i = n \/ i = n + 1)))
          BY <1>1, <2>2, <4>2
        <5>2. b1[i] = b[i]
          BY <1>2, <4>2, <5>1
        <5>3. QED
          BY <3>2, <3>3, <5>1, <5>2
      <4>3. QED
        BY <4>1, <4>2
    <3>5. QED
      BY <3>4
  <2>5. Clean(c, b, -1) => Clean(c1, b1, -1)
    <3>1. SUFFICES ASSUME Clean(c, b, -1) PROVE Ends(c1, b1, -1, 0)
      BY <2>1 DEF Clean, Escaping, n
    <3>2. PICK K \in Index : n + 1 <= K /\ EndsAt(c, b, -1, K)
      BY <3>1 DEF Clean, Ends, n
    <3>3. /\ b[K] = "NUL"
          /\ \A i \in Index : i <= K /\ ~(k <= i /\ i < n) => b[i] # "EOT"
      BY <1>1, <3>2 DEF EndsAt, n, k
    <3>4. b1[K] = "NUL" /\ 0 <= K
      BY <1>1, <1>2, <3>2, <3>3
    <3>5. ASSUME NEW i \in Index, i <= K PROVE b1[i] # "EOT"
      <4>1. CASE i = k
        BY <1>2, <4>1
      <4>2. CASE i # k
        <5>1. ~(k <= i /\ i < n)
          BY <1>1, <2>2, <4>2
        <5>2. QED
          BY <1>2, <3>3, <3>5, <4>2, <5>1
      <4>3. QED
        BY <4>1, <4>2
    <3>6. EndsAt(c1, b1, -1, K)
      BY <3>4, <3>5 DEF EndsAt
    <3>7. QED
      BY <3>4, <3>6 DEF Ends
  <2>6. QED
    BY <1>2, <1>3, <2>1, <2>3, <2>4, <2>5 DEF Fine, n, c1
<1>6. QED
  BY <1>4, <1>5

LEMMA LookStep ==
  ASSUME NEW c, NEW b, Calling(c, b), c.pc = "look"
  PROVE  Fine(c, b, IF b[c.k] = "EOT" THEN To(c, "escape") ELSE Looked(c), b)
<1> DEFINE n == length(c.data)
           k == c.k
<1>1. /\ c \in Call /\ b \in [Index -> Char] /\ Within(c) /\ c.data \in Seq(Char) /\ k \in Nat
      /\ n \in Nat /\ n >= 2 /\ n + 1 <= Last /\ c.data # << >> /\ Last \in Nat /\ Index = 0 .. Last
      /\ k < n
  BY CallIs, PortSizes DEF Calling, Within, Writing, Escaping
<1>2. CASE b[k] # "EOT"
  <2>1. Own(c, b) => b[k] = Final(c.data, k)
    <3>1. SUFFICES ASSUME Own(c, b) PROVE b[k] = Final(c.data, k)
      OBVIOUS
    <3>2. \A i \in 0 .. n + 1 : b[i] = IF i < k THEN Final(c.data, i) ELSE Raw(c.data, i)
      BY <3>1 DEF Own, Escaping
    <3>3. k \in 0 .. n + 1 /\ ~(k < k)
      BY <1>1
    <3>4. QED
      BY <1>2, <3>2, <3>3 DEF Final
  <2>2. EscapedAt(c, b, b)
    BY <1>1, <1>2, <2>1 DEF EscapedAt
  <2>3. QED
    BY <1>2, <2>2, LookedStep DEF Escaping
<1>3. CASE b[k] = "EOT"
  <2> DEFINE c1 == To(c, "escape")
  <2>1. c1.pc = "escape" /\ c1.data = c.data /\ c1.k = k /\ c1.c = c.c /\ c1 \in Call
    BY <1>1, ToIs DEF Label, Escaping
  <2> HIDE DEF c1, n, k
  <2>2. Within(c1)
    BY <1>1, <2>1 DEF Within, Escaping, Printing, n
  <2>3. Own(c, b) => Own(c1, b)
    BY <1>3, <2>1 DEF Own, Escaping, Writing, Printing, k
  <2>4. Clean(c, b, -1) => Clean(c1, b, -1)
    <3>1. SUFFICES ASSUME Clean(c, b, -1) PROVE Ends(c1, b, -1, n + 1)
      BY <2>1 DEF Clean, Printing, n
    <3>2. PICK K \in Index : n + 1 <= K /\ EndsAt(c, b, -1, K)
      BY <3>1 DEF Clean, Ends, Escaping, n
    <3>3. EndsAt(c1, b, -1, K)
      BY <2>1, <3>2 DEF EndsAt, Escaping, k
    <3>4. QED
      BY <3>2, <3>3 DEF Ends
  <2>5. QED
    BY <1>1, <1>3, <2>1, <2>2, <2>3, <2>4 DEF Fine, c1, k
<1>4. QED
  BY <1>2, <1>3

LEMMA EscapeStep ==
  ASSUME NEW c, NEW b, Calling(c, b), c.pc = "escape"
  PROVE  Fine(c, b, Looked(c), Stored(b, c.k, "D"))
<1> DEFINE n == length(c.data)
           k == c.k
<1>1. /\ c \in Call /\ b \in [Index -> Char] /\ Within(c) /\ c.data \in Seq(Char) /\ k \in Nat
      /\ n \in Nat /\ n >= 2 /\ n + 1 <= Last /\ c.data # << >> /\ Last \in Nat /\ Index = 0 .. Last
      /\ k < n
  BY CallIs, PortSizes DEF Calling, Within, Writing, Escaping
<1> DEFINE b1 == Stored(b, k, "D")
<1>2. b1 \in [Index -> Char] /\ b1[k] = "D" /\ \A i \in Index : i # k => b1[i] = b[i]
  <2>1. "D" \in Char /\ k \in Index
    BY <1>1 DEF Char
  <2>2. QED
    BY <1>1, <2>1 DEF Stored
<1> HIDE DEF b1, n
<1>3. Own(c, b) => b1[k] = Final(c.data, k)
  <2>1. SUFFICES ASSUME Own(c, b) PROVE "D" = Final(c.data, k)
    BY <1>2
  <2>2. b[k] = "EOT" /\ \A i \in 0 .. n + 1 : b[i] = IF i < k THEN Final(c.data, i) ELSE Raw(c.data, i)
    BY <2>1 DEF Own, Escaping, n
  <2>3. k \in 0 .. n + 1 /\ ~(k < k)
    BY <1>1
  <2>4. QED
    BY <2>2, <2>3 DEF Final
<1>4. EscapedAt(c, b, b1)
  BY <1>2, <1>3 DEF EscapedAt
<1>5. QED
  BY <1>4, LookedStep DEF Escaping, b1

LEMMA LookForEndStep ==
  ASSUME NEW c, NEW b, Calling(c, b), c.pc = "test", b[Last] = "NUL"
  PROVE  Fine(c, b, To(c, IF b[c.k] = "NUL" THEN "idle" ELSE "fetch"), b)
<1> DEFINE k == c.k
           c1 == To(c, IF b[k] = "NUL" THEN "idle" ELSE "fetch")
<1>1. /\ c \in Call /\ b \in [Index -> Char] /\ Within(c) /\ k \in Nat /\ c.data # << >>
      /\ k <= Last /\ Last \in Nat /\ Index = 0 .. Last
  BY CallIs, PortSizes DEF Calling, Within, Printing
<1>2. /\ c1.pc = (IF b[k] = "NUL" THEN "idle" ELSE "fetch") /\ c1.data = c.data /\ c1.k = k
      /\ c1.c = c.c /\ c1 \in Call
  <2>1. (IF b[k] = "NUL" THEN "idle" ELSE "fetch") \in Label
    BY DEF Label, Printing
  <2>2. QED
    BY <1>1, <2>1, ToIs
<1>3. b[k] # "NUL" => k < Last
  BY <1>1
<1> HIDE DEF c1, k
<1>4. Within(c1)
  BY <1>1, <1>2, <1>3 DEF Within, Escaping, Printing
<1>5. Own(c, b) => Own(c1, b)
  BY <1>2 DEF Own, Escaping, Printing
<1>6. Clean(c, b, -1) => Clean(c1, b, -1)
  <2>1. SUFFICES ASSUME Clean(c, b, -1), b[k] # "NUL" PROVE Ends(c1, b, -1, k) /\ Ends(c1, b, -1, k + 1)
    BY <1>2 DEF Clean, Escaping, Printing
  <2>2. PICK K \in Index : k <= K /\ EndsAt(c, b, -1, K)
    BY <1>1, <2>1 DEF Clean, Ends, Printing, k
  <2>3. b[K] = "NUL" /\ k + 1 <= K
    BY <1>1, <2>1, <2>2 DEF EndsAt
  <2>4. EndsAt(c1, b, -1, K)
    BY <1>2, <2>1, <2>2 DEF EndsAt, Escaping
  <2>5. QED
    BY <2>2, <2>3, <2>4 DEF Ends
<1>7. QED
  BY <1>1, <1>2, <1>4, <1>5, <1>6 DEF Fine, c1, k

Fetched(c, b) == [c EXCEPT !.pc = "poll", !.k = @ + 1, !.c = b[c.k]]
LEMMA FetchStep ==
  ASSUME NEW c, NEW b, Calling(c, b), c.pc = "fetch", b[c.k] # "EOT"
  PROVE  Fine(c, b, Fetched(c, b), b)
<1> DEFINE k == c.k
           c1 == Fetched(c, b)
<1>1. /\ c \in Call /\ b \in [Index -> Char] /\ Within(c) /\ k \in Nat /\ c.data # << >>
      /\ k < Last /\ Last \in Nat /\ Index = 0 .. Last
  BY CallIs, PortSizes DEF Calling, Within
<1>2. /\ c1.pc = "poll" /\ c1.data = c.data /\ c1.k = k + 1 /\ c1.c = b[k] /\ c1 \in Call
  <2>1. b[k] \in Char /\ k + 1 \in Nat
    BY <1>1
  <2>2. QED
    BY <1>1, <2>1 DEF Fetched, Call, Printing
<1> HIDE DEF c1
<1>3. Within(c1)
  BY <1>1, <1>2 DEF Within, Escaping, Printing
<1>4. Own(c, b) => Own(c1, b)
  BY <1>2 DEF Own, Escaping, Printing
<1>5. Clean(c, b, -1) => Clean(c1, b, -1)
  <2>1. SUFFICES ASSUME Clean(c, b, -1) PROVE Ends(c1, b, -1, k + 1)
    BY <1>2 DEF Clean, Escaping, Printing
  <2>2. PICK K \in Index : k + 1 <= K /\ EndsAt(c, b, -1, K)
    BY <2>1 DEF Clean, Ends
  <2>3. EndsAt(c1, b, -1, K)
    BY <1>2, <2>2 DEF EndsAt, Escaping
  <2>4. QED
    BY <2>2, <2>3 DEF Ends
<1>6. QED
  BY <1>1, <1>2, <1>3, <1>4, <1>5 DEF Fine, c1

LEMMA PrintStep ==
  ASSUME NEW c, NEW b, Calling(c, b), NEW label,
         \/ c.pc = "poll" /\ label = "put"
         \/ c.pc = "put" /\ label = IF c.data = << >> THEN "idle" ELSE "test"
  PROVE  Fine(c, b, To(c, label), b)
<1> DEFINE c1 == To(c, label)
<1>1. /\ c \in Call /\ b \in [Index -> Char] /\ Within(c) /\ c.pc \in {"poll", "put"}
      /\ label \in {"put", "idle", "test"} /\ (label = "test" => c.data # << >>)
  BY DEF Calling
<1>2. c1.pc = label /\ c1.data = c.data /\ c1.k = c.k /\ c1.c = c.c /\ c1 \in Call
  BY <1>1, ToIs DEF Label, Printing
<1> HIDE DEF c1
<1>3. Within(c1)
  BY <1>1, <1>2 DEF Within, Escaping, Printing
<1>4. Own(c, b) => Own(c1, b)
  BY <1>1, <1>2 DEF Own, Writing, Escaping, Printing
<1>5. Clean(c, b, -1) => Clean(c1, b, -1)
  <2>1. SUFFICES ASSUME Clean(c, b, -1), c.data # << >> PROVE Ends(c1, b, -1, c.k)
    BY <1>1, <1>2 DEF Clean, Escaping, Printing
  <2>2. PICK K \in Index : c.k <= K /\ EndsAt(c, b, -1, K)
    BY <1>1, <2>1 DEF Clean, Ends, Printing
  <2>3. EndsAt(c1, b, -1, K)
    BY <1>1, <1>2, <2>2 DEF EndsAt, Escaping
  <2>4. QED
    BY <2>2, <2>3 DEF Ends
<1>6. QED
  BY <1>1, <1>2, <1>3, <1>4, <1>5 DEF Fine, c1

----------------------------------------------------------------------------
(* What has been sent of an echo. *)
LEMMA UptoIs ==
  ASSUME NEW data \in Seq(Char), NEW n \in Nat, length(data) >= 2
  PROVE  /\ Upto(data, n) \in Seq(Char) /\ Len(Upto(data, n)) = n
         /\ \A j \in 1 .. n : Upto(data, n)[j] = Stream(data, j)
         /\ \A j \in 1 .. n + 1 : Stream(data, j) \in Char /\ Stream(data, j) # "EOT"
<1>1. ASSUME NEW j \in 1 .. n + 1 PROVE Stream(data, j) \in Char /\ Stream(data, j) # "EOT"
  <2>1. CASE j = 1
    BY <2>1 DEF Stream, Char
  <2>2. CASE j # 1
    <3>1. j - 2 \in Nat
      BY <1>1, <2>2
    <3>2. QED
      BY <2>2, <3>1, RawIs DEF Stream
  <2>3. QED
    BY <2>1, <2>2
<1>2. Upto(data, n) \in [1 .. n -> Char]
  BY <1>1 DEF Upto
<1>3. Upto(data, n) \in Seq(Char) /\ Len(Upto(data, n)) = n
  BY <1>2
<1>4. QED
  BY <1>1, <1>3 DEF Upto

\* A character more, or one lost.
LEMMA OneMoreSent ==
  ASSUME NEW data, NEW n \in Nat, NEW s \in Seq(Char \cup {"lost"}), OwnText(s, data, n),
         NEW x \in Char \cup {"lost"}, x \in {Stream(data, n + 1), "lost"}
  PROVE  OwnText(Append(s, x), data, n + 1)
<1> DEFINE a == Append(s, x)
<1>1. Len(s) = n /\ \A j \in 1 .. n : s[j] \in {Stream(data, j), "lost"}
  BY DEF OwnText
<1>2. Len(a) = n + 1 /\ a[n + 1] = x /\ \A j \in 1 .. n : a[j] = s[j]
  BY <1>1, AppendProperties
<1> HIDE DEF a
<1>3. ASSUME NEW j \in 1 .. n + 1 PROVE a[j] \in {Stream(data, j), "lost"}
  <2>1. j \in 1 .. n \/ j = n + 1
    OBVIOUS
  <2>2. QED
    BY <1>1, <1>2, <2>1
<1>4. QED
  BY <1>2, <1>3 DEF OwnText, a

\* Without a NUL of its own the text goes out whole, with newline and return; otherwise
\* up to its first NUL.
LEMMA EchoIs ==
  ASSUME NEW data \in Seq(Char), length(data) >= 2, NEW k \in Nat, Final(data, k) = "NUL",
         \A i \in 0 .. k - 1 : Final(data, i) # "NUL"
  PROVE  Upto(data, k + 1) = Echo(data)
<1> DEFINE n == length(data)
           text == [m \in 1 .. n - 1 |-> IF data[m] = "EOT" THEN "D" ELSE data[m]]
           zeros == {m \in 1 .. n - 1 : data[m] = "NUL"}
<1>1. n \in Nat /\ n >= 2 /\ \A i \in 0 .. n - 1 : data[i + 1] \in Char
  BY LengthIs
<1>2. \A m \in 1 .. n - 1 : data[m] \in Char
  <2>1. ASSUME NEW m \in 1 .. n - 1 PROVE data[m] \in Char
    <3>1. m - 1 \in 0 .. n - 1 /\ (m - 1) + 1 = m
      BY <1>1
    <3>2. QED
      BY <1>1, <3>1
  <2>2. QED
    BY <2>1
<1>3. text \in [1 .. n - 1 -> Char] /\ \A m \in 1 .. n - 1 : text[m] = IF data[m] = "EOT" THEN "D" ELSE data[m]
  BY <1>2 DEF Char
<1>4. text \in Seq(Char) /\ Len(text) = n - 1
  <2>1. PICK l \in Nat : l = n - 1
    BY <1>1
  <2>2. text \in [1 .. l -> Char]
    BY <1>3, <2>1
  <2>3. text \in Seq(Char) /\ Len(text) = l
    <3> HIDE DEF text
    <3>1. QED
      BY <2>2
  <2>4. QED
    BY <2>1, <2>3
<1>5. Echo(data) = << "text" >> \o (IF zeros = {} THEN text \o << "NL", "CR" >>
                      ELSE SubSeq(text, 1, (CHOOSE m \in zeros : \A j \in zeros : m <= j) - 1))
  BY DEF Echo
\* A text with no NUL so far is printed as it is, and a NUL as NULs.
<1>6. ASSUME NEW i \in 0 .. n - 2
      PROVE  Final(data, i) = IF \E m \in zeros : m <= i + 1 THEN "NUL" ELSE text[i + 1]
  <2>1. Raw(data, i) = Copied(data, i) /\ i + 1 \in 1 .. n - 1
    BY <1>1, RawIs
  <2>2. (\E m \in 1 .. i + 1 : data[m] = "NUL") <=> \E m \in zeros : m <= i + 1
    BY <1>1, <2>1
  <2>3. QED
    BY <1>3, <2>1, <2>2 DEF Final, Copied
<1>7. Final(data, n - 1) = "NL" /\ Final(data, n) = "CR" /\ Final(data, n + 1) = "NUL"
  BY RawIs
<1> HIDE DEF n, text, zeros
<1>8. \A m \in zeros : m \in 1 .. n - 1 /\ data[m] = "NUL"
  BY DEF zeros
<1> DEFINE u == Upto(data, k + 1)
           e == Echo(data)
<1>9. u \in Seq(Char) /\ Len(u) = k + 1 /\ \A j \in 1 .. k + 1 : u[j] = Stream(data, j)
  BY UptoIs
<1> HIDE DEF u
<1>10. "text" \in Char /\ "NL" \in Char /\ "CR" \in Char
  BY DEF Char
<1>11. CASE zeros = {}
  <2>1. k = n + 1
    <3>1. k <= n + 1
      BY <1>1, <1>7
    <3>2. \A i \in 0 .. n - 2 : Final(data, i) # "NUL"
      <4>1. ASSUME NEW i \in 0 .. n - 2 PROVE Final(data, i) # "NUL"
        <5>1. i + 1 \in 1 .. n - 1 /\ data[i + 1] # "NUL"
          BY <1>1, <1>11 DEF zeros
        <5>2. QED
          BY <1>3, <1>6, <1>11, <5>1
      <4>2. QED
        BY <4>1
    <3>3. k # n /\ k # n - 1 /\ k \notin 0 .. n - 2
      BY <1>7, <3>2
    <3>4. QED
      BY <1>1, <3>1, <3>3
  <2> DEFINE tail == text \o << "NL", "CR" >>
  <2>2. /\ tail \in Seq(Char) /\ Len(tail) = n + 1 /\ tail[n] = "NL" /\ tail[n + 1] = "CR"
        /\ \A m \in 1 .. n - 1 : tail[m] = text[m]
    <3>1. << "NL", "CR" >> \in Seq(Char) /\ Len(<< "NL", "CR" >>) = 2
      BY <1>10
    <3>2. QED
      BY <1>1, <1>4, <3>1, ConcatProperties
  <2> HIDE DEF tail
  <2>3. /\ e \in Seq(Char) /\ Len(e) = n + 2 /\ e[1] = "text"
        /\ \A m \in 1 .. n + 1 : e[m + 1] = tail[m]
    <3>1. e = << "text" >> \o tail
      BY <1>5, <1>11 DEF tail
    <3>2. << "text" >> \in Seq(Char) /\ Len(<< "text" >>) = 1
      BY <1>10
    <3>3. QED
      BY <1>1, <2>2, <3>1, <3>2, ConcatProperties
  <2> HIDE DEF e
  <2>4. ASSUME NEW j \in 1 .. k + 1 PROVE u[j] = e[j]
    <3>1. CASE j = 1
      BY <1>9, <2>3, <3>1 DEF Stream
    <3>2. CASE j # 1
      <4>1. j - 2 \in Nat /\ j - 1 \in 1 .. n + 1 /\ (j - 1) + 1 = j /\ (j - 2) + 1 = j - 1
            /\ (j - 2 \in 0 .. n - 2 \/ j - 2 = n - 1 \/ j - 2 = n)
        BY <1>1, <2>1, <3>2
      <4>2. u[j] = Final(data, j - 2) /\ e[j] = tail[j - 1]
        BY <1>9, <2>3, <3>2, <4>1 DEF Stream
      <4>3. CASE j - 2 \in 0 .. n - 2
        <5>1. j - 1 \in 1 .. n - 1
          BY <1>1, <4>1, <4>3
        <5>2. Final(data, j - 2) = text[j - 1]
          BY <1>6, <1>11, <4>1, <4>3
        <5>3. QED
          BY <2>2, <4>2, <5>1, <5>2
      <4>4. CASE j - 2 = n - 1
        <5>1. j - 1 = n
          BY <1>1, <4>4
        <5>2. QED
          BY <1>7, <2>2, <4>2, <4>4, <5>1
      <4>5. CASE j - 2 = n
        <5>1. j - 1 = n + 1
          BY <1>1, <4>5
        <5>2. QED
          BY <1>7, <2>2, <4>2, <4>5, <5>1
      <4>6. QED
        BY <4>1, <4>3, <4>4, <4>5
    <3>3. QED
      BY <3>1, <3>2
  <2>5. Len(u) = Len(e)
    BY <1>1, <1>9, <2>1, <2>3
  <2>6. u = e
    BY <1>9, <2>3, <2>4, <2>5, SeqEqual
  <2>7. QED
    BY <2>6 DEF u, e
<1>12. CASE zeros # {}
  <2>1. zeros \in SUBSET Nat
    BY <1>1, <1>8
  <2>2. PICK m \in zeros : \A j \in zeros : m <= j
    BY <1>12, <2>1, Smallest
  <2>3. (CHOOSE j \in zeros : \A i \in zeros : j <= i) = m
    <3>1. \A j \in zeros : (\A i \in zeros : j <= i) => j = m
      BY <2>1, <2>2
    <3>2. QED
      BY <2>2, <3>1
  <2>4. m \in 1 .. n - 1 /\ m \in Nat
    BY <1>1, <1>8, <2>2
  <2>5. k = m - 1
    <3>1. Final(data, m - 1) = "NUL"
      <4>1. m - 1 \in 0 .. n - 2 /\ m <= (m - 1) + 1
        BY <1>1, <2>4
      <4>2. QED
        BY <1>6, <2>2, <4>1
    <3>2. k <= m - 1
      BY <2>4, <3>1
    <3>3. ~(k < m - 1)
      <4>1. SUFFICES ASSUME k < m - 1 PROVE FALSE
        OBVIOUS
      <4>2. k \in 0 .. n - 2 /\ k + 1 \in 1 .. n - 1 /\ k + 1 < m
        BY <1>1, <2>4, <4>1
      <4>3. \A j \in zeros : ~(j <= k + 1)
        BY <2>1, <2>2, <4>2
      <4>4. data[k + 1] # "NUL"
        BY <4>2, <4>3 DEF zeros
      <4>5. QED
        BY <1>3, <1>6, <4>2, <4>3, <4>4
    <3>4. QED
      BY <2>4, <3>2, <3>3
  <2> DEFINE tail == SubSeq(text, 1, m - 1)
  <2>6. tail \in Seq(Char) /\ Len(tail) = k /\ \A i \in 1 .. k : tail[i] = text[i]
    <3>1. 1 .. m - 1 \subseteq 1 .. Len(text) /\ k \in 0 .. Len(text)
      BY <1>1, <1>4, <2>4, <2>5
    <3>2. QED
      BY <1>4, <2>4, <2>5, <3>1, SubSeqProperties
  <2> HIDE DEF tail
  <2>7. e \in Seq(Char) /\ Len(e) = k + 1 /\ e[1] = "text" /\ \A i \in 1 .. k : e[i + 1] = tail[i]
    <3>1. e = << "text" >> \o tail
      BY <1>5, <1>12, <2>3 DEF tail
    <3>2. << "text" >> \in Seq(Char) /\ Len(<< "text" >>) = 1
      BY <1>10
    <3>3. QED
      BY <2>6, <3>1, <3>2, ConcatProperties
  <2> HIDE DEF e
  <2>8. ASSUME NEW j \in 1 .. k + 1 PROVE u[j] = e[j]
    <3>1. CASE j = 1
      BY <1>9, <2>7, <3>1 DEF Stream
    <3>2. CASE j # 1
      <4>1. j - 2 \in 0 .. n - 2 /\ j - 1 \in 1 .. k /\ (j - 1) + 1 = j /\ (j - 2) + 1 = j - 1 /\ j - 1 < m
        BY <1>1, <2>4, <2>5, <3>2
      <4>2. u[j] = Final(data, j - 2) /\ e[j] = text[j - 1]
        BY <1>9, <2>6, <2>7, <3>2, <4>1 DEF Stream
      <4>3. \A i \in zeros : ~(i <= j - 1)
        BY <2>1, <2>2, <4>1
      <4>4. QED
        BY <1>6, <4>1, <4>2, <4>3
    <3>3. QED
      BY <3>1, <3>2
  <2>9. u = e
    BY <1>9, <2>7, <2>8, SeqEqual
  <2>10. QED
    BY <2>9 DEF u, e
<1>13. QED
  BY <1>11, <1>12

\* As far as no NUL has come, what goes out is the echo's.
LEMMA EchoPrefix ==
  ASSUME NEW data \in Seq(Char), length(data) >= 2, NEW k \in Nat,
         \A i \in 0 .. k - 1 : Final(data, i) # "NUL"
  PROVE  /\ Len(Echo(data)) \in Nat /\ k + 1 <= Len(Echo(data))
         /\ \A j \in 1 .. k + 1 : Echo(data)[j] = Stream(data, j)
<1> DEFINE ends == {i \in Nat : Final(data, i) = "NUL"}
<1>1. length(data) \in Nat /\ Final(data, length(data) + 1) = "NUL"
  BY LengthIs, RawIs
<1>2. ends \in SUBSET Nat /\ length(data) + 1 \in ends
  BY <1>1
<1>3. PICK m \in ends : \A i \in ends : m <= i
  BY <1>2, Smallest
<1>4. m \in Nat /\ Final(data, m) = "NUL"
  BY <1>3
<1>5. \A i \in 0 .. m - 1 : Final(data, i) # "NUL"
  <2>1. SUFFICES ASSUME NEW i \in 0 .. m - 1, Final(data, i) = "NUL" PROVE FALSE
    OBVIOUS
  <2>2. i \in Nat /\ ~(m <= i)
    BY <1>4, <2>1
  <2>3. QED
    BY <1>3, <2>1, <2>2
<1>6. Echo(data) = Upto(data, m + 1)
  BY <1>4, <1>5, EchoIs
<1>7. m + 1 \in Nat
  BY <1>4
<1>8. Len(Echo(data)) = m + 1 /\ \A j \in 1 .. m + 1 : Echo(data)[j] = Stream(data, j)
  BY <1>6, <1>7, UptoIs
<1>9. k <= m
  <2>1. ~(m \in 0 .. k - 1)
    BY <1>4
  <2>2. QED
    BY <1>4, <2>1
<1> HIDE DEF ends
<1>10. k + 1 <= m + 1 /\ \A j \in 1 .. k + 1 : j \in 1 .. m + 1
  BY <1>4, <1>9
<1>11. QED
  BY <1>7, <1>8, <1>10

\* What a call nobody overtook has fetched is of its own echo.
Held(c, s) == Len(s) + (IF c.pc \in {"poll", "put"} THEN 1 ELSE 0)
LEMMA HeldIs ==
  ASSUME NEW c, NEW b, NEW s \in Seq(Char \cup {"lost"}), Calling(c, b), c.pc # "idle", Told(c, s)
  PROVE  Held(c, s) \in Nat /\ CutOff(c, s, Held(c, s))
<1>1. Held(c, s) \in Nat /\ Len(s) \in Nat
  <2>1. Len(s) \in Nat
    BY LenProperties
  <2>2. QED
    BY <2>1 DEF Held
<1>2. SUFFICES ASSUME c.data # << >> PROVE CutOff(c, s, Held(c, s))
  BY <1>1 DEF CutOff
<1>3. /\ c.data \in Seq(Char) /\ length(c.data) >= 2 /\ c.k \in Nat
      /\ c.pc \in Writing \cup Escaping \cup Printing
  BY <1>2, CallIs DEF Calling, Call
<1>4. CASE c.pc \in Writing \cup Escaping
  <2>1. s = << >> /\ Len(s) = 0
    BY <1>2, <1>4 DEF Told
  <2>2. Held(c, s) = 0
    BY <1>4, <2>1 DEF Held, Writing, Escaping
  <2>3. 0 \in Nat /\ \A i \in Nat : ~(\E j \in 1 .. 0 : i = j) /\ ~(0 > 0)
    OBVIOUS
  <2>4. Len(Echo(c.data)) \in Nat /\ 0 <= Len(Echo(c.data))
    <3>1. \A i \in 0 .. 0 - 1 : Final(c.data, i) # "NUL"
      OBVIOUS
    <3>2. Len(Echo(c.data)) \in Nat
      BY <1>3, <3>1, EchoPrefix
    <3>3. QED
      BY <3>2
  <2>5. CutOff(c, s, 0)
    BY <2>1, <2>3, <2>4 DEF CutOff
  <2>6. QED
    BY <2>2, <2>5
<1>5. CASE c.pc \in Printing
  <2>1. \A i \in 0 .. c.k - 1 : Final(c.data, i) # "NUL"
    BY <1>2, <1>5 DEF Told
  <2>2. /\ Len(Echo(c.data)) \in Nat /\ c.k + 1 <= Len(Echo(c.data))
        /\ \A j \in 1 .. c.k + 1 : Echo(c.data)[j] = Stream(c.data, j)
    BY <1>3, <2>1, EchoPrefix
  <2>3. CASE c.pc \in {"poll", "put"}
    <3>1. Len(s) = c.k /\ (\A j \in 1 .. c.k : s[j] \in {Stream(c.data, j), "lost"})
          /\ c.c = Stream(c.data, c.k + 1)
      BY <1>2, <2>3 DEF Told, OwnText
    <3>2. Held(c, s) = c.k + 1 /\ c.k + 1 # -1 /\ c.k + 1 \in Nat
      BY <1>3, <2>3, <3>1 DEF Held
    <3>3. ASSUME NEW i \in 1 .. c.k + 1, i <= Len(s) PROVE s[i] \in {Echo(c.data)[i], "lost"}
      <4>1. i \in 1 .. c.k
        BY <1>3, <3>1, <3>3
      <4>2. QED
        BY <2>2, <3>1, <3>3, <4>1
    <3>4. c.c = Echo(c.data)[c.k + 1]
      <4>1. c.k + 1 \in 1 .. c.k + 1
        BY <1>3
      <4>2. QED
        BY <2>2, <3>1, <4>1
    <3>5. CutOff(c, s, c.k + 1)
      BY <2>2, <2>3, <3>1, <3>2, <3>3, <3>4 DEF CutOff
    <3>6. QED
      BY <3>2, <3>5
  <2>4. CASE c.pc \in {"test", "fetch"}
    <3>1. Len(s) = c.k + 1 /\ (\A j \in 1 .. c.k + 1 : s[j] \in {Stream(c.data, j), "lost"})
      BY <1>2, <2>4 DEF Told, OwnText
    <3>2. Held(c, s) = c.k + 1 /\ c.k + 1 \in Nat /\ ~(c.k + 1 > Len(s))
      BY <1>3, <2>4, <3>1 DEF Held
    <3>3. ASSUME NEW i \in 1 .. c.k + 1 PROVE s[i] \in {Echo(c.data)[i], "lost"}
      BY <2>2, <3>1, <3>3
    <3>4. CutOff(c, s, c.k + 1)
      BY <2>2, <3>2, <3>3 DEF CutOff
    <3>5. QED
      BY <3>2, <3>4
  <2>5. QED
    BY <1>5, <2>3, <2>4 DEF Printing
<1>6. QED
  BY <1>3, <1>4, <1>5

----------------------------------------------------------------------------
(* The buffer of the program's call while an interrupt routine writes in it. *)

\* What is written up to place r does not matter until the routine returns, ...
SameBeyond(b, b1, r) == r \in Int /\ \A i \in Index : r < i => b1[i] = b[i]
LEMMA CleanBeyond ==
  ASSUME NEW c, NEW b, NEW b1, NEW r, Calling(c, b), Clean(c, b, r), SameBeyond(b, b1, r)
  PROVE  Clean(c, b1, r)
<1>1. r \in Int /\ \A i \in Index : r < i => b1[i] = b[i]
  BY DEF SameBeyond
<1>2. /\ length(c.data) \in Nat /\ length(c.data) \in Index /\ Index = 0 .. Last /\ Last \in Nat
  BY CallIs, PortSizes
<1>3. ASSUME NEW least, Ends(c, b, r, least) PROVE Ends(c, b1, r, least)
  <2>1. PICK k \in Index : least <= k /\ EndsAt(c, b, r, k)
    BY <1>3 DEF Ends
  <2>2. EndsAt(c, b1, r, k)
    BY <1>1, <1>2, <2>1 DEF EndsAt
  <2>3. QED
    BY <2>1, <2>2 DEF Ends
<1>4. c.pc = "end" => length(c.data) <= r \/ b1[length(c.data)] # "EOT"
  <2>1. length(c.data) <= r \/ r < length(c.data)
    BY <1>1, <1>2
  <2>2. QED
    BY <1>1, <1>2, <2>1 DEF Clean
<1>5. QED
  BY <1>3, <1>4 DEF Clean

\* ... the further it writes the less is claimed until then, ...
LEMMA CleanWeaker ==
  ASSUME NEW c, NEW b, NEW r \in Nat, Calling(c, b), Clean(c, b, -1)
  PROVE  Clean(c, b, r)
<1>1. /\ length(c.data) \in Nat /\ length(c.data) \in Index /\ Index = 0 .. Last /\ Last \in Nat
  BY CallIs, PortSizes
<1>2. ASSUME NEW least, Ends(c, b, -1, least) PROVE Ends(c, b, r, least)
  <2>1. PICK k \in Index : least <= k /\ EndsAt(c, b, -1, k)
    BY <1>2 DEF Ends
  <2>2. EndsAt(c, b, r, k)
    BY <1>1, <2>1 DEF EndsAt
  <2>3. QED
    BY <2>1, <2>2 DEF Ends
<1>3. c.pc = "end" => b[length(c.data)] # "EOT"
  BY <1>1 DEF Clean
<1>4. QED
  BY <1>2, <1>3 DEF Clean

\* ... and then it has left text without a Ctrl-D and with a NUL at its end.
LeftClean(b, r) == r \in Index /\ b[r] = "NUL" /\ \A i \in 0 .. r : b[i] # "EOT"
LEMMA CleanAgain ==
  ASSUME NEW c, NEW b, NEW r, Calling(c, b), Clean(c, b, r), LeftClean(b, r)
  PROVE  Clean(c, b, -1)
<1>1. r \in Nat /\ r \in Index /\ b[r] = "NUL" /\ \A i \in 0 .. r : b[i] # "EOT"
  BY PortSizes DEF LeftClean
<1>2. /\ length(c.data) \in Nat /\ c.k \in Nat /\ Index = 0 .. Last /\ Last \in Nat
  BY CallIs, PortSizes
<1>3. ASSUME NEW least \in Nat, Ends(c, b, r, least) PROVE Ends(c, b, -1, least)
  <2>1. PICK k \in Index : least <= k /\ EndsAt(c, b, r, k)
    BY <1>3 DEF Ends
  <2>2. CASE r < k
    <3>1. EndsAt(c, b, -1, k)
      <4>1. b[k] = "NUL"
        BY <1>2, <2>1, <2>2 DEF EndsAt
      <4>2. ASSUME NEW i \in Index, i <= k, ~(c.pc \in Escaping /\ c.k <= i /\ i < length(c.data))
            PROVE  b[i] # "EOT"
        <5>1. CASE i <= r
          BY <1>1, <1>2, <5>1
        <5>2. CASE r < i
          BY <2>1, <4>2, <5>2 DEF EndsAt
        <5>3. QED
          BY <1>1, <1>2, <5>1, <5>2
      <4>3. QED
        BY <4>1, <4>2 DEF EndsAt
    <3>2. QED
      BY <2>1, <3>1 DEF Ends
  <2>3. CASE ~(r < k)
    <3>1. least <= r
      BY <1>1, <1>2, <2>1, <2>3
    <3>2. EndsAt(c, b, -1, r)
      BY <1>1, <1>2 DEF EndsAt
    <3>3. QED
      BY <1>1, <3>1, <3>2 DEF Ends
  <2>4. QED
    BY <2>2, <2>3
<1>4. c.pc = "end" => b[length(c.data)] # "EOT"
  <2>1. length(c.data) <= r => length(c.data) \in 0 .. r
    BY <1>1, <1>2
  <2>2. QED
    BY <1>1, <2>1 DEF Clean
<1>5. length(c.data) + 1 \in Nat /\ c.k + 1 \in Nat
  BY <1>2
<1>6. QED
  BY <1>2, <1>3, <1>4, <1>5 DEF Clean

----------------------------------------------------------------------------
(* A step of the call that is running. *)
StepTo(w, c1, b1) ==
  /\ w = Running /\ call[w].pc # "idle"
  /\ call' = [call EXCEPT ![w] = c1] /\ alt_log_write_buf' = b1
  /\ Fine(call[w], alt_log_write_buf, c1, b1)
  /\ call[w].data = << >> \/ c1.pc = "idle" => b1 = alt_log_write_buf
  /\ c1.pc = "idle" /\ call[w].data # << >> => call[w].pc = "test"
  /\ ALT_LOG_FLAGS' = ALT_LOG_FLAGS /\ hits' = hits /\ cut' = cut /\ clock' = clock
Sends(w, c1) ==
  /\ sent' \in [Who -> Seq(Char \cup {"lost"})] /\ \A o \in Who : o # w => sent'[o] = sent[o]
  /\ \A i \in DOMAIN sent'[w] : sent'[w][i] # "EOT"
  /\ w = "isr" => \A i \in DOMAIN sent'[w] : sent'[w][i] # "lost"
  /\ (w = "program" => cut = -1) /\ Kept(w) => Told(c1, sent'[w])
  /\ Counted(call[w], sent[w]) => Counted(c1, sent'[w])
  /\ w = "program" /\ CutOff(call[w], sent[w], cut) => CutOff(c1, sent'[w], cut)

\* Who runs: the program only when no interrupt routine does.
LEMMA RunningIs ==
  /\ Running \in Who /\ (Running = "program" <=> call["isr"].pc = "idle")
  /\ Who = {"program", "isr"} /\ "program" # "isr"
BY DEF Running, Who

LEMMA PortCalls ==
  ASSUME PortInv, NEW w \in Who
  PROVE  Calling(call[w], alt_log_write_buf)
BY DEF PortInv, PortTypes, Calling

\* The call that runs leaves the other one with what it claims.
LEMMA RunningStep ==
  ASSUME PortInv, NEW w \in Who, NEW c1, NEW b1, StepTo(w, c1, b1), Sends(w, c1),
         LostOK', room' \in Nat, lost' \in Nat
  PROVE  PortInv'
<1> DEFINE b == alt_log_write_buf
           c == call[w]
<1>1. /\ call \in [Who -> Call] /\ b \in [Index -> Char] /\ b[Last] = "NUL"
      /\ \A o \in Who : Within(call[o]) /\ \A i \in DOMAIN sent[o] : sent[o][i] # "EOT"
      /\ Kept("isr") /\ (cut = -1 => Kept("program"))
      /\ Clean(call["program"], b, Reach(call["isr"])) /\ LostOK /\ Silent /\ ClockOK
      /\ hits \in Nat /\ ALT_LOG_FLAGS \in -1 .. 3 /\ lost \in Nat /\ cut \in Int
  BY DEF PortInv, PortTypes
<1>2. /\ w = Running /\ c.pc # "idle" /\ call' = [call EXCEPT ![w] = c1] /\ alt_log_write_buf' = b1
      /\ Fine(c, b, c1, b1) /\ (c.data = << >> \/ c1.pc = "idle" => b1 = b)
      /\ (c1.pc = "idle" /\ c.data # << >> => c.pc = "test")
      /\ ALT_LOG_FLAGS' = ALT_LOG_FLAGS /\ hits' = hits /\ cut' = cut /\ clock' = clock
  BY DEF StepTo
<1>3. /\ c1 \in Call /\ b1 \in [Index -> Char] /\ Within(c1) /\ c1.data = c.data /\ b1[Last] = "NUL"
      /\ \A i \in Index : i > length(c.data) + 1 => b1[i] = b[i]
      /\ (Own(c, b) => Own(c1, b1)) /\ (Clean(c, b, -1) => Clean(c1, b1, -1))
  BY <1>1, <1>2 DEF Fine
<1>4. call' \in [Who -> Call] /\ call'[w] = c1 /\ \A o \in Who : o # w => call'[o] = call[o]
  BY <1>1, <1>2, <1>3
<1>5. /\ sent' \in [Who -> Seq(Char \cup {"lost"})] /\ \A o \in Who : o # w => sent'[o] = sent[o]
      /\ \A i \in DOMAIN sent'[w] : sent'[w][i] # "EOT"
      /\ (w = "isr" => \A i \in DOMAIN sent'[w] : sent'[w][i] # "lost")
      /\ ((w = "program" => cut = -1) /\ Kept(w) => Told(c1, sent'[w]))
      /\ (Counted(c, sent[w]) => Counted(c1, sent'[w]))
      /\ (w = "program" /\ CutOff(c, sent[w], cut) => CutOff(c1, sent'[w], cut))
  BY DEF Sends
<1>6. /\ w \in Who /\ Who = {"program", "isr"} /\ "program" # "isr"
      /\ (w = "program" <=> call["isr"].pc = "idle")
  BY <1>2, RunningIs
<1> HIDE DEF b, c
<1>7. \A o \in Who : Within(call'[o]) /\ \A i \in DOMAIN sent'[o] : sent'[o][i] # "EOT"
  <2>1. Within(call'[w]) /\ \A i \in DOMAIN sent'[w] : sent'[w][i] # "EOT"
    BY <1>3, <1>4, <1>5
  <2>2. ASSUME NEW o \in Who, o # w
        PROVE  Within(call'[o]) /\ \A i \in DOMAIN sent'[o] : sent'[o][i] # "EOT"
    <3>1. call'[o] = call[o] /\ sent'[o] = sent[o]
      BY <1>4, <1>5, <2>2
    <3>2. QED
      BY <1>1, <2>2, <3>1
  <2>3. QED
    BY <2>1, <2>2
<1>8. (w = "program" => cut = -1) => Kept(w)'
  <2>1. SUFFICES ASSUME w = "program" => cut = -1 PROVE Own(c1, b1) /\ Told(c1, sent'[w])
    BY <1>2, <1>4 DEF Kept
  <2>2. Kept(w)
    BY <1>1, <1>6, <2>1
  <2>3. QED
    BY <1>3, <1>5, <2>1, <2>2 DEF Kept, b, c
\* Nothing is claimed of the buffer for a call that is not running, unless the one that
\* runs leaves the buffer alone.
<1>9. ASSUME NEW o \in Who, o # w, o = "program" => cut = -1 PROVE Kept(o)'
  <2>1. call'[o] = call[o] /\ sent'[o] = sent[o] /\ Kept(o)
    BY <1>1, <1>4, <1>5, <1>6, <1>9
  <2>2. call[o].pc = "idle" \/ b1 = b
    <3>1. CASE w = "program"
      BY <1>6, <1>9, <3>1
    <3>2. CASE w = "isr"
      <4>1. o = "program" /\ cut = -1 /\ call["isr"].pc # "idle" /\ c = call["isr"]
        BY <1>6, <1>9, <3>2 DEF c
      <4>2. call["program"].pc = "idle" \/ c.data = << >>
        BY <4>1 DEF PortInv, Overtaken
      <4>3. QED
        BY <1>2, <4>1, <4>2 DEF b, c
    <3>3. QED
      BY <1>6, <3>1, <3>2
  <2>3. Own(call[o], b1)
    <3>1. CASE call[o].pc = "idle"
      BY <3>1 DEF Own, Writing, Escaping, Printing
    <3>2. CASE b1 = b
      BY <2>1, <3>2 DEF Kept, b
    <3>3. QED
      BY <2>2, <3>1, <3>2
  <2>4. QED
    BY <1>2, <2>1, <2>3 DEF Kept
<1>10. Kept("isr")' /\ (cut' = -1 => Kept("program")')
  BY <1>2, <1>6, <1>8, <1>9
<1>11. Clean(call'["program"], b1, Reach(call'["isr"]))
  <2>1. CASE w = "program"
    <3>1. Reach(call["isr"]) = -1 /\ call'["isr"] = call["isr"] /\ call'["program"] = c1
      BY <1>4, <1>6, <2>1 DEF Reach
    <3>2. QED
      BY <1>1, <1>3, <2>1, <3>1 DEF c
  <2>2. CASE w = "isr"
    <3>1. call'["program"] = call["program"] /\ call'["isr"] = c1 /\ c = call["isr"]
      BY <1>4, <1>6, <2>2 DEF c
    <3>2. Calling(call["program"], b) /\ Calling(c, b) /\ Calling(call["program"], b1)
      BY <1>1, <1>3, <1>6, <3>1 DEF Calling
    <3>3. CASE c.data = << >>
      <4>1. Reach(c) = -1 /\ Reach(c1) = -1
        BY <1>3, <3>3 DEF Reach
      <4>2. QED
        BY <1>1, <1>2, <3>1, <3>3, <4>1 DEF b, c
    <3>4. CASE c.data # << >>
      <4> DEFINE r == length(c.data) + 1
      <4>1. r \in Nat /\ r \in Int /\ r \in Index /\ length(c.data) >= 2 /\ c.data \in Seq(Char)
        BY <3>2, <3>4, CallIs, PortSizes
      <4>2. Reach(c) = r
        BY <1>2, <3>4 DEF Reach, c
      <4>3. SameBeyond(b, b1, r)
        BY <1>3, <4>1, PortSizes DEF SameBeyond
      <4>4. Clean(call["program"], b1, r)
        BY <1>1, <3>1, <3>2, <4>2, <4>3, CleanBeyond
      <4>5. CASE c1.pc # "idle"
        BY <1>3, <3>1, <3>4, <4>4, <4>5 DEF Reach
      <4>6. CASE c1.pc = "idle"
        <5>1. Own(c, b) /\ c.pc = "test"
          BY <1>1, <1>2, <3>1, <3>4, <4>6 DEF Kept, b, c
        <5>2. \A i \in 0 .. length(c.data) + 1 : b[i] = Final(c.data, i)
          BY <3>4, <5>1 DEF Own, Printing
        <5>3. /\ \A i \in Nat : Final(c.data, i) # "EOT"
              /\ Final(c.data, length(c.data) + 1) = "NUL"
          BY <4>1, RawIs
        <5>4. b1 = b
          BY <1>2, <4>6 DEF b, c
        <5>5. LeftClean(b1, r)
          <6>1. b1[r] = "NUL" /\ \A i \in 0 .. r : b1[i] # "EOT"
            BY <4>1, <5>2, <5>3, <5>4
          <6>2. QED
            BY <4>1, <6>1 DEF LeftClean
        <5>6. Clean(call["program"], b1, -1)
          BY <3>2, <4>4, <5>5, CleanAgain
        <5>7. QED
          BY <3>1, <4>6, <5>6 DEF Reach
      <4>7. QED
        BY <4>5, <4>6
    <3>5. QED
      BY <3>3, <3>4
  <2>3. QED
    BY <1>6, <2>1, <2>2
<1>12. Silent'
  BY <1>1, <1>2, <1>4, <1>5, <1>6 DEF Silent, c
<1>13. ClockOK'
  BY <1>1, <1>2 DEF ClockOK, clock
<1>14. PortTypes'
  BY <1>1, <1>2, <1>3, <1>4, <1>5 DEF PortTypes
<1>15. Clean(call'["program"], alt_log_write_buf', Reach(call'["isr"])) /\ alt_log_write_buf'[Last] = "NUL"
  BY <1>2, <1>3, <1>11
<1>16. \A i \in DOMAIN sent'["isr"] : sent'["isr"][i] # "lost"
  BY <1>5, <1>6 DEF PortInv
<1>17. \A o \in Who : Counted(call'[o], sent'[o])
  <2>1. \A o \in Who : Counted(call[o], sent[o])
    BY DEF PortInv
  <2>2. QED
    BY <1>4, <1>5, <2>1 DEF c
<1>18. CutOff(call'["program"], sent'["program"], cut')
  <2>1. CutOff(call["program"], sent["program"], cut)
    BY DEF PortInv
  <2>2. QED
    BY <1>2, <1>4, <1>5, <1>6, <2>1 DEF c
<1>19. Overtaken'
  <2>1. Overtaken
    BY DEF PortInv
  <2>2. w = "program" => call'["isr"].pc = "idle"
    BY <1>4, <1>6
  <2>3. w = "isr" => call'["program"] = call["program"] /\ call'["isr"].data = call["isr"].data
    BY <1>3, <1>4, <1>6 DEF c
  <2>4. QED
    BY <1>2, <1>6, <2>1, <2>2, <2>3 DEF Overtaken, c
<1>20. QED
  BY <1>7, <1>10, <1>12, <1>13, <1>14, <1>15, <1>16, <1>17, <1>18, <1>19 DEF PortInv

\* What a step that sends nothing leaves as it was.
Quiet == sent' = sent /\ room' = room /\ lost' = lost
LEMMA QuietStep ==
  ASSUME PortInv, NEW w \in Who, NEW c1, NEW b1, StepTo(w, c1, b1), Quiet, c1.pc # "put",
         call[w].pc \notin {"poll", "put"}, c1.data = call[w].data,
         Kept(w) => Told(c1, sent[w]), Counted(call[w], sent[w]) => Counted(c1, sent[w])
  PROVE  PortInv'
<1>1. /\ call' = [call EXCEPT ![w] = c1] /\ hits' = hits /\ w = Running /\ call[w].pc # "idle"
  BY DEF StepTo
<1>2. /\ call \in [Who -> Call] /\ sent \in [Who -> Seq(Char \cup {"lost"})]
      /\ room \in Nat /\ lost \in Nat
      /\ \A o \in Who : \A i \in DOMAIN sent[o] : sent[o][i] # "EOT"
      /\ \A i \in DOMAIN sent["isr"] : sent["isr"][i] # "lost"
      /\ LostOK
  BY DEF PortInv, PortTypes
<1>3. call'[w] = c1 /\ \A o \in Who : o # w => call'[o] = call[o]
  BY <1>1, <1>2
<1>4. CutOff(call[w], sent[w], cut) => CutOff(c1, sent[w], cut)
  BY DEF CutOff
<1>5. Sends(w, c1)
  BY <1>2, <1>4 DEF Sends, Quiet
<1>6. LostOK'
  BY <1>1, <1>2, <1>3, RunningIs DEF LostOK, Quiet
<1>7. room' \in Nat /\ lost' \in Nat
  BY <1>2 DEF Quiet
<1>8. QED
  BY <1>5, <1>6, <1>7, RunningStep

\* The running call moves to a label, or to the next place and a label.
LEMMA Going ==
  ASSUME PortInv, NEW label
  PROVE  /\ Goto(label) => call' = [call EXCEPT ![Running] = To(call[Running], label)]
         /\ Next_k(label) => call' = [call EXCEPT ![Running] = On(call[Running], label)]
<1>1. call \in [Who -> Call] /\ Running \in Who
  BY RunningIs DEF PortInv, PortTypes
<1>2. QED
  BY <1>1 DEF Goto, Next_k, To, On

LEMMA Copies == PortInv /\ Copy => PortInv'
<1>1. SUFFICES ASSUME PortInv, Copy PROVE PortInv'
  OBVIOUS
<1> DEFINE w == Running
           c == call[w]
           c1 == On(c, IF c.k + 1 < length(c.data) THEN "copy" ELSE "newline")
           b1 == Stored(alt_log_write_buf, c.k, Copied(c.data, c.k))
<1>2. w \in Who /\ Calling(c, alt_log_write_buf) /\ c.pc = "copy" /\ c.data # << >>
  BY <1>1, RunningIs, PortCalls, CallIs DEF Copy, At, me, Writing
<1>3. Fine(c, alt_log_write_buf, c1, b1)
  BY <1>2, CopyStep
<1>4. call' = [call EXCEPT ![w] = c1] /\ alt_log_write_buf' = b1
  BY <1>1, Going DEF Copy, me, Store, Stored
<1>5. c1.pc \in Writing \ {"idle", "put"} /\ c1.data = c.data
  <2>1. c \in Call /\ (IF c.k + 1 < length(c.data) THEN "copy" ELSE "newline") \in Label
    BY <1>2 DEF Calling, Label, Writing
  <2>2. QED
    BY <2>1, OnIs DEF Writing
<1>6. StepTo(w, c1, b1) /\ Quiet
  BY <1>1, <1>2, <1>3, <1>4, <1>5 DEF StepTo, Copy, Rest, clock, Quiet
<1>7. (Kept(w) => Told(c1, sent[w])) /\ (Counted(c, sent[w]) => Counted(c1, sent[w]))
  BY <1>2, <1>5 DEF Kept, Told, Counted, Writing, Escaping, Printing
<1> HIDE DEF w, c1, b1
<1>8. QED
  BY <1>1, <1>2, <1>5, <1>6, <1>7, QuietStep

LEMMA Newlines == PortInv /\ Newline => PortInv'
<1>1. SUFFICES ASSUME PortInv, Newline PROVE PortInv'
  OBVIOUS
<1> DEFINE w == Running
           c == call[w]
           c1 == To(c, "return")
           b1 == Stored(alt_log_write_buf, c.k - 1, "NL")
<1>2. w \in Who /\ Calling(c, alt_log_write_buf) /\ c.pc = "newline" /\ c.data # << >>
  BY <1>1, RunningIs, PortCalls, CallIs DEF Newline, At, me, Writing
<1>3. Fine(c, alt_log_write_buf, c1, b1)
  BY <1>2, NewlineStep
<1>4. call' = [call EXCEPT ![w] = c1] /\ alt_log_write_buf' = b1
  BY <1>1, Going DEF Newline, me, Store, Stored
<1>5. c1.pc = "return" /\ c1.data = c.data
  BY <1>2, ToIs DEF Calling, Label, Writing
<1>6. StepTo(w, c1, b1) /\ Quiet
  BY <1>1, <1>2, <1>3, <1>4, <1>5 DEF StepTo, Newline, Rest, clock, Quiet
<1>7. (Kept(w) => Told(c1, sent[w])) /\ (Counted(c, sent[w]) => Counted(c1, sent[w]))
  BY <1>2, <1>5 DEF Kept, Told, Counted, Writing, Escaping, Printing
<1> HIDE DEF w, c1, b1
<1>8. QED
  BY <1>1, <1>2, <1>5, <1>6, <1>7, QuietStep

LEMMA Returns == PortInv /\ Return => PortInv'
<1>1. SUFFICES ASSUME PortInv, Return PROVE PortInv'
  OBVIOUS
<1> DEFINE w == Running
           c == call[w]
           c1 == To(c, "end")
           b1 == Stored(alt_log_write_buf, c.k, "CR")
<1>2. w \in Who /\ Calling(c, alt_log_write_buf) /\ c.pc = "return" /\ c.data # << >>
  BY <1>1, RunningIs, PortCalls, CallIs DEF Return, At, me, Writing
<1>3. Fine(c, alt_log_write_buf, c1, b1)
  BY <1>2, ReturnStep
<1>4. call' = [call EXCEPT ![w] = c1] /\ alt_log_write_buf' = b1
  BY <1>1, Going DEF Return, me, Store, Stored
<1>5. c1.pc = "end" /\ c1.data = c.data
  BY <1>2, ToIs DEF Calling, Label, Writing
<1>6. StepTo(w, c1, b1) /\ Quiet
  BY <1>1, <1>2, <1>3, <1>4, <1>5 DEF StepTo, Return, Rest, clock, Quiet
<1>7. (Kept(w) => Told(c1, sent[w])) /\ (Counted(c, sent[w]) => Counted(c1, sent[w]))
  BY <1>2, <1>5 DEF Kept, Told, Counted, Writing, Escaping, Printing
<1> HIDE DEF w, c1, b1
<1>8. QED
  BY <1>1, <1>2, <1>5, <1>6, <1>7, QuietStep

LEMMA EndsText == PortInv /\ End => PortInv'
<1>1. SUFFICES ASSUME PortInv, End PROVE PortInv'
  OBVIOUS
<1> DEFINE w == Running
           c == call[w]
           c1 == Ended(c)
           b1 == Stored(alt_log_write_buf, c.k + 1, "NUL")
<1>2. w \in Who /\ Calling(c, alt_log_write_buf) /\ c.pc = "end" /\ c.data # << >>
  BY <1>1, RunningIs, PortCalls, CallIs DEF End, At, me, Writing
<1>3. Fine(c, alt_log_write_buf, c1, b1)
  BY <1>2, EndStep
<1>4. call' = [call EXCEPT ![w] = c1] /\ alt_log_write_buf' = b1
  <2>1. call \in [Who -> Call]
    BY <1>1 DEF PortInv, PortTypes
  <2>2. QED
    BY <1>1, <1>2, <2>1 DEF End, me, Store, Stored, Ended
<1>5. c1.pc = "look" /\ c1.data = c.data
  BY <1>2 DEF Ended, Calling, Call
<1>6. StepTo(w, c1, b1) /\ Quiet
  BY <1>1, <1>2, <1>3, <1>4, <1>5 DEF StepTo, End, Rest, clock, Quiet
<1>7. (Kept(w) => Told(c1, sent[w])) /\ (Counted(c, sent[w]) => Counted(c1, sent[w]))
  BY <1>2, <1>5 DEF Kept, Told, Counted, Writing, Escaping, Printing
<1> HIDE DEF w, c1, b1
<1>8. QED
  BY <1>1, <1>2, <1>5, <1>6, <1>7, QuietStep

\* From the last place looked at printing begins, with the fixed text of the message.
LEMMA LookedIs ==
  ASSUME NEW c, NEW b, NEW s, Calling(c, b), c.pc \in Escaping
  PROVE  /\ Looked(c).pc \in {"look", "poll"} /\ Looked(c).data = c.data
         /\ Told(c, s) => Told(Looked(c), s)
         /\ Counted(c, s) => Counted(Looked(c), s)
<1> DEFINE c1 == Looked(c)
<1>1. c \in Call /\ c.data \in Seq(Char) /\ c.data # << >> /\ length(c.data) >= 2
  BY CallIs DEF Calling
<1>2. CASE c.k + 1 < length(c.data)
  <2>1. c1.pc = "look" /\ c1.data = c.data
    BY <1>1, <1>2, OnIs DEF Looked, Label, Escaping
  <2>2. (Told(c, s) => Told(c1, s)) /\ (Counted(c, s) => Counted(c1, s))
    BY <2>1 DEF Told, Counted, Writing, Escaping, Printing
  <2>3. QED
    BY <2>1, <2>2
<1>3. CASE ~(c.k + 1 < length(c.data))
  <2>1. c1.pc = "poll" /\ c1.data = c.data /\ c1.k = 0 /\ c1.c = "text"
    BY <1>1, <1>3 DEF Looked, Call
  <2>2. OwnText(<< >>, c.data, 0) /\ Stream(c.data, 1) = "text"
    BY EmptySeq DEF OwnText, Stream
  <2>3. Told(c, s) => Told(c1, s)
    BY <1>1, <2>1, <2>2 DEF Told, Writing, Escaping, Printing
  <2>4. Counted(c, s) => Counted(c1, s)
    BY <1>1, <2>1 DEF Counted, Writing, Escaping
  <2>5. QED
    BY <2>1, <2>3, <2>4
<1>4. QED
  BY <1>2, <1>3

LEMMA GoingOn ==
  ASSUME PortInv, Escaped(me.k)
  PROVE  call' = [call EXCEPT ![Running] = Looked(call[Running])]
<1>1. call \in [Who -> Call] /\ Running \in Who
  BY RunningIs DEF PortInv, PortTypes
<1>2. QED
  BY <1>1 DEF Escaped, EscapeMore, Next_k, On, Looked, me

LEMMA Looks == PortInv /\ LookForCtrlD => PortInv'
<1>1. SUFFICES ASSUME PortInv, LookForCtrlD PROVE PortInv'
  OBVIOUS
<1> DEFINE w == Running
           b == alt_log_write_buf
           c == call[w]
           c1 == IF b[c.k] = "EOT" THEN To(c, "escape") ELSE Looked(c)
<1>2. w \in Who /\ Calling(c, b) /\ c.pc = "look" /\ c.data # << >>
  BY <1>1, RunningIs, PortCalls, CallIs DEF LookForCtrlD, At, me, Escaping
<1>3. Fine(c, b, c1, b)
  BY <1>2, LookStep
<1>4. call' = [call EXCEPT ![w] = c1] /\ b' = b
  BY <1>1, Going, GoingOn DEF LookForCtrlD, me
<1>5. /\ c1.pc \in {"escape", "look", "poll"} /\ c1.data = c.data
      /\ Told(c, sent[w]) => Told(c1, sent[w])
      /\ Counted(c, sent[w]) => Counted(c1, sent[w])
  <2>1. CASE b[c.k] = "EOT"
    <3>1. c1.pc = "escape" /\ c1.data = c.data
      BY <1>2, <2>1, ToIs DEF Calling, Label, Escaping
    <3>2. QED
      BY <1>2, <3>1 DEF Told, Counted, Writing, Escaping, Printing
  <2>2. CASE b[c.k] # "EOT"
    BY <1>2, <2>2, LookedIs DEF Escaping
  <2>3. QED
    BY <2>1, <2>2
<1>6. StepTo(w, c1, b) /\ Quiet
  BY <1>1, <1>2, <1>3, <1>4, <1>5 DEF StepTo, LookForCtrlD, Rest, clock, Quiet
<1>7. (Kept(w) => Told(c1, sent[w])) /\ (Counted(c, sent[w]) => Counted(c1, sent[w]))
  BY <1>5 DEF Kept
<1> HIDE DEF w, c1
<1>8. QED
  BY <1>1, <1>2, <1>5, <1>6, <1>7, QuietStep

LEMMA Escapes == PortInv /\ EscapeCtrlD => PortInv'
<1>1. SUFFICES ASSUME PortInv, EscapeCtrlD PROVE PortInv'
  OBVIOUS
<1> DEFINE w == Running
           c == call[w]
           c1 == Looked(c)
           b1 == Stored(alt_log_write_buf, c.k, "D")
<1>2. w \in Who /\ Calling(c, alt_log_write_buf) /\ c.pc = "escape" /\ c.data # << >>
  BY <1>1, RunningIs, PortCalls, CallIs DEF EscapeCtrlD, At, me, Escaping
<1>3. Fine(c, alt_log_write_buf, c1, b1)
  BY <1>2, EscapeStep
<1>4. call' = [call EXCEPT ![w] = c1] /\ alt_log_write_buf' = b1
  BY <1>1, GoingOn DEF EscapeCtrlD, me, Store, Stored
<1>5. /\ c1.pc \in {"look", "poll"} /\ c1.data = c.data
      /\ Told(c, sent[w]) => Told(c1, sent[w])
      /\ Counted(c, sent[w]) => Counted(c1, sent[w])
  BY <1>2, LookedIs DEF Escaping
<1>6. StepTo(w, c1, b1) /\ Quiet
  BY <1>1, <1>2, <1>3, <1>4, <1>5 DEF StepTo, EscapeCtrlD, Rest, clock, Quiet
<1>7. (Kept(w) => Told(c1, sent[w])) /\ (Counted(c, sent[w]) => Counted(c1, sent[w]))
  BY <1>5 DEF Kept
<1> HIDE DEF w, c1, b1
<1>8. QED
  BY <1>1, <1>2, <1>5, <1>6, <1>7, QuietStep

\* A call nobody interrupted reads its own text.
LEMMA ReadsOwn ==
  ASSUME NEW c, NEW b, NEW s, Calling(c, b), c.pc \in {"test", "fetch"}, Told(c, s), Own(c, b)
  PROVE  b[c.k] = Final(c.data, c.k) /\ b[c.k] # "EOT"
<1> DEFINE n == length(c.data)
<1>1. /\ c.data \in Seq(Char) /\ c.data # << >> /\ c.k \in Nat /\ n \in Nat /\ n >= 2
  BY CallIs
<1>2. \A i \in 0 .. c.k - 1 : Final(c.data, i) # "NUL"
  BY <1>1 DEF Told, Printing
<1>3. Final(c.data, n + 1) = "NUL" /\ \A i \in Nat : Final(c.data, i) # "EOT"
  BY <1>1, RawIs
<1>4. c.k \in 0 .. n + 1
  <2>1. n + 1 \notin 0 .. c.k - 1
    BY <1>2, <1>3
  <2>2. QED
    BY <1>1, <2>1
<1>5. \A i \in 0 .. n + 1 : b[i] = Final(c.data, i)
  BY <1>1 DEF Own, Printing
<1>6. QED
  BY <1>1, <1>3, <1>4, <1>5

LEMMA LooksForEnd == PortInv /\ LookForEnd => PortInv'
<1>1. SUFFICES ASSUME PortInv, LookForEnd PROVE PortInv'
  OBVIOUS
<1> DEFINE w == Running
           b == alt_log_write_buf
           c == call[w]
           label == IF b[c.k] = "NUL" THEN "idle" ELSE "fetch"
           c1 == To(c, label)
<1>2. w \in Who /\ Calling(c, b) /\ c.pc = "test" /\ c.data # << >>
  BY <1>1, RunningIs, PortCalls, CallIs DEF LookForEnd, At, me
<1>3. Fine(c, b, c1, b)
  BY <1>1, <1>2, LookForEndStep DEF PortInv
<1>4. call' = [call EXCEPT ![w] = c1] /\ b' = b
  BY <1>1, Going DEF LookForEnd, me
<1>5. c1.pc = label /\ c1.data = c.data /\ c1.k = c.k
  BY <1>2, ToIs DEF Calling, Label, Printing
<1>6. StepTo(w, c1, b) /\ Quiet
  BY <1>1, <1>2, <1>3, <1>4, <1>5 DEF StepTo, LookForEnd, Rest, clock, Quiet
<1>7. Kept(w) => Told(c1, sent[w])
  <2>1. SUFFICES ASSUME Kept(w) PROVE Told(c1, sent[w])
    OBVIOUS
  <2>2. Told(c, sent[w]) /\ Own(c, b)
    BY <2>1 DEF Kept
  <2>3. b[c.k] = Final(c.data, c.k)
    BY <1>2, <2>2, ReadsOwn
  <2>4. /\ \A i \in 0 .. c.k - 1 : Final(c.data, i) # "NUL"
        /\ OwnText(sent[w], c.data, c.k + 1)
    BY <1>2, <2>2 DEF Told, Printing
  <2>5. CASE b[c.k] = "NUL"
    <3>1. c.data \in Seq(Char) /\ length(c.data) >= 2 /\ c.k \in Nat
      BY <1>2, CallIs
    <3>2. Final(c.data, c.k) = "NUL"
      BY <2>3, <2>5
    <3>3. Upto(c.data, c.k + 1) = Echo(c.data)
      BY <2>4, <3>1, <3>2, EchoIs
    <3>4. c.k + 1 \in Nat
      BY <3>1
    <3>5. \E n \in Nat : OwnText(sent[w], c.data, n) /\ Upto(c.data, n) = Echo(c.data)
      BY <2>4, <3>3, <3>4
    <3>6. QED
      BY <1>5, <2>5, <3>5 DEF Told, Writing, Escaping, Printing
  <2>6. CASE b[c.k] # "NUL"
    BY <1>5, <2>3, <2>4, <2>6 DEF Told, Writing, Escaping, Printing
  <2>7. QED
    BY <2>5, <2>6
<1>8. c1.pc # "put"
  BY <1>5
<1>9. Counted(c, sent[w]) => Counted(c1, sent[w])
  <2>1. c.k \in Nat /\ Last \in Nat /\ c.k <= Last
    BY <1>2, CallIs, PortSizes DEF Calling, Within, Printing
  <2>2. Counted(c, sent[w]) => Len(sent[w]) = c.k + 1 /\ c.k + 1 <= Last + 1
    BY <1>2, <2>1 DEF Counted
  <2>3. QED
    BY <1>5, <2>2 DEF Counted, Writing, Escaping
<1> HIDE DEF w, c1
<1>10. QED
  BY <1>1, <1>2, <1>5, <1>6, <1>7, <1>8, <1>9, QuietStep

\* Whatever was written into the buffer since, what the program fetches is no Ctrl-D.
LEMMA FetchesNoCtrlD ==
  ASSUME PortInv, NEW w \in Who, w = Running, call[w].pc = "fetch"
  PROVE  alt_log_write_buf[call[w].k] # "EOT"
<1> DEFINE b == alt_log_write_buf
           c == call[w]
<1>1. Calling(c, b)
  BY PortCalls
<1>2. CASE w = "isr"
  <2>1. Told(c, sent[w]) /\ Own(c, b)
    BY <1>2 DEF PortInv, Kept
  <2>2. QED
    BY <1>1, <2>1, ReadsOwn
<1>3. CASE w = "program"
  <2>1. Reach(call["isr"]) = -1
    BY <1>3, RunningIs DEF Reach
  <2>2. Ends(c, b, -1, c.k + 1)
    BY <1>3, <2>1 DEF PortInv, Clean
  <2>3. PICK k \in Index : c.k + 1 <= k /\ EndsAt(c, b, -1, k)
    BY <2>2 DEF Ends
  <2>4. c.k \in Index /\ c.k <= k /\ -1 < c.k
    BY <1>1, <2>3, CallIs, PortSizes
  <2>5. QED
    BY <2>3, <2>4 DEF EndsAt, Escaping
<1>4. QED
  BY <1>2, <1>3, RunningIs

LEMMA Fetches == PortInv /\ Fetch => PortInv'
<1>1. SUFFICES ASSUME PortInv, Fetch PROVE PortInv'
  OBVIOUS
<1> DEFINE w == Running
           b == alt_log_write_buf
           c == call[w]
           c1 == Fetched(c, b)
<1>2. w \in Who /\ Calling(c, b) /\ c.pc = "fetch" /\ c.data # << >>
  BY <1>1, RunningIs, PortCalls, CallIs DEF Fetch, At, me
<1>3. Fine(c, b, c1, b)
  BY <1>1, <1>2, FetchStep, FetchesNoCtrlD
<1>4. call' = [call EXCEPT ![w] = c1] /\ b' = b
  <2>1. call \in [Who -> Call]
    BY <1>1 DEF PortInv, PortTypes
  <2>2. QED
    BY <1>1, <1>2, <2>1 DEF Fetch, me, Fetched
<1>5. c1.pc = "poll" /\ c1.data = c.data /\ c1.k = c.k + 1 /\ c1.c = b[c.k]
  BY <1>2 DEF Fetched, Calling, Call
<1>6. StepTo(w, c1, b) /\ Quiet
  BY <1>1, <1>2, <1>3, <1>4, <1>5 DEF StepTo, Fetch, Rest, clock, Quiet
<1>7. Kept(w) => Told(c1, sent[w])
  <2>1. SUFFICES ASSUME Kept(w) PROVE Told(c1, sent[w])
    OBVIOUS
  <2>2. Told(c, sent[w]) /\ Own(c, b) /\ c.k \in Nat
    BY <1>2, <2>1, CallIs DEF Kept
  <2>3. b[c.k] = Final(c.data, c.k)
    BY <1>2, <2>2, ReadsOwn
  <2>4. /\ \A i \in 0 .. c.k - 1 : Final(c.data, i) # "NUL"
        /\ OwnText(sent[w], c.data, c.k + 1) /\ Final(c.data, c.k) # "NUL"
    BY <1>2, <2>2 DEF Told, Printing
  <2>5. \A i \in 0 .. (c.k + 1) - 1 : Final(c.data, i) # "NUL"
    <3>1. \A i \in 0 .. (c.k + 1) - 1 : i = c.k \/ i \in 0 .. c.k - 1
      BY <2>2
    <3>2. QED
      BY <2>4, <3>1
  <2>6. Stream(c.data, (c.k + 1) + 1) = Final(c.data, c.k)
    <3>1. (c.k + 1) + 1 # 1 /\ ((c.k + 1) + 1) - 2 = c.k
      BY <2>2
    <3>2. QED
      BY <3>1 DEF Stream
  <2>7. QED
    BY <1>5, <2>3, <2>4, <2>5, <2>6 DEF Told, Writing, Escaping, Printing
<1>8. Counted(c, sent[w]) => Counted(c1, sent[w])
  BY <1>2, <1>5 DEF Counted, Writing, Escaping
<1> HIDE DEF w, c1
<1>9. QED
  BY <1>1, <1>2, <1>5, <1>6, <1>7, <1>8, QuietStep

LEMMA Polls == PortInv /\ Poll => PortInv'
<1>1. SUFFICES ASSUME PortInv, Poll PROVE PortInv'
  OBVIOUS
<1> DEFINE w == Running
           b == alt_log_write_buf
           c == call[w]
           c1 == To(c, "put")
<1>2. w \in Who /\ Calling(c, b) /\ c.pc = "poll" /\ room > 0
  BY <1>1, RunningIs, PortCalls DEF Poll, At, me
<1>3. Fine(c, b, c1, b)
  BY <1>2, PrintStep
<1>4. call' = [call EXCEPT ![w] = c1] /\ b' = b
  BY <1>1, Going DEF Poll
<1>5. c1.pc = "put" /\ c1.data = c.data /\ c1.k = c.k /\ c1.c = c.c
  BY <1>2, ToIs DEF Calling, Label, Printing
<1>6. StepTo(w, c1, b) /\ Quiet
  BY <1>1, <1>2, <1>3, <1>4, <1>5 DEF StepTo, Poll, Rest, clock, Quiet
<1>7. /\ Kept(w) => Told(c1, sent[w])
      /\ Counted(c, sent[w]) => Counted(c1, sent[w])
      /\ CutOff(c, sent[w], cut) => CutOff(c1, sent[w], cut)
  <2>1. Kept(w) => Told(c1, sent[w])
    BY <1>2, <1>5 DEF Kept, Told, Writing, Escaping, Printing
  <2>2. Counted(c, sent[w]) => Counted(c1, sent[w])
    BY <1>2, <1>5 DEF Counted, Writing, Escaping
  <2>3. CutOff(c, sent[w], cut) => CutOff(c1, sent[w], cut)
    BY <1>2, <1>5 DEF CutOff
  <2>4. QED
    BY <2>1, <2>2, <2>3
<1>8. /\ call \in [Who -> Call] /\ sent \in [Who -> Seq(Char \cup {"lost"})]
      /\ room \in Nat /\ lost \in Nat
      /\ \A o \in Who : \A i \in DOMAIN sent[o] : sent[o][i] # "EOT"
      /\ \A i \in DOMAIN sent["isr"] : sent["isr"][i] # "lost"
      /\ LostOK
  BY <1>1 DEF PortInv, PortTypes
<1>9. Sends(w, c1)
  <2>1. sent' = sent
    BY <1>6 DEF Quiet
  <2> HIDE DEF w, c1
  <2>2. QED
    BY <1>2, <1>7, <1>8, <2>1 DEF Sends
<1>10. LostOK'
  <2>1. call'[w] = c1 /\ \A o \in Who : o # w => call'[o] = call[o]
    BY <1>2, <1>4, <1>8
  <2>2. room' = room /\ lost' = lost /\ hits' = hits
    BY <1>6 DEF Quiet, StepTo
  <2> HIDE DEF c1
  <2>3. QED
    BY <1>2, <1>5, <1>8, <2>1, <2>2, RunningIs DEF LostOK
<1>11. room' \in Nat /\ lost' \in Nat
  BY <1>6, <1>8 DEF Quiet
<1> HIDE DEF w, c1
<1>12. QED
  BY <1>1, <1>2, <1>6, <1>9, <1>10, <1>11, RunningStep

\* The port takes a character, or, if an interrupt routine has filled it since, drops it.
LEMMA Puts == PortInv /\ Put => PortInv'
<1>1. SUFFICES ASSUME PortInv, Put PROVE PortInv'
  OBVIOUS
<1> DEFINE w == Running
           b == alt_log_write_buf
           c == call[w]
           label == IF c.data = << >> THEN "idle" ELSE "test"
           c1 == To(c, label)
<1>2. w \in Who /\ Calling(c, b) /\ c.pc = "put"
  BY <1>1, RunningIs, PortCalls DEF Put, At, me
<1>3. Fine(c, b, c1, b)
  BY <1>2, PrintStep
<1>4. call' = [call EXCEPT ![w] = c1] /\ b' = b
  BY <1>1, Going DEF Put, me
<1>5. c1.pc = label /\ c1.data = c.data /\ c1.k = c.k
  BY <1>2, ToIs DEF Calling, Label, Printing
<1>6. StepTo(w, c1, b)
  BY <1>1, <1>2, <1>3, <1>4, <1>5 DEF StepTo, Put, clock
<1>7. /\ call \in [Who -> Call] /\ sent \in [Who -> Seq(Char \cup {"lost"})]
      /\ room \in Nat /\ lost \in Nat /\ hits \in Nat /\ cut \in Int
      /\ \A o \in Who : \A i \in DOMAIN sent[o] : sent[o][i] # "EOT"
      /\ \A i \in DOMAIN sent["isr"] : sent["isr"][i] # "lost"
      /\ LostOK
  BY <1>1 DEF PortInv, PortTypes
<1>8. c.c \in Char /\ c.c # "EOT" /\ c.data \in Seq(Char) /\ c.k \in Nat
      /\ (c.data # << >> => length(c.data) >= 2)
  BY <1>2, CallIs DEF Calling, Within
<1>9. call'[w] = c1 /\ \A o \in Who : o # w => call'[o] = call[o]
  BY <1>2, <1>4, <1>7
<1>10. hits' = hits
  BY <1>6 DEF StepTo
<1>11. ASSUME NEW x \in Char \cup {"lost"}, x \in {c.c, "lost"}, w = "isr" => x # "lost",
             sent' = [sent EXCEPT ![w] = Append(@, x)]
       PROVE  Sends(w, c1)
  <2>1. x # "EOT" /\ x \in Char \cup {"lost"}
    BY <1>8, <1>11
  <2>2. sent[w] \in Seq(Char \cup {"lost"}) /\ Len(sent[w]) \in Nat /\ DOMAIN sent[w] = 1 .. Len(sent[w])
    BY <1>2, <1>7, LenProperties
  <2>3. /\ Append(sent[w], x) \in Seq(Char \cup {"lost"}) /\ Len(Append(sent[w], x)) = Len(sent[w]) + 1
        /\ \A i \in 1 .. Len(sent[w]) : Append(sent[w], x)[i] = sent[w][i]
        /\ Append(sent[w], x)[Len(sent[w]) + 1] = x
    BY <2>1, <2>2, AppendProperties
  <2>4. DOMAIN Append(sent[w], x) = 1 .. Len(sent[w]) + 1
    BY <2>3, LenProperties
  <2>5. \A i \in 1 .. Len(sent[w]) + 1 : i = Len(sent[w]) + 1 \/ i \in 1 .. Len(sent[w])
    BY <2>2
  <2>6. \A i \in 1 .. Len(sent[w]) + 1 : Append(sent[w], x)[i] # "EOT"
    BY <1>2, <1>7, <2>1, <2>2, <2>3, <2>5
  <2>7. w = "isr" => \A i \in 1 .. Len(sent[w]) + 1 : Append(sent[w], x)[i] # "lost"
    BY <1>7, <1>11, <2>2, <2>3, <2>5
  <2>8. /\ sent' \in [Who -> Seq(Char \cup {"lost"})] /\ sent'[w] = Append(sent[w], x)
        /\ \A o \in Who : o # w => sent'[o] = sent[o]
    BY <1>2, <1>7, <1>11, <2>3
  <2>9. Kept(w) => Told(c1, sent'[w])
    <3>1. SUFFICES ASSUME Told(c, sent[w]), c.data # << >> PROVE Told(c1, sent'[w])
      BY <1>5 DEF Kept, Told
    <3>2. /\ \A i \in 0 .. c.k - 1 : Final(c.data, i) # "NUL"
          /\ OwnText(sent[w], c.data, c.k) /\ c.c = Stream(c.data, c.k + 1)
      BY <1>2, <3>1 DEF Told, Printing
    <3>3. x \in {Stream(c.data, c.k + 1), "lost"} /\ c.k \in Nat
      BY <1>8, <1>11, <3>2
    <3>4. OwnText(Append(sent[w], x), c.data, c.k + 1)
      BY <1>11, <2>2, <3>2, <3>3, OneMoreSent
    <3>5. OwnText(sent'[w], c.data, c.k + 1)
      BY <2>8, <3>4
    <3>6. QED
      BY <1>5, <3>1, <3>2, <3>5 DEF Told, Writing, Escaping, Printing
  <2>10. Counted(c, sent[w]) => Counted(c1, sent'[w])
    <3>1. SUFFICES ASSUME Counted(c, sent[w]), c.data # << >> PROVE Counted(c1, sent'[w])
      BY <1>5 DEF Counted
    <3>2. Len(sent[w]) = c.k
      BY <1>2, <3>1 DEF Counted
    <3>3. Len(sent'[w]) = c.k + 1
      BY <2>3, <2>8, <3>2
    <3>4. QED
      BY <1>5, <3>1, <3>3 DEF Counted, Writing, Escaping
  <2>11. CutOff(c, sent[w], cut) => CutOff(c1, sent'[w], cut)
    <3>1. SUFFICES ASSUME CutOff(c, sent[w], cut), c.data # << >>, cut # -1 PROVE CutOff(c1, sent'[w], cut)
      BY <1>5 DEF CutOff
    <3> DEFINE e == Echo(c.data)
               l == Len(sent[w])
    <3>2. /\ cut \in Nat /\ cut <= Len(e) /\ \A i \in 1 .. cut : i <= l => sent[w][i] \in {e[i], "lost"}
          /\ cut > l => cut = l + 1 /\ c.c = e[cut]
      BY <3>1 DEF CutOff
    <3> HIDE DEF e
    <3>3. ~(cut > l + 1)
      BY <2>2, <3>2
    <3>4. ASSUME NEW i \in 1 .. cut, i <= l + 1 PROVE Append(sent[w], x)[i] \in {e[i], "lost"}
      <4>1. CASE i <= l
        <5>1. i \in 1 .. l
          BY <2>2, <3>2, <4>1
        <5>2. QED
          BY <2>3, <3>2, <4>1, <5>1
      <4>2. CASE ~(i <= l)
        <5>1. i = l + 1 /\ cut = l + 1
          BY <2>2, <3>2, <3>4, <4>2
        <5>2. cut > l
          BY <2>2, <5>1
        <5>3. QED
          BY <1>11, <2>3, <3>2, <5>1, <5>2
      <4>3. QED
        BY <4>1, <4>2
    <3>5. c1.data = c.data /\ Len(sent'[w]) = l + 1 /\ sent'[w] = Append(sent[w], x)
      BY <1>5, <2>3, <2>8
    <3> HIDE DEF l
    <3>6. QED
      BY <3>2, <3>3, <3>4, <3>5 DEF CutOff, e
  <2> HIDE DEF c1
  <2>12. QED
    BY <2>4, <2>6, <2>7, <2>8, <2>9, <2>10, <2>11 DEF Sends
<1>12. CASE room > 0
  <2>1. room' = room - 1 /\ sent' = [sent EXCEPT ![w] = Append(@, c.c)] /\ lost' = lost
    BY <1>1, <1>12 DEF Put, me
  <2>2. room' \in Nat
    BY <1>7, <1>12, <2>1
  <2>3. c.c # "lost" /\ c.c \in Char \cup {"lost"}
    BY <1>8 DEF Char
  <2>4. Sends(w, c1)
    BY <1>11, <2>1, <2>3
  <2>5. LostOK'
    <3>1. \A o \in Who : call'[o].pc = "put" => o # w /\ call[o].pc = "put"
      BY <1>5, <1>9
    <3>2. w = "program" => call["isr"].pc = "idle"
      BY RunningIs
    <3>3. call'["isr"].pc # "put"
      BY <1>5, <1>9, <3>1, <3>2, RunningIs
    <3>4. CASE w = "program"
      BY <1>5, <1>7, <1>9, <1>10, <2>1, <3>1, <3>2, <3>3, <3>4, RunningIs DEF LostOK
    <3>5. CASE w = "isr"
      <4>1. call'["program"] = call["program"] /\ call["isr"].pc = "put"
        BY <1>2, <1>9, <3>5, RunningIs
      <4>2. call["program"].pc # "idle" => lost < hits
        BY <1>7, <4>1 DEF LostOK
      <4>3. QED
        BY <1>7, <1>10, <2>1, <3>3, <4>1, <4>2 DEF LostOK
    <3>6. QED
      BY <1>2, <3>4, <3>5, RunningIs
  <2> HIDE DEF w, c1
  <2>6. QED
    BY <1>1, <1>2, <1>6, <1>7, <2>1, <2>2, <2>4, <2>5, RunningStep
<1>13. CASE ~(room > 0)
  <2>1. room' = room /\ sent' = [sent EXCEPT ![w] = Append(@, "lost")] /\ lost' = lost + 1 /\ room = 0
    BY <1>1, <1>7, <1>13 DEF Put, me
  <2>2. w = "program" /\ lost < hits
    BY <1>2, <1>7, <2>1, RunningIs DEF LostOK
  <2>3. Sends(w, c1)
    <3>1. "lost" \in Char \cup {"lost"} /\ w # "isr"
      BY <2>2
    <3>2. QED
      BY <1>11, <2>1, <3>1
  <2>4. LostOK'
    <3>1. call'["program"].pc # "put" /\ call'["isr"].pc = "idle"
      BY <1>5, <1>9, <2>2, RunningIs
    <3>2. QED
      BY <1>7, <1>10, <2>1, <2>2, <3>1 DEF LostOK
  <2>5. room' \in Nat /\ lost' \in Nat
    BY <1>7, <2>1
  <2> HIDE DEF w, c1
  <2>6. QED
    BY <1>1, <1>2, <1>6, <2>3, <2>4, <2>5, RunningStep
<1>14. QED
  BY <1>12, <1>13

----------------------------------------------------------------------------
(* The steps that are no part of a call. *)

\* How a call begins: at the first place, and with nothing to write it prints at once.
First(f) ==
  /\ f \in Call /\ f.k = 0 /\ f.c # "EOT"
  /\ \/ f.pc = "copy" /\ f.data # << >> /\ length(f.data) >= 2
     \/ f.pc = "poll" /\ f.data = << >>

LEMMA FirstIs ==
  /\ First(alt_log_printf_proc)
  /\ \A data \in Data \cup IsrData : length(data) >= 2 =>
       First([NoCall EXCEPT !.pc = "copy", !.data = data])
<1>1. << >> \in Seq(Char) /\ NoCall \in Call
  BY EmptySeq DEF NoCall, Call, Char
<1>2. First(alt_log_printf_proc)
  BY <1>1 DEF First, alt_log_printf_proc, NoCall, Call, Char, Printing
<1>3. ASSUME NEW data \in Data \cup IsrData, length(data) >= 2
      PROVE  First([NoCall EXCEPT !.pc = "copy", !.data = data])
  <2> DEFINE f == [NoCall EXCEPT !.pc = "copy", !.data = data]
  <2>1. data \in Seq(Char)
    BY SystemAssumption DEF LogPortAssumption
  <2>2. data # << >>
    <3>1. data = << >> => Len(data) = 0
      BY EmptySeq
    <3>2. Len(data) # 0
      BY <1>3, <2>1, LengthIs
    <3>3. QED
      BY <3>1, <3>2
  <2>3. f.pc = "copy" /\ f.data = data /\ f.k = 0 /\ f.c = "NUL"
    BY DEF NoCall
  <2>4. f \in Call
    BY <2>1 DEF NoCall, Call, Char, Writing
  <2> HIDE DEF f
  <2>5. First(f)
    <3>1. f.c # "EOT" /\ f.data # << >> /\ length(f.data) >= 2
      BY <1>3, <2>2, <2>3
    <3>2. QED
      BY <2>3, <2>4, <3>1 DEF First
  <2>6. QED
    BY <2>5 DEF f
<1>4. QED
  BY <1>2, <1>3

LEMMA FirstKept ==
  ASSUME NEW f, First(f), NEW b
  PROVE  /\ Within(f) /\ Own(f, b) /\ Told(f, << >>) /\ Counted(f, << >>) /\ Clean(f, b, -1)
         /\ Reach(f) = -1 \/ Reach(f) \in Nat
         /\ f \in Call /\ f.pc \in {"copy", "poll"}
<1>1. /\ f \in Call /\ f.k = 0 /\ f.c # "EOT"
      /\ \/ f.pc = "copy" /\ f.data # << >> /\ length(f.data) >= 2
         \/ f.pc = "poll" /\ f.data = << >>
      /\ f.data \in Seq(Char) /\ length(f.data) \in Nat /\ Last \in Nat
  BY LengthIs, PortSizes DEF First, Call
<1>2. Within(f)
  BY <1>1 DEF Within, Escaping, Printing
<1>3. Own(f, b)
  <2>1. 0 .. f.k - 1 = {}
    BY <1>1
  <2>2. QED
    BY <1>1, <2>1 DEF Own, Escaping, Printing
<1>4. Told(f, << >>) /\ Counted(f, << >>) /\ Clean(f, b, -1)
  BY <1>1, EmptySeq DEF Told, Counted, Clean, Writing, Escaping, Printing
<1>5. Reach(f) = -1 \/ Reach(f) \in Nat
  BY <1>1 DEF Reach
<1>6. QED
  BY <1>1, <1>2, <1>3, <1>4, <1>5

LEMMA Beginnings ==
  ASSUME PortInv, NEW w \in Who, NEW f, First(f), Begins(w, f), ALT_LOG_FLAGS # -1, ClockOK'
  PROVE  PortInv'
<1> DEFINE b == alt_log_write_buf
<1>1. /\ call \in [Who -> Call] /\ b \in [Index -> Char] /\ b[Last] = "NUL"
      /\ sent \in [Who -> Seq(Char \cup {"lost"})] /\ room \in Nat /\ cut \in Int
      /\ \A o \in Who : Within(call[o]) /\ \A i \in DOMAIN sent[o] : sent[o][i] # "EOT"
      /\ Kept("isr") /\ (cut = -1 => Kept("program"))
      /\ Clean(call["program"], b, Reach(call["isr"])) /\ LostOK
      /\ hits \in Nat /\ ALT_LOG_FLAGS \in -1 .. 3 /\ lost \in Nat
  BY DEF PortInv, PortTypes
<1>2. /\ Who = {"program", "isr"} /\ "program" # "isr" /\ call["isr"].pc = "idle"
      /\ (w = "program" => call[w].pc = "idle")
  BY RunningIs DEF Begins
<1>3. call' = [call EXCEPT ![w] = f] /\ sent' = [sent EXCEPT ![w] = << >>]
  BY DEF Begins
<1>4. /\ alt_log_write_buf' = b /\ room' = room /\ ALT_LOG_FLAGS' = ALT_LOG_FLAGS
  BY DEF Begins
<1>5. w = "program" => lost' = 0 /\ hits' = 0 /\ cut' = -1
  BY DEF Begins
<1>6. w = "isr" => /\ lost' = lost
                   /\ hits' = IF call["program"].pc = "idle" THEN hits ELSE hits + 1
                   /\ cut' = IF TakesBuffer(f) THEN Taken ELSE cut
  BY <1>2 DEF Begins
<1>7. /\ Within(f) /\ Own(f, b) /\ Told(f, << >>) /\ Counted(f, << >>) /\ Clean(f, b, -1)
      /\ (Reach(f) = -1 \/ Reach(f) \in Nat) /\ f \in Call /\ f.pc \in {"copy", "poll"}
  BY FirstKept
<1>8. call' \in [Who -> Call] /\ call'[w] = f /\ \A o \in Who : o # w => call'[o] = call[o]
  BY <1>1, <1>3, <1>7
<1>9. << >> \in Seq(Char \cup {"lost"}) /\ DOMAIN << >> = {}
  BY EmptySeq
<1>10. sent' \in [Who -> Seq(Char \cup {"lost"})] /\ sent'[w] = << >> /\ \A o \in Who : o # w => sent'[o] = sent[o]
  BY <1>1, <1>3, <1>9
<1>11. lost' \in Nat /\ hits' \in Nat
  BY <1>1, <1>2, <1>5, <1>6
\* What the program's echo had when it was overtaken is of its own text.
<1>21. /\ CutOff(call'["program"], sent'["program"], cut') /\ cut' \in Int
       /\ w = "isr" /\ cut' = -1 => cut = -1
       /\ w = "isr" /\ f.data # << >> /\ call["program"].pc # "idle" => cut' # -1
  <2>1. CutOff(call["program"], sent["program"], cut)
    BY DEF PortInv
  <2>2. CASE w = "program"
    BY <1>2, <1>5, <2>2 DEF CutOff
  <2>3. CASE w = "isr" /\ ~TakesBuffer(f)
    <3>1. call'["program"] = call["program"] /\ sent'["program"] = sent["program"] /\ cut' = cut
      BY <1>2, <1>6, <1>8, <1>10, <2>3
    <3>2. QED
      BY <1>1, <1>2, <2>1, <2>3, <3>1 DEF TakesBuffer
  <2>4. CASE w = "isr" /\ TakesBuffer(f)
    <3>1. call'["program"] = call["program"] /\ sent'["program"] = sent["program"] /\ cut' = Taken
      BY <1>2, <1>6, <1>8, <1>10, <2>4
    <3>2. cut = -1 /\ call["program"].pc # "idle" /\ Told(call["program"], sent["program"])
      BY <1>1, <2>4 DEF TakesBuffer, Kept
    <3>3. Taken = Held(call["program"], sent["program"])
      BY DEF Taken, Held
    <3>4. Calling(call["program"], b) /\ sent["program"] \in Seq(Char \cup {"lost"})
      BY <1>1, <1>2, PortCalls
    <3>5. Taken \in Nat /\ CutOff(call["program"], sent["program"], Taken)
      BY <3>2, <3>3, <3>4, HeldIs
    <3>6. Taken \in Int /\ Taken # -1
      BY <3>5
    <3>7. QED
      BY <1>2, <2>4, <3>1, <3>2, <3>5, <3>6
  <2>5. QED
    BY <1>2, <2>2, <2>3, <2>4
<1>22. Overtaken'
  <2>1. CASE w = "program"
    BY <1>2, <1>8, <2>1 DEF Overtaken
  <2>2. CASE w = "isr"
    BY <1>2, <1>8, <1>21, <2>2 DEF Overtaken
  <2>3. QED
    BY <1>2, <2>1, <2>2
<1>23. /\ \A o \in Who : Counted(call'[o], sent'[o])
       /\ \A i \in DOMAIN sent'["isr"] : sent'["isr"][i] # "lost"
  BY <1>2, <1>7, <1>8, <1>9, <1>10 DEF PortInv
<1>12. PortTypes' /\ alt_log_write_buf'[Last] = "NUL"
  BY <1>1, <1>4, <1>8, <1>10, <1>11, <1>21 DEF PortTypes
<1> HIDE DEF b
<1>13. \A o \in Who : Within(call'[o]) /\ \A i \in DOMAIN sent'[o] : sent'[o][i] # "EOT"
  BY <1>1, <1>7, <1>8, <1>9, <1>10
<1>14. Own(call'[w], b) /\ Told(call'[w], sent'[w])
  BY <1>7, <1>8, <1>10
<1>15. ASSUME NEW o \in Who, o # w, Kept(o)
       PROVE  Own(call'[o], b) /\ Told(call'[o], sent'[o])
  <2>1. call'[o] = call[o] /\ sent'[o] = sent[o]
    BY <1>8, <1>10, <1>15
  <2>2. QED
    BY <1>15, <2>1 DEF Kept, b
<1>16. Kept("isr")' /\ (cut' = -1 => Kept("program")')
  <2>1. cut' = -1 /\ w = "isr" => cut = -1
    BY <1>21
  <2>2. Own(call'["isr"], b) /\ Told(call'["isr"], sent'["isr"])
    BY <1>1, <1>2, <1>14, <1>15
  <2>3. cut' = -1 => Own(call'["program"], b) /\ Told(call'["program"], sent'["program"])
    BY <1>1, <1>2, <1>14, <1>15, <2>1
  <2>4. QED
    BY <1>4, <2>2, <2>3 DEF Kept
<1>17. Clean(call'["program"], b, Reach(call'["isr"]))
  <2>1. Reach(call["isr"]) = -1
    BY <1>2 DEF Reach
  <2>2. CASE w = "program"
    <3>1. call'["isr"] = call["isr"] /\ call'["program"] = f
      BY <1>2, <1>8, <2>2
    <3>2. QED
      BY <1>7, <2>1, <3>1
  <2>3. CASE w = "isr"
    <3>1. call'["program"] = call["program"] /\ call'["isr"] = f
      BY <1>2, <1>8, <2>3
    <3>2. Calling(call["program"], b) /\ Clean(call["program"], b, -1)
      BY <1>1, <1>2, <2>1, PortCalls DEF b
    <3>3. Reach(f) \in Nat => Clean(call["program"], b, Reach(f))
      BY <3>2, CleanWeaker
    <3>4. QED
      BY <1>7, <3>1, <3>2, <3>3
  <2>4. QED
    BY <1>2, <2>2, <2>3
<1>18. LostOK'
  <2>1. CASE w = "program"
    <3>1. call'["program"].pc # "put" /\ call'["isr"].pc = "idle"
      BY <1>2, <1>7, <1>8, <2>1
    <3>2. QED
      BY <1>5, <2>1, <3>1 DEF LostOK
  <2>2. CASE w = "isr"
    <3>1. call'["isr"].pc # "put" /\ call'["program"] = call["program"]
      BY <1>2, <1>7, <1>8, <2>2
    <3>2. /\ lost <= hits /\ (call["program"].pc = "put" /\ room = 0 => lost < hits)
          /\ lost' = lost /\ hits' >= hits /\ (call["program"].pc # "idle" => hits' = hits + 1)
      BY <1>1, <1>6, <2>2 DEF LostOK
    <3>3. lost' <= hits' /\ (call["program"].pc = "put" /\ room = 0 => lost' < hits')
          /\ (call["program"].pc # "idle" => lost' < hits')
      BY <1>1, <1>11, <3>2
    <3>4. QED
      BY <1>4, <3>1, <3>3 DEF LostOK
  <2>3. QED
    BY <1>2, <2>1, <2>2
<1>19. Silent'
  BY <1>4 DEF Silent
<1>20. QED
  BY <1>4, <1>12, <1>13, <1>16, <1>17, <1>18, <1>19, <1>21, <1>22, <1>23 DEF PortInv, b

LEMMA Messages ==
  ASSUME PortInv
  PROVE  /\ \A d \in Data : alt_log_write("program", d) => PortInv'
         /\ \A d \in IsrData : alt_log_write("isr", d) => PortInv'
         /\ ALT_LOG_PRINT_BOOT \/ alt_log_jtag_uart_startup_info => PortInv'
         /\ alt_log_jtag_uart_isr_proc \/ altera_avalon_jtag_uart_report_log => PortInv'
<1>1. UNCHANGED clock => ClockOK'
  BY DEF PortInv, ClockOK, clock
<1>2. "program" \in Who /\ "isr" \in Who
  BY DEF Who
<1>3. ASSUME NEW w \in Who, NEW data \in Data \cup IsrData, alt_log_write(w, data)
      PROVE  PortInv'
  <2> DEFINE f == [NoCall EXCEPT !.pc = "copy", !.data = data]
  <2>1. First(f) /\ Begins(w, f) /\ UNCHANGED clock
    BY <1>3, FirstIs DEF alt_log_write
  <2>2. ALT_LOG_FLAGS # -1
    BY <1>3 DEF alt_log_write, write_on
  <2> HIDE DEF f
  <2>3. QED
    BY <1>1, <2>1, <2>2, Beginnings
<1>4. ASSUME NEW w \in Who, Begins(w, alt_log_printf_proc), UNCHANGED clock, ALT_LOG_FLAGS # -1
      PROVE  PortInv'
  BY <1>1, <1>4, FirstIs, Beginnings
<1>5. ALT_LOG_PRINT_BOOT \/ alt_log_jtag_uart_startup_info => PortInv'
  BY <1>2, <1>4
  DEF ALT_LOG_PRINT_BOOT, alt_log_jtag_uart_startup_info, boot_on, startup_info_on
<1>6. alt_log_jtag_uart_isr_proc \/ altera_avalon_jtag_uart_report_log => PortInv'
  BY <1>2, <1>4
  DEF alt_log_jtag_uart_isr_proc, altera_avalon_jtag_uart_report_log, isr_on, alarm_on
<1>7. QED
  BY <1>2, <1>3, <1>5, <1>6

\* A message of the clock is one period of its count.
LEMMA Ticks == PortInv /\ alt_log_system_clock => PortInv'
<1>1. SUFFICES ASSUME PortInv, alt_log_system_clock PROVE PortInv'
  OBVIOUS
<1>2. PICK n \in 0 .. Interval : n = alt_log_sys_clk_count
  BY <1>1 DEF PortInv, ClockOK
<1>3. PICK s \in Nat : s = alt_system_clock_in_sec
  BY <1>1 DEF PortInv, ClockOK
<1>4. PICK t \in Nat : t = ticks
  BY <1>1 DEF PortInv, ClockOK
<1>5. s * (Interval + 1) + n = t
  BY <1>1, <1>2, <1>3, <1>4 DEF PortInv, ClockOK
<1>6. Interval \in Nat
  BY SystemAssumption DEF LogPortAssumption
<1>7. ticks' = t + 1 /\ alt_log_sys_clk_count' = IF n + 1 > Interval THEN 0 ELSE n + 1
  BY <1>1, <1>2, <1>4 DEF alt_log_system_clock, CountTick
<1>8. CASE n + 1 > Interval
  <2>1. Begins("isr", alt_log_printf_proc) /\ alt_system_clock_in_sec' = s + 1 /\ ALT_LOG_FLAGS # -1
    BY <1>1, <1>2, <1>3, <1>8 DEF alt_log_system_clock, sys_clk_on
  <2>2. n = Interval
    BY <1>2, <1>6, <1>8
  <2>3. (s + 1) * (Interval + 1) = s * (Interval + 1) + (Interval + 1)
    BY <1>3, <1>6
  <2>4. s * (Interval + 1) \in Nat
    BY <1>3, <1>6
  <2>5. (s + 1) * (Interval + 1) + 0 = t + 1
    BY <1>4, <1>5, <1>6, <2>2, <2>3, <2>4
  <2>6. alt_log_sys_clk_count' = 0
    BY <1>7, <1>8
  <2>7. ClockOK'
    BY <1>3, <1>4, <1>6, <1>7, <2>1, <2>5, <2>6 DEF ClockOK
  <2>8. "isr" \in Who
    BY DEF Who
  <2>9. QED
    BY <1>1, <2>1, <2>7, <2>8, FirstIs, Beginnings
<1>9. CASE ~(n + 1 > Interval)
  <2>1. UNCHANGED << ALT_LOG_FLAGS, alt_log_write_buf, room, call, sent, lost, hits, cut,
                     alt_system_clock_in_sec >>
    BY <1>1, <1>2, <1>9 DEF alt_log_system_clock
  <2>2. alt_log_sys_clk_count' = n + 1 /\ alt_system_clock_in_sec' = s /\ n + 1 \in 0 .. Interval
    BY <1>2, <1>3, <1>6, <1>7, <1>9, <2>1
  <2>3. s * (Interval + 1) + (n + 1) = t + 1
    <3>1. s * (Interval + 1) \in Nat
      BY <1>3, <1>6
    <3>2. QED
      BY <1>2, <1>4, <1>5, <3>1
  <2>4. ClockOK'
    BY <1>3, <1>4, <1>7, <2>2, <2>3 DEF ClockOK
  <2>5. QED
    BY <1>1, <2>1, <2>4 DEF PortInv, PortTypes, LostOK, Silent, Kept, Clean, Overtaken
<1>10. QED
  BY <1>8, <1>9

\* The host takes a character, or nothing happens.
LEMMA Drains == PortInv /\ (HostDrains \/ UNCHANGED vars) => PortInv'
<1>1. SUFFICES ASSUME PortInv, HostDrains \/ UNCHANGED vars PROVE PortInv'
  OBVIOUS
<1>2. /\ UNCHANGED << ALT_LOG_FLAGS, alt_log_write_buf, call, sent, lost, hits, cut, clock >>
      /\ room' = room + 1 \/ room' = room
  BY <1>1 DEF HostDrains, vars
<1>3. room \in Nat /\ LostOK
  BY <1>1 DEF PortInv, PortTypes
<1>4. room' \in Nat /\ (room' = 0 => room = 0) /\ (room > 0 => room' > 0)
  BY <1>2, <1>3
<1>5. LostOK'
  BY <1>2, <1>3, <1>4 DEF LostOK
<1>6. ClockOK'
  BY <1>1, <1>2 DEF PortInv, ClockOK, clock
<1>7. PortTypes'
  BY <1>1, <1>2, <1>4 DEF PortInv, PortTypes
<1>8. Kept("isr")' /\ (cut' = -1 => Kept("program")') /\ Silent' /\ Overtaken'
  BY <1>1, <1>2 DEF PortInv, Kept, Silent, Overtaken
<1>9. QED
  BY <1>1, <1>2, <1>5, <1>6, <1>7, <1>8 DEF PortInv

LEMMA PortStep == PortInv /\ [LogPortNext]_vars => PortInv'
<1>1. SUFFICES ASSUME PortInv, LogPortNext \/ UNCHANGED vars PROVE PortInv'
  OBVIOUS
<1>2. CASE \E d \in Data : alt_log_write("program", d)
  BY <1>1, <1>2, Messages
<1>3. CASE \E d \in IsrData : alt_log_write("isr", d)
  BY <1>1, <1>3, Messages
<1>4. CASE \/ ALT_LOG_PRINT_BOOT \/ alt_log_jtag_uart_startup_info
           \/ alt_log_jtag_uart_isr_proc \/ altera_avalon_jtag_uart_report_log
  BY <1>1, <1>4, Messages
<1>5. CASE alt_log_system_clock
  BY <1>1, <1>5, Ticks
<1>6. CASE Copy \/ Newline \/ Return \/ End
  BY <1>1, <1>6, Copies, Newlines, Returns, EndsText
<1>7. CASE LookForCtrlD \/ EscapeCtrlD \/ LookForEnd \/ Fetch
  BY <1>1, <1>7, Looks, Escapes, LooksForEnd, Fetches
<1>8. CASE Poll \/ Put
  BY <1>1, <1>8, Polls, Puts
<1>9. CASE HostDrains \/ UNCHANGED vars
  BY <1>1, <1>9, Drains
<1>10. QED
  BY <1>1, <1>2, <1>3, <1>4, <1>5, <1>6, <1>7, <1>8, <1>9 DEF LogPortNext

LEMMA PortInit == LogPortInit => PortInv
<1>1. SUFFICES ASSUME LogPortInit PROVE PortInv
  OBVIOUS
<1>2. /\ ALT_LOG_FLAGS \in -1 .. 3 /\ alt_log_write_buf = [k \in Index |-> "NUL"] /\ room = FifoDepth
      /\ call = [w \in Who |-> NoCall] /\ sent = [w \in Who |-> << >>] /\ lost = 0 /\ hits = 0
      /\ cut = -1
      /\ alt_log_sys_clk_count = 0 /\ alt_system_clock_in_sec = 0 /\ ticks = 0
  BY <1>1 DEF LogPortInit
<1>3. /\ << >> \in Seq(Char) /\ << >> \in Seq(Char \cup {"lost"}) /\ DOMAIN << >> = {}
      /\ "program" \in Who /\ "isr" \in Who
  BY EmptySeq DEF Who
<1>4. NoCall \in Call /\ NoCall.pc = "idle" /\ NoCall.data = << >>
  BY <1>3 DEF NoCall, Call, Char
<1>5. \A w \in Who : call[w] = NoCall /\ sent[w] = << >>
  BY <1>2
<1>6. PortTypes /\ alt_log_write_buf[Last] = "NUL"
  <2>1. "NUL" \in Char
    BY DEF Char
  <2>2. QED
    BY <1>2, <1>3, <1>4, <2>1, PortSizes DEF PortTypes
<1>7. \A w \in Who : Within(call[w]) /\ \A i \in DOMAIN sent[w] : sent[w][i] # "EOT"
  BY <1>3, <1>4, <1>5 DEF Within, Escaping, Printing
<1>8. /\ \A w \in Who : Kept(w) /\ Counted(call[w], sent[w])
      /\ CutOff(call["program"], sent["program"], cut) /\ Overtaken
      /\ \A i \in DOMAIN sent["isr"] : sent["isr"][i] # "lost"
  BY <1>2, <1>3, <1>4, <1>5
  DEF Kept, Own, Told, Counted, CutOff, Overtaken, Writing, Escaping, Printing
<1>9. Clean(call["program"], alt_log_write_buf, Reach(call["isr"]))
  BY <1>3, <1>4, <1>5 DEF Clean, Escaping, Printing
<1>10. LostOK /\ Silent
  BY <1>2, <1>3, <1>4, <1>5 DEF LostOK, Silent
<1>11. ClockOK
  <2>1. Interval \in Nat /\ 0 * (Interval + 1) = 0
    BY PortSizes
  <2>2. QED
    BY <1>2, <2>1 DEF ClockOK
<1>12. QED
  BY <1>3, <1>6, <1>7, <1>8, <1>9, <1>10, <1>11 DEF PortInv

----------------------------------------------------------------------------
(* What the three invariants say of the services. *)
LEMMA PortSafe == PortInv => LogSafe
<1>1. SUFFICES ASSUME PortInv PROVE LogSafe
  OBVIOUS
<1>2. BufferSafe
  <2>1. ASSUME NEW w \in Who, call[w].pc \in {"test", "fetch", "poll", "put"}
        PROVE  \E k \in Index : k >= call[w].k /\ alt_log_write_buf[k] = "NUL"
    <3>1. call[w].k <= Last /\ call[w].k \in Nat /\ Last \in Nat /\ Last \in Index
      BY <1>1, <2>1, PortCalls, CallIs, PortSizes DEF PortInv, Within, Printing
    <3>2. Last >= call[w].k /\ alt_log_write_buf[Last] = "NUL"
      BY <1>1, <3>1 DEF PortInv
    <3>3. QED
      BY <3>1, <3>2
  <2>2. \A w \in Who : \A i \in DOMAIN sent[w] : sent[w][i] # "EOT"
    BY <1>1 DEF PortInv
  <2>3. QED
    BY <2>1, <2>2 DEF BufferSafe
<1>3. EchoKept
  <2>1. ASSUME NEW w \in Who, Kept(w), call[w].pc = "idle", call[w].data # << >>
        PROVE  LET s == sent[w]
                   own == Echo(call[w].data)
               IN  own \in Seq(Char) /\ Len(s) = Len(own) /\ \A i \in 1 .. Len(own) : s[i] \in {own[i], "lost"}
    <3>1. call[w].data \in Seq(Char) /\ length(call[w].data) >= 2
      BY <1>1, <2>1, PortCalls, CallIs
    <3>2. PICK n \in Nat : OwnText(sent[w], call[w].data, n) /\ Upto(call[w].data, n) = Echo(call[w].data)
      BY <2>1 DEF Kept, Told
    <3>3. /\ Echo(call[w].data) \in Seq(Char) /\ Len(Echo(call[w].data)) = n
          /\ \A i \in 1 .. n : Echo(call[w].data)[i] = Stream(call[w].data, i)
      BY <3>1, <3>2, UptoIs
    <3>4. QED
      BY <3>2, <3>3 DEF OwnText
  <2>2. ASSUME call["isr"].pc = "idle", call["isr"].data # << >>
        PROVE  sent["isr"] = Echo(call["isr"].data)
    <3> DEFINE s == sent["isr"]
               own == Echo(call["isr"].data)
    <3>1. Kept("isr") /\ "isr" \in Who
      BY <1>1, RunningIs DEF PortInv
    <3>2. own \in Seq(Char) /\ Len(s) = Len(own) /\ \A i \in 1 .. Len(own) : s[i] \in {own[i], "lost"}
      BY <2>1, <2>2, <3>1
    <3>3. s \in Seq(Char \cup {"lost"}) /\ \A i \in DOMAIN s : s[i] # "lost"
      BY <1>1, <3>1 DEF PortInv, PortTypes
    <3> HIDE DEF s, own
    <3>4. \A i \in 1 .. Len(s) : s[i] = own[i]
      <4>1. DOMAIN s = 1 .. Len(s)
        BY <3>3, LenProperties
      <4>2. QED
        BY <3>2, <3>3, <4>1
    <3>5. own \in Seq(Char \cup {"lost"})
      <4>1. DOMAIN own = 1 .. Len(own) /\ own \in [1 .. Len(own) -> Char] /\ Len(own) \in Nat
        BY <3>2, LenProperties
      <4>2. own \in [1 .. Len(own) -> Char \cup {"lost"}]
        BY <4>1
      <4>3. QED
        BY <4>1, <4>2
    <3>6. s = own
      BY <3>2, <3>3, <3>4, <3>5, SeqEqual
    <3>7. QED
      BY <3>6 DEF s, own
  <2>3. ASSUME call["program"].pc = "idle", call["program"].data # << >>
        PROVE  LET s == sent["program"]
                   own == Echo(call["program"].data)
                   kept == IF cut = -1 THEN Len(own) ELSE cut
               IN  /\ kept <= Len(own) /\ kept <= Len(s) /\ (cut = -1 => Len(s) = kept)
                   /\ \A i \in 1 .. kept : s[i] \in {own[i], "lost"}
                   /\ Len(s) <= ALT_LOG_WRITE_ECHO_LEN + 2
    <3> DEFINE s == sent["program"]
               own == Echo(call["program"].data)
    <3>1. "program" \in Who /\ s \in Seq(Char \cup {"lost"}) /\ Len(s) \in Nat
      BY <1>1, RunningIs, LenProperties DEF PortInv, PortTypes
    <3>2. Len(s) <= ALT_LOG_WRITE_ECHO_LEN + 2
      <4>1. Len(s) <= Last + 1
        BY <1>1, <2>3, <3>1 DEF PortInv, Counted
      <4>2. QED
        BY <3>1, <4>1, PortSizes
    <3>3. CASE cut = -1
      <4>1. Kept("program")
        BY <1>1, <3>3 DEF PortInv
      <4>2. own \in Seq(Char) /\ Len(s) = Len(own) /\ \A i \in 1 .. Len(own) : s[i] \in {own[i], "lost"}
        BY <2>1, <2>3, <3>1, <4>1
      <4>3. Len(own) <= Len(own) /\ Len(own) <= Len(s)
        BY <3>1, <4>2
      <4>4. QED
        BY <3>2, <3>3, <4>2, <4>3
    <3>4. CASE cut # -1
      <4>1. CutOff(call["program"], s, cut)
        BY <1>1 DEF PortInv
      <4>2. /\ cut \in Nat /\ cut <= Len(own) /\ ~(cut > Len(s))
            /\ \A i \in 1 .. cut : i <= Len(s) => s[i] \in {own[i], "lost"}
        BY <2>3, <3>4, <4>1 DEF CutOff
      <4> HIDE DEF s, own
      <4>3. cut <= Len(s) /\ \A i \in 1 .. cut : i <= Len(s)
        BY <3>1, <4>2
      <4>4. QED
        BY <3>2, <3>4, <4>2, <4>3 DEF s, own
    <3>5. QED
      BY <3>3, <3>4
  <2>4. lost <= hits
    BY <1>1 DEF PortInv, LostOK
  <2>5. QED
    BY <2>2, <2>3, <2>4 DEF EchoKept
<1>4. LevelsHold
  <2>1. ASSUME ALT_LOG_FLAGS = -1 PROVE sent = [w \in Who |-> << >>]
    <3>1. sent \in [Who -> Seq(Char \cup {"lost"})] /\ \A w \in Who : sent[w] = << >>
      BY <1>1, <2>1 DEF PortInv, PortTypes, Silent
    <3>2. QED
      BY <3>1
  <2>2. QED
    BY <1>1, <2>1 DEF LevelsHold, PortInv, ClockOK
<1>5. QED
  BY <1>2, <1>3, <1>4 DEF LogSafe

LEMMA BootSafe == BootInv => Boot!Reborn /\ Boot!BroughtUp
<1>1. SUFFICES ASSUME BootInv PROVE Boot!Reborn /\ Boot!BroughtUp
  OBVIOUS
<1>2. MemoryInv /\ OrderInv
  BY <1>1 DEF BootInv
<1>3. Boot!Reborn
  <2>1. SUFFICES ASSUME pc \in Loaded
                 PROVE  /\ \A j \in Boot!SectionNumbers : \A a \in Boot!Range(Sections[j]) :
                             memory[a] = Image[Boot!FromImage(Sections[j], a)]
                        /\ \A a \in Bss : memory[a] = 0
    BY DEF Boot!Reborn, Loaded, ToMain, ToCtors, ToRedirect, ToInit, ToIrq
  <2>2. ASSUME NEW j \in Boot!SectionNumbers, NEW a \in Boot!Range(Sections[j])
        PROVE  memory[a] = Image[Boot!FromImage(Sections[j], a)]
    <3>1. CASE j \in Boot!Copied
      BY <1>2, <2>1, <2>2, <3>1 DEF MemoryInv
    <3>2. CASE j \notin Boot!Copied
      BY <1>2, <2>2, <3>2, InPlace DEF MemoryInv
    <3>3. QED
      BY <3>1, <3>2
  <2>3. \A a \in Bss : memory[a] = 0
    BY <1>2, <2>1 DEF MemoryInv
  <2>4. QED
    BY <2>2, <2>3
<1>4. Boot!BroughtUp
  BY <1>2 DEF OrderInv, Boot!BroughtUp, InMain, ToMain, ToCtors, ToRedirect, ToInit, ToIrq
<1>5. QED
  BY <1>3, <1>4

----------------------------------------------------------------------------
(* What the log's printf prints: the recursions its numbers are made of, ... *)
Bases == {8, 10, 16}

\* A function that starts at s0 and makes each value from the one before it.
Follows(g, s0, step, N) == g[0] = s0 /\ \A k \in 1 .. N : g[k] = step[<< g[k - 1], k >>]

\* There is one, however far it is to go.
LEMMA Recursion ==
  ASSUME NEW N \in Nat, NEW S, NEW s0 \in S, NEW step \in [S \X (1 .. N) -> S]
  PROVE  \E g \in [0 .. N -> S] : Follows(g, s0, step, N)
<1> DEFINE Short == {n \in 0 .. N : ~\E g \in [0 .. n -> S] : Follows(g, s0, step, n)}
<1> SUFFICES ASSUME Short # {} PROVE FALSE
  OBVIOUS
<1>1. PICK m \in Short : \A k \in Short : m <= k
  <2>1. Short \in SUBSET Nat
    OBVIOUS
  <2> HIDE DEF Short
  <2>2. QED
    BY <2>1, Smallest
<1>2. m \in 0 .. N /\ ~\E g \in [0 .. m -> S] : Follows(g, s0, step, m)
  OBVIOUS
<1>3. CASE m = 0
  <2> DEFINE g == [k \in 0 .. 0 |-> s0]
  <2>1. g \in [0 .. m -> S] /\ Follows(g, s0, step, m)
    BY <1>3 DEF Follows
  <2>2. QED
    BY <1>2, <2>1
<1>4. CASE m # 0
  <2>1. m - 1 \in 0 .. N /\ m - 1 \notin Short /\ m \in 1 .. N
    BY <1>1, <1>2, <1>4
  <2>2. PICK g \in [0 .. m - 1 -> S] : Follows(g, s0, step, m - 1)
    BY <2>1
  <2> DEFINE h == [k \in 0 .. m |-> IF k = m THEN step[<< g[m - 1], m >>] ELSE g[k]]
  <2>3. g[m - 1] \in S /\ step[<< g[m - 1], m >>] \in S
    BY <2>1
  <2>4. h \in [0 .. m -> S]
    BY <1>2, <2>3
  <2>5. h[m] = step[<< g[m - 1], m >>] /\ \A k \in 0 .. m - 1 : h[k] = g[k]
    BY <1>2
  <2>6. h[0] = s0
    BY <2>1, <2>2 DEF Follows
  <2>7. ASSUME NEW k \in 1 .. m PROVE h[k] = step[<< h[k - 1], k >>]
    <3>1. CASE k = m
      <4>1. m - 1 \in 0 .. m - 1
        BY <2>1
      <4> HIDE DEF h
      <4>2. QED
        BY <2>5, <3>1, <4>1
    <3>2. CASE k # m
      <4>1. k \in 1 .. m - 1 /\ k - 1 \in 0 .. m - 1 /\ k \in 0 .. m - 1
        BY <2>1, <3>2
      <4>2. g[k] = step[<< g[k - 1], k >>]
        BY <2>2, <4>1 DEF Follows
      <4> HIDE DEF h
      <4>3. QED
        BY <2>5, <4>1, <4>2
    <3>3. QED
      BY <3>1, <3>2
  <2> HIDE DEF h
  <2>8. Follows(h, s0, step, m)
    BY <2>6, <2>7 DEF Follows
  <2>9. QED
    BY <1>2, <2>4, <2>8
<1>5. QED
  BY <1>3, <1>4

\* The places of a number: each is worth the base of the one before it.
IsPlace(p, base) ==
  /\ p \in [0 .. 11 -> Nat \ {0}] /\ p[0] = 1
  /\ \A k \in 1 .. 11 : p[k] = base * p[k - 1]

\* The recursive function of the places is one, so it has what its equation says.
LEMMA PlaceIs ==
  ASSUME NEW base \in Bases
  PROVE  IsPlace(Format!Place(base), base)
<1> DEFINE P(p) == p = [n \in 0 .. 11 |-> IF n = 0 THEN 1 ELSE base * p[n - 1]]
           step == [sk \in (Nat \ {0}) \X (1 .. 11) |-> base * sk[1]]
<1>1. Format!Place(base) = CHOOSE p : P(p)
  BY DEF Format!Place, Format!MaxDigits
<1>2. step \in [(Nat \ {0}) \X (1 .. 11) -> Nat \ {0}]
  BY DEF Bases
<1>3. PICK g \in [0 .. 11 -> Nat \ {0}] : Follows(g, 1, step, 11)
  <2> HIDE DEF step
  <2>1. 1 \in Nat \ {0} /\ 11 \in Nat
    OBVIOUS
  <2>2. QED
    BY <1>2, <2>1, Recursion
<1>4. ASSUME NEW k \in 1 .. 11 PROVE g[k] = base * g[k - 1]
  <2>1. k - 1 \in 0 .. 11
    OBVIOUS
  <2>2. g[k - 1] \in Nat \ {0}
    BY <2>1
  <2>3. step[<< g[k - 1], k >>] = base * g[k - 1]
    BY <2>2
  <2>4. QED
    BY <1>3, <2>3 DEF Follows
<1>5. P(g)
  <2>1. g[0] = 1
    BY <1>3 DEF Follows
  <2>2. \A n \in 0 .. 11 : g[n] = IF n = 0 THEN 1 ELSE base * g[n - 1]
    BY <1>4, <2>1
  <2>3. g = [n \in 0 .. 11 |-> g[n]]
    OBVIOUS
  <2>4. QED
    BY <2>2, <2>3
<1>6. P(CHOOSE p : P(p))
  <2> HIDE DEF P
  <2>1. QED
    BY <1>5
<1> DEFINE p == CHOOSE p : P(p)
<1>7. P(p)
  BY <1>6
<1> HIDE DEF p
<1>8. p[0] = 1 /\ \A k \in 1 .. 11 : p[k] = base * p[k - 1]
  BY <1>7
<1>9. p = g
  <2>1. SUFFICES ASSUME {k \in 0 .. 11 : p[k] # g[k]} # {} PROVE FALSE
    BY <1>5, <1>7
  <2>2. PICK m \in {k \in 0 .. 11 : p[k] # g[k]} : \A k \in {k \in 0 .. 11 : p[k] # g[k]} : m <= k
    BY <2>1, Smallest
  <2>3. m # 0
    BY <1>3, <1>8, <2>2 DEF Follows
  <2>4. m \in 1 .. 11 /\ m - 1 \in 0 .. 11 /\ p[m - 1] = g[m - 1]
    BY <2>2, <2>3
  <2>5. QED
    BY <1>4, <1>8, <2>2, <2>4
<1>10. QED
  BY <1>1, <1>8, <1>9 DEF p, IsPlace

----------------------------------------------------------------------------
(* ... the digits of a number, ... *)
\* The sixteen digits, in small letters and in capitals.
LEMMA AlphabetsAre ==
  /\ Format!Small[1] = "0" /\ Format!Small[2] = "1" /\ Format!Small[3] = "2" /\ Format!Small[4] = "3"
  /\ Format!Small[5] = "4" /\ Format!Small[6] = "5" /\ Format!Small[7] = "6" /\ Format!Small[8] = "7"
  /\ Format!Small[9] = "8" /\ Format!Small[10] = "9" /\ Format!Small[11] = "a" /\ Format!Small[12] = "b"
  /\ Format!Small[13] = "c" /\ Format!Small[14] = "d" /\ Format!Small[15] = "e" /\ Format!Small[16] = "f"
  /\ Format!Capital[1] = "0" /\ Format!Capital[2] = "1" /\ Format!Capital[3] = "2" /\ Format!Capital[4] = "3"
  /\ Format!Capital[5] = "4" /\ Format!Capital[6] = "5" /\ Format!Capital[7] = "6" /\ Format!Capital[8] = "7"
  /\ Format!Capital[9] = "8" /\ Format!Capital[10] = "9" /\ Format!Capital[11] = "A" /\ Format!Capital[12] = "B"
  /\ Format!Capital[13] = "C" /\ Format!Capital[14] = "D" /\ Format!Capital[15] = "E" /\ Format!Capital[16] = "F"
BY DEF Format!Small, Format!Capital

\* Every digit stands for its number.
LEMMA ValueIs ==
  ASSUME NEW k \in 1 .. 16
  PROVE  /\ Format!ValueOf(Format!Small[k]) = k - 1 /\ Format!ValueOf(Format!Capital[k]) = k - 1
         /\ Format!Small[k] \notin {" ", "-"} /\ Format!Capital[k] \notin {" ", "-"}
         /\ (Format!Small[k] = "0" => k = 1) /\ (Format!Capital[k] = "0" => k = 1)
<1>1. k = 1 \/ k = 2 \/ k = 3 \/ k = 4 \/ k = 5 \/ k = 6 \/ k = 7 \/ k = 8 \/ k = 9 \/ k = 10
      \/ k = 11 \/ k = 12 \/ k = 13 \/ k = 14 \/ k = 15 \/ k = 16
  OBVIOUS
<1>2. \A j \in 1 .. 16 : Format!Small[k] \in {Format!Small[j], Format!Capital[j]} <=> j = k
  BY <1>1 DEF Format!Small, Format!Capital
<1>3. \A j \in 1 .. 16 : Format!Capital[k] \in {Format!Small[j], Format!Capital[j]} <=> j = k
  BY <1>1 DEF Format!Small, Format!Capital
<1>4. Format!ValueOf(Format!Small[k]) = k - 1 /\ Format!ValueOf(Format!Capital[k]) = k - 1
  BY <1>2, <1>3 DEF Format!ValueOf
<1>5. Format!Small[k] \notin {" ", "-"} /\ (Format!Small[k] = "0" => k = 1)
  BY <1>1, AlphabetsAre
<1>6. Format!Capital[k] \notin {" ", "-"} /\ (Format!Capital[k] = "0" => k = 1)
  BY <1>1, AlphabetsAre
<1>7. QED
  BY <1>4, <1>5, <1>6

\* What fits into 32 bits.
ShortWords == {v \in Nat : v \div 65536 < 65536}

\* The places grow past every word.
LEMMA LastPlace ==
  ASSUME NEW base \in Bases, NEW p, IsPlace(p, base), NEW v \in ShortWords
  PROVE  v < p[11]
<1>1. ASSUME NEW k \in 0 .. 10 PROVE p[k] \in Nat /\ p[k + 1] \in Nat /\ p[k + 1] >= 8 * p[k]
  <2>1. k + 1 \in 1 .. 11 /\ (k + 1) - 1 = k /\ k \in 0 .. 11 /\ k + 1 \in 0 .. 11
    OBVIOUS
  <2>2. p[k + 1] = base * p[k] /\ p[k] \in Nat /\ p[k + 1] \in Nat
    BY <2>1 DEF IsPlace
  <2>3. QED
    BY <2>2 DEF Bases
<1>2. p[0] = 1 /\ \A k \in 0 .. 11 : p[k] \in Nat
  BY DEF IsPlace
<1>3. p[1] >= 8 /\ p[2] >= 64 /\ p[3] >= 512
  BY <1>1, <1>2
<1>4. p[4] >= 8 * p[3] /\ p[5] >= 8 * p[4] /\ p[6] >= 8 * p[5]
  BY <1>1
<1>5. p[7] >= 8 * p[6] /\ p[8] >= 8 * p[7] /\ p[9] >= 8 * p[8]
  BY <1>1
<1>6. p[10] >= 8 * p[9] /\ p[11] >= 8 * p[10]
  BY <1>1
<1>7. \A k \in {3, 4, 5, 6, 7, 8, 9, 10, 11} : p[k] \in Nat
  BY <1>2
<1>8. p[11] >= 64 * 512 * 512 * p[3]
  BY <1>4, <1>5, <1>6, <1>7, SMT
<1>9. QED
  BY <1>3, <1>7, <1>8, SMT DEF ShortWords

\* The digits counted are as many as the number has.
LEMMA CountIs ==
  ASSUME NEW base \in Bases, NEW v \in ShortWords
  PROVE  LET p == Format!Place(base)
             n == Format!digitCount(v, base)
         IN n \in 1 .. 11 /\ v < p[n] /\ (n = 1 \/ p[n - 1] <= v)
<1> DEFINE p == Format!Place(base)
           Enough == {n \in 1 .. 11 : v < p[n]}
<1>1. IsPlace(p, base)
  BY PlaceIs
<1> HIDE DEF p
<1>2. 11 \in Enough
  BY <1>1, LastPlace
<1>3. PICK n \in Enough : \A k \in Enough : n <= k
  <2>1. Enough \in SUBSET Nat
    OBVIOUS
  <2>2. QED
    BY <1>2, <2>1, Smallest
<1>4. n \in 1 .. 11 /\ v < p[n] /\ (n = 1 \/ p[n - 1] <= v)
  <2>1. CASE n = 1
    BY <2>1
  <2>2. CASE n # 1
    <3>1. n - 1 \in 1 .. 11 /\ n - 1 \notin Enough
      BY <1>3, <2>2
    <3>2. p[n - 1] \in Nat
      BY <1>1, <3>1 DEF IsPlace
    <3>3. v \in Nat
      BY DEF ShortWords
    <3>4. QED
      BY <3>1, <3>2, <3>3
  <2>3. QED
    BY <2>1, <2>2
<1>5. Format!digitCount(v, base) = CHOOSE k \in 1 .. 11 : v < p[k] /\ (k = 1 \/ p[k - 1] <= v)
  BY DEF Format!digitCount, Format!MaxDigits, p
<1>6. QED
  BY <1>4, <1>5 DEF p

\* A division by a number is one whose rest is smaller than it.
LEMMA DivIs ==
  ASSUME NEW a \in Nat, NEW b \in Nat \ {0}, NEW q \in Nat, NEW r \in Nat, a = b * q + r, r < b
  PROVE  a \div b = q /\ a % b = r
<1> DEFINE c == a \div b
           d == a % b
<1>1. c \in Int /\ d \in 0 .. b - 1 /\ a = b * c + d
  OBVIOUS
<1> HIDE DEF c, d
<1>2. b * (c - q) = r - d
  BY <1>1
<1>3. c - q < 1
  <2>1. SUFFICES ASSUME c - q >= 1 PROVE FALSE
    BY <1>1
  <2>2. b * (c - q) >= b
    BY <1>1, <2>1
  <2>3. QED
    BY <1>1, <1>2, <2>2
<1>4. c - q > -1
  <2>1. SUFFICES ASSUME q - c >= 1 PROVE FALSE
    BY <1>1
  <2>2. b * (q - c) >= b
    BY <1>1, <2>1
  <2>3. b * (q - c) = d - r
    BY <1>1
  <2>4. QED
    BY <1>1, <2>2, <2>3
<1>5. c = q /\ d = r
  BY <1>1, <1>2, <1>3, <1>4
<1>6. QED
  BY <1>5 DEF c, d

\* What one place shows, after what the places above it show.
LEMMA NextPlace ==
  ASSUME NEW base \in Bases, NEW v \in Nat, NEW p \in Nat \ {0}
  PROVE  /\ (v \div p) \in Nat /\ (v \div p) % base \in 0 .. base - 1
         /\ base * (v \div (base * p)) + ((v \div p) % base) = v \div p
<1> DEFINE q == v \div p
           r == v % p
           s == q \div base
           t == q % base
<1>1. q \in Nat /\ r \in 0 .. p - 1 /\ v = p * q + r
  OBVIOUS
<1> HIDE DEF q, r
<1>2. base \in Nat \ {0}
  BY DEF Bases
<1>3. s \in Nat /\ t \in 0 .. base - 1 /\ q = base * s + t
  BY <1>1 DEF Bases
<1> HIDE DEF s, t
<1>4. v = (base * p) * s + (p * t + r)
  BY <1>1, <1>2, <1>3
<1>5. p * t + r \in Nat /\ p * t + r < base * p
  <2>1. p * t \in Nat /\ p * t <= p * (base - 1)
    BY <1>2, <1>3
  <2>2. p * (base - 1) = base * p - p /\ base * p \in Nat
    BY <1>2
  <2>3. QED
    BY <1>1, <2>1, <2>2
<1>6. base * p \in Nat \ {0}
  BY <1>2
<1>7. v \div (base * p) = s
  <2> DEFINE b == base * p
             u == p * t + r
  <2>1. b \in Nat \ {0} /\ u \in Nat /\ u < b /\ v = b * s + u
    BY <1>4, <1>5, <1>6
  <2> HIDE DEF b, u
  <2>2. v \div b = s
    BY <1>3, <2>1, DivIs
  <2>3. QED
    BY <2>2 DEF b
<1>8. QED
  BY <1>1, <1>3, <1>7 DEF q, s, t

----------------------------------------------------------------------------
(* ... and the number a text stands for. *)
Blanks == {" ", "-"}
Numeral == {Format!Small[k] : k \in 1 .. 16} \cup {Format!Capital[k] : k \in 1 .. 16}

\* Digits have a value, and are no blanks or signs.
LEMMA NumeralIs ==
  /\ \A c \in Numeral : Format!ValueOf(c) \in 0 .. 15 /\ c \notin Blanks
  /\ Format!DecimalDigits \subseteq Numeral
<1>1. ASSUME NEW k \in 1 .. 16
      PROVE  /\ Format!ValueOf(Format!Small[k]) \in 0 .. 15 /\ Format!Small[k] \notin Blanks
             /\ Format!ValueOf(Format!Capital[k]) \in 0 .. 15 /\ Format!Capital[k] \notin Blanks
  <2>1. k - 1 \in 0 .. 15
    OBVIOUS
  <2>2. QED
    BY <2>1, ValueIs DEF Blanks
<1>2. {"0", "1", "2", "3", "4"} \subseteq Numeral
  <2>1. "0" = Format!Small[1] /\ "1" = Format!Small[2] /\ "2" = Format!Small[3] /\ "3" = Format!Small[4]
        /\ "4" = Format!Small[5]
    BY DEF Format!Small
  <2>2. QED
    BY <2>1 DEF Numeral
<1>3. {"5", "6", "7", "8", "9"} \subseteq Numeral
  <2>1. "5" = Format!Small[6] /\ "6" = Format!Small[7] /\ "7" = Format!Small[8] /\ "8" = Format!Small[9]
        /\ "9" = Format!Small[10]
    BY DEF Format!Small
  <2>2. QED
    BY <2>1 DEF Numeral
<1>4. QED
  BY <1>1, <1>2, <1>3 DEF Numeral, Format!DecimalDigits

\* The number read so far, character by character.
Reading(text, base, r) ==
  /\ r \in [0 .. Len(text) -> Nat] /\ r[0] = 0
  /\ \A k \in 1 .. Len(text) :
       r[k] = IF text[k] \in Blanks THEN r[k - 1] ELSE base * r[k - 1] + Format!ValueOf(text[k])
Readable(text) == Len(text) \in Nat /\ \A k \in 1 .. Len(text) : text[k] \in Numeral \cup Blanks

\* Two texts that begin alike are read alike so far.
LEMMA ReadAlike ==
  ASSUME NEW base, NEW t, NEW r, Len(t) \in Nat, Reading(t, base, r),
         NEW u, NEW s, Len(u) \in Nat, Reading(u, base, s),
         NEW n \in Nat, n <= Len(t), n <= Len(u), \A k \in 1 .. n : t[k] = u[k]
  PROVE  r[n] = s[n]
<1> DEFINE Apart == {k \in 0 .. n : r[k] # s[k]}
<1> SUFFICES ASSUME Apart # {} PROVE FALSE
  OBVIOUS
<1>1. PICK m \in Apart : \A k \in Apart : m <= k
  <2>1. Apart \in SUBSET Nat
    OBVIOUS
  <2> HIDE DEF Apart
  <2>2. QED
    BY <2>1, Smallest
<1>2. m # 0
  BY DEF Reading
<1>3. m \in 1 .. n /\ m - 1 \in 0 .. n /\ m - 1 \notin Apart
  BY <1>1, <1>2
<1>4. m \in 1 .. Len(t) /\ m \in 1 .. Len(u) /\ r[m - 1] = s[m - 1] /\ t[m] = u[m]
  BY <1>3
<1>5. r[m] = s[m]
  BY <1>4 DEF Reading
<1>6. QED
  BY <1>5

\* A text of digits, blanks and signs is read to the end.
LEMMA ReadingIs ==
  ASSUME NEW text, Readable(text), NEW base \in Bases
  PROVE  \E r : Reading(text, base, r) /\ Format!ReadBack(text, base) = r[Len(text)]
<1> DEFINE n == Len(text)
           P(r) == r = [k \in 0 .. n |->
                          IF k = 0 THEN 0 ELSE IF text[k] \in Blanks THEN r[k - 1]
                          ELSE base * r[k - 1] + Format!ValueOf(text[k])]
           step == [sk \in Nat \X (1 .. n) |->
                      IF text[sk[2]] \in Blanks THEN sk[1] ELSE base * sk[1] + Format!ValueOf(text[sk[2]])]
<1>1. Format!ReadBack(text, base) = (CHOOSE r : P(r))[n]
  BY DEF Format!ReadBack, Blanks
<1>2. n \in Nat /\ \A k \in 1 .. n : text[k] \notin Blanks => Format!ValueOf(text[k]) \in 0 .. 15
  BY NumeralIs DEF Readable
<1> HIDE DEF n
<1>3. step \in [Nat \X (1 .. n) -> Nat]
  <2>1. ASSUME NEW a \in Nat, NEW k \in 1 .. n
        PROVE  (IF text[k] \in Blanks THEN a ELSE base * a + Format!ValueOf(text[k])) \in Nat
    BY <1>2 DEF Bases
  <2>2. QED
    BY <2>1
<1>4. \A a \in Nat, k \in 1 .. n :
        step[<< a, k >>] = IF text[k] \in Blanks THEN a ELSE base * a + Format!ValueOf(text[k])
  OBVIOUS
<1> HIDE DEF step
<1>5. PICK g \in [0 .. n -> Nat] : Follows(g, 0, step, n)
  <2>1. 0 \in Nat
    OBVIOUS
  <2>2. QED
    BY <1>2, <1>3, <2>1, Recursion
<1>6. ASSUME NEW k \in 1 .. n
      PROVE  g[k] = IF text[k] \in Blanks THEN g[k - 1] ELSE base * g[k - 1] + Format!ValueOf(text[k])
  <2>1. k - 1 \in 0 .. n
    BY <1>2
  <2>2. QED
    BY <1>4, <1>5, <2>1 DEF Follows
<1>7. g[0] = 0
  BY <1>5 DEF Follows
<1>8. P(g)
  <2>1. \A k \in 0 .. n :
          g[k] = IF k = 0 THEN 0 ELSE IF text[k] \in Blanks THEN g[k - 1]
                 ELSE base * g[k - 1] + Format!ValueOf(text[k])
    BY <1>2, <1>6, <1>7
  <2>2. g = [k \in 0 .. n |-> g[k]]
    OBVIOUS
  <2>3. QED
    BY <2>1, <2>2
<1> DEFINE r == CHOOSE r : P(r)
<1>9. P(r)
  <2> HIDE DEF P
  <2>1. QED
    BY <1>8
<1> HIDE DEF r
<1>10. /\ DOMAIN r = 0 .. n /\ r[0] = 0
       /\ \A k \in 1 .. n :
            r[k] = IF text[k] \in Blanks THEN r[k - 1] ELSE base * r[k - 1] + Format!ValueOf(text[k])
  BY <1>2, <1>9
<1>11. \A k \in 0 .. n : r[k] = g[k]
  <2> DEFINE Apart == {k \in 0 .. n : r[k] # g[k]}
  <2> SUFFICES ASSUME Apart # {} PROVE FALSE
    OBVIOUS
  <2>1. PICK m \in Apart : \A k \in Apart : m <= k
    <3>1. Apart \in SUBSET Nat
      BY <1>2
    <3> HIDE DEF Apart
    <3>2. QED
      BY <3>1, Smallest
  <2>2. m # 0
    BY <1>7, <1>10
  <2>3. m \in 1 .. n /\ m - 1 \in 0 .. n /\ m - 1 \notin Apart
    BY <1>2, <2>1, <2>2
  <2>4. r[m - 1] = g[m - 1]
    BY <2>3
  <2>5. r[m] = g[m]
    BY <1>6, <1>10, <2>3, <2>4
  <2>6. QED
    BY <2>5
<1>12. r \in [0 .. n -> Nat]
  BY <1>9, <1>11
<1>13. Reading(text, base, r)
  BY <1>10, <1>12 DEF Reading, n
<1>14. QED
  BY <1>1, <1>13 DEF r, n

----------------------------------------------------------------------------
(* An integer's text: blanks, the sign, zeros and the digits. *)
Alphabet(letter) == IF letter = "X" THEN Format!Capital ELSE Format!Small
Magnitude(v, letter) == IF Format!Negative(v, letter) THEN Word - v ELSE v
Sign(v, letter) == IF Format!Negative(v, letter) THEN 1 ELSE 0
Atleast0(n) == IF n > 0 THEN n ELSE 0

\* An integer is printed to base 8, 10 or 16.
LEMMA LetterIs ==
  ASSUME NEW letter \in Format!Integer
  PROVE  Format!Base(letter) \in Bases
BY DEF Format!Integer, Format!Base, Bases

\* What is printed of an argument fits into a word, the least number too.
LEMMA MagnitudeIs ==
  ASSUME NEW v \in Args, NEW letter
  PROVE  /\ Magnitude(v, letter) \in ShortWords /\ Magnitude(v, letter) \in Nat
         /\ Magnitude(v, letter) = 0 => v = 0
<1>1. Word \in Nat /\ (Word - 1) \div 65536 < 65536 /\ v \in 0 .. Word - 1 /\ Word % 2 = 0
  BY SystemAssumption DEF Format!LogFormatAssumption
<1>2. Magnitude(v, letter) \in 0 .. Word - 1
  <2>1. Format!Negative(v, letter) => v > 0
    BY <1>1 DEF Format!Negative
  <2>2. QED
    BY <1>1, <2>1 DEF Magnitude
<1>3. Magnitude(v, letter) = 0 => v = 0
  BY <1>1 DEF Magnitude
<1>4. QED
  BY <1>1, <1>2, <1>3, SMT DEF ShortWords

\* The digits of a number are those of its places, and the first is zero for zero only.
DigitsAre(d, n, v, base, p) ==
  /\ n \in 1 .. 11 /\ v < p[n] /\ IsPlace(p, base)
  /\ d \in Seq(Numeral) /\ Len(d) = n
  /\ \A k \in 1 .. n : Format!ValueOf(d[k]) = (v \div p[n - k]) % base
  /\ d[1] = "0" => v = 0

\* Those of DigitsOf do.
LEMMA DigitsOfIs ==
  ASSUME NEW v \in ShortWords, NEW base \in Bases, NEW letter, base = 16 \/ letter # "X"
  PROVE  DigitsAre(Format!DigitsOf(v, base, Alphabet(letter)), Format!digitCount(v, base), v, base,
                   Format!Place(base))
<1> DEFINE p == Format!Place(base)
           n == Format!digitCount(v, base)
           a == Alphabet(letter)
           d == Format!DigitsOf(v, base, a)
<1>1. n \in 1 .. 11 /\ v < p[n] /\ (n = 1 \/ p[n - 1] <= v)
  BY CountIs
<1>2. IsPlace(p, base)
  BY PlaceIs
<1>3. d = [k \in 1 .. n |-> a[1 + ((v \div p[n - k]) % base)]]
  BY DEF Format!DigitsOf
<1>4. \A k \in 1 .. 16 : /\ Format!ValueOf(a[k]) = k - 1 /\ a[k] \in Numeral
                         /\ a[k] = "0" => k = 1
  BY ValueIs DEF Alphabet, Numeral
<1> HIDE DEF p, n, a, d
<1>5. v \in Nat
  BY DEF ShortWords
<1>6. ASSUME NEW k \in 1 .. n
      PROVE  (v \div p[n - k]) % base \in 0 .. base - 1 /\ p[n - k] \in Nat \ {0}
  <2>1. n - k \in 0 .. 11
    BY <1>1
  <2>2. p[n - k] \in Nat \ {0}
    BY <1>2, <2>1 DEF IsPlace
  <2>3. QED
    BY <1>5, <2>2, NextPlace
<1>7. ASSUME NEW k \in 1 .. n
      PROVE  /\ d[k] = a[1 + ((v \div p[n - k]) % base)]
             /\ 1 + ((v \div p[n - k]) % base) \in 1 .. 16
  <2>1. d[k] = a[1 + ((v \div p[n - k]) % base)]
    BY <1>3
  <2>2. \A x \in 0 .. base - 1 : 1 + x \in 1 .. 16
    BY DEF Bases
  <2>3. QED
    BY <1>6, <2>1, <2>2
<1>8. ASSUME NEW k \in 1 .. n
      PROVE  Format!ValueOf(d[k]) = (v \div p[n - k]) % base /\ d[k] \in Numeral
  <2> DEFINE x == (v \div p[n - k]) % base
  <2>1. x \in Int
    BY <1>6 DEF Bases
  <2>2. d[k] = a[1 + x] /\ 1 + x \in 1 .. 16
    BY <1>7
  <2> HIDE DEF x
  <2>3. Format!ValueOf(d[k]) = x /\ d[k] \in Numeral
    BY <1>4, <2>1, <2>2
  <2>4. QED
    BY <2>3 DEF x
<1>9. d \in Seq(Numeral) /\ Len(d) = n
  <2>1. n \in Nat
    BY <1>1
  <2>2. d = [k \in 1 .. n |-> d[k]]
    BY <1>3
  <2>3. d \in [1 .. n -> Numeral]
    BY <1>8, <2>2
  <2>4. QED
    BY <2>1, <2>3
<1>10. ASSUME d[1] = "0" PROVE v = 0
  <2>1. 1 \in 1 .. n
    BY <1>1
  <2> DEFINE q == p[n - 1]
             y == v \div q
  <2>2. q \in Nat \ {0} /\ y % base \in 0 .. base - 1
    BY <1>6, <2>1
  <2>3. 1 + (y % base) = 1
    BY <1>4, <1>7, <1>10, <2>1
  <2>4. y % base = 0
    BY <2>2, <2>3 DEF Bases
  <2>5. v < base * q
    <3>1. p[n] = base * p[n - 1]
      BY <1>1, <1>2 DEF IsPlace
    <3>2. QED
      BY <1>1, <3>1
  <2>6. y \in Nat /\ y < base
    <3>1. y \in Nat
      BY <1>5, <2>2
    <3>2. q * y <= v
      BY <1>5, <2>2
    <3> HIDE DEF q, y
    <3>3. SUFFICES ASSUME y >= base PROVE FALSE
      BY <3>1 DEF Bases
    <3>4. q * y >= q * base
      BY <2>2, <3>1, <3>3 DEF Bases
    <3>5. QED
      BY <1>5, <2>2, <2>5, <3>1, <3>2, <3>4 DEF Bases
  <2>7. y = 0
    <3> HIDE DEF y
    <3>1. QED
      BY <2>4, <2>6 DEF Bases
  <2>8. v < q
    BY <1>5, <2>2, <2>7
  <2>9. n = 1
    BY <1>1, <1>5, <2>2, <2>8
  <2>10. q = 1
    BY <1>2, <2>9 DEF IsPlace
  <2>11. QED
    BY <1>5, <2>8, <2>10
<1>11. QED
  BY <1>1, <1>2, <1>8, <1>9, <1>10 DEF DigitsAre, p, n, a, d

Chars == Numeral \cup Blanks

\* b blanks, a sign or not, z zeros, then the digits.
Laid(t, b, s, z, d) ==
  /\ b \in Nat /\ s \in {0, 1} /\ z \in Nat
  /\ t \in Seq(Chars) /\ Len(t) = b + s + z + Len(d)
  /\ \A k \in 1 .. b : t[k] = " "
  /\ s = 1 => t[b + 1] = "-"
  /\ \A k \in 1 .. z : t[b + s + k] = "0"
  /\ \A k \in 1 .. Len(d) : t[b + s + z + k] = d[k]

\* Blanks, sign and zeros leave the number what its digits say.
LEMMA ReadLaid ==
  ASSUME NEW t, NEW b, NEW s, NEW z, NEW d, NEW n, NEW v \in Nat, NEW base \in Bases, NEW p,
         Laid(t, b, s, z, d), DigitsAre(d, n, v, base, p)
  PROVE  Format!ReadBack(t, base) = v
<1> DEFINE a == b + s + z
<1>1. b \in Nat /\ s \in {0, 1} /\ z \in Nat /\ a \in Nat /\ n \in 1 .. 11 /\ Len(d) = n /\ Len(t) = a + n
  <2>1. n \in 1 .. 11 /\ Len(d) = n
    BY DEF DigitsAre
  <2>2. b \in Nat /\ s \in {0, 1} /\ z \in Nat /\ Len(t) = b + s + z + Len(d)
    BY DEF Laid
  <2>3. QED
    BY <2>1, <2>2
<1>2. ASSUME NEW k \in 1 .. a PROVE t[k] \in Blanks \cup {"0"}
  <2>1. CASE k <= b
    <3>1. k \in 1 .. b
      BY <1>1, <2>1
    <3>2. QED
      BY <3>1 DEF Laid, Blanks
  <2>2. CASE k > b /\ k <= b + s
    <3>1. s = 1 /\ k = b + 1
      BY <1>1, <1>2, <2>2
    <3>2. QED
      BY <3>1 DEF Laid, Blanks
  <2>3. CASE k > b + s
    <3>1. k - (b + s) \in 1 .. z /\ b + s + (k - (b + s)) = k
      BY <1>1, <1>2, <2>3
    <3>2. t[b + s + (k - (b + s))] = "0"
      BY <3>1 DEF Laid
    <3>3. QED
      BY <3>1, <3>2
  <2>4. QED
    BY <1>1, <1>2, <2>1, <2>2, <2>3
<1>3. Format!Small[1] = "0"
  BY DEF Format!Small
<1>4. Format!ValueOf("0") = 0 /\ "0" \in Numeral /\ "0" \notin Blanks
  <2>1. 1 \in 1 .. 16 /\ 1 - 1 = 0
    OBVIOUS
  <2>2. QED
    BY <1>3, <2>1, ValueIs DEF Numeral, Blanks
<1>5. ASSUME NEW k \in 1 .. n PROVE t[a + k] = d[k] /\ d[k] \in Numeral /\ d[k] \notin Blanks
  <2>1. t[a + k] = d[k]
    BY <1>1 DEF Laid
  <2>2. d[k] \in Numeral
    BY <1>1, ElementOfSeq DEF DigitsAre
  <2>3. QED
    BY <2>1, <2>2, NumeralIs
<1> HIDE DEF a
<1>6. Readable(t)
  <2>1. ASSUME NEW k \in 1 .. Len(t) PROVE t[k] \in Numeral \cup Blanks
    <3>1. CASE k <= a
      BY <1>1, <1>2, <1>4, <3>1
    <3>2. CASE k > a
      <4>1. k - a \in 1 .. n /\ a + (k - a) = k
        BY <1>1, <3>2
      <4>2. t[a + (k - a)] \in Numeral
        BY <1>5, <4>1
      <4>3. QED
        BY <4>1, <4>2
    <3>3. QED
      BY <1>1, <3>1, <3>2
  <2>2. QED
    BY <1>1, <2>1 DEF Readable
<1>7. PICK r : Reading(t, base, r) /\ Format!ReadBack(t, base) = r[Len(t)]
  BY <1>6, ReadingIs
<1>8. r[a] = 0
  <2> DEFINE Wrong == {k \in 0 .. a : r[k] # 0}
  <2> SUFFICES ASSUME Wrong # {} PROVE FALSE
    BY <1>1
  <2>1. PICK m \in Wrong : \A k \in Wrong : m <= k
    <3>1. Wrong \in SUBSET Nat
      BY <1>1
    <3> HIDE DEF Wrong
    <3>2. QED
      BY <3>1, Smallest
  <2>2. m # 0
    BY <1>7 DEF Reading
  <2>3. m \in 1 .. a /\ m - 1 \in 0 .. a /\ m - 1 \notin Wrong /\ m \in 1 .. Len(t)
    BY <1>1, <2>1, <2>2
  <2>4. r[m - 1] = 0
    BY <2>3
  <2>5. r[m] = IF t[m] \in Blanks THEN 0 ELSE base * 0 + Format!ValueOf(t[m])
    BY <1>7, <2>3, <2>4 DEF Reading
  <2>6. base * 0 + 0 = 0
    BY DEF Bases
  <2>7. r[m] = 0
    BY <1>2, <1>4, <2>3, <2>5, <2>6
  <2>8. QED
    BY <2>7
<1>9. \A k \in 0 .. n : p[k] \in Nat \ {0}
  <2>1. \A k \in 0 .. n : k \in 0 .. 11
    BY <1>1
  <2>2. p \in [0 .. 11 -> Nat \ {0}]
    BY DEF DigitsAre, IsPlace
  <2>3. QED
    BY <2>1, <2>2
<1>10. \A k \in 0 .. n : r[a + k] = v \div p[n - k]
  <2> DEFINE Wrong == {k \in 0 .. n : r[a + k] # v \div p[n - k]}
  <2> SUFFICES ASSUME Wrong # {} PROVE FALSE
    OBVIOUS
  <2>1. PICK m \in Wrong : \A k \in Wrong : m <= k
    <3>1. Wrong \in SUBSET Nat
      BY <1>1
    <3> HIDE DEF Wrong
    <3>2. QED
      BY <3>1, Smallest
  <2>2. m # 0
    <3>1. v \div p[n] = 0
      <4>1. p[n] \in Nat \ {0} /\ v < p[n]
        BY <1>1, <1>9 DEF DigitsAre
      <4>2. QED
        BY <4>1
    <3>2. a + 0 = a /\ n - 0 = n
      BY <1>1
    <3>3. QED
      BY <1>8, <2>1, <3>1, <3>2
  <2>3. m \in 1 .. n /\ m - 1 \in 0 .. n /\ m - 1 \notin Wrong /\ a + m \in 1 .. Len(t)
        /\ (a + m) - 1 = a + (m - 1) /\ n - (m - 1) \in 1 .. 11 /\ (n - (m - 1)) - 1 = n - m
        /\ n - m \in 0 .. n
    <3>1. n \in 1 .. 11 /\ a \in Nat /\ Len(t) = a + n /\ m \in 0 .. n /\ m # 0
      BY <1>1, <2>1, <2>2
    <3>2. m - 1 \notin Wrong
      <4>1. m \in Nat /\ ~(m <= m - 1)
        BY <3>1
      <4> HIDE DEF Wrong
      <4>2. QED
        BY <2>1, <4>1
    <3> HIDE DEF Wrong
    <3>3. QED
      BY <3>1, <3>2
  <2>4. r[(a + m) - 1] = v \div p[n - (m - 1)]
    BY <2>3
  <2>5. p[n - (m - 1)] = base * p[n - m]
    BY <2>3 DEF DigitsAre, IsPlace
  <2>6. r[a + m] = base * r[(a + m) - 1] + Format!ValueOf(t[a + m])
    BY <1>5, <1>7, <2>3 DEF Reading
  <2>7. Format!ValueOf(t[a + m]) = (v \div p[n - m]) % base
    BY <1>1, <1>5, <2>3 DEF DigitsAre
  <2>8. r[a + m] = v \div p[n - m]
    <3>1. p[n - m] \in Nat \ {0}
      BY <1>9, <2>3
    <3>2. base * (v \div (base * p[n - m])) + ((v \div p[n - m]) % base) = v \div p[n - m]
      BY <3>1, NextPlace
    <3>3. r[a + m] = base * (v \div p[n - (m - 1)]) + ((v \div p[n - m]) % base)
      BY <2>4, <2>6, <2>7
    <3>4. v \div p[n - (m - 1)] = v \div (base * p[n - m])
      BY <2>5
    <3>5. QED
      BY <3>2, <3>3, <3>4
  <2>9. QED
    BY <2>1, <2>8
<1>11. r[a + n] = v \div p[0]
  <2>1. n \in 0 .. n /\ n - n = 0
    BY <1>1
  <2>2. QED
    BY <1>10, <2>1
<1>12. p[0] = 1 /\ v \div 1 = v
  BY DEF DigitsAre, IsPlace
<1>13. QED
  BY <1>1, <1>7, <1>11, <1>12

\* As many of a character as asked for, none when that is less than one.
LEMMA RepcharIs ==
  ASSUME NEW C, NEW c \in C, NEW m \in Int
  PROVE  /\ Format!alt_log_repchar(c, m) \in Seq(C)
         /\ Len(Format!alt_log_repchar(c, m)) = Atleast0(m)
         /\ \A k \in 1 .. Atleast0(m) : Format!alt_log_repchar(c, m)[k] = c
<1> DEFINE n == Atleast0(m)
           u == Format!alt_log_repchar(c, m)
<1>1. u = [k \in 1 .. n |-> c] /\ n \in Nat
  BY DEF Format!alt_log_repchar, Atleast0
<1> HIDE DEF n, u
<1>2. u \in [1 .. n -> C]
  BY <1>1
<1>3. u \in Seq(C) /\ Len(u) = n
  BY <1>1, <1>2
<1>4. QED
  BY <1>1, <1>3 DEF n, u

\* One character makes a text.
LEMMA OneChar ==
  ASSUME NEW C, NEW c \in C
  PROVE  << c >> \in Seq(C) /\ Len(<< c >>) = 1 /\ << c >>[1] = c
OBVIOUS

\* What doIntegerPrint prints of an argument: zeros or blanks fill up the width.
LEMMA IntegerTextIs ==
  ASSUME NEW v \in Args, NEW letter \in Format!Integer, fmtBeforeDecimal \in Int,
         fmtLeadingZero \in BOOLEAN
  PROVE  LET d == Format!DigitsOf(Magnitude(v, letter), Format!Base(letter), Alphabet(letter))
             s == Sign(v, letter)
             pad == Atleast0(fmtBeforeDecimal - Len(d) - s)
         IN Laid(Format!IntegerText(v, letter), IF fmtLeadingZero THEN 0 ELSE pad, s,
                 IF fmtLeadingZero THEN pad ELSE 0, d)
<1> DEFINE d == Format!DigitsOf(Magnitude(v, letter), Format!Base(letter), Alphabet(letter))
           s == Sign(v, letter)
           pad == Atleast0(fmtBeforeDecimal - Len(d) - s)
           sign == IF Format!Negative(v, letter) THEN << "-" >> ELSE << >>
           fill == fmtBeforeDecimal - Len(d) - Len(sign)
           t == Format!IntegerText(v, letter)
<1>1. t = IF fmtLeadingZero THEN sign \o Format!alt_log_repchar("0", fill) \o d
                            ELSE Format!alt_log_repchar(" ", fill) \o sign \o d
  BY DEF Format!IntegerText, Format!Pad, Magnitude, Alphabet
<1>2. Len(d) \in Nat /\ d \in Seq(Chars) /\ \A k \in 1 .. Len(d) : d[k] \in Chars
  <2>1. Format!Base(letter) = 16 \/ letter # "X"
    BY DEF Format!Base
  <2>2. d \in Seq(Numeral)
    BY <2>1, LetterIs, MagnitudeIs, DigitsOfIs DEF DigitsAre
  <2> HIDE DEF d
  <2>3. d \in Seq(Chars)
    <3>1. Numeral \subseteq Chars
      BY DEF Chars
    <3>2. QED
      BY <2>2, <3>1, SeqMonotonic
  <2>4. QED
    BY <2>3, LenProperties, ElementOfSeq
<1>3. sign \in Seq(Chars) /\ Len(sign) = s /\ s \in {0, 1} /\ (s = 1 => sign[1] = "-")
  <2>1. CASE Format!Negative(v, letter)
    <3>1. sign = << "-" >> /\ s = 1
      BY <2>1 DEF Sign
    <3>2. "-" \in Chars
      BY DEF Chars, Blanks
    <3>4. << "-" >> \in Seq(Chars) /\ Len(<< "-" >>) = 1 /\ << "-" >>[1] = "-"
      BY <3>2, OneChar
    <3> HIDE DEF sign, s
    <3>3. QED
      BY <3>1, <3>4
  <2>2. CASE ~Format!Negative(v, letter)
    <3>1. sign = << >> /\ s = 0
      BY <2>2 DEF Sign
    <3>2. << >> \in Seq(Chars) /\ Len(<< >>) = 0
      OBVIOUS
    <3> HIDE DEF sign, s
    <3>3. QED
      BY <3>1, <3>2
  <2>3. QED
    BY <2>1, <2>2
<1> HIDE DEF d, s, t, sign
<1>4. fill \in Int /\ pad = Atleast0(fill) /\ pad \in Nat
  BY <1>2, <1>3 DEF Atleast0
<1> HIDE DEF fill, pad
<1>5. CASE fmtLeadingZero
  <2> DEFINE u == Format!alt_log_repchar("0", fill)
  <2>1. u \in Seq(Chars) /\ Len(u) = pad /\ \A k \in 1 .. pad : u[k] = "0"
    <3>1. "0" \in Chars
      <4>1. "0" \in Format!DecimalDigits
        BY DEF Format!DecimalDigits
      <4>2. QED
        BY <4>1, NumeralIs DEF Chars
    <3>2. QED
      BY <1>4, <3>1, RepcharIs
  <2>2. t = (sign \o u) \o d
    BY <1>1, <1>5
  <2> HIDE DEF u
  <2>3. /\ sign \o u \in Seq(Chars) /\ Len(sign \o u) = s + pad
        /\ \A k \in 1 .. s + pad : (sign \o u)[k] = IF k <= s THEN sign[k] ELSE u[k - s]
    BY <1>3, <2>1, ConcatProperties
  <2>4. /\ t \in Seq(Chars) /\ Len(t) = s + pad + Len(d)
        /\ \A k \in 1 .. s + pad + Len(d) :
             t[k] = IF k <= s + pad THEN (sign \o u)[k] ELSE d[k - (s + pad)]
    BY <1>2, <2>2, <2>3, ConcatProperties
  <2>5. s = 1 => t[0 + 1] = "-"
    <3>1. SUFFICES ASSUME s = 1 PROVE t[1] = "-"
      OBVIOUS
    <3>2. 1 \in 1 .. s + pad + Len(d) /\ 1 \in 1 .. s + pad /\ 1 <= s + pad /\ 1 <= s
      BY <1>2, <1>4, <3>1
    <3>3. QED
      BY <1>3, <2>3, <2>4, <3>1, <3>2
  <2>6. ASSUME NEW k \in 1 .. pad PROVE t[0 + s + k] = "0"
    <3>1. s + k \in 1 .. s + pad + Len(d) /\ s + k \in 1 .. s + pad /\ s + k <= s + pad
          /\ ~(s + k <= s) /\ (s + k) - s = k /\ 0 + s + k = s + k
      BY <1>2, <1>3, <1>4
    <3>2. t[s + k] = (sign \o u)[s + k] /\ (sign \o u)[s + k] = u[k]
      BY <2>3, <2>4, <3>1
    <3>3. QED
      BY <2>1, <3>1, <3>2
  <2>7. ASSUME NEW k \in 1 .. Len(d) PROVE t[0 + s + pad + k] = d[k]
    <3>1. s + pad + k \in 1 .. s + pad + Len(d) /\ ~(s + pad + k <= s + pad)
          /\ (s + pad + k) - (s + pad) = k /\ 0 + s + pad + k = s + pad + k
      BY <1>2, <1>3, <1>4
    <3>2. QED
      BY <2>4, <3>1
  <2>8. Len(t) = 0 + s + pad + Len(d) /\ 0 \in Nat
    BY <1>2, <1>3, <1>4, <2>4
  <2>9. Laid(t, 0, s, pad, d)
    BY <1>3, <1>4, <2>4, <2>5, <2>6, <2>7, <2>8 DEF Laid
  <2>10. QED
    BY <1>5, <2>9 DEF t, s, pad, d
<1>6. CASE ~fmtLeadingZero
  <2> DEFINE u == Format!alt_log_repchar(" ", fill)
  <2>1. u \in Seq(Chars) /\ Len(u) = pad /\ \A k \in 1 .. pad : u[k] = " "
    <3>1. " " \in Chars
      BY DEF Chars, Blanks
    <3>2. QED
      BY <1>4, <3>1, RepcharIs
  <2>2. t = (u \o sign) \o d
    BY <1>1, <1>6
  <2> HIDE DEF u
  <2>3. /\ u \o sign \in Seq(Chars) /\ Len(u \o sign) = pad + s
        /\ \A k \in 1 .. pad + s : (u \o sign)[k] = IF k <= pad THEN u[k] ELSE sign[k - pad]
    BY <1>3, <2>1, ConcatProperties
  <2>4. /\ t \in Seq(Chars) /\ Len(t) = pad + s + Len(d)
        /\ \A k \in 1 .. pad + s + Len(d) :
             t[k] = IF k <= pad + s THEN (u \o sign)[k] ELSE d[k - (pad + s)]
    BY <1>2, <2>2, <2>3, ConcatProperties
  <2>5. s = 1 => t[pad + 1] = "-"
    <3>1. SUFFICES ASSUME s = 1 PROVE t[pad + 1] = "-"
      OBVIOUS
    <3>2. pad + 1 \in 1 .. pad + s + Len(d) /\ pad + 1 \in 1 .. pad + s /\ pad + 1 <= pad + s
          /\ ~(pad + 1 <= pad) /\ (pad + 1) - pad = 1
      BY <1>2, <1>4, <3>1
    <3>3. t[pad + 1] = (u \o sign)[pad + 1] /\ (u \o sign)[pad + 1] = sign[1]
      BY <2>3, <2>4, <3>2
    <3>4. QED
      BY <1>3, <3>1, <3>3
  <2>6. ASSUME NEW k \in 1 .. pad PROVE t[k] = " "
    <3>1. k \in 1 .. pad + s + Len(d) /\ k \in 1 .. pad + s /\ k <= pad + s /\ k <= pad
      BY <1>2, <1>3, <1>4
    <3>2. QED
      BY <2>1, <2>3, <2>4, <3>1
  <2>7. ASSUME NEW k \in 1 .. Len(d) PROVE t[pad + s + 0 + k] = d[k]
    <3>1. pad + s + k \in 1 .. pad + s + Len(d) /\ ~(pad + s + k <= pad + s)
          /\ (pad + s + k) - (pad + s) = k /\ pad + s + 0 + k = pad + s + k
      BY <1>2, <1>3, <1>4
    <3>2. QED
      BY <2>4, <3>1
  <2>8. Len(t) = pad + s + 0 + Len(d) /\ 0 \in Nat /\ 1 .. 0 = {}
    BY <1>2, <1>3, <1>4, <2>4
  <2>9. Laid(t, pad, s, 0, d)
    BY <1>3, <1>4, <2>4, <2>5, <2>6, <2>7, <2>8 DEF Laid
  <2>10. QED
    BY <1>6, <2>9 DEF t, s, pad, d
<1>7. QED
  BY <1>5, <1>6

\* What is at a place of such a text.
LaidAs(t, b, s, z, d, k) ==
  \/ k <= b /\ t[k] = " "
  \/ k = b + 1 /\ s = 1 /\ t[k] = "-"
  \/ k > b + s /\ t[k] = "0"
  \/ k > b + s /\ k - (b + s + z) \in 1 .. Len(d) /\ t[k] = d[k - (b + s + z)]

\* Every place shows one of them.
LEMMA LaidAt ==
  ASSUME NEW t, NEW b, NEW s, NEW z, NEW d, Laid(t, b, s, z, d), Len(d) \in Nat,
         NEW k \in 1 .. Len(t)
  PROVE  LaidAs(t, b, s, z, d, k)
<1>1. b \in Nat /\ s \in {0, 1} /\ z \in Nat /\ Len(t) = b + s + z + Len(d) /\ s \in Nat /\ k \in Nat
  <2>1. b \in Nat /\ s \in {0, 1} /\ z \in Nat /\ Len(t) = b + s + z + Len(d)
    BY DEF Laid
  <2>2. Len(t) \in Nat /\ s \in Nat
    BY <2>1
  <2>3. QED
    BY <2>1, <2>2
<1>2. ASSUME k <= b PROVE t[k] = " "
  <2>1. k \in 1 .. b
    BY <1>1, <1>2
  <2>2. QED
    BY <2>1 DEF Laid
<1>3. ASSUME k > b, k <= b + s PROVE k = b + 1 /\ s = 1 /\ t[k] = "-"
  <2>1. s = 1 /\ k = b + 1
    BY <1>1, <1>3
  <2>2. QED
    BY <2>1 DEF Laid
<1>4. ASSUME k > b + s, k <= b + s + z PROVE t[k] = "0"
  <2>1. k - (b + s) \in 1 .. z /\ b + s + (k - (b + s)) = k
    BY <1>1, <1>4
  <2>2. t[b + s + (k - (b + s))] = "0"
    BY <2>1 DEF Laid
  <2>3. QED
    BY <2>1, <2>2
<1>5. ASSUME k > b + s + z
      PROVE  k > b + s /\ k - (b + s + z) \in 1 .. Len(d) /\ t[k] = d[k - (b + s + z)]
  <2>1. k - (b + s + z) \in 1 .. Len(d) /\ b + s + z + (k - (b + s + z)) = k /\ k > b + s
    BY <1>1, <1>5
  <2>2. t[b + s + z + (k - (b + s + z))] = d[k - (b + s + z)]
    BY <2>1 DEF Laid
  <2>3. QED
    BY <2>1, <2>2
<1>6. \/ k <= b
      \/ k > b /\ k <= b + s
      \/ k > b + s /\ k <= b + s + z
      \/ k > b + s + z
  BY <1>1
<1>7. QED
  BY <1>2, <1>3, <1>4, <1>5, <1>6, Zenon DEF LaidAs

\* A text that is laid out so shows its argument as C does.
LEMMA LaidShown ==
  ASSUME NEW f, NEW v \in Args, NEW t, NEW b, NEW s, NEW z, NEW d,
         Format!Letter(f) \in Format!Integer,
         d = Format!DigitsOf(Magnitude(v, Format!Letter(f)), Format!Base(Format!Letter(f)),
                             Alphabet(Format!Letter(f))),
         s = Sign(v, Format!Letter(f)), Laid(t, b, s, z, d),
         Format!ZeroFlag(f) => b = 0, Len(t) >= Format!WidthOf(f),
         Len(t) > Format!WidthOf(f) => b = 0 /\ z = 0
  PROVE  Format!IntegerShown(f, v, t)
<1> DEFINE letter == Format!Letter(f)
           base == Format!Base(letter)
           m == Magnitude(v, letter)
           n == Format!digitCount(m, base)
           width == Format!WidthOf(f)
           Start(k) == t[k] # " " /\ \A j \in 1 .. k - 1 : t[j] = " "
<1>1. base \in Bases /\ m \in ShortWords /\ m \in Nat /\ (m = 0 => v = 0) /\ letter \in Format!Integer
  BY LetterIs, MagnitudeIs
<1>2. DigitsAre(d, n, m, base, Format!Place(base))
  <2>1. base = 16 \/ letter # "X"
    BY DEF Format!Base
  <2> HIDE DEF base, letter, n
  <2>2. d = Format!DigitsOf(m, base, Alphabet(letter))
    BY DEF base, letter
  <2> HIDE DEF m
  <2>3. QED
    BY <1>1, <2>1, <2>2, DigitsOfIs DEF n
<1>3. Format!ReadBack(t, base) = m
  <2> HIDE DEF base, m, n
  <2>1. QED
    BY <1>1, <1>2, ReadLaid
<1>4. /\ b \in Nat /\ z \in Nat /\ s \in {0, 1} /\ n \in 1 .. 11 /\ Len(d) = n
      /\ Len(t) = b + s + z + n /\ Len(t) \in Nat /\ s \in Nat /\ n \in Nat
  <2>1. n \in 1 .. 11 /\ Len(d) = n
    BY <1>2 DEF DigitsAre
  <2> HIDE DEF n
  <2>2. /\ b \in Nat /\ z \in Nat /\ s \in {0, 1}
        /\ Len(t) = b + s + z + Len(d)
    BY DEF Laid
  <2>3. s \in Nat /\ n \in Nat
    BY <2>1, <2>2
  <2>4. Len(t) \in Nat
    BY <2>1, <2>2, <2>3
  <2>5. QED
    BY <2>1, <2>2, <2>3, <2>4
<1>5. DOMAIN t = 1 .. Len(t) /\ (s = 1 <=> Format!Negative(v, letter))
  <2>1. t \in Seq(Chars)
    BY DEF Laid
  <2>2. QED
    BY <2>1, LenProperties DEF Sign
<1>6. \A k \in 1 .. n : d[k] \in Numeral /\ d[k] \notin Blanks
  <2>1. d \in Seq(Numeral) /\ Len(d) = n
    BY <1>2 DEF DigitsAre
  <2> HIDE DEF n
  <2>2. QED
    BY <2>1, ElementOfSeq, NumeralIs
<1> HIDE DEF n, m, base, letter
<1>7. ASSUME NEW k \in 1 .. Len(t)
      PROVE  (t[k] = " " <=> k <= b) /\ (t[k] = "-" <=> s = 1 /\ k = b + 1)
  <2> k \in Nat
    BY <1>4
  <2>1. \/ k <= b /\ t[k] = " "
        \/ k = b + 1 /\ s = 1 /\ t[k] = "-"
        \/ k > b + s /\ t[k] \notin Blanks
    <3>1. Len(d) \in Nat
      BY <1>4
    <3>2. "0" \notin Blanks
      BY DEF Blanks
    <3>3. \A i \in 1 .. Len(d) : d[i] \notin Blanks
      BY <1>4, <1>6
    <3>4. LaidAs(t, b, s, z, d, k)
      BY <3>1, LaidAt
    <3>5. QED
      BY <3>2, <3>3, <3>4, Zenon DEF LaidAs
  <2>2. /\ k <= b => ~(k = b + 1)
        /\ k = b + 1 => ~(k <= b)
        /\ k > b + s => ~(k <= b) /\ ~(s = 1 /\ k = b + 1)
    BY <1>4
  <2>3. " " # "-" /\ " " \in Blanks /\ "-" \in Blanks
    BY DEF Blanks
  <2>4. QED
    BY <2>1, <2>2, <2>3, Zenon
<1>8. b + 1 \in 1 .. Len(t) /\ Start(b + 1)
  <2>1. b + 1 \in 1 .. Len(t) /\ \A j \in 1 .. (b + 1) - 1 : j \in 1 .. Len(t) /\ j <= b
    BY <1>4
  <2>2. ~(b + 1 <= b)
    BY <1>4
  <2>3. QED
    BY <1>7, <2>1, <2>2
<1>9. \A k \in 1 .. Len(t) : Start(k) => k = b + 1
  <2>1. SUFFICES ASSUME NEW k \in 1 .. Len(t), Start(k) PROVE k = b + 1
    OBVIOUS
  <2>2. ~(k <= b)
    BY <1>7, <2>1
  <2>3. CASE k > b + 1
    <3>1. b + 1 \in 1 .. k - 1
      BY <1>4, <2>3
    <3>2. QED
      BY <1>8, <2>1, <3>1
  <2>4. QED
    BY <1>4, <2>2, <2>3
<1>10. (CHOOSE k \in DOMAIN t : Start(k)) = b + 1
  <2> HIDE DEF Start
  <2>1. QED
    BY <1>5, <1>8, <1>9
<1> DEFINE first == CHOOSE k \in DOMAIN t : Start(k)
<1>11. first = b + 1
  BY <1>10
<1> HIDE DEF first, Start
<1>12. ASSUME Len(t) > width
       PROVE  b = 0 /\ (t[IF s = 1 THEN 2 ELSE 1] = "0" => v = 0)
  <2>1. b = 0 /\ z = 0
    BY <1>12
  <2>2. 1 \in 1 .. Len(d) /\ b + s + z + 1 = IF s = 1 THEN 2 ELSE 1
    BY <1>4, <2>1
  <2>3. t[b + s + z + 1] = d[1]
    BY <2>2 DEF Laid
  <2>4. d[1] = "0" => m = 0
    BY <1>2 DEF DigitsAre
  <2>5. QED
    BY <1>1, <2>1, <2>2, <2>3, <2>4
<1>13. first = 1 <=> b = 0
  BY <1>4, <1>11
<1>14. \A k \in DOMAIN t :
         /\ t[k] = "-" <=> Format!Negative(v, letter) /\ k = first
         /\ t[k] = " " <=> k < first
  <2>1. \A k \in 1 .. Len(t) : k <= b <=> k < first
    BY <1>4, <1>11
  <2>2. QED
    BY <1>5, <1>7, <1>11, <2>1, Zenon
<1>15. QED
  <2>1. Format!ReadBack(t, Format!Base(Format!Letter(f))) =
          IF Format!Negative(v, Format!Letter(f)) THEN Word - v ELSE v
    BY <1>3 DEF Magnitude, letter, base, m
  <2>2. \A k \in DOMAIN t :
          /\ t[k] = "-" <=> Format!Negative(v, Format!Letter(f)) /\ k = first
          /\ t[k] = " " <=> k < first
    BY <1>14 DEF letter
  <2>3. Format!ZeroFlag(f) => first = 1
    BY <1>13
  <2>4. Len(t) > Format!WidthOf(f) =>
          first = 1 /\ (t[IF Format!Negative(v, Format!Letter(f)) THEN 2 ELSE 1] = "0" => v = 0)
    BY <1>5, <1>12, <1>13 DEF letter
  <2>5. QED
    BY <2>1, <2>2, <2>3, <2>4 DEF Format!IntegerShown, first, Start

\* Blanks before a string fill up the width.
LEMMA PaddedIs ==
  ASSUME NEW C, NEW s \in Seq(C), NEW w \in Int
  PROVE  LET t == Format!alt_log_repchar(" ", w - Len(s)) \o s IN
         /\ Len(t) = IF Len(s) > Atleast0(w) THEN Len(s) ELSE Atleast0(w)
         /\ SubSeq(t, Len(t) - Len(s) + 1, Len(t)) = s
         /\ \A k \in 1 .. Len(t) - Len(s) : t[k] = " "
<1> DEFINE D == C \cup {" "}
           u == Format!alt_log_repchar(" ", w - Len(s))
           n == Atleast0(w - Len(s))
           t == u \o s
           r == SubSeq(t, Len(t) - Len(s) + 1, Len(t))
<1>1. Len(s) \in Nat /\ w - Len(s) \in Int /\ n \in Nat
  BY LenProperties DEF Atleast0
<1>2. u \in Seq(D) /\ Len(u) = n /\ \A k \in 1 .. n : u[k] = " "
  <2>1. " " \in D
    OBVIOUS
  <2> HIDE DEF D
  <2>2. QED
    BY <1>1, <2>1, RepcharIs
<1>3. s \in Seq(D)
  <2>1. C \subseteq D
    OBVIOUS
  <2> HIDE DEF D
  <2>2. QED
    BY <2>1, SeqMonotonic
<1> HIDE DEF D, u
<1>4. /\ t \in Seq(D) /\ Len(t) = n + Len(s)
      /\ \A k \in 1 .. n + Len(s) : t[k] = IF k <= n THEN u[k] ELSE s[k - n]
  <2>1. /\ t \in Seq(D) /\ Len(t) = Len(u) + Len(s)
        /\ \A k \in 1 .. Len(u) + Len(s) : t[k] = IF k <= Len(u) THEN u[k] ELSE s[k - Len(u)]
    BY <1>2, <1>3, ConcatProperties
  <2>2. Len(u) = n
    BY <1>2
  <2> HIDE DEF n, t
  <2>3. QED
    BY <2>1, <2>2
<1> HIDE DEF t
<1>5. Len(t) - Len(s) = n /\ Len(t) - Len(s) + 1 = n + 1 /\ Len(t) \in Nat /\ n + 1 \in 1 .. Len(t) + 1
  <2> HIDE DEF n
  <2>1. QED
    BY <1>1, <1>4
<1>6. Len(t) = IF Len(s) > Atleast0(w) THEN Len(s) ELSE Atleast0(w)
  BY <1>1, <1>4 DEF Atleast0
<1> HIDE DEF n
<1>7. ASSUME NEW k \in 1 .. Len(t) - Len(s) PROVE t[k] = " "
  <2>1. k \in 1 .. n /\ k \in 1 .. n + Len(s) /\ k <= n
    BY <1>1, <1>5
  <2>2. QED
    BY <1>2, <1>4, <2>1
<1>8. r = s
  <2>1. /\ r \in Seq(D) /\ Len(r) = Len(s)
        /\ \A k \in 1 .. Len(s) : r[k] = t[n + k]
    <3>1. r = SubSeq(t, n + 1, Len(t))
      BY <1>5
    <3>2. r \in Seq(D) /\ (Len(r) = IF n + 1 <= Len(t) THEN Len(t) - (n + 1) + 1 ELSE 0)
          /\ \A k \in 1 .. Len(t) - (n + 1) + 1 : r[k] = t[(n + 1) + k - 1]
      <4>1. \A k \in n + 1 .. Len(t) : t[k] \in D
        <5>1. \A k \in n + 1 .. Len(t) : k \in 1 .. Len(t)
          BY <1>1, <1>5
        <5>2. QED
          BY <1>4, <5>1, ElementOfSeq
      <4>2. n + 1 \in Int /\ Len(t) \in Int
        BY <1>1, <1>5
      <4> DEFINE lo == n + 1
                 hi == Len(t)
      <4> HIDE DEF lo, hi
      <4>3. /\ SubSeq(t, lo, hi) \in Seq(D)
            /\ Len(SubSeq(t, lo, hi)) = IF lo <= hi THEN hi - lo + 1 ELSE 0
            /\ \A k \in 1 .. hi - lo + 1 : SubSeq(t, lo, hi)[k] = t[lo + k - 1]
        <5>1. lo \in Int /\ hi \in Int /\ \A k \in lo .. hi : t[k] \in D
          BY <4>1, <4>2 DEF lo, hi
        <5>2. QED
          BY <5>1, SubSeqProperties
      <4>4. QED
        BY <3>1, <4>3 DEF lo, hi
    <3>3. Len(t) - (n + 1) + 1 = Len(s) /\ (~(n + 1 <= Len(t)) => Len(s) = 0)
      BY <1>1, <1>4
    <3>4. \A k \in 1 .. Len(s) : (n + 1) + k - 1 = n + k
      BY <1>1
    <3>5. QED
      BY <3>2, <3>3, <3>4
  <2> HIDE DEF r
  <2>2. ASSUME NEW k \in 1 .. Len(s) PROVE r[k] = s[k]
    <3>1. n + k \in 1 .. n + Len(s) /\ ~(n + k <= n) /\ (n + k) - n = k
      BY <1>1
    <3>2. QED
      BY <1>4, <2>1, <3>1
  <2>3. QED
    BY <1>3, <2>1, <2>2, SeqEqual
<1>9. QED
  BY <1>6, <1>7, <1>8 DEF t, u, r

\* A digit more is read after the others.
LEMMA ReadAppend ==
  ASSUME NEW g \in Seq(Format!DecimalDigits), NEW c \in Format!DecimalDigits
  PROVE  /\ Format!ReadBack(g, 10) \in Nat
         /\ Format!ReadBack(Append(g, c), 10) = 10 * Format!ReadBack(g, 10) + Format!ValueOf(c)
<1> DEFINE h == Append(g, c)
           n == Len(g)
<1>1. /\ n \in Nat /\ h \in Seq(Format!DecimalDigits) /\ Len(h) = n + 1
      /\ h[n + 1] = c /\ \A k \in 1 .. n : h[k] = g[k]
  BY LenProperties, AppendProperties
<1>2. Readable(g) /\ Readable(h) /\ 10 \in Bases
  <2>1. \A f \in Seq(Format!DecimalDigits) : Readable(f)
    <3>1. SUFFICES ASSUME NEW f \in Seq(Format!DecimalDigits) PROVE Readable(f)
      OBVIOUS
    <3>2. Len(f) \in Nat /\ \A k \in 1 .. Len(f) : f[k] \in Format!DecimalDigits
      BY LenProperties, ElementOfSeq
    <3>3. QED
      BY <3>2, NumeralIs DEF Readable
  <2>2. QED
    BY <1>1, <2>1 DEF Bases
<1>3. PICK r : Reading(g, 10, r) /\ Format!ReadBack(g, 10) = r[n]
  BY <1>2, ReadingIs
<1>4. PICK s : Reading(h, 10, s) /\ Format!ReadBack(h, 10) = s[Len(h)]
  <2> HIDE DEF h
  <2>1. QED
    BY <1>2, ReadingIs
<1> HIDE DEF h, n
<1>5. n \in 0 .. n /\ n + 1 \in 1 .. Len(h) /\ (n + 1) - 1 = n /\ n <= Len(h)
  BY <1>1
<1>6. r[n] = s[n]
  <2>1. Len(g) \in Nat /\ Len(h) \in Nat /\ n <= Len(g)
    BY <1>1 DEF n
  <2>2. \A k \in 1 .. n : g[k] = h[k]
    BY <1>1
  <2>3. QED
    BY <1>1, <1>3, <1>4, <1>5, <2>1, <2>2, ReadAlike
<1>7. s[n + 1] = 10 * s[n] + Format!ValueOf(c)
  <2>1. s[n + 1] = IF h[n + 1] \in Blanks THEN s[(n + 1) - 1]
                   ELSE 10 * s[(n + 1) - 1] + Format!ValueOf(h[n + 1])
    BY <1>4, <1>5 DEF Reading
  <2>2. c \notin Blanks
    BY NumeralIs
  <2>3. QED
    BY <1>1, <1>5, <2>1, <2>2
<1>8. r[n] \in Nat
  <2>1. r \in [0 .. n -> Nat]
    BY <1>3 DEF Reading, n
  <2>2. QED
    BY <1>5, <2>1
<1>9. QED
  BY <1>1, <1>3, <1>4, <1>6, <1>7, <1>8 DEF h

\* No digit at all is a zero.
LEMMA ReadNothing == Format!ReadBack(<< >>, 10) = 0
<1>1. Readable(<< >>) /\ 10 \in Bases /\ Len(<< >>) = 0
  BY DEF Readable, Bases
<1>2. PICK r : Reading(<< >>, 10, r) /\ Format!ReadBack(<< >>, 10) = r[Len(<< >>)]
  BY <1>1, ReadingIs
<1>3. QED
  BY <1>1, <1>2 DEF Reading

----------------------------------------------------------------------------
(* The scanner: while it reads digits, it knows the width they stand for. *)
Stem(f) == IF Len(f) > 0 /\ f[Len(f)] = "l" THEN SubSeq(f, 1, Len(f) - 1) ELSE f
Plain(f) == \A k \in 1 .. Len(f) : f[k] \in Digits

\* A conversion is its flag and width, an l or not, and its letter.
LEMMA BodyIs ==
  ASSUME NEW g \in Seq(Format!FormatChars), NEW c \in Format!FormatChars
  PROVE  /\ Format!Letter(Append(g, c)) = c /\ Len(Append(g, c)) > 0
         /\ Format!Body(Append(g, c)) = Stem(g)
<1> DEFINE f == Append(g, c)
           n == Len(g)
<1>1. /\ n \in Nat /\ f \in Seq(Format!FormatChars) /\ Len(f) = n + 1
      /\ f[n + 1] = c /\ \A k \in 1 .. n : f[k] = g[k]
  BY LenProperties, AppendProperties
<1>2. n > 0 => f[n] = g[n]
  BY <1>1
<1>3. n + 1 - 1 = n /\ n + 1 > 0
  BY <1>1
<1>4. Format!Letter(f) = c /\ Len(f) > 0
  BY <1>1, <1>3 DEF Format!Letter
<1>5. Format!Body(f) = SubSeq(f, 1, IF n > 0 /\ g[n] = "l" THEN n - 1 ELSE n)
  <2> HIDE DEF f, n
  <2>1. Format!Body(f) = LET i == Len(f) - 1 IN SubSeq(f, 1, IF i > 0 /\ f[i] = "l" THEN i - 1 ELSE i)
    BY DEF Format!Body
  <2>2. Len(f) - 1 = n
    BY <1>1, <1>3
  <2>3. QED
    BY <1>2, <2>1, <2>2
<1>6. ASSUME NEW m \in 0 .. n PROVE SubSeq(f, 1, m) = SubSeq(g, 1, m)
  <2>1. /\ SubSeq(f, 1, m) \in Seq(Format!FormatChars) /\ Len(SubSeq(f, 1, m)) = m
        /\ SubSeq(g, 1, m) \in Seq(Format!FormatChars) /\ Len(SubSeq(g, 1, m)) = m
        /\ \A k \in 1 .. m : SubSeq(f, 1, m)[k] = f[k] /\ SubSeq(g, 1, m)[k] = g[k]
    <3>1. \A h \in Seq(Format!FormatChars) : m <= Len(h) =>
             /\ SubSeq(h, 1, m) \in Seq(Format!FormatChars) /\ Len(SubSeq(h, 1, m)) = m
             /\ \A k \in 1 .. m : SubSeq(h, 1, m)[k] = h[k]
      OBVIOUS
    <3>2. m <= Len(f) /\ m <= Len(g)
      BY <1>1
    <3> HIDE DEF f, n
    <3>3. QED
      BY <1>1, <3>1, <3>2
  <2>2. \A k \in 1 .. m : f[k] = g[k]
    BY <1>1
  <2> HIDE DEF f, n
  <2>3. QED
    BY <2>1, <2>2, SeqEqual
<1>7. SubSeq(g, 1, n) = g
  OBVIOUS
<1>8. (IF n > 0 /\ g[n] = "l" THEN n - 1 ELSE n) \in 0 .. n
  BY <1>1
<1> HIDE DEF f
<1>9. Format!Body(f) = Stem(g)
  BY <1>5, <1>6, <1>7, <1>8 DEF Stem
<1>10. QED
  BY <1>4, <1>9 DEF f

Scanned ==
  /\ state = "firstFmtChar" <=> format = << >>
  /\ fmtLeadingZero <=> (Len(format) > 0 /\ format[1] = "0")
  /\ Plain(Stem(format)) =>
       /\ fmtAfterDecimal = -1 /\ fmtBeforeDecimal >= -1
       /\ Format!ReadBack(Stem(format), 10) = Atleast0(fmtBeforeDecimal)
FormatInv ==
  /\ format \in Seq(Format!FormatChars) /\ fmtLeadingZero \in BOOLEAN
  /\ fmtBeforeDecimal \in Int /\ fmtAfterDecimal \in Int
  /\ state # "chars" => Scanned
  /\ Format!Formatted

\* No conversion was read or printed.
LEMMA FormatInit ==
  ASSUME Format!LogFormatInit
  PROVE  FormatInv
<1>1. state = "chars" /\ format = << >> /\ printed.format = << >>
  BY DEF Format!LogFormatInit, Format!Nothing
<1>2. ~Format!Standard(printed.format)
  BY <1>1 DEF Format!Standard
<1>3. << >> \in Seq(Format!FormatChars)
  OBVIOUS
<1>4. Format!Formatted
  BY <1>2 DEF Format!Formatted
<1>5. fmtLeadingZero \in BOOLEAN /\ fmtBeforeDecimal \in Int /\ fmtAfterDecimal \in Int
  <2>1. fmtLeadingZero = FALSE /\ fmtBeforeDecimal = 0 /\ fmtAfterDecimal = 0
    BY DEF Format!LogFormatInit
  <2>2. FALSE \in BOOLEAN /\ 0 \in Int
    OBVIOUS
  <2>3. QED
    BY <2>1, <2>2, Zenon
<1>6. QED
  BY <1>1, <1>3, <1>4, <1>5 DEF FormatInv

\* Without an l at its end a flag and width is what was read.
LEMMA StemIs ==
  ASSUME NEW g \in Seq(Format!FormatChars)
  PROVE  /\ Plain(g) => Stem(g) = g /\ g \in Seq(Format!DecimalDigits)
         /\ Len(Stem(g)) > 0 /\ Stem(g)[1] = "0" <=> Len(g) > 0 /\ g[1] = "0"
<1>1. Len(g) \in Nat /\ \A k \in 1 .. Len(g) : g[k] \in Format!FormatChars
  BY LenProperties, ElementOfSeq
<1>2. ASSUME Plain(g) PROVE Stem(g) = g /\ g \in Seq(Format!DecimalDigits)
  <2>1. Digits \subseteq Format!DecimalDigits
    BY SystemAssumption DEF Format!LogFormatAssumption
  <2>2. \A k \in 1 .. Len(g) : g[k] \in Format!DecimalDigits
    BY <1>2, <2>1 DEF Plain
  <2>3. "l" \notin Format!DecimalDigits
    BY DEF Format!DecimalDigits
  <2>4. Len(g) > 0 => Len(g) \in 1 .. Len(g)
    BY <1>1
  <2>5. Stem(g) = g
    BY <2>2, <2>3, <2>4 DEF Stem
  <2>6. g = [k \in 1 .. Len(g) |-> g[k]]
    BY SeqDef, LenProperties
  <2>7. g \in [1 .. Len(g) -> Format!DecimalDigits]
    BY <2>2, <2>6
  <2>8. g \in Seq(Format!DecimalDigits)
    BY <1>1, <2>7
  <2>9. QED
    BY <2>5, <2>8
<1>3. ASSUME Len(g) > 0, g[Len(g)] = "l"
      PROVE  Len(Stem(g)) > 0 /\ Stem(g)[1] = "0" <=> Len(g) > 0 /\ g[1] = "0"
  <2> DEFINE m == Len(g) - 1
  <2>1. m \in 0 .. Len(g)
    BY <1>1, <1>3
  <2>2. Stem(g) = SubSeq(g, 1, m)
    BY <1>3 DEF Stem
  <2>3. Len(SubSeq(g, 1, m)) = m /\ (m > 0 => SubSeq(g, 1, m)[1] = g[1])
    <3> HIDE DEF m
    <3>1. QED
      BY <2>1
  <2>4. m > 0 \/ (m = 0 /\ Len(g) = 1)
    <3>1. Len(g) \in Nat /\ Len(g) > 0
      BY <1>1, <1>3, Zenon
    <3>2. \A i \in Nat : i > 0 => i - 1 > 0 \/ (i - 1 = 0 /\ i = 1)
      OBVIOUS
    <3>3. QED
      BY <3>1, <3>2, Zenon
  <2>5. CASE m > 0
    <3> HIDE DEF m
    <3>1. QED
      BY <1>3, <2>2, <2>3, <2>5
  <2>6. CASE m = 0 /\ Len(g) = 1
    <3>1. g[1] # "0"
      <4>1. g[1] = "l"
        BY <1>3, <2>6, Zenon
      <4>2. QED
        BY <4>1
    <3>2. ~(0 > 0)
      OBVIOUS
    <3> HIDE DEF m
    <3>3. QED
      BY <2>2, <2>3, <2>6, <3>1, <3>2
  <2>7. QED
    BY <2>4, <2>5, <2>6
<1>4. ASSUME ~(Len(g) > 0 /\ g[Len(g)] = "l") PROVE Stem(g) = g
  BY <1>4 DEF Stem
<1>5. QED
  BY <1>2, <1>3, <1>4

\* Between the percent sign and its letter.
LEMMA PercentStep ==
  ASSUME FormatInv, NEW c \in Format!FormatChars, Format!Percent(c)
  PROVE  FormatInv'
<1>1. /\ state' = "firstFmtChar" /\ format' = << >> /\ fmtLeadingZero' = FALSE
      /\ fmtBeforeDecimal' = -1 /\ fmtAfterDecimal' = -1
  BY DEF Format!Percent
<1>2. << >> \in Seq(Format!FormatChars) /\ Len(<< >>) = 0
  OBVIOUS
<1>3. ~(Len(<< >>) > 0)
  BY <1>2
<1>4. Stem(<< >>) = << >>
  BY <1>3 DEF Stem
<1>5. Format!ReadBack(Stem(format'), 10) = Atleast0(-1) /\ -1 \in Int /\ -1 >= -1
  BY <1>1, <1>4, ReadNothing DEF Atleast0
<1>6. Scanned'
  BY <1>1, <1>3, <1>5 DEF Scanned
<1>7. Format!Formatted'
  BY <1>1 DEF Format!Formatted
<1>8. QED
  BY <1>1, <1>2, <1>5, <1>6, <1>7 DEF FormatInv

\* A character more of a conversion.
LEMMA ScanStep ==
  ASSUME FormatInv, NEW c \in Format!FormatChars, state # "chars", state' = "otherFmtChar",
         format' = Append(format, c), fmtBeforeDecimal' \in Int, fmtAfterDecimal' \in Int,
         fmtLeadingZero' \in BOOLEAN, fmtLeadingZero' <=> IF format = << >> THEN c = "0" ELSE fmtLeadingZero,
         c = "l" => fmtBeforeDecimal' = fmtBeforeDecimal /\ fmtAfterDecimal' = fmtAfterDecimal,
         c \in Digits /\ fmtAfterDecimal = -1 /\ fmtBeforeDecimal >= -1 =>
           /\ fmtAfterDecimal' = -1
           /\ fmtBeforeDecimal' >= -1
           /\ Atleast0(fmtBeforeDecimal') = 10 * Atleast0(fmtBeforeDecimal) + Format!ValueOf(c)
  PROVE  FormatInv'
<1> DEFINE h == Append(format, c)
           n == Len(format)
<1>1. format \in Seq(Format!FormatChars) /\ Scanned /\ fmtBeforeDecimal \in Int
  BY DEF FormatInv
<1>2. /\ n \in Nat /\ h \in Seq(Format!FormatChars) /\ Len(h) = n + 1
      /\ h[n + 1] = c /\ \A k \in 1 .. n : h[k] = format[k]
  BY <1>1, LenProperties, AppendProperties
<1>3. h # << >> /\ Len(h) > 0 /\ n + 1 \in 1 .. Len(h) /\ \A k \in 1 .. n : k \in 1 .. Len(h)
  BY <1>2
<1>4. fmtLeadingZero' <=> h[1] = "0"
  <2>1. CASE format = << >>
    <3>1. n + 1 = 1
      BY <2>1
    <3>2. QED
      BY <1>2, <2>1, <3>1
  <2>2. CASE format # << >>
    <3>1. 1 \in 1 .. n /\ n > 0
      BY <1>1, <1>2, <2>2, EmptySeq
    <3>2. QED
      BY <1>1, <1>2, <2>2, <3>1 DEF Scanned
  <2>3. QED
    BY <2>1, <2>2
<1> HIDE DEF h
<1>5. ASSUME Plain(Stem(h))
      PROVE  /\ fmtAfterDecimal' = -1 /\ fmtBeforeDecimal' >= -1
             /\ Format!ReadBack(Stem(h), 10) = Atleast0(fmtBeforeDecimal')
  <2>1. ASSUME Plain(format)
        PROVE  /\ fmtAfterDecimal = -1 /\ fmtBeforeDecimal >= -1 /\ format \in Seq(Format!DecimalDigits)
               /\ Format!ReadBack(format, 10) = Atleast0(fmtBeforeDecimal)
    BY <1>1, <2>1, StemIs DEF Scanned
  <2>2. CASE c = "l"
    <3>1. Stem(h) = format
      <4>1. Format!Body(h) = Stem(format) /\ Stem(h) = SubSeq(h, 1, Len(h) - 1)
        BY <1>1, <1>2, <1>3, <2>2, BodyIs DEF Stem, h
      <4>2. Len(h) - 1 = n
        BY <1>2
      <4>3. SubSeq(h, 1, n) = format
        <5>1. SubSeq(Append(format, c), 1, Len(format)) = format
          BY <1>1
        <5>2. QED
          BY <5>1 DEF h
      <4>4. QED
        BY <4>1, <4>2, <4>3
    <3>2. QED
      BY <1>5, <2>1, <2>2, <3>1
  <2>3. CASE c # "l"
    <3>1. Stem(h) = h
      BY <1>2, <2>3 DEF Stem
    <3>2. c \in Digits /\ Plain(format)
      BY <1>2, <1>3, <1>5, <3>1 DEF Plain
    <3>3. c \in Format!DecimalDigits
      BY <3>2, SystemAssumption DEF Format!LogFormatAssumption
    <3>4. /\ fmtAfterDecimal' = -1 /\ fmtBeforeDecimal' >= -1
          /\ Atleast0(fmtBeforeDecimal') = 10 * Atleast0(fmtBeforeDecimal) + Format!ValueOf(c)
      BY <2>1, <3>2
    <3>5. Format!ReadBack(h, 10) = 10 * Atleast0(fmtBeforeDecimal) + Format!ValueOf(c)
      BY <2>1, <3>2, <3>3, ReadAppend DEF h
    <3>6. QED
      BY <3>1, <3>4, <3>5
  <2>4. QED
    BY <2>2, <2>3
<1>6. Scanned'
  BY <1>3, <1>4, <1>5 DEF Scanned, h
<1>7. Format!Formatted'
  BY DEF Format!Formatted
<1>8. QED
  BY <1>2, <1>6, <1>7 DEF FormatInv, h

\* What the letters of a width add to it.
LEMMA LettersScanned ==
  ASSUME FormatInv, NEW c \in Format!FormatChars,
         \/ Format!LeadingZero(c) \/ Format!Point(c) \/ Format!LongModifier(c) \/ Format!Digit(c)
  PROVE  FormatInv'
<1>1. /\ fmtBeforeDecimal \in Int /\ fmtAfterDecimal \in Int /\ fmtLeadingZero \in BOOLEAN
      /\ state # "chars" => Scanned
  BY DEF FormatInv
<1>2. Digits \subseteq Format!DecimalDigits /\ {"l", "."} \cap Format!DecimalDigits = {}
  BY SystemAssumption DEF Format!LogFormatAssumption, Format!DecimalDigits
<1>3. Format!ValueOf("0") = 0
  <2>1. Format!Small[1] = "0" /\ 1 \in 1 .. 16 /\ 1 - 1 = 0
    BY AlphabetsAre
  <2>2. QED
    BY <2>1, ValueIs
<1>4. CASE Format!LeadingZero(c)
  <2>1. /\ state = "firstFmtChar" /\ state' = "otherFmtChar" /\ c = "0" /\ format' = Append(format, c)
        /\ fmtLeadingZero' = TRUE
        /\ fmtBeforeDecimal' = fmtBeforeDecimal /\ fmtAfterDecimal' = fmtAfterDecimal
    BY <1>4 DEF Format!LeadingZero, Format!Reads, Format!widths
  <2>2. format = << >> /\ Scanned
    BY <1>1, <2>1 DEF Scanned
  <2>3. Atleast0(fmtBeforeDecimal) = 0
    <3>1. Stem(<< >>) = << >> /\ Plain(<< >>)
      BY DEF Stem, Plain
    <3>2. QED
      BY <2>2, <3>1, ReadNothing DEF Scanned
  <2>4. 10 * 0 + 0 = 0
    OBVIOUS
  <2>5. QED
    BY <1>1, <1>3, <2>1, <2>2, <2>3, <2>4, ScanStep
<1>5. ASSUME Format!Scans(c)
      PROVE  /\ state # "chars" /\ state' = "otherFmtChar" /\ format' = Append(format, c)
             /\ fmtLeadingZero' = fmtLeadingZero /\ fmtLeadingZero' \in BOOLEAN
             /\ fmtLeadingZero' <=> IF format = << >> THEN c = "0" ELSE fmtLeadingZero
  <2>1. /\ Format!InFormat(c) /\ state' = "otherFmtChar" /\ format' = Append(format, c)
        /\ fmtLeadingZero' = fmtLeadingZero
    BY <1>5 DEF Format!Scans, Format!Reads
  <2>2. state # "chars" /\ (state = "firstFmtChar" => c # "0")
    BY <2>1 DEF Format!InFormat
  <2>3. ASSUME format = << >> PROVE state = "firstFmtChar" /\ fmtLeadingZero = FALSE
    <3>1. ~(Len(<< >>) > 0)
      OBVIOUS
    <3>2. QED
      BY <1>1, <2>2, <2>3, <3>1 DEF Scanned
  <2>4. QED
    BY <1>1, <2>1, <2>2, <2>3
<1>6. CASE Format!Point(c)
  <2>1. Format!Scans(c) /\ c \notin Digits /\ c # "l"
    BY <1>2, <1>6 DEF Format!Point
  <2>2. fmtAfterDecimal' \in Int /\ fmtBeforeDecimal' \in Int
    BY <1>1, <1>6 DEF Format!Point
  <2>3. QED
    BY <1>5, <2>1, <2>2, ScanStep
<1>7. CASE Format!LongModifier(c)
  <2>1. /\ Format!Scans(c) /\ c \notin Digits
        /\ fmtAfterDecimal' = fmtAfterDecimal /\ fmtBeforeDecimal' = fmtBeforeDecimal
    BY <1>2, <1>7 DEF Format!LongModifier, Format!widths
  <2>2. QED
    BY <1>1, <1>5, <2>1, ScanStep
<1>8. CASE Format!Digit(c)
  <2>1. Format!Scans(c) /\ c \in Digits /\ c # "l"
    BY <1>2, <1>8 DEF Format!Digit
  <2>2. Format!ValueOf(c) \in Nat
    BY <1>2, <2>1, NumeralIs
  <2>3. CASE fmtAfterDecimal < 0
    <3>1. fmtBeforeDecimal' = (IF fmtBeforeDecimal < 0 THEN 0 ELSE fmtBeforeDecimal * 10) + Format!ValueOf(c)
          /\ fmtAfterDecimal' = fmtAfterDecimal
      BY <1>8, <2>3 DEF Format!Digit
    <3>2. fmtBeforeDecimal' \in Int /\ fmtAfterDecimal' \in Int
      BY <1>1, <2>2, <3>1
    <3>3. fmtBeforeDecimal >= -1 =>
            /\ fmtBeforeDecimal' >= -1
            /\ Atleast0(fmtBeforeDecimal') = 10 * Atleast0(fmtBeforeDecimal) + Format!ValueOf(c)
      BY <1>1, <2>2, <3>1 DEF Atleast0
    <3>4. QED
      BY <1>5, <2>1, <3>1, <3>2, <3>3, ScanStep
  <2>4. CASE ~(fmtAfterDecimal < 0)
    <3>1. fmtAfterDecimal' = fmtAfterDecimal * 10 + Format!ValueOf(c) /\ fmtBeforeDecimal' = fmtBeforeDecimal
      BY <1>8, <2>4 DEF Format!Digit
    <3>2. fmtBeforeDecimal' \in Int /\ fmtAfterDecimal' \in Int /\ fmtAfterDecimal # -1
      BY <1>1, <2>2, <2>4, <3>1
    <3>3. QED
      BY <1>5, <2>1, <3>2, ScanStep
  <2>5. QED
    BY <2>3, <2>4
<1>9. QED
  BY <1>4, <1>6, <1>7, <1>8

\* The conversion a step ends, and what its letter prints: ...
LEMMA PrintsStep ==
  ASSUME FormatInv, NEW c \in Format!FormatChars,
         NEW arg, NEW string, NEW text, Format!Prints(c, arg, string, text),
         Format!Standard(Append(format, c)) => Format!Formatted'
  PROVE  FormatInv'
<1>1. Append(format, c) \in Seq(Format!FormatChars)
  BY AppendProperties DEF FormatInv
<1>2. /\ state' = "chars" /\ format' = Append(format, c) /\ printed'.format = Append(format, c)
      /\ UNCHANGED << fmtLeadingZero, fmtBeforeDecimal, fmtAfterDecimal >>
  BY DEF Format!Prints, Format!Reads, Format!widths
<1>3. Format!Formatted'
  BY <1>2 DEF Format!Formatted
<1>4. QED
  BY <1>1, <1>2, <1>3 DEF FormatInv

\* ... a conversion of the standard has its width and its flag where the scanner says.
LEMMA StandardIs ==
  ASSUME FormatInv, state # "chars", NEW c \in Format!FormatChars, Format!Standard(Append(format, c))
  PROVE  /\ Format!Letter(Append(format, c)) = c
         /\ Format!WidthOf(Append(format, c)) = Atleast0(fmtBeforeDecimal)
         /\ Format!ZeroFlag(Append(format, c)) <=> fmtLeadingZero
<1> DEFINE f == Append(format, c)
<1>1. format \in Seq(Format!FormatChars) /\ Scanned
  BY DEF FormatInv
<1>2. Format!Letter(f) = c /\ Format!Body(f) = Stem(format)
  BY <1>1, BodyIs
<1> HIDE DEF f
<1>3. Plain(Stem(format))
  <2>1. \A k \in DOMAIN Stem(format) : Stem(format)[k] \in Digits
    BY <1>2 DEF Format!Standard, f
  <2>2. DOMAIN Stem(format) = 1 .. Len(Stem(format))
    <3>1. Len(format) \in Nat
      BY <1>1, LenProperties
    <3>2. Len(format) > 0 => SubSeq(format, 1, Len(format) - 1) \in Seq(Format!FormatChars)
      BY <1>1, <3>1
    <3>3. Stem(format) \in Seq(Format!FormatChars)
      BY <1>1, <3>2 DEF Stem
    <3>4. QED
      BY <3>3, LenProperties
  <2>3. QED
    BY <2>1, <2>2 DEF Plain
<1>4. Format!WidthOf(f) = Atleast0(fmtBeforeDecimal)
  BY <1>1, <1>2, <1>3 DEF Format!WidthOf, Scanned
<1>5. Format!ZeroFlag(f) <=> fmtLeadingZero
  BY <1>1, <1>2, StemIs DEF Format!ZeroFlag, Scanned
<1>6. QED
  BY <1>2, <1>4, <1>5 DEF f

\* An integer's text fills up the width, and no more.
LEMMA IntegerFormatted ==
  ASSUME FormatInv, state # "chars", NEW c \in Format!Integer, NEW v \in Args,
         Format!Standard(Append(format, c))
  PROVE  Format!IntegerShown(Append(format, c), v, Format!IntegerText(v, c))
<1> DEFINE f == Append(format, c)
           t == Format!IntegerText(v, c)
           d == Format!DigitsOf(Magnitude(v, c), Format!Base(c), Alphabet(c))
           s == Sign(v, c)
           pad == Atleast0(fmtBeforeDecimal - Len(d) - s)
           b == IF fmtLeadingZero THEN 0 ELSE pad
           z == IF fmtLeadingZero THEN pad ELSE 0
<1>1. fmtBeforeDecimal \in Int /\ fmtLeadingZero \in BOOLEAN /\ c \in Format!FormatChars
  BY DEF FormatInv, Format!FormatChars
<1>2. /\ Format!Letter(f) = c /\ Format!WidthOf(f) = Atleast0(fmtBeforeDecimal)
      /\ Format!ZeroFlag(f) <=> fmtLeadingZero
  BY <1>1, StandardIs
<1>3. Laid(t, b, s, z, d)
  BY <1>1, IntegerTextIs
<1>4. Len(d) \in Nat
  <2>1. Format!Base(c) = 16 \/ c # "X"
    BY DEF Format!Base
  <2>2. d \in Seq(Numeral)
    BY <2>1, LetterIs, MagnitudeIs, DigitsOfIs DEF DigitsAre
  <2> HIDE DEF d
  <2>3. QED
    BY <2>2, LenProperties
<1> HIDE DEF f, t, d, s
<1>5. s \in {0, 1} /\ Len(t) = b + s + z + Len(d)
  BY <1>3 DEF Laid
<1>6. pad \in Nat /\ (pad = 0 \/ pad + s + Len(d) = fmtBeforeDecimal) /\ pad + s + Len(d) >= fmtBeforeDecimal
  <2>1. s \in Int
    BY <1>5
  <2>2. QED
    BY <1>1, <1>4, <2>1 DEF Atleast0
<1> HIDE DEF pad
<1>7. Len(t) = pad + s + Len(d)
  <2>1. s \in Int
    BY <1>5
  <2>2. QED
    BY <1>4, <1>5, <1>6, <2>1
<1>8. Len(t) >= Format!WidthOf(f)
  <2>1. Atleast0(fmtBeforeDecimal) <= pad + s + Len(d)
    BY <1>1, <1>4, <1>5, <1>6 DEF Atleast0
  <2>2. QED
    BY <1>2, <1>7, <2>1
<1>9. ASSUME Len(t) > Format!WidthOf(f) PROVE b = 0 /\ z = 0
  <2>1. pad + s + Len(d) > Atleast0(fmtBeforeDecimal)
    BY <1>2, <1>7, <1>9
  <2>2. pad = 0
    BY <1>1, <1>4, <1>5, <1>6, <2>1 DEF Atleast0
  <2>3. QED
    BY <2>2
<1>10. Format!ZeroFlag(f) => b = 0
  BY <1>2
<1> HIDE DEF b, z
<1>11. QED
  BY <1>2, <1>3, <1>8, <1>9, <1>10, LaidShown DEF f, t, d, s

\* Every letter of a format keeps what the scanner knows and what it printed.
LEMMA FormatStep ==
  ASSUME FormatInv, [Format!LogFormatNext]_formatVars
  PROVE  FormatInv'
<1>1. CASE UNCHANGED formatVars
  BY <1>1 DEF FormatInv, Scanned, Format!Formatted, formatVars
<1>2. SUFFICES ASSUME NEW c \in Format!FormatChars,
                      \/ Format!Literal(c) \/ Format!Percent(c) \/ Format!LeadingZero(c)
                      \/ Format!PercentPercent(c) \/ Format!Point(c) \/ Format!LongModifier(c)
                      \/ Format!Digit(c) \/ Format!doIntegerPrint(c) \/ Format!CharConversion(c)
                      \/ Format!StringConversion(c) \/ Format!Unknown(c)
               PROVE  FormatInv'
  BY <1>1 DEF Format!LogFormatNext
<1> DEFINE f == Append(format, c)
<1>3. /\ format \in Seq(Format!FormatChars) /\ fmtBeforeDecimal \in Int
      /\ Format!Letter(f) = c
  BY BodyIs DEF FormatInv
<1>4. ASSUME NEW arg, NEW string, NEW text, Format!Prints(c, arg, string, text)
      PROVE  /\ state' = "chars" /\ printed'.format = f
             /\ printed'.arg = arg /\ printed'.string = string /\ printed'.text = text
  BY <1>4 DEF Format!Prints, f
<1> HIDE DEF f
<1>5. CASE Format!Literal(c)
  <2>1. /\ printed'.format = << >> /\ state = "chars"
        /\ UNCHANGED << state, format, fmtLeadingZero, fmtBeforeDecimal, fmtAfterDecimal >>
    BY <1>5 DEF Format!Literal, Format!Nothing, Format!widths
  <2>2. ~Format!Standard(<< >>)
    BY DEF Format!Standard
  <2>3. Format!Formatted'
    BY <2>1, <2>2 DEF Format!Formatted
  <2>4. QED
    BY <2>1, <2>3 DEF FormatInv
<1>6. CASE Format!PercentPercent(c) \/ Format!Unknown(c)
  <2>1. PICK text : Format!Prints(c, 0, << >>, text)
    BY <1>6 DEF Format!PercentPercent, Format!Unknown
  <2>2. state # "chars" /\ c \notin Format!Integer \cup {"c", "s"}
    BY <1>6 DEF Format!PercentPercent, Format!Unknown, Format!InFormat, Format!Integer
  <2>3. ~Format!Standard(Append(format, c))
    BY <1>3, <2>2 DEF Format!Standard, f
  <2>4. QED
    BY <2>1, <2>3, PrintsStep
<1>7. CASE Format!doIntegerPrint(c)
  <2>1. PICK v \in Args : Format!Prints(c, v, << >>, Format!IntegerText(v, c))
    BY <1>7 DEF Format!doIntegerPrint
  <2>2. state # "chars" /\ c \in Format!Integer
    BY <1>7 DEF Format!doIntegerPrint, Format!InFormat
  <2>3. ASSUME Format!Standard(Append(format, c)) PROVE Format!Formatted'
    <3>1. Format!IntegerShown(f, v, Format!IntegerText(v, c))
      BY <2>2, <2>3, IntegerFormatted DEF f
    <3>2. QED
      BY <1>3, <1>4, <2>1, <2>2, <3>1 DEF Format!Formatted
  <2>4. QED
    BY <2>1, <2>3, PrintsStep
<1>8. CASE Format!CharConversion(c) \/ Format!StringConversion(c)
  <2>1. PICK C : \E s \in Seq(C) :
          Format!Prints(c, 0, s, Format!alt_log_repchar(" ", fmtBeforeDecimal - Len(s)) \o s)
    <3>1. CASE Format!CharConversion(c)
      <4>1. << "q" >> \in Seq({"q"}) /\ Len(<< "q" >>) = 1
        BY OneChar
      <4>2. Format!Prints(c, 0, << "q" >>, Format!alt_log_repchar(" ", fmtBeforeDecimal - Len(<< "q" >>)) \o << "q" >>)
        BY <3>1, <4>1 DEF Format!CharConversion
      <4>3. QED
        BY <4>1, <4>2
    <3>2. CASE Format!StringConversion(c)
      <4>1. Strings \subseteq Seq(STRING)
        BY SystemAssumption DEF Format!LogFormatAssumption
      <4>2. QED
        BY <3>2, <4>1 DEF Format!StringConversion
    <3>3. QED
      BY <1>8, <3>1, <3>2
  <2>2. PICK s \in Seq(C) :
          Format!Prints(c, 0, s, Format!alt_log_repchar(" ", fmtBeforeDecimal - Len(s)) \o s)
    BY <2>1
  <2>3. state # "chars" /\ c \notin Format!Integer
    BY <1>8 DEF Format!CharConversion, Format!StringConversion, Format!InFormat, Format!Integer
  <2>4. ASSUME Format!Standard(Append(format, c)) PROVE Format!Formatted'
    <3> DEFINE t == Format!alt_log_repchar(" ", fmtBeforeDecimal - Len(s)) \o s
    <3>1. Format!WidthOf(f) = Atleast0(fmtBeforeDecimal)
      BY <2>3, <2>4, StandardIs DEF f
    <3>2. /\ Len(t) = IF Len(s) > Atleast0(fmtBeforeDecimal) THEN Len(s) ELSE Atleast0(fmtBeforeDecimal)
          /\ SubSeq(t, Len(t) - Len(s) + 1, Len(t)) = s
          /\ \A k \in 1 .. Len(t) - Len(s) : t[k] = " "
      BY <1>3, PaddedIs
    <3>3. printed'.format = f /\ printed'.text = t /\ printed'.string = s
      BY <1>4, <2>2
    <3> HIDE DEF t
    <3>4. QED
      BY <1>3, <2>3, <3>1, <3>2, <3>3 DEF Format!Formatted
  <2>5. QED
    BY <2>2, <2>4, PrintsStep
<1>9. CASE Format!Percent(c)
  BY <1>9, PercentStep
<1>10. QED
  BY <1>2, <1>5, <1>6, <1>7, <1>8, <1>9, LettersScanned

----------------------------------------------------------------------------
(* The services together: one of them runs, the others stay as they were. *)
SystemInv == PortInv /\ FormatInv /\ BootInv /\ DevInv

\* Every service keeps its invariant.
THEOREM SystemAlways == SystemSpec => []SystemInv
<1>1. SystemInit => SystemInv
  BY PortInit, FormatInit, BootInit, DevInit DEF SystemInit, SystemInv
<1>2. SystemInv /\ [SystemNext]_<< service, vars, formatVars, bootVars, devVars >> => SystemInv'
  <2>1. SUFFICES ASSUME SystemInv,
                        [SystemNext]_<< service, vars, formatVars, bootVars, devVars >>
                 PROVE  SystemInv'
    OBVIOUS
  <2>2. /\ [LogPortNext]_vars /\ [Format!LogFormatNext]_formatVars
        /\ [Boot!StartupNext]_bootVars /\ [Dev!DevicesNext]_devVars
    BY <2>1 DEF SystemNext
  <2>3. QED
    BY <2>1, <2>2, PortStep, FormatStep, BootStep, DevStep DEF SystemInv
<1>3. QED
  BY <1>1, <1>2, PTL DEF SystemSpec

\* Whatever interrupts what, no print runs past the shared buffer and Ctrl-D never ends the
\* terminal; an echo is the text that was written, but for a character lost to each
\* interrupt, to its end or as far as it had come when another echo took the buffer; the
\* clock prints once a period, and the lowest level prints nothing.
THEOREM LogAlwaysKept == SystemSpec => []LogKept
<1>1. SystemInv => LogKept
  BY PortSafe DEF SystemInv, LogKept
<1>2. QED
  BY <1>1, SystemAlways, PTL

\* Every conversion that C's printf knows as well shows its argument as C does: an integer
\* reads back as it was, in its base and with its sign, blanks before the sign and zeros
\* after it, and it and a string are as wide as asked, or wider without padding.
THEOREM FormatAlwaysKept == SystemSpec => []FormatKept
<1>1. SystemInv => FormatKept
  BY DEF SystemInv, FormatInv, FormatKept
<1>2. QED
  BY <1>1, SystemAlways, PTL

\* From any reset on, main finds the copied and the cleared memory as it was linked, and
\* the HAL, the drivers and every constructor before it.
THEOREM StartsAlwaysClean == SystemSpec => []StartsClean
<1>1. SystemInv => StartsClean
  BY BootSafe DEF SystemInv, StartsClean
<1>2. QED
  BY <1>1, SystemAlways, PTL

\* An open by name gives the device registered last under that name and kind.
THEOREM DevicesAlwaysFound == SystemSpec => []DevicesFound
<1>1. SystemInv => DevicesFound
  BY DEF SystemInv, DevInv, DevicesFound
<1>2. QED
  BY <1>1, SystemAlways, PTL
================================================================================
