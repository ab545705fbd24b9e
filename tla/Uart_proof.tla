------------------------------ MODULE Uart_proof -------------------------------
(* Both builds of the JTAG UART driver: for rings and FIFOs of any size, and      *)
(* whatever the program, the handlers and the host do, each direction is a byte   *)
(* channel and neither gets stuck.                                                *)
EXTENDS MCUart, TLAPS, SequenceTheorems

----------------------------------------------------------------------------
(* Rings and streams. *)

\* The slot k places after s, and how many slots lie from one to another.
At(s, k) == (s + k) % BUF_LEN
Size(first, last) == (last + BUF_LEN - first) % BUF_LEN

\* The bytes of a stream after the first d, up to the a-th.
Run(d, a) == [i \in 1 .. a - d |-> d + i]

\* A ring holds the bytes of its stream that follow the first d.
Holds(buf, first, last, d) ==
    \A k \in 0 .. Size(first, last) - 1 : buf[At(first, k)] = d + k + 1

\* Out: the host has the first bytes, the FIFO those after them, the ring the rest.
TxInOrder ==
    /\ hwTx = Run(received, received + Len(hwTx))
    /\ Holds(tx_buf, tx_out, tx_in, received + Len(hwTx))
    /\ written = received + Len(hwTx) + Size(tx_out, tx_in)

\* In: the program has the first bytes, the ring those after them, the FIFO the rest.
RxInOrder ==
    /\ Holds(rx_buf, rx_out, rx_in, delivered)
    /\ hwRx = Run(delivered + Size(rx_out, rx_in), given)
    /\ given = delivered + Size(rx_out, rx_in) + Len(hwRx)
    /\ Len(hwRx) <= FIFO_DEPTH

----------------------------------------------------------------------------
(* The invariant of the fast driver. *)

\* Only a call in progress has something left to move or has moved something.
CallInRange ==
    /\ count + done <= MaxCount
    /\ pc \in {"idle", "close"} => count = 0 /\ done = 0
    /\ pc \in {"w_copy", "r_load", "r_copy", "r_wait", "r_check"} => count > 0

\* The pointers a call has read may be old by what the handler has done since: there
\* is at least as much room, or as many bytes, as they say.
PointersSafe ==
    /\ pc = "w_copy" => in = tx_in /\ Size(tx_out, tx_in) <= Size(out, tx_in)
    /\ pc = "r_copy" => out = rx_out /\ Size(rx_out, in) <= Size(rx_out, rx_in)

\* The room the handler has read is still there.
SpaceKept ==
    /\ Len(hwTx) <= FIFO_DEPTH
    /\ isr \in {"rx", "tx"} => ctl.space <= FIFO_DEPTH - Len(hwTx)

FastInv ==
    /\ JtagUartTypeOK /\ CallInRange /\ PointersSafe /\ SpaceKept
    /\ TxNotStalled /\ RxNotStalled /\ TxInOrder /\ RxInOrder

----------------------------------------------------------------------------
(* The invariant of the polled driver, and of both builds. *)

\* A FIFO of the device holds the bytes after the first r of w, at most m.
Queue(fifo, r, w, m) ==
    /\ r \in Nat /\ w \in 0 .. m /\ r <= w
    /\ fifo = Run(r, w) /\ Len(fifo) <= FIFO_DEPTH

\* A read that has not ended asked for a byte; a write has room in its stream.
PolledCall ==
    /\ pc \in {"idle", "write", "read", "getchar"} /\ nonblock \in BOOLEAN
    /\ ret \in {"none", "count", "EWOULDBLOCK", "char", "no char"}
    /\ left \in Nat /\ moved \in Nat /\ left + moved <= MaxCount
    /\ pc = "read" => left + moved > 0
    /\ pc = "write" => written + left <= MaxOut

PolledInv ==
    /\ PolledCall
    /\ Queue(hwTx, received, written, MaxOut) /\ Queue(hwRx, delivered, given, MaxIn)

\* The polled driver leaves the rings and the interrupts alone.
AtRest ==
    /\ tx_in = 0 /\ tx_out = 0 /\ rx_in = 0 /\ rx_out = 0
    /\ irq_enable = {"RE"} /\ isr = "off"

UartInv == IF small THEN PolledInv /\ AtRest ELSE FastInv
----------------------------------------------------------------------------
(* Rings. *)

\* Remainders of numbers below twice the length of the ring.
LEMMA Wraps ==
    ASSUME NEW x \in Nat, x < 2 * BUF_LEN
    PROVE  x % BUF_LEN = IF x < BUF_LEN THEN x ELSE x - BUF_LEN
<1> DEFINE q == x \div BUF_LEN
           r == x % BUF_LEN
<1>1. BUF_LEN \in Nat /\ BUF_LEN >= 2
  BY BufLenAssumption
<1>2. q \in Nat /\ r \in Nat /\ r < BUF_LEN /\ x = BUF_LEN * q + r
  BY <1>1
<1> HIDE DEF q, r
<1>3. q < 2
  <2>1. ASSUME q >= 2
        PROVE  BUF_LEN * q >= 2 * BUF_LEN
    <3>1. PICK d \in Nat : q = 2 + d
      <4>1. q - 2 \in Nat /\ q = 2 + (q - 2)
        BY <1>2, <2>1
      <4> QED
        BY <4>1
    <3>2. BUF_LEN * q = 2 * BUF_LEN + BUF_LEN * d /\ BUF_LEN * d \in Nat
      BY <1>1, <3>1
    <3> QED
      BY <1>1, <3>2
  <2> QED
    BY <1>1, <1>2, <2>1
<1>4. CASE q = 0
  BY <1>1, <1>2, <1>4 DEF r
<1>5. CASE q = 1
  BY <1>1, <1>2, <1>5 DEF r
<1> QED
  BY <1>2, <1>3, <1>4, <1>5

\* Places and sizes without remainders.
LEMMA RingArithmetic ==
    ASSUME NEW s \in Slots, NEW t \in Slots
    PROVE  /\ s \in Nat /\ s < BUF_LEN /\ t \in Nat /\ t < BUF_LEN
           /\ BUF_LEN \in Nat /\ BUF_LEN >= 2
           /\ Size(s, t) = IF s <= t THEN t - s ELSE t + BUF_LEN - s
           /\ Size(s, t) \in Nat /\ Size(s, t) < BUF_LEN
           /\ \A k \in 0 .. BUF_LEN :
                 /\ At(s, k) = IF s + k < BUF_LEN THEN s + k ELSE s + k - BUF_LEN
                 /\ At(s, k) \in Slots
<1>1. /\ BUF_LEN \in Nat /\ BUF_LEN >= 2
      /\ s \in Nat /\ s < BUF_LEN /\ t \in Nat /\ t < BUF_LEN
  BY BufLenAssumption DEF Slots
<1>2. Size(s, t) = IF s <= t THEN t - s ELSE t + BUF_LEN - s
  <2>1. t + BUF_LEN - s \in Nat /\ t + BUF_LEN - s < 2 * BUF_LEN
    BY <1>1
  <2> QED
    BY <1>1, <2>1, Wraps DEF Size
<1>3. ASSUME NEW k \in 0 .. BUF_LEN
      PROVE  /\ At(s, k) = IF s + k < BUF_LEN THEN s + k ELSE s + k - BUF_LEN
             /\ At(s, k) \in Slots
  <2>1. s + k \in Nat /\ s + k < 2 * BUF_LEN
    BY <1>1
  <2>2. At(s, k) = IF s + k < BUF_LEN THEN s + k ELSE s + k - BUF_LEN
    BY <1>1, <2>1, Wraps DEF At
  <2> QED
    BY <1>1, <2>1, <2>2 DEF Slots
<1> QED
  BY <1>1, <1>2, <1>3

\* Taking n from a ring: the others follow.
LEMMA RingTakes ==
    ASSUME NEW first \in Slots, NEW last \in Slots, NEW n \in 0 .. Size(first, last),
           NEW buf, NEW d \in Nat, Holds(buf, first, last, d)
    PROVE  /\ At(first, n) \in Slots
           /\ Size(At(first, n), last) = Size(first, last) - n
           /\ Holds(buf, At(first, n), last, d + n)
           /\ Size(first, last) > 0 => buf[first] = d + 1
<1>1. /\ n \in Nat /\ n \in 0 .. BUF_LEN /\ first \in Nat /\ last \in Nat /\ BUF_LEN \in Nat
      /\ first < BUF_LEN /\ last < BUF_LEN
      /\ Size(first, last) = IF first <= last THEN last - first ELSE last + BUF_LEN - first
      /\ Size(first, last) \in Nat /\ n <= Size(first, last) /\ Size(first, last) < BUF_LEN
  BY RingArithmetic
<1>2. /\ At(first, n) \in Slots
      /\ At(first, n) = IF first + n < BUF_LEN THEN first + n ELSE first + n - BUF_LEN
  BY <1>1, RingArithmetic
<1>3. Size(At(first, n), last) = Size(first, last) - n
  <2>1. Size(At(first, n), last) =
           IF At(first, n) <= last THEN last - At(first, n) ELSE last + BUF_LEN - At(first, n)
    BY <1>2, RingArithmetic
  <2> QED
    BY <1>1, <1>2, <2>1
<1>4. ASSUME NEW k \in 0 .. Size(At(first, n), last) - 1
      PROVE  buf[At(At(first, n), k)] = d + n + k + 1
  <2>1. k \in Nat /\ n + k \in 0 .. Size(first, last) - 1 /\ k \in 0 .. BUF_LEN /\ n + k \in 0 .. BUF_LEN
    BY <1>1, <1>3
  <2>2. /\ At(At(first, n), k) = IF At(first, n) + k < BUF_LEN THEN At(first, n) + k
                                 ELSE At(first, n) + k - BUF_LEN
        /\ At(first, n + k) = IF first + (n + k) < BUF_LEN THEN first + (n + k)
                              ELSE first + (n + k) - BUF_LEN
    BY <1>2, <2>1, RingArithmetic
  <2>3. At(At(first, n), k) = At(first, n + k)
    BY <1>1, <1>2, <2>1, <2>2
  <2>4. buf[At(first, n + k)] = d + (n + k) + 1
    BY <2>1 DEF Holds
  <2> QED
    BY <1>1, <2>1, <2>3, <2>4
<1>5. Size(first, last) > 0 => buf[first] = d + 1
  <2>1. 0 \in 0 .. BUF_LEN /\ At(first, 0) = first
    BY <1>1, RingArithmetic
  <2>2. Size(first, last) > 0 => 0 \in 0 .. Size(first, last) - 1
    BY <1>1
  <2> QED
    BY <2>1, <2>2 DEF Holds
<1> QED
  BY <1>2, <1>3, <1>4, <1>5 DEF Holds

\* Adding n in one piece to a ring that has room for them and a slot.
LEMMA RingAdds ==
    ASSUME NEW first \in Slots, NEW last \in Slots, NEW n \in Nat,
           Size(first, last) + n < BUF_LEN, last + n <= BUF_LEN,
           NEW buf, NEW new, NEW d \in Nat, Holds(buf, first, last, d),
           \A s \in Slots : new[s] = IF s \in last .. last + n - 1
                                     THEN d + Size(first, last) + 1 + (s - last) ELSE buf[s]
    PROVE  /\ At(last, n) \in Slots
           /\ Size(first, At(last, n)) = Size(first, last) + n
           /\ Holds(new, first, At(last, n), d)
<1>1. /\ n \in 0 .. BUF_LEN /\ first \in Nat /\ last \in Nat /\ BUF_LEN \in Nat
      /\ first < BUF_LEN /\ last < BUF_LEN
      /\ Size(first, last) = IF first <= last THEN last - first ELSE last + BUF_LEN - first
      /\ Size(first, last) \in Nat /\ Size(first, last) < BUF_LEN
  BY RingArithmetic
<1>2. /\ At(last, n) \in Slots
      /\ At(last, n) = IF last + n < BUF_LEN THEN last + n ELSE last + n - BUF_LEN
  BY <1>1, RingArithmetic
<1>3. Size(first, At(last, n)) = Size(first, last) + n
  <2>1. Size(first, At(last, n)) =
           IF first <= At(last, n) THEN At(last, n) - first ELSE At(last, n) + BUF_LEN - first
    BY <1>2, RingArithmetic
  <2> QED
    BY <1>1, <1>2, <2>1
<1>4. ASSUME NEW k \in 0 .. Size(first, At(last, n)) - 1
      PROVE  new[At(first, k)] = d + k + 1
  <2>1. /\ k \in Nat /\ k \in 0 .. BUF_LEN /\ At(first, k) \in Slots
        /\ At(first, k) = IF first + k < BUF_LEN THEN first + k ELSE first + k - BUF_LEN
    <3>1. k \in 0 .. BUF_LEN /\ k \in Nat
      BY <1>1, <1>3
    <3> QED
      BY <3>1, RingArithmetic
  <2>2. CASE k < Size(first, last)
    <3>1. buf[At(first, k)] = d + k + 1
      BY <1>1, <2>1, <2>2 DEF Holds
    <3>2. At(first, k) \notin last .. last + n - 1
      BY <1>1, <2>1, <2>2
    <3> QED
      BY <2>1, <3>1, <3>2
  <2>3. CASE k >= Size(first, last)
    <3>1. At(first, k) = last + (k - Size(first, last))
      BY <1>1, <1>3, <2>1, <2>3
    <3>2. At(first, k) \in last .. last + n - 1
      BY <1>1, <1>3, <2>1, <2>3, <3>1
    <3>3. At(first, k) - last = k - Size(first, last)
      BY <1>1, <1>3, <2>1, <2>3, <3>1
    <3> QED
      BY <1>1, <2>1, <2>3, <3>2, <3>3
  <2> QED
    BY <1>1, <2>1, <2>2, <2>3
<1>5. Holds(new, first, At(last, n), d)
  BY <1>3, <1>4 DEF Holds
<1> QED
  BY <1>2, <1>3, <1>5

\* A ring is the run of the bytes it holds.
LEMMA RingIsRun ==
    ASSUME NEW first \in Slots, NEW last \in Slots, NEW buf, NEW d \in Nat,
           Holds(buf, first, last, d)
    PROVE  Ring(buf, first, last) = Run(d, d + Size(first, last))
<1>1. /\ BUF_LEN \in Nat /\ Size(first, last) \in Nat /\ Size(first, last) < BUF_LEN
      /\ first \in Nat
  BY RingArithmetic
<1>2. (d + Size(first, last)) - d = Size(first, last)
  BY <1>1
<1>3. ASSUME NEW i \in 1 .. Size(first, last)
      PROVE  buf[(first + i - 1) % BUF_LEN] = d + i
  <2>1. i - 1 \in 0 .. Size(first, last) - 1 /\ first + i - 1 = first + (i - 1) /\ (i - 1) + 1 = i
    BY <1>1
  <2>2. buf[At(first, i - 1)] = d + (i - 1) + 1
    BY <2>1 DEF Holds
  <2> QED
    BY <1>1, <2>1, <2>2 DEF At
<1> QED
  BY <1>2, <1>3 DEF Ring, Run, Size

----------------------------------------------------------------------------
(* Runs of bytes. *)

\* The bytes of a run, in order.
LEMMA RunElements ==
    ASSUME NEW d \in Nat, NEW a \in Nat, d <= a
    PROVE  /\ Run(d, a) \in Seq(Nat) /\ Len(Run(d, a)) = a - d
           /\ DOMAIN Run(d, a) = 1 .. a - d
           /\ \A i \in 1 .. a - d : Run(d, a)[i] = d + i
<1>1. a - d \in Nat
  OBVIOUS
<1>2. \A i \in 1 .. a - d : d + i \in Nat
  OBVIOUS
<1> QED
  BY <1>1, <1>2 DEF Run

\* One run continues another.
LEMMA RunJoins ==
    ASSUME NEW d \in Nat, NEW m \in Nat, NEW a \in Nat, d <= m, m <= a
    PROVE  Run(d, m) \o Run(m, a) = Run(d, a)
<1> DEFINE joined == Run(d, m) \o Run(m, a)
<1>1. /\ Run(d, m) \in Seq(Nat) /\ Len(Run(d, m)) = m - d
      /\ \A i \in 1 .. m - d : Run(d, m)[i] = d + i
  BY RunElements, Zenon
<1>2. /\ Run(m, a) \in Seq(Nat) /\ Len(Run(m, a)) = a - m
      /\ \A i \in 1 .. a - m : Run(m, a)[i] = m + i
  BY RunElements, Zenon
<1>3. /\ Run(d, a) \in Seq(Nat) /\ Len(Run(d, a)) = a - d
      /\ \A i \in 1 .. a - d : Run(d, a)[i] = d + i
  <2>1. d <= a
    OBVIOUS
  <2> QED
    BY <2>1, RunElements, Zenon
<1>4. /\ joined \in Seq(Nat) /\ Len(joined) = Len(Run(d, m)) + Len(Run(m, a))
      /\ \A i \in 1 .. Len(Run(d, m)) + Len(Run(m, a)) :
            joined[i] = IF i <= Len(Run(d, m)) THEN Run(d, m)[i]
                        ELSE Run(m, a)[i - Len(Run(d, m))]
  BY <1>1, <1>2, ConcatProperties, Zenon
<1> HIDE DEF joined
<1>5. Len(joined) = a - d
  BY <1>1, <1>2, <1>4
<1>6. ASSUME NEW i \in 1 .. a - d
      PROVE  joined[i] = d + i
  <2>1. joined[i] = IF i <= m - d THEN Run(d, m)[i] ELSE Run(m, a)[i - (m - d)]
    BY <1>1, <1>2, <1>4
  <2>2. CASE i <= m - d
    BY <1>1, <2>1, <2>2
  <2>3. CASE i > m - d
    <3>1. i - (m - d) \in 1 .. a - m
      BY <2>3
    <3>2. Run(m, a)[i - (m - d)] = m + (i - (m - d))
      BY <1>2, <3>1
    <3> QED
      BY <2>1, <2>3, <3>2
  <2> QED
    BY <2>2, <2>3
<1>7. joined = Run(d, a)
  BY <1>3, <1>4, <1>5, <1>6, SeqEqual
<1> QED
  BY <1>7 DEF joined

\* Taking the first n bytes from a run.
LEMMA RunShrinks ==
    ASSUME NEW d \in Nat, NEW a \in Nat, NEW n \in Nat, d + n <= a
    PROVE  SubSeq(Run(d, a), n + 1, Len(Run(d, a))) = Run(d + n, a)
<1> DEFINE rest == SubSeq(Run(d, a), n + 1, a - d)
<1>1. /\ Run(d, a) \in Seq(Nat) /\ Len(Run(d, a)) = a - d
      /\ \A i \in 1 .. a - d : Run(d, a)[i] = d + i
  <2>1. d <= a
    OBVIOUS
  <2> QED
    BY <2>1, RunElements, Zenon
<1>2. /\ Run(d + n, a) \in Seq(Nat) /\ Len(Run(d + n, a)) = a - (d + n)
      /\ \A i \in 1 .. a - (d + n) : Run(d + n, a)[i] = (d + n) + i
  <2>1. d + n \in Nat
    OBVIOUS
  <2> QED
    BY <2>1, RunElements, Zenon
<1>3. n + 1 \in Int /\ a - d \in Int /\ \A i \in n + 1 .. a - d : Run(d, a)[i] \in Nat
  BY <1>1
<1>4. /\ rest \in Seq(Nat)
      /\ Len(rest) = IF n + 1 <= a - d THEN (a - d) - (n + 1) + 1 ELSE 0
      /\ \A i \in 1 .. (a - d) - (n + 1) + 1 : rest[i] = Run(d, a)[(n + 1) + i - 1]
  BY <1>3, SubSeqProperties
<1> HIDE DEF rest
<1>5. Len(rest) = a - (d + n)
  BY <1>4
<1>6. ASSUME NEW i \in 1 .. a - (d + n)
      PROVE  rest[i] = Run(d + n, a)[i]
  <2>1. i \in 1 .. (a - d) - (n + 1) + 1 /\ (n + 1) + i - 1 \in 1 .. a - d
    OBVIOUS
  <2>2. rest[i] = d + ((n + 1) + i - 1)
    BY <1>1, <1>4, <2>1
  <2> QED
    BY <1>2, <2>2
<1>7. rest = Run(d + n, a)
  BY <1>2, <1>4, <1>5, <1>6, SeqEqual
<1> QED
  BY <1>1, <1>7 DEF rest

\* A byte goes in behind, and the first comes out.
LEMMA RunEnds ==
    ASSUME NEW d \in Nat, NEW a \in Nat, d <= a
    PROVE  /\ Append(Run(d, a), a + 1) = Run(d, a + 1)
           /\ Run(d, a) = << >> <=> a = d
           /\ d < a => Head(Run(d, a)) = d + 1 /\ Tail(Run(d, a)) = Run(d + 1, a)
<1>1. /\ Run(d, a) \in Seq(Nat) /\ Len(Run(d, a)) = a - d
      /\ \A i \in 1 .. a - d : Run(d, a)[i] = d + i
  BY RunElements, Zenon
<1>2. Append(Run(d, a), a + 1) = Run(d, a + 1)
  <2> DEFINE longer == Append(Run(d, a), a + 1)
  <2>1. /\ longer \in Seq(Nat) /\ Len(longer) = a - d + 1 /\ longer[a - d + 1] = a + 1
        /\ \A i \in 1 .. a - d : longer[i] = d + i
    <3>1. ASSUME NEW seq \in Seq(Nat)
          PROVE  /\ Append(seq, a + 1) \in Seq(Nat) /\ Len(Append(seq, a + 1)) = Len(seq) + 1
                 /\ Append(seq, a + 1)[Len(seq) + 1] = a + 1
                 /\ \A i \in 1 .. Len(seq) : Append(seq, a + 1)[i] = seq[i]
      OBVIOUS
    <3>2. /\ longer \in Seq(Nat) /\ Len(longer) = Len(Run(d, a)) + 1
          /\ longer[Len(Run(d, a)) + 1] = a + 1
          /\ \A i \in 1 .. Len(Run(d, a)) : longer[i] = Run(d, a)[i]
      BY <1>1, <3>1, Zenon
    <3> HIDE DEF longer
    <3> QED
      BY <1>1, <3>2
  <2>2. /\ Run(d, a + 1) \in Seq(Nat) /\ Len(Run(d, a + 1)) = (a + 1) - d
        /\ \A i \in 1 .. (a + 1) - d : Run(d, a + 1)[i] = d + i
    <3>1. a + 1 \in Nat /\ d <= a + 1
      OBVIOUS
    <3> QED
      BY <3>1, RunElements, Zenon
  <2> HIDE DEF longer
  <2>3. ASSUME NEW i \in 1 .. a - d + 1
        PROVE  longer[i] = Run(d, a + 1)[i]
    BY <2>1, <2>2
  <2>4. longer = Run(d, a + 1)
    BY <2>1, <2>2, <2>3, SeqEqual
  <2> QED
    BY <2>4 DEF longer
<1>3. Run(d, a) = << >> <=> a = d
  <2>1. Run(d, a) = << >> => Len(Run(d, a)) = 0
    BY EmptySeq
  <2>2. Run(d, a) # << >> => Len(Run(d, a)) # 0
    BY <1>1, EmptySeq
  <2> QED
    BY <1>1, <2>1, <2>2
<1>4. ASSUME d < a
      PROVE  Head(Run(d, a)) = d + 1 /\ Tail(Run(d, a)) = Run(d + 1, a)
  <2>1. Run(d, a) # << >>
    BY <1>3, <1>4
  <2>2. Tail(Run(d, a)) = SubSeq(Run(d, a), 2, Len(Run(d, a)))
    BY <1>1, <2>1, TailIsSubSeq
  <2>3. SubSeq(Run(d, a), 1 + 1, Len(Run(d, a))) = Run(d + 1, a)
    <3>1. 1 \in Nat /\ d + 1 <= a
      BY <1>4
    <3> QED
      BY <3>1, RunShrinks, Zenon
  <2>4. Head(Run(d, a)) = Run(d, a)[1] /\ 1 \in 1 .. a - d
    BY <1>1, <1>4, <2>1
  <2>5. 1 + 1 = 2
    OBVIOUS
  <2> QED
    BY <1>1, <2>2, <2>3, <2>4, <2>5
<1> QED
  BY <1>2, <1>3, <1>4

\* Accepting n bytes makes a run longer.
LEMMA RunAccepts ==
    ASSUME NEW d \in Nat, NEW a \in Nat, NEW n \in Nat, d <= a
    PROVE  Run(d, a) \o [i \in 1 .. n |-> a + i] = Run(d, a + n)
<1>1. a + n \in Nat /\ a <= a + n /\ (a + n) - a = n
  OBVIOUS
<1>2. Run(a, a + n) = [i \in 1 .. n |-> a + i]
  BY <1>1 DEF Run
<1>3. Run(d, a) \o Run(a, a + n) = Run(d, a + n)
  BY <1>1, RunJoins, Zenon
<1> QED
  BY <1>2, <1>3


----------------------------------------------------------------------------
(* The fast driver. *)

\* What the assumptions say of the constants.
LEMMA UartSizes ==
    /\ BUF_LEN \in Nat /\ BUF_LEN >= 2
    /\ FIFO_DEPTH \in Nat /\ FIFO_DEPTH >= 1
    /\ INT_MAX \in Nat /\ INT_MAX >= 3 /\ DEFAULT_TIMEOUT \in 1 .. INT_MAX
    /\ TimeoutArgs \subseteq Nat
    /\ MaxCount \in Nat /\ MaxCount >= 1 /\ MaxOut \in Nat /\ MaxIn \in Nat
BY BufLenAssumption, DeviceAssumption, TimeoutAssumption, BoundAssumption, SmallAssumption
   DEF Small!SmallUartAssumption

\* The free run lies in one piece behind what the ring holds, and leaves a slot.
LEMMA FreeRunFits ==
    ASSUME in \in Slots, out \in Slots
    PROVE  FreeRun \in Nat /\ in + FreeRun <= BUF_LEN /\ Size(out, in) + FreeRun < BUF_LEN
<1>1. /\ in \in Nat /\ in < BUF_LEN /\ out \in Nat /\ out < BUF_LEN /\ BUF_LEN \in Nat
      /\ Size(out, in) = IF out <= in THEN in - out ELSE in + BUF_LEN - out
  BY RingArithmetic
<1> QED
  BY <1>1 DEF FreeRun

\* The filled run is a part of what the ring holds.
LEMMA FilledRunFits ==
    ASSUME in \in Slots, out \in Slots
    PROVE  FilledRun \in Nat /\ FilledRun <= Size(out, in)
<1>1. /\ in \in Nat /\ in < BUF_LEN /\ out \in Nat /\ out < BUF_LEN /\ BUF_LEN \in Nat
      /\ Size(out, in) = IF out <= in THEN in - out ELSE in + BUF_LEN - out
  BY RingArithmetic
<1> QED
  BY <1>1 DEF FilledRun

\* The streams are in order whenever nothing that holds a byte changes.
LEMMA StreamsUnchanged ==
    ASSUME TxInOrder, RxInOrder,
           UNCHANGED << txRing, rxRing, hwTx, hwRx, txStream, rxStream >>
    PROVE  TxInOrder' /\ RxInOrder'
BY DEF TxInOrder, RxInOrder, txRing, rxRing, txStream, rxStream, Holds, Run, Size, At

\* After the initialisation nothing is on its way.
LEMMA FastInvInit ==
    ASSUME JtagUartInit
    PROVE  FastInv
<1> USE UartSizes DEF JtagUartInit, StateInstance
<1>1. 0 \in Slots
  BY DEF Slots
<1>2. Size(0, 0) = 0 /\ 0 .. Size(0, 0) - 1 = {}
  <2>1. Size(0, 0) = IF 0 <= 0 THEN 0 - 0 ELSE 0 + BUF_LEN - 0
    BY <1>1, RingArithmetic, Zenon
  <2> QED
    BY <2>1
<1>3. Run(0, 0) = << >>
  BY RunEnds
<1>4. JtagUartTypeOK
  BY <1>1 DEF JtagUartTypeOK
<1>5. TxInOrder /\ RxInOrder
  BY <1>2, <1>3 DEF TxInOrder, RxInOrder, Holds
<1> QED
  BY <1>4, <1>5 DEF FastInv, CallInRange, PointersSafe, SpaceKept, TxNotStalled, RxNotStalled

\* The program's steps that copy nothing.
CallOnly ==
    \/ WriteCall \/ ReadCall \/ CloseCall \/ SetTimeout
    \/ WriteLoad \/ WriteKick \/ WriteWait \/ WriteCheck \/ WriteReturn
    \/ ReadLoad \/ ReadEmpty \/ ReadWait \/ ReadCheck \/ ReadEnable \/ ReadReturn
    \/ CloseReturn

\* They keep the invariant: what a call reads of a ring is what it holds.
LEMMA FastInvCallOnly ==
    ASSUME FastInv, CallOnly
    PROVE  FastInv'
<1> USE UartSizes DEF FastInv
<1>1. UNCHANGED << txRing, rxRing, host_inactive, handler, device, txStream, rxStream >>
  BY DEF CallOnly, WriteCall, ReadCall, CloseCall, SetTimeout, WriteLoad, WriteKick, WriteWait,
         WriteCheck, WriteReturn, ReadLoad, ReadEmpty, ReadWait, ReadCheck, ReadEnable, ReadReturn,
         CloseReturn, activity
<1>2. UNCHANGED << tx_buf, tx_in, tx_out, rx_buf, rx_in, rx_out, host_inactive, isr, ctl, data_avail,
                   hwTx, hwRx, ac, connected, written, received, given, delivered >>
  BY <1>1 DEF txRing, rxRing, handler, device, txStream, rxStream
<1>3. /\ timeout' \in 1 .. INT_MAX /\ pc' \in {"idle", "close"} \cup WriteLabels \cup ReadLabels
      /\ nonblock' \in BOOLEAN /\ count' \in 0 .. MaxCount /\ done' \in 0 .. MaxCount
      /\ in' \in Slots /\ out' \in Slots
      /\ ret' \in {"none", "moved", "EIO", "EWOULDBLOCK", "closed"}
      /\ irq_enable' \in SUBSET {"RE", "WE"}
      /\ CallInRange'
  <2>1. /\ timeout \in 1 .. INT_MAX /\ pc \in {"idle", "close"} \cup WriteLabels \cup ReadLabels
        /\ count \in 0 .. MaxCount /\ done \in 0 .. MaxCount
        /\ in \in Slots /\ out \in Slots /\ 0 \in Slots
        /\ ret \in {"none", "moved", "EIO", "EWOULDBLOCK", "closed"}
        /\ irq_enable \in SUBSET {"RE", "WE"}
        /\ tx_in \in Slots /\ tx_out \in Slots /\ rx_in \in Slots /\ rx_out \in Slots
        /\ CallInRange
    BY DEF JtagUartTypeOK, Slots
  <2>8. nonblock \in BOOLEAN
    BY DEF JtagUartTypeOK
  <2> HIDE DEF FastInv
  <2> USE DEF WriteLabels, ReadLabels
  <2>2. CASE WriteCall \/ ReadCall
    <3>1. /\ pc = "idle" /\ pc' \in {"w_load", "r_load"} /\ ret' = "none"
          /\ count' \in 1 .. MaxCount
          /\ UNCHANGED << irq_enable, timeout, done, in, out >>
      BY <2>2 DEF WriteCall, ReadCall, Running, Goto, activity
    <3>2. nonblock' \in BOOLEAN
      BY <2>2 DEF WriteCall, ReadCall
    <3>3. CallInRange' /\ count' \in 0 .. MaxCount /\ done' \in 0 .. MaxCount
      <4>1. done' = 0
        BY <2>1, <3>1 DEF CallInRange
      <4>2. PICK c \in 1 .. MaxCount : count' = c
        BY <3>1
      <4>3. pc' \notin {"idle", "close"}
        BY <3>1
      <4> QED
        BY <4>1, <4>2, <4>3 DEF CallInRange
    <3>4. pc' \in {"idle", "close"} \cup WriteLabels \cup ReadLabels
      BY <3>1
    <3> QED
      BY <2>1, <3>1, <3>2, <3>3, <3>4
  <2>3. CASE CloseCall
    BY <2>1, <2>3, <2>8 DEF CloseCall, Running, Goto, activity, CallInRange
  <2>4. CASE SetTimeout
    <3>1. timeout' \in 1 .. INT_MAX /\ UNCHANGED << call, irq_enable >>
      BY <2>4 DEF SetTimeout
    <3> QED
      BY <2>1, <2>8, <3>1 DEF call, CallInRange
  <2>5. CASE WriteLoad \/ WriteWait \/ WriteCheck \/ WriteKick \/ ReadEnable
    <3>1. /\ UNCHANGED << timeout, nonblock, count, done, ret >>
          /\ irq_enable' \in SUBSET {"RE", "WE"} /\ in' \in Slots /\ out' \in Slots
      BY <2>1, <2>5 DEF WriteLoad, WriteWait, WriteCheck, WriteKick, ReadEnable, activity
    <3>2. /\ pc' \in {"w_load", "w_copy", "w_check", "w_wait", "w_return", "r_return"}
          /\ pc' = "w_copy" => count > 0
      BY <2>1, <2>5 DEF WriteLoad, WriteWait, WriteCheck, WriteKick, ReadEnable, Goto
    <3> QED
      BY <2>1, <2>8, <3>1, <3>2 DEF CallInRange
  <2>6. CASE ReadLoad \/ ReadEmpty \/ ReadWait \/ ReadCheck
    <3>1. /\ UNCHANGED << timeout, nonblock, count, done, ret, irq_enable >>
          /\ in' \in Slots /\ out' \in Slots
      BY <2>1, <2>6 DEF ReadLoad, ReadEmpty, ReadWait, ReadCheck, activity
    <3>2. /\ pc' \in {"r_load", "r_copy", "r_enable", "r_return", "r_wait", "r_check"}
          /\ pc \in {"r_load", "r_copy", "r_wait", "r_check"}
      BY <2>1, <2>6 DEF ReadLoad, ReadEmpty, ReadWait, ReadCheck, Goto, Running
    <3> QED
      BY <2>1, <2>8, <3>1, <3>2 DEF CallInRange
  <2>7. CASE WriteReturn \/ ReadReturn \/ CloseReturn
    <3>1. EndCall /\ pc' = "idle" /\ UNCHANGED << timeout, irq_enable >>
      BY <2>7 DEF WriteReturn, ReadReturn, CloseReturn, activity, Goto
    <3>2. ret' \in {"moved", "EIO", "EWOULDBLOCK", "closed"}
      BY <2>7 DEF WriteReturn, ReadReturn, CloseReturn, Result
    <3>3. count' = 0 /\ done' = 0 /\ in' = 0 /\ out' = 0
      BY <3>1 DEF EndCall
    <3>4. nonblock' \in BOOLEAN
      BY <3>1 DEF EndCall
    <3>5. CallInRange' /\ count' \in 0 .. MaxCount /\ done' \in 0 .. MaxCount
      BY <3>1, <3>3 DEF CallInRange
    <3> QED
      BY <2>1, <3>1, <3>2, <3>3, <3>4, <3>5
  <2> QED
    BY <2>2, <2>3, <2>4, <2>5, <2>6, <2>7 DEF CallOnly
<1>4. JtagUartTypeOK'
  BY <1>2, <1>3 DEF JtagUartTypeOK
<1>5. SpaceKept'
  BY <1>2 DEF SpaceKept
<1>6. TxInOrder' /\ RxInOrder'
  BY <1>1, <1>2, StreamsUnchanged
<1>7. PointersSafe'
  <2>1. tx_in' = tx_in /\ tx_out' = tx_out /\ rx_in' = rx_in /\ rx_out' = rx_out
    BY <1>2
  <2>2. Size(tx_out, tx_in) \in Nat /\ Size(rx_out, rx_in) \in Nat
    BY RingArithmetic DEF JtagUartTypeOK
  <2>3. pc' = "w_copy" =>
          \/ in' = tx_in /\ out' = tx_out
          \/ pc = "w_copy" /\ in' = in /\ out' = out
    BY DEF CallOnly, WriteCall, ReadCall, CloseCall, SetTimeout, WriteLoad, WriteKick, WriteWait,
           WriteCheck, WriteReturn, ReadLoad, ReadEmpty, ReadWait, ReadCheck, ReadEnable,
           ReadReturn, CloseReturn, Goto, Running, call
  <2>4. pc' = "r_copy" =>
          \/ in' = rx_in /\ out' = rx_out
          \/ pc = "r_copy" /\ in' = in /\ out' = out
    BY DEF CallOnly, WriteCall, ReadCall, CloseCall, SetTimeout, WriteLoad, WriteKick, WriteWait,
           WriteCheck, WriteReturn, ReadLoad, ReadEmpty, ReadWait, ReadCheck, ReadEnable,
           ReadReturn, CloseReturn, Goto, Running, call
  <2> QED
    BY <2>1, <2>2, <2>3, <2>4 DEF PointersSafe, Size
<1>8. TxNotStalled'
  <2>1. "WE" \in irq_enable => "WE" \in irq_enable'
    BY DEF CallOnly, WriteCall, ReadCall, CloseCall, SetTimeout, WriteLoad, WriteKick, WriteWait,
           WriteCheck, WriteReturn, ReadLoad, ReadEmpty, ReadWait, ReadCheck, ReadEnable,
           ReadReturn, CloseReturn
  <2>2. pc \in {"w_load", "w_copy"} => pc' \in {"w_load", "w_copy"} \/ "WE" \in irq_enable'
    BY DEF CallOnly, WriteCall, ReadCall, CloseCall, SetTimeout, WriteLoad, WriteKick, WriteWait,
           WriteCheck, WriteReturn, ReadLoad, ReadEmpty, ReadWait, ReadCheck, ReadEnable,
           ReadReturn, CloseReturn, Goto, Running, call
  <2> QED
    BY <1>2, <2>1, <2>2 DEF TxNotStalled
<1>9. RxNotStalled'
  <2>1. "RE" \in irq_enable => "RE" \in irq_enable'
    BY DEF CallOnly, WriteCall, ReadCall, CloseCall, SetTimeout, WriteLoad, WriteKick, WriteWait,
           WriteCheck, WriteReturn, ReadLoad, ReadEmpty, ReadWait, ReadCheck, ReadEnable,
           ReadReturn, CloseReturn
  <2>2. pc \in {"r_load", "r_copy", "r_enable"} /\ done > 0 =>
          (pc' \in {"r_load", "r_copy", "r_enable"} /\ done' > 0) \/ "RE" \in irq_enable'
    BY DEF CallOnly, WriteCall, ReadCall, CloseCall, SetTimeout, WriteLoad, WriteKick, WriteWait,
           WriteCheck, WriteReturn, ReadLoad, ReadEmpty, ReadWait, ReadCheck, ReadEnable,
           ReadReturn, CloseReturn, Goto, Running, call
  <2> QED
    BY <1>2, <2>1, <2>2 DEF RxNotStalled
<1> QED
  BY <1>3, <1>4, <1>5, <1>6, <1>7, <1>8, <1>9

\* What the invariants say of the next state.
LEMMA PrimedParts ==
    /\ TxInOrder' <=>
          /\ hwTx' = Run(received', received' + Len(hwTx'))
          /\ Holds(tx_buf', tx_out', tx_in', received' + Len(hwTx'))
          /\ written' = received' + Len(hwTx') + Size(tx_out', tx_in')
    /\ RxInOrder' <=>
          /\ Holds(rx_buf', rx_out', rx_in', delivered')
          /\ hwRx' = Run(delivered' + Size(rx_out', rx_in'), given')
          /\ given' = delivered' + Size(rx_out', rx_in') + Len(hwRx')
          /\ Len(hwRx') <= FIFO_DEPTH
    /\ PointersSafe' <=>
          /\ pc' = "w_copy" => in' = tx_in' /\ Size(tx_out', tx_in') <= Size(out', tx_in')
          /\ pc' = "r_copy" => out' = rx_out' /\ Size(rx_out', in') <= Size(rx_out', rx_in')
BY DEF TxInOrder, RxInOrder, PointersSafe, Holds, Run, Size, At

\* One direction is in order if what holds its bytes does not change.
LEMMA OneUnchanged ==
    /\ TxInOrder /\ UNCHANGED << txRing, hwTx, txStream >> => TxInOrder'
    /\ RxInOrder /\ UNCHANGED << rxRing, hwRx, rxStream >> => RxInOrder'
BY DEF TxInOrder, RxInOrder, txRing, rxRing, txStream, rxStream, Holds, Run, Size, At

\* The types of what is on its way.
LEMMA StreamTypes ==
    ASSUME JtagUartTypeOK
    PROVE  /\ tx_in \in Slots /\ tx_out \in Slots /\ rx_in \in Slots /\ rx_out \in Slots
           /\ in \in Slots /\ out \in Slots
           /\ Size(tx_out, tx_in) \in Nat /\ Size(tx_out, tx_in) < BUF_LEN
           /\ Size(rx_out, rx_in) \in Nat /\ Size(rx_out, rx_in) < BUF_LEN
           /\ Size(out, tx_in) \in Nat /\ Size(rx_out, in) \in Nat
           /\ hwTx \in Seq(Nat) /\ Len(hwTx) \in Nat /\ hwRx \in Seq(Nat) /\ Len(hwRx) \in Nat
           /\ written \in Nat /\ received \in Nat /\ given \in Nat /\ delivered \in Nat
           /\ received + Len(hwTx) \in Nat
           /\ count \in Nat /\ done \in Nat
           /\ tx_in = tx_out <=> Size(tx_out, tx_in) = 0
           /\ rx_in = rx_out <=> Size(rx_out, rx_in) = 0
<1>1. /\ tx_in \in Slots /\ tx_out \in Slots /\ rx_in \in Slots /\ rx_out \in Slots
      /\ in \in Slots /\ out \in Slots
      /\ hwTx \in Seq(Nat) /\ hwRx \in Seq(Nat)
      /\ written \in Nat /\ received \in Nat /\ given \in Nat /\ delivered \in Nat
      /\ count \in Nat /\ done \in Nat
  BY UartSizes DEF JtagUartTypeOK
<1>2. ASSUME NEW s \in Slots, NEW t \in Slots
      PROVE  Size(s, t) \in Nat /\ Size(s, t) < BUF_LEN /\ (t = s <=> Size(s, t) = 0)
  <2>1. /\ s \in Nat /\ s < BUF_LEN /\ t \in Nat /\ t < BUF_LEN /\ BUF_LEN \in Nat
        /\ Size(s, t) = IF s <= t THEN t - s ELSE t + BUF_LEN - s
    BY RingArithmetic
  <2> QED
    BY <2>1
<1>3. /\ Size(tx_out, tx_in) \in Nat /\ Size(tx_out, tx_in) < BUF_LEN
      /\ Size(rx_out, rx_in) \in Nat /\ Size(rx_out, rx_in) < BUF_LEN
      /\ tx_in = tx_out <=> Size(tx_out, tx_in) = 0
      /\ rx_in = rx_out <=> Size(rx_out, rx_in) = 0
  BY <1>1, <1>2
<1>4. Size(out, tx_in) \in Nat /\ Size(rx_out, in) \in Nat
  BY <1>1, RingArithmetic
<1> QED
  BY <1>1, <1>3, <1>4

\* One memcpy into the transmit ring: the room the call saw is still free.
LEMMA FastInvWriteCopy ==
    ASSUME FastInv, WriteCopy
    PROVE  FastInv' /\ \E n \in 1 .. BUF_LEN : written' = written + n
<1>1. /\ JtagUartTypeOK /\ CallInRange /\ PointersSafe /\ SpaceKept /\ TxNotStalled /\ RxNotStalled
      /\ TxInOrder /\ RxInOrder /\ pc = "w_copy" /\ FreeRun > 0
  BY DEF FastInv, WriteCopy, Running
<1>t. /\ tx_in \in Slots /\ tx_out \in Slots /\ in \in Slots /\ out \in Slots
      /\ Size(tx_out, tx_in) \in Nat /\ Size(out, tx_in) \in Nat
      /\ count \in Nat /\ done \in Nat /\ Len(hwTx) \in Nat
      /\ written \in Nat /\ received \in Nat /\ received + Len(hwTx) \in Nat
  BY <1>1, StreamTypes
<1>c. /\ MaxCount \in Nat /\ BUF_LEN \in Nat /\ BUF_LEN >= 2
  BY UartSizes
<1>2. PICK n : n = IF FreeRun > count THEN count ELSE FreeRun
  OBVIOUS
<1>3. /\ in = tx_in /\ Size(tx_out, tx_in) <= Size(out, tx_in) /\ count > 0
      /\ count + done <= MaxCount
  BY <1>1 DEF PointersSafe, CallInRange
<1>4. FreeRun \in Nat /\ in + FreeRun <= BUF_LEN /\ Size(out, in) + FreeRun < BUF_LEN
  BY <1>1, StreamTypes, FreeRunFits
<1>5. /\ n \in Nat /\ n >= 1 /\ n <= count /\ tx_in + n <= BUF_LEN /\ tx_in \in Nat
      /\ Size(tx_out, tx_in) + n < BUF_LEN /\ n <= BUF_LEN
  <2>1. n \in Nat /\ n >= 1 /\ n <= count /\ n <= FreeRun
    BY <1>1, <1>2, <1>3, <1>4, <1>t
  <2>2. tx_in \in Nat
    BY <1>1, StreamTypes DEF Slots
  <2> QED
    BY <1>1, <1>3, <1>4, <2>1, <2>2, <1>t, <1>c
<1>6. /\ tx_buf' = [s \in Slots |-> IF s \in in .. in + n - 1 THEN written + 1 + (s - in)
                                    ELSE tx_buf[s]]
      /\ tx_in' = At(tx_in, n)
      /\ count' = count - n /\ done' = done + n /\ written' = written + n /\ pc' = "w_load"
      /\ UNCHANGED << tx_out, rxRing, irq_enable, activity, nonblock, in, out, ret,
                      handler, device, received, rxStream >>
  BY <1>2, <1>3 DEF WriteCopy, Goto, At
<1>7. UNCHANGED << tx_out, rx_buf, rx_in, rx_out, irq_enable, host_inactive, timeout, nonblock, in,
                   out, ret, isr, ctl, data_avail, hwTx, hwRx, ac, connected, received, given,
                   delivered >>
  BY <1>6 DEF rxRing, activity, handler, device, rxStream
<1> DEFINE d == received + Len(hwTx)
<1>8. \A s \in Slots : tx_buf'[s] = IF s \in tx_in .. tx_in + n - 1
                                    THEN d + Size(tx_out, tx_in) + 1 + (s - tx_in) ELSE tx_buf[s]
  BY <1>1, <1>3, <1>6 DEF TxInOrder
<1>9. /\ d \in Nat /\ Holds(tx_buf, tx_out, tx_in, d) /\ written = d + Size(tx_out, tx_in)
      /\ tx_in \in Slots /\ tx_out \in Slots
  BY <1>1, StreamTypes DEF TxInOrder
<1>10. /\ At(tx_in, n) \in Slots
       /\ Size(tx_out, At(tx_in, n)) = Size(tx_out, tx_in) + n
       /\ Holds(tx_buf', tx_out, At(tx_in, n), d)
  <2> HIDE DEF d
  <2> QED
    BY <1>5, <1>8, <1>9, RingAdds
<1>11. TxInOrder'
  <2>1. written' = d + Size(tx_out', tx_in')
    BY <1>5, <1>6, <1>7, <1>9, <1>10, <1>t
  <2>2. received' + Len(hwTx') = d /\ Holds(tx_buf', tx_out', tx_in', d)
    BY <1>6, <1>7, <1>10
  <2>3. hwTx' = Run(received', d)
    BY <1>1, <1>7 DEF TxInOrder
  <2> HIDE DEF d
  <2> QED
    BY <2>1, <2>2, <2>3, PrimedParts
<1>12. RxInOrder'
  BY <1>1, <1>6, <1>7, OneUnchanged
<1>13. count' \in 0 .. MaxCount /\ done' \in 0 .. MaxCount /\ CallInRange'
  <2>1. PICK c \in Nat : c = count - n
    BY <1>1, <1>5, <1>t
  <2>2. PICK e \in Nat : e = done + n
    BY <1>1, <1>5, <1>t
  <2>3. c + e <= MaxCount
    BY <1>1, <1>3, <1>5, <2>1, <2>2, <1>t, <1>c
  <2>4. count' = c /\ done' = e /\ pc' = "w_load"
    BY <1>6, <2>1, <2>2
  <2> QED
    BY <2>3, <2>4, UartSizes DEF CallInRange
<1>18. tx_buf \in [Slots -> Nat]
  BY <1>1 DEF JtagUartTypeOK
<1>14. tx_buf' \in [Slots -> Nat] /\ tx_in' \in Slots /\ written' \in Nat
  <2>1. ASSUME NEW s \in Slots
        PROVE  (IF s \in in .. in + n - 1 THEN written + 1 + (s - in) ELSE tx_buf[s]) \in Nat
    BY <1>3, <1>5, <1>t, <1>c, <1>18
  <2>2. written + n \in Nat
    BY <1>1, <1>5, <1>t
  <2> QED
    BY <1>6, <1>10, <2>1, <2>2
<1>15. JtagUartTypeOK'
  BY <1>1, <1>6, <1>7, <1>13, <1>14 DEF JtagUartTypeOK, WriteLabels, ReadLabels
<1>16. SpaceKept' /\ PointersSafe' /\ TxNotStalled' /\ RxNotStalled'
  <2>1. PointersSafe'
    BY <1>6, PrimedParts
  <2>2. SpaceKept'
    BY <1>1, <1>7 DEF SpaceKept
  <2>3. TxNotStalled'
    BY <1>6 DEF TxNotStalled
  <2>4. RxNotStalled'
    BY <1>1, <1>7 DEF RxNotStalled
  <2> QED
    BY <2>1, <2>2, <2>3, <2>4
<1>17. n \in 1 .. BUF_LEN
  BY <1>5, UartSizes
<1> QED
  BY <1>6, <1>11, <1>12, <1>13, <1>15, <1>16, <1>17 DEF FastInv

\* One memcpy out of the receive ring: the bytes the call saw are still there.
LEMMA FastInvReadCopy ==
    ASSUME FastInv, ReadCopy
    PROVE  FastInv' /\ \E n \in 1 .. BUF_LEN : delivered' = delivered + n
<1>1. /\ JtagUartTypeOK /\ CallInRange /\ PointersSafe /\ SpaceKept /\ TxNotStalled /\ RxNotStalled
      /\ TxInOrder /\ RxInOrder /\ pc = "r_copy" /\ FilledRun > 0
  BY DEF FastInv, ReadCopy, Running
<1>2. PICK n : n = IF FilledRun > count THEN count ELSE FilledRun
  OBVIOUS
<1>3. /\ out = rx_out /\ Size(rx_out, in) <= Size(rx_out, rx_in) /\ count > 0
      /\ count + done <= MaxCount
  BY <1>1 DEF PointersSafe, CallInRange
<1>4. /\ rx_in \in Slots /\ rx_out \in Slots /\ in \in Slots /\ out \in Slots
      /\ Size(rx_out, rx_in) \in Nat /\ Size(rx_out, rx_in) < BUF_LEN /\ Size(rx_out, in) \in Nat
      /\ count \in Nat /\ done \in Nat /\ Len(hwRx) \in Nat /\ delivered \in Nat /\ given \in Nat
  BY <1>1, StreamTypes
<1>5. MaxCount \in Nat /\ BUF_LEN \in Nat /\ BUF_LEN >= 2
  BY UartSizes
<1>6. FilledRun \in Nat /\ FilledRun <= Size(rx_out, in)
  BY <1>3, <1>4, FilledRunFits
<1>7. n \in Nat /\ n >= 1 /\ n <= count /\ n <= Size(rx_out, rx_in) /\ n <= BUF_LEN
  <2>1. n \in Nat /\ n >= 1 /\ n <= count /\ n <= FilledRun
    BY <1>1, <1>2, <1>3, <1>4, <1>6
  <2> QED
    BY <1>3, <1>4, <1>5, <1>6, <2>1
<1>8. /\ rx_out' = At(rx_out, n)
      /\ count' = count - n /\ done' = done + n /\ delivered' = delivered + n
      /\ pc' = IF count = n THEN "r_enable" ELSE "r_load"
      /\ UNCHANGED << txRing, rx_buf, rx_in, irq_enable, activity, nonblock, in, out, ret,
                      handler, device, txStream, given >>
  BY <1>2, <1>3 DEF ReadCopy, Goto, At
<1>9. UNCHANGED << tx_buf, tx_in, tx_out, rx_buf, rx_in, irq_enable, host_inactive, timeout, nonblock,
                   in, out, ret, isr, ctl, data_avail, hwTx, hwRx, ac, connected, received, written,
                   given >>
  BY <1>8 DEF txRing, activity, handler, device, txStream
<1>10. /\ At(rx_out, n) \in Slots
       /\ Size(At(rx_out, n), rx_in) = Size(rx_out, rx_in) - n
       /\ Holds(rx_buf, At(rx_out, n), rx_in, delivered + n)
  <2>1. n \in 0 .. Size(rx_out, rx_in) /\ Holds(rx_buf, rx_out, rx_in, delivered)
    BY <1>1, <1>4, <1>7 DEF RxInOrder
  <2> QED
    BY <1>4, <2>1, RingTakes
<1>11. RxInOrder'
  <2>1. PICK m \in Nat : m = Size(rx_out, rx_in) - n
    BY <1>4, <1>7
  <2>2. /\ Holds(rx_buf', rx_out', rx_in', delivered') /\ Size(rx_out', rx_in') = m
        /\ delivered' = delivered + n
    BY <1>8, <1>9, <1>10, <2>1
  <2>3. (delivered + n) + m = delivered + Size(rx_out, rx_in)
    BY <1>4, <1>7, <2>1
  <2>4. /\ hwRx = Run((delivered + n) + m, given)
        /\ given = (delivered + n) + m + Len(hwRx) /\ Len(hwRx) <= FIFO_DEPTH
    BY <1>1, <2>3 DEF RxInOrder
  <2> QED
    BY <1>9, <2>2, <2>4, PrimedParts
<1>12. TxInOrder'
  BY <1>1, <1>8, <1>9, OneUnchanged
<1>13. /\ count' \in 0 .. MaxCount /\ done' \in 0 .. MaxCount /\ done' > 0 /\ CallInRange'
  <2>1. PICK c \in Nat : c = count - n
    BY <1>4, <1>7
  <2>2. PICK e \in Nat : e = done + n
    BY <1>4, <1>7
  <2>3. c + e <= MaxCount /\ e > 0 /\ (pc' = "r_load" => c > 0)
    BY <1>3, <1>4, <1>5, <1>7, <1>8, <2>1, <2>2
  <2>4. count' = c /\ done' = e /\ pc' \in {"r_enable", "r_load"}
    BY <1>8, <2>1, <2>2
  <2> QED
    BY <1>5, <2>3, <2>4 DEF CallInRange
<1>14. rx_out' \in Slots /\ delivered' \in Nat
  <2>1. delivered + n \in Nat
    BY <1>4, <1>7
  <2> QED
    BY <1>8, <1>10, <2>1
<1>15. JtagUartTypeOK'
  BY <1>1, <1>8, <1>9, <1>13, <1>14 DEF JtagUartTypeOK, WriteLabels, ReadLabels
<1>16. SpaceKept' /\ PointersSafe' /\ TxNotStalled' /\ RxNotStalled'
  <2>1. PointersSafe'
    BY <1>8, PrimedParts
  <2>2. SpaceKept'
    BY <1>1, <1>9 DEF SpaceKept
  <2>3. TxNotStalled'
    BY <1>1, <1>8, <1>9 DEF TxNotStalled
  <2>4. RxNotStalled'
    BY <1>8, <1>13 DEF RxNotStalled
  <2> QED
    BY <2>1, <2>2, <2>3, <2>4
<1>17. n \in 1 .. BUF_LEN
  BY <1>5, <1>7
<1> QED
  BY <1>8, <1>11, <1>12, <1>13, <1>15, <1>16, <1>17 DEF FastInv

\* The steps of the handlers and the host that move no byte.
HandlerOnly ==
    IsrEnter \/ IsrPoll \/ IsrReceiveEnd \/ IsrTransmitEnd \/ Timeout \/ HostPoll \/ HostPlug

\* They keep the invariant: an interrupt goes off only where nothing is left to do.
LEMMA FastInvHandlerOnly ==
    ASSUME FastInv, HandlerOnly
    PROVE  FastInv'
<1>1. /\ JtagUartTypeOK /\ CallInRange /\ PointersSafe /\ SpaceKept /\ TxNotStalled /\ RxNotStalled
      /\ TxInOrder /\ RxInOrder
  BY DEF FastInv
<1>2. UNCHANGED << txRing, rxRing, timeout, call, hwTx, hwRx, txStream, rxStream >>
  BY DEF HandlerOnly, IsrEnter, IsrPoll, IsrReceiveEnd, IsrTransmitEnd, Timeout, HostPoll, HostPlug,
         activity, device
<1>3. UNCHANGED << tx_buf, tx_in, tx_out, rx_buf, rx_in, rx_out, timeout, pc, nonblock, count, done,
                   in, out, ret, hwTx, hwRx, written, received, given, delivered >>
  BY <1>2 DEF txRing, rxRing, call, txStream, rxStream
<1>4. /\ irq_enable \in SUBSET {"RE", "WE"} /\ host_inactive \in 0 .. INT_MAX
      /\ isr \in {"off", "poll", "rx", "tx"} /\ Len(hwTx) \in Nat
      /\ Len(hwTx) <= FIFO_DEPTH
  BY <1>1, StreamTypes DEF JtagUartTypeOK, SpaceKept
<1>5. /\ ctl \in [ri : BOOLEAN, wi : BOOLEAN, space : 0 .. FIFO_DEPTH]
      /\ data_avail \in BOOLEAN /\ ac \in BOOLEAN /\ connected \in BOOLEAN
  BY <1>1 DEF JtagUartTypeOK
<1>6. irq_enable' \in SUBSET {"RE", "WE"} /\ host_inactive' \in 0 .. INT_MAX
  <2>1. irq_enable' \in SUBSET {"RE", "WE"}
    BY <1>4 DEF HandlerOnly, IsrEnter, IsrPoll, IsrReceiveEnd, IsrTransmitEnd, Timeout, HostPoll,
                HostPlug
  <2>2. host_inactive' \in 0 .. INT_MAX
    <3>1. \/ host_inactive' = host_inactive \/ host_inactive' = 0
          \/ host_inactive + 2 < INT_MAX /\ host_inactive' = host_inactive + 1
      BY DEF HandlerOnly, IsrEnter, IsrPoll, IsrReceiveEnd, IsrTransmitEnd, Timeout, HostPoll,
             HostPlug, activity
    <3>2. INT_MAX \in Nat
      BY UartSizes
    <3> QED
      BY <1>4, <3>1, <3>2
  <2> QED
    BY <2>1, <2>2
<1>7. /\ isr' \in {"off", "poll", "rx", "tx"}
      /\ ctl' \in [ri : BOOLEAN, wi : BOOLEAN, space : 0 .. FIFO_DEPTH]
      /\ isr' \in {"rx", "tx"} => ctl'.space <= FIFO_DEPTH - Len(hwTx)
  <2>1. CASE IsrPoll
    <3>1. WSPACE \in 0 .. FIFO_DEPTH /\ WSPACE = FIFO_DEPTH - Len(hwTx)
      BY <1>4, UartSizes DEF WSPACE
    <3>2. /\ ctl' = [ri |-> RI, wi |-> WI, space |-> WSPACE]
          /\ isr' \in {"rx", "tx", "off"}
      BY <2>1 DEF IsrPoll
    <3>3. RI \in BOOLEAN /\ WI \in BOOLEAN
      BY DEF RI, WI
    <3>4. ctl'.space = WSPACE
      BY <3>2
    <3>5. ctl' \in [ri : BOOLEAN, wi : BOOLEAN, space : 0 .. FIFO_DEPTH]
      BY <3>1, <3>2, <3>3, Zenon
    <3>6. isr' \in {"off", "poll", "rx", "tx"}
      BY <3>2
    <3>7. ctl'.space <= FIFO_DEPTH - Len(hwTx)
      BY <1>4, <3>1, <3>4, UartSizes
    <3> QED
      BY <3>5, <3>6, <3>7
  <2>2. CASE ~IsrPoll
    <3>1. ctl' = ctl /\ isr' \in {"off", "poll", "rx", "tx"}
          /\ (isr' \in {"rx", "tx"} => isr \in {"rx", "tx"})
      BY <1>4, <2>2 DEF HandlerOnly, IsrEnter, IsrReceiveEnd, IsrTransmitEnd, Timeout, HostPoll,
                        HostPlug, handler
    <3> QED
      BY <1>1, <1>5, <3>1 DEF SpaceKept
  <2> QED
    BY <2>1, <2>2
<1>8. data_avail' \in BOOLEAN /\ ac' \in BOOLEAN /\ connected' \in BOOLEAN
  BY <1>5 DEF HandlerOnly, IsrEnter, IsrPoll, IsrReceiveEnd, IsrTransmitEnd, Timeout, HostPoll,
              HostPlug, handler, device
<1>9. JtagUartTypeOK'
  BY <1>1, <1>3, <1>6, <1>7, <1>8 DEF JtagUartTypeOK
<1>10. CallInRange' /\ SpaceKept'
  BY <1>1, <1>3, <1>4, <1>7 DEF CallInRange, SpaceKept
<1>11. PointersSafe'
  BY <1>1, <1>3 DEF PointersSafe, Size
<1>12. TxInOrder' /\ RxInOrder'
  BY <1>1, <1>2, StreamsUnchanged
<1>13. TxNotStalled'
  <2>1. tx_in # tx_out /\ "WE" \in irq_enable => "WE" \in irq_enable'
    <3>1. ASSUME IsrTransmitEnd, tx_in # tx_out
          PROVE  irq_enable' = irq_enable
      BY <1>1, <3>1 DEF IsrTransmitEnd, JtagUartTypeOK
    <3> QED
      BY <3>1 DEF HandlerOnly, IsrEnter, IsrPoll, IsrReceiveEnd, Timeout, HostPoll, HostPlug
  <2> QED
    BY <1>1, <1>3, <2>1 DEF TxNotStalled
<1>14. RxNotStalled'
  <2>1. ASSUME IsrReceiveEnd, irq_enable' # irq_enable
        PROVE  rx_in # rx_out
    <3>1. RxFull
      BY <2>1 DEF IsrReceiveEnd
    <3>2. rx_in \in Slots /\ rx_in \in Nat /\ rx_in < BUF_LEN /\ BUF_LEN \in Nat /\ BUF_LEN >= 2
      BY <1>1, RingArithmetic, StreamTypes
    <3>3. At(rx_in, 1) = IF rx_in + 1 < BUF_LEN THEN rx_in + 1 ELSE rx_in + 1 - BUF_LEN
      BY <3>2, RingArithmetic
    <3>4. At(rx_in, 1) # rx_in
      BY <3>2, <3>3
    <3> QED
      BY <3>1, <3>4 DEF RxFull, At
  <2>2. "RE" \in irq_enable => "RE" \in irq_enable' \/ rx_in # rx_out
    BY <2>1 DEF HandlerOnly, IsrEnter, IsrPoll, IsrTransmitEnd, Timeout, HostPoll, HostPlug
  <2> QED
    BY <1>1, <1>3, <2>2 DEF RxNotStalled
<1> QED
  BY <1>9, <1>10, <1>11, <1>12, <1>13, <1>14 DEF FastInv

\* The handler takes a byte from the device: the ring has a slot for it.
LEMMA FastInvIsrReceive ==
    ASSUME FastInv, IsrReceive
    PROVE  FastInv' /\ UNCHANGED << hwTx, txRing, txStream, rxStream >>
<1>1. /\ JtagUartTypeOK /\ CallInRange /\ PointersSafe /\ SpaceKept /\ TxNotStalled /\ RxNotStalled
      /\ TxInOrder /\ RxInOrder /\ ~RxFull /\ hwRx # << >>
  BY DEF FastInv, IsrReceive
<1>2. /\ rx_buf' = [rx_buf EXCEPT ![rx_in] = Head(hwRx)]
      /\ rx_in' = At(rx_in, 1) /\ hwRx' = Tail(hwRx) /\ data_avail' \in BOOLEAN
      /\ UNCHANGED << txRing, rx_out, irq_enable, activity, call, isr, ctl, hwTx, ac,
                      connected, txStream, rxStream >>
  BY DEF IsrReceive, At
<1>3. UNCHANGED << tx_buf, tx_in, tx_out, rx_out, irq_enable, host_inactive, timeout, pc, nonblock,
                   count, done, in, out, ret, isr, ctl, hwTx, ac, connected, received, written,
                   given, delivered >>
  BY <1>2 DEF txRing, activity, call, txStream, rxStream
<1>4. /\ rx_in \in Slots /\ rx_out \in Slots /\ in \in Slots
      /\ Size(rx_out, rx_in) \in Nat /\ Size(rx_out, rx_in) < BUF_LEN
      /\ Len(hwRx) \in Nat /\ delivered \in Nat /\ given \in Nat
      /\ rx_buf \in [Slots -> Nat]
  BY <1>1, StreamTypes DEF JtagUartTypeOK
<1>5. /\ rx_in \in Nat /\ rx_out \in Nat /\ rx_in < BUF_LEN /\ rx_out < BUF_LEN
      /\ BUF_LEN \in Nat /\ BUF_LEN >= 2
      /\ Size(rx_out, rx_in) = IF rx_out <= rx_in THEN rx_in - rx_out ELSE rx_in + BUF_LEN - rx_out
      /\ At(rx_in, 1) = IF rx_in + 1 < BUF_LEN THEN rx_in + 1 ELSE rx_in + 1 - BUF_LEN
  BY <1>4, RingArithmetic
<1>6. Size(rx_out, rx_in) + 1 < BUF_LEN /\ rx_in + 1 <= BUF_LEN
  <2>1. At(rx_in, 1) # rx_out
    BY <1>1 DEF RxFull, At
  <2> QED
    BY <1>4, <1>5, <2>1
<1>7. PICK d : d = delivered + Size(rx_out, rx_in)
  OBVIOUS
<1>8. /\ d \in Nat /\ hwRx = Run(d, given) /\ given = d + Len(hwRx) /\ Len(hwRx) <= FIFO_DEPTH
      /\ Holds(rx_buf, rx_out, rx_in, delivered)
  BY <1>1, <1>4, <1>7 DEF RxInOrder
<1>9. d < given /\ Head(hwRx) = d + 1 /\ Tail(hwRx) = Run(d + 1, given)
  <2>1. d <= given
    BY <1>4, <1>8
  <2>2. hwRx = << >> <=> given = d
    BY <1>4, <1>8, <2>1, RunEnds
  <2>3. d < given
    BY <1>1, <1>4, <1>8, <2>1, <2>2
  <2> QED
    BY <1>4, <1>8, <2>1, <2>3, RunEnds
<1>10. \A s \in Slots : rx_buf'[s] = IF s \in rx_in .. rx_in + 1 - 1
                                     THEN delivered + Size(rx_out, rx_in) + 1 + (s - rx_in)
                                     ELSE rx_buf[s]
  <2>1. ASSUME NEW s \in Slots
        PROVE  s \in rx_in .. rx_in + 1 - 1 <=> s = rx_in
    BY <1>5 DEF Slots
  <2>2. rx_buf'[rx_in] = delivered + Size(rx_out, rx_in) + 1 + (rx_in - rx_in)
    BY <1>2, <1>4, <1>5, <1>7, <1>8, <1>9
  <2>3. \A s \in Slots : s # rx_in => rx_buf'[s] = rx_buf[s]
    BY <1>2, <1>4
  <2> QED
    BY <2>1, <2>2, <2>3
<1>11. /\ At(rx_in, 1) \in Slots
       /\ Size(rx_out, At(rx_in, 1)) = Size(rx_out, rx_in) + 1
       /\ Holds(rx_buf', rx_out, At(rx_in, 1), delivered)
  BY <1>4, <1>6, <1>8, <1>10, RingAdds
<1>12. RxInOrder'
  <2>1. Holds(rx_buf', rx_out', rx_in', delivered')
    BY <1>2, <1>3, <1>11
  <2>2. delivered' + Size(rx_out', rx_in') = d + 1
    BY <1>2, <1>3, <1>4, <1>7, <1>11
  <2>3. Len(Run(d + 1, given)) = given - (d + 1)
    <3>1. d + 1 \in Nat /\ d + 1 <= given
      BY <1>4, <1>8, <1>9
    <3> QED
      BY <1>4, <3>1, RunElements, Zenon
  <2>4. hwRx' = Run(d + 1, given') /\ Len(hwRx') = given - (d + 1) /\ given' = given
    BY <1>2, <1>3, <1>9, <2>3
  <2>5. given = d + 1 + (given - (d + 1)) /\ given - (d + 1) <= FIFO_DEPTH
    BY <1>4, <1>8, <1>9, UartSizes
  <2> QED
    BY <2>1, <2>2, <2>4, <2>5, PrimedParts
<1>13. TxInOrder'
  BY <1>1, <1>2, <1>3, OneUnchanged
<1>14. rx_in' \in Slots /\ rx_buf' \in [Slots -> Nat] /\ hwRx' \in Seq(Nat)
  <2>1. Head(hwRx) \in Nat /\ Tail(hwRx) \in Seq(Nat)
    <3>1. hwRx \in Seq(Nat) /\ hwRx # << >>
      BY <1>1, StreamTypes
    <3> QED
      BY <3>1, HeadTailProperties, Zenon
  <2> QED
    BY <1>2, <1>4, <1>11, <2>1
<1>15. JtagUartTypeOK'
  BY <1>1, <1>2, <1>3, <1>14 DEF JtagUartTypeOK
<1>16. CallInRange' /\ SpaceKept' /\ TxNotStalled'
  BY <1>1, <1>3 DEF CallInRange, SpaceKept, TxNotStalled
<1>17. PointersSafe'
  <2>1. pc = "w_copy" => in = tx_in /\ Size(tx_out, tx_in) <= Size(out, tx_in)
    BY <1>1 DEF PointersSafe
  <2>2. pc = "r_copy" => out = rx_out /\ Size(rx_out, in) <= Size(rx_out, At(rx_in, 1))
    <3>1. Size(rx_out, in) \in Nat
      BY <1>4, RingArithmetic
    <3> QED
      BY <1>1, <1>4, <1>11, <3>1 DEF PointersSafe
  <2> QED
    BY <1>2, <1>3, <2>1, <2>2, PrimedParts
<1>18. RxNotStalled'
  <2>1. At(rx_in, 1) # rx_out
    BY <1>1 DEF RxFull, At
  <2> QED
    BY <1>2, <1>3, <2>1 DEF RxNotStalled
<1> QED
  BY <1>2, <1>12, <1>13, <1>15, <1>16, <1>17, <1>18 DEF FastInv

\* The handler gives a byte to the device: the FIFO has room for it.
LEMMA FastInvIsrTransmit ==
    ASSUME FastInv, IsrTransmit
    PROVE  FastInv' /\ UNCHANGED << hwRx, rxRing, txStream, rxStream >>
<1>1. /\ JtagUartTypeOK /\ CallInRange /\ PointersSafe /\ SpaceKept /\ TxNotStalled /\ RxNotStalled
      /\ TxInOrder /\ RxInOrder /\ isr = "tx" /\ ctl.space > 0 /\ tx_out # tx_in
  BY DEF FastInv, IsrTransmit
<1>2. /\ hwTx' = Append(hwTx, tx_buf[tx_out])
      /\ tx_out' = At(tx_out, 1) /\ ctl' = [ctl EXCEPT !.space = @ - 1]
      /\ UNCHANGED << tx_buf, tx_in, rxRing, irq_enable, activity, call, isr, data_avail,
                      hwRx, ac, connected, txStream, rxStream >>
  BY DEF IsrTransmit, At
<1>3. UNCHANGED << tx_buf, tx_in, rx_buf, rx_in, rx_out, irq_enable, host_inactive, timeout, pc,
                   nonblock, count, done, in, out, ret, isr, data_avail, hwRx, ac, connected,
                   received, written, given, delivered >>
  BY <1>2 DEF rxRing, activity, call, txStream, rxStream
<1>4. /\ tx_in \in Slots /\ tx_out \in Slots /\ out \in Slots
      /\ Size(tx_out, tx_in) \in Nat /\ Size(tx_out, tx_in) > 0
      /\ Len(hwTx) \in Nat /\ received \in Nat /\ written \in Nat
      /\ FIFO_DEPTH \in Nat
  BY <1>1, StreamTypes, UartSizes
<1>5. PICK d : d = received + Len(hwTx)
  OBVIOUS
<1>6. /\ d \in Nat /\ hwTx = Run(received, d) /\ Holds(tx_buf, tx_out, tx_in, d)
      /\ written = d + Size(tx_out, tx_in)
  BY <1>1, <1>4, <1>5 DEF TxInOrder
<1>7. /\ At(tx_out, 1) \in Slots
      /\ Size(At(tx_out, 1), tx_in) = Size(tx_out, tx_in) - 1
      /\ Holds(tx_buf, At(tx_out, 1), tx_in, d + 1)
      /\ tx_buf[tx_out] = d + 1
  <2>1. 1 \in 0 .. Size(tx_out, tx_in)
    BY <1>4
  <2> QED
    BY <1>4, <1>6, <2>1, RingTakes
<1>8. Append(hwTx, d + 1) = Run(received, d + 1) /\ Len(Run(received, d + 1)) = Len(hwTx) + 1
  <2>1. received <= d /\ d + 1 \in Nat /\ received <= d + 1 /\ (d + 1) - received = Len(hwTx) + 1
    BY <1>4, <1>5
  <2>2. Append(Run(received, d), d + 1) = Run(received, d + 1)
    BY <1>4, <1>6, <2>1, RunEnds, Zenon
  <2>3. Len(Run(received, d + 1)) = (d + 1) - received
    BY <1>4, <2>1, RunElements, Zenon
  <2> QED
    BY <1>6, <2>1, <2>2, <2>3
<1>9. hwTx' = Run(received, d + 1) /\ Len(hwTx') = Len(hwTx) + 1 /\ hwTx' \in Seq(Nat)
  <2>1. hwTx' = Run(received, d + 1)
    BY <1>2, <1>7, <1>8
  <2>2. received <= d + 1 /\ d + 1 \in Nat
    BY <1>4, <1>5
  <2>3. Run(received, d + 1) \in Seq(Nat)
    BY <1>4, <2>2, RunElements, Zenon
  <2> QED
    BY <1>8, <2>1, <2>3
<1>10. TxInOrder'
  <2>1. received' + Len(hwTx') = d + 1
    BY <1>3, <1>4, <1>5, <1>9
  <2>2. PICK m \in Nat : m = Size(tx_out, tx_in) - 1
    BY <1>4
  <2>3. Size(tx_out', tx_in') = m /\ Holds(tx_buf', tx_out', tx_in', d + 1)
    BY <1>2, <1>3, <1>7, <2>2
  <2>4. written = (d + 1) + m
    BY <1>4, <1>6, <2>2
  <2> QED
    BY <1>3, <1>9, <2>1, <2>3, <2>4, PrimedParts
<1>11. RxInOrder'
  BY <1>1, <1>2, <1>3, OneUnchanged
<1>12. /\ ctl' \in [ri : BOOLEAN, wi : BOOLEAN, space : 0 .. FIFO_DEPTH]
       /\ Len(hwTx) + 1 <= FIFO_DEPTH /\ ctl'.space <= FIFO_DEPTH - (Len(hwTx) + 1)
  <2>1. ctl \in [ri : BOOLEAN, wi : BOOLEAN, space : 0 .. FIFO_DEPTH]
    BY <1>1 DEF JtagUartTypeOK
  <2>2. ctl.space \in 0 .. FIFO_DEPTH /\ ctl.space <= FIFO_DEPTH - Len(hwTx)
    BY <1>1, <2>1 DEF SpaceKept
  <2>3. ctl.space - 1 \in 0 .. FIFO_DEPTH /\ ctl.space - 1 <= FIFO_DEPTH - (Len(hwTx) + 1)
    BY <1>1, <1>4, <2>2
  <2>4. ctl'.space = ctl.space - 1
    BY <1>2, <2>1
  <2>5. ctl' \in [ri : BOOLEAN, wi : BOOLEAN, space : 0 .. FIFO_DEPTH]
    BY <1>2, <2>1, <2>3, Zenon
  <2> QED
    BY <1>1, <1>4, <2>2, <2>3, <2>4, <2>5
<1>13. JtagUartTypeOK'
  BY <1>1, <1>2, <1>3, <1>7, <1>9, <1>12 DEF JtagUartTypeOK
<1>14. SpaceKept'
  BY <1>1, <1>9, <1>12 DEF SpaceKept
<1>15. CallInRange' /\ RxNotStalled' /\ TxNotStalled'
  BY <1>1, <1>3 DEF CallInRange, RxNotStalled, TxNotStalled
<1>16. PointersSafe'
  <2>1. pc = "w_copy" => in = tx_in /\ Size(At(tx_out, 1), tx_in) <= Size(out, tx_in)
    <3>1. Size(out, tx_in) \in Nat
      BY <1>4, RingArithmetic
    <3> QED
      BY <1>1, <1>4, <1>7, <3>1 DEF PointersSafe
  <2>2. pc = "r_copy" => out = rx_out /\ Size(rx_out, in) <= Size(rx_out, rx_in)
    BY <1>1 DEF PointersSafe
  <2> QED
    BY <1>2, <1>3, <2>1, <2>2, PrimedParts
<1> QED
  BY <1>2, <1>10, <1>11, <1>13, <1>14, <1>15, <1>16 DEF FastInv

\* The host takes the oldest byte of the device.
LEMMA FastInvHostTake ==
    ASSUME FastInv, HostTake
    PROVE  FastInv' /\ UNCHANGED << hwRx, rxRing, rxStream >>
<1>1. /\ JtagUartTypeOK /\ CallInRange /\ PointersSafe /\ SpaceKept /\ TxNotStalled /\ RxNotStalled
      /\ TxInOrder /\ RxInOrder /\ hwTx # << >>
  BY DEF FastInv, HostTake
<1>2. /\ hwTx' = Tail(hwTx) /\ received' = received + 1 /\ ac' = TRUE
      /\ UNCHANGED << txRing, rxRing, irq_enable, activity, call, handler, hwRx, connected,
                      written, rxStream >>
  BY DEF HostTake
<1>3. UNCHANGED << tx_buf, tx_in, tx_out, rx_buf, rx_in, rx_out, irq_enable, host_inactive, timeout,
                   pc, nonblock, count, done, in, out, ret, isr, ctl, data_avail, hwRx, connected,
                   written, given, delivered >>
  BY <1>2 DEF txRing, rxRing, activity, call, handler, rxStream
<1>4. /\ Len(hwTx) \in Nat /\ received \in Nat /\ FIFO_DEPTH \in Nat
      /\ hwTx \in Seq(Nat) /\ Size(tx_out, tx_in) \in Nat
  BY <1>1, StreamTypes, UartSizes
<1>5. PICK d : d = received + Len(hwTx)
  OBVIOUS
<1>6. /\ d \in Nat /\ hwTx = Run(received, d) /\ Holds(tx_buf, tx_out, tx_in, d)
      /\ written = d + Size(tx_out, tx_in)
  BY <1>1, <1>4, <1>5 DEF TxInOrder
<1>7. received < d /\ received + 1 <= d /\ received + 1 \in Nat /\ Tail(hwTx) = Run(received + 1, d)
  <2>1. received <= d
    BY <1>4, <1>5
  <2>2. hwTx = << >> <=> d = received
    BY <1>4, <1>6, <2>1, RunEnds
  <2>3. received < d
    BY <1>1, <1>4, <1>6, <2>1, <2>2
  <2>4. Tail(Run(received, d)) = Run(received + 1, d)
    BY <1>4, <1>6, <2>1, <2>3, RunEnds, Zenon
  <2> QED
    BY <1>4, <1>6, <2>3, <2>4
<1>8. Len(Tail(hwTx)) = Len(hwTx) - 1 /\ Tail(hwTx) \in Seq(Nat) /\ Len(hwTx) > 0
  <2>1. Run(received + 1, d) \in Seq(Nat) /\ Len(Run(received + 1, d)) = d - (received + 1)
    BY <1>6, <1>7, RunElements, Zenon
  <2> QED
    BY <1>4, <1>5, <1>7, <2>1
<1>9. TxInOrder'
  <2>1. received' + Len(hwTx') = d
    BY <1>2, <1>4, <1>5, <1>8
  <2> QED
    BY <1>2, <1>3, <1>6, <1>7, <2>1, PrimedParts
<1>10. RxInOrder'
  BY <1>1, <1>2, <1>3, OneUnchanged
<1>11. JtagUartTypeOK'
  BY <1>1, <1>2, <1>3, <1>7, <1>8 DEF JtagUartTypeOK
<1>12. SpaceKept'
  <2>1. PICK m \in Nat : m = Len(hwTx) - 1
    <3>1. Len(hwTx) \in Nat /\ Len(hwTx) > 0
      BY <1>4, <1>8
    <3>2. Len(hwTx) - 1 \in Nat
      BY <3>1
    <3> QED
      BY <3>2
  <2>2. /\ m <= FIFO_DEPTH
        /\ isr \in {"rx", "tx"} => ctl.space <= FIFO_DEPTH - m
    <3>1. ctl.space \in 0 .. FIFO_DEPTH
      BY <1>1 DEF JtagUartTypeOK
    <3> QED
      BY <1>1, <1>4, <2>1, <3>1 DEF SpaceKept
  <2>3. Len(hwTx') = m
    BY <1>2, <1>8, <2>1
  <2> QED
    BY <1>3, <2>2, <2>3 DEF SpaceKept
<1>13. CallInRange' /\ RxNotStalled' /\ TxNotStalled'
  BY <1>1, <1>3 DEF CallInRange, RxNotStalled, TxNotStalled
<1>14. PointersSafe'
  BY <1>1, <1>3 DEF PointersSafe, Size
<1> QED
  BY <1>2, <1>9, <1>10, <1>11, <1>12, <1>13, <1>14 DEF FastInv

\* The host sends a byte to a device that has room.
LEMMA FastInvHostGive ==
    ASSUME FastInv, HostGive
    PROVE  FastInv' /\ UNCHANGED << hwTx, txRing, txStream >>
<1>1. /\ JtagUartTypeOK /\ CallInRange /\ PointersSafe /\ SpaceKept /\ TxNotStalled /\ RxNotStalled
      /\ TxInOrder /\ RxInOrder /\ Len(hwRx) < FIFO_DEPTH
  BY DEF FastInv, HostGive
<1>2. /\ hwRx' = Append(hwRx, given + 1) /\ given' = given + 1 /\ ac' = TRUE
      /\ UNCHANGED << txRing, rxRing, irq_enable, activity, call, handler, hwTx, connected,
                      txStream, delivered >>
  BY DEF HostGive
<1>3. UNCHANGED << tx_buf, tx_in, tx_out, rx_buf, rx_in, rx_out, irq_enable, host_inactive, timeout,
                   pc, nonblock, count, done, in, out, ret, isr, ctl, data_avail, hwTx, connected,
                   written, received, delivered >>
  BY <1>2 DEF txRing, rxRing, activity, call, handler, txStream
<1>4. /\ Len(hwRx) \in Nat /\ given \in Nat /\ delivered \in Nat /\ FIFO_DEPTH \in Nat
      /\ hwRx \in Seq(Nat) /\ Size(rx_out, rx_in) \in Nat
  BY <1>1, StreamTypes, UartSizes
<1>5. PICK d : d = delivered + Size(rx_out, rx_in)
  OBVIOUS
<1>6. /\ d \in Nat /\ hwRx = Run(d, given) /\ given = d + Len(hwRx)
      /\ Holds(rx_buf, rx_out, rx_in, delivered)
  BY <1>1, <1>4, <1>5 DEF RxInOrder
<1>7. /\ d <= given /\ given + 1 \in Nat /\ d <= given + 1
      /\ Append(hwRx, given + 1) = Run(d, given + 1)
  <2>1. d <= given
    BY <1>4, <1>6
  <2>2. Append(Run(d, given), given + 1) = Run(d, given + 1)
    BY <1>4, <1>6, <2>1, RunEnds, Zenon
  <2> QED
    BY <1>4, <1>6, <2>1, <2>2
<1>8. Run(d, given + 1) \in Seq(Nat) /\ Len(Run(d, given + 1)) = Len(hwRx) + 1
  <2>1. Run(d, given + 1) \in Seq(Nat) /\ Len(Run(d, given + 1)) = (given + 1) - d
    BY <1>6, <1>7, RunElements, Zenon
  <2> QED
    BY <1>4, <1>6, <2>1
<1>9. RxInOrder'
  <2>1. delivered' + Size(rx_out', rx_in') = d
    BY <1>3, <1>5
  <2>2. hwRx' = Run(d, given') /\ Len(hwRx') = Len(hwRx) + 1
    BY <1>2, <1>7, <1>8
  <2>3. given + 1 = d + (Len(hwRx) + 1) /\ Len(hwRx) + 1 <= FIFO_DEPTH
    BY <1>1, <1>4, <1>6
  <2> QED
    BY <1>2, <1>3, <1>6, <2>1, <2>2, <2>3, PrimedParts
<1>10. TxInOrder'
  BY <1>1, <1>2, <1>3, OneUnchanged
<1>11. JtagUartTypeOK'
  BY <1>1, <1>2, <1>3, <1>7, <1>8 DEF JtagUartTypeOK
<1>12. SpaceKept'
  BY <1>1, <1>3 DEF SpaceKept
<1>13. CallInRange' /\ RxNotStalled' /\ TxNotStalled'
  BY <1>1, <1>3 DEF CallInRange, RxNotStalled, TxNotStalled
<1>14. PointersSafe'
  BY <1>1, <1>3 DEF PointersSafe, Size
<1> QED
  BY <1>2, <1>9, <1>10, <1>11, <1>12, <1>13, <1>14 DEF FastInv

\* Every step of the fast driver keeps its invariant.
LEMMA FastInvStep ==
    ASSUME FastInv, JtagUartNext
    PROVE  FastInv'
<1>1. \/ CallOnly \/ HandlerOnly \/ WriteCopy \/ ReadCopy \/ IsrReceive \/ IsrTransmit
      \/ HostTake \/ HostGive
  BY DEF JtagUartNext, CallStep, WriteStep, ReadStep, IsrStep, HostStep, CallOnly, HandlerOnly
<1> QED
  BY <1>1, FastInvCallOnly, FastInvHandlerOnly, FastInvWriteCopy, FastInvReadCopy,
     FastInvIsrReceive, FastInvIsrTransmit, FastInvHostTake, FastInvHostGive

----------------------------------------------------------------------------
(* The polled driver. *)

\* What a queue holds.
LEMMA QueueHolds ==
    ASSUME NEW fifo, NEW r, NEW w, NEW m \in Nat, Queue(fifo, r, w, m)
    PROVE  /\ r \in 0 .. m /\ w \in 0 .. m /\ r \in Nat /\ w \in Nat /\ r <= w
           /\ fifo \in Seq(1 .. m) /\ fifo = Run(r, w)
           /\ Len(fifo) = w - r /\ Len(fifo) \in Nat /\ Len(fifo) <= FIFO_DEPTH
           /\ fifo = << >> <=> w = r
<1>1. r \in Nat /\ w \in 0 .. m /\ w \in Nat /\ r <= w /\ fifo = Run(r, w) /\ Len(fifo) <= FIFO_DEPTH
  BY DEF Queue
<1>2. Len(fifo) = w - r /\ w - r \in Nat /\ r \in 0 .. m
  <2>1. Len(Run(r, w)) = w - r
    BY <1>1, RunElements, Zenon
  <2> QED
    BY <1>1, <2>1
<1>3. fifo = << >> <=> w = r
  BY <1>1, RunEnds
<1>4. fifo \in Seq(1 .. m)
  <2>1. w - r \in Nat
    BY <1>1
  <2>2. \A i \in 1 .. w - r : r + i \in 1 .. m
    BY <1>1
  <2> QED
    BY <1>1, <2>1, <2>2 DEF Run
<1> QED
  BY <1>1, <1>2, <1>3, <1>4

\* A byte goes in behind, and the first comes out.
LEMMA QueueMoves ==
    ASSUME NEW fifo, NEW r, NEW w, NEW m \in Nat, Queue(fifo, r, w, m)
    PROVE  /\ Len(fifo) < FIFO_DEPTH /\ w < m => Queue(Append(fifo, w + 1), r, w + 1, m)
           /\ fifo # << >> => Queue(Tail(fifo), r + 1, w, m)
<1>1. /\ r \in Nat /\ w \in Nat /\ w <= m /\ r <= w /\ fifo = Run(r, w)
      /\ Len(fifo) = w - r /\ Len(fifo) <= FIFO_DEPTH /\ (fifo = << >> <=> w = r)
  BY QueueHolds DEF Queue
<1>2. FIFO_DEPTH \in Nat
  BY UartSizes
<1>3. ASSUME Len(fifo) < FIFO_DEPTH, w < m
      PROVE  Queue(Append(fifo, w + 1), r, w + 1, m)
  <2>1. Append(fifo, w + 1) = Run(r, w + 1)
    BY <1>1, RunEnds
  <2>2. w + 1 \in Nat /\ r <= w + 1 /\ w + 1 \in 0 .. m
    BY <1>1, <1>3
  <2>3. Len(Run(r, w + 1)) = (w + 1) - r
    BY <1>1, <2>2, RunElements, Zenon
  <2>4. (w + 1) - r <= FIFO_DEPTH
    BY <1>1, <1>2, <1>3
  <2> QED
    BY <1>1, <2>1, <2>2, <2>3, <2>4 DEF Queue
<1>4. ASSUME fifo # << >>
      PROVE  Queue(Tail(fifo), r + 1, w, m)
  <2>1. r < w /\ r + 1 \in Nat /\ r + 1 <= w
    BY <1>1, <1>4
  <2>2. Tail(fifo) = Run(r + 1, w)
    BY <1>1, <2>1, RunEnds
  <2>3. Len(Run(r + 1, w)) = w - (r + 1)
    BY <1>1, <2>1, RunElements, Zenon
  <2>4. w - (r + 1) <= FIFO_DEPTH /\ w \in 0 .. m
    BY <1>1, <1>2, <2>1
  <2> QED
    BY <1>1, <2>1, <2>2, <2>3, <2>4 DEF Queue
<1> QED
  BY <1>3, <1>4

\* Nothing is on its way at first.
LEMMA PolledInvInit ==
    ASSUME Small!SmallUartInit
    PROVE  PolledInv
<1>1. PolledCall
  <2>1. left = 0 /\ moved = 0 /\ pc = "idle" /\ ret = "none" /\ nonblock = FALSE
    BY DEF Small!SmallUartInit
  <2>2. 0 + 0 <= MaxCount
    BY UartSizes
  <2> QED
    BY <2>1, <2>2 DEF PolledCall
<1>2. Run(0, 0) = << >>
  BY RunEnds
<1>3. ASSUME NEW m \in Nat
      PROVE  Queue(<< >>, 0, 0, m)
  BY <1>2, UartSizes DEF Queue
<1> QED
  BY <1>1, <1>3, UartSizes DEF PolledInv, Small!SmallUartInit

\* The bytes a step moves: one at either end of either FIFO, or none.
TxMove ==
    \/ UNCHANGED << hwTx, written, received >>
    \/ /\ Len(hwTx) < FIFO_DEPTH /\ written < MaxOut
       /\ hwTx' = Append(hwTx, written + 1) /\ written' = written + 1 /\ UNCHANGED received
    \/ /\ hwTx # << >>
       /\ hwTx' = Tail(hwTx) /\ received' = received + 1 /\ UNCHANGED written

RxMove ==
    \/ UNCHANGED << hwRx, given, delivered >>
    \/ /\ Len(hwRx) < FIFO_DEPTH /\ given < MaxIn
       /\ hwRx' = Append(hwRx, given + 1) /\ given' = given + 1 /\ UNCHANGED delivered
    \/ /\ hwRx # << >>
       /\ hwRx' = Tail(hwRx) /\ delivered' = delivered + 1 /\ UNCHANGED given

\* What a call has left and moved stays within what was asked for, and no read comes
\* to its end with nothing asked for.
LEMMA PolledInvStep ==
    ASSUME PolledInv, Small!SmallUartNext
    PROVE  PolledInv' /\ TxMove /\ RxMove
<1>1. PolledCall /\ Queue(hwTx, received, written, MaxOut) /\ Queue(hwRx, delivered, given, MaxIn)
  BY DEF PolledInv
<1>2. /\ pc \in {"idle", "write", "read", "getchar"}
      /\ ret \in {"none", "count", "EWOULDBLOCK", "char", "no char"}
      /\ left \in Nat /\ moved \in Nat /\ left + moved <= MaxCount
      /\ pc = "read" => left + moved > 0
      /\ pc = "write" => written + left <= MaxOut
  BY <1>1 DEF PolledCall
<1>3. nonblock \in BOOLEAN
  BY <1>1 DEF PolledCall
<1>4. /\ MaxCount \in Nat /\ MaxCount >= 1 /\ MaxOut \in Nat /\ MaxIn \in Nat
      /\ written \in Nat /\ received \in Nat /\ given \in Nat /\ delivered \in Nat
      /\ written <= MaxOut
  BY <1>1, UartSizes DEF Queue
<1>4a. 0 + 0 <= MaxCount /\ (pc = "read" /\ left = 0 => moved > 0)
  <2>1. left \in Nat /\ moved \in Nat /\ (pc = "read" => left + moved > 0)
    BY <1>2
  <2> QED
    BY <1>4, <2>1
<1>5. /\ TxMove /\ RxMove /\ PolledCall'
  <2>1. ASSUME NEW n \in 1 .. MaxCount, Small!StartWrite(n), nonblock' \in BOOLEAN
        PROVE  TxMove /\ RxMove /\ PolledCall'
    <3>1. left' = n /\ pc' = "write" /\ moved' = 0 /\ ret' = "none" /\ written + n <= MaxOut
      BY <2>1 DEF Small!StartWrite
    <3>2. UNCHANGED << hwTx, written, received, hwRx, given, delivered >>
      BY <2>1 DEF Small!StartWrite, Small!txStream, Small!rxStream
    <3>3. n + 0 <= MaxCount /\ n \in Nat
      BY <1>4
    <3>4. /\ pc' \in {"idle", "write", "read", "getchar"}
          /\ ret' \in {"none", "count", "EWOULDBLOCK", "char", "no char"}
          /\ left' \in Nat /\ moved' \in Nat /\ left' + moved' <= MaxCount
          /\ pc' # "read" /\ written' + left' <= MaxOut
      BY <3>1, <3>2, <3>3
    <3> QED
      BY <2>1, <3>2, <3>4 DEF TxMove, RxMove, PolledCall
  <2>2. CASE Small!WriteCall \/ Small!PutstrCall \/ Small!PutcharCall
    <3>1. 1 \in 1 .. MaxCount
      BY <1>4
    <3>2. nonblock' \in BOOLEAN /\ \E n \in 1 .. MaxCount : Small!StartWrite(n)
      BY <2>2, <3>1 DEF Small!WriteCall, Small!PutstrCall, Small!PutcharCall
    <3> QED
      BY <2>1, <3>2
  <2>3. CASE Small!ReadCall \/ Small!GetcharCall
    <3>1. /\ left' \in 1 .. MaxCount /\ pc' \in {"read", "getchar"} /\ moved' = 0 /\ ret' = "none"
          /\ UNCHANGED << hwTx, written, received, hwRx, given, delivered >>
      BY <1>4, <2>3 DEF Small!ReadCall, Small!GetcharCall, Small!txStream, Small!rxStream
    <3>2. nonblock' \in BOOLEAN
      BY <2>3 DEF Small!ReadCall, Small!GetcharCall
    <3>3. PICK n \in 1 .. MaxCount : left' = n
      BY <3>1
    <3>4. n \in Nat /\ n + 0 <= MaxCount /\ n + 0 > 0
      BY <1>4
    <3>5. left' \in Nat /\ moved' \in Nat /\ left' + moved' <= MaxCount /\ left' + moved' > 0
      BY <3>1, <3>3, <3>4
    <3> QED
      BY <3>1, <3>2, <3>5 DEF TxMove, RxMove, PolledCall
  <2>4. ASSUME left > 0, left' = left - 1, moved' = moved + 1, UNCHANGED << pc, ret, nonblock >>,
               pc = "write" => written' = written + 1
        PROVE  PolledCall'
    <3>0. left \in Nat /\ moved \in Nat /\ left > 0 /\ left + moved <= MaxCount
      BY <1>2, <2>4
    <3>1. PICK l \in Nat, d \in Nat : l = left - 1 /\ d = moved + 1
      <4>1. left - 1 \in Nat /\ moved + 1 \in Nat
        BY <3>0
      <4> QED
        BY <4>1
    <3>2. /\ l + d <= MaxCount /\ l + d > 0
          /\ pc = "write" => (written + 1) + l <= MaxOut
      <4>1. l + d <= MaxCount /\ l + d > 0
        BY <1>4, <3>0, <3>1
      <4>2. (written + 1) + l = written + left
        BY <1>4, <3>0, <3>1
      <4> QED
        BY <1>2, <4>1, <4>2
    <3>3. left' = l /\ moved' = d
      BY <2>4, <3>1
    <3>4. /\ left' \in Nat /\ moved' \in Nat /\ left' + moved' <= MaxCount /\ left' + moved' > 0
          /\ pc = "write" => written' + left' <= MaxOut
      BY <2>4, <3>2, <3>3
    <3> QED
      BY <1>1, <2>4, <3>4 DEF PolledCall
  <2>5. CASE Small!WriteByte
    <3>1. /\ left > 0 /\ left' = left - 1 /\ moved' = moved + 1 /\ pc = "write"
          /\ UNCHANGED << pc, ret, nonblock >>
          /\ Len(hwTx) < FIFO_DEPTH
          /\ hwTx' = Append(hwTx, written + 1) /\ written' = written + 1
          /\ UNCHANGED << received, hwRx, given, delivered >>
      BY <2>5 DEF Small!WriteByte, Small!WriteSpace, Small!rxStream
    <3>2. written < MaxOut
      <4>1. written + left <= MaxOut /\ left \in Nat /\ left > 0
        BY <1>2, <3>1
      <4> QED
        BY <1>4, <4>1
    <3> QED
      BY <2>4, <3>1, <3>2 DEF TxMove, RxMove
  <2>6. CASE Small!ReadByte
    <3>1. /\ left > 0 /\ left' = left - 1 /\ moved' = moved + 1 /\ pc # "write"
          /\ UNCHANGED << pc, ret, nonblock >>
          /\ hwRx # << >> /\ hwRx' = Tail(hwRx) /\ delivered' = delivered + 1
          /\ UNCHANGED << hwTx, written, received, given >>
      BY <2>6 DEF Small!ReadByte, Small!txStream
    <3> QED
      BY <2>4, <3>1 DEF TxMove, RxMove
  <2>7. ASSUME NEW value \in {"count", "EWOULDBLOCK", "char", "no char"}, Small!Return(value)
        PROVE  PolledCall'
    <3>1. pc' = "idle" /\ left' = 0 /\ moved' = 0 /\ ret' = value /\ nonblock' = FALSE
      BY <2>7 DEF Small!Return
    <3> QED
      BY <3>1, <1>4a DEF PolledCall
  <2>8. CASE Small!WriteReturn
    BY <2>7, <2>8 DEF Small!WriteReturn, Small!txStream, Small!rxStream, TxMove, RxMove
  <2>9. CASE Small!ReadReturn
    <3>1. moved > 0 \/ nonblock
      <4>1. pc = "read" /\ (left = 0 \/ moved > 0 \/ nonblock)
        BY <2>9 DEF Small!ReadReturn, Small!ReadStops
      <4> QED
        BY <1>4a, <4>1
    <3>2. Small!Return("count") \/ Small!Return("EWOULDBLOCK")
      BY <2>9, <3>1 DEF Small!ReadReturn
    <3> QED
      BY <2>7, <2>9, <3>2 DEF Small!ReadReturn, Small!txStream, Small!rxStream, TxMove, RxMove
  <2>10. CASE Small!GetcharReturn
    BY <2>7, <2>10 DEF Small!GetcharReturn, Small!txStream, TxMove, RxMove
  <2>11. CASE Small!HostTake \/ Small!HostGive
    <3>1. TxMove /\ RxMove
      BY <2>11 DEF Small!HostTake, Small!HostGive, Small!txStream, Small!rxStream, TxMove, RxMove
    <3>2. UNCHANGED << pc, ret, nonblock, left, moved, written >>
      BY <2>11 DEF Small!HostTake, Small!HostGive, Small!call, Small!txStream
    <3> QED
      BY <1>1, <3>1, <3>2 DEF PolledCall
  <2> QED
    BY <2>2, <2>3, <2>5, <2>6, <2>8, <2>9, <2>10, <2>11 DEF Small!SmallUartNext, Small!CallStep
<1>6. Queue(hwTx', received', written', MaxOut)
  <2>1. TxMove
    BY <1>5
  <2> QED
    BY <1>1, <1>4, <2>1, QueueMoves DEF TxMove
<1>7. Queue(hwRx', delivered', given', MaxIn)
  <2>1. RxMove
    BY <1>5
  <2> QED
    BY <1>1, <1>4, <2>1, QueueMoves DEF RxMove
<1>8. PolledInv'
  BY <1>5, <1>6, <1>7 DEF PolledInv, Queue, Run
<1> QED
  BY <1>5, <1>8

\* What it says of the driver.
LEMMA PolledInvMeans ==
    ASSUME PolledInv
    PROVE  Small!SmallUartTypeOK /\ Small!NeverEio /\ Len(hwTx) <= FIFO_DEPTH
<1>1. PolledCall /\ Queue(hwTx, received, written, MaxOut) /\ Queue(hwRx, delivered, given, MaxIn)
  BY DEF PolledInv
<1>2. MaxOut \in Nat /\ MaxIn \in Nat /\ MaxCount \in Nat
  BY UartSizes
<1>3. /\ hwTx \in Seq(1 .. MaxOut) /\ hwRx \in Seq(1 .. MaxIn) /\ Len(hwTx) <= FIFO_DEPTH
      /\ written \in 0 .. MaxOut /\ received \in 0 .. MaxOut
      /\ given \in 0 .. MaxIn /\ delivered \in 0 .. MaxIn
  BY <1>1, <1>2, QueueHolds
<1>4. left \in 0 .. MaxCount /\ moved \in 0 .. MaxCount
  <2>1. left \in Nat /\ moved \in Nat /\ left + moved <= MaxCount
    BY <1>1 DEF PolledCall
  <2> QED
    BY <1>2, <2>1
<1>5. /\ pc \in {"idle", "write", "read", "getchar"} /\ nonblock \in BOOLEAN
      /\ ret \in {"none", "count", "EWOULDBLOCK", "char", "no char"}
  BY <1>1 DEF PolledCall
<1> QED
  BY <1>3, <1>4, <1>5 DEF Small!SmallUartTypeOK, Small!NeverEio

\* One byte at either end of a FIFO is a step of the channel it is.
LEMMA FifoSteps ==
    ASSUME PolledInv, TxMove, RxMove
    PROVE  /\ [Small!TxChannel!ChannelNext]_(Small!TxChannel!channelVars)
           /\ [Small!RxChannel!ChannelNext]_(Small!RxChannel!channelVars)
<1>1. Queue(hwTx, received, written, MaxOut) /\ Queue(hwRx, delivered, given, MaxIn)
  BY DEF PolledInv
<1>2. MaxOut \in Nat /\ MaxIn \in Nat /\ FIFO_DEPTH \in Nat /\ 1 \in 1 .. FIFO_DEPTH
  BY UartSizes
<1>3. ASSUME NEW fifo, NEW r, NEW w, NEW m \in Nat, Queue(fifo, r, w, m)
      PROVE  /\ Len(fifo) < FIFO_DEPTH =>
                  Len(fifo) + 1 <= FIFO_DEPTH
                  /\ Append(fifo, w + 1) = fifo \o [i \in 1 .. 1 |-> w + i]
             /\ fifo # << >> =>
                  /\ 1 <= Len(fifo) /\ \A i \in 1 .. 1 : fifo[i] = r + i
                  /\ Tail(fifo) = SubSeq(fifo, 1 + 1, Len(fifo))
  <2>1. /\ r \in Nat /\ w \in Nat /\ r <= w /\ fifo = Run(r, w) /\ Len(fifo) = w - r
        /\ Len(fifo) \in Nat /\ (fifo = << >> <=> w = r)
    BY <1>3, QueueHolds
  <2>2. Append(fifo, w + 1) = fifo \o [i \in 1 .. 1 |-> w + i]
    <3>1. Append(Run(r, w), w + 1) = Run(r, w + 1)
      BY <2>1, RunEnds, Zenon
    <3>2. Run(r, w) \o [i \in 1 .. 1 |-> w + i] = Run(r, w + 1)
      <4>1. ASSUME NEW n \in Nat
            PROVE  Run(r, w) \o [i \in 1 .. n |-> w + i] = Run(r, w + n)
        <5>1. r \in Nat /\ w \in Nat /\ r <= w
          BY <2>1
        <5> QED
          BY <5>1, RunAccepts, Zenon
      <4> QED
        BY <4>1
    <3> QED
      BY <2>1, <3>1, <3>2
  <2>3. ASSUME fifo # << >>
        PROVE  /\ 1 <= Len(fifo) /\ \A i \in 1 .. 1 : fifo[i] = r + i
               /\ Tail(fifo) = SubSeq(fifo, 1 + 1, Len(fifo))
    <3>1. r < w /\ 1 <= Len(fifo) /\ 1 \in 1 .. w - r /\ r + 1 <= w /\ 1 \in Nat
      BY <2>1, <2>3
    <3>2. Tail(Run(r, w)) = Run(r + 1, w)
      BY <2>1, <3>1, RunEnds, Zenon
    <3>3. SubSeq(Run(r, w), 1 + 1, Len(Run(r, w))) = Run(r + 1, w)
      BY <2>1, <3>1, RunShrinks, Zenon
    <3>4. \A i \in 1 .. w - r : Run(r, w)[i] = r + i
      BY <2>1, RunElements, Zenon
    <3>5. \A i \in 1 .. 1 : i \in 1 .. w - r
      BY <3>1
    <3> QED
      BY <2>1, <3>1, <3>2, <3>3, <3>4, <3>5
  <2>4. Len(fifo) < FIFO_DEPTH => Len(fifo) + 1 <= FIFO_DEPTH
    BY <1>2, <2>1
  <2> QED
    BY <2>2, <2>3, <2>4
<1>4. [Small!TxChannel!ChannelNext]_(Small!TxChannel!channelVars)
  <2>1. CASE UNCHANGED << hwTx, written, received >>
    BY <2>1 DEF Small!TxChannel!channelVars
  <2>2. CASE /\ Len(hwTx) < FIFO_DEPTH
             /\ hwTx' = Append(hwTx, written + 1) /\ written' = written + 1 /\ UNCHANGED received
    <3>1. Small!TxChannel!Accept(1)
      BY <1>1, <1>2, <1>3, <2>2 DEF Small!TxChannel!Accept
    <3> QED
      BY <1>2, <3>1 DEF Small!TxChannel!ChannelNext
  <2>3. CASE /\ hwTx # << >>
             /\ hwTx' = Tail(hwTx) /\ received' = received + 1 /\ UNCHANGED written
    <3>1. Small!TxChannel!Deliver(1)
      BY <1>1, <1>2, <1>3, <2>3 DEF Small!TxChannel!Deliver
    <3> QED
      BY <1>2, <3>1 DEF Small!TxChannel!ChannelNext
  <2> QED
    BY <2>1, <2>2, <2>3 DEF TxMove
<1>5. [Small!RxChannel!ChannelNext]_(Small!RxChannel!channelVars)
  <2>1. CASE UNCHANGED << hwRx, given, delivered >>
    BY <2>1 DEF Small!RxChannel!channelVars
  <2>2. CASE /\ Len(hwRx) < FIFO_DEPTH
             /\ hwRx' = Append(hwRx, given + 1) /\ given' = given + 1 /\ UNCHANGED delivered
    <3>1. Small!RxChannel!Accept(1)
      BY <1>1, <1>2, <1>3, <2>2 DEF Small!RxChannel!Accept
    <3> QED
      BY <1>2, <3>1 DEF Small!RxChannel!ChannelNext
  <2>3. CASE /\ hwRx # << >>
             /\ hwRx' = Tail(hwRx) /\ delivered' = delivered + 1 /\ UNCHANGED given
    <3>1. Small!RxChannel!Deliver(1)
      BY <1>1, <1>2, <1>3, <2>3 DEF Small!RxChannel!Deliver
    <3> QED
      BY <1>2, <3>1 DEF Small!RxChannel!ChannelNext
  <2> QED
    BY <2>1, <2>2, <2>3 DEF RxMove
<1> QED
  BY <1>4, <1>5

----------------------------------------------------------------------------
(* The byte channels. *)

Capacity == BUF_LEN - 1 + FIFO_DEPTH

\* A channel between two positions of its stream.
OnTheWay(inFlight, d, a) ==
    d \in Nat /\ a \in Nat /\ d <= a /\ a - d <= Capacity /\ inFlight = Run(d, a)

InFlight == OnTheWay(TxInFlight, received, written) /\ OnTheWay(RxInFlight, delivered, given)

\* What is on its way out: the FIFO, then the ring behind it.
LEMMA OutIsRun ==
    ASSUME NEW first \in Slots, NEW last \in Slots, NEW buf, NEW fifo \in Seq(Nat),
           NEW d \in Nat, NEW a \in Nat, Len(fifo) <= FIFO_DEPTH,
           fifo = Run(d, d + Len(fifo)), Holds(buf, first, last, d + Len(fifo)),
           a = d + Len(fifo) + Size(first, last)
    PROVE  OnTheWay(fifo \o Ring(buf, first, last), d, a)
<1>1. /\ BUF_LEN \in Nat /\ BUF_LEN >= 2 /\ FIFO_DEPTH \in Nat
      /\ Size(first, last) \in Nat /\ Size(first, last) < BUF_LEN /\ Len(fifo) \in Nat
  BY UartSizes, RingArithmetic
<1>2. PICK m \in Nat : m = d + Len(fifo)
  <2>1. d + Len(fifo) \in Nat
    BY <1>1
  <2> QED
    BY <2>1
<1>3. Ring(buf, first, last) = Run(m, m + Size(first, last)) /\ fifo = Run(d, m)
  BY <1>2, RingIsRun
<1>4. a = m + Size(first, last) /\ d <= m /\ m <= a /\ a - d <= BUF_LEN - 1 + FIFO_DEPTH
  <2>1. a = m + Size(first, last)
    BY <1>2
  <2>2. a - d = Len(fifo) + Size(first, last) /\ d <= m /\ m <= a
    BY <1>1, <1>2, <2>1
  <2> QED
    BY <1>1, <2>1, <2>2
<1>5. Run(d, m) \o Run(m, a) = Run(d, a)
  BY <1>4, RunJoins, Zenon
<1> QED
  BY <1>3, <1>4, <1>5 DEF OnTheWay, Capacity

\* What is on its way in: the ring, then the FIFO before it.
LEMMA InIsRun ==
    ASSUME NEW first \in Slots, NEW last \in Slots, NEW buf, NEW fifo \in Seq(Nat),
           NEW d \in Nat, NEW a \in Nat, Len(fifo) <= FIFO_DEPTH,
           Holds(buf, first, last, d), fifo = Run(d + Size(first, last), a),
           a = d + Size(first, last) + Len(fifo)
    PROVE  OnTheWay(Ring(buf, first, last) \o fifo, d, a)
<1>1. /\ BUF_LEN \in Nat /\ BUF_LEN >= 2 /\ FIFO_DEPTH \in Nat
      /\ Size(first, last) \in Nat /\ Size(first, last) < BUF_LEN /\ Len(fifo) \in Nat
  BY UartSizes, RingArithmetic
<1>2. PICK m \in Nat : m = d + Size(first, last)
  <2>1. d + Size(first, last) \in Nat
    BY <1>1
  <2> QED
    BY <2>1
<1>3. Ring(buf, first, last) = Run(d, m) /\ fifo = Run(m, a)
  BY <1>2, RingIsRun
<1>4. a = m + Len(fifo) /\ d <= m /\ m <= a /\ a - d <= BUF_LEN - 1 + FIFO_DEPTH
  <2>1. a = m + Len(fifo)
    BY <1>2
  <2>2. a - d = Size(first, last) + Len(fifo) /\ d <= m /\ m <= a
    BY <1>1, <1>2, <2>1
  <2> QED
    BY <1>1, <2>1, <2>2
<1>5. Run(d, m) \o Run(m, a) = Run(d, a)
  BY <1>4, RunJoins, Zenon
<1> QED
  BY <1>3, <1>4, <1>5 DEF OnTheWay, Capacity

\* The steps of a channel, for one that is given by its ends.
Accepts(n, inFlight, inFlight2, d, d2, a, a2) ==
    /\ Len(inFlight) + n <= Capacity
    /\ inFlight2 = inFlight \o [i \in 1 .. n |-> a + i] /\ a2 = a + n /\ d2 = d
Delivers(n, inFlight, inFlight2, d, d2, a, a2) ==
    /\ n <= Len(inFlight) /\ \A i \in 1 .. n : inFlight[i] = d + i
    /\ inFlight2 = SubSeq(inFlight, n + 1, Len(inFlight)) /\ d2 = d + n /\ a2 = a

\* A channel whose one end moves by n is one that accepts or delivers n bytes.
LEMMA ChannelMoves ==
    ASSUME NEW inFlight, NEW inFlight2, NEW d, NEW d2, NEW a, NEW a2,
           OnTheWay(inFlight, d, a), OnTheWay(inFlight2, d2, a2),
           NEW n \in 1 .. BUF_LEN
    PROVE  /\ n \in 1 .. Capacity
           /\ a2 = a + n /\ d2 = d => Accepts(n, inFlight, inFlight2, d, d2, a, a2)
           /\ d2 = d + n /\ a2 = a => Delivers(n, inFlight, inFlight2, d, d2, a, a2)
           /\ d2 = d /\ a2 = a => inFlight2 = inFlight
<1>1. /\ d \in Nat /\ a \in Nat /\ d <= a /\ a - d <= Capacity /\ inFlight = Run(d, a)
      /\ d2 \in Nat /\ a2 \in Nat /\ d2 <= a2 /\ a2 - d2 <= Capacity /\ inFlight2 = Run(d2, a2)
  BY DEF OnTheWay
<1>2. n \in Nat /\ n \in 1 .. Capacity
  BY UartSizes DEF Capacity
<1>3. Len(inFlight) = a - d /\ \A i \in 1 .. a - d : inFlight[i] = d + i
  <2>1. Len(Run(d, a)) = a - d /\ \A i \in 1 .. a - d : Run(d, a)[i] = d + i
    BY <1>1, RunElements, Zenon
  <2> QED
    BY <1>1, <2>1
<1>4. ASSUME a2 = a + n, d2 = d
      PROVE  Accepts(n, inFlight, inFlight2, d, d2, a, a2)
  <2>1. inFlight \o [i \in 1 .. n |-> a + i] = Run(d, a + n)
    BY <1>1, <1>2, RunAccepts, Zenon
  <2>2. (a - d) + n <= Capacity
    <3>1. (a + n) - d <= Capacity
      BY <1>1, <1>4
    <3>2. (a + n) - d = (a - d) + n
      BY <1>1, <1>2
    <3> QED
      BY <3>1, <3>2
  <2> QED
    BY <1>1, <1>3, <1>4, <2>1, <2>2 DEF Accepts
<1>5. ASSUME d2 = d + n, a2 = a
      PROVE  Delivers(n, inFlight, inFlight2, d, d2, a, a2)
  <2>1. d + n <= a
    BY <1>1, <1>5
  <2>2. SubSeq(Run(d, a), n + 1, Len(Run(d, a))) = Run(d + n, a)
    BY <1>1, <1>2, <2>1, RunShrinks, Zenon
  <2>3. n <= a - d /\ \A i \in 1 .. n : inFlight[i] = d + i
    <3>1. n <= a - d /\ \A i \in 1 .. n : i \in 1 .. a - d
      BY <1>1, <1>2, <2>1
    <3> QED
      BY <1>3, <3>1
  <2> QED
    BY <1>1, <1>3, <1>5, <2>2, <2>3 DEF Delivers
<1>6. d2 = d /\ a2 = a => inFlight2 = inFlight
  BY <1>1
<1> QED
  BY <1>2, <1>4, <1>5, <1>6

\* How a step may move the ends of the two streams.
StreamStep ==
    /\ \/ UNCHANGED << received, written >>
       \/ \E n \in 1 .. BUF_LEN : written' = written + n /\ UNCHANGED received
       \/ \E n \in 1 .. BUF_LEN : received' = received + n /\ UNCHANGED written
    /\ \/ UNCHANGED << delivered, given >>
       \/ \E n \in 1 .. BUF_LEN : given' = given + n /\ UNCHANGED delivered
       \/ \E n \in 1 .. BUF_LEN : delivered' = delivered + n /\ UNCHANGED given

\* Steps that move the ends of the streams so are steps of the two channels.
LEMMA ChannelSteps ==
    ASSUME InFlight, InFlight', StreamStep
    PROVE  /\ [TxChannel!ChannelNext]_(TxChannel!channelVars)
           /\ [RxChannel!ChannelNext]_(RxChannel!channelVars)
<1>1. /\ OnTheWay(TxInFlight, received, written) /\ OnTheWay(TxInFlight', received', written')
      /\ OnTheWay(RxInFlight, delivered, given) /\ OnTheWay(RxInFlight', delivered', given')
  BY DEF InFlight, OnTheWay, Run, Capacity
<1>2. 1 \in 1 .. BUF_LEN
  BY UartSizes
<1>3. ASSUME NEW n \in 1 .. BUF_LEN
      PROVE  /\ written' = written + n /\ UNCHANGED received => TxChannel!ChannelNext
             /\ received' = received + n /\ UNCHANGED written => TxChannel!ChannelNext
             /\ UNCHANGED << received, written >> => UNCHANGED TxChannel!channelVars
  <2> DEFINE f == TxInFlight
  <2>1. /\ n \in 1 .. Capacity
        /\ written' = written + n /\ received' = received
             => Accepts(n, f, f', received, received', written, written')
        /\ received' = received + n /\ written' = written
             => Delivers(n, f, f', received, received', written, written')
        /\ received' = received /\ written' = written => f' = f
    BY <1>1, ChannelMoves, Zenon
  <2>2. /\ Accepts(n, f, f', received, received', written, written') => TxChannel!Accept(n)
        /\ Delivers(n, f, f', received, received', written, written') => TxChannel!Deliver(n)
    BY DEF Accepts, Delivers, TxChannel!Accept, TxChannel!Deliver, Capacity
  <2>3. TxChannel!Accept(n) \/ TxChannel!Deliver(n) => TxChannel!ChannelNext
    BY <2>1 DEF TxChannel!ChannelNext, Capacity
  <2> HIDE DEF f
  <2> QED
    BY <2>1, <2>2, <2>3 DEF TxChannel!channelVars, f
<1>4. ASSUME NEW n \in 1 .. BUF_LEN
      PROVE  /\ given' = given + n /\ UNCHANGED delivered => RxChannel!ChannelNext
             /\ delivered' = delivered + n /\ UNCHANGED given => RxChannel!ChannelNext
             /\ UNCHANGED << delivered, given >> => UNCHANGED RxChannel!channelVars
  <2> DEFINE f == RxInFlight
  <2>1. /\ n \in 1 .. Capacity
        /\ given' = given + n /\ delivered' = delivered
             => Accepts(n, f, f', delivered, delivered', given, given')
        /\ delivered' = delivered + n /\ given' = given
             => Delivers(n, f, f', delivered, delivered', given, given')
        /\ delivered' = delivered /\ given' = given => f' = f
    BY <1>1, ChannelMoves, Zenon
  <2>2. /\ Accepts(n, f, f', delivered, delivered', given, given') => RxChannel!Accept(n)
        /\ Delivers(n, f, f', delivered, delivered', given, given') => RxChannel!Deliver(n)
    BY DEF Accepts, Delivers, RxChannel!Accept, RxChannel!Deliver, Capacity
  <2>3. RxChannel!Accept(n) \/ RxChannel!Deliver(n) => RxChannel!ChannelNext
    BY <2>1 DEF RxChannel!ChannelNext, Capacity
  <2> HIDE DEF f
  <2> QED
    BY <2>1, <2>2, <2>3 DEF RxChannel!channelVars, f
<1> QED
  BY <1>2, <1>3, <1>4 DEF StreamStep

\* What is between the program and the host of the fast driver.
LEMMA FastInFlight ==
    ASSUME FastInv
    PROVE  InFlight
<1>1. JtagUartTypeOK /\ TxInOrder /\ RxInOrder /\ Len(hwTx) <= FIFO_DEPTH
  BY DEF FastInv, SpaceKept
<1>2. OnTheWay(TxInFlight, received, written)
  BY <1>1, StreamTypes, OutIsRun DEF TxInOrder, TxInFlight
<1>3. OnTheWay(RxInFlight, delivered, given)
  BY <1>1, StreamTypes, InIsRun DEF RxInOrder, RxInFlight
<1> QED
  BY <1>2, <1>3 DEF InFlight

\* Every step moves one end of each stream at most, and no further than a ring.
LEMMA FastStreamStep ==
    ASSUME FastInv, JtagUartNext
    PROVE  StreamStep
<1> USE DEF StreamStep
<1>1. CASE CallOnly
  BY <1>1 DEF CallOnly, WriteCall, ReadCall, CloseCall, SetTimeout, WriteLoad, WriteKick, WriteWait,
        WriteCheck, WriteReturn, ReadLoad, ReadEmpty, ReadWait, ReadCheck, ReadEnable, ReadReturn,
        CloseReturn, txStream, rxStream
<1>2. CASE HandlerOnly \/ IsrReceive \/ IsrTransmit
  BY <1>2 DEF HandlerOnly, IsrEnter, IsrPoll, IsrReceiveEnd, IsrTransmitEnd, Timeout, HostPoll,
              HostPlug, IsrReceive, IsrTransmit, txStream, rxStream
<1>3. CASE WriteCopy
  BY <1>3, FastInvWriteCopy DEF WriteCopy, rxStream
<1>4. CASE ReadCopy
  BY <1>4, FastInvReadCopy DEF ReadCopy, txStream
<1>5. 1 \in 1 .. BUF_LEN
  BY UartSizes
<1>6. CASE HostTake
  BY <1>5, <1>6 DEF HostTake, rxStream
<1>7. CASE HostGive
  BY <1>5, <1>7 DEF HostGive, txStream
<1>8. \/ CallOnly \/ HandlerOnly \/ WriteCopy \/ ReadCopy \/ IsrReceive \/ IsrTransmit
      \/ HostTake \/ HostGive
  BY DEF JtagUartNext, CallStep, WriteStep, ReadStep, IsrStep, HostStep, CallOnly, HandlerOnly
<1> QED
  BY <1>1, <1>2, <1>3, <1>4, <1>6, <1>7, <1>8

\* The polled driver's rings are empty: its streams are those of the FIFOs.
LEMMA PolledInFlight ==
    ASSUME PolledInv, AtRest
    PROVE  InFlight
<1>1. Queue(hwTx, received, written, MaxOut) /\ Queue(hwRx, delivered, given, MaxIn)
  BY DEF PolledInv
<1>2. MaxOut \in Nat /\ MaxIn \in Nat /\ BUF_LEN \in Nat /\ BUF_LEN >= 2 /\ 0 \in Slots
  BY UartSizes DEF Slots
<1>3. /\ hwTx \in Seq(1 .. MaxOut) /\ hwRx \in Seq(1 .. MaxIn)
      /\ Len(hwTx) <= FIFO_DEPTH /\ Len(hwRx) <= FIFO_DEPTH
      /\ Len(hwTx) = written - received /\ Len(hwRx) = given - delivered
      /\ hwTx = Run(received, written) /\ hwRx = Run(delivered, given)
      /\ received \in Nat /\ written \in Nat /\ delivered \in Nat /\ given \in Nat
      /\ received <= written /\ delivered <= given
  BY <1>1, <1>2, QueueHolds
<1>4. hwTx \in Seq(Nat) /\ hwRx \in Seq(Nat)
  BY <1>3, RunElements
<1>5. Size(0, 0) = 0 /\ \A buf, d : Holds(buf, 0, 0, d)
  <2>1. Size(0, 0) = IF 0 <= 0 THEN 0 - 0 ELSE 0 + BUF_LEN - 0
    BY <1>2, RingArithmetic, Zenon
  <2>2. Size(0, 0) = 0 /\ 0 .. Size(0, 0) - 1 = {}
    BY <2>1
  <2> QED
    BY <2>2 DEF Holds
<1>6. OnTheWay(TxInFlight, received, written)
  <2>1. received + Len(hwTx) = written /\ written = received + Len(hwTx) + 0
    BY <1>3
  <2>2. OnTheWay(hwTx \o Ring(tx_buf, 0, 0), received, written)
    BY <1>2, <1>3, <1>4, <1>5, <2>1, OutIsRun
  <2> QED
    BY <2>2 DEF AtRest, TxInFlight
<1>7. OnTheWay(RxInFlight, delivered, given)
  <2>1. delivered + Size(0, 0) = delivered /\ given = delivered + Size(0, 0) + Len(hwRx)
    BY <1>3, <1>5
  <2>2. OnTheWay(Ring(rx_buf, 0, 0) \o hwRx, delivered, given)
    BY <1>2, <1>3, <1>4, <1>5, <2>1, InIsRun
  <2> QED
    BY <2>2 DEF AtRest, RxInFlight
<1> QED
  BY <1>6, <1>7 DEF InFlight

\* A byte at either end of a FIFO is a byte at that end of the stream.
LEMMA MovesAreStreamSteps ==
    ASSUME TxMove, RxMove
    PROVE  StreamStep
<1>1. 1 \in 1 .. BUF_LEN
  BY UartSizes
<1> QED
  BY <1>1 DEF TxMove, RxMove, StreamStep

\* Nothing is on its way at first.
LEMMA ChannelsInit ==
    ASSUME InFlight, written = 0, received = 0, given = 0, delivered = 0
    PROVE  TxChannel!ChannelInit /\ RxChannel!ChannelInit
<1>1. Run(0, 0) = << >>
  BY RunEnds
<1> QED
  BY <1>1 DEF InFlight, OnTheWay, TxChannel!ChannelInit, RxChannel!ChannelInit

\* Standing still keeps the invariants.
LEMMA FastInvStutters ==
    ASSUME FastInv, UNCHANGED vars
    PROVE  FastInv'
<1>1. UNCHANGED << txRing, rxRing, irq_enable, activity, call, handler, device, txStream, rxStream >>
  BY DEF vars
<1>2. UNCHANGED << tx_buf, tx_in, tx_out, rx_buf, rx_in, rx_out, irq_enable, host_inactive, timeout,
                   pc, nonblock, count, done, in, out, ret, isr, ctl, data_avail, hwTx, hwRx, ac,
                   connected, written, received, given, delivered >>
  BY <1>1 DEF txRing, rxRing, activity, call, handler, device, txStream, rxStream
<1>3. /\ JtagUartTypeOK /\ CallInRange /\ PointersSafe /\ SpaceKept /\ TxNotStalled /\ RxNotStalled
      /\ TxInOrder /\ RxInOrder
  BY DEF FastInv
<1>4. JtagUartTypeOK'
  BY <1>2, <1>3 DEF JtagUartTypeOK
<1>5. CallInRange' /\ PointersSafe' /\ SpaceKept' /\ TxNotStalled' /\ RxNotStalled'
  BY <1>2, <1>3 DEF CallInRange, PointersSafe, SpaceKept, TxNotStalled, RxNotStalled, Size
<1>6. TxInOrder' /\ RxInOrder'
  BY <1>1, <1>2, <1>3, StreamsUnchanged
<1> QED
  BY <1>4, <1>5, <1>6 DEF FastInv

\* And that of the polled driver.
LEMMA PolledInvStutters ==
    ASSUME UNCHANGED Small!vars
    PROVE  PolledInv => PolledInv'
BY DEF PolledInv, PolledCall, Queue, Run, Small!vars, Small!call, Small!txStream, Small!rxStream

\* Standing still moves no stream.
LEMMA StreamStutters ==
    ASSUME UNCHANGED vars
    PROVE  StreamStep
BY DEF vars, txStream, rxStream, StreamStep

----------------------------------------------------------------------------
(* The theorems. *)

\* altera_avalon_jtag_uart_read.c, _write.c and _init.c by themselves, used in both
\* directions at once: the device is never overrun, no character waits in a ring with
\* the interrupt that moves it off, and each direction is a byte channel.
THEOREM FastDriver ==
    JtagUartSpec => /\ [](JtagUartTypeOK /\ FifoNotOverrun /\ TxNotStalled /\ RxNotStalled)
                    /\ ImplementsTxChannel /\ ImplementsRxChannel
<1>1. JtagUartInit => FastInv
  BY FastInvInit
<1>2. FastInv /\ [JtagUartNext]_vars => FastInv'
  <2>1. ASSUME FastInv, UNCHANGED vars
        PROVE  FastInv'
    BY <2>1, FastInvStutters
  <2> QED
    BY <2>1, FastInvStep
<1>3. FastInv => JtagUartTypeOK /\ FifoNotOverrun /\ TxNotStalled /\ RxNotStalled
  BY DEF FastInv, SpaceKept, FifoNotOverrun, WSPACE
<1>4. FastInv => InFlight
  BY FastInFlight
<1>5. JtagUartInit /\ InFlight => TxChannel!ChannelInit /\ RxChannel!ChannelInit
  BY ChannelsInit DEF JtagUartInit
<1>6. FastInv /\ InFlight /\ InFlight' /\ [JtagUartNext]_vars =>
        /\ [TxChannel!ChannelNext]_(TxChannel!channelVars)
        /\ [RxChannel!ChannelNext]_(RxChannel!channelVars)
  BY FastStreamStep, StreamStutters, ChannelSteps, Zenon
<1> QED
  BY <1>1, <1>2, <1>3, <1>4, <1>5, <1>6, PTL
     DEF JtagUartSpec, ImplementsTxChannel, ImplementsRxChannel, TxChannel!ChannelSpec,
         RxChannel!ChannelSpec

\* The smaller promise of the polled driver, by itself: its channels are no longer than
\* the FIFOs of the device, and "EIO" cannot be the result of a call.
THEOREM PolledDriver ==
    Small!SmallUartSpec => /\ [](Small!SmallUartTypeOK /\ Small!NeverEio)
                           /\ Small!ImplementsTxChannel /\ Small!ImplementsRxChannel
<1>1. Small!SmallUartInit => PolledInv
  BY PolledInvInit
<1>2. PolledInv /\ [Small!SmallUartNext]_(Small!vars) => PolledInv'
  BY PolledInvStep, PolledInvStutters
<1>3. PolledInv => Small!SmallUartTypeOK /\ Small!NeverEio
  BY PolledInvMeans
<1>4. Small!SmallUartInit => Small!TxChannel!ChannelInit /\ Small!RxChannel!ChannelInit
  BY DEF Small!SmallUartInit, Small!TxChannel!ChannelInit, Small!RxChannel!ChannelInit
<1>5. PolledInv /\ [Small!SmallUartNext]_(Small!vars) =>
        /\ [Small!TxChannel!ChannelNext]_(Small!TxChannel!channelVars)
        /\ [Small!RxChannel!ChannelNext]_(Small!RxChannel!channelVars)
  <2>1. ASSUME PolledInv, Small!SmallUartNext
        PROVE  /\ [Small!TxChannel!ChannelNext]_(Small!TxChannel!channelVars)
               /\ [Small!RxChannel!ChannelNext]_(Small!RxChannel!channelVars)
    BY <2>1, PolledInvStep, FifoSteps
  <2>2. ASSUME UNCHANGED Small!vars
        PROVE  UNCHANGED << Small!TxChannel!channelVars, Small!RxChannel!channelVars >>
    BY <2>2 DEF Small!vars, Small!txStream, Small!rxStream, Small!TxChannel!channelVars,
                Small!RxChannel!channelVars
  <2> QED
    BY <2>1, <2>2
<1> QED
  BY <1>1, <1>2, <1>3, <1>4, <1>5, PTL
     DEF Small!SmallUartSpec, Small!ImplementsTxChannel, Small!ImplementsRxChannel,
         Small!TxChannel!ChannelSpec, Small!RxChannel!ChannelSpec

\* The initial states of both builds.
LEMMA UartInvInit ==
    ASSUME UartInit
    PROVE  UartInv
<1>1. CASE small
  <2>1. Small!SmallUartInit /\ AtRest
    BY DEF UartInit, JtagUartInit, StateInstance, Small!SmallUartInit, AtRest
  <2> QED
    BY <1>1, <2>1, PolledInvInit DEF UartInv
<1>2. CASE ~small
  BY <1>2, FastInvInit DEF UartInit, UartInv
<1> QED
  BY <1>1, <1>2

\* A step of either build keeps its invariant and moves the streams as channels may.
LEMMA UartInvStep ==
    ASSUME UartInv, [UartNext]_<< vars, smallOnly >>
    PROVE  UartInv' /\ StreamStep
<1>1. CASE UNCHANGED << vars, smallOnly >>
  <2>1. UNCHANGED Small!vars /\ (AtRest => AtRest')
    BY <1>1 DEF vars, smallOnly, AtRest, txRing, rxRing, handler, call, device, txStream, rxStream,
                Small!vars, Small!call, Small!txStream, Small!rxStream
  <2>2. UNCHANGED vars /\ UNCHANGED small
    BY <1>1 DEF smallOnly
  <2> QED
    BY <2>1, <2>2, FastInvStutters, PolledInvStutters, StreamStutters DEF UartInv
<1>2. CASE small = FALSE /\ JtagUartNext /\ UNCHANGED smallOnly
  BY <1>2, FastInvStep, FastStreamStep DEF UartInv, smallOnly
<1>3. CASE small = TRUE /\ Small!SmallUartNext /\ UNCHANGED << fastOnly, small >>
  <2>1. AtRest /\ UNCHANGED << txRing, rxRing, irq_enable, handler >> => AtRest'
    BY DEF AtRest, txRing, rxRing, handler
  <2> QED
    BY <1>3, <2>1, PolledInvStep, MovesAreStreamSteps DEF UartInv, fastOnly
<1> QED
  BY <1>1, <1>2, <1>3 DEF UartNext

\* What the invariant says of either build.
LEMMA UartInvMeans ==
    ASSUME UartInv
    PROVE  NeverStuck /\ InFlight
<1>1. CASE ~small
  BY <1>1, FastInFlight DEF UartInv, FastInv, SpaceKept, NeverStuck, FifoNotOverrun, WSPACE
<1>2. CASE small
  <2>1. PolledInv /\ AtRest
    BY <1>2 DEF UartInv
  <2>2. Small!SmallUartTypeOK /\ Small!NeverEio /\ Len(hwTx) <= FIFO_DEPTH
    BY <2>1, PolledInvMeans
  <2>3. FifoNotOverrun /\ TxNotStalled /\ RxNotStalled
    BY <2>1, <2>2 DEF AtRest, FifoNotOverrun, TxNotStalled, RxNotStalled
  <2> QED
    BY <1>2, <2>1, <2>2, <2>3, PolledInFlight DEF NeverStuck
<1> QED
  BY <1>1, <1>2

\* In both builds, whatever the program asks for and whenever interrupts are taken,
\* the alarm fires or the host comes and goes, neither direction gets stuck.
THEOREM UartNeverStuck == UartSpec => []NeverStuck
<1>1. UartInit => UartInv
  BY UartInvInit
<1>2. UartInv /\ [UartNext]_<< vars, smallOnly >> => UartInv'
  BY UartInvStep
<1>3. UartInv => NeverStuck
  BY UartInvMeans
<1> QED
  BY <1>1, <1>2, <1>3, PTL DEF UartSpec

\* In both builds each direction is a byte channel: in order, nothing lost or twice.
THEOREM UartChannels == UartSpec => ImplementsChannels
<1>1. UartInit => UartInv
  BY UartInvInit
<1>2. UartInv /\ [UartNext]_<< vars, smallOnly >> => UartInv'
  BY UartInvStep
<1>3. UartInv => InFlight
  BY UartInvMeans
<1>4. UartInit /\ InFlight => TxChannel!ChannelInit /\ RxChannel!ChannelInit
  BY ChannelsInit DEF UartInit, JtagUartInit
<1>5. UartInv /\ InFlight /\ InFlight' /\ [UartNext]_<< vars, smallOnly >> =>
        /\ [TxChannel!ChannelNext]_(TxChannel!channelVars)
        /\ [RxChannel!ChannelNext]_(RxChannel!channelVars)
  BY UartInvStep, ChannelSteps, Zenon
<1> QED
  BY <1>1, <1>2, <1>3, <1>4, <1>5, PTL
     DEF UartSpec, ImplementsChannels, ImplementsTxChannel, ImplementsRxChannel,
         TxChannel!ChannelSpec, RxChannel!ChannelSpec
================================================================================
