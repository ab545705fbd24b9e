------------------------------ MODULE ByteChannel ------------------------------
(* What a byte-stream driver promises in one direction: bytes come out in the   *)
(* order they went in, none lost, none twice, and never more than Capacity of   *)
(* them are on the way.  A byte is the position at which it was accepted.       *)
EXTENDS Naturals, Sequences

CONSTANT Capacity

VARIABLES inFlight,   \* bytes accepted and not yet delivered, oldest first
          accepted,   \* how many bytes the channel has accepted
          delivered   \* how many bytes it has handed over

channelVars == << inFlight, accepted, delivered >>

ChannelInit == inFlight = << >> /\ accepted = 0 /\ delivered = 0

\* The producer hands over n more bytes.
Accept(n) ==
  /\ Len(inFlight) + n <= Capacity
  /\ inFlight' = inFlight \o [i \in 1 .. n |-> accepted + i]
  /\ accepted' = accepted + n
  /\ UNCHANGED delivered

\* The consumer takes the n oldest bytes: they are the next n ever accepted.
Deliver(n) ==
  /\ n <= Len(inFlight)
  /\ \A i \in 1 .. n : inFlight[i] = delivered + i
  /\ inFlight' = SubSeq(inFlight, n + 1, Len(inFlight))
  /\ delivered' = delivered + n
  /\ UNCHANGED accepted

ChannelNext == \E n \in 1 .. Capacity : Accept(n) \/ Deliver(n)

ChannelSpec == ChannelInit /\ [][ChannelNext]_channelVars
================================================================================
