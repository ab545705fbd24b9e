-------------------------------- MODULE FdPool ---------------------------------
(* What the HAL promises of file descriptors: a pool in which the three standard  *)
(* descriptors are always open, an open takes the lowest free one, a device that  *)
(* is locked through one descriptor is not opened through another, and a call     *)
(* that fails changes nothing.                                                    *)
EXTENDS Integers

CONSTANTS Fd, Device, Driver, NullDevice    \* drivers: devices and file systems

VARIABLES open,      \* descriptor |-> what it refers to
          locked     \* descriptors with exclusive access
poolVars == << open, locked >>

PoolInit == open = [f \in 0 .. 2 |-> NullDevice] /\ locked = {}

LowestFree(f) ==
  f \in Fd \ DOMAIN open /\ \A g \in Fd \ DOMAIN open : f <= g

Take(f, d) ==
  /\ LowestFree(f)
  /\ d \in Device => \A g \in locked : open[g] # d
  /\ open' = [g \in DOMAIN open \cup {f} |-> IF g = f THEN d ELSE open[g]]
  /\ UNCHANGED locked

Drop(f) ==
  /\ f \in DOMAIN open /\ f > 2
  /\ open' = [g \in DOMAIN open \ {f} |-> open[g]] /\ locked' = locked \ {f}

\* Before the program starts a standard descriptor may be given another device.
Redirect(f, d) ==
  /\ f \in 0 .. 2 /\ locked = {}
  /\ open' = [open EXCEPT ![f] = d] /\ UNCHANGED locked

Lock(f) == f \in DOMAIN open /\ locked' = locked \cup {f} /\ UNCHANGED open
Unlock(f) == f \in DOMAIN open /\ locked' = locked \ {f} /\ UNCHANGED open

PoolNext ==
  \E f \in Fd :
    \/ Drop(f) \/ Lock(f) \/ Unlock(f)
    \/ \E d \in Driver : Take(f, d) \/ Redirect(f, d)

PoolSpec == PoolInit /\ [][PoolNext]_poolVars
================================================================================
