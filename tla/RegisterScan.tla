---------------------------- MODULE RegisterScan ----------------------------
(***************************************************************************)
(* What the management side of altera_max_10.v promises, with the MDIO     *)
(* frames left out: the registers of a device are read in order into a     *)
(* snapshot; the snapshot is saved; register 0 of the device is set to a   *)
(* loopback word; everything is read again; then traffic may start.  A     *)
(* reset starts over.  If it cuts a write short, the device may be left    *)
(* with a wrong value in one of a few registers, but never while a scan    *)
(* runs.                                                                   *)
(***************************************************************************)
EXTENDS Naturals

CONSTANTS
    Registers,      \* registers of the snapshot, 0 .. Cardinality - 1
    Last,           \* the last of them
    Device,         \* registers of the device,
    Address(_),     \* at these addresses of it,
    TornDevice,     \* and those of them a write cut short may hit
    Values,
    Blank,          \* the value of a register that has not been read
    LoopbackWords

VARIABLES phase, next, snapshot, device

scanVars == <<phase, next, snapshot, device>>

Init ==
    /\ phase = "off"
    /\ next = 0
    /\ snapshot = [r \in Registers |-> Blank]
    /\ device \in [Device -> Values]

Start ==
    /\ phase = "off"
    /\ phase' = "scan"
    /\ snapshot = [r \in Registers |-> Blank]
    /\ UNCHANGED <<next, snapshot, device>>

Stored == [snapshot EXCEPT ![next] = device[Address(next)]]

ReadRegister ==
    /\ phase \in {"scan", "rescan"}
    /\ snapshot' = Stored
    /\ IF next < Last
       THEN next' = next + 1 /\ phase' = phase
       ELSE next' = 0 /\ phase' = (IF phase = "scan" THEN "save" ELSE "traffic")
    /\ UNCHANGED device

Saved ==
    /\ phase = "save"
    /\ phase' = "configure"
    /\ UNCHANGED <<next, snapshot, device>>

Configure ==
    /\ phase = "configure"
    /\ phase' = "rescan"
    /\ \E w \in LoopbackWords : device' = [device EXCEPT ![Address(0)] = w]
    /\ UNCHANGED <<next, snapshot>>

\* A reset may come with the last edge of a read or of a write.
Reset ==
    /\ phase # "off"
    /\ phase' = "off"
    /\ next' = 0
    /\ \/ UNCHANGED <<snapshot, device>>
       \/ phase \in {"scan", "rescan"} /\ snapshot' = Stored /\ UNCHANGED device
       \/ /\ phase = "configure"
          /\ \E w \in LoopbackWords : device' = [device EXCEPT ![Address(0)] = w]
          /\ UNCHANGED snapshot

Forget ==
    /\ phase = "off"
    /\ snapshot' = [r \in Registers |-> Blank]
    /\ UNCHANGED <<phase, next, device>>

DeviceTorn ==
    /\ device' \in [Device -> Values]
    /\ \E r \in TornDevice : device' = [device EXCEPT ![r] = device'[r]]

Tear ==
    /\ phase = "off"
    /\ DeviceTorn
    /\ UNCHANGED <<phase, next, snapshot>>

\* Both happen on one edge.
ForgetAndTear ==
    /\ phase = "off"
    /\ snapshot' = [r \in Registers |-> Blank]
    /\ DeviceTorn
    /\ UNCHANGED <<phase, next>>

Next == Start \/ ReadRegister \/ Saved \/ Configure \/ Reset
        \/ Forget \/ Tear \/ ForgetAndTear

\* Every step of a bring-up that is not reset is taken.
Fairness == WF_scanVars(Start \/ ReadRegister \/ Saved \/ Configure)

Spec == Init /\ [][Next]_scanVars /\ Fairness
=============================================================================
