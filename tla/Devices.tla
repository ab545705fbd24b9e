-------------------------------- MODULE Devices --------------------------------
(* DMA channels and flash devices of the HAL: lists drivers register in, opening by  *)
(* name, and the calls that go through an opened device to the driver's functions.  *)
EXTENDS Integers, Sequences

CONSTANTS Kind,            \* "tx", "rx" and "flash": each has a list
          Name, NoName,    \* NoName stands for NULL
          MaxDevices       \* bound: devices registered

DevicesAssumption ==
  Kind \subseteq {"tx", "rx", "flash"} /\ NoName \notin Name /\ MaxDevices \in Nat

VARIABLES list,            \* of each kind, the first entry first
          made,            \* devices so far
          opened,          \* what each kind's last open gave, and what was newest then
          result
vars == << list, made, opened, result >>

NULL == 0
ENODEV == -19
EINVAL == -22

DevicesInit ==
  /\ list = [kind \in Kind |-> << >>] /\ made = 0
  /\ opened = [kind \in Kind |-> [name |-> NoName, dev |-> NULL, newest |-> NULL, closed |-> FALSE]]
  /\ result = 0

InsertLast(queue, dev) == Append(queue, dev)        \* mutant: at the end of the list
alt_llist_insert(queue, dev) == << dev >> \o queue

\* alt_dev_llist_insert: at the head of the kind's list.
Register(kind, open) ==
  \E name \in Name \cup {NoName} :
    /\ made < MaxDevices
    /\ IF name = NoName THEN result' = EINVAL /\ UNCHANGED << list, made >>
       ELSE /\ made' = made + 1 /\ result' = 0
            /\ list' = [list EXCEPT ![kind] =
                          alt_llist_insert(@, [dev |-> made + 1, name |-> name, open |-> open])]
    /\ UNCHANGED opened
alt_dma_chan_reg(kind) == kind \in {"tx", "rx"} /\ Register(kind, FALSE)
\* A flash device may have an open of its own, which may refuse.
alt_flash_device_register == "flash" \in Kind /\ \E open \in BOOLEAN : Register("flash", open)

Named(kind, name) == {k \in DOMAIN list[kind] : list[kind][k].name = name}
alt_find_dev(kind, name) ==
  IF Named(kind, name) = {} THEN [dev |-> NULL, name |-> name, open |-> FALSE]
  ELSE list[kind][CHOOSE k \in Named(kind, name) : \A j \in Named(kind, name) : k <= j]

Newest(kind, name) ==
  LET devices == {list[kind][k].dev : k \in Named(kind, name)} IN
  IF devices = {} THEN NULL ELSE CHOOSE d \in devices : \A e \in devices : d >= e

Opens(kind, name, dev) ==
  /\ opened' = [opened EXCEPT ![kind] =
       [name |-> name, dev |-> dev, newest |-> Newest(kind, name), closed |-> FALSE]]
  /\ UNCHANGED << list, made >>

\* ENODEV goes to errno, and NULL to the caller.
alt_dma_chan_open(kind, name) ==
  /\ kind \in {"tx", "rx"}
  /\ Opens(kind, name, alt_find_dev(kind, name).dev)
  /\ result' = IF alt_find_dev(kind, name).dev = NULL THEN ENODEV ELSE 0

\* The device's own open, if it has one, decides what the caller gets; errno is left.
alt_flash_open_dev(name) ==
  /\ "flash" \in Kind
  /\ LET found == alt_find_dev("flash", name) IN
       \E dev \in {found.dev} \cup (IF found.open THEN {NULL} ELSE {}) : Opens("flash", name, dev)
  /\ UNCHANGED result

\* send and space, or prepare, and ioctl: a channel that failed to open is refused, any
\* other is the driver's.
alt_dma_chan_operation(kind) ==
  /\ kind \in {"tx", "rx"}
  /\ result' = IF opened[kind].dev = NULL THEN ENODEV ELSE 0
  /\ UNCHANGED << list, made, opened >>

\* Lock, write, read, info, erase and write_block have no such test: the caller looks
\* at what open gave, and what the driver says is returned.
alt_flash_operation ==
  /\ "flash" \in Kind /\ opened["flash"].dev # NULL
  /\ result' = 0 /\ UNCHANGED << list, made, opened >>

\* The caller gives the device up; the list keeps it, and it can be opened again.  With
\* NULL nothing happens.
alt_flash_close_dev ==
  /\ "flash" \in Kind /\ opened["flash"].dev # NULL
  /\ opened' = [opened EXCEPT !["flash"].dev = NULL, !["flash"].closed = TRUE] /\ UNCHANGED << list, made, result >>

DevicesNext ==
  \/ \E kind \in Kind : alt_dma_chan_reg(kind) \/ alt_dma_chan_operation(kind)
  \/ alt_flash_device_register \/ alt_flash_operation \/ alt_flash_close_dev
  \/ \E kind \in Kind, name \in Name : alt_dma_chan_open(kind, name)
  \/ \E name \in Name : alt_flash_open_dev(name)

----------------------------------------------------------------------------
\* An open that fails without need is as wrong as one that finds another device.
MayRefuse(kind, dev) == \E k \in DOMAIN list[kind] : list[kind][k].dev = dev /\ list[kind][k].open

\* What an open gave leads to the device of that name that was registered last when it
\* was opened, in the list of its own kind, whatever was registered since; it gave nothing
\* only when no device had that name or when that very device has an open that refuses.
OpenedIsNewest ==
  \A kind \in Kind :
    LET got == opened[kind] IN
    /\ got.dev \in {NULL, got.newest}
    /\ got.dev = NULL => got.newest = NULL \/ got.closed \/ MayRefuse(kind, got.newest)
    /\ got.dev # NULL => \E k \in DOMAIN list[kind] : /\ list[kind][k].dev = got.dev
                                                     /\ list[kind][k].name = got.name
================================================================================
