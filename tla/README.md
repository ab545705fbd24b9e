# A verification of altera_max_10

`altera_max_10.v` brings up a Marvell 88E1111 Ethernet PHY from a MAX 10 FPGA: it
reads all 32 registers of the PHY over MDIO, saves them in on-chip memory, sets the
PHY to loopback, reads and saves everything once more and sends one Ethernet frame.
A Nios II program prints the memory over a JTAG UART, on Altera's hardware
abstraction layer (HAL). This directory holds TLA+ modules of the hardware, of the
program and of the HAL code beneath it, TLC configurations that check them, and
TLAPS proofs.

A line number without a file is of `src/altera_max_10/altera_max_10.v`. `HAL` is
`src/altera_max_10/software/altera_max_10_bsp/HAL`, `drivers` is beside it.

## 1. Inventory

### Hardware

| Part | Where | State | Operations | Interacts with |
|---|---|---|---|---|
| Management state machine | 302-554 | `current_state`, five counters, the command being shifted, the snapshot `phy_reg_0..31`, `set_reg0_to_loopback`, `reg0_in_loopback` | one per state, an edge of `enet_mdc_clk` each | the PHY over the pin `ENET_MDIO`; the RAM writer by `write_phy_reg_space_to_ram` / `phy_reg_write_done`; the frame sender by `start_loopback_traffic` |
| PHY management port | not in the repository | its registers, the frame it is in, whether it drives the pin | one per edge of MDC | the pin |
| RAM writer | 83-219 | address, strobe and data of the memory port, `ram_writes_per_phy_addr`, `phy_regs_written_to_ram`, `dummy_wait`, `add_delimiter` | one per branch of the always block, an edge of `ENETA_RX_CLK` each | the state machine (handshake, and it reads the snapshot directly); the memory |
| On-chip memory | 64-80 | 4096 words; the processor's program is in the same memory | a write on the edge that finds the strobe | the RAM writer on port s2, the processor on port s1 |
| Loopback frame sender | 556-683 | `to_phy_cur_state`, seven counters, `eneta_tx_d`, `reg_LED0` | one per field, an edge of `ENETA_RX_CLK` each | the state machine |
| Clocks and reset | 22, 114, 328, 393, 580, 637 | `CPU_RESETn`, an asynchronous push button | press, release | every block samples it on its own clock |
| MDC divider, heartbeat LEDs | 705-755 | counters | edges of the board clocks | the divider makes `enet_mdc_clk` |

### Software

| Part | Where | State | Interacts with |
|---|---|---|---|
| Nios II program | `software/altera_max_10/altera_max_10.c` | locals of `readAllMem`, `print_data` | the memory, which the RAM writer may be writing; the UART through `alt_printf` |
| JTAG UART driver | `drivers/src`, `HAL/src/alt_putstr.c`, `alt_putchar.c`, `alt_getchar.c` | two ring buffers, interrupt enables, the host's silence | its own interrupt, an alarm, a debug host that comes and goes |
| Alarms | `alt_alarm_start.c`, `alt_tick.c`, `alt_llist.h` | one circular list | callbacks that start and stop alarms while the tick walks the list |
| Clock, busy sleep | `alt_gettod.c`, `alt_settod.c`, `alt_times.c`, `alt_busy_sleep.c` | tick counter, offset | the tick, between two loads of a 64-bit counter |
| File descriptors | `alt_open.c`, `alt_close.c`, `alt_fd_lock.c`, ... | table of descriptors, device lists | drivers whose `open` may fail |
| Heap and stack check | `alt_sbrk.c`, `alt_stack.h` | break, stack limit | the stack; interrupts on a stack of their own |
| Interrupts, exceptions | `alt_irq_handler.c`, `alt_iic*.c`, `alt_legacy_irq.h`, `alt_exception_entry.S`, ... | table of handlers, masks, the processor's registers | program and interrupt routines that change the table |
| Profiler | `alt_gmon.c`, `alt_mcount.S` | lists of functions and arcs, slab | interrupt routines that are profiled as well |
| Log | `alt_log_printf.c`, `alt_log_printf.h` | one buffer, one port | program and interrupt routines, unlocked |
| Start-up, exit | `alt_main.c`, `alt_load.c`, `crt0.S`, `alt_do_ctors.c`, ... | memory, build options | the board's button, which resets the processor |
| DMA and flash devices, caches | `alt_dma_*.c`, `alt_flash_dev.c`, `alt_*cache*.c` | lists; lines of the cache | drivers; devices that read memory |

The hard behaviours are all between parts. Two clock domains share registers with no
synchroniser; their handshake is used twice in a bring-up and an answer takes time to
be withdrawn; a reset can fall into the middle of an MDIO frame and does not reach
the PHY; counters are compared before they are incremented, so every count has its
own off-by-one; the memory the writer fills is where the program is. In the software
almost every structure is shared between the program and interrupt routines, mostly
without disabling interrupts, and several invariants live in a comparison that is
made only sometimes (the stack limit, the highest descriptor).

## 2. Modules

```
Max10Signals                        registers that blocks share, sizes, CPU_RESETn
  MdioMaster                        management state machine
    PhyDevice                       the PHY at the other end of the pin (external)
  RamWriter                         RAM writer and the memory port
  LoopbackTx                        frame sender
MdioLink  = PhyDevice + the button             implements RegisterScan
NiosDump  = RamWriter + the button + endless requests + the program, a line at a time
NiosConsole                         a line of the dump, a character at a time
Max10Top  = MdioLink + RamWriter + LoopbackTx  implements MdioLink

JtagUart, SmallUart                 both implement ByteChannel, once per direction
Alarms                              implements AlarmSet
TimeOfDay, BusySleep
FileTable                           implements FdPool
DirectFiles                         the build without a table; MCFiles puts the two side by side
Heap   Profiler   CacheFlush   Interrupts   Exceptions
LogPort   LogFormat   Startup   Devices

MCMdioLink MCMax10Top MCProgram     instances for TLC
MCUart MCTime MCFiles MCMemory MCCpu MCSystem
Max10Top_proof Program_proof Uart_proof Time_proof
Heap_proof Interrupts_proof FileTable_proof System_proof
```

### Hardware

**Max10Signals** declares the registers one always block assigns and another reads. A
Verilog vector is a sequence of bits, most significant first. It holds the push button as
well: a press may come at any moment, at most `MaxPresses` times, and lasts at least
`ResetMdcEdges` edges of one clock and `ResetRxEdges` of the other. A behaviour starts with
the button pressed, as `src/cocotb/testbench.py:15` does.

**MdioMaster** has one action per state of `current_state`: an edge of `enet_mdc_clk`
with the state register (328-334), the next-state logic (336-391) and the datapath
(393-554) together. `Goto` is the reset's override of the next state. The datapath
looks only at `current_state`, so on the edge that samples a reset it still does the
work of the old state. The bit selected below bit 0 (the last of a write command,
467) is undefined in Verilog and is either bit here. Left out:
`turnaround_z_done` and `turnaround_0_ignored` (never read), `reg_LED1` (equal to
`write_phy_reg_space_to_ram`).

**PhyDevice** is external: a clause 22 slave with the alignment the design's turnaround
and read states rely on. It wants `PreambleBits` ones before a frame, checks start,
operation and PHY address, answers a read after one undriven bit, and takes the data
of a write whoever drives it (the pull-up gives ones). `PinLevels` is the level of the
pin: what is driven, either value if both ends drive, 1 if nobody does. Resets of the
FPGA do not reach it.

**RamWriter** has one action per branch of 114-219 and `RamPort`, the memory's side of the
same edge. A saved word is the pair of a register's number and its value, which is what
`{4'hB, 3'b000, n, 4'h0, phy_reg_n}` encodes. The memory takes the low 12 bits of the
13-bit address (70). **LoopbackTx**: the seven field states differ in the field they
send and the counter they keep, so they are one action indexed by the field.

**MdioLink**: an edge of MDC moves master and PHY together, with the same sampled level;
the RAM writer is reduced to `RamAnswers` and `RamWithdraws`. **Max10Top** puts the real
one in; `LinkSpec` as a property of it (TLC) and `TopStepsLink` (TLAPS) show that it fits.
Edges of the two clocks interleave freely, except that at most `MaxMdcPerRx` edges of the
2.5 MHz MDC fall between two of the receive clock (2.5, 25 or 125 MHz).

**RegisterScan** is what the management side promises, without frames: registers are read
whole and in order, the snapshot is saved, register 0 is set to a loopback word,
everything is read again, traffic starts; a reset starts over.

### Program and UART

**NiosDump** is `main` and `readAllMem` beside the RAM writer, of which blocks are asked
without end (`LinkNext`, the writer without the program): an item of the UART is a
line, which goes in when there is room. **NiosConsole** is `print_data` over the `%x` loop
of `alt_printf`, digit by digit; the width of a word decides the padding.

**JtagUart** is the interrupt-driven driver. Every volatile read of the program is a step;
a handler runs to its end with the program frozen while the host goes on; a byte is its
position in its stream, so a refinement of **ByteChannel** says at once that nothing is
lost, doubled or reordered. **SmallUart** is the polled driver this BSP is built with.

### HAL

**Alarms** keeps the links of the list themselves (`next`, `previous`), changed as
`alt_llist.h` does, one callback a step of `alt_tick`; **AlarmSet** knows only which alarms
are registered and when they are due. **TimeOfDay** loads the counter in two words.
**BusySleep** has the machine word's width as a constant, for the loop that runs from 0.

**FileTable** keeps the table, the flags and `alt_max_fd` as `alt_open`, `alt_get_fd`,
`alt_file_locked`, `alt_release_fd` and `fcntl` do; **FdPool** knows what is open and what
is locked. A call on a descriptor that is not open follows a null pointer in the code
and is left out. **DirectFiles** is the build with `ALT_USE_DIRECT_DRIVERS`. In `MCFiles` one
program makes each call in both builds (`OnDescriptor`): the action of `DirectFiles` beside the
one of `FileTable`, the two drivers giving the same answer when both are asked. An
`ioctl` has its request, for the build with the table looks at it.

**Heap** has both stacks, the check of the stack limit (which is a break: nothing runs
after it) and all four builds. **Profiler** takes `mcount` load by load while interrupt
routines call it whole; an entry is known by its place from the end of its list.
**CacheFlush** is a write-back data cache and an instruction cache with the loops over
lines the calls make.

**Interrupts** takes the functions that change the table store by store, the handler's
loop, and nesting with `alt_irq_interruptible`. **Exceptions** is the entry both interrupts
and exceptions take and the address each returns to. **LogPort** is the shared echo buffer
store by store, **LogFormat** the printf of the log character by character, with the
machine word cut to `Word`. **Startup** goes from reset to `main` and past its end for each
combination of build options, with a reset at any step; `CloseStdout` is the close between
`main` and `exit`, which does something with a table only. **Devices** is registration and
opening of DMA channels and flash.

`MCMax10Top` also states the two claims of comments that its runs refute (section 6). The
modules `MCTime`, `MCFiles`, `MCMemory`, `MCCpu`, `MCSystem`, `MCProgram` and `MCUart` each put
components that share no state (or, in `MCUart`, two builds of one) side by side. A
variable that never changes (`service`, `bench`, `build`, `small`) says which one a behaviour
is about; the others keep their initial values. As they share nothing, an interleaving of
two of them would show nothing that one of them alone does not.

## 3. Runs

| Run | Instance | Distinct states | Shows |
|---|---|---|---|
| `mdio_link` | 32 registers of 16 bits, 5-bit addresses, preamble of 32: the widths of the source | 560,000 | the pin and the frames stay in step, the snapshot is exact, only register 0 is written, the bring-up ends, `MdioLink` implements `RegisterScan` |
| `max10_top` | 2 registers of 2 bits, 2 words each, a frame of 2 fields | 250,000 | memory holds what the PHY held, the program is untouched, strobe, frame, the end of the bring-up; the design implements `MdioLink` |
| `program` | 2 registers of 1 bit, a memory of 9 words; lines of 6 addresses and 129 words | 220,000 | saved blocks are whole, a dump shows them whole, lines read back, requests are answered, the dump ends |
| `uart` | ring of 3, FIFO of 2, 4 bytes out, 3 in | 360,000 | both directions are byte channels, nothing stalls, calls end |
| `time` | 3 alarms, 6 ticks; a counter word of 4; machine words of 7 bits | 320,000 | the list is one ring, alarms are called at their tick, time and sleeps are exact |
| `files` | 5 descriptors, one device, one file system | 111,000 | the table implements the pool, failures change nothing, where both builds agree and where not |
| `memory` | 16 bytes of heap and stack; 4 calls of `mcount`; 3 lines of memory, 2 of cache | 1,600,000 | blocks lie apart and below the stack, no call is lost to the profile, flushes reach every byte |
| `cpu` | 3 interrupts nested; a program of 6 instructions | 1,100,000 | handlers are never half registered, each instruction takes effect once, the urgent is served |
| `system` | echoes of 4 characters, 2 interrupts; formats of 5; 2 resets; 4 devices | 2,059,000 | the log keeps its text, every start finds the memory as linked, the newest device is found |
| `led0`, `delimiters`, `heap_odd` | as `max10_top` without a press; as `memory` | | comments that the code contradicts (section 6) |

Bounds and why they are enough:

* `MaxPresses = 1`. The behaviour starts in a reset, so a run has a bring-up cut at any
  point and a full one after it. A second press would find the design where the first
  did: nothing but the PHY's registers and `dummy_wait` outlives a reset, and both vary.
* `PostRstWait = 22` instead of 12,500,000: the wait lets the PHY come out of a frame that a
  reset cut short, and `LinkAssumption` says how long it must be for that. The 12 edges of
  `COCOTB_SIM` (350) are too few: with them TLC finds the two ends driving the pin together
  after a reset in the middle of an answer. The simulation has no PHY.
* `WaitPeriod` of 7 or 8 instead of 2^18: `dummy_wait` is compared with 0, 5 and 6 only; what
  lies beyond is one value or two.
* `MaxMdcPerRx = 2`: one more than the slowest receive clock against MDC. The second
  snapshot is saved only because an answer is withdrawn sooner than 32 registers are
  read: with 3 TLC finds `SnapshotsSaved` kept, with 60, at these widths, the stale answer taken.
* Frame fields of 2 and 1 bits, words of 2: each counter passes 0, its last value and a
  value between.
* One power-up image of the PHY at the widths of the source, in which all registers differ
  and every bit takes both values; register 0 holds `'h1140`, its default (492).
* `program`: the memory has room for one block and part of a second, so that the writer
  meets the end of the memory. The words of a line have digits 0, 7 and 8 and the
  addresses every length: sign, leading zeros and every step of the padding occur.
* `uart`: `BUF_LEN = 3` is the least with a free, a partly filled and a wrapped run;
  `MaxCount = 2` fills it in one call; a timeout of 2 and 3 alarms lets silence end at any
  point of a call. A behaviour uses one direction: the two rings share only the enable
  word, and each step on it names its own bit.
* `time`: with three alarms a callback can change the list before, at and after the alarm
  being walked. `CallbacksStopOthers` is FALSE: a callback may stop itself and start
  others; one that stops its successor breaks the walk (section 6). The tick rates
  divide a second and whole numbers of long loops are left out of the delays: both
  excluded cases go wrong and are in section 6. At 7 MHz and 3 cycles a microsecond is
  not a whole number of loops, as at the board's 50 and 9.
* `files`: three standard descriptors and two more: the table runs full, and a search can
  stop before, at and behind the highest open descriptor.
* `memory`: requests of -4 to 8 bytes, aligned and not, against frames of 4 and 8: heap and
  stack meet from both sides. A slab of two entries and half a third. The text is a whole
  number of buckets.
* `cpu`: three interrupts give a nesting of three and a priority between two others.
  Routines change the table only when they interrupted no other routine
  (`IsrsConfigure = "alone"`); section 6 says what happens otherwise.
* `system`: the echo buffer takes 3 of up to 4 characters, so the cut is met; two interrupts
  are one inside another's damage. `.rwdata` of two words and `.bss` of two give a reset
  between two stores of each.

Fairness. *Hardware*: both clocks run for ever and the button is released in the end
(`WF` of an edge of each clock and of the release). Nothing is assumed of the order of
the edges. In `MdioLink` `WF` of `RamAnswers` stands for the RAM writer; `max10_top` checks that
the writer and the clock provide it. *Program*: the processor executes and the host
reads the console (`WF`). *UART*: the processor executes, an interrupt is taken, the
one-second alarm fires (`WF`); a host that keeps coming back keeps reading, so that its
reads, which are disabled while it is away, are `SF`. The polled driver has no timeout
and is checked with a host that reads. *Alarms*: the handler executes. *Interrupts*:
the processor executes (`WF`); an interrupt is taken at the first instruction after
interrupts are enabled, however short they stay so, which is `SF` of `Enter` because a
program that calls the HAL in a loop disables them again and again.

Deadlock is checked in `mdio_link` and `max10_top`, whose clocks never stop. In the other runs
a program ends, a table is full or a bounded stream is used up.

Every property of a passing run is violated by a mutant of a mapped definition that
`PROJECT.json` names: a count one off, a dropped guard, a store left out or in the wrong
order. Mutated operators stand beside the one they mutate and are marked as such.

## 4. Properties

* `BusInStep` - the two ends never drive `ENET_MDIO` together, resets included, and with the
  first bit of a command the PHY has seen a full preamble and is in no frame. This
  covers `phy_preamble_count`, which is not cleared after a write frame and wraps.
* `SnapshotsTrue`, `SnapshotStable` - what the RAM writer is offered is the PHY's register
  space, bit for bit, and does not change under it. The write frame sends its data one
  bit late (the bit before is undefined), so the PHY receives 16'hA280 shifted
  (`LoopbackWords`); traffic starts only with a second snapshot that says loopback.
* `PhyWrites` - the PHY's registers change only by the loopback write, or by the rest of a
  write frame cut short by a press, in one of the `TornAddresses`.
* `ImplementsScan`, `BringUpEnds`, `Settles`, `Answered`, `DumpingEnds`, `CallsEnd` - nothing waits
  for ever.
* `SnapshotsSaved`, `WriterSafe`, `NoStaleWord` - the memory. The last word of a block, the
  closing delimiter, is set up on the edge that ends the block and strobed only if
  another word follows, so the properties leave it out. A request that rises while
  `dummy_wait` is in 1..5 raises the strobe before a word is set up: the word of the
  delimiter or the reset is then written again, never a register of the block before.
* `StrobeStable`, `ProgramUntouched`, `BlockInv` - the port and where the writer writes.
* `FrameInOrder` - the frame goes out in order, a bit per clock, cut short by a reset only.
* `DumpShown`, `LineReadable` - a dump that starts when a block is saved shows it whole whatever
  the writer does next; columns align; what is printed reads back as the word.
* `NeverStuck`, `ImplementsChannels` - bytes waiting in a buffer always have an interrupt
  enabled, or a call about to enable it, that will move them; the handler never
  overruns the FIFO with a count it read before; each direction is a byte channel.
* `TimeKept`, `ImplementsAlarmSet` - one ring linked both ways through every change made from
  callbacks; every alarm called at its tick and none left due; time read is time set
  plus time passed; a torn read of the counter is off by a carry only; a delay takes
  the time asked for, less what is lost by counting whole loops in a microsecond and give
  or take a microsecond a piece.
* `TableInv`, `ImplementsFdPool`, `CallsKeepTable`, `AsWithTable` - an open sees every descriptor
  that locked its device; an open that fails in its middle gives back what it took; no flag
  survives in a free descriptor. `AsWithTable` compares one program's calls in the two builds,
  its three descriptors at the console as in this BSP. On those and on -1, `read`, `write`,
  `fstat`, `isatty`, `lseek` and the requests the driver knows reach the driver with the table
  exactly when they do without, and succeed exactly when they do there. Requests for exclusive
  access tell the builds apart: without the table the driver is asked, with it never. So do
  `open` and `close`, which without it always fail (`public.mk:187-193`), and the errors: the
  direct build returns the driver's negative number and leaves `errno` alone.
* `HeapSafe`, `BlocksApart` - the break stays in its memory; with the check built in and limits
  on words the stack limit is the break and the stack lies above it, also across
  interrupts on another stack; blocks never overlap.
* `ProfileKept` - the program's search through lists that interrupt routines extend finds or
  adds every arc; counts lose interrupt calls only; entries and samples stay inside
  their memory. `CachesFlushed` - after a flush of any region, however it lies in its lines,
  device and program see the same bytes; an uncached block shares no line.
* `InterruptsInv` - a routine runs with the context it was registered with, is interrupted only
  by a higher priority and only if it allows it, nobody interrupts a change of the
  table, and the enable register mirrors the masks. `UrgentServed` - the highest priority is
  served. `InstructionsOnce` - whatever exceptions and interrupts meet, each instruction of
  the program takes effect once, and only an unhandled exception stops it.
* `LogKept` - no print runs past the shared buffer and the terminal is never ended. An echo of
  an interrupt routine goes out whole. It also replaces what is in the buffer, so the
  program's echo it interrupts is its own text only as far as it had been fetched by
  then (`cut`); what follows is another text, which ends where the longest echo would. Up to
  there, or to its end if no echo came between, each interrupt costs it one character
  at most, which the full FIFO drops. An echo is `n - 1` characters and a new line (section 6).
  `FormatKept` - conversions print what C prints.
  `StartsClean` - variables are as linked and the HAL is up when `main` comes, after any
  reset; destructors come after `main` and after the close of standard output.
  `DevicesFound` - an open leads to the newest device of that name and kind, and fails only if
  there is none or if that device has an open of its own that refuses.

## 5. Proofs

For every value of the constants that the named assumptions allow (TLC evaluates them
on every run):

* `Max10Top_proof`, the first half, about `MdioLink`: `LinkTypes`. Types alone are not inductive: a counter stays in its range
  only because each state tests it before it passes the value tested for. `LinkInv` adds
  `CountersInStep`, which says so state by state, and `PhyInStep`, which keeps the PHY
  with a bit to send while it drives the pin. The step is split by the eleven actions of
  an edge on this side (`MdcEdgeStep`) and the four on the PHY's (`PhyEdgeStep`).
  `SnapshotStability`: the request is up only in `WAIT_FOR_RAM_WRITE_s` and the state after
  it (`RequestHeld`), and neither writes the snapshot.
  `BusAlignment` (`BusInStep`): `Aligned` says, state by state, what the PHY holds when the
  counters of this side stand where they do: how many bits of the header are in and which,
  how much of the word is shifted out or in, whether it drives the pin. During the wait after
  a reset a torn frame runs out: `Draining(edges)` bounds the edges it has left by
  those the wait has left, which is what `LinkAssumption` asks of the wait; a header that
  the pull-up completes is for no PHY (`Doomed`), its address not being all zeros.
  `SnapshotTruth` (`SnapshotsTrue`): `Carried` says where the bits of a register are on their way
  from the PHY into the snapshot, and those of the loopback word on their way back.
  `PhyWritesOnly` (`PhyWrites`): a header cut at any bit has a register address of zeros followed
  by ones (`Cut`), so that is where the torn write goes.
  `LinkImplementsScan` is the safety part of `ImplementsScan`, by the same mapping: each edge is the
  step of `RegisterScan` named by `ScanStep`, or a stutter. It needs a wait one edge
  longer than `LinkAssumption` asks for; with the shortest, the torn write could come with the
  edge that ends it, when the scan has begun. (The press of `mdio_link` lasts two edges, so
  22 are enough there.)
* `Max10Top_proof`, the second half: `TopStepsLink` maps every step of the design to a step of `MdioLink` or a
  stutter, so `LinkInv` carries over (`TopLinkInvariance`); with the types of the RAM writer
  and the frame sender this is `TopTypes`. `BlockInvariance`: `BlockInv` relates the phase of
  the state machine to the position of the writer. It has a part for the time of a press
  (each domain is cleared by its own edges), one for the first block (the address is the
  start plus the words set up; an answer means all of them), one for the second (the
  machine does not leave its second wait), and one for the strobe (up only between 2 and
  6 of `dummy_wait`). Without the last the machine could go on to loopback with the strobe
  up. From it: `TwoBlocks`, `ProgramIsUntouched`, `StrobeStability`. The products of registers and
  words are the only arithmetic that is not linear; `WholeRegisters` and `MoreRegisters` are
  its two facts.
  `DesignKeepsLink` and `DesignWritesOnly` carry the link's invariants over to the design.
  `SnapshotsReachRam` (`SnapshotsSaved`), the point of the design, rests on all of them. `SaveInv`
  follows a word: it is set up in its turn (`WriterFollows`, `DelimiterDue`), stands on the port
  (`WordOnPort`), is strobed from the second edge after (`WordStrobed`) and is in the memory before
  the next is set up (`WordsInRam`); `IndexUnique` says that no two words share a place. `Carried`
  says that it is the PHY's. The second block needs the writer to have seen the first request
  withdrawn before the second is made: `IdleSeen` finds an edge of its clock within the
  preamble between them, which is the theorem's hypothesis `MaxMdcPerRx <= PreambleBits` (32
  edges of MDC; the slowest receive clock has one for each).
  `FramesGoOut` (`FrameInOrder`): the bit on the wire is the one before the next to be sent (`TxWire`),
  and what a press leaves there is gone before the wait after the reset is over (`TxStops`;
  hypothesis `MaxMdcPerRx <= PostRstWait`).
* `Program_proof`: `WriterSafety` and `NoStaleWords` are about the writer alone, asked for blocks
  without end, of any sizes, up to the end of the memory and with presses between.
  `WriterInv` is `SaveInv` without the state machine: what that one knew from the phase, it
  must know from the writer's own registers. `AtStart` says where the writer stands when
  nothing is asked, `Counting` that the address has counted the words set up, `StrobeTimed`
  and `WordStrobed` between which values of `dummy_wait` the strobe is up, `Cleared` what either
  clock has done in a press so far. `PortIdle` is what `NoStaleWord` rests on: the strobe may
  come before the first word is set up, but what is then on the port is a delimiter or
  the reset's word.
  `DumpSafety` (`DumpShown`) puts the program beside it. `BlockStays`: from the moment a dump
  starts the saved block lies below every address the writer will write, for the address
  only grows without a press. `Seen` follows one address through the program's local,
  the lines on their way and the screen; `Groups` counts the lines since the last blank
  one in each of the three.
  `LinesReadable` (`LineReadable`): `FullLine` says what belongs in each column, and the line so far is
  the beginning of it (`LineInv`). The work is in two counts of digits that must agree: the
  search of `%x` for the first digit that is not zero (`DigitsAre`) and the comparisons that
  choose the blanks (`PadIs`). It assumes addresses below 16^6, as those of the memory are; with
  longer ones the columns shift.
* `Uart_proof`: `FastDriver` is the interrupt-driven driver by itself, with both directions in use,
  `PolledDriver` the other one (its channels are no longer than the FIFOs), `UartNeverStuck`
  and `UartChannels` what the run checks of both. The call's local copies of the pointers
  are old as soon as they are read, so `FastInv` says which way they may be wrong
  (`PointersSafe`): a write sees at most the room there is, a read at most the bytes there
  are. `SpaceKept` says the same of the handler's copy of the FIFO's space, which the host can
  only make larger. `TxInOrder` and `RxInOrder` say which bytes of the stream (`Run`) are where; the
  ring is described by its places (`Holds`) and not as a sequence, so that a copy that
  ends at the wrap and one that does not are the same case (`RingAdds`, `RingTakes`). From these
  what is on its way is one run from the bytes taken to the bytes given (`InFlight`), and
  each step moves one end of it (`ChannelMoves`).
* `Time_proof`: `TimeAlwaysKept` (`TimeKept`) and `AlarmsImplementSet`, the safety half of
  `ImplementsAlarmSet`. `OneRing` is not inductive by itself: a removal joins two neighbours, and
  only links that go both ways (`Links`) say that what it joins are the neighbours of the
  alarm removed. `InsertRing` and `RemoveRing` are the facts about one change of the list; two
  alarms that were each other's neighbours would be a ring of their own, which the walk
  from the head excludes. For the refinement `WalkInv` says what `alt_tick` has still to come
  to: no set of nodes that a walk from the cursor to the head does not leave misses an
  alarm that is due. A callback keeps it whatever it does, its `Outcome` being that the alarm
  called has gone or is due later and that no other link ahead of the cursor has moved;
  hence, when the cursor is at the head, nothing is due. It assumes `~CallbacksStopOthers`,
  without which it is false (section 6). `ClockInv`: `alt_resettime` is what was set less the
  ticks there were (`ResetTime`); the word loaded is of a number the counter had while the
  call ran (`WordLoaded`), so a sum of two words with the same high word lies between
  (`ReadWord`). It assumes `RatesDivide` (a tick rate that divides a second) and the sleep
  `DelaysEnd` (no delay is a whole number of big loops); section 6 says what the code does
  otherwise.
* `Heap_proof`: `HeapSafety`, `BlockSeparation`, `CachesSafety`, `ProfileSafety`. `HeapInv` says of the limit of the program's stack,
  put aside or not, that it is the break as long as it is a word; a limit that is not a
  word is never moved again. `HeapSafety` assumes `Contiguity`: the heap begins where the
  stack may end, as `linker.x:377-387` lays them out.
  `CachesSafety` (`CachesFlushed`): `CacheInv` adds that a line of the cache that is not dirty
  is the memory's (`CleanAsMemory`), from which dropping it changes nothing the program
  sees, and that lines are whole. The rest is arithmetic: a loop that goes
  through a region in steps of a line, and once more if the region does not begin with one,
  reaches each line of the region (`LoopReaches`), or each place of the cache (`LoopReachesAll`).
  `ProfileCounts` and `ProfileSafety` (`ProfileKept`): an interrupt may add entries and count
  calls while the program searches, so `ProfileInv` says what outlives that. Entries are only
  ever put before the ones there, so a place the search has reached, counted from the end,
  stays the place of the same entry (`SearchOK`); a count the program stores undoes only what
  interrupts counted since it was loaded (`CountsOK`); and two searches for one arc may make
  two entries, so what is compared with the calls is the sum over the copies of the arc
  (`CountIn`, a sum over a finite set: that it is one number, whatever the order, is proved
  by the smallest set on which two sums would differ). `SlabOK` puts what is left of the slab
  above every entry. `ProfileSafety` assumes `WholeBuckets`: a text that is a whole number of
  buckets; section 6 says what becomes of the tail of another. `ProfileCounts` does not.
* `Interrupts_proof`: `InterruptsSafety`, for any number of interrupts and any nesting. `Inv` adds to
  the property that the stack of interrupted routines has rising priority from the
  bottom, each open frame's saved mask being what the frames below it leave
  (`FramesOK`), that the priority mask is the one of the innermost (`MaskOf`), that interrupts
  are off whenever the handler or a change of the table is between two steps (`Quiet`,
  `Busy`), and that the table differs from what was registered only at the entry being
  changed (`TableOK`). It assumes `RoutinesKeepOut`: a routine that interrupted another does
  not change the table. `CpuSafety` says the same of the specification the run checks.
  `TrapsSafety` (`InstructionsOnce`): between the entry to the exception code and its exit
  `TrapInv` says which address it will return to and whether the instruction there has
  taken effect by then (`TrapOpen`); outside, that everything before the program counter is
  done and nothing from there on (`DoneBefore`).
* `FileTable_proof`: `TableSafety`, `TableImplementsPool`, `CallsKeep`. `Inv` adds to `TableInv` that the
  lists hold registered devices only and that nothing is locked before the program
  starts (`NotYetLocked`). The refinement maps a descriptor with a driver to an open one:
  each phase of an `open` is a step of the pool (the allocation, or giving it back) or a
  stutter; that `alt_get_fd` finds the lowest free descriptor is where the mapping needs it
  to be.
  `CallsAsWithTable` (`AsWithTable`) is about a program that runs in both builds: in `FilesSpec`
  each call is a step of both. `BothInv` says that once the standard descriptors are redirected
  they stay at the console with the access they were opened with, whatever the program
  does, `close` included; from that each call has the same outcome in both. It assumes
  `FilesAssumption`: all three at a console whose driver reads, writes and has an `ioctl`, as
  the fast JTAG UART driver, and a name no other device has.
  (The polled driver this BSP selects, `public.mk:216`, has no `ioctl`: a program without the
  table that calls it does not link.)
* `System_proof`: `LogAlwaysKept`, `FormatAlwaysKept`, `StartsAlwaysClean` and
  `DevicesAlwaysFound`. Each service has an invariant of its own, and a step of one leaves the
  others alone (`SystemAlways`).
  `PortInv`: a call nobody interrupted finds in the buffer what it wrote (`Own`) and has
  sent so much of its echo (`Told`). Whether an interrupt took the buffer or not, `CutOff`
  says that what had been fetched by then stays the program's own, `Counted` that no print
  is longer than the buffer, and `Overtaken` that `cut` is set while such an interrupt
  runs. Of the program's call, once an interrupt routine has written into the buffer, only
  this remains: a NUL lies ahead of the print, and before it there is no Ctrl-D that the
  call will not look at itself (`Ends`). While the routine is at it, not even that holds;
  `Clean` claims it beyond the last place the routine writes (`Reach`), and `CleanAgain`
  gets it back when the routine has printed, for its own text ends in a NUL and has no
  Ctrl-D left. `LostOK`: a character is lost only if an interrupt came between the look at
  the FIFO and the write.
  `FormatInv`: while a conversion is read, as long as it has digits only (and an l at its end),
  the width the scanner keeps is the number those digits stand for, and the flag is set if and
  only if the first is a zero (`Scanned`). The rest is about one conversion: the digits
  `DigitsOf` finds are the places of the number and the first is zero for zero only
  (`DigitsOfIs`), `IntegerText` puts blanks, sign, zeros and digits where C wants them
  (`IntegerTextIs`), and a text so laid out reads back as its argument (`ReadLaid`). The worth
  of a place and the number a text stands for are recursive functions over a bounded
  domain: that there is one such function is proved by the shortest domain that would have
  none (`Recursion`), that it is the only one by the least place where two would differ
  (`PlaceIs`, `ReadingIs`). `LogFormatAssumption` bounds a word by 32 bits, as it is here: eleven octal
  digits hold it (`LastPlace`).
  `BootInv`: the words cleared and copied before the cursor are right (`MemoryInv`) and each
  step of `alt_main` leaves what the later ones rely on (`OrderInv`). That a copied word is still
  right when the loop is done needs the image to lie outside everything that is written
  and the sections not to overlap, which is what `StartupAssumption` takes from `linker.x`.
  `DevInv`: each list has the newest device first (`NewestFirst`), so the first of a name is the
  newest of the name (`FirstIsNewest`).

Only model-checked: all liveness, so of `ImplementsScan` and `LinkSpec` the fairness, and the
liveness half of `ImplementsAlarmSet`. Liveness under fairness is out of this prover's reach.
Every invariant and every action property of the passing runs is a theorem.

## 6. Where comments and code differ

Three are runs that TLC ends with a counterexample:

* `led0`: 756 calls LED 0 "write to mem complete"; it is lit when the frame has been sent
  (679), while the second block is still being written.
* `delimiters`: 140 says "delimiters don't increase these counters"; 142 counts them, so
  register 0 has one copy less.
* `heap_odd`: `alt_sbrk.c:107` compares the stack limit with the break rounded up to a word,
  line 112 sets it to the break as it is. After a request that ends between two words
  they differ for ever and the check, which 100-102 describes as always made, is off.

The others were found while modelling; the runs stay clear of them as section 3 says,
or their modules state what does hold.

Hardware:

* 207 says "all the PHY registers have been read and saved to RAM, just rewrite them"; 210 only
  holds the answer up.

UART, time:

* `altera_avalon_jtag_uart_write.c:183` leaves its wait as soon as `host_inactive` is not 0; if the
  call has moved nothing yet it returns the error 210 comments "Host not connected" before
  the timeout.
* `alt_tick.c:102` saves the successor of an alarm before its callback. A callback that stops
  exactly that alarm has it called although stopped; being linked to itself it keeps the
  walk for ever.
* `alt_gettod.c:91-93`: with a tick rate that does not divide a second, seconds and microseconds
  wrap at different ticks and the time steps back.
* `alt_alarm.h:112` loads the 64-bit counter in two words with interrupts on: a tick that
  carries between them gives a number that never was.
* `alt_busy_sleep.c:129` multiplies by `ALT_CPU_FREQ/(cycles*1000000)`, cut to 5 from 5.56 on this
  core at 50 MHz: delays are a tenth short. Line 104 runs the loop of the remainder even
  when nothing remains; it decrements before it tests, from 0 through the whole word.

Descriptors:

* `alt_fd_lock.c:61` compares descriptors below `alt_max_fd` only, which is itself the highest one in
  use: a lock is granted beside another descriptor of the same device.
* `alt_release_fd.c:46` keeps the flags of descriptors 0 to 2: closing a locked one leaves it
  locked, against `alt_fd_lock.c:48`.
* `alt_ioctl.c:50-52` says that for a device TIOCEXCL and TIOCNXCL "are handled without reference to
  the driver"; the direct build (85-98) passes every request on, and nothing is locked.
* `alt_write.c:113` refuses a write to a standard descriptor still at the null device, whose access
  mode is 0 (`O_RDONLY`); `alt_dev.c:83-85` calls such writes "safe but inefectual".

Heap, profiler:

* `alt_sbrk.c:124`, on an exception stack, reports an overflow for every request of zero bytes
  or more, for the limit put aside equals the old break.
* `alt_sbrk.c:46-48` says no bounds are checked; 89 refuses a request past the heap's limit.
* `alt_gmon.c:203` may leave two copies of an arc of which one counts more than 1; 178-180 says
  both count 1.
* `alt_gmon.c:167-169` tests and clears `pcsample_need_init` in two steps with interrupts on, while
  154-155 promises reentrancy: an interrupt between them starts the sampler twice, the
  alarm being inserted while it is in the list.
* `alt_gmon.c:212-213` says that starting the sampler is tried on every call of `mcount`; it is tried
  only for an arc not seen before.
* `alt_gmon.c:226` rounds the number of buckets down: the tail of a text that is not a whole
  number of them is counted behind the histogram.

Interrupts, log:

* `alt_legacy_irq.h:94`: `alt_irq_enable` and `alt_irq_disable` write all of `alt_irq_active` to `ienable` and
  undo the mask of a routine that lets higher priorities in, if they are called above it.
* `alt_iic_isr_register.c:82` compares a signed copy of the number: 2^32 - 1 is accepted and entry -1
  of the table written.
* `alt_exception_entry.S:276` comments a return code of 0 "Skip"; by `alt_exceptions.h:95` 0 is
  `NIOS2_EXCEPTION_RETURN_REISSUE_INST`.
* `alt_log_printf.c:437-439` and `alt_log_printf.h:330-331` say that an echo shows the first
  `ALT_LOG_WRITE_ECHO_LEN` characters; line 449 puts the new line in place of the last of those
  copied, so one fewer is shown, also of a text that is shorter than that.
* `alt_log_printf.c:464-466` says the system clock message comes every `ALT_LOG_SYS_CLK_INTERVAL`
  ticks; line 471 prints it when the counter has passed that: every one more.
* `alt_dcache_flush_no_writeback.c` may discard the whole of a line of which the region is a
  part: what the program stored beside the region is lost with it. The comment at 44-45
  warns of the lines; `CachesFlushed` claims nothing of those bytes.

## 7. Not modelled, and why

* The MDC divider and the LED counters (705-755): MDC edges are steps of the model; the
  counters are read by nothing.
* Metastability of the registers that cross the clock domains: a value settles to 0 or 1
  here, and the interleaving covers both. A receive clock that stops, and a press shorter
  than two MDC edges, are excluded by assumptions that are named.
* `return_addr`, `readOnboardMem` and `newValue` of `altera_max_10.c`, which `main` never calls.
* The registered read port of s2, which nothing reads.
* What follows from undefined behaviour: a call on a descriptor that is not open, a slab taken
  from a failed `sbrk` (`alt_gmon.c:139`).
* The processor, the interconnect and the MAC are generated vendor IP; `baseline.v` is the
  board vendor's pin test; `db`, `output_files` and the like are tool output.

## 8. Next

1. The liveness properties as theorems, once the prover reasons about `ENABLED`.
2. The clock domains without an order between their edges: what a signal sampled while it changes
   does to the handshake of the state machine and the RAM writer, in a model finer than an edge.
