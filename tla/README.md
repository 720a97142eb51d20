# A verification project for the dual-core TEE/REE system

The repository is a system-on-chip on the wujian100 platform with two E902
cores. One, the TEE, boots first, loads the other's program, releases it from
reset and keeps memory and peripherals of its own. The other, the REE, reaches
the bus only through an IOPMP, which denies what its table does not grant. The
two talk through a mailbox of two channels with interrupts. What the authors
wrote themselves is the mailbox, the IOPMP, the router in front of them, the
boot control, their drivers and the test programs; the rest is the platform,
with its device drivers (the CSI drivers).

This directory holds TLA+ modules of that logic, TLC configurations that check
them on small instances, and TLAPS proofs of theorems about them for every
instance. Source paths below are relative to the repository (`src/`).

## 1. The system

| component | state | operations | interacts with |
|---|---|---|---|
| Mailbox (`rtl/mbx_top.sv`, `rtl/mbx_channel.sv`, `rtl/mbx.svh`) | per channel: CTRL, STATUS, a FIFO of data words, its output register, a lock FSM; registered bus signals; a polling register | write CTRL / DATA / STATUS, read any register, reset | both cores (bus and interrupt lines); each channel's lock looks at the other channel's FIFO |
| Mailbox drivers and main programs (`c_driver/{tee,ree}`: `my_mbx_ch0.c`, `my_mbx_ch1.c`, the mains) | the receive buffer; the point reached in main or a handler | initialize, config, send, putintr, the receive handler | mailbox registers; interrupt dispatch |
| IOPMP (`rtl/iopmp.sv`, `rtl/iopmp_define.svh`) | the table (constant after reset), exception address and kind, read port | decide, record, answer | three AHB ports of the REE; exception interrupt to the REE; slave 9 |
| IOPMP driver (`my_iopmp.c`) | none | initialize, handler | reads the exception, sends it over mailbox channel 1 |
| Slave-9 router (`rtl/slave9_ahb_mux.sv`) | which slave the last address phase chose | route, answer | bus matrix, mailbox, IOPMP |
| Boot control (`rtl/s5_ahb_dummy_top.v`; `tee/example_spi.c`) | REE reset line, REE start address, registered address phase | write either | TEE writes, the REE core starts or stops; the IOPMP is reset with the REE |
| Interrupt entry and dispatch (`vectors.S`, `isr.c`, `wj_irq.c`, `devices.c`, wiring of `core_top.v`) | handler table, enabled numbers, lines | register, enable, enter, return | every driver |
| CSI bus drivers (`wj_usi_usart.c`, `wj_usi_spi.c`, `wj_usi_iic.c`, `wj_usi.c`, `wj_usi_wrap.c`) | transfer buffers, counters, busy flags | start, abort, configure, handler | one USI port, callers, callbacks, the line |
| CSI timer, watchdog, RTC, GPIO, PWM, DMA drivers | handles, callbacks, states | configure, start, stop, handler | hardware registers, callbacks |
| Timer, watchdog, RTC, GPIO, PWM, USI, DMA hardware | counters, FIFOs | register accesses, clock | APB, interrupt lines |
| Bus matrix, bridges, clocks, cores, memories | vendor RTL | | everything |
| Startup code, delay library, test bench, memory images, IP configuration, bitstreams | | | |

What is hard about them:

* *Mailbox.* The FIFO's empty flag falls some cycles after a write, and the
  interrupt bit is held at 0 while it is up; a doorbell that comes too soon is
  lost without an error. Writes to a locked channel are dropped without an
  error. The lock of a channel depends on the other channel. The FIFO survives
  a reset that everything else does not. Correct means: an announced word is
  signalled until read, an interrupt means a word, a channel is a queue.
* *Mailbox drivers.* A handler reads the length once and then that many words
  from a queue that may grow or run dry under it; exception reports share
  channel 1 with main's messages; an exception's line falls by itself. Correct
  means: every message arrives once, whole and in order, and locks end.
* *IOPMP.* Three requests are decided in one cycle with shared signals: the
  domain check of all ports uses port 0's hwrite, ports 1 and 2 share a match
  bit, and port 2 has a latch. Correct means: each port is decided by the table
  on its own request, nothing of the TEE's is reached, and the exception
  registers tell what was denied.
* *Router and boot control.* Address and data phases belong to different
  accesses; the start address is only writable while the REE is in reset.
  Correct means: the slave addressed answers, a word written is the word stored,
  and the REE runs where it was told to.
* *Dispatch.* An interrupt may be raised before its driver is initialized and
  while it is being given back, by main or by its own callback; three tables and
  the wiring have to agree on numbers. Correct means: the owner's ISR is called.
* *Bus drivers.* Bytes leave and arrive between any two steps of the handler,
  which clears at its end every bit it read on entry; counters and buffers survive an
  abort; callbacks start the next transfer from inside the handler. Correct means:
  each byte once and in order, completion after the last, no transfer that waits
  for an interrupt that cannot come.
* *Other drivers.* Counters run on while a driver computes with them (RTC,
  timer, watchdog), registers are shared between instances (PWM divider, GPIO
  enables), and a channel changes owners (DMA). Correct means: nothing rings or
  resets early, nothing that was started is forgotten.

`PROJECT.json` lists the components with what is modelled of each, and the
hazards, each with its line and the properties that would notice it.

## 2. The modules

### Mailbox

One step of `Mailbox` is one rising clock edge. `Tick(bus)` takes the accesses
in their address phase on the two ports; `req` keeps them for the data phase,
as the `*_delay` registers do. Everything else follows the register transfers:

| code | model |
|---|---|
| `*_delay` registers | `req[c]` |
| `wen`, gated by `nstate != CH_WAIT_READ` | `Accepts` |
| `ch*_cstate`, `ch*_nstate` | `cstate`, `NState`, `Locking` |
| `status_reg`, with the gate by `empty` | `status`, `NStatus` |
| `data_fifo0` (IP) and `data_reg` | `fifo`, each word with its age, `dout`, `NFifo`, `Empty` |
| `rdata`, `c*_hrdata` | `RData` |
| `acisr` | `acisr` |
| `hrst_b` low at an edge | `Reset` |

A FIFO word is visible to the read side once it is `SyncLat` cycles old: the IP
has separate clocks for its sides and synchronises its pointers, although both
clocks are the same here. The FIFO has no reset input, so `Reset` clocks it on;
a data phase under way when the reset begins still writes its word, because the
data-phase registers are reset at the edge at which the FIFO takes it.

Reads take a word in the address phase (`ren[1]` is not delayed) and deliver it
in the data phase. Not modelled: error responses, which the masters ignore.

`gap` and `rung` are history. `gap` counts cycles since a DATA write was on the
bus, and `Disciplined` is the one thing assumed of the masters: `RingGap`
cycles between the last DATA and the STATUS write. In the drivers a function
return, a `printf` and a call lie between them. In `my_iopmp.c` nothing does:
there it is the time of one store instruction, and the assumption is a
condition on the platform rather than a fact about the code.

### MailboxAbs

What a mailbox promises to someone who does not look at clock edges: two
queues of words, an output, an interrupt and a lock for each. The cycle-accurate
module implements it under the mapping at the end of `Mailbox`: ages are
forgotten, the interrupt is `IntFlag`, the lock is `Locking`. The abstract module
says that a word is appended, taken or both; that only unlocked channels grow;
that the output changes only to the word taken; that interrupts rise
only on a non-empty queue.

### MbxDrivers

Extends `Mailbox` with the two cores. A core is the accesses its main program has
still to make and a point in a handler; each bus access is one step, and a core
may pause any number of cycles between two. Between the address phase of a
read and the use of its value another cycle passes (`gotCtrl`, `gotData`). A
handler is entered between two accesses of main when the level of the interrupt
line is high, and handlers do not nest because all interrupts have the same
priority. `excPend` is the line of the IOPMP. All lines of this chip are levels
(`core_top.v:592` ties the edge configuration to 0) and the controller keeps no
level that has fallen (`E902_20191018.v:2453`), so that a denial while a handler
runs may never be reported; the line may fall at any cycle before it is taken.
`outbox` and `inbox` are history: what was written, and
what was handed over. `CTRL` is reduced to the length it announces.

`Programs` are the combinations of main programs the repository builds:
`example_spi.c` (two words) with `mailbox_test_main.c` (three words), with
`iopmp_test_main.c` (a faulting read), and the latter with three faults.

### Iopmp

The decision is a function of the three requests, the reset and the latch, and
is modelled as such, operator by operator, in the order of the `always_comb`
blocks: `Transit`, `Sel`, `Enters`, `Covers`, `Match`, `Selected`, `Granted`,
`Deny`, `Output`. `Clock` and `ClockReset` are the registers: the exception
(`Record`) and the slave port that reads it (`Answer`). An address is the name of the
region it lies in; the regions are the define file's enum with one register added
that lies inside a region. Regions are compared by their place in the memory map,
which keeps the comparisons of the code, those with entries out of
order in MD4 and MD5 included.

`m2_entry_match[10]` is assigned in every branch except MD3's, where the code
drives bit 10 of port 1 instead: `held` is the latch that synthesis infers, and
`Match(1)` takes port 2's bit when port 2 is in MD3.

### Slave9, Boot

`Slave9` follows an REE access from the IOPMP's output through the router to the
mailbox or the IOPMP's own registers: `phase` is the access in its data phase as
the master sees it, `s9` what the registers of the path hold of it, and
`WriteData` the two muxes that look at the *next* access while the data of the last
one passes (`iopmp.sv:802`, `slave9_ahb_mux.sv:50`). A granted write followed at
once by a denied access, or by one to the IOPMP, stores zero: `Slave9Carries`
says that these are the only cases, and that reads are answered by the slave
they were made to.

`Boot` is `s5_ahb_dummy_top.v`: `boot.ff` is the registered address phase, `Written`
the registers at the end of a data phase. `told` follows the writes in the TEE's
order. The TEE may write in any order and as close as the bus allows, and the
chip may be reset at any clock.

### Dispatch

From a request line to the ISR: `IrqOf` is the number a driver is given by
`devices.c` and `soc.h`, `LineOf` the line `core_top.v` and the top level connect to the
device with the registers the instance is given. Each side has tables of its own. For timers
and USIs the line is computed from the bus and the slave of the base address (`BaseOf`,
`UsiBase`); for the devices of which there is one, `Wire` is the row of
`core_top.v` beside the row of `soc.h`, `Only`, and that they agree is a comparison of two
lists. The model is one core's controller, with the devices whose requests the top
level connects to it.
`irqtab` is `g_irqvector`, `irqon` the enables of the controller. Initialize and
uninitialize are two steps each (register, enable; disable, unregister), main's
interrupted at any point, a callback's in the ISR. A device raises or withdraws
its request at any time, initialized or not. Main initializes a device that is
closed, and a callback only gives back its own.

### Usi, Usart, Spi, Iic

`Usi` is a port as its driver sees it: FIFOs, enables, interrupt bits with their
masks and levels, and `Settle`, which every register access and event ends with:
a FIFO that is off is empty, a level is latched again as long as it holds. `Serve`
is the entry of `wj_usi_irqhandler`: the status is read once, and its bits are
served in order, a step each, while the line goes on; `isr.left` is the set of
those still to serve. The three modes extend it,
with their driver's struct (`ud`, `sd`, `id`), the calls of main, and what a callback may do
(`SendAgain`, `SpiStarts`, `IicStarts`: nothing, or start a transfer).

A byte is its position in its stream, so that order and loss are visible; for I2C
a request to read is a word of its own. A quiet line is an empty transmit FIFO.
The SPI slave answers each word with that word's own number.

A receive of the UART that the handler serves after its buffer is full goes on storing: `Arrivals` is
the batch of `wj_usi_usart.c:284`, cut to the whole length. In `Spi` the slave select is a
level of the driver or the port's own, as the two modes of `drv_usi_spi_config_ss_mode` switch it, and a
configuration sets what it had set before it found its error. The callback a
polling receive ends with is the tail of that call: in it the driver may start a transfer. The stores of an
aborted transfer's handler through its cleared pointer are outside the model.

| module | assumed of main and the callbacks |
|---|---|
| `Usart` | send, putchar and config when no send runs; calls are atomic against the handler, but putchar and getchar poll; putchar with the port on |
| `Spi` | both directions equally long; after an abort main waits for the handler; uninitialize at rest; no poll times out |
| `Iic` | a transfer starts when the last is over (`IicQuiet`), which after an abort may be never; `IicEnds` is for a slave that is there |

The drivers check none of this. The two cores' copies of the sources agree,
except `wj_usi_spi.c`: the TEE's always polls, its select calls are commented out in send
and receive, and its call of `drv_usi_initialize` has lost the name
(lines 567-568), so the definitions of `Spi` are the REE's.

### Gpio, Rtc, RtcCalendar, Timer, Wdt, Pwm, Dmac

Each is a driver on the device it drives, calls of main as actions (split where
the code reads a register or the count and uses it later), the device as actions of its own.

* `Gpio`: `GpioSetIrq` reads INTEN and `GpioWriteInten` writes it, a callback in
  between; `WriteEoi` changes nothing (see section 5). The registers that sample the pins
  (`gpio0.v:625`) are clocked by `pclk_intr`, which this chip ties to a clock
  that never stops (`aou_top.v:569`), so that no edge is judged by an old sample.
* `Rtc`: time in seconds; the counter is loaded some while after it is told to, and
  runs until then. `csi_rtc_set_alarm` reads it in
  `RtcGetTime`, which gives up waiting for the load when a counter that
  stands will never reach it, and then three times more, until it moves and once after (`RtcLook`, `RtcMoved`,
  `RtcAdd`), before `RtcSetMatch` writes. `Due` names the alarms that are promised: counter loaded,
  no wrap before it, later than the second of the call, no older one ringing, and written before
  the count is there.
* `RtcCalendar`: `mktime` and `gmtime_r` as functions, against a walk day by day.
* `Timer`: `csi_timer_start` in three steps, of a timer that is stopped or runs: the flag is cleared
  (`TimerStart`), the load is written (`TimerLoad`), the timer switched off and on (`TimerSwitch`); the
  count of the old run goes on and may interrupt in between. Resume clears the control
  register, as the code's `&=` does.
* `Wdt`: no response mode is ever set, so zero resets the chip.
* `Pwm`: two channels a generator and one divider for all; captures and timer
  events come at any time. Clocks are a `uint32_t` product and wrap at `PwmWord`; what is too long for its half
  of a register that two channels share is ored into the other half or cut (`Compared`). The signal is read
  off the registers as `pwm.v` runs them: load + 1 ticks, low up to the compare value. A configuration that
  fails and a new divider forfeit `PwmShape`, since they change the clock of all.
* `Dmac`: channel 0, the only one in the device table; started, configured and
  released by its owner when it is `AtRest`, stopped at any time. A channel that is off has no
  request: the hardware clears it (`dmac.v:3577`, `4143`).

### Proof modules and instances

The theorems are in `MailboxProofs` (the mailbox and the drivers on top of it), `IopmpProofs`, `DevicesProofs` (the devices of
`MCDevices`, of which the I2C master has a module of its own, `IicProofs`) and
`UsiProofs` (the port of `MCUsi`), which rests on `UsartProofs` and `SpiProofs`, the
invariants of the two modes; `UsiLemmas` says once for all three modes what each
register access does to the port, and what sequences of words are.
`MCMailbox`, `MCMbxDrivers`, `MCIopmp`, `MCUsi`, `MCDevices`, `MCGpio` and `MCPwm` are the
instances for TLC. `MCUsi` uses one port as a UART or as an SPI master for the
length of a behaviour; `MCDevices` does the same with the parts that share no state, so that
their state spaces add up instead of multiplying.

## 3. The runs

| run | question | states |
|---|---|---|
| `mbx_one` | one channel, every access a master can make, two words of which one is narrowed, resets | 20,718 |
| `mbx_two` | both channels with the accesses the drivers make, resets: still two queues? | 109,412 |
| `mbx_lock` | is a lock held until the channel is read? (no) | |
| `drv_messages` | do the messages of the mains and the handler arrive, whole and once, and do locks end? | 2,458 |
| `iopmp_table` | is each port decided by the table, is the TEE isolated, and are exceptions named, when ports disturb each other? | 47,803 |
| `iopmp_alike` | are equal requests decided alike? (no) | |
| `iopmp_chan0` | is channel 0 read-only to the REE? (no) | |
| `usi` | does a UART or SPI port carry every byte, and does each transfer end? | 183,244 |
| `usart_recv` | does a receive stay in its buffer? (no) | |
| `devices` | do the other drivers, the way to slave 9, the boot control and the dispatch keep their promises? | 342,515 |
| `gpio_eoi` | is an edge told once? (no) | |
| `pwm_wrap` | has every period that is accepted the length that was asked for? (no) | |

Properties:

* `RungIsSignalled`: words announced after the gap keep the interrupt up until
  the last is read. Broken by a STATUS write in the shadow of the empty flag, which no master of
  the runs makes: that `my_iopmp.c:36-37` makes none is assumed (`Disciplined`), also by the properties of
  the drivers below.
* `IrqHasWord`: an interrupt without a readable word lasts one cycle, right
  after a read.
* `ImplementsAbs`: the refinement.
* `LockHeldUntilRead` (violated): the FSM waits on the other channel's flag.
* `MessagesIntact`, `MessagesArrive`, `LocksEnd`: the end-to-end promise of the
  drivers, safety and liveness.
* `DriversGoOn`: a message written and not handed over has its sender still at it, or
  its reader called or at it (`NoneForgotten`); a lock that lasts waits for
  words whose reader is called, or whose sender is not locked itself (`LockLetsGo`). A lock
  that also waited for the other one's lock, or a first read of a message that took
  its interrupt away, breaks it.
* `TableObeyed`: a port is granted what the table grants and denied what it denies, but for three
  cases in which it is the other way: the last entry of MD6, which has no end (`NoEnd`); a read of the read-only RAM
  while port 0 writes (`Misdirected`); and a request in MD3 with an eleventh match bit that
  is not its own (`Misled`). The property says exactly which requests these are, for every combination of the ports.
* `Isolation`, `ExceptionNamed`: see above.
* `PortsAlike`, `Channel0ReadOnly`, `EdgeToldOnce`, `ReceiveInBuffer`,
  `ShapeAsAsked` (violated): see section 5.
* `SentInOrder`, `SpiInOrder`: what has left, waits in the FIFO and waits in the
  buffer is, in this order, what was given, whatever aborted transfers left.
* `CompleteWhenQuiet`, `SpiEndsComplete`, `DoneIsComplete`: a completion is told
  after the last byte, not when it was written.
* `SpiAnswersMatch`, `SpiSelected`: answers belong to their own words; no word
  without the slave selected.
* `RequestsAddUp`: stored, arrived, asked for and to be asked for add up.
* `PortGoesOn`: driver and line never wait for each other. A send whose interrupt is
  enabled has its handler called or at work, or a byte to shift (`SendGoesOn`); an SPI
  transfer, by interrupt or polling, too, though its line stops for a full receive FIFO
  (`SpiGoesOn`).
* `DevicesGoOn`: an I2C transfer has its handler called or at work, or a byte or a stop for the bus
  (`IicGoesOn`), and never waits for a level that what it asked for cannot reach
  (`ThresholdInReach`); a promised alarm is flagged or its match ahead of the count, and can
  interrupt (`AlarmAhead`); a started DMA transfer is asked for and on its way, or its
  interrupt can be taken (`OwedIsComing`).
* `SendEnds`, `SpiEnds`, `IicEnds`, `PinsServed`, `AlarmRings`, `TransfersTold`:
  what was started ends; a pin is not starved by lower ones; an alarm rings; a DMA transfer
  is told, whoever owned the channel before.
* `NothingEarly` (`NeverEarly` and `TimeoutInTime`), `NeverBitesEarly`: alarm, timer and watchdog
  against the counts that have passed. A timer that is started again while it runs leaves neither
  its old count nor its interrupt behind.
* `CalendarRight`: the calendar's two conversions, `DaysRight` and `DateRight`, on each day to the end of 2099.
* `PwmShape`: the period is longer than what was asked for by a tick at most, and the pulse, the low part,
  as long or less than a tick shorter, if the period in clocks fits a word. `ShapeAsAsked` is the same without the condition.
* `EventsKept`, `Slave9Carries`, `RunsWhereTold`, `ServedByOwner`:
  see section 2 and section 4.

Bounds. `Depth` 2 or 3 words: enough to fill the FIFO, to write to a full one and
to read it while it is written; the properties relate neighbouring words only.
`SyncLat` 2: the flag lags by more than one cycle, so that a read, a write and
a STATUS write fit inside the lag. `RingGap` 2, the smallest gap under which
the doorbell is safe. In `drv_messages` the depth is the longest message; the IP
holds far more. Up to three exceptions: one on the line, one being handled,
one lost. In `iopmp_table` port 0 makes every transfer there is to every region, and with the other
ports two choices: one that has a region of each verdict in each domain the ports use, with port 0 fetching, and one in which
port 0 writes, port 2 leaves the latch set or clear and goes on to MD3 or to the boot memory, and port 1 is at the
eleventh entry or at one it may not use. One, two and all three ports are denied at once in it.

In `usi` the FIFO has 4 places instead of 16: quarters of it, which the thresholds
are, stay distinct, and a send of 4 needs two batches (of at most 3) and an SPI transfer of
5 two rounds. Up to 5 bytes sent, so that a second send follows an aborted or finished
one; 2 received. `usart_recv` lets more bytes arrive. In `devices`: I2C with a FIFO of 8, which a transfer of 10
overfills, and three calls, so that an abort and a new transfer follow a first one; two
GPIO pins, one above the other; an RTC that wraps after 7 counts, two counts a second; the
calendar over every day the driver accepts with the year below 2100; a timer
that counts modulo 8, with timeouts that fit and one that does not, and five calls, enough for a second start
in every phase of a run; three
watchdog ranges and a timeout beyond the last; two PWM generators, words of 64 and loads up to 7 (`PwmWord`, `PwmTop`), a period that
fits at divider 2 and one that never fits, and four calls, enough for two causes of one generator; in `pwm_wrap` one fits
by the wrap of its product; six calls of the DMA driver, which is two owners; two
data words; three start addresses and four writes; of the REE's devices two timers on different
sides of the gap in the timers' numbers, a USI and its doorbell, with three initializations.

Fairness. `FairSpec` asks that the clock runs, and that a core which can change
its state eventually does: the bus matrix arbitrates round robin and a core
executes. Nothing is assumed of which core goes first. No `Reset` occurs in
`DNext`: the end-to-end promise is for the time between two resets. In the device
modules the hardware is fair (a line shifts a byte that is in the FIFO, a running
counter counts, a pending and enabled interrupt is taken, a started DMA transfer is
asked for and ends) and a handler or a polling call that has begun goes on.
No call of main is fair: main may stop at any time.

Deadlock is checked in every run but `usi`, `usart_recv`, `devices`, `gpio_eoi` and `pwm_wrap`, where main
may have made all the calls the bounds allow and the devices are at rest.

## 4. The proofs

For every value of the constants, with the named assumptions about their types.
Each safety property of a run is a theorem about the specification that run
checks. The invariants that say that something *can go on* are the safety half of
the liveness properties beside them: whenever the promise is open, some step that
would bring it nearer has what it waits for. That such a step is taken, and that finitely
many suffice, is what TLC checks under fairness.

The mailbox (`MailboxProofs`):

* `TypeCorrect`: `Spec => []TypeOK`, with the bound on the FIFO. The
  type invariant is inductive; the work is in the lemmas about the FIFO
  (`AgedEntries`, `KeptEntries`, `NFifoEntries`).
* `InterruptHasWord`: `Spec => []IrqHasWord`. Inductive given the
  types: `int_bit` is set only if the queue has a visible word at that edge, a
  visible word stays visible (`WordStays`, `WordAfter`), and it only goes by a read that is
  then in its data phase.
* `RungSignalled`: `RingGap >= SyncLat` implies
  `Spec => []RungIsSignalled`. `RungIsSignalled` says nothing of words still too
  young to be seen, so it is strengthened to `AnnouncedInv`: on an announced
  channel every word is visible, and after `gap` quiet cycles the youngest
  word is at least that old. The assumption is the discipline the drivers must
  keep, and the proof uses it once, for the STATUS write.
* `ImplementsMailboxAbs`: `Spec => ImplementsAbs`, the refinement. The initial
  state maps to the abstract one; a clock edge maps to a step of each queue (a word
  appended, taken, both or neither, seen through `WordsOf`), of its output, its
  lock and its interrupt; a reset does too, which loses no word.

The drivers on the mailbox (`MailboxProofs`):

* `DriverTypes`: `DSpec => []DTypeOK`. What needs an invariant is the handler's count
  of words: `DriversTyped` adds that a core that waits for the value of a register has
  its own read in the data phase (so that the length is read from `CTRL` and
  not from what else is on the bus), and that in the loop the count is not 0.
* `MessagesAreIntact`: with `RingGap >= SyncLat`,
  `DSpec /\ OneMessageEach => []MessagesIntact`, where each core has one message that the FIFO
  holds, main's or the report of one exception, and both may be on
  their way at once. `DriversInv` follows a message through its accesses: `SenderInv` says
  that what is still to do is the rest of it, in order. Until the doorbell
  is in force the channel is `Unannounced`: every write is let through (`LetsThrough`), the
  FIFO holds the words so far, and the other core stays out of its handler. The doorbell makes it
  `Unread`, because all words are visible by then: this is the one use of the gap, through the
  `AnnouncedInv` of the hardware. Then it is `BeingRead`: the handler finds
  a word each time it reads, although it never looks, since what it has
  read and what the FIFO holds add up to the length; at the end it is `HandedOver`, the FIFO is empty and
  the interrupt down, so that it is not handed over again.
* `ReportsAreIntact`: `DSpec /\ ReportsOnly => []MessagesIntact`, for any number of
  exceptions up to the depth and a TEE that sends nothing, at any gap. Here
  reports queue up behind each other. `ReportsChain` is the order: handed over, in the
  handler, in the FIFO, on the bus. `ReportInv` says that the one cycle in which channel 1
  is locked after a doorbell holds back no word and no length, `ReaderInv` that the handler is
  entered only for a word (through `IrqHasWord`), and `RoomForAll` that faults, the line, the handler
  and the FIFO together never exceed the depth.

* `NoMessageForgotten`, `LocksLetGo`, together `DriversCanGoOn`: with `RingGap >= SyncLat`,
  `DSpec /\ (OneMessageEach \/ ReportsOnly) => []DriversGoOn`. For one message each, `RungInv` adds that
  the words of a channel that is being delivered stay announced (`rung`), so that
  `RungIsSignalled` of the hardware keeps the interrupt up until the reader is at them. For
  reports, `ReportsRung` says that the words in channel 1 are announced or their doorbell is still to
  come, and that channel 0 is never locked. A lock needs the other channel's words, and these are
  announced or have a sender that the empty channel does not lock: the two cannot wait for each other.

Every program of `drv_messages` is of one of the two kinds. Beyond them the property need not
hold: TLC finds it violated (depth 3, a ring gap of 2) with one exception while main of the REE
sends, and with three exceptions while the TEE's message is unread (section 5); with two it
still holds on that instance.

The IOPMP (`IopmpProofs`):

* `TypeCorrect`: `Spec => []TypeOK`.
* `IsolationHolds`: `Spec => []Isolation`. The domain enables exclude MD0, MD2 and
  MD4 for reads and for writes, so that it does not matter whose hwrite is used; a port outside every
  domain has at most the stray match bit 10, and with it the selected entry is the
  eleventh of MD0, which does not exist.
* `ExceptionIsNamed`: `Spec => []ExceptionNamed`.
* `TableIsObeyed`: `Spec => []TableObeyed`, for every set of requests the ports may make
  together. The proof turns the
  regions into places of the memory map, shows for each domain that
  consecutive entries cover each place once, and follows the matched entry through
  `Selected` to `Granted`; in MD3 of ports 1 and 2 a stray eleventh bit either hides the only match or makes a second
  one, of which the first entry is taken.

The ports (`UsiProofs`, for any FIFO depth, set of lengths and bounds, over both
modes of `MCUsi`). None of the properties is inductive; `PortsAreGood` is the
invariant they follow from, the driver that runs being in `UartInv` or `SpiInv`
and the other at rest:

* `UartInv`: what has left, waits in the FIFO and is still to be written is
  an increasing sequence of what was given (`UartWords`), and what is
  missing was dropped; the FIFO never overflows, whatever putchar and the handler
  write in turn (`UartRoom`: a TX_EMPTY that is still to be served means that the
  FIFO is empty, but for the one byte of putchar); where a send may be served the transmitter
  is on (`UartDriven`). From it: `PortTypeInv`, `BytesLeaveInOrder`,
  and `CompletionIsQuiet` of the step that ends a send.
* `SpiInv` lists the phases of the driver: quiet, aborted with its interrupt still
  to come, running by interrupt, or a call of main that polls (a send, a transfer or a
  receive). In the running phase `Chain` says that answers stored,
  answers in the receive FIFO, words in the transmit FIFO and words in the buffer
  are, one after the other, the words of this transfer. From it: `WordsLeaveInOrder`,
  `AnswersAreTheirOwn`, `SelectedWhileShifting` and, of the step that ends a transfer,
  `EndIsComplete`.
* `SendCanGoOn`, `SpiCanGoOn`, together `PortCanGoOn`: a second invariant, `UsiAhead`, beside the
  first. Its UART half says that an empty FIFO is latched wherever TX_EMPTY is enabled, whatever
  the handler cleared, and that a port that is on works as a whole; since what is in
  the FIFO is in one that is on, it can be shifted. Its SPI half says that TX_EMPTY, where it is enabled,
  is also unmasked, and that an open driver has its line enabled; and from
  `Chain` the answers of a round fit the receive FIFO, so that a full one never stops
  the line while words are left.

The I2C master (`IicProofs`): `IicIsGood` is `IicSpec => []IicInv`, where the
driver is between transfers, in a send or in a receive, and the latter two run or were
aborted. In a send, the bytes on the bus, in the FIFO and in the buffer chain up
to the bytes of the transfer, the stop is ordered only after the last of them
is in the FIFO, and a stop that is still to be served means that the FIFO is empty (or that
the slave refused: then NACK is served first). In a receive, `Adds` is the
bookkeeping of four counters, and what has arrived and is asked for
reaches the threshold. `IicRequestsAddUp`, `IicThresholdInReach` and
`IicDoneIsComplete` follow. `IicCanGoOn` needs a second invariant, `IicAhead`: the levels are latched
and the bits the transfer waits for are enabled and unmasked (`Wired`), a send has a byte, an
interrupt or a stop to come (`SendAhead`), and so has a receive (`ReceiveAhead`), also with a slave that
refuses or is missing. TLC checked `IicInv` with FIFOs of 4 and 8 first.

The devices (`DevicesProofs`), each of its own specification:

* `BitesInTime`: the range is long enough for what was asked
  (`RangeServes`, from the rounding down of the table) and a loaded counter has as
  far to go as is missing from the timeout (`CountsDown`).
* `TimeoutIsInTime`: the same shape for the timer, with the product that is cut to the
  width of the counter (`LoadOfFits`), and a flag that is only raised in time. While
  `csi_timer_start` is between its writes the count is still the old run's, so the invariant speaks of
  the count outside of it, and of the load that is ready in it (`LoadReady`).
* `AlarmNeverEarly`: the counter wraps and is loaded while main computes, so the
  invariant speaks of the seconds main would read (`Now`) at the match and, at each point of
  `csi_rtc_set_alarm`, of what main has read so far (`MainServes`).
* `AlarmIsAhead`: the count goes towards the match of an alarm that is on, one at a time,
  and raises the flag there. `RtcAhead` adds that while an alarm is on, or main
  has measured one against the counter, no load of it is still to come (`RtcReady`).
* `DaysAreRight`: the step from a date to the next, within a
  month, across months and across years, adds one to the number of days.
* `DatesAreRight`: the loops are bounded, the years by three and the months by three
  halvings, so that they are composed of that many steps and need no induction: each is followed
  by cases on the year of four and on the month. With `DaysAreRight` it is `CalendarIsRight`.
* `EventsAreKept`, `ShapeIsKept`: one invariant for both; the second is of the periods whose clocks fit a
  word, as `PwmShape` says. The
  arithmetic is in the lemmas about quotients (`QuotientShort`, `QuotientsOrdered`) and in
  `DividerSet`: what the divider's two fields mean is what was set.
* `TransfersComing`: inductive with the types: what starts a transfer unmasks and enables it, and
  a channel that changes owners has none under way.
* `RunsWhereItWasTold`: `RunsWhereTold` says nothing while a write is on
  its way; `Follows` says what the registers will be when it is done, which is inductive.
* `SlaveNineCarries`: inductive with `InPhase`, which says that the
  registers of the path are those of the master's data phase.
* `InterruptsAreServedByOwner`: `TablesMatchWires` (the number of each of
  the tables' instances is the line of its device) and `NumbersDiffer`, then
  `DispInv`: what is enabled is registered, except in the middle of a job, and what
  is registered at a number is the instance with that number.
* `PartsRunAlone`: the specification of `MCDevices` implies that of each part, so that
  `DevicesTyped` (`Spec => []DevicesTypeOK`), `DevicesCanGoOn`, `NothingIsEarly` and
  `DevicesKeepPromises` (all of the above and those of the I2C master) hold of it.

Assumptions are the named ones of the modules (`SizesAssumption` to
`DispatchAssumption`): types of constants, at least one FIFO place (in `Usi` a multiple of
four, of which the thresholds are quarters), an idle bus allowed, years the driver accepts; `LengthAssumption`
says that a length survives the way through its field of `CTRL`. The theorems with a hypothesis of their own
are `RungSignalled`, `MessagesAreIntact`, `ReportsAreIntact` and the three of `DriversCanGoOn`.

Model-checked only: all liveness (`MessagesArrive`, `LocksEnd`, `SendEnds`, `SpiEnds`,
`IicEnds`, `PinsServed`, `AlarmRings`, `TransfersTold`), which needs fairness and ENABLED and
is beyond this prover. Of all but `PinsServed` the theorems above are the safety half.

## 5. Disagreements found

* `rtl/mbx_top.sv:316,366`: each lock waits for the *other* channel's FIFO to be
  empty. `rtl/mbx.svh:24` calls the flag "read by destination core". With the
  other channel idle a lock lasts one cycle (`mbx_lock`).
* `rtl/iopmp.sv:649`: `m1_entry_match[10]` is assigned in port 2's branch. Port 1's
  verdict depends on port 2 and port 2's on its past, although the logic is a
  "Duplicate Match Logic" (line 78) (`iopmp_alike`).
* `rtl/iopmp.sv:507,603,699`: the last of "3 entries" is bounded by an entry that is
  never written, so that an open region is denied. `TableObeyed` says so (`NoEnd`).
* `rtl/iopmp_define.svh:103`: the read-only region of channel 0 ends below
  its STATUS register, which the REE can write (`iopmp_chan0`).
* `rtl/gpio0.v:344`: the write enable of the end-of-interrupt register is decoded at the
  address of LS_SYNC, so that the driver's "clear the gpio interrupt"
  (`wj_oip_gpio.c:262`) clears nothing: an edge is told until its pin is switched off
  (`gpio_eoi`).
* `wj_usi_usart.c:284`: a batch of received bytes is cut to the whole length of the receive and not to what is
  left of it, so that it stores past the `num` items of line 632 (`usart_recv`).
* `wj_pwm.c:264,275`: the clocks of a period are a product of 32 bits. At 20 MHz a period of 214748365 us wraps,
  may fit, and is accepted with a far shorter one than "the PWM period in us" of line 245 (`pwm_wrap`).

Observed but not claimed as findings: with several exceptions while the TEE's
message is unread, reports are dropped because channel 1 is locked on
channel 0's words; and an exception taken while main of the REE is sending tears main's
message. `csi_timer_resume` clears the control register instead of setting its
enable bit (`wj_oip_timer.c:326`). `csi_dma_get_status` may say busy after the end
(`wj_dmac_v2.c:637`). A PWM configuration that fails leaves the clock of all
generators changed (`wj_pwm.c:263`). None contradicts a sentence of the repository
that a run could refute.

## 6. Not modelled, and what is left

Not modelled for good: the matrix and bridges, the cores (`E902`, of which only the
interrupt inputs are used), memories, clocks, pads, IP, images, bitstreams,
start-up code, `printf`, pin multiplexing. Of the drivers: values read from
a capture, baud rates and formats beyond whether they are accepted, the slave modes
whose interrupts no code enables, SPI transfers of unequal lengths, DMA bus errors, calls
that only return "not supported". The generated hardware is modelled as far as
its driver sees it, which for `usi0.v`, `pwm.v` and `dmac.v` is a small part of the file.

Left for later:

1. The IOPMP's handler composed with the exception registers, so that address
   and kind are two reads and further denials happen between them.
2. Main and the exception handler sending over channel 1 together, with the discipline
   under which that would be safe.
3. A model of the receive side of the UART after `INTR_CLR` has lost a stop.
4. One invariant for both kinds of programs of section 4: several reports while a
   message of the TEE is on its way, with the discipline (a pause of the REE until the TEE's
   message is read) under which none is dropped.
