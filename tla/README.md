# A TLA+ model of the Cortex-M3 labs

This directory is the verification project of the labs: TLA+ modules translated
from the C code, TLC configurations that check them on small instances, and
TLAPS proofs about them for every value of their constants. It is written for a
reader who has the repository at hand. Source paths are relative to its root,
`labs/lab20` stands for the directory of that lab.

    tlc -config UartClient.cfg MCUartClient      model-check a run
    tlapm UartClientProofs.tla                   check a proof module

`PROJECT.json` has the tables behind this text: the components, the runs, the
source lines each definition translates, the hazards the properties are for, and
the theorems.

## 1. The system

The repository is a course. Each lab is a program of its own for an MPS2 board
with a Cortex-M3 (or hardware in Verilog for labs H1 to H3), so the "system" is a
set of programs that share the platform and a few layers. Labs 20 to 25 are the
ones that behave like products: drivers, loggers and supervisors on Zephyr, with
interrupts, threads, power cuts and resets.

### Components, their state and what makes them hard

**Asynchronous UART driver** (`labs/lab20/drivers/uart/uart_cmsdk_async.c`).
State: `struct lab20_uart_data` (reception state, current and next buffer,
position, bytes reported, outstanding request), the UART's registers and its
NVIC pending bit. Operations: `callback_set`, `rx_enable`, `rx_buf_rsp`,
`rx_disable`, the interrupt handler with `finish_rx`. It calls its client back
from the handler, and the client calls it again from the callback. Hard: every
callback is a point where the client may stop, answer or enable; bytes and
overruns come between any two steps; two of its entry points work only because
they make the interrupt pending by software. Correct if: it never loses, keeps or
doubly takes a buffer, writes inside lent buffers only, reports every byte once
and in order, and every session ends with everything handed back.

**RX manager and main loop** (`labs/lab20/src`). State: who owns each driver
buffer, the ring buffer, counters, `enabled`, main's control variables set by a
debugger. It is the driver's client in the interrupt and shares its ring with the
main thread. Hard: reception can start, and end, before `rx_manager_init` has
returned; a stop can race an overrun; the ring fills up. Correct if its view of
buffers and session agrees with the driver's, and each byte is read in order or
counted as dropped.

**Flash boot event log** (`labs/lab23/src/boot_log.c`). State: an erasable
partition of 16-byte slots, handles with `next_slot` and `initialized`. Hard:
programming may stop half way, succeed and store something else, or be cut by a
power failure; a second handle on the same partition goes out of date. Correct if
what was acknowledged stays, no occupied slot is programmed again, and a restart
always reaches a verdict on the partition.

**EEPROM fault log** (`labs/lab24/src/fault_log.c`). State: a ring of eight
records of three pages, handles with `sequence`, `newest_slot`, `initialized`.
An append is three verified writes; recovery is a scan with 32-bit serial
arithmetic. Hard: torn writes and power cuts between the three, numbers that wrap
around, a reader overtaken by the writer. Correct if recovery finds the newest
published record or the one being published, whatever happened.

**Watchdog supervisor** (`labs/lab25/src`). State: reported mask, state and mutex
of the supervisor; two workers and the main thread; the hardware watchdog. Hard:
the feed and the clearing of the mask against a concurrent report, a feed that
fails, and time: how late may a healthy system feed, how long may a dead task go
unnoticed. Correct if feeds are justified, faults are final, a healthy system is
never reset and a stalled one always is.

**I2C register update** (`labs/lab21/src`). State: the sensor's register, which the
sensor may change itself, and what `main` remembers of it. Operations: read, write
and masked update of one byte, and the test program that tries them and restores
the register. Hard: an update is a read and a write with time in between; each of
the eight transfers may fail. Correct if bits outside the mask never move and the
register is left as it was found.

**SPI command read** (lab 22): a command and its answer in one chip-select frame, in
one call of Zephyr's SPI driver.

**AHB-to-PCIe host bridge** (lab H1, `platform/pcie/rtl`, used unchanged by labs H2
and H3). State: a request register set, BUSY, DONE and error bits, a snapshot of the
request, a three-state machine. Software programs a request, rings the doorbell
(CFG_COMMAND), polls STATUS and takes CFG_RDATA; the bridge passes the request to a
backend and waits for a completion. Hard: everything changes on the same clock
edge; the driver gives up after a number of polls while the request lives on.
Correct if an answer is never taken for another command's.

**PCIe transaction model** (lab H2): request and completion packing, and an endpoint
with one writable register behind the same handshake; the polling driver.

**FPGA root port** (lab H3): a memory bridge that stalls the bus while a load or
store is under way and answers errors in two cycles, and a vendor adapter that
serves both bridges, one request at a time; firmware that sizes and programs a BAR
and uses it. Hard: two paths to one endpoint, of which one is polled and the other
stalls the processor. Correct if both see the program order and nothing hangs.

**PCIe enumeration** (lab 18, `pcie_bus.c`). State: the table of devices found and
the position of the scan, five functions deep. Hard: a read that is refused, or a
full table, in the middle of a device. Correct if the table holds exactly the
functions software can see, or the first of them and an error. Lab 17 makes four
register accesses on the same host layer.

**PCIe BAR resources** (lab 19, `pcie_resource.c`). State: a window of addresses with
the next free one, the endpoint's BARs, the caller's record of each. A BAR is sized
by writing all ones and restoring it, given a range, programmed and enabled. Hard:
`uintptr_t` arithmetic at the ends of the address space, and a failure between any
two of up to four accesses. Correct if no range is given out twice and a BAR decodes
where its record says.

**I2C masters and EEPROM** (labs 13 and 14). State: two open-drain wires, the
EEPROM's protocol state and memory, the position of the master in its call. Calls:
initialise, probe, transfer, and above them the EEPROM's page write, read and
acknowledge polling. Hard: the device stretches the clock, also for longer than the
timeout, in the middle of a byte; the board is reset and the device is not. Correct
if what a call reports is what the memory holds, no data bit looks like START or
STOP, and every call returns with the bus let go.

**SPI masters** (labs 15 and 16): a bit-banged master with four modes and two bit
orders and a simulated device; the PL022 with its FIFOs in loopback. Hard: which clock
edge moves a bit and which samples it, and an answer that comes after its wait ran out.

**UART echo** (labs 10 to 12): echo in the interrupt handler, through a ring buffer
between handler and main loop, and through a polled console. Hard: handler and main
share the ring without a lock; a byte that comes inside the handler. Correct if bytes
are echoed once, in order, and none is lost in silence.

**Polled UART** (labs 08 and 09): register accesses by one thread.

**Core labs** (00 to 07), **startup code and runtime** (`platform`), **scripts**
(`scripts`, `tests`, `Makefile`): demonstrations to follow in a debugger, code run
once before main, and the development environment.

### How they interact

    lab 20   main thread --rx_manager_read--> ring <--callbacks-- rx_manager
             rx_manager --rx_enable, rx_buf_rsp--> driver --events--> rx_manager
             driver <--bytes, overruns, pending bit--> UART, NVIC
    lab 23   main --init, append, read_last--> boot_log (two handles) --> flash
    lab 24   main --init, append, latest--> fault_log (two handles) --> EEPROM
    lab 25   workers --watchdog_report--> supervisor <--watchdog_service-- main
             supervisor --wdt_feed--> hardware watchdog --reset--> everything
    lab 13   main --transfer--> i2c_message --SDA, SCL--> EEPROM
    lab 14   main --> eeprom --transfer, probe--> mps2_i2c --SDA, SCL--> EEPROM
    lab 18/19 main --> pcie_bus, pcie_resource --config access--> pcie_host --> endpoints
    lab 11   UART --interrupt--> handler --rb_push--> ring <--rb_pop-- main --> UART
    lab H1/2 CPU --registers--> host bridge <--request, completion--> endpoint
    lab H3   CPU --registers--> host bridge ----+
             CPU --loads, stores--> memory bridge --+--> vendor adapter, endpoint

## 2. The modules

| Module | Models | Composes |
|---|---|---|
| `UartAsync` | driver of lab 20, its UART and pending bit; no `Next` of its own | |
| `RxStream` | what Zephyr's asynchronous receive API promises (abstract) | |
| `UartClient` | the driver under the most general client | `UartAsync`, `RxStream` |
| `UartClientProofs` | theorems about `UartClient` | `UartClient` |
| `RxManager` | RX manager, main loop and debugger of lab 20 | `UartAsync` |
| `RxManagerProofs` | theorems about `RxManager` | `RxManager`, `UartClientProofs` |
| `BootLog` | `boot_log.c` on a flash partition | |
| `FaultLog` | `fault_log.c` on an EEPROM | |
| `Watchdog` | supervisor, threads and watchdog of lab 25 | |
| `LogWatchdogProofs` | theorems about `BootLog` and `Watchdog` | `BootLog`, `Watchdog` |
| `PcieHost` | host bridge of labs H1 to H3, a clock per step; no `Next` of its own | |
| `PcieDriver` | `config_read32`, `config_write32`, `wait_completion` of labs H2 and H3 | `PcieHost` |
| `ConfigSpace` | what the driver promises: an atomic configuration space (abstract) | |
| `PcieConfig` | lab H2: driver, host bridge, TLP engines, endpoint | `PcieDriver`, `ConfigSpace` |
| `PcieConfigProofs` | theorems about `PcieConfig` | `PcieConfig` |
| `PcieRootPort` | lab H3: both bridges and the vendor adapter, under any software | `PcieHost` |
| `PcieRootPortProofs` | theorems about `PcieRootPort` | `PcieRootPort` |
| `PcieBringUp` | lab H3: `main.c` on the root port | `PcieRootPort`, `PcieDriver` |
| `I2cBus` | the two wires and the EEPROM on them (external) | |
| `I2cMaster` | bit-banged masters of labs 13 and 14, a line operation per step | `I2cBus` |
| `I2cBoard` | `eeprom.c`, the main programs, resets | `I2cMaster` |
| `EepromProofs` | theorems about `FaultLog` and the bus of `I2cBoard` | `FaultLog`, `I2cBoard` |
| `I2cCallProofs` | theorems about the calls of labs 13 and 14 | `EepromProofs` |
| `PcieEnum` | lab 18: enumeration, a configuration read per step | |
| `BarResource` | lab 19: sizing, allocation, assignment | |
| `UartEcho` | labs 10 to 12: handler, ring buffer, console | |
| `RegUpdate` | lab 21: register access and its program, a transfer per step | |
| `SpiBitbang` | lab 15: driver calls on the pins of a target | |
| `Ssp` | lab 16: driver and FIFOs of the PL022 | |
| `LabImages` | a build holds one of the six programs above | those six |
| `LabImagesProofs` | theorems about `BarResource`, `RegUpdate`, `Ssp`, `PcieEnum`, `UartEcho` and `SpiBitbang` | `LabImages` |
| `MC...` | values of function and set constants for TLC | |

Definitions keep the names of the source. A definition whose comment begins
"With a bug:" is not part of any specification: it is the definition that follows
with a plausible programming error in it, kept to show that a property notices
that error when it takes the place of the correct one.

### UartAsync, UartClient, RxStream

An API call and a step of the handler run with interrupts locked on one core, so
each is one action up to the point where it touches the hardware or calls the
client. The handler is cut there: `isr` is the step it is at, and a callback in
progress is `evt # NoEvent`, during which the handler waits and the client may
call. `pending` is the NVIC bit; hardware sets it when a byte arrives and
`rx_enable` and `rx_disable` set it by software. Byte `i` of the line has the value
`i`, which makes loss, repetition and reordering visible. An overrun keeps the old
byte or the new one. `finish_rx` is five steps (`BeginFinish`, `FinishReport`,
`FinishRelease`, `FinishReleaseNext`, `FinishDisable`) with a possible callback in
each.

`UartClient` closes it with a client that calls anything at any time, from
threads and callbacks, and scribbles over its own buffers. `lent` and `delivered`
are what the client knows. A refused call changes nothing in the code, so only
accepted ones are steps; that refusals happen when they must is `RefusesLent`.
Buffers are distinct model values: overlap (`buffers_overlap`) becomes equality,
so two different overlapping buffers are outside the model.

`RxStream` says what the API promises: bytes in order into lent buffers, every
byte reported, a buffer returned only after what was put into it was reported,
and the end only when nothing is owed. `ImplementsStream` is the refinement with
`phase <- state, got <- accepted, told <- delivered`.

### RxManager

The handler of each event is an action that ends the callback. Main is cut where
an interrupt can come in between: `callback_set`, marking buffer 0 as owned,
`rx_enable`, polling the stop request, `rx_disable`, reading the ring (which locks
interrupts), accounting. The debugger sets the two control variables whenever it
likes, since it halts the core. Zephyr's `ring_buf` is a bounded sequence.

### BootLog

A slot holds a record, is erased, or holds anything else (`Torn`). A call is cut
at each flash access. Programming stores the record, a torn one or nothing, and
returns success or an error independently of that. A power cut zeroes all
handles between any two accesses. One call runs at a time, as in `main.c`; its
handles are chosen freely.

### FaultLog

A record is a commit page (`token`) and two body pages (`head`, `tail`); a failed
or cut write leaves each page it covers old, new or junk. The CRC is the pair of
values it was computed over: two bodies that a torn write mixes are told apart,
so CRC collisions are outside the model. `fault_log_init` only reads, so it is one
step. Sequence numbers are modulo `M` where the code has 2^32; the assumption
`N <= M / 2` is what the code has by far. There is one writer: `fault_log.c`
leaves exclusive access to its caller and `main.c` appends through `g_log` only.

### Watchdog

Threads are cut at the mutex, at sleeps and between the feed and the clearing of
the mask. Time passes in ticks and only while all threads sleep; a
sleep lasts its period and up to `Slack` more, which stands for rounding,
scheduling and execution time. Feed errors are possible at each feed. The
debugger's writes to `g_stall_mask` are the choice in `InjectStall`, the only step
that reads it. Reset starts everything again, as the board does.

### PcieHost, PcieDriver, ConfigSpace, PcieConfig

A step is one edge of the common clock: every register of every block gets its
next value from the values before the edge, so a step is the conjunction of
`BridgeClock`, the endpoint's clock and one step of the processor. Where the code
assigns a register twice in a clock (the state machine, then the register write)
the last assignment counts, as in Verilog. An access is in its data phase while it
is in `dphase`. Only words and registers that matter are written apart: "BAD" is
any write the bridge refuses. CONTROL is stored and read by nothing, VERSION is a
constant, and CFG_COMMAND and ERROR_STATUS are read by no driver: all four are
left out.

The driver's call is cut at each access, and any number of clocks may pass between
two accesses (`Pass`). After a call returned, with `TIMEOUT` too, the caller may make
any other. `ConfigSpace` is what such a caller may rely on: a call that answers OK
has taken effect once and before it returns; BUSY means no effect, and only while
the request of an earlier call is in flight; a timed-out request may take effect
later, but before the next one starts. `AtomicSpace` is the refinement: the request
in flight is the bridge's snapshot, and it is performed when the endpoint presents
its completion. The answer BACKEND is never given: the endpoint reports an error
for transactions of another kind only, and no such transaction can be made.

### PcieRootPort, PcieBringUp

`Clock(a)` is one edge with access `a` in its address phase. While the bus is stalled
the access in its data phase stays (`Stall`); otherwise the processor presents
nothing or any access of `Accesses`. Addresses of the aperture are the one the
endpoint claims, any other, and those the memory bridge refuses; the words written
to the endpoint's registers are those on which its masks are told apart
(`Programmed`). The processor presents nothing in the second clock of an error
response, since its bus fault is taken; the memory bridge would ignore a transfer
there (`labh3_ahb_pcie_mmio_bridge.v:206`). `ordered` and `promised` are history
variables: the endpoint as the accesses leave it in program order, and the value
the last configuration read has to return. `labh3_pcie_vendor_adapter.v`, the
contract for the FPGA, never accepts a request and is not modelled.

`PcieBringUp` runs the eight configuration calls, the store and the load of `main.c`
on it, with the checks `main` makes of each value. `DataFirst` says whether
`config_write32` writes CFG_WDATA before the doorbell.

### I2cBus, I2cMaster, I2cBoard

A line is high when neither master nor device pulls it low (`SDA`, `SCL`); `hold` is
the device stretching the clock, which it may do after any falling edge, `stretches`
times, and for as long as it likes: longer than the driver's timeout too. A driver
function is the sequence of line operations it performs, so `WriteByte` is built from
`WriteBit` as `write_byte` is from `write_bit`; `todo` is what the call has still to do,
and an operation that fails replaces the rest by what the function does on its way
out. A wait for SCL succeeds when the line is high, and may time out only while the
device holds it. A byte has two bits, of which the higher of the address byte is the
address: enough for a START, data, an ACK of either value, and bits of both values in
any order.

A reset of the board lets both lines go in the middle of anything and starts another
script; the EEPROM keeps its protocol state. `mps2_i2c_recover_bus` stops clocking at
the first high SDA, so if the device was sending a 1 the STOP that follows may meet a
data bit 0: `generate_stop` then finds SDA low and `mps2_i2c_init` returns BUSY
(`mps2_i2c.c:359-375`). Nothing false is reported, and the next start tries again. Lab 13's
driver neither waits for a stretched clock nor frees the bus after a reset: it is run
without stretching, and `MessageArrives` is stated for the time before a reset.
`eeprom.c:48` compares the page size with an error code, which is never true; the
check is left out. `active` in `mps2_i2c_transfer` stays set after a STOP, so an error
in the START of the next message makes a second STOP, which the model has too.

### PcieEnum, BarResource, UartEcho, RegUpdate, SpiBitbang, Ssp, LabImages

These programs share nothing but the board. `LabImages` puts them side by side: the
first step of a behaviour decides which image runs, and only its variables move.

`PcieEnum`: the recursion of the scan is the position `scan`, a configuration read per
step, each of which may be refused. Of a function the scan looks at the multi-function
bit and whether the header has BARs. `sim_init_function` ignores its `header_type`
argument, and the simulated controller has two functions with one address, so the
lab's own board shows three devices of four.

`BarResource`: an address counts units of 16 bytes, the width of a memory BAR's flag
bits, and wraps at `2^Width`; an I/O BAR smaller than a unit is outside the model. The
caller is `main`, which stops at the first error, or one that makes any calls in any
order. The write that restores a BAR after sizing drops its result
(`pcie_resource.c:116`), so a probe may return OK with the BAR in sizing mode: that is in the model
(`ProbeRestore`), and is why one part of `BarsDecode` assumes that no access failed. A
window that ends exactly at the top of the address space has a limit of 0 and never
allocates; a window at bus address 0 has no guard against `align_up` wrapping to 0 and
can give a range out twice, which is why `RangesDisjoint`, and the part of `BarsDecode` that no
two BARs have one address, assume that the base is not 0.
Lab 19's window is at 0x50000000. A 64-bit BAR is refused before it is sized.

`UartEcho`: the handler interrupts main between any two accesses to the ring. A byte
that comes between the handler's read of DATA and its clear of the interrupt loses its own
interrupt (lab 11 `main.c:16-18`, lab 10 `uart.c:47-49`) and waits until the next byte comes:
it is then `Stranded`, and `ByteEchoed` says that this is the only way to wait. Lab 10's RXOR
branch cannot run: nothing in labs 10 to 12 enables the overrun interrupt (RXORIRQEN). Lab 12's newline conversion is `Retarget`.

`RegUpdate`: a byte is the set of its 1 bits, a step is one I2C transfer. A failed write
may or may not have reached the register. The sensor flips bits of its own between any
two transfers; `due` is the register as it would be if each update were one step.

`SpiBitbang`: nothing runs besides the master, so a step is a call of the driver, and the
call is what its pin writes and readings, in order, make of a target. The simulated
device answers each reading of MISO and looks neither at the clock nor at
`cs_active_low`, so it would accept any edges; the second target is an ordinary one of
the configured mode, driven by clock edges. `spi_bitbang_init` ends by selecting the
device, and the first transfer selects it again.

`Ssp`: the controller shifts when it likes, a wait of the driver may run out while its
flag is clear. The byte it gave up on arrives all the same, stays in the FIFO and shifts
every later transfer by one (`mps2_ssp.c:90`); `TransferShifted` says exactly by how much.
`main` goes on after a failed `mps2_ssp_init`, and so does the model.

## 3. What the runs check

| Run | Instance | Distinct states | Question |
|---|---|---|---|
| `UartClient` | buffers of 1, 1 and 2 bytes, 4 bytes on the line | 202 339 | the driver: safety, refinement of `RxStream`, progress |
| `RxManager` | 2 buffers of 2, ring of 3, reads of 2, 6 bytes | 217 132 | manager and main loop: safety, stop and drain |
| `BootLog` | 2 handles, 3 slots, 2 records | 334 302 | durability under all failures |
| `FaultLog` | 3 slots, numbers modulo 6, 2 codes, a writer and a reader | 101 528 | recovery under all failures |
| `Watchdog` | periods 1, 2, 3, slack 1, timeout 7 | 1 098 847 | safety and timing |
| `WatchdogLive` | slack 0, a stall after two feeds | 93 973 | resets happen |
| `PcieConfig` | 2 functions, 2 registers, 3 words, 2 polls, latency 10 | 272 283 | refinement of `ConfigSpace`, progress |
| `PcieRootPort` | latency 1, ten accesses | 292 548 | order, routing and progress on two paths |
| `PcieBringUp` | latency 2, 6 polls, CFG_WDATA first | 363 | the bring-up passes |
| `PcieFirmware` | the same, doorbell first | violation | the bring-up of `main.c` |
| `I2cBoard` | 2-bit bytes, pages of 2, 2 stretches, 1 reset, 8 scripts | 86 738 | I2C calls tell the truth and return |
| `LabImages` | see the bounds | 57 697 | the six small programs |

The properties and why they could fail:

* `Ownership`: the driver clears its pointers before it releases the buffers; a
  buffer not copied first, or a path of `finish_rx` that skips one, loses it for
  good. With `StopCompletes` it says that every lent buffer comes back.
* `RefusesLent`: the client may answer a request with any buffer, in particular
  the one being filled, or after it was stopped.
* `Delivery`: a byte reaches the client once, across buffer switches, stops in
  callbacks, overruns and restarts inside the RX_DISABLED callback.
* `ImplementsStream`: the contract as a whole, step by step; a session ends with
  everything reported and handed back.
* `StopCompletes`, `ByteFetched`: both rest on interrupts the driver makes pending
  itself, in `rx_disable` and `rx_enable`.
* `ManagerTracks`: two components, two copies of the same facts (who holds a
  buffer, whether a session runs), updated at different times. They must agree at
  every instant an interrupt can come, also around `rx_manager_init`, and an overrun
  is the only error.
* `Accounting`: every byte fetched is somewhere, and read in order, when the ring
  overflows too.
* `StopIsFinal`: a stop request takes effect even if it comes before reception or races
  an overrun.
* `StopLosesNothing`: the bytes of the buffer in use when a stop is requested come into
  the ring after `uart_rx_disable` has returned, and the ring may hold more than one read
  takes; they get to the application all the same, or are counted as dropped. It says
  nothing of a ring under input that goes on: main reads 16 bytes every 20 ms, a line at
  115200 baud brings more, and what does not fit is dropped, which `Accounting` counts.
* `AckedDurable`, `NeverReprogram`, `HandleSound`: the
  log stays readable and appendable after any failure, and a stale handle cannot
  damage it. `tests/host_contract.c` states that an occupied slot is never
  programmed, "even with identical bytes".
* `PublishIsAtomic`, `History`, `Recoverable`, `HandlesCoherent`: a reboot at any
  instant finds the old record or the new one; the last `N - 1` records are intact;
  the scan's age check never refuses a ring that appends, failures and power cuts
  made; what a handle keeps in RAM is what a rescan would find, or refused.
* `FeedJustified`, `NoLostReport`: reports and feeds do not cross.
* `FeedWindow`: while no task is stalled, the time since the last feed is at most the
  longest period plus main's plus twice the slack: 1 + 3 + 2 here, and a smaller
  bound is violated. With the lab's values (service 50 ms, workers 200 and 300 ms)
  that is 350 ms plus twice the slack, far from its timeout of 2000 ms.
  A silent task is noticed within two timeouts, which is exact too.
* `FaultsEnd`: a fault or a stall ends in a reset and nothing prevents it.
* `AtomicSpace`: a request may outlive its call, and DONE does not say whose
  completion it was. What saves the driver is its look at BUSY before each command.
  Lab H1's own driver looks at bit 3 of STATUS, which is always zero
  (`labh1_pcie_regs.h:17`; the bridge has BUSY at bit 0): with that bit the property
  fails, after a timeout. Lab H1's stub answers in a few clocks of 100000 polls, so
  nothing in that lab shows it.
* `CommandCompletes`, `StallsEnd`: no handshake waits for something that has passed.
* `CompletionOwned`: the adapter has one completion register for two bridges. A
  bridge waits exactly while the adapter works for it.
* `ReadsInOrder`: a posted store needs no completion, a
  configuration write is still in flight when the processor goes on, and the adapter
  prefers configuration requests; yet loads see every write before them, and
  refused commands leave the last value read.
* `BringUpPasses`: with the testbench's order of writes, whatever the pauses.
* `CallsHold`: a write is in the memory only after the page check, the transfer and
  the acknowledge polling all went right; a timeout in the middle must leave the
  lines alone.
* `MessageArrives`: lab 13 looks at each ACK, which a build with I2C_SIMULATE_ACK does not.
* `NoStrayCondition`: a bit that moves while SCL is high, or was stretched high late,
  would be a START or a STOP to the device.
* `CallsReturn`: every wait in the two layers is bounded, also one above the other.
* `EnumerationExact`: table full, refused reads and absent functions at every point of
  the scan leave whole entries, in order.
* `RangesDisjoint`, `BarsDecode`: wrapping additions, repeated probes and assignments, and
  a failure between any two accesses. A record must not keep the address of an earlier
  assignment, nor a range go to two BARs.
* `EchoInOrder`, `ByteEchoed`: order of the stores in `rb_push` and `rb_pop`, one free cell in
  the ring, interrupts cleared too early or too late. A byte whose interrupt is cleared with
  that of the one before it (`Stranded`) is fetched when one more comes.
* `UpdateAtomic`, `RegisterLeft`: a change of the sensor between the two halves of an update is
  undone by it, in exactly the bits that changed (`raced`) and only outside the mask;
  everything else keeps the bits outside the mask, on the error paths too.
* `FullDuplex`: eight combinations of mode and bit order, and idle levels and selections
  that must not add an edge.
* `TransferShifted`: what a transfer returns after earlier ones timed out.

### Finding

`config_write32` of lab H3 rings the doorbell (`main.c:94`) before it writes CFG_WDATA
(`main.c:96`). The bridge copies CFG_WDATA when the doorbell is rung
(`labh1_ahb_pcie_host_bridge.v:305`), so each configuration write carries the word of
the one before it. The run `PcieFirmware` shows the size probe of BAR0 writing 0 and
reading 0 back, where test 4 of `tb_labh3.v` (lines 424 to 430) demands 0xFFFF0000;
`main` then stops with LABH3_ERR_BAR_SIZE. The testbench passes because its own
`cfg_write32` writes the data first (`tb_labh3.v:256`), as lab H2's driver does.

### Bounds, and why they are enough

Three buffers are the current one, the next one and one in the client's hands, the
most the driver distinguishes; lengths 1 and 2 make every byte the last one, or
not. Four bytes fill a buffer, switch, and overrun in one session and start
another one. In `RxManager`, six bytes overfill a ring of three while both buffers
are with the driver. Three slots of `BootLog` are before, at and after the slot a
handle points to; with two handles one can be stale by up to three records. In
`FaultLog`, three slots are the newest, the oldest and one between, and numbers
modulo 6, the least the assumption allows, wrap around after two rounds of the
ring; `count` is capped at `N` because nothing distinguishes larger values.
`Watchdog` has the two workers of the lab; `g_successful_feeds` is capped at the
value it is compared with.

In `PcieConfig` the latency of the endpoint (2 clocks in the code) is 10 and the poll
limit (100000) is 2: what matters is that a request can outlive its call and the
whole of the next one, up to a second doorbell; with 6 it cannot. BUSY, OK and
TIMEOUT are all reached. The accesses of `PcieRootPort` are one function, the two
registers with side effects, a word that programs both, all three kinds of command, a
store and a load that the endpoint may claim or not, and a load that the bridge
refuses; refused register writes are in the theorems only. Latency 1 has all states
of the adapter, and the theorems are for any latency. Six polls outlast the latency
in `PcieBringUp`, as the lab's 1000000 do.

In `I2cBoard`, two stretches are one inside a byte and one in the way out of the timeout
it causes; two probes are the last one and one before it; one reset hits every line
operation. The scripts are those of both main programs and the calls `eeprom.c` and
`i2c_message.c` have besides: a write that crosses a page, a read across one, messages
without STOP, with a restart, without the restart they need, and to a busy device.

In `LabImages`: a bus of 6 devices with 3 functions and a table of 4, every choice of
functions on two devices, which overfills the table or not; addresses of 4 bits, with
windows that are tight, empty, end at the top of the address space, run over it or
start at 0, and five calls in any order; a ring of 3 cells and 5 bytes, which overflow the
ring and the data register; a register of 3 bits of which 2 are in the mask, and two
changes of the sensor; three-bit bytes in every mode and order; FIFOs of 2 entries and 4
transfers, of which several run late.

Deadlock is checked in every run but `LabImages`, whose programs end in an endless loop
or sleep for ever.

### Fairness

* `UartClient`: a pending interrupt is taken, the handler goes on, callbacks
  return. On one core with the interrupt enabled the first two hold; the third is
  the driver's documented demand: `Kconfig` says all events are delivered by the
  UART's handler and callbacks must not block. Nothing is assumed of the line or
  of what the client calls.
* `RxManager`: the same, where callbacks are the manager's own straight-line
  code, and the main thread keeps running: it is alone above the idle thread and
  sleeps 20 ms at a time. Its fairness is strong, since the handler interrupts it: between
  two bytes, 87 us apart at 115200 baud, the handler returns, so main gets on however long
  bytes keep coming, and no liveness property needs the line to fall silent. Nothing is
  assumed of the debugger.
* `WatchdogLive`: each thread is scheduled, time passes, and the watchdog's reset
  line works.
* `PcieConfig`, `PcieBringUp`: the clock runs and the processor goes on with the call,
  or with `main`, it is in; a single core without interrupts does. `PcieRootPort`: the
  clock runs, nothing is assumed of the software.
* `I2cBoard`: the processor goes on with its program; nothing is assumed of the device,
  which may stretch for ever.
* `LabImages`, for `ByteEchoed`: the core runs the handler or main, and the transmitter
  finishes its byte.

## 4. What is proved

For every set of buffers, tasks, handles and records, every capacity and length,
from the `ASSUME`s the modules declare and nothing else:

**UartClientProofs.** `TypeCorrect`, `BuffersAccounted` (`[]Ownership`),
`NoDoubleLending` (`[]RefusesLent`), `StoresInBounds` (`[]WriteInBounds`: a byte is stored
inside a lent buffer only), `CallbackStays` (`[]CallbackPresent`: the handler never runs
without a callback). None of these is inductive: whether the handler may write depends on what the callback
before did, and whether a buffer is released depends on which step of `finish_rx`
comes next. The invariant `IInv` adds `Control` (what the step of the handler says
about state, pointers and flags), `Distinct` (current, next and released buffers
differ) and `Bounds` (where the positions lie, and that only a full buffer is
full). `Invariance` proves it, with one lemma per action, and one for each shape
several actions share: entering `finish_rx`, moving on, requesting a buffer.

`BytesDelivered` (`[]Delivery`) adds `Reports` to it (`DInv`): an RX_RDY is for the current
buffer and comes only at the two steps of the handler where the report belongs, and after
them nothing is left to report; so what is unreported is always the span of a
callback and then the span of the buffer, and each action moves one or the other.
`StreamImplemented` (`Spec => ImplementsStream`) adds `Numbered` (`SInv`): the bytes taken are
fewer than the line has sent. Each step of the driver is then a step of `RxStream` or
a stutter, by cases on the state it leaves.

**RxManagerProofs.** `ManagerConsistent` (`[]ManagerTracks`), `BytesAccounted`
(`[]Accounting`), for two buffers or more (`rx_manager.h:12`), any ring and any line. The
manager is one of the clients of `UartClient`: with `lent <- Held`, the buffers the driver
knows, and `delivered <- Reported`, the bytes it counted, its steps are steps of
`UartClient`, so `UartClientProofs` holds of the driver here too (`Client!SInv`). `ManagerInv`
adds what the manager knows: `Asking` (a buffer is requested only when one is free),
`Quiet` (nothing happens before main enables reception), `Counts` (its counters agree) and
`Traced` (bytes read or in the ring are, in order, among those reported). The one step
that is two of the client's is a buffer request answered in the callback.

**LogWatchdogProofs, lab 23.** `LogTypeCorrect`, `HandlesSound`, `AcknowledgedRecordsStay`,
`OccupiedNeverProgrammed`, `HolesStay`. The argument: a usable handle has no erased
slot below it (`HandleSound`), a scan in progress knows what it has passed
(`Scanning`), and an append that has checked its slot is about to program an
erased one with no hole before it (`Appending`).

**EepromProofs, lab 24.** `TypeCorrect`, `AlwaysRecoverable` (`[]Recoverable`), `HistoryKept`
(`[]History`), `MetadataCoherent` (`[]HandlesCoherent`), `PublicationAtomic`
(`PublishIsAtomic`), for any number of slots, handles and codes. The invariant says what is in
the EEPROM whatever was torn: nothing, or a ring of consecutive numbers that ends at its newest
record and is as long as was published (`RingKept`), and what the writer's metadata and
the pages of its target are at each step of an append (`Appending`). That
`fault_log_init` then finds the newest record, comparing numbers that wrap around, is
`ScanFinds`; half of the numbers being more than the slots is what makes `newer` right.

**EepromProofs and I2cCallProofs, labs 13 and 14.** In the first, `BusTypeCorrect`
(`[]BusTypeOK`) and `NoStray` (`NoStrayCondition`); in the second, `CallsTrue` (`[]CallsHold`)
and, under the premise `Lab13Scripts`, `MessagesArrive` (`[]MessageArrives`): for bytes of any
width, any memory, scripts, stretching and resets. `DeviceInv` is what the device is between two
edges: how much of a byte it has, what it puts on SDA while the clock is low, and that it holds
a line in a transfer only. What a call has still to do is a program of line operations computed
from its arguments; `Leads` says what view of the bus a program takes to what other, and its
lemmas put the blocks of the drivers together as their functions call each other. Three views of
lab 14's are followed, and one of lab 13's:

* the lines (`WriteByteLines`, `MessageLines`, `RecoverLines`): `LinesInv` says that what is
  left of a call of lab 14 moves SDA only while SCL is low, but for a START or a STOP, and ends
  with both lines let go, which every way out of an error keeps (`LineStepLines`);
* a device that was busy at the START and hears nothing: the driver reads back its own
  levels and misses the first ACK (`DeafByte`, `DeafOpen`);
* a device that answers: each bit, byte, address and page it takes or sends
  (`WriteByteTalk`, `ReadByteTalk`, `WriteBodyTalk`, `ReadBodyTalk`), up to what it and the
  driver have when the STOP comes (`WriteProgram`, `ReadProgram`, `ProbeProgram`). A stretched
  clock leaves a bit heard but not yet seen to be: the view counts it as heard when the
  master lets SCL go, and only after a poll may the master go on;
* a device under lab 13's driver, which polls for nothing: it answers, or missed its address or
  was not given it, or is to be read, which that driver cannot do. In the last two the call
  fails whatever comes next (`GoneForGood`), and in the first the device has all the data when
  the STOP comes (`MsgWriteTalk`, `MsgRestTalk`).

`DataInv` says which stage a call of `eeprom.c` is in: before the START (`Ahead`), not heard
(`Doomed`), heard (`Tracking`), after the STOP (`Closing`). A write then polls: from the
STOP on its data are on their way into the memory or there (`Stored`), and the page check of
`eeprom_write` is what makes the internal write cycle put every byte where it was meant
(`PageCells`, `StoredKept`). A probe that is acknowledged found the device not busy.

`Lab13Inv` says the same of a call of lab 13, one message at a time: before the START
(`MsgAhead`), in the message (`MsgTracking`), after the last one (`MsgClosing`), with the data of
the last STOP in the page buffer of a busy device or in the memory (`Sent`). `Lab13Scripts` is
what that program needs: nothing stretches the clock, which its driver never looks at
(`MessageStretch = 0`), and the data of the last message of a call stay on a page (`Fits`), as the
one byte `main` sends does. Without the first a message can be reported that the device did
not hear; without the second the internal write cycle rolls over at the end of the page, and the
data are in the memory but not one after the other.

**LogWatchdogProofs, lab 25.** `TypeCorrect`, `MutexExcludes`, `ReportsKept`, `FeedsJustified`,
`FaultsFinal`. The mask equals the set of fresh reports except between a feed and
the clearing, when main holds the mutex (`MaskFollowsReports`), and while main
halts or boots nobody feeds (`MainAlone`). `FeedsInTime` (`[]FeedWindow`) is the timing
bound, for any finite set of tasks with any periods: `WorkersPrompt` bounds the time since
the last feed by how long a worker that has not reported has slept, `MainPrompt` by how
long main has slept since all of them have, and `Silences` ties a task's silence to
both.

**PcieConfigProofs.** `TypeCorrect`, where the poll limit needs that a STATUS read under
way is one the driver had left (`PollLeft`); `DoorbellsAccepted`: from the driver's look
at BUSY to its doorbell the bridge stays idle (`Quiet`), so it refuses none of its
commands. `SpaceImplemented` (`DataFirst => (Spec => AtomicSpace)`) is the refinement of
`ConfigSpace`, each clock a step of it or a stutter. `SpaceInv` adds to `Quiet` that the CFG
registers hold what the call has programmed (`Programmed`), that DONE means the request
is over and no error bit is set (`Done`), and that the endpoint has the bridge's request or
its completion, and neither while the bridge is idle (`InFlight`). The premise is the order of
lab H2's driver; under lab H3's the statement is false, which is the finding.

**PcieRootPortProofs.** `TypeCorrect`, `CompletionsOwned`, `ReadsOrdered`
(`[]ReadsInOrder`, from `LoadsOrdered` and `ConfigReadsOrdered`), for any latency and
any software. `Control` says that the memory bridge works on the access in its data
phase (`Aligned`) and that a request just issued finds the adapter free (`IssueAlone`);
`ProgramOrder` says how far the endpoint lags behind program order: by the one
configuration request on its way and then by the one store waiting behind it
(`InSync`), and what the read and the load on their way will return.

**LabImagesProofs, lab 19.** `RangesNeverOverlap` (`[]RangesDisjoint`), for any address width,
boards, and order of calls and failures. `RangesDisjoint` alone does not say where the next range goes; the
invariant adds `Typed` (window, BARs, records and ranges are words, a call's BAR exists)
and `Packed`: `next` is not below the base, and every range ends at or before it. The fact
that takes arithmetic is `AlignUpFacts`: aligning goes up, or around to exactly 0, which
is below any base but 0. That `2^Width` is a natural number is the assumption `WordAssumption`, since exponentiation is
opaque to the provers. `RecordsDecode` (`[]BarsDecode`) adds what the BARs and the records
agree on between any two accesses (`DecodeInv`): a BAR being sized has no address on
record and its original value is kept (`InProbe`), the range a BAR is about to get is no other
BAR's (`InAssign`, from `RangesDisjoint`), a BAR is in sizing mode only inside the call that
sizes it unless an access failed (`Sizing`), and how far main is (`MainRuns`).

**LabImagesProofs, lab 21.** `UpdatesAtomic` (`[]UpdateAtomic`), `RegisterRestored`
(`[]RegisterLeft`), for any bits, mask, value and number of changes. `Fresh` says that
the register differs from what updates done in one step would have left, and `old_value`
from the register while an update is between its read and its write, by bits the sensor
changed in there; `XorMerged` carries both through the write. `Undisturbed` says what each stage of the program knows of the register
if the sensor has never changed it.

**LabImagesProofs, lab 16.** `TransfersShifted` (`[]TransferShifted`), for any depth and any
bytes: what a transfer read and what the FIFOs hold is what they held before and then
what it sent, as long as that fits (`Queueing`), and they hold one byte for each answer
that came late (`LateHeld`).

**LabImagesProofs, lab 18.** `EnumerationFaithful` (`[]EnumerationExact`), for any controllers: the
table holds exactly the visible functions before the place the scan has reached
(`Progress`), one entry each (`TableCounted`) and in order (`Ordered`); a place the scan passes
by is one at which no function is visible (`InDevice`).

**LabImagesProofs, labs 10 to 12.** `EchoesOrdered` (`[]EchoInOrder`), for any ring size, banner and
number of bytes. `Stream` is what is echoed, in main's hand, in the ring, in the handler's
hand and in the data register, in this order; every step of the programs leaves it as it is,
but for a byte that comes, at its end, and one that is dropped by an overrun or a full ring. The
invariant adds where handler and main can be (`EchoPlace`: while main is inside `rb_pop` the
ring is not empty, and the cell it has read is still the oldest) and how much of the banner
is out (`Greets`). `RingPush` and `RingPop` are the ring as a queue: with the remainders of
`head` and `tail` unfolded (`RingFacts`), a push appends and a pop drops the first, and `rb_full`
keeps the push off the cell that main may be reading.

**LabImagesProofs, lab 15.** `TransfersFullDuplex` (`[]FullDuplex`), for any width of a byte, any
response, bytes, lengths and orders of the calls. Inside a transfer the target is followed bit by bit
(`Sofar`): after a bit an ordinary target has one level more on either side, the one the
master drove, and both lines are as at the start of a byte; `BitSent` says so for the four modes and
both kinds of target, and `StretchInduction` carries it over the bits of a byte and
then over the bytes of a transfer. Between two calls `SpiInv` adds that the selection
of an idle target loses no bit and that every one the target has counted is in `heard`.

The type invariants are proved for every instance, so no run repeats them.

Some assumptions are there for the proofs: the tasks are a finite set (`Watchdog`), there are
at least two driver buffers (`RxManager`, as `rx_manager.h` has it), the response of the SPI device is
not empty (lab 15's has three bytes), powers of two double (`PowerAssumption`, lab 15's
`2^Width`), the pages of the EEPROM fill its memory, and a script of `I2cBoard` is one lab's and
what it transfers ends with a STOP, as both programs have it (`ScriptAssumption`). Induction over the natural numbers (the longest period of a set of tasks, the
slots a scan has read, the characters of a banner) is written as a search for a least
counterexample, which needs no operator parameter.

### What is only model-checked

* `StopCompletes`, `ByteFetched`, `StopIsFinal`, `StopLosesNothing`, `FaultsEnd`,
  `CommandCompletes`, `StallsEnd`, `BringUpPasses`, `CallsReturn`, `ByteEchoed`: they hold
  under fairness only, and ENABLED is beyond the provers.

Every invariant of a run is the statement of a theorem.

## 5. What is not modelled, and why

* Argument checks that no caller in the repository can fail, logging, checkpoints
  for the debugger, and the calls of the UART API that return -ENOTSUP.
* Overlapping but different buffers, CRC collisions, flash and EEPROM reads that
  silently return wrong data, two appending handles on one EEPROM (the code leaves
  exclusive access to its caller).
* A UART that still has a byte or an overrun from an earlier session when
  reception starts again is modelled: the overrun stops the new session at once.
  No document of the repository says what should happen, so no property does.
* A transfer presented in the second cycle of an ERROR response of lab H3's memory
  bridge: the processor takes its bus fault there.
* Lab H1's driver and backend stub, which differ from lab H2's as said above, and
  the contract-only adapter of lab H3.
* Lab 14's copy of `i2c_message.c`, `mps2_ssp_wait_idle` and lab 18's configuration write,
  which nothing calls.
* Lab 17: four register accesses in a row. Lab 22: argument checks around one call of
  Zephyr's SPI driver. Labs 08 and 09: polled accesses by one thread.
* Labs 00 to 07, the platform's startup code and linker scripts, and the build scripts:
  demonstrations of the processor and the toolchain, and code that runs once, in order,
  before anything else; what could go wrong there is in the architecture, the linker or
  the shell, and not in a protocol between parts of this code.

## 6. Plan

Done, in this order because the first are the parts with real concurrency and failure:
labs 20, 23, 24, 25, the PCIe labs H1 to H3, then I2C (13, 14), enumeration and BARs (18,
19), echo (10 to 12), register update (21), SPI (15, 16), with their proof modules. To come: an
abstract register that `FaultLog` implements, each append atomic, and a bounded queue that the
ring of `UartEcho` implements.
