# Verification of libpcapcie

TLA+ specifications of libpcapcie, its backends and the programs around it,
checked with TLC on small instances and, for the parts named below, proved with
TLAPS for every value of the constants. Paths are relative to the repository root.

## The system

libpcapcie is a C library that sends, receives, records and filters PCIe
transaction layer packets (TLPs). An application opens a *context* on a named
*backend*. The backends are singletons with static state; the library has no
threads. Around it stand a GUI (pcieshark) that shows trace files while a runner
script produces them, a bridge server for ARM Development Studio on another
machine, a kernel driver for an FPGA, and example programs.

| Component | State | Operations | Talks to |
|---|---|---|---|
| Context core, `src/pcapcie.c` | trace array with count and capacity, statistics, `sniffers[8]` with its count, RX address range | `pcie_open`, `pcie_close`, `pcie_send`, `pcie_recv`, `pcie_sniff`, `pcie_loop`, `pcie_trace_append/reset/count/write_*`, link queries | the backend, through `pcie_backend_ops_t`; the application, through sniffer callbacks |
| TLPs and filter, `src/tlp.c`, `src/filter.c` | none | constructors, `pcie_filter_match` | core |
| Dummy ("golden") backend, `src/backend_dummy.c` | static counter of `dummy_recv`, static deadline of the throttle; the environment | send, recv, link status, device info | core |
| ARM DS backend, `src/backend_armds.c` | static socket and its file status flags | connect on demand, send, recv, close | bridge server, over TCP |
| Bridge server, `armds_bridge_server.c` | the TLP being moved | one `main`: accept, identify, then header, payload, forward, poll, answer in a loop | ARM DS backend; the FPGA, through two placeholders |
| PCI backend, `src/backend_pci.c` | completion ring (16) | sysfs configuration reads and writes, capability search, link status, device info | sysfs |
| FPGA backend, `src/backend_fpga.c` | static descriptor and mapping | init, ready poll, send, recv, close | FPGA registers |
| Xgig backend, `src/backend_xgig.c` | static socket | connect, send; recv always fails | analyzer, over TCP |
| FPGA driver, `fpga_driver.c` | simulated registers, two delayed works | file operations, works, load and unload | processes that open the device |
| Exporters and importers, `src/pcapcie.c`, `examples/pshark.c`, `gui/src/MainWindow.cpp` | files | pcap and CSV writers; CSV and raw readers | each other through files |
| Link programs, `examples/pci_link_check.c`, `pci_link_matrix.c`, `pci_link_status.c` | verdicts | one target, a matrix of four, a print-out | core's link queries |
| GUI, `gui/src/MainWindow.cpp` | runner process, poll timer, read offset, table model | capture start/stop, live trace poll, save, load, filter | runner script, trace file, library |
| Runner script, `scripts/run_zephyr_ai_topology.sh` | pid file, trace and log files | stale lock cleanup, QEMU run, cleanup on exit | GUI, QEMU |

### What is hard, and what makes each component correct

* **Core.** The trace array grows by doubling, growth can fail, slots are reused
  after a reset; callbacks run in the middle of `pcie_loop` and may call the
  library. Correct means: records come out as they went in, in order, unaltered,
  with bounded memory; a sniffer is called for exactly the packets it selected.
* **Dummy.** All contexts share a counter and a throttle. Correct means: loops
  end, the sequence is handed out once, calls are paced and none starves.
* **ARM DS.** Two programs exchange C structs over a byte stream with timeouts,
  partial reads, early returns and reconnection. Correct means: what one side
  sends is what the other gets; calls return; what is sent arrives.
* **PCI.** A bounded ring that two functions keep; accesses that the kernel cuts
  up; a device that goes away between two reads; capability lists that run in
  circles. Correct means: a FIFO; what is moved is what was asked; no answer of a
  device that has gone; every query returns.
* **Xgig, FPGA, driver.** A stream that a failed send leaves out of step; statics
  behind several contexts, and a bounded poll; one register that is command and
  status, written by callers and delayed works, and the order in which a module is
  taken down.
* **Link and configuration.** The order in which eight variables override one
  another; a link that changes between the queries of one report.
* **Export.** What one program writes the other must read back, from a disk that
  may have become full.
* **GUI and runner.** A file read while it is written; a table that six operations
  change and three displays follow; several runs over one pid file.

`PROJECT.json` lists each hazard with its line under `hazards`, and says of those
without a property why they have none.

## The modules

| Module | Models | Instance for TLC |
|---|---|---|
| `TlpFilter` | type codes, `pcie_filter_match` | - |
| `TraceLog` | abstract: an append-only log that can be cleared | - |
| `Pcapcie` | one context, with its sniffers and receive loop; EXTENDS `TlpFilter`, implements `TraceLog` | `MCPcapcie` |
| `Pcapcie_proofs` | theorems about `Pcapcie` | - |
| `DummyBackend` | latency and throttle of the dummy backend, on a clock | `MCDummyBackend` |
| `DummyBackend_proofs` | theorems about `DummyBackend` | - |
| `DummySession` | a process with `Pcapcie` contexts over the dummy backend | `MCDummySession` |
| `DummyConfig` | configuration and link of the dummy backend, from its variables | in `Backends` |
| `ArmdsBridge` | ARM DS backend, bridge server, TCP connection | `MCArmdsBridge` |
| `BoundedFifo` | abstract: a bounded queue of packets | - |
| `PciCompletionQueue` | the completion ring of the PCI backend; implements `BoundedFifo` | in `Backends` |
| `PciAccess` | configuration accesses, and the GUI's enumeration made of them; EXTENDS `TlpFilter` | in `Backends` |
| `PciLink` | capability search, link status, device info | in `Backends` |
| `LinkTarget` | the link check and the programs on top of it | in `Backends` |
| `XgigBackend` | Xgig backend and its endpoint | in `Backends` |
| `FpgaBackend` | FPGA backend, its statics, its poll, the control register | in `Backends` |
| `FpgaDriver` | the kernel driver: writers, works, unloading | in `Backends` |
| `ZephyrRunner` | any number of runs of the script, their emulators and tees | in `Desktop` |
| `LiveTrace` | the GUI's runs, poll and summary over the file a run writes | in `Desktop` |
| `PacketTable` | rows, filter, counts, selection and details of the GUI; EXTENDS `TlpFilter` | in `Desktop` |
| `TraceFile` | writers and readers of trace files: library, GUI, pshark; EXTENDS `TlpFilter` | in `Desktop` |
| `Backends` | the backends behind `pcie_open` other than the dummy's traffic and the ARM DS bridge, with the driver and the link programs; EXTENDS `PciCompletionQueue`, `XgigBackend`, `FpgaBackend`, `FpgaDriver`, `LinkTarget`, and instantiates `PciAccess`, `PciLink`, `DummyConfig` | `MCBackends` |
| `Desktop` | the programs around the library; EXTENDS `ZephyrRunner`, and instantiates `LiveTrace`, `PacketTable`, `TraceFile` | `MCDesktop` |
| `DummySession_proofs`, `ArmdsBridge_proofs`, `PciCompletionQueue_proofs` | theorems about the modules of these names | - |
| `Backends_proofs` | theorems about `Backends` and its parts: `XgigBackend`, `FpgaBackend`, `FpgaDriver`, `LinkTarget`, `PciLink`, `PciAccess`, `DummyConfig` | - |
| `Desktop_proofs` | theorems about `Desktop` and its parts: `ZephyrRunner`, `LiveTrace`, `PacketTable`, `TraceFile` | - |
| `RecursionTheorems` | induction over 0..n in terms of sets, and what a recursive function is | - |

Variables carry the names of the C fields where there is one. A variable marked
"History" is not in the code: it records what the properties speak of. A step
reads one only to keep a bound, to number a TLP, or for the latest entry, which is a
local variable of the code (the packet that `pcie_loop` dispatches is the last of `seen`).

### Pcapcie and TraceLog

A context is `open` or not. The array is a function with domain
`1..trace_capacity`, so a write outside it would break the type invariant. A
record is its direction, type, length, address and a payload of `PayloadSize`
bytes; timestamps, identifiers and tags are copied by the same assignments and are
left out. `pcie_trace_record` has three outcomes: there is room; the array
doubles; `realloc` fails and the record is dropped without notice. Slots that
`realloc` returned hold `Junk`, slots after a reset hold what they held, and only
the `memset` clears them. A TLP announces a length and may carry fewer bytes
than a record holds, more, or none.

Every library call is one step, apart from `pcie_loop`. Its steps are the
backend's delivery of a packet (`LoopRecv`) or its refusal (`LoopStop`), one turn of the
scan per sniffer (`Scan`), and the return of the callback. While a callback runs,
`pcie_send`, `pcie_recv`, `pcie_trace_append`, `pcie_trace_reset` and
`pcie_sniff` can happen. A failed `pcie_open` and a failed receive change nothing
and have no step.

Three uses are ruled out because the code defines no result for them: a
`pcie_close` from a callback (the loop goes on with freed memory), a nested
`pcie_loop` (it would work, with a stack that the model does not have), and
anything but `pcie_close` after a registration beyond `SnifferSlots`, which
overwrites `sniffer_count`. The last *is* reached: after it the scan cannot
go on, which is why the loop run does not check for deadlock. Callbacks do not
write to the packet they are shown.

`TraceLog` is what the trace facility promises: a request appends the complete
record of a TLP, or is dropped, but only when the log is already as long as it has ever
been since the context was opened; a reset empties it. The refinement
mapping is `log <- SubSeq(trace_records, 1, trace_count)`, with the history
variables `high` and `req` mapped to themselves.

### DummyBackend and DummySession

`DummyBackend` has a clock. A call reads its configuration (any combination of
the given rates and latencies, anew for each call), sleeps the latency, enters the throttle,
notes the time, sleeps until `next_tx_ns` and sets the next deadline from the
time it noted. `nanosleep` may oversleep by any amount. At any moment the process may end
and another start. `burst_size`, jitter and drop rate are read by the code and
used nowhere, so they occur only in the property that needs one of them.

`DummySession` puts the backend's counter under `Pcapcie`: `pcie_recv` and the
loop's receive take TLPs from the same counter, which `pcie_close` does not
reset.

### ArmdsBridge

The client's state is its socket, whether it is non-blocking, and the call in
progress; the server's is its place in `main`. The connection is two sequences
of *units*: a header is two units (so that it can arrive in part), a payload as
many as its length. A unit remembers which TLP it is from. A reader that is in
step reads exactly a header; one that is not reads a mixture and takes any
length from it (`Readings`). All short reads and writes, timeouts, `malloc`
failures, end of stream, resets and SIGPIPE are choices of the step in which
they occur. The server's two FPGA functions are placeholders in the
repository: sending always succeeds; receiving may yield an answer, as the
bridge's documentation asks of the code that is to replace it.

`lapses` notes the events that can break the framing: a payload announced and not sent, a header cut, a payload cut, in either direction. A send that finds
no room waits; the client's gives up after its timeout, the server's has none, so
that both can stand in a full socket. A send puts its units out in one step, once
there is room for all of them: what the other side could see of them earlier it can
see of them then, because a read may find less than there is.

### PciCompletionQueue, PciAccess, PciLink

The ring is a function from slots to `[id, length, carries, data]`; `carries` says
whether a payload was copied, for the refinement only. Nothing calls the two
functions yet, so any sequence of calls is possible. A packet with a length and no
data comes out with what the slot held; `BoundedFifo` promises nothing of it. Packets
are at most as long as a slot: `pci_enqueue_completion` copies a longer one beyond its
256 bytes without a look (`src/backend_pci.c:42`), which is undefined.

An access opens the device, then moves as many units per step as the kernel
likes, may see an end of file where the process may not read on, and may fail at each step.
The GUI's enumeration makes one access per register and returns at the first
that fails. Units stand for bytes, two of them for the four of a register.

In `PciLink` every read opens the device anew: between any two the link may
retrain or the device go (all ones); `pci_device_info` reads the ids first, and the search
reads the header again. `HopLimit` equals the number of places, as 48
does in the code, where a list has 48 places of four bytes behind the header.

### DummyConfig and LinkTarget

`DummyConfig` is a function of the environment, evaluated at every call of the
code: a behaviour begins with nothing set, and a step is a `setenv` followed by a query. A text
that does not parse is `NoNumber`; a list item is a bare name, a `profile=` or
a `latency=`; the remaining keys are set by the same code as `latency`. The list is
read item by item (`ItemsRead`), as `strtok_r` does. A list
longer than 255 characters is cut by the code and is not modelled.
`LastWins` says who decides without going through the list again: by the last and
the first position of a kind of item.

`LinkTarget` reads the link once per query; it may change before each.
`pci_link_check` reads its arguments at the width of the fields they go into.

### XgigBackend, FpgaBackend, FpgaDriver

The Xgig stream is a sequence of pieces, each a header or payload of a TLP, whole or
cut. A send may put out all, a part, or nothing, fail with SIGPIPE, or have no
payload to send. What the kernel still takes after the endpoint has gone reaches nobody and is
left out. The endpoint may go at any time, and the next send connects
anew only if the socket was closed in between.

`FpgaBackend` keeps `fpga_fd` and `fpga_regs` with the three values that matter
(`null`, `mapped`, `failed`); the payload is left out, the tag is kept because it
lands in the control register. `pcie_backend_fpga` returns the address of a
local table; the model takes calls to arrive nevertheless. The FPGA
gets ready when it likes, or never.

`FpgaDriver` is the driver of lines 1 to 211, which do not compile as they stand:
line 88 uses a work that line 149 declares. It is taken to be declared first. A write is three
steps: copy, look, act. The copy stores any value in the register, and may fail, or miss its
first byte, after it has; what is no command is not acted on and stays (`stray`). The works run between any two of them, on other
processors too. Scheduling a work that is waiting does nothing, as in the kernel.
Unloading cancels the first work, then the second, then frees the registers; the
kernel lets it begin only when no process holds the device.

### ZephyrRunner

A run is a place in the script, whose order is the file's: clear the stale lock, fork, `QEMU_PID=$!`,
client, sleep or wait, cleanup, trap. Its emulator and its tee are processes of
their own: an emulator boots, takes the lock that `-pidfile` stands for or is
refused, and ends; tee ends when told to or when the emulator has. `qemu.pid` names
a run. TERM may be ignored; KILL is not. TERM to a script runs its trap, KILL does
not. Two outcomes are abstracted: process ids are not reused, and the client
either writes its log or fails.

### LiveTrace, PacketTable, TraceFile

`LiveTrace` has one file, because all runs write to the same path; the script
truncates it when its pipeline starts and appends lines, the last of which may
be incomplete, in a state in which it parses as another line, does not parse, or is
noise. One Qt event is one step: launch (of a measurement or of an enumeration), poll, finished, load, close. That
nothing writes any more once a script has ended is what `JobEnded` of
`ZephyrRunner` gives, for scripts that are not killed.
A row is marked with the line of the file it came from, who wrote that, whether it was whole
when it was read, and in which run it came in.

`PacketTable` has the rows, the hidden ones, the filter, the labels and the
details beside the table. Every operation is one event, an
enumeration that fails at its k-th register included: it returns
with k rows added and nothing refreshed (`stale`). So do the load of an empty file and the
launch of a topology run, which empty the table. The values of rows are bytes, or digits
for rows of the emulator's trace, so that the decoding is modelled by what it does.

`TraceFile` is the way of a trace through the programs: library to CSV or pcap,
CSV to the GUI, GUI to its own format and back, CSV to pshark. A line
is its number of fields, its direction, type, ids and payload. The full
disk cuts a CSV file at any line, and the line in its second field, its eighth, or
in its payload; the pcap writer and `saveTrace` are taken to have room.

### Backends and Desktop

What a backend keeps it keeps in statics of its own file, and an application
chooses its backend by a name; the programs of the desktop have a process or an
object of their own each. The two compositions are therefore disjoint: `part` is
the one that a behaviour is about, its steps are those of that part's module, and
the others stay in one of their initial states. What does pass between
parts is inside the modules: `PciAccess` has the GUI's enumeration on top of
`pci_send`, `TraceFile` has the library, the GUI and pshark over one file, and
`LiveTrace` has the script's output, of which it assumes what `JobEnded` says
of the runner. The fairness of a part binds nothing in another, whose steps are
never enabled.

## The runs

| Run | Question | Bounds and why they are enough |
|---|---|---|
| `pcapcie_trace` | does the array implement the log, within its memory bound? | capacity from 1, five requests: growth 1-2-4-8, a failed growth at each, resets and reuse of every slot; payloads shorter than, longer than and absent from a record of two bytes; closing and reopening |
| `pcapcie_loop` | does each sniffer get exactly its packets, in order? | 3 packets of 2 types, 3 slots and 4 registrations, 2 filters: registration before, between and during dispatch, and the one that overruns |
| `pcapcie_range` | is the reported RX range right? (no) | as `pcapcie_loop` |
| `dummy_pacing` | how many calls pass per interval, how long is one held? | three units to a second, no throttle and intervals 3 and 1, two latencies, three throttled calls (the property relates three), 7 units of time |
| `dummy_rate` | is the configured rate kept? (no) | one rate, burst allowance 2, nine calls |
| `dummy_loop` | do loops over the dummy end? is a TLP shown once? | three TLPs, two sniffers, any number of contexts |
| `armds_framing` | what can break the framing? | two TLPs and two answers per connection with payload, without, and with a payload that is announced only; sockets of four units (two headers fill one); two server runs, so that a reconnection follows a disconnection |
| `armds_live` | do calls return, do TLPs arrive? | two TLPs and two answers of the same three kinds; sockets of two units, which one header fills, so that the server stands at a header and at a payload with its answers unread, and the client in the other full socket at the same time; one server run |
| `armds_blocking` | is the socket blocking between calls? (no) | as `armds_framing`, roomier sockets |
| `armds_payload` | do the two sides agree on payloads? (no) | as `armds_framing`, no answers |
| `backends` | see below | one application per behaviour; the bounds of each part follow |
| `desktop` | see below | two scripts; one GUI, with its bounds |

The parts of `backends`:

| Part | Question | Bounds and why they are enough |
|---|---|---|
| `ring` | is the ring a FIFO? (`RingInv`, `ImplementsFifo`) | three slots, four packets (long, short, length without data, none), any number of calls: every wrap-around, full and empty at every position |
| `access` | do accesses move what they say, and is the enumeration right? (`AccessExact`) do they return? (`PciReturns`) | five units, registers of two, seven requests within, at and beyond the end, two calls |
| `pci` | is the capability found, is a removal noticed, does a query return? (`FoundIfReachable`, `GoneIsNoticed`, `PciReturns`) | all lists over three places, 0 and 0xff, circular ones included; one removal or retraining anywhere in a query, known and unknown speeds |
| `dummy` | who decides, and can the link become impossible? (`LinkAsConfigured`) | every list of up to two items of eleven (so that one overrides another), every combination of two to three values per variable, in and out of range |
| `target` | is the matrix consistent, is a pass earned? (`TableHonest`, `PassEarned`) | nine links and an unreadable one, changing before each of the four reads; 12 targets, one too wide for a byte |
| `xgig` | when is the stream in step? (`Framing`) | two contexts, TLPs with and without payload, four sends: a failure, a reconnection and a success after each |
| `fpga` | are accesses mapped, handles released, do calls return? (`AccessMapped`, `HandlesReleased`, `CallsReturn`) | three contexts and four opens (a second beside a first, twice), polls of three, tags of two bits, which are those of the control register |
| `driver` | is freed memory left alone, does the device settle? (`NoUseAfterFree`, `Settles`) | two writers, four writes of a command, a status or something else: a send over a send, a reset over a send, at each stage |

The parts of `desktop`:

| Part | Question | Bounds and why they are enough |
|---|---|---|
| `runner` | does a timed run end, its job with it, and is a stale lock cleared? (`JobEnded`, `LockNotStale`, `RunnerEnds`) | two runs of each of the four kinds, signalled and killed anywhere |
| `live` | do the rows follow the file, is no line missed, is a run summarised, let go of, its end reported? (`RowsFollowFile`, `CaughtUp`, `SummaryOfRun`, `Released`, `Reported`) | three launches of two, one and no lines, which read as each other when cut (so that a line comes in cut and whole, and a cut line as an earlier one); a file from before; the flag is set, consumed and met again across the launches |
| `packet` | do display, counts and the decoded register fit the rows? (`DisplayTrue`) | three rows from three sources, all filters over type, direction and search, two devices |
| `file` | is what is written read back, and counted alike? (`ReadersAgree`) | three records whose payloads have zeros at the start, in the middle, and none; two writes (export, then save or export again); the disk full at every place |

The runs marked "no" find a disagreement with a comment or a text of the
repository; `PROJECT.json` quotes it under `findings`:

1. `pcie_rx_addr_min/max` are never updated after `pcie_open`.
2. The throttle takes its next deadline from the time before its sleep, so
   back-to-back calls pass at twice `tokens_per_second`. `TwoPerInterval`, proved,
   is what it does guarantee.
3. `arm_ds_recv` leaves the socket non-blocking on its early returns, and the
   next call takes that for the mode to restore.
4. A TLP with a length and no data makes the bridge take the next header for
   its payload.

Further disagreements met while modelling, each in the model as the code has it and
none backed by a run of its own:

* A `pcie ls` capture kills the emulator of a trace run in progress
  (`scripts/run_zephyr_ai_topology.sh:89`); README line 278 has the trace path stay intact.
* A timed trace run ends its `tee`, whose pid `$!` is (line 170), and leaves its
  emulator running, without a pid file: the "bounded performance window" of
  `MainWindow.cpp:1434` bounds only what the GUI sees.
* The live table of a fresh run takes in lines of the file of the run before, until the
  script truncates it; and the summary of a run that wrote nothing speaks of the rows
  of the table (`MainWindow.cpp:1373`). `RowsFollowFile` has the rows of the run before precede the
  new one's, and `SummaryOfRun` leaves such a run out.
* In the driver, one register is command and status: `STATUS_COMPLETE` (2), written
  by a work between a writer's copy and its look, is read as `CMD_RESET`
  (`fpga_driver.c:71-75,137`).
* A line that the poll reads half written comes in as what it then says, and again
  when it is whole; of two equal lines of a trace one comes in
  (`MainWindow.cpp:905-920`).
* The launch of a topology run, an empty file and an enumeration broken off leave the counts
  and the filter as they were for the rows before (`MainWindow.cpp:1087,1224,1589`).
* A value that is no command, written to the driver's command register, stays there
  until the next command (`fpga_driver.c:77-95`).
* In the FPGA backend, the fourth word of a TLP, its tag, is written at
  `FPGA_REG_CONTROL` (`src/backend_fpga.c:84`): a tag resets or disables the device.
* After a failed Xgig send the socket stays in use, and the next TLP, accepted with
  result 0, is read for the payload that is missing (`src/backend_xgig.c:98`).
* A link of unknown generation passes any check of the generation
  (`src/pcapcie.c:380`), and `pci_link_check` cuts the width it asks for to a byte:
  `PassEarned` says what a pass does mean.
* The GUI decodes the name in the type column as a hexadecimal number, so that every
  such packet is decoded as type 0 (`MainWindow.cpp:1885`), and takes the bytes
  of a traced register in the order of its text, shifted by a digit (line 1942).
* A trace that came from the library is saved in a form that the reader does not
  accept (`MainWindow.cpp:992,1045`); pshark counts the column titles
  (`examples/pshark.c:89`); the CSV export reports records that a full disk did not
  take (`src/pcapcie.c:248`); the pcap file's header and lengths are not those of
  its parts (lines 149-182).

The other ARM DS hazards (a header read in part, a payload timed out) are shown by
`TxFraming` and `RxFraming` to be the *only* other ways in which the order or
contents of a stream are disturbed.

`AccessExact`, `FoundIfReachable`, `Framing`, `AccessMapped`, `DisplayTrue`,
`PassEarned`, `Settles` and `Reported` have the same shape as the framing properties: they name the
events that break what one would like to hold, and say that nothing else does.

**Deadlock** is checked where a system can always go on (`pcapcie_trace`,
`dummy_pacing`, `dummy_rate`, `dummy_loop`).
The others really stop: after an
out-of-bounds registration nothing is defined; a process that SIGPIPE or a
fault has ended, a module that is unloaded, scripts that are gone and a window
that is closed do nothing more; and bounded counts of calls and files run out.

**Fairness.** `DummySpec` assumes that the library takes its turns and that
callbacks return: it runs on the caller's thread with nothing to wait for but a
finite sleep. `FairSpec` assumes that the kernel returns from the client's
`send` and `recv` (`SO_RCVTIMEO` and `SO_SNDTIMEO` see to that) and that the
server runs; nothing is assumed of the application's calls, so `Delivered` needs
an alternative for a server that stands still for good on a full socket nobody reads.
`CallsReturn` needs the timeouts: without `SO_SNDTIMEO`, client and server can wait for each other
(its mutant).
`PciAccess`, `PciLink` and `FpgaBackend` assume that a library call takes its
turns, for the same reason as `DummySpec`; nothing is assumed of the device or
the FPGA. `FpgaDriver` assumes that a `write` in progress goes on and that the
kernel starts works whose time has come and lets them finish. `ZephyrRunner`
assumes that each script takes its turns (its waits are a `sleep`, bounded
attempts, and `wait` for a process that has been killed), and nothing of
emulators, tees, users and guests. `LiveTrace` assumes that Qt delivers the
timer's and the process's events. No action is strongly fair.

Every property of a passing run has a mutant of the code that violates it,
defined next to the definition it changes.

## What is proved

`Pcapcie_proofs`, from the assumptions on the constants in `Pcapcie` only
(the payload of a TLP has at least as many bytes as its length, sizes are
naturals, the initial capacity is not zero):

* `TypeCorrect`, `TraceMemory`: `[]TypeOK`, `[]TraceMemoryBounded`. The
  properties are not inductive. `BufferInv` adds what links the counters,
  `trace_count <= high <= trace_capacity`, and that the capacity is zero, initial
  or at most twice `high - 1`; `LoopInv` ties the loop's index and history to its place.
* `TraceBufferImplementsLog`: `Spec => Log!Spec`. Each step of the detailed
  specification is a step of the log or a stutter; the case that matters is
  `RecordStep`, which shows that `memset` and the assignments make of any slot
  the record `RecordOf` the TLP, and that growth keeps the prefix.
* `LoopCallsExact`, `LoopCallsOrdered`: `CallsInv` is stated over packets and
  sniffers up to the one the loop has reached; each turn of the scan extends the
  set of finished pairs by one.

`DummyBackend_proofs`: `PacingTypeCorrect`, `ThrottleTwoPerInterval`,
`ThrottleDelayBounded`. `PacingInv` says that a call enters the throttle after
the one before has left it and leaves it no earlier than that one's entry plus
its interval; two successive instances give the property.

`DummySession_proofs`: `DummyIsLibrary`, that the process over the dummy backend
is one of the library's behaviours, from `CountHolds` (the shared counter is a number) and a
case per step; so the log and the callbacks of `Pcapcie` are what they are there
(`DummyKeepsLibrary`). `LoopShownOnce`: `Numbered` says that the packets a loop was
shown are those of strictly growing numbers below the counter.

`ArmdsBridge_proofs`: `BridgeTypeCorrect`, `FramingTowardFpga`,
`FramingTowardApplication`, for any TLPs, buffer and number of answers and runs
(`BridgeAssumption`: lengths are naturals up to `MaxLength`, a buffer has room for a header and for a payload). The properties
speak of what has come out; the invariants of what is on its way. `Framed` says that
behind every header in a stream come its payload and the next header, up to where
the stream ends; `TxStream` and `RxStream` add where the reader stands, for each
place in its program, and `Moving` which TLP a call is at. They are kept as long as no lapse is noted, and the proofs go through
every step that writes or reads units, and every early return; a server that is
gone may have left the last payload out, so `RxStream` quantifies over how
many were sent whole.

`PciCompletionQueue_proofs`: `RingInOrder` and `RingImplementsFifo`, for any
capacity, payload size and packets within `CompletionAssumption` and
`RingAssumption`. `RingInv` is inductive; the refinement maps the queue to the slots from
`head` on, and its lemmas are about that sequence when a packet is put behind
it or taken from it, modulo the capacity.

`Backends_proofs`, part by part. The parts have specifications of their own, and
`PartsTogether` shows that a behaviour of `Backends` is one of the ring, the Xgig and FPGA
backends, the driver and the link programs; `PartsCorrect` carries their theorems over.

* `XgigFraming`, for any lengths, contexts and number of sends: `StreamInv` says
  that a stream is made of pieces of the TLPs numbered so far, and that an
  unbroken connection is in step.
* `RegistersMapped`, `DescriptorsReleased`, for any contexts, opens and poll
  limit: `Statics` adds that a send has an open context and that a failed
  mapping found beside an open context came of an `mmap` that failed beside one.
* `FreedOnlyWhenQuiet`, for any number of writers: `StagesInv` says what may
  still be queued or running at each stage of the unloading.
* `MatrixTable`, from `MatrixMonotone` and `MatrixHonest`, and `VerdictEarned`, for any
  set of links and targets with natural numbers (`LinksAssumption`,
  `TargetsAssumption`). `Table` says that each verdict is that of its case and its link, and
  `overall` their conjunction; monotonicity follows from the order of the four cases.
* `SearchExact`, `RemovalNoticed`, for any finite set of places, any lists over
  them and at least as many hops (`PlaceAssumption`). `Reachable` is the least set
  that is closed under the pointers, so that a proof can give a closed set: `Searched`
  says that the places visited are as many as the hops, none of them the capability, and closed
  but for the place where the search stands. A list that runs in a circle makes the
  visited set closed; one that does not cannot outlast the hops, by
  the cardinality of the set.
* `AccessesExact`, for accesses of any length at any offset (`AccessAssumption`: a
  payload has as many units as the length, the registers lie in the space).
  `AccessInv` says of each unit of the space where it came from, and how far
  the enumeration has got.
* `LinkConfigured`, for any values of the variables and a list of any length
  (`ConfigAssumption`: what parses is a natural). The invariant is only that the report is
  that of the environment; the work is in `ItemsSay`, by induction over the list:
  the last latency that parses, the last `profile=` or else the first bare word.

`Desktop_proofs`, part by part:

* `RunsKeptApart` (`NothingWrites`, `StaleLockCleared`), for any set of runs. `Stage`
  says what a run knows of its processes at each place of the script (none
  before the fork; a job, or a signal, when it cleans up; no living job when it
  removes the file), `Cleared` that whoever holds the pid file once a run has
  cleared it came later. A step of one run keeps this for the others because no
  step revives a process (`Quiet`, `OthersKeep`).
* `RowsInOrder`, `SummaryIsOwn`, `ReportsPaidFor`, `LetGoComplete`, for any lines, files of any
  length and any interleaving of script, timer and user (`TextAssumption`: a line that is cut
  reads as a line). `LiveInv`: a script that writes, writes lines of its run only
  (`OwnLines`), and what the file has is of one run and whole but for the last line (`FileShape`);
the rows of this run are among what was seen, and each is still what its line was
(`TableKept`, `Passed`): that the lines before it have been seen, and that an unfinished one can only
be finished, makes what comes in next come after; a flag that is up
  has been paid for (`FlagPaid`). `Scanned` and `Entries`, recursive over the lines, are
  related by induction.
* `DisplayIsTable`, for any rows, filters and registers of four bytes
  (`RowAssumption`): `PacketInv` ties hidden rows, labels and details to the table, and says
  when labels and filter are stale, and that nothing is hidden then.
* `TraceSurvives`, for records of either direction with payloads of any length
  (`RecordAssumption`) and a disk that gets full anywhere. `FileInv` says what shape each kind
  of file has, and how many rows were read; `CsvLoads` is an induction over its
  lines, `WholeCount`, `RowsTotal` and `LinesTotal` count the same packets among rows and lines.

`RecursionTheorems` is what those inductions rest on. The library's induction
theorems take a predicate as a parameter; here a predicate is a set of numbers
(`SetInduction`), and a recursive function is the one that `Follows` its step,
which exists because the partial ones agree with each other.

**Every safety invariant and action property of the passing runs is proved.**
Only model-checked: liveness (`LoopReturns`, `CallsReturn` of both backends, `Delivered`,
`PciReturns`, `RunnerEnds`, `Settles`, `Released`), which TLAPS cannot prove
under fairness. The four disagreements are counterexamples of TLC.

## Not modelled

* Logging, name tables, `pci_link_status`, device info of the dummy backend: text.
* A `pcie_loop` inside a callback, and what follows undefined behaviour
  (`pcie_close(NULL)` or within a callback, a ninth sniffer, the FPGA backend's table in its own frame).
* The part of `fpga_driver.c` behind line 211: fragments of another version whose
  registers nothing defines.
* GUI: the pcie ls window, the kill by pid file when the window closes, performance
  labels, dialogs, layout. The measurement's parameters go to the script's environment, which
  reads none of them but the timeout.
* Scenario texts longer than 255 characters; a disk that gets full under the pcap writer or
  `saveTrace`.
* Build files, launcher, media.

Worth doing next: the GUI closing over a foreign pid file as a further process of
`ZephyrRunner`; a refinement of `LiveTrace`'s script from `ZephyrRunner`, which now
is an assumption that `JobEnded` backs; and, for the calls that return, a measure
that each of their steps lowers, which is provable without fairness.
