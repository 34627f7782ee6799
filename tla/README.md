# TLA+ models of TrafficGenerator

TrafficGenerator replays a capture file through a network port with DPDK and
writes what the port counted to `files/summary_stats.json`.  Before that, two
scripts prepare the host: they reserve hugepages and move the interface from
its kernel driver to `vfio-pci`.  This directory holds models of both halves,
the TLC runs that check them, and proofs of every safety property of these runs.

Everything is translated from the code.  DPDK, libpcap files, the kernel and
the shell are external and appear with the behaviour the code relies on.

## 1. Inventory

### trgen.c: main
* State: locals of `main`: the settings, the pool, the port, the parsed YAML
  file, the open capture, the array `tx_packets[32]`, the summary.
* Operations: one sequence of calls.  Some failures end the program with
  status 1; those of `rte_eal_init` (105), `init_mempool` (119), `start_port`
  (133) and `rx_loop` (191) are ignored.
* Hard: which later call catches an ignored failure; what is left in the
  summary file when the program ends early, is killed, or the disk is full.
* Hard as well: one pool serves the receive queue, the burst and one buffer
  more, and nothing compares its size with their sum; the port receives before
  `rx_loop` begins.
* Correct when: nothing is used that was not set up; the file that is left
  behind can be told from the ignored failures; every buffer is accounted for
  from the creation of the pool on; the program ends.

### trgen.c: prep_tx_packets
* State: the addresses, `ol_flags` and header lengths of each frame.
* Hard: the flags for TCP and UDP checksums are values of one field of two bits
  and are or-ed; the length is read behind the end of a short frame; the device
  expects the sum of the pseudo-header in the checksum field, and neither
  `prep_tx_packets` nor a call of `rte_eth_tx_prepare` puts it there.
* Correct when no frame asks for an offload that is not on, and a frame leaves
  with the right checksum.

### trgen.c: rx_loop
* State: `cnt`, `pkts`, `start_time`, the burst it was given; behind it the
  port with two rings, the pool, the system clock.
* Operations: per iteration a look at the clock, a burst every 1,000,000th
  time, one read of what was received; at the end the counters.
* Interacts with the port, which works at the same time, and through
  `rte_eth_tx_burst`/`rte_eth_rx_burst` with the ownership of buffers.
* Hard: the same buffers are handed over in every period although the driver
  owns and frees them; received buffers are never freed; the counter wraps;
  the clock can be set; the ring takes a part of the burst; the port goes on
  after the counters were read.
* Correct when: every buffer has one owner; what goes out is the capture; the
  report agrees with what happened; bursts are regular; the loop returns.

### gen/priv/pcap_loader.c
* State: the position in the file, `pkt_num`, `tx_packets`, the pool.
* Operations: `check_pcap`, `get_packet` (five ways to return NULL),
  `load_packets`.
* Hard: each way out must give the buffer back or pass it on; the end of the
  file is recognised by `feof` in the caller; the array has 32 entries; data is
  written to the buffer before it is known that the record is complete.
* Correct when: no buffer is lost or freed twice; entry i is record i; the
  result is that of the file; no write is out of bounds.

### app/cfg/config.c
* State: `tgn_cfg_stgs`.  Operation: `parse_config`, which stores three ints
  into fields of 4, 2 and 2 bytes.
* Hard: every store overlaps the next field.  Correct when the fields end up
  with what the file says.

### gen/priv/mbuf_pool.c, utils/file_utils.c
* State: the limit on file descriptors, the pool.  Operations: `init_mempool`,
  `set_max_fds`.
* Hard: a product of 32 bits; a soft limit that may go down.  Correct when a
  pool that exists can open its files and limits stay consistent.

### gen/priv/eth_dev.c
* State: the port.  Operations: `log_avail_eth_ports`, `init_rx_tx_queues`,
  `start_port` (polls the link up to 100 times, then stops the port).
* Correct when a port is left running if and only if its link was seen.

### mgmt/gen_config.c, mgmt/management.c
* `prs_cfg` copies a YAML file into an array of structs, `print_cfg` prints two
  captures of it, `save_sum_stats` writes the summary.
* Hard: `strcpy` and `%s` without a bound, keys that are missing, fewer than two
  captures, `fopen` that truncates first, a `bool` function that returns
  `EXIT_SUCCESS`.
* Correct when what is printed is what the file says, and a summary that is
  said to be saved is.

### tools/dpdk-setup.sh
* State: hugepages of each node, `/mnt/huge`, and the drivers of `PCI_PATHS`.
* Operations: `setup`, `destroy`, `status` (changes nothing).
* Hard: no command's result is looked at; it may start from any state of the
  host; the kernel keeps pages that are in use without a word; calls
  `dpdk-devbind.py`, an external process, for every device.
* Correct when a command that met no failure did what it was asked for.

### tools/dpdk-devbind.py
* State: a table of devices read at the start; in the kernel the driver and the
  `driver_override` of each device.
* Operations: `bind_one`: unbind, write the override, bind, clear the override;
  on failure bind the old driver by calling itself.
* Hard: five system calls, each can fail or be the last; the rollback.
* Correct when no device is left without a driver, or with an override, unless
  something went wrong for it; devices in use are left alone.

### dpdk_rxtx/trgen.c
* The prototype: the same loader, port and loop in one file with its own build,
  without settings, test description, time limit and summary.
* Hard: only a refused burst ends its loop, and the end is reported as success.

### Not modelled
* `tools/cpu_layout.py` prints what `/proc/cpuinfo` says and keeps no state.
* `graphics/` reads a file and plots it.  What the summary can hold is
  `SummaryFile`; beyond that there is nothing to check.  (Reading it showed that
  `graph.py` looks for a key `detailed` that `save_sum_stats` never writes.)
* The build files have no behaviour at run time.  That they ask for no
  optimisation is why `cnt` is taken to wrap.
* From `dpdk-devbind.py`: `-u`, `--force`, kernels before 3.15 and the status
  display, none of which the script uses.  From `dpdk-setup.sh`: the functions
  nobody calls, and `status`, which changes nothing.
* From the settings: `working_dir` and `cpus`, which are copied and never read
  again (`working_dir` only in the finding about it), and the printing.
* Contents of packets beyond what decides about their checksums, and the
  counters of bytes and errors in the summary.
* Two instances of the script at once, which would share `.echo_tmp`: nothing in
  the repository says what they should do.

## 2. Modules

| module | models | by |
|---|---|---|
| `Mempool` | external: buffers, and places that refer to them | bags, and the number of references in one |
| `PcapLoader` | `pcap_loader.c` | one step per call of `get_packet` |
| `Ownership` | abstract: who owns a buffer | three actions |
| `RxLoop` | `rx_loop`, the port, the clock | one step per call into DPDK or packet |
| `Settings` | `config.c` | memory in cells of 16 bits |
| `MbufPool` | `mbuf_pool.c`, `file_utils.c` | |
| `EthDev` | `eth_dev.c` | |
| `Startup` | `main`, `gen_config.c`, `management.c` | composes the three above |
| `DataPath` | the buffers across a whole run | composes `PcapLoader` and `RxLoop` |
| `TrafficGenerator` | the whole program | composes `Startup` and `DataPath` |
| `Prototype` | `dpdk_rxtx/trgen.c` | its `main` on `DataPath` |
| `TestConfig` | `prs_cfg`, `print_cfg` | memory in cells of a character or a number |
| `TxPrep` | `prep_tx_packets`, the offloads of `init_rx_tx_queues` | flags as sets of bits |
| `Preparation` | the order of these in `main` | composes `TestConfig` and `TxPrep` |
| `DevBind` | `dpdk-devbind.py -b` | one step per system call |
| `HostSetup` | `dpdk-setup.sh` | composes `DevBind` with the memory |

`MC*.tla` give the constants their values.  The proofs are in `MempoolProofs`,
`PcapLoaderProofs`, `RxLoopProofs`, `StartupProofs`, `PreparationProofs`,
`HostSetupProofs`, `TrafficGeneratorProofs` and `PrototypeProofs`.

**Places.**  A buffer can be in the free list, posted to the receive ring,
filled in it, queued for transmission, transmitted but not cleaned up, or
dropped by the program.  Each place counts references, since nothing in the
code keeps a buffer from being handed over twice.  `Put` is
`rte_pktmbuf_free`, `Take` is `rte_pktmbuf_alloc`; the drivers use both.
`Total` is the number of references in a place, which is what the counters of
the port, the report and the size of the pool are compared with.

**PcapLoader.**  A capture is a header that is valid or not, complete records
of which only `caplen` and `len` are kept, and how the file ends.  The disjuncts
of `GetPacket` are the returns of `get_packet` in the order of the code, each
with the reaction of `load_packets`.  The phase `undef` is reached by the two
writes out of bounds the code does not exclude; since `fread` stores what there
is of a record before it fails, one that is cut short or cannot be read counts
with the bytes the file has of it.

**RxLoop.**  `Iterate` is lines 55-60, `TxClean` and `Send` are
`rte_eth_tx_burst` seen from both sides and lines 61-72, `Receive`/`ReceiveEnd`
are lines 74-81, `TimeIsUp` and `Report` the exits.  `Transmit`, `Arrive` and
`Miss` are the port; `Tick` and `Jump` the clock.  Only the program runs on a
thread of its own, but the port and the clock step between any two calls.  The
port goes on when `rx_loop` has returned, and in the whole program until the end:
nobody stops it.
`sent`, `cleaned`, `wire`, `free0`, `gap` are histories for the properties.

**Startup.**  `pc` names the call `main` is at.  Each action is the call with
`main`'s reaction; the loader and `rx_loop` appear with their results.
`crashed` is a segmentation fault, `killed` a signal.

**DataPath, TrafficGenerator.**  `DataPath` is two instances, of `PcapLoader` and
of `RxLoop`, on one set of variables, and what DPDK does between them: the pool
is filled when it is made, the receive queue takes its share when the port
starts (`PostRing`) and gives it back, frames and all, when it stops
(`DrainRing`).  `TrafficGenerator` runs `main` on it.  Where `Startup` chooses a
result of `check_pcap`, `load_packets` or `rx_loop`, their steps are taken here,
and the port works beside them from its start on.  `Prototype` is the other
`main` on the same buffers.

**TestConfig, TxPrep.**  The array of `struct cptr` is a sequence of cells, so that a text that
is too long for its field lands in the next one, in the next capture, or outside (`undef`).  A
text that runs on into the bytes of a number is read as `Garbled`.  `CopyField` is one `strcpy`
or `strtoull` of `prs_cfg`, `PrintCfg` one line of `print_cfg`.  `Scan` has the room behind
`dut_ether_addr`: the pointer `captures` is set after the scan, so it is only beyond the struct
that a longer text does harm.  The values of the checksum flags are sets of bits, so that
or-ing them is their union; of a frame's checksum field it is kept whether it holds the sum of
the pseudo-header, which a capture taken on the sending host often has.

**HostSetup/DevBind.**  `at` is the system call `dpdk-devbind.py` makes next,
`pc` the command of the script.  `Interrupt` ends the child, or both.
`failed`, `refused` and `wrong` remember devices for which something went wrong:
by a failing call, by a driver that cannot take the device, or either of these
during the current command; `skipped` those that had a route in it.  The empty
`Driver_str` of a device that was unbound is "cleared", a driver or override
that is not there is `None`.

The pages of a node are free, in files of `/mnt/huge` that nobody has open
(`filed`), or in use otherwise (`held`).  A write of 0 takes the free ones and
makes the others go when they are freed (`zeroed`); `Use` is what the kernel does
with a page that is.  `Programs` is the generator or any other program, which
takes and drops pages at any time, between and during the commands; a page it
drops may stay in a file, since `main` never calls `rte_eal_cleanup`.

## 3. Runs

| run | question | states |
|---|---|---|
| `loader` | where the buffers are, what is loaded, what leaves the bounds | 48,321 |
| `loop_buffers` | who refers to which buffer; what is sent and reported; the first burst implements `Ownership` | 66,663 |
| `loop_timer` | spacing of bursts across the wrap; does the loop end, and when | 38,848 |
| `startup` | `main` under every failure | 401,921 |
| `program` | the composition: buffers across a run, what the saved counts mean, that it is `Startup` and calls `rx_loop` as `RxLoop` assumes | 750,482 |
| `prototype` | how the prototype ends | 38,554 |
| `preparation` | what is copied, printed and requested | 75,471 |
| `host` | drivers, overrides, hugepages and mount after any commands | 1,031,101 |
| `working_dir`, `destroy_original`, `bind_rollback`, `destroy_pages` | statements of the documentation the code does not keep | |

### What the properties say

*Loader.*  `BufferAccounting`: every buffer is free, in the array, or was
leaked by the call that met the end of the file.  `BurstIsCapture`: entry i
holds record i.  `LoadResult`: the result equals a reference definition read
off the file; it shows that a pool needs one buffer more than there are
packets, that an empty record rejects the file, and that one cut short at the
end is dropped silently.  `UndefinedFor` gives the captures that make the loader
write out of bounds, and shows that it does so for no other: those in which it
comes to a record, complete or cut or failing, of which the file has more than the
data room although the size check, which includes the headroom, lets it pass, or
to a packet more than 32.

*Loop.*  `MbufAccounting` is exact: a buffer handed over k > 1 times is referred
to k times.  `CleanWire`: before any second hand-over only the burst is sent;
afterwards a received frame may go out (the hypothesis is needed).
`RxBudget`: received packets and what is left in the pool sum up to what the
pool had and the driver returned, so reception ends with the pool.
`ReportFaithful`: a successful report is, when it is made, what was counted, except
for what is still in the rings, and goes out or comes in uncounted; a failed run
reports zeros; no report changes afterwards.  `BurstSpacing`: bursts are
`Period` iterations apart, with one exception at the wrap of `cnt`, whose size
it gives.  `LastsAsConfigured`: a run that succeeds lasts as long as configured,
unless the clock is set or the seconds do not fit 16 bits.  `Contract`: every
step up to the first second hand-over of a buffer is one of `Ownership`; that
hand-over passes on what `rx_loop` no longer owns, and the hypothesis is needed.

*Startup.*  `PoolBeforeUse`: ignored failures of EAL and of the pool are caught before the pool
is used.  `SettingsHold`: the overlapping stores are put right by their order.  `FdLimit`: a
pool's files can be opened, unless the product of 32 bits wrapped.  `StartedMeansLink`: a port
is left running if and only if its link was seen.  `SummaryFile`: what the file can be after
each way to end.  `SavedIsTrue`: when to believe what is printed about it.  `Terminates`.

*Program.*  `WholeLife`: from the creation of the pool to the end every buffer is in exactly
one place, in one more with each hand-over after the first, whichever way the port and the
loader went.  `PoolSuffices`: a running port at `rx_loop` means that the pool held the receive
queue, the capture and one buffer more; a smaller one costs the port or the run.
`SavedCounts`: a failed loop leaves zeros; after a good one the file counts no more than what
was sent, and all that was handed over but for one queue full.  Packets that were queued when
the counters were read go out before and after the file is written, so zeros in it do not mean
that nothing was transmitted, whatever `rx_loop` returned.  `Spec` (of `Startup`): the
composition is a refinement of the program in which loader and loop are only results.
`CalledAsAssumed`: `rx_loop` starts in a state `RxLoop!Init` allows, although the port has been
receiving since its start.  `RunEnds`: neither link, traffic, capture nor pool keeps it.

*Prototype.*  `EndsByRefusal`: it returns 0 only after a refused burst, when the
port does not run or all transmit descriptors are taken.  `DeadPortEnds`: without
a port that end always comes.

*Preparation.*  `PrintedAsWritten`: what a copy without a bound spoils and what
not.  `cln_ips` has no room for the NUL of the longest address; the order of the
copies keeps `srv_ips` right, and the printed client addresses run on into those of
the server.  What a text of any length runs over is copied after it, so that a
text which stays inside the array spoils itself at most; only the last captures
can leave the array, of which nothing is said.
`OnlyEnabled`: the request is for an offload that is on.  `ChecksumRight`: or-ed, the
flags ask for UDP, so no other frame comes out right; and a UDP datagram only if
its checksum field came with the sum of the pseudo-header out of the capture.

*Host.*  `CleanAtRest`: a device is left without a driver, or with an override,
only if a call failed for it or it was asked to take a driver that cannot have
it.  `OverrideExcludes` is about the devices this leaves out: an override that a
failed or interrupted call left behind stays on the device with the driver it
names, or without any, and no other can be bound.  A `setup` clears it if it has to
bind the device.  One that is bound already is skipped (`dpdk-devbind.py:391`) and
keeps it, so that the next `destroy` loses the device.
`BoundAsAsked`: a command without a failure ends with the driver it asks
for, whatever earlier commands left behind, for the devices no call failed for and
that can take it.  `OthersUntouched`: other devices, and those that had a
route when the process read the table.  One that is given a route between this
(`dpdk-devbind.py:270`) and the unbind is not protected, so the property speaks of
the table that was read and not of the kernel's.
`HugepagesDone`: a `destroy` without a failure leaves, on the nodes it finds, the
pages that a program or another mount holds, and no others.  Those in files of
`/mnt/huge` go although the 0 was written before the `umount` freed them.
`Terminates`: the recursion of `bind_one` ends.

### Findings
* `working_dir`: the configured directory is never used (`trgen.c:155`).
* `destroy_original`: `destroy` binds `igb`, whatever the interface had before;
  on an interface of another driver nothing is bound at all.
* `bind_rollback`: the rollback of a failed bind cannot work, since the cleared
  `Driver_str` is still a key and the path of the unbind file is wrong.
* `destroy_pages`: nodes with two digits keep their pages, those that nothing uses
  included.

### Bounds
* Loader: arrays of two entries, buffers of 4 with data room 2, up to three
  records, four buffers.  The array can overflow, the pool can be exhausted
  before, at and after the last record, and every comparison of lengths has
  values on both sides.
* Loop: period 2 (3 for the timer) for 1,000,000, `INT_MAX` 3 (7) for 2^31-1,
  16 bits as 2.  `INT_MAX` is a power of two less one and no multiple of the
  period in the timer's run, as in the code, so the wrap falls inside a period.
  Durations lie on both sides of the 2 bits.  Two bursts of two packets against
  three descriptors fill the ring.  `MaxSends`, `MaxFrames`, `MaxJumps` bound what
  would go on for ever.
* Startup: cells of two bits, so that settings exist that do and that do not
  fit the fields and the product; two polls for a hundred.
* Program: four buffers against a receive queue of one, three or five
  descriptors and captures of one to three packets of which the array takes two:
  the pool runs out in the queue, in the loader, at its last call, and not at
  all.  Two bursts, one frame, one poll.
* Prototype: three buffers, queues of one or four descriptors, two bursts.
* Preparation: fields of two characters for 18 and 100; texts from the empty one
  to those that run out of the array; every key missing in turn; no, one, two or
  three captures.
  Bursts of up to two frames of every protocol, with and without IP options, on
  devices that lack each offload.  Descriptions and bursts are each varied for
  one value of the other, with which they share only `main`'s order.
* Host: two commands over one device of `PCI_PATHS`, which is what the script
  has, and one beside it, on machines with and without each module, with and
  without a route; a node the glob finds, with one page for the 1000 of the
  script, which is free, in a file, or held.  No node has more pages than the
  script asks for.  The node of two digits that the glob does not find is in the
  run `destroy_pages`.

The runs switch off the check for deadlocks because the programs end, and
because the bounds stop what is left of the environment.

### Fairness
* Loop: weak fairness of the program, a loop that spins and calls nothing that
  blocks, and of the clock's `Tick`.  None for the port: the loop ends whatever
  the port does.
* Startup: weak fairness of `main`, which waits only in `usleep`.
* Program: weak fairness of `main`'s thread and of time, which `RunEnds` needs
  since only the clock ends the loop.  Prototype: of `main` alone.
* Host: weak fairness of the script and its children, i.e. every command and
  system call returns.  None for interruptions.

## 4. Proofs

Every invariant, every action property and the refinement that the passing runs
check is also a theorem, for every value of the constants the assumptions allow.

### Assumptions
* `MempoolAssumption`: a pool is finite.  `rte_pktmbuf_pool_create` gets a number.
* `LoaderAssumption`, `LoopAssumption`: numbers are natural, a capture is records
  and an end, a burst is not empty and has each buffer once (`load_packets` takes
  each from the pool).  `Period <= IntMax`: a period is among the values of `cnt`,
  as 1,000,000 is; of a longer one `cnt` would reach no multiple but 0.
* `PathAssumption`: what loader and loop assume, and natural sizes of the receive
  queue.  The proofs about both are used in the program by instances (`LoaderP`,
  `LoopP`), for which this is what they need.
* `DocumentsAssumption`: fields of the struct have room; the texts of the file, of
  any length, have no NUL in them, which is where `strcpy` ends a text.
* `SizeAssumption`: the configuration asks for the pool the program has.
* The others say of numbers that they are natural and of files, drivers and devices
  what they are.  `HostAssumption` has no more: how pages are used is up to `Init`
  and `Programs`.

### Counting references
`MempoolProofs` is the arithmetic of the pool.  `Total` is defined as a
cardinality, of the pairs of a buffer and the number of the reference, because a
sum by recursion could not be reasoned about.  `TotalPut` and `TotalTake` say that
a reference more or less is one more or less in all, by a bijection that moves
the last pair; `TotalOfSet` that a place which holds each of its buffers once has
as many references as buffers.  The conservation laws below rest on these.

### Loader
`PcapLoaderProofs` proves, for all captures, pools, array lengths and sizes that
meet `LoaderAssumption`, that `TypeOK`, `BufferAccounting`, `BurstIsCapture`,
`UndefinedFor` and `LoadResult` are invariants.  The inductive invariant adds that the
array has as many entries as records were read (`pos = Len(tx_packets)`), which
`BurstIsCapture` needs.  One
lemma, `ReleaseRestores`, says that a way out which gives the buffer back leaves
the pool as it was; with it four of the six ways out are the same argument.
`LoadResult` needs `Progress`: all that was read so far was wanted and within the
data room, and free buffers and records read sum up to what the pool had.  `EndsAsExpected` compares
each way out with the reference definition: it is the number of free buffers that
decides whether file or pool ends first.  `UndefinedFor` compares every way out with
the calls that would write outside: `StoredInside` and `EndsInside` say that the one
made so far, or the last one, was not among them, `OverrunOutside` that it was.

### Loop
`RxLoopProofs` proves, under `LoopAssumption`, that `TypeOK`, `MbufAccounting`,
`CleanWire`, `RxBudget`, `BurstSpacing` and `LastsAsConfigured` are invariants, and
the step properties `ReportFaithful` and `Contract`, for any number of bursts.
`MbufAccounting` is kept by every step since each moves
one reference from one place to another, except for `Send`, which adds one and
counts it.  `CleanWire` needs that a buffer of the burst that is held or queued
for the first time still has its packet (`BurstIntact`).  For `Contract`, a buffer
that was not handed over twice is in one place, which is its owner, and hand-overs
are never undone (`SentGrows`); so while the next state has none twice, every step
is one of the three of `Ownership`, or leaves the owners alone.  `LoopLasts` rests
on what a look at the clock has shown, and that it stays so while nobody sets it.

`ReportFaithful` speaks of the step that reads the counters.  `Counted` is the invariant it
needs: at any time the port's counter of received packets is what `rx_loop` was given and what
is still in the ring, and that of sent packets what was handed over less what is queued.
`BurstSpacing` is a matter of remainders: `Remainder` and `RemainderNext` are the lemmas about
them that the solver lacks, `FirstDue` is the first multiple of the period among the values of
an `int`, negative ones included, and `Since` gives the distance to the last burst from `cnt`
alone (`Spaced`): between the wrap and `FirstDue` it is counted from the last multiple before
the wrap.

### Main
`StartupProofs` proves all invariants of the run `startup`, for every width of a
cell (`Half` a natural number of at least 2), every limit, file and number of
polls.  `StoresMeet` is the lemma about memory: after the three overlapping
stores in their order the first field holds both halves of its setting, the
narrow ones the low half of theirs, and only what follows the struct is lost.  `PoolHolds` follows the product of
`MbufPool` through its width.  For the rest the inductive invariant adds what has
been reached at each call of `main` (`Reached`): an ignored failure of EAL or pool
does not survive the call that needs it.

### Description and frames
`PreparationProofs` proves `OnlyEnabled`, `ChecksumRight` and `PrintedAsWritten`, for
all descriptions, widths, devices and frames.  `OredIsUdp` and
`OffsetsDiffer` are the core of the second: the or-ed flags are those of UDP, and no
other protocol has its checksum at that offset, with the length of the header being
the frame's own (`PrepInv`) and its checksum field as it was captured.

`PrintedAsWritten` follows the array cell by cell.  `ArrayInv` says of each capture
what the copies so far have left in it (`CopiedUpTo`): of a text for which its field
has no room only that the field is full of it, since what follows is overwritten.
`CellWritten` is the effect of one `strcpy` on the cells of a capture, `StillCopied`
that a write leaves alone what was copied before its place, in this capture and the
earlier ones, however long it is; `ReadsText`, `ReadsOn` and `RunsOn` are what a read
finds: the text, no end before the next number, or both addresses in one.  The order
of the fields enters by `Starts` alone, which is where the mutant breaks.

### Host
`HostSetupProofs` proves all safety properties of the run `host`, for every set of
devices and drivers, every `PCI_PATHS`, and any number of commands, failures and
interruptions.  `ProcessInv` says what `bind_one` has established at each of its
calls, in particular that a device without a driver is the one in hand, and that
a rollback is only tried for a device that is already to blame.  `CleanInv`
extends `CleanAtRest` to the time between the calls: a device is clean, to blame,
or in hand.  `LoopInv` is the loop over `PCI_PATHS`: each device has been dealt
with, is in hand, or still to come, which at the end is `BoundAsAsked`.
`PoolInv` is the kernel's account of the pages: none is free on a node that was
told to have none, and there is no file without a mount; `UseStep` is the lemma for
everything that changes who uses them.  `MemoryInv` says which nodes the script has
told, and of mount and directory what each command has done; with `PoolInv` it gives
`HugepagesDone`.

### Program
`TrafficGeneratorProofs` proves that the whole program implements `Startup`
(`ProgramIsStartup`), and `WholeLife`, `PoolSuffices`, `SavedCounts` and
`CalledAsAssumed` of it.  For the
refinement a step of loader, loop or port is a stutter, and their ends are the
choices of `Startup`; what needs an invariant is that `rx_loop` on a port that
never ran reports zeros, as `Startup` says: nothing arrives and nothing is counted
without a port (`Silent`).  It uses the invariant of `StartupProofs`, which holds
of the composition because of the refinement.  `WholeLife` needs that nothing is
handed over before `rx_loop` and that the receive queue is empty when the port
starts (`Untouched`).

The other three are one argument, `CallInv`, along the run: until the loader runs its variables
are as it starts (`Unloaded`), then the invariants of `PcapLoaderProofs` hold, while the port
receives beside it (`FramesEarly`); `CallIs` puts these together to `RxLoop!Init`; from there
on those of `RxLoopProofs` hold, after the loop has returned as well (`Looping`), since the
port goes on with the steps it has in `RxLoop`.  `SavedCounts` compares the counters that were
saved with a port that has sent on: `RingBound`, that no more waits than there are
descriptors.  `Supply` follows the size of the pool through the start of the port and the
loader, where `LoadResult` gives the buffer that `PoolSuffices` adds.

### Prototype
`PrototypeProofs` proves `EndsByRefusal` in the same way: buffers are in one place
until the loop (`Unloaded`, `Apart`), the burst is one of distinct buffers, and a
refusal by a running port leaves no descriptor free (`Looping`).

### What the proofs changed
* `Accepted` (what a ring takes of a burst) and `Owner` were `CASE`s whose arms
  overlapped, so that their value was not determined where two held.  TLC takes the
  first; the proof of `ReportFaithful` could not.  They are `IF`s now.
* `Period <= IntMax` and that texts have no NUL in them were used without being said.
* `Total` was a fold over the buffers, and the pool not said to be finite.

### Only model-checked
Every liveness property (`Termination`, `Terminates`, `RunEnds`, `DeadPortEnds`):
fairness and ENABLED are out of the prover's reach.  That the findings' properties
are violated is shown by TLC's counterexamples.

## 5. Plan

Done, in this order: `Mempool`, `PcapLoader`, `RxLoop` with `Ownership`, the parts
of `Startup`, `DevBind` and `HostSetup`; then `TestConfig` and `TxPrep`, `DataPath`
with `TrafficGenerator` and `Prototype`; the proofs about each; last those that
count references, follow remainders or the cells of the array.

Left: that the prototype, too, calls its loop as `RxLoop` assumes; the status
display and `-u` of `dpdk-devbind.py`, should the script come to use them; the
counters of bytes and errors, should a reader of the summary come to rely on them.
