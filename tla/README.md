# A verification development for U-Boot (MT7621, web recovery)

This directory holds TLA+ modules that model the boot loader in `src/uboot-5.x.x.x`,
the TLC configurations that check them on small instances, and theorems about them that
the TLA+ proof system checks for all values of the constants.  `PROJECT.json` lists the
runs, the findings, the hazards and the source lines each definition stands for.

## Inventory

The profile the repository ships for (`src/profiles`) sets HTTPD_SUPPORT, TFTP_SUPPORT,
CONFIG_QMALLOC, CONFIG_LZMA and an environment in SPI flash.

| component | state | operations | what is hard |
|---|---|---|---|
| web recovery server (`httpd/httpd.c`, `net/httpd.c`, `net/net.c` NetLoopHttpd) | a `httpd_state` per connection; statics shared by all of them; globals of the upgrade | `httpd_appcall` per packet, poll or timeout; `HttpdHandler`; `do_http_upgrade` | several connections on shared statics, order of ACKs, restart after a failed write, power loss |
| uIP (`httpd/uip.c`) | `uip_conns[2]`, one packet buffer | input, retransmission timer, listen | loss, duplication, slot reuse, timers that only run when packets arrive |
| uIP ARP (`httpd/uip_arp.c`) | table of two entries | request, reply, ageing, eviction | ageing in eight bits, full table |
| image verification (`common/cmd_bootm.c`) | a cached header | `verify_kernel_image`, `do_bootm` | a cache that outlives the buffer |
| boot flow (`lib_mips/board.c`, `common/main.c`, `common/cmd_rootfs.c`) | button and countdown | choice of boot, recovery, console | timing, failed boots |
| environment (`env_common.c`, `env_spi.c`, `cmd_nvedit.c`) | RAM copy with CRC, copy of it in flash | setenv, saveenv, relocation | power loss between erase and write, a full environment |
| SPI flash (`spi_rt6855A_flash.c`) | the flash | erase, write, erase_write | partial blocks, power loss, ignored errors |
| allocator (`qmalloc.c`) | arena of fragments, free list | malloc, free, realloc | merging, alignment splits |
| TFTP client and server (`net/tftp.c`, `cmd_tftpServer.c`) | block counters | request, data, ACK, timeout | duplicates, wrap of the block number, retries |
| NetLoop, eth (`net/net.c`, `net/eth.c`) | ARP wait, timeout handler | loop, receive, send | retries against late answers |
| ethernet driver (`rt2880_eth.c`) | RX and TX rings, free buffers | send, receive, halt | asynchronous DMA on one shared buffer |
| netconsole, console, devices, lists | input ring, device lists | getc, putc, assign | recursion, ring limits |
| USB, xHCI, FAT | rings, cluster chains | transfers, reads | timeouts, cycle bits |

`httpd_appcall` is called by `uip_process` for every packet and by `uip_periodic` for every
slot; both share `uip_conn`, the length in flight and the flags with it.  The upgrade reads
what the server left in RAM and in `webfailsafe_*`.  All of it runs in one loop without
interrupts, so the interleavings are those of packets, not of threads.

## Modules

| module | models | extends |
|---|---|---|
| `Recovery`, `RecoveryLive`, `RecoveryMC` | the web recovery server end to end | |
| `SpiFlash`, `SpiFlashMC` | the flash driver command by command | |
| `EnvPromise`; `EnvStore`, `EnvStoreMC` | what an environment promises; the code's, refining it | |
| `Net` | NetSendUDPPacket, the ARP wait, NetStartAgain, eth | |
| `Tftp`, `Tftpd` | the TFTP client and the TFTP server of the rescue mode | `Net` |
| `NetBoot`, `NetBootMC` | NetLoop with both of them, ping, and the network | `Tftp`, `Tftpd` |
| `EthRings` | the Ethernet driver against the DMA engine | |
| `Kermit`, `KermitMC` | k_recv against a Kermit sender and a bad line | |
| `BootFlow`, `BootFlowMC` | from power-on to Linux, the server or the menu | `Kermit` |
| `RecoveryProofs`, `EnvProofs`, `EthRingsProofs`, `SpiFlashProofs`, `NetBootProofs` | theorems | the modules they are about |
| `KermitProofs` | lemmas on packets, pieces and what a load leaves in memory | `Kermit` |
| `BootFlowProofs` | theorems | `BootFlow`, `KermitProofs` |
| `NetBootLoadProofs` | theorems on what is loaded and flashed | `NetBootProofs` |

`BootFlow` composes: it extends `Kermit` and runs it inside the menu's serial loads, and it
takes over results that are properties of other modules: a flash write that succeeds is exact
(`SpiFlash`, `WriteIsExact`), a TFTP load that ends is the whole file (`NetBoot`, `LoadIsExact`).
Of the recovery server it assumes nothing: `Recovery` shows that a damaged file can be accepted
and that what is written need not be what was checked, so in `BootFlow` the server may write
any of its uploads, whole or damaged, or a part of one.  In the same way `Recovery` takes
`flash_erase_write` as one step that writes a partition or fails, and `EnvStore` takes an
erase or a write of its sector as one step: `SpiFlash` is where the commands inside those
steps are modelled.

A next step would be the TCP part of uIP (sequence numbers, slot reuse, timers that only run
when packets arrive) and the fragment list of `qmalloc.c` as a refinement of an abstract
allocator.

## Recovery

`Recovery.tla` takes one call of `httpd_appcall`, with what `uip_process` does around it, as
one action.  `hs[c]` holds the TCP state of a slot, whether a segment of ours is in flight
(`out`, the code's `uip_conn->len`), and its `httpd_state`; `web` holds the statics and the
`webfailsafe_*` globals; `ram` remembers which chunk of which file is at each place of the
upload buffer; `cache` is the header `verify_kernel_image` accepted last; `flash` is what an
upgrade wrote; `pc` is where `NetLoopHttpd` is; `g` is history for the properties.

An upload is `Chunks` segments, and a page `PageSegs` of them.  Content is abstracted to
"which chunk of which file", so CRCs are the comparison of the buffer with the file the header
belongs to, with `sound` telling whether the file itself is damaged.  The `radio` and `tplink`
types behave as `config`.  Constant delays and output are left out.

Runs:

* `RecoveryTwo`: two connections (the code's UIP_CONNS), a firmware and a damaged copy of it under
  the same header, a right name and a wrong one, two chunks, an idle limit of
  zero polls, two accepted uploads.  Two connections are all the code has; two chunks separate
  first, last and appended data; the second upload meets the header cache.  It checks that
  upgrades are granted one by one, that a quiet accepted upload stays exact, that the shared pointer
  stays within what was sent, and that a kernel is accepted unchecked only under the header of the one
  that last passed its data CRC (`AcceptedKernelWasChecked`).
* `RecoveryAll`: one connection at a time, a firmware, a damaged copy of it under the same header
  and an initramfs, under three names, three chunks, two accepted uploads (so that the header
  cache is hit): what is accepted is what the flash holds when the board resets.
* `RecoveryPolite`: liveness.  One user, no loss; weak fairness on each of the client's
  segments and on the loop.  The loop of `NetLoopHttpd` never blocks, which justifies fairness
  of `StartUpgrade` and `UpgradeDone`; the fairness of the client is the assumption that its
  TCP retransmits.
* `RecoveryTrailer`: a disagreement between code and documentation, see `findings`.

One more divergence the model shows, without a run of its own: an upload that is complete
but not yet written can be overwritten by another POST, and the board then flashes the
buffer without verifying it again (httpd.c:654).  This is why `QuietUpgradeIsExact`
speaks of an upload nobody disturbed.  And the refusal of a good upload after one that was cut
off (httpd.c:346) is in the model; the repository promises nothing to the contrary.

`verify_kernel_image` accepts a damaged image when the header at its address is the one accepted last
(cmd_bootm.c:153), although the comment at :138 calls the argument "1 - verify (enforced)".
`AcceptedKernelIsSound` says what the comment says; it does not hold.  `AcceptedKernelWasChecked` is what
the cache leaves of it: the data CRC passes, or the header is that of the kernel that last passed
(`g.passed`), with no refused image between.

Proved in `RecoveryProofs` for any number of connections, files, chunks, page segments:
`TypeCorrect` (with the strengthening that an upload in progress has a file and is
incomplete), `OneUpgradeEach` (strengthened by "no upgrade is ready at the prompt"),
`QuietIsExact` and `WrittenIsExact` (strengthened by "an upgrade runs only when it is
ready"), `StoreIsBounded` and `AcceptedWasChecked`.

`StoreIsBounded` rests on `BoundInv`: while the start of the data is found, the pointer is at
most what all connections have sent, counted place by place (`Sent`), so that a chunk more is an
element more of a finite set; whatever ends an upload also clears `data_start_found`.
`AcceptedWasChecked` has no hypothesis: it is about any number of connections that mix their
chunks under any headers, with any damaged files among them.  Its invariant `CheckedInv` adds
that the cache is empty or holds the header of the kernel that last passed.

All rest on the named assumptions on the constants; `ConnsAssumption` says that there are finitely
many slots and `HeadersAssumption` that the header remembered when none was accepted yet is no image's:
its magic is zero, and `verify_kernel_image` asks for IH_MAGIC (cmd_bootm.c:145-170).  Only
model-checked: the liveness properties.

## SPI flash

`SpiFlash.tla` has one action per erase command, per program command and per sector read back,
and one per decision of `raspi_erase_write`.  `flash` maps cells to contents; a content names the
call whose buffer it comes from and the place in that buffer, so misplaced, missing and mixed
data all show.  `piece` is what is erased, programmed and verified now: a copied sector or all
whole sectors; `done` and `k` are the progress of the outer and the inner loops.  The chip is
external: a program command wraps inside its page and needs blank cells, an erase or program
command may be lost, an erase may outlast the driver's wait (`chip`), and the power may fail
before or inside any command.  `MaxFaults` bounds lost and late commands, `MaxCalls` the calls.
Calls other than `write` end on the chip, as all callers see to.

* `SpiFlashAll`: two of ten calls in a row, two faults, on six sectors of two pages of two
  cells.  Two cells per command and page are enough for a command to cross a page; five
  image calls cover whole sectors, a broken last one, an unaligned start and a file that is
  too long.  Weak fairness of the driver's own step (it never yields) and of the end of a late
  erase gives `CallReturns`.

`raspi_erase_sector` does not look at what its last `raspi_wait_ready` returns (:629), although its
comment says "Returns 0 if successful, non-zero otherwise" (:619): the last erase of a call may
be reported as done while the chip is busy or has lost the command.  `CallReturns` and
`WriteIsExact` hold all the same, because the driver waits again before the next command and
`raspi_erase_write` reads back what it wrote.

`PlainWritesAreExact` is stated for a chip that takes every command, because `raspi_write`
alone does not read back; `WriteIsExact` needs no such condition.

Proved in `SpiFlashProofs` for every size of command, page, sector and chip, every offset and length,
and any number of calls and faults: `TypeCorrect`, `EraseWriteIsExact`, `CallsStayApart`,
`TailIsSpared`, `VerifiedIsFinal` and `PlainIsExact`.  None of them is inductive alone.  `IInv` adds that the piece
lies within the sectors of the call (`PieceInv`); that outside it the flash is as far as the pieces
before brought it, `Overlay(done)` (`FlashInv`); that the piece is whole sectors, holds what the flash
is to hold, begins behind what is done and agrees with the flash as far as it was read back
(`ImageInv`); and that success leaves no erase going on (`DoneInv`).  The arithmetic is a set of
lemmas on sectors and pages: a program command never leaves its page, the whole sectors taken
at once end on a sector.  `PlainIsExact` has an invariant of its own, `PlainInv`, for the calls that
do not read back: the piece is what the flash is to hold at its cells and what lies around them
is right already; its sector is erased once the erase is over; and the cells programmed so far, and no
others, are done.  The theorems rest on `SizesAssumption` and `CallsAssumption`, and `PlainIsExact` on
`SaveAssumption` too: an environment lies in one sector, because `env_spi.c` copies it
into a buffer of one.  Only model-checked: `CallReturns`.

## Environment

`EnvStore.tla` keeps the RAM copy and the flash copy as the variables and one bit that says
whether the stored CRC is that of the data; `copy` stands for `bi_ip_addr`, `load_addr` and
`BootFile`; `dev` for `stdio_devices`.  Which environments fit is the constant `Fitting`, which
the MC module defines by the sum of the sizes of the values.  `saveenv` is three steps (erase,
the environment's pages, the rest of the sector), each of which the power can interrupt; a half
written environment is assumed to fail its CRC.  `Boot` is `spi_env_init`, `env_relocate`, the
copies in `board_init_r` and the three `setenv` of `console_init_r`, in this order.

`setenv name=value` is a form of its own (`UnsetPair`, and `SetPair` when more arguments follow).
`envmatch` stops at the `=` and finds the variable, while every check compares the whole first
argument (cmd_nvedit.c:191, :575): it deletes or redefines a variable without the write-once check and
without a look at console devices or copies.  `Load` is what sets `load_addr` or `BootFile` and not
the variable: the argument of a load command (cmd_net.c:193-200), the end of a serial load
(cmd_load.c:485, :490), choice 4 of the menu (board.c:1169).  The variables any of these came
to since the start or their last `setenv` by name are `g.loose`, and `CopiesFollow` and
`ConsoleFollows` speak of the others.

* `EnvFull`: two variables and the three console ones, long and short values, room for 9 units
  of at most 15, so that commands and the start itself overflow; pairs of the write-once and of
  the copied variable (`Paired`), loads that override the copied one (`Overridden`).
* `EnvRoomy`: everything fits; two console devices, and pairs of `stdout`.  Refinement of
  `EnvPromise`: `mem` is the RAM copy, `disk` the flash copy when its CRC is right.
* `EnvOverflow`: a finding, see `findings`.

U-Boot's README says of `serial#` and `ethaddr` "Once set, these variables are
read-only, and write or delete attempts are rejected" (README:1324).  `SetOnlyOnce` says so, and
does not hold: `setenv ethaddr=x` deletes the variable.  `OnceByName` is what holds: no other
command, overflow or save does it.

Proved in `EnvProofs` for all names, values and fitting environments: `TypeCorrect`,
`CopiesAgree`, `OnceIsOnce`, `SaveLasts` (by `SaveInv`: inside `saveenv` nothing counts as kept,
the CRC in RAM is right unless an overflow was the last change, and what is kept is in the
flash), and, under the assumption that every environment fits, `KeepsPromise` (by `CrcInv`: then
the CRC is always right) and `ConsoleAgrees` (by `ConsoleInv`: from the start on the three console
variables are defined, so that every `setenv` of one switches its file).  They rest on the assumptions that deleting a variable keeps an
environment fitting, that the default and the empty one fit, and that protected and copied
variables are no console variables.

## Network loop, TFTP client and server

In the code a packet handler sends, re-arms timers and restarts the loop inside one call.  Each
function of `net.c`, `tftp.c` and `cmd_tftpServer.c` is therefore an operator from a state of the
board to a state of the board, named as in the code (`Net`, `Tftp`, `Tftpd`), and `NetBoot`
makes actions of them: `do_tftpb`, `do_ping` and `launch_recovery` start a NetLoop, `eth_rx` is one
frame with all its handler does, `Pass` is one turn of the loop with the ARP timer or the
timer of the protocol due or not, `CtrlC` ends it.  `board.t` and `board.d` are the statics of client
and server; the rest of `board` is `NetState`, the handler and timer in force, the packet
waiting for ARP, the memory in blocks, and the kernel partition.

The other stations are external.  `sent` holds every frame the board has sent, `OnTheWire` what
can have been answered to them, and a frame is never taken off either: loss, repetition, delay
and reordering are all there, across NetLoops too.  Every read request opens the sessions
`Sessions` at the server, because `ArpReply` and the caller both send one
(net.c:1054, :1064).  In mode `rescue` the clients `Uploaders` put images;
`Cut` says after which block a client may break off its copy; an empty block then ends the put.

`PingHandler` has no check of protocol or ICMP type: it compares four bytes of whatever
`NetReceive` hands it (net.c:843), and that is the payload of every UDP packet too (:1232).  The
constant `Spelled` says which packets have the address of a host at that place.

Assumed: a transfer started gets a port no transfer before it had (the code takes it from the
timer); timers may run out at any turn.

* `NetBootAll`: files of one and three blocks, block numbers modulo 4, two sessions for each
  transfer, one of which acknowledges the option, a retry limit of one, two ARP tries, two
  transfers, one host to ping; netretry `no`, `once` and `yes` on the command line.
  Two transfers are enough for frames of one to meet the other, and in either order, so that a
  transfer cannot hide behind what an equal one left in memory; two sessions for the two read
  requests; three blocks for a session to go on while blocks of before are repeated.
  Weak fairness of a loop that has something to do and of the timers gives
  `LoopReturns`, stated for a network that falls silent, the command line, and netretry other
  than `yes`, which retries for ever by design.  The file `W` of `NetBootMC` is as long as the
  block numbers and wraps; loading it too makes the run several times longer, and only the type
  invariant, `OneSession` and the properties of the loop speak of it.

  In the rescue mode, with netretry `yes` (the default): two clients whose images have one and two blocks, of which the
  longer may be cut off after one, writes that succeed or fail, and reset after reset.  Two images are
  enough for blocks of one to lie behind or inside the other.  `RescueIsChecked` is about
  what is written, `FinishIsTrue` about what the client is told.

While the device is halted the driver still takes frames and leaves them in its ring
(`rt2880_eth_send` does not look at the state, `STOP_ETH` only stops the DMA), where the next
`eth_init` finds them: `queue`.

What the properties leave out, and why.  `LoadIsExact` and `AckedIsStored` leave out files
whose block numbers wrap (more than 32 MB): block 0 after the wrap, sent again, moves the
offset once more (tftp.c:67).  With netretry=once, NetStartAgain starts the device again when it
gives up, so the other frames of the same `eth_rx` still go through `TftpHandler`: a late option
acknowledgement can acknowledge the block the transfer was given up for, which is not in memory,
and if the rest follows before the loop looks at `NetState` the state is a success.
`LoadIsExact` and `AckedIsStored` therefore leave out `once`, and so does `QuietAtPrompt`,
because the device is left running.  `PingIsTrue` allows "alive" for a host that was asked and, after a
transfer of a file (or from a server) with the address in the right place, for one that was not.
`RescueIsChecked` says that an image written after a check is a kernel image from its first block on, with no
wrong block as far as the write goes (that it is whole, `RescueIsWhole`, does not hold); it leaves out a put that ends in the same `eth_rx` as one that was
flashed and has its header (`known`), which the header cache spares every check (cmd_bootm.c:153).

Proved in `NetBootProofs` for any files, stations, sessions, retries and number of transfers:
`DeviceIsQuiet`, `AliveWasAsked` and `SessionIsOne`.  A handler is a chain of calls, so the lemmas
follow the chain: `...Facts` say what a function leaves alone, `...Ok` that it keeps `BoardOk`, which
holds at every point inside a call.  `BoardOk` says that a loop that has failed has halted the
device (`LoopOk`), that only `netretry` makes NetStartAgain fail (`MayGoOn`: without it a later
start of the device would undo the halt), that a ping has none but its own handlers, and
that the acknowledgements on the wire and the one waiting for ARP are of ports used so far, one session
to a port (`SessionOk`).

Proved in `NetBootLoadProofs`, again for any files and stations: `LoadedIsWhole`, `AcknowledgedIsKept`
and `FlashedIsChecked`.  The inductive invariant `LoadInv` has two halves.  `CallOk` holds at every
point inside a call: the read requests of a port are for the file of its transfer, and the ports
to come are used by nobody, which is what tells the frames of a transfer from those of the one
before (`RequestsOk`); nothing of a transfer is sent before the server's address is known, or held
back after (`ArpOk`), because a packet held back for ARP would be sent into a later transfer.
`ContentOk` does not hold between the store of a block's number and the store of the block: what is
acknowledged on the wire is in memory (`AckedOk`), and so are the block stored last (`LastOk`)
and the one the number of the moment names (`BlockOk`).  That last one has an exception:
`TftpHandler` takes the number from a frame before it looks at the rest, so after
NetStartAgain it may name a block nobody has stored; the transfer sends nothing more then
(`Stuck`), which is where netretry=once differs.  For the rescue server it is enough that a
flashed image begins as the one whose CRCs were checked (`KernelChecked`); no assumption says what the clients put.  Assumed: `ServerAssumption`
(the server has an address) and `FilesAssumption` (a file has at least one block, an uploaded
image fits into the memory of the model).  What the properties leave out, netretry=once and block
numbers that wrap, the theorems leave out too.

`TypeCorrect`, in the same module, rests on both invariants.  Its own, `TypeInv`, adds that a timer
which counts has tries left: `TftpTimeoutCount` passes `TIMEOUT_COUNT` by one, and then
`NetStartAgain` ends the transfer or starts it from none.  `LoadInv` is what says that a block that arrives is one of the file of its transfer.
Assumed too: `TriesAssumption`, that `TIMEOUT_COUNT` is a natural number.  `LoopReturns` is
model-checked only.

Seen while modelling, part of the model and of no property: `TftpTimeoutCount` is not
reset by progress, so the limit counts over a whole transfer; `TftpStarted` is never
reset, so the ARP reply of a ping makes the board send TFTP frames (net.c:1058-1065); the variable
`filesize` keeps its value after a load that failed.  Left out: answers to ARP requests of
others, the first `timeDelta` of 266000000, which is overwritten (net.c:553), and the overflow of
`10UL * CFG_HZ`.

## Ethernet driver

`EthRings.tla` has the driver's steps (`NetBuffers`, `rt2880_eth_setup`, `START_ETH`, `STOP_ETH`,
`Receive`, `Release`, `eth_send`) and the steps of the engine (`DmaReceives`, `DmaSends`), all
interleaved.  Variables are the descriptors' DDONE bits, the buffers, and the four indices by
their names in the code.  `Receive` and `Release` are two steps because `NetReceive` runs
between them, may send, and may halt the device.  Frames are numbers, in the order they enter a
ring; the engine is external.  A descriptor of the transmit ring holds the address of a buffer
(`txPtr`), not a copy of the frame: `built` says which frame is in each buffer that is sent from, and the
engine reads it when it comes to the descriptor.  The network code builds an answer to an ARP request in
the receive buffer of the request (net.c:1023), the frame that waits for an address in
`NetArpWaitTxPacket`, and every other one in `NetTxPacket`.

* `EthRingsAll`: rings of three descriptors and seven frames each way, so that both rings are gone
  round twice, and a pool of exactly the buffers needed.  `MaxFrames` bounds the engine and
  `eth_send`.

`rt2880_eth_send` stores the pointer and returns
(rt2880_eth.c:944-957), so a frame built before the engine has read the last one replaces it, and the
later one goes out for both, always so when frames are accepted while the engine is stopped.
What holds all the same is `TxInOrder`: each descriptor filled is sent once and in order, and what
is read from its buffer was never built before the frame it was filled for.  It is that frame, a younger
one, or bytes no frame was accepted for.

Proved in `EthRingsProofs` for rings of any size of at least two, any pool large enough and any
bound on frames: `TypeCorrect`, `ReceivesInOrder`, `SendsInOrder`, `EngineKnowsRoom`,
`BuffersAreApart`.  The inductive invariant `IInv` is the type invariant with `PoolInv` (buffers
are taken once, in order), `RxInv` and `TxInv`.  The last two say which frames are in which
descriptors: those between the reader's index and the writer's index, counted round the ring, are the
frames not handled yet, in order, with their bits set, and no others have them set.  `BufInv` is about the buffers: no filled
descriptor points to one that holds an older frame, and the one `eth_send` is called with is none the
engine fills.  None of the four safety properties is inductive
alone: each speaks of one descriptor, and the next step moves to its neighbour.  The
arithmetic of going round a ring is in the lemmas before `InitIInv`.  Two named
assumptions on the constants are used: rings of at least two and `PktBufs >= 2 * NumRx + 1`.

## Serial load

`Kermit.tla`: `ReceiveGood`, `ReceiveBadBody` and `ReceiveBadStart` are one packet through `k_recv`, told
apart by where it leaves (good, an error after the sequence number is known, an error before).
`data` and `saved` are the address and quoting state and their checkpoint; characters are
written to memory before the checksum is looked at, as in the code.  The sender is external:
stop and wait, patient (it waits for an answer) or not (it repeats).  A line loses packets and
answers, or damages a packet's body or its length.

Assumed: a six-bit checksum detects the damage; a sequence number is never damaged, which
the comment in the code assumes too (cmd_load.c:870).

* `KermitLength`: a finding, see `findings`.  Damage to the length leads to loss
  of an acknowledged packet; an impatient sender over a line that damages bodies meets the same
  rollback.  So `BootFlow` uses the lines on which a load is right: damage with a
  patient sender, loss with either.

`KermitProofs` proves that on such lines a load is right for files of any length, in packets of any
size, with any number of faults; `BootFlowProofs` draws the conclusions, whose hypothesis
`LinesAreGood` says what such a line is.  The invariant, `LoadInv`, says for some number k of
whole pieces of the file: the sender has acknowledgments for k, memory holds them, and the
receiver is `Behind` (it has not seen the packet the sender is at: `data` is at piece k, `saved` there
or a piece before, and what is on the line is that packet or a copy of the last one) or `Level`
(it has: `saved` is at piece k, and it kept the packet, `data` a piece further, or refused a
damaged copy).  That a repetition takes back exactly the first copy is the step of a stale packet:
from `saved`, one piece before, to `data`.  `FrameInv(e, v)` is the other half: memory beyond what was
sent is untouched, although characters are written before their packet is checked, because what is
left of a damaged packet begins as the packet does (`FewerReach`).  What a fold over characters or pieces
computes is shown by taking a least counterexample from a set of numbers or of sequences
(`Least`, `Induction`, `SequenceInduction`), because the provers cannot instantiate the induction
theorems of the library, which take an operator.
`CharAssumption` is used: the quote and the quoted characters lie below `CTRL`, the bit that quoting sets.

`load_serial_bin` never returns ~0, so the message "Download aborted!" of the menu is never
printed; a load the sender cancels counts as a finished one; the menu flashes from
`CFG_LOAD_ADDR`, while `loadb` stores at `$loadaddr` (taken to be the same).

## Boot flow

`BootFlow.tla` is `board_init_r` from the delay loop on.  `pc` is the place in it, `key` is `BootType`,
`wps`, `press` and `ticks` are the counters of the button, `checked` the header cache of
`verify_kernel_image`, `nor` the flash, `ram` (from `Kermit`) the memory at `CFG_LOAD_ADDR`.
One action stands for each sample of the button, each question, each load, each check, each write.
`PowerCycle` may come at any step after the choice; memory is assumed lost.  `seen` is history, the
samples of the button; so is `doubts`: whether a load began with the end of a kernel in memory
(`"end"`), and whether the recovery server left something else than a whole kernel in flash (`"server"`).
The recovery server may write any of `Uploads`, an image and the size it is written with, to the kernel
or the boot loader, fail at any place of the write, erase the settings, or start an initramfs.

* `BootFlowAll`: a kernel of three characters in two packets that `rootfs_func` knows, one of two
  that it does not, a boot loader; nine keys; a count of five samples and a
  rest, so that every sequence of samples occurs; one fault on the line.  A
  serial load of one file goes through every step of `Kermit`.  The uploads are a kernel with something
  behind it and a damaged one.  One write of the menu or the server fails or is cut off
  anywhere, or the power is cut in it.

`BootsWhole` says that what `do_bootm` starts is whole, whatever is in flash.  `BootSettles` has weak
fairness of the program, which waits for nothing but keys, lines and the network, and of sender
and line; its premise is that nobody touches the board.  A TFTP transfer has no fairness: with the
default netretry `NetStartAgain` begins again for ever (net.c:683-690), so `BootSettles` counts one
that somebody chose as a place to rest, as it does the started initramfs.

Proved in `BootFlowProofs` for any images, keys, faults and lengths of the count: `StartsWhole`,
`PressIsObeyed`, and with `LinesAreGood` (see above) `SerialLoadIsExact`, `BootTypeCorrect` and
`KernelIsKept`.  `StartsWhole` is about the header `do_bootm` remembers and does not check
again; `CheckInv` adds that the kernel in flash is only remembered on the way to Linux,
and that nothing is remembered before a load of choice 1.  For `PressIsObeyed`, `PressInv` says what
the counters of `count_button_press` are in terms of the samples taken (`Counting`: `t0` is the samples
up since the last one down, at most two, `t1` those up to it) and, once the count is over, what the seconds
it returned mean (`CountIsTrue`).  The rest is arithmetic on multiples of `INT_DIV`, whose
product with a variable the lemmas `Rest` and `Times` keep out of the other steps.  Assumed is
`ButtonAssumption`: the step of the count is positive, the long count at least two of them, the
short one between a step and the long one.

`SerialLoadIsExact` is `LoadInv` during the menu's loads (`SerialInv`, which also bounds the
addresses).  `BootTypeCorrect` adds `TimesInv`, in which `t0` and `t1` add up to the turns taken, so that
no count passes its interval, and `FlashInv`, that every image in flash is one.  `KernelIsKept`
has the invariant `KeepInv`: while no write has failed nothing is remembered when a check before a
write begins, so the check is made in full; and of a kernel that is whole in memory the end
was loaded, or it was there before (`LoadCovers`), so a write of the size of the load writes all of it.  For a
load over the serial line that is `FrameInv` at the end of each kernel (`Frames`).  An interrupted
one has size 0, which `LINUX_FILE_SIZE_MIN` refuses.

`BootAssumption` says that every file fits into memory, that a kernel is more than its header, and
that the smallest size accepted is positive.  The second is needed: a damaged packet of
another type may put one character at the start of memory.

What the properties leave out.  `KernelStaysWhole` excludes the `doubts`.  One is a load that begins
while the end of a kernel is in memory: the CRC covers `ih_size` bytes, the write covers what was
loaded, so a short load over an old image passes the check and a part is written (board.c:598-605).  That the old image be whole is
not necessary: another header in front of the same data, as a file loaded in between may leave, does as
well.  The other is a recovery server that wrote a part or a damaged image; after that the menu or
the start find a damaged kernel, and `BootsWhole` says that it is not run.  What the server itself starts,
an initramfs, is as sound as `Recovery` says (`AcceptedKernelWasChecked`).
`ButtonIsObeyed` is stated for one press:
counts of several presses add up (board.c:1060), although the project's README speaks of holding the
button for 5 to 6 seconds.  `BootSettles` counts a damaged boot loader as settled: menu choice 9
ignores what `do_tftpb` returns, as 1 and 2 do, and `verify_uboot_image` looks at the size and the first vectors, so a
part of a boot loader may be flashed.

Not in it: with `verify=n` in the environment and broken LZMA data the board resets
for ever; `rst_button_time` is never read; choice 2 ignores what `do_bootm` returns.  The
network, USB and Linux appear as their results, the recovery server as what it may leave in flash.

## Statements that do not hold

Three disagreements between the code and what the repository says of it have runs, under which TLC
must find the counterexample (`findings` in `PROJECT.json`): `RecoveryTrailer`, `EnvOverflow`,
`KermitLength`.  The modules state six more things one would expect and the code does not keep.  They
are not in any configuration; added to the one named here, TLC refutes each in seconds.  Beside each is what holds
instead, which is checked and proved.

| statement | configuration | the counterexample | what holds |
|---|---|---|---|
| `AcceptedKernelIsSound` | `RecoveryTwo` | after a good firmware, a damaged copy with its header is accepted (cmd_bootm.c:153) | `AcceptedKernelWasChecked` |
| `SetOnlyOnce` | `EnvFull` | `setenv ethaddr=x` deletes a write-once variable (cmd_nvedit.c:191, :575) | `OnceByName` |
| `AskedIfAlive` | `NetBootAll` | a late data block that spells the address makes `ping` call a host alive it has not asked (net.c:843, :1232) | `PingIsTrue` |
| `RescueIsWhole` | `NetBootAll` | a copy that was cut off, put over the whole image in memory, passes the check and is written short: only 64 bytes are cleared (cmd_tftpServer.c:418), the CRC covers `ih_size` bytes, the write the bytes that came (board.c:598-605) | `RescueIsChecked` |
| `SentIsBuilt` | `EthRingsAll` | a frame built in `NetTxPacket` before the engine has read the last one is sent in its place (rt2880_eth.c:944) | `TxInOrder` |
| `MenuWritesWhole` | `BootFlowAll` | a load of the menu that ends early, over the same kernel left in memory by a load before, is written short (board.c:604) | `KernelStaysWhole` |

## Model-checked only

Liveness under fairness (`FlashingPageIsTrue`, `CallReturns`, `LoopReturns`,
`BootSettles`), because TLAPS does not reason about fairness with ENABLED: shown by TLC on the bounded
instances alone.  Of the safety properties of the passing runs only `FinishIsTrue` is not a theorem.

## Not modelled

Left out because the shipped profiles do not build them: netconsole, BOOTP, RARP, NFS, SNTP and the
other allocator.  Left out as third-party or vendored code and pure data transformations: xHCI,
decompression, checksums.  Left out as sequential text or table processing: the command
interpreter, the pages of the server.  Left out as register sequences: start-up, DDR and PHY
calibration, the switch.  Left out for size: USB core and storage, FAT, the allocator, uIP's ARP and
the inside of its TCP.  `components` in `PROJECT.json` has each part with its reason.
