# ArchMax_Ethernet in TLA+

A verification development of the Arduino library ArchMax_Ethernet: an Ethernet
driver for the STM32F407 (polled, no interrupts, no operating system), the glue
that starts lwIP 2.1.2 on top of it, and lwIP itself. Paths below are relative to
the repository, whose `src/` holds the library proper.

- [1. The system](#1-the-system)
- [2. The modules](#2-the-modules)
- [3. The runs](#3-the-runs)
- [4. The proofs](#4-the-proofs)
- [5. Findings](#5-findings)
- [6. What is not modelled](#6-what-is-not-modelled)
- [7. Plan](#7-plan)

## 1. The system

Everything runs on one main loop. `ArchMax_Ethernet_Init` sets up the MAC, the
PHY and lwIP once; the sketch then calls `ArchMax_Ethernet_Loop` for ever, which
polls the receive ring, passes at most one frame to lwIP per turn and calls
`LwIP_Periodic_Handle`, which runs the timers of lwIP and, every 500 ms, the
address state machine of `netconf.c`. There are no threads and no interrupts, so
on the CPU every function runs to its end; what runs concurrently with it is the
DMA engine and the MAC, the PHY and the cable, the network and its servers, and
the clock.

| Component | State | Operations | Talks to |
|---|---|---|---|
| Frame transmission (`ethernetif.c`, `stm32f4x7_eth.c`) | ring of 4 descriptors with OWN/FS/LS, `DMATxDescToSet`, buffers; DMASR bits TBUS, TUS | `low_level_output`, `ETH_Prepare_Transmit_Descriptors` | lwIP calls it; shares ring and status bits with the DMA engine |
| Frame reception (same files) | ring of 8 descriptors, `DMARxDescToGet`, `DMA_RX_FRAME_infos` (segment count, first descriptor), RBUS | `ETH_CheckFrameReceived`, `ETH_Get_Received_Frame`, `low_level_input`, `ethernetif_input` | the main loop polls; hands pbufs to `netif->input` |
| Timers (`core/timeouts.c`) | sorted list of one-shot timeouts from a pool of 10, flag of the TCP timer | `sys_timeout`, `sys_untimeout`, `sys_check_timeouts`, cyclic timers | the main loop; calls handlers of ARP, reassembly, DHCP, TCP, the sketch |
| DHCP (`core/ipv4/dhcp.c`, `netconf.c`) | client state, tries, four lease counters, transaction id, offered address, PCB reference; `DHCP_state`, `IPaddress` | fine and coarse timer, `dhcp_recv`, `dhcp_arp_reply`, `LwIP_DHCP_Process_Handle` | server over UDP; netif address; link callback |
| Link control (`stm32f4x7_eth_bsp.c`, `ETH_Init`, `LwIP_Init`) | `EthStatus`, `ETH_InitStructure`, MACCR, flags of the netif | start, `ETH_link_callback` | PHY by MII; starts and stops MAC and DHCP |
| Memory (`mem.c`, `memp.c`, `pbuf.c`) | free lists, heap, reference counts | allocate, free, chain | everybody |
| ARP cache (`core/ipv4/etharp.c`) | 10 entries with state, addresses, age and one waiting packet; the cached index | `etharp_output`, `etharp_query`, `etharp_input`, `etharp_tmr`, `etharp_cleanup_netif` | IP output; the DHCP client's probes; the timers |
| Reassembly (`core/ipv4/ip4_frag.c`) | list of at most 5 incomplete datagrams, the count of their pbufs | `ip4_reass`, `ip_reass_tmr` | IP input; shares the pbuf pool with reception |
| TCP (`core/tcp*.c`) | a PCB per connection: state, `unsent`, `unacked`, windows, timers, flags, refused data | the program's calls, `tcp_input`, `tcp_slowtmr`, `tcp_fasttmr` | the peer over IP; callbacks of the program |
| ICMP, UDP (`core/`) | PCB list | input, output | IP and the program |
| Examples (`src/examples`) | TFTP server, FTP server, vendored lwIP applications | callbacks of UDP and TCP | lwIP |

What makes each of them correct:

* *Transmission.* A frame reported as sent was handed over whole; the engine never
  reads a buffer that is being filled, never sees half a frame, and never ends up
  asleep for ever with frames in the ring.
* *Reception.* The CPU copies only from buffers that are its own; every descriptor
  goes back to the engine whatever goes wrong; frames reach the stack once, whole
  and in order; reception never stops.
* *Timers.* The list is in order and nothing runs early, also when the 32-bit
  clock wraps around; no timer of the stack is lost because the pool is empty, or
  doubled; a slow handler does not keep the main loop from going on.
* *DHCP.* An address is used only while it is leased and after it was probed; it
  is given up in time; the client, the port's state machine and the link callback,
  which all start and stop it, leave it consistent; the board ends up with some
  address.
* *ARP.* One entry to an address; a packet that waits is sent once, to the address last
  heard of its next hop, or dropped for a reason, and its memory comes back.
* *Reassembly.* Only whole datagrams are delivered; the count of pbufs is right however
  datagrams are evicted; incomplete ones give back what they hold.
* *TCP.* Each program gets the bytes the other wrote, in order and once, and the end of
  the stream after them; the queues hold what is unacknowledged; no connection waits
  without a timer.
* *Link.* Interface flags, MAC and DHCP agree; the MAC's mode is the one the PHY
  negotiated.

The behaviours that are hard here are interleavings with the DMA engine
(transmission, reception), status bits read after the event they report, frames
over several buffers cut off in the middle, modular time, timers that race
replies, unreliable delivery, failing allocations, and several parties that start
and stop the same client. `PROJECT.json` lists each hazard at its line with the
properties that cover it.

## 2. The modules

| Module | Stands for | Checked for |
|---|---|---|
| `EthTx` | transmit path and its DMA engine | safety and liveness |
| `FrameQueue` | what transmission promises: a bounded FIFO of whole frames | abstract |
| `EthTxRefinement` | `EthTx` implements `FrameQueue` | refinement mapping |
| `EthTxProofs` | inductive invariant of `EthTx`, what follows, the refinement | TLAPS |
| `EthRx` | receive path and its DMA engine | safety and liveness |
| `FrameInbox` | what reception promises: each frame is delivered once, in order, or dropped as a whole | abstract |
| `EthRxRefinement` | `EthRx` implements `FrameInbox` | refinement mapping |
| `EthRxProofs` | inductive invariant of `EthRx`, what follows, the refinement | TLAPS |
| `OrderedLists` | the elements of a finite set in the order of a key: how both mappings read a queue off a ring | operators |
| `OrderedListsProofs` | how such a list changes when an element comes, goes or ages | TLAPS |
| `Timeouts` | the timer list on a clock modulo `Wrap` | safety and liveness |
| `TimeoutsProofs` | inductive invariant of `Timeouts`, and what follows | TLAPS |
| `Dhcp` | DHCP client, `netconf.c`, link callback, server, network | safety and liveness |
| `DhcpProofs` | inductive invariant of `Dhcp`, and what follows | TLAPS |
| `Reassembly` | `ip4_reass`, its timer, fragments from a lossy network | safety and liveness |
| `ReassemblyProofs` | inductive invariant of `Reassembly`, and what follows | TLAPS |
| `Etharp` | the ARP cache, hosts that answer at any time | safety and liveness |
| `Tcp` | a connection between two ends, both running this code, over a faulty network | safety |
| `ByteStreams` | what TCP promises its programs: two streams of bytes with an end | abstract |
| `TcpRefinement` | `Tcp` implements `ByteStreams` | refinement mapping |
| `TcpReplay` | one behaviour of `Tcp`, step by step | the order of the queues |
| `TcpProofs` | inductive invariant of `Tcp`, and what follows | TLAPS |
| `LinkCtl` | start of the MAC and the PHY, link callback | safety |
| `NetifProofs` | inductive invariants of `Etharp` and of `LinkCtl`, and what follows | TLAPS |
| `*MC` | constants for TLC | |

### EthTx

Every access of the CPU to memory it shares with the engine is an action:
`Output` is the call of `low_level_output`, `CopySegment` one turn of its copy
loops, `CopyUnavailable` its early exits (`ERR_BUF`, `ERR_USE`), `Prepare` the
first test of `ETH_Prepare_Transmit_Descriptors`, `GiveSegment` one turn of the
loop that sets FS, LS and OWN, `CheckTBUS` and `CheckTUS` the two tests of DMASR.
`pc` says which comes next. Lengths are counted in buffers (one buffer holds an
MTU in the shipped configuration, so a frame of several buffers exists only with
other buffer sizes; the code handles it and so does the model).

The engine follows the STM32F4 reference protocol the driver relies on: it reads a
descriptor's OWN bit, moves its buffer, gives it back; a descriptor that is not its
own raises TBUS and suspends it; writing the poll demand register wakes it. It
operates on the second frame (OSF, set by `ETH_MACDMA_Config`): the last descriptor
of a frame is given back only with the transmission status, while the engine has
gone on. An underflow raises TUS and suspends it. One timing assumption is made:
the few bus cycles between reading a descriptor and raising TBUS are shorter than
the time from the end of one call of `low_level_output` to the start of the next
(`Output` is barred while the engine is "idling"). A call that is already running
may fall into them, and that is the race `NeverJammed` is about.

`EthTxRefinement` reads the queue off the ring: the frames in it are those whose last
descriptor is the engine's, in the order in which the engine will come to them.

### EthRx

`CheckLast`, `CheckFirst` and `CheckMiddle` are the three branches of
`ETH_CheckFrameReceived`, which looks at one descriptor per turn; `GetFrame` is
`ETH_Get_Received_Frame` with the allocation of the pbuf, which may fail;
`DataSegs` is the length it takes, from which the code subtracts the 4 bytes of the
CRC. The model counts in buffers, so that the CRC shows only when it spills over:
such a frame is `bare`, its last buffer holds nothing else, and the copy stops one
buffer before the last one released;
`CopySegment` and `ReleaseDesc` are one turn each of the copy loops and of the loop
that gives descriptors back; `CheckRBUS` is the test of DMASR; `Input` passes the
pbuf on. The engine prefetches the next descriptor while a frame goes on; when the
CPU owns it, the frame ends in the descriptor before, whose LS bit is set with an
error bit, and the rest is flushed; the frame length of such a descriptor is taken
to be the part that was moved. A suspended engine looks again when a frame is
recognised or on a poll demand.

The frames that may come in are a parameter (`Frames`); each is one to `MaxSegs` buffers
long, and bare only if it is longer than one (`FramesAssumption`).

`EthRxRefinement` reads the inbox off the ring: the frames in it are those whose last
descriptor is the CPU's and which it is not working on, in the order in which the engine
will come round to them again; the frame taken is what has been copied of it with what
is still to be copied, the CRC left out of both.

### Timeouts

`next_timeout` is the list; `SysTimeoutAbs`, `SysTimeout`, `Without` are
`sys_timeout_abs`, `sys_timeout`, `sys_untimeout`. `sys_check_timeouts` is the loop
`Check`, `Expire`, the handler's end, `Return`; the clock ticks between any two of
these steps, so handlers may take time. `lwip_cyclic_timer` and `tcpip_tcp_timer`
arm themselves again in `CyclicDone` and `TcpDone`. The application starts and
cancels timeouts from the main loop and from handlers, and connections come and
go. Each element carries the ghost `left`, the true time to go, which the code does
not have: properties about order and earliness are stated with it, so that they do
not depend on the modular comparison they are checking.

`PoolAssumption` says that the pool holds every timer of the stack and the share
of the application; lwIP's default does (`MEMP_NUM_SYS_TIMEOUT` is 10 in
`lwipopts.h`, the stack uses 4 or 5).

### Dhcp

Everything here runs on the main loop, so an operation of the client is one step.
The operators (`Discover`, `Select`, `Renew`, `Rebind`, `Check`, `Bind`, `Stop`,
`Start`, `Timeout`, `T1Timeout`, `T2Timeout`, `Received`) carry the names of the
functions and map a state of the interface to the set of states the function may
leave: an allocation may fail and the server may answer in several ways. The
actions are the two timers, a reply that arrives (`Recv`, which may leave a
duplicate in flight) or is lost, an answer to the ARP check, the poll of
`netconf.c` in each of its states, and the link going down and up as the
application reports it.

Assumptions on the environment: a reply lives for at most one tick of the coarse
timer after the minute it was sent in; the server keeps an address for the longest
lease it has acknowledged and never acknowledges 0.0.0.0; NAKs and address
conflicts are finite. The 120 fine ticks of a minute are scaled to `FinePerCoarse`,
the limits 4 (`MAX_DHCP_TRIES`) and 5 (the retries of a REQUEST in `dhcp_timeout`)
to 2 and 3 with their order kept, and the 255 at which `tries` stops to
`MaxTries` = 4, which lies above both.

### LinkCtl

`WaitLink`, `WaitNegotiation` and `Configure` are `ETH_Init`, `BspConfig` reads the
link again, `LwipInit` decides by `EthStatus`; `LinkUp` and `Renegotiated` are the
callback with the wait in between, `LinkDown` the other branch. `Replug` and
`Settle` change the cable and the PHY between any two reads of it. The
specification is `LinkSpec`, and its type invariant `LinkTypeOK`, so that one module of
proofs can extend both `Etharp` and `LinkCtl`. Without a link
the PHY's status register may say anything (`StatusRead`). MII transfers are taken
to succeed. `Resolves` says what a PHY settles on with a partner.

### Reassembly

An entry of `reassdatagrams` is a record: the datagram it is of, its timer, the set of
its pieces, whether the last one and the header of the first one have come. A fragment
that arrives (`Ip4Reass`) takes one of the ways through `ip4_reass`: no room or no
entry (`Refuse`), rejected by the checks (`Drop`), chained in (`Keep`), or the one that
completes the datagram (`Deliver`). `MakeRoom` and `Oldest` are
`ip_reass_remove_oldest_datagram`, `Enqueue` is `ip_reass_enqueue_new_datagram`,
`Rejected`, `Chained` and `Complete` are
`ip_reass_chain_frag_into_datagram_and_validate`. The hole test of the code walks the
sorted list; the model says what it computes on the set of pieces: each piece starts at
0 or where another ends. `Units` are the pbufs a set of pieces occupies, one by one, and
`PbufsOf` their number. Lengths are counted in pbufs; the ends of pieces wrap at `Wrap`
as the u16 of the code does, so that a piece may end beyond it. A fragment is any
proper part of its datagram, so copies cut up in different ways overlap.

### Etharp

`arp_table` holds the entries with the packet that waits on each (`ARP_QUEUEING` is off:
one, in the place of an older one). `Slot`, `Found`, `Recycled` and `Released` are
`etharp_find_entry` with the entry it frees, `OutputToIndex` is
`etharp_output_to_arp_index`, `QueueOn` the part of `etharp_query` that keeps a packet,
`EtharpInput` is `etharp_input` with `etharp_update_arp_entry`. `refs` are the packets
the cache holds a reference to, by what is allocated and freed, so that it can be
compared with the table; `out` is what this step sent; `claim` is a history variable,
the hardware address last heard of each host. Hosts speak at any time and may change
their hardware address; requests and the copy of a packet may fail.

### Tcp, ByteStreams and TcpRefinement

Both ends run the same actions, one per entry into the code: the program's `Connect`,
`Write`, `Shutdown`, `Close` and `Recved`, a segment's `Input`, and the two timers
`SlowTmr` and `FastTmr`. Each is one step, because nothing interrupts the main loop. As
the code works on the PCB and a few globals of `tcp_in.c`, an action works on a *work
record* (`Work`) of the PCB, the program's side, the segments sent, `recv_data` and
`recv_flags`, which the operators named for the functions pass on: `Process` is
`tcp_process`, `ReceiveAck` and `ReceiveData` are the two halves of `tcp_receive`,
`Callbacks` what `tcp_input` does after it, `Output` is `tcp_output`. They yield the set
of results where something is left open: whether the program takes or refuses data,
whether there is memory for a FIN, how large the congestion window is (anything from
one segment to the window, anew in each `tcp_output`), whether Nagle's algorithm holds
back a last short segment while data is in flight (its threshold is in the send buffer,
which is not modelled), which duplicate ACK is the third, on which tick a timer expires,
and on which one the poll interval is over and `tcp_slowtmr` calls `tcp_output`.

Queued segments are records with their sequence number, the bytes (the n-th byte a
program writes is n), SYN and FIN. Sequence numbers are taken modulo `SeqSpace` and
compared by the sign of their difference, as the macros do. The network is a queue to
each end; losing, overtaking and repeating segments are *faults*, as are a FIN there is
no memory for and a retransmission timer that expires while segments are under way;
`MaxFaults` bounds them in all. A program writes at most `MaxStream` bytes on a
connection, half the sequence space less three, so that a number tells where in the
stream it lies; the code has no such limit, and the 2^31 bytes it stands for are the span
its own comparisons rely on. A queue that is full loses what is sent. The server may have
room for a second connection, from a SYN that was repeated. A program stops listening
when it has accepted one.

`Output` chooses a congestion window of at least a segment (`tcp_slowtmr` goes down to one,
`tcp_rexmit_fast` to more; the window of 1 byte before the handshake lets the SYN, of length
0, through). `OutputWithin` is the rest of `tcp_output`: it sends from the head of `unsent`
what fits into the smaller of it and the peer's window (`OutputFirst`, for the first *n*
segments), stops early where Nagle may (`MayHold`), and starts the persist timer only if it
is the peer's window that stops the head. `Insert` puts a segment where the walks of
`tcp_rexmit` and `tcp_output` over a queue stop: behind the earlier ones at the front
(`Earlier`), whether the rest is in order or not.

`TcpReplay` takes the actions of `Tcp` in one fixed order, with the choices that are open
in a step left open.

`ByteStreams` knows nothing of segments: an end writes, ends its stream, gets any number
of the bytes it has not got yet, and is told of the end when it has all of them.
`TcpRefinement` maps what the programs of `Tcp` have seen to it.

## 3. The runs

| Run | Shows | Bounds |
|---|---|---|
| `EthTx` | no interleaving of the driver with the engine loses, splits or overwrites a frame; the ring implements a FIFO; the proofs' invariant holds; descriptors come back | 4 descriptors, frames of 1 or 2 buffers, 2 payloads |
| `EthRx` | own descriptors only, none lost, delivery once and in order, reception goes on | 3 descriptors, frames of 1 buffer, of 2 with nothing but CRC in the second, and of 3; 1 payload; 159,381 states |
| `Timeouts` | order, no early run, no timer lost or doubled, every cyclic handler runs again and again, `sys_check_timeouts` returns | clock modulo 12, intervals 1, 3, 2, one timeout of the application, the loop up to 2 ms late, more than the shortest interval; 73,760 states |
| `Dhcp` | every address leased or static, leases, PCB reference, ARP probes, settling | 1 address, leases of 2 and 3 ticks, 2 replies in flight, 1 NAK, 1 conflict |
| `DhcpNak` | *violation*: a state that claims an address without one | the same kind |
| `DhcpStaleAddress` | *violation*: the port keeps telling the lost address | the same kind |
| `Reassembly` | whole datagrams only, the list and the count right, own pieces stay, incomplete datagrams are given up | 3 datagrams, one longer than a u16 can count (`Wrap` 5), at most 5 pbufs and 2 entries, a pool of 6, age 2; 14,341 states |
| `Etharp` | one entry to an address, the right address, no packet lost without need, none kept for ever | 2 entries, 3 next hops, 2 hardware addresses, ages 4 and 2; 50,938 states |
| `Tcp` | queues, timers and acknowledgments right through every order of events; the connection implements two byte streams | the client writes 3 bytes and 1, MSS 2, window 3, one retry, 2 segments under way to the client and 1 to the server, 1 fault, sequence numbers modulo 32 that wrap early; 317,399 states |
| `TcpReplay` | *violation*: `unsent` is not in the order of the sequence numbers after a fast retransmission and a time-out | a prescribed behaviour of 21 steps; the client writes 3 bytes and 1, 1, 1, MSS 2, window 3, 4 segments under way each way, 10 faults, sequence numbers modulo 64 |
| `LinkCtl` | flags, MAC and DHCP agree, only a completed negotiation brings the board up | four partners, three modes |
| `LinkCtlMode` | *violation*: the MAC keeps an old mode | the same |

Why the bounds are enough. The transmit ring has its real size of 4; a ring matters
by its wrap-around, by being full and by holding several frames at once: 4
descriptors hold two of the longest frames, 3 are filled by one, so that every frame
of three is a boundary case, and a frame of two can be cut off: in front of the buffer
that holds only its CRC, which it then does not miss. Payloads only need
to tell a frame from its neighbour; in `EthRx` segments also carry length and
number. The clock of 12 wraps around within every behaviour and is four times the
longest timeout (`MaxMsecs`), the limit `sys_timeout` asserts for 2^32. A DHCP lease
of 3 ticks passes through t1, t2 and t0 at different ticks (1, 2, 3) and a lease of
2 lets t2 and t0 coincide; two replies in flight make duplicates and reordering
possible. Three datagrams compete for two entries and five pbufs, so that both limits
evict, alone and together; pieces of 1 to 3 pbufs make an eviction free too little, just
enough and too much. Three hosts compete for two ARP entries, with packets to the same
and to different ones. A write of 3 bytes with an MSS of 2 is cut up, filled up by the
next and, as the window of 3 shrinks to 1 and 0, split, blocked and probed; that each of
these and the less common paths is reached (the segment cut at the window's edge and at
its front, a fast retransmission, both ends closing at once, a FIN on the last data
segment, data after `tcp_close`, refused data with a FIN, a second connection, the
retry limits) was looked at one by one. Not reached within the bounds: silly-window avoidance
when announcing, which needs the shipped window of two whole segments (the same run with a
window of 4 passes too; the window of 3 is kept because segments then end at its edge
and beyond it), and a probe that is a bare FIN.

Fairness. `EthTx`: the CPU finishes a call it has begun, the engine works and the
MAC gets rid of frames; nothing is assumed of calls, so `EveryFrameLeaves` has as
its premise that the stack keeps sending. `EthRx`: the main loop goes round and the
engine works; nothing is assumed of the network. `Timeouts`: time passes, the main
loop comes round and handlers return. `Dhcp`: the two timers and the poll happen;
replies may all be lost, so `Settles` relies on the fallback to the static address.
`Reassembly` and `Etharp`: the timer runs; nothing is assumed of the network, and a host
may stay silent for ever. `Tcp` has no fairness and no liveness: with a network that may
lose everything, the code promises only that it gives up, after 12 retries of growing
length, and `NeverStalls` states the safety side of that: what is in flight, or held back
by the peer's window alone, has a timer armed that sends again or ends the connection. It
is the peer's window alone when nothing is in flight and the head of `unsent` ends within
a segment of what is acknowledged (`HeldByPeer`); `QueueSound` says that in this case the
head always begins there, as long as the queues are in order. When they are
not, the congestion window can hold it back too (section 5). An end that has
gone quiet without having been closed by its program is not ended by the code either
(keep-alive is off).
All of these are one thing in the code: `ArchMax_Ethernet_Loop` is called again and
again, and nothing in it blocks. Links and servers are never assumed fair.

Every property has a mutant of the code that violates it (in the modules, "Mutant
of ..."): a forgotten OWN test, a dropped poll demand, an open descriptor chain, a
plain comparison of times, a lease that starts where the last one ended.

## 4. The proofs

Every invariant and every action property of `EthTx`, `EthRx`, `Timeouts`, `Dhcp`,
`Reassembly`, `Etharp` and `LinkCtl` that a run checks is proved for all values of the
constants that the modules' assumptions admit, and so are the refinements of `FrameQueue`
and `FrameInbox`. Of `Tcp` it is `NeverStalls`. The assumptions are named in the modules
that declare the constants; TLC evaluates them in the runs. The theorem `Inductive` of each
module, `Spec => []IInv`, is the foundation of the others: an action property follows from
its invariant, one case per action that could break it.

### EthTxProofs

For every ring of at least 2 descriptors, every `MaxSegs` up to the size of the ring and
every set of payloads (`RingAssumption`) it proves:

| Theorem | Says |
|---|---|
| `TypeCorrect` | `Spec => []TypeOK`: no index leaves the ring |
| `OkIsQueued` | `Spec => []ErrOkMeansQueued` |
| `NoJam` | `Spec => []NeverJammed` |
| `ReadsWholeFrames` | `Spec => []DmaReadsWholeFrames` |
| `Refines` | `Spec => ImplementsFrameQueue` |

`NeverJammed` is not inductive: whether a suspended engine strands one frame or more
depends on which descriptors it owns. `IInv` says that these are a *window* of the
ring: `c` consecutive descriptors from the engine's position up to the next one the
CPU will hand over, and behind the engine at most the one that waits for its status
(`Window`); that the window ends with a whole frame unless one is just being handed
over (`EndsWhole`), so that an engine in the middle of a frame never runs out; what an
engine that suspended unnoticed can have in its window (`Stranded`); what
`low_level_output` has established at each of its steps, in particular that the
descriptors it has looked at are still its own when it hands them over (`Progress`);
and, for the contents, that the buffers it has filled hold the frame (`Copied`) and that
each buffer of the window continues the one before it, the first continuing what the
engine has fetched (`Contents`). The arithmetic of the ring is in a few lemmas about
`NextDesc`, `Dist` and `Adv`; the step lemmas have one case per action. TLC checks `IInv`
in the run `EthTx`.

For the refinement, `QueueAccept` shows that the last turn of the hand-over appends the
frame to the queue, `QueueSend` that the engine's last fetch takes its head and that the
MAC gets the frame whole, and `QueueStands` that nothing else changes which descriptors
wait or what is in their buffers.

### EthRxProofs

For every ring of at least 2 descriptors and frames of any length, longer than the ring
included:

| Theorem | Says |
|---|---|
| `CopiesOwnFrame` | `Spec => []CopyStaysInFrame` |
| `NoneLost` | `Spec => []NoDescriptorLost` |
| `Refines` | `Spec => ImplementsFrameInbox` |

Here the window is the CPU's: `h` consecutive descriptors from the oldest one it has not
given back (`Oldest`) up to the engine's position (`Window`). They hold frames one after
the other, or as much of each as fitted, told apart by FS, LS and the lengths in them
(`Contents`), and the engine may be in the middle of the last one. `Counted` says how
far `Seg_Count`, `FS_Rx_Desc` and the loops of `low_level_input` have come with the oldest
frame. It is what makes the two sources of a frame's length agree: the count is kept
across turns of the main loop, the length is written by the engine.

For the refinement `RInv` adds what the buffers hold (`Buffers`: in each the segment its
length says, and buffers at the same distance from their frame's start carry the same
frame) and that nothing is copied before a frame is taken. `InboxComeIn` is the engine's
move that ends a frame, `InboxTaken` is `ETH_Get_Received_Frame`, and `InboxStands` covers
everything else: a turn of the copy loop shifts a segment from "still to copy" to "copied"
(`CopyTaken`), and a descriptor given back was not waiting any more (`ReleaseWaiting`).

### OrderedListsProofs

Both mappings define the queue as the values of a set of descriptors in the order of
their distance from the engine (`InKeyOrder`). What the refinements need of it is proved
once, for any finite set and any key that tells its elements apart: there is exactly one
such list, it is as long as the set, and a step that keeps the order
leaves it alone (`OrderKept`), a new element with the greatest key is appended
(`OrderAppended`), and without the element of the least key it is its tail (`OrderTail`).

### TimeoutsProofs

For a clock of any width (a multiple of 4), any finite set of cyclic timers, any intervals
up to a quarter of a turn, any use the application makes of its share of the pool, and a
main loop that is late by less than that quarter (`TimerAssumption`, `PoolAssumption`):

| Theorem | Says |
|---|---|
| `InOrder` | `Spec => []Sorted` |
| `Waits` | `Spec => []NeverEarly` |
| `NoneLost` | `Spec => []CyclicAlive` |
| `TcpServed` | `Spec => []TcpTimerRuns` |
| `Punctual` | `Spec => AllDueHandled` |

The core is `Compare`: `TIME_LESS_THAN` on the wrapped clock orders two times as the true
distances do, if these are less than half a turn apart. `IInv` keeps that premise alive:
stored times agree with the true distances (`Agreed`), the list is in their order,
each timer of the stack is in it exactly once or its handler is running (`StackTimers`),
the application has no more than its share, so that the pool never runs out
(`WithinQuota`), and while `sys_check_timeouts` goes through the list with an
old reading of the clock, nothing in it is out of reach of the comparison (`Recent`).

### DhcpProofs

For all sets of addresses and leases whose t1 and t2 do not exceed t0, any delay, loss and
duplication of the replies within `MaxReplies`, and all bounds (`DhcpAssumption`):

| Theorem | Says |
|---|---|
| `Holds` | `Spec => []PcbHeld` |
| `OneSource` | `Spec => []AddressHasSource` |
| `Supplies` | `Spec => []SuppliedUnlessNak` |
| `Honours` | `Spec => []LeaseHonoured` |
| `Probes` | `Spec => ProbedFirst` |

`LeaseHonoured` needs the history of an address. In `IInv`, an acknowledgment in
flight is of a lease that began a minute ago at the most (`Replies`); an address that is being
probed was acknowledged two minutes ago at the most, and its check is over with the next
ticks of the fine timer (`Checked`); and the client's count of a lease is at most two ticks
behind the server's (`Leased`). `Timed` says that, unless a NAK has come, timers of a
lease run only in the states they belong to: this is what a NAK breaks (`DhcpNak`).
`Ported` ties the state machine of `netconf.c` and the link to the client. As the
client's functions are operators on a state of the interface, each has a lemma that says
what it keeps of a state that satisfies these; the actions compose them.

### ReassemblyProofs

For any finite set of datagrams of any lengths up to `Wrap`, cut up in any way, and any
limits (`ReassemblyAssumption`):

| Theorem | Says |
|---|---|
| `Listed` | `Spec => []ListSound` |
| `Delivered` | `Spec => []WholeDatagram` |
| `Spared` | `Spec => OwnPiecesStay` |

The count of pbufs needs the arithmetic of finite sets (`PbufsApart`, `FewerPbufs`); an
eviction is followed through `MakeRoom` to show that it frees enough, and the oldest
first. `Delivered` is the argument the code relies on without making it: pieces that do not
overlap, each starting at 0 or where another ends, up to the last one, cover each
unit of the datagram exactly once.

### NetifProofs

*The ARP cache.* For every size of the table, all sets of hosts, hardware addresses and packets, and all
ages (`EtharpAssumption`):

| Theorem | Says |
|---|---|
| `Sound` | `Spec => []CacheSound` |
| `ToTheRightAddress` | `Spec => []RightAddress` |
| `LossIsJustified` | `Spec => LossJustified` |

`TableOK` is stated of a table, a set of references and the addresses last heard,
because the functions pass through tables no step ends in: an entry freed and not yet
reused, a packet queued and its request sent from the same slot. It adds to `CacheSound`
that a stable entry has the hardware address last claimed, an entry in use an address,
and an empty one no age.

*Link control.* For every set of partners and modes and every outcome of a negotiation
(`LinkAssumption`: modes are speed and duplex, a PHY settles on a mode or on none):

| Theorem | Says |
|---|---|
| `Agreement` | `LinkSpec => []PartsAgree` |
| `UpNegotiated` | `LinkSpec => UpAsNegotiated` |
| `MacFollows` | `LinkSpec => MacFollowsInterface` |

`PartsAgree` speaks of the main loop only; the inductive invariant, `LinkInv` of
`NetifProofs`, adds what holds on the way there.
Until `LwIP_Init` is through nothing is up and the engine is not started; during the
callback's wait the link is reported and the interface still down (`FlagsFollow`);
`ETH_INIT_FLAG` is set only after a negotiation that was completed and whose mode was
taken (`InitTold`).

### TcpProofs

For every maximum segment size and window (of less than a quarter of the sequence space),
all numbers of retries, faults, connections and segments under way, and all programs
(`TcpAssumption`):

| Theorem | Says |
|---|---|
| `Inductive` | `Spec => []IInv` |
| `NeverStalled` | `Spec => []NeverStalls` |

That what is unacknowledged has the retransmission timer, what the peer's window holds back
the persist timer, and that the two exclude each other is settled in a dozen places of the
code, and in none of them alone. Two things make it true. `tcp_output`, called at the end of
almost every call, leaves `unsent` empty, something in flight, the persist timer running, or
a head that ends more than a segment away: Nagle's algorithm holds it back only while data
is in flight, the congestion window is never less than a segment, and what it does not send
for want of the peer's window starts the timer. And `tcp_receive` stops the retransmission
timer when `unacked` becomes empty, which is right only if the segments the ACK covers are
those it removes from the queues.

`IInv` therefore numbers the stream of each end from its SYN. All that the queues hold lies
in the stream, of which `snd_nxt` is never beyond the end (`Numbered`); the segment that
reaches `snd_nxt` is still held unless nothing is, so that an end that waits for its FIN has
something to send again, and an ACK of less than everything leaves something behind;
before the handshake is over the SYN is all there is (`Opening`). `Timed`, `Waits`
and `Probes` are the timers; `Closing` ties the state of the PCB to what the program has
done and to TF_CLOSEPEND. Nothing is said of the order of the queues, which does not
hold (section 5), nor of the other end: every segment that is well formed
may arrive at any time.

A function of the code is an operator on work records, so each has a lemma of the form
"`Sound` before, `Sound` after", from `tcp_output_segment` up to `tcp_input` and the
timers. Between calls `EndSound` holds; within one, only `Sound`, and the lemmas on the
callers say where `Waits` and `Probes` come back. The loop of `tcp_output` is a
recursive function of the number of segments; its lemma takes the least number at which it
would fail, which the prover can follow where an induction theorem is out of its reach.
Where an operator chooses a position in a queue (`Earlier`, `Acked`), the lemma on it shows
that there is one, and the others use no more than its bounds and what it promises.
TLC checked `IInv` on the instance of the run
`Tcp` before it was proved; the run keeps the invariants a reader should know.

### Model-checked only

* Liveness under fairness, everywhere: `EveryFrameLeaves`, `DescriptorsComeBack`,
  `KeepsReceiving`, `CyclicRuns`, `CheckReturns`, `Settles`, `Forgotten`, `NoPacketStays`.
  The prover knows neither fairness nor ENABLED.
* `QueueSound`, `AckedWasReceived` and the refinement of `ByteStreams` by `Tcp`. They hold
  of the instance of the run `Tcp`, with one fault, and of few faults is what they
  claim. A theorem would be about any number, and for that `QueueSound` and the refinement
  are false of the code: the behaviour of `TcpReplay`, continued with a half-close, ends
  the peer's stream a byte early. What does hold then, `IInv`, is proved.

## 5. Findings

* `TcpReplay`: `tcp_rexmit` moves the first unacknowledged segment into `unsent`, and
  `tcp_rexmit_rto_prepare` puts what is left of `unacked` in front of it. If the segment
  could not be sent in between, because the window had closed, `unsent` is then out of
  order, against `tcp.h:337`. The window has to close behind data in flight, which an ACK
  that was overtaken can do; that ACK must come another three times (the run repeats it as
  often, though in the model any duplicate may be the third); and the timer must expire. If
  the window then opens and the head fits `cwnd`, both segments are sent and the harm is
  undone. It may not fit: the time-out sets `cwnd` to one segment (`tcp.c:1301`), and if the
  segment in its right place is a full one, the head, which comes after it, ends beyond
  `cwnd` (`tcp_out.c:1262`, `1305`). Nothing is in flight whose ACK would let `cwnd` grow,
  so nothing is sent; the persist timer that the closed window had started goes on calling
  `tcp_split_unsent_seg` and `tcp_output` to no effect and without counting its probes.
  `NeverStalls` does not exclude this (read from the code; the run's segments are too short
  for it). And a FIN or data the program adds in the meantime goes to the segment at the end
  of the queue, which is not the end of the stream: TLC, given the same behaviour continued
  with a `tcp_shutdown`, finds the peer told of the end of the stream with the last byte
  missing, and nobody an error.
* `DhcpNak`: a NAK clears the address and leaves the timers of the lease running; they
  can take the next request to REBINDING, where an ACK is bound without an ARP check.
  For the same reason `SuppliedUnlessNak` and `ProbedFirst` speak of behaviours without
  a NAK.
* `DhcpStaleAddress`: when the client loses its lease by itself, `netconf.c` keeps
  reporting the old address.
* `LinkCtlMode`: the link callback only sets FES and DM in MACCR and never clears them.

Noticed while reading, without a run: `ETH_CheckFrameReceived` takes any descriptor with LS
as the end of a good frame (`stm32f4x7_eth.c:1398`) and reads neither ES nor DE, so that a
frame that ran out of descriptors is delivered cut off (it takes frames longer than a
buffer, which the shipped buffer size rules out); the result of `dhcp_start` is dropped and
`dhcp->tries` read through a null pointer after a failed allocation; after a failed
`udp_new` the port waits in `DHCP_WAIT_ADDRESS` for ever; the link callback does not
look at whether its wait for the negotiation ended by a timeout
(`stm32f4x7_eth_bsp.c:171`), and takes speed and duplex from a status register that is
not valid yet, where its comment at `:176` says they are "fixed by the auto-negotiation
process" and `ETH_Init` treats the same timeout as an error (`LinkCtl` has it so:
`Renegotiated` then takes any mode); `Delay` waits milliseconds
where its comment says periods of 10 ms; the callback overwrites `PHY_ADVERTISE`
including its selector field; it "restarts" the negotiation with the bit that only
enables it; nothing in the library reports link changes to lwIP.

Noticed while proving `ProbedFirst`: `dhcp_create_msg` makes a new transaction id only
for the first try and after the pbuf was allocated (`dhcp.c:1908-1918`), so that a first
message that finds no pbuf makes its retransmission go out under the id of the exchange
before. A late ACK of that exchange then matches, and one for another address than the
lease's is bound by a client that is renewing, without an ARP check. `ProbedFirst`
therefore speaks of an interface that has no address of the server's.

Of TCP, noticed while modelling it, without a run:

* `tcp_process` updates `pcb->tmr` only until the program has closed (`tcp_in.c:843-846`,
  TF_RXCLOSED). The time-outs of FIN_WAIT_2, LAST_ACK and TIME_WAIT are counted from
  it, so that a connection that was idle before may lose these states at once; the model
  lets them end on any tick.
* `tcp_rexmit` puts one segment back into `unsent`. If the `tcp_output` after it fails,
  that segment is the last of `unsent` although later ones are in flight, and a
  `tcp_close` or `tcp_write` then adds the FIN or data to it (`tcp_out.c:1001`). Errors
  of output are not modelled.
* The assertion "persist ticking with empty send buffer" (`tcp.c:1239`) can fail: an ACK
  may empty `unsent` while the persist timer runs, which only sending stops.
* When a probe's byte is acknowledged and the window is one, `tcp_split_unsent_seg` cuts
  off a first part that is acknowledged already and is sent once more; harmless, and
  the reason for "or one before it" in `QueueSound`.
* `tcp_close` from the receive callback for the last data, whose segment has the FIN,
  sends a reset, because the FIN still counts in `rcv_wnd`.
* Data the program has refused is freed when CLOSING becomes TIME_WAIT.
* Two ends with closed windows may answer each other's empty ACKs for as long as both
  stay closed, since none is inside a window of 0.
* `tcp_abort` in TIME_WAIT sends no reset.

Comments that disagree with the code of the ARP cache: an entry in use is asked for
again 30 seconds before it expires, not "1 minute" (`etharp.c:64`); a pending entry lives
5 seconds, not "10 seconds" (`etharp.c:70`); `etharp_query` on a pending entry sends a
request only if nothing waits on it or no packet is given, not always as its
description says; and `etharp_tmr` does send requests for pending entries
(`etharp.c:983` says it does not).

## 6. What is not modelled

* The pbuf, heap and pool allocators: an allocation is a choice in each module.
* Contents: checksums, headers, options. Parsing has no state.
* Transmission while the link callback stops and starts the engine: `EthTx` has the
  engine started once, so the RELEASE that `dhcp_stop` queues after `ETH_Stop` is not
  followed.
* DHCP: leases without an end, `dhcp_inform`, `dhcp_reboot` (no caller reaches them),
  malformed replies.
* ARP: static entries and queues of packets (off), replies and announcements the board
  sends, look-ups.
* IP: `ip4_frag`, which cuts up what is sent without keeping a state, routing, and
  fragments with options or a malformed header, which change nothing.
* TCP: keep-alive (off), the eviction of older connections when PCBs run out, errors of
  `ip_output`, of `tcp_write` and of the SYN, the limits of the send buffer and queue,
  options, the value of `rto`, how `cwnd` grows and shrinks, `tcp_abort` by the program, and calls from
  within a callback (the program reads, writes and closes from the main loop).
* UDP, ICMP and the examples.
* IPv6, DNS, AutoIP, IGMP, altcp, PPP, SLIP and the like: compiled out or unused.

## 7. Plan

Done, in this order: `EthTx` with refinement and proofs, `EthRx` with refinement,
`Timeouts`, `Dhcp`, `LinkCtl` with proofs, `Reassembly`, `Etharp`, `Tcp` with refinement;
then the proofs of `Etharp`, `EthRx`, `Dhcp`, `Timeouts` and `Reassembly`, the
refinements of `FrameQueue` and `FrameInbox`, and the proof that `Tcp` never stalls.

Proofs that are left: that a receiver hands on each number of the stream once and in
order, whatever the sender's queues are like (`tcp_receive` by itself), and
`AckedWasReceived`, of which it is not known whether it holds for any number of faults.

Models that are left: `EthTx` with `ETH_Stop` and `ETH_Start`, so that the RELEASE of
`dhcp_stop` is followed; infinite leases in `Dhcp`; `TftpServer`
(`examples/tftp_server`): block numbers, retries, the single connection; reference
counts of pbuf chains.
