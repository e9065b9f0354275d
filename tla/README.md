# A TLA+ verification project for OSNT-PLUS

This directory holds TLA+ models of the NetFPGA-PLUS reference projects: the
packet-processing cores under `src/hw/lib`, and the router software under
`src/hw/projects/reference_router/sw` with the TCP stack it carries.  Each module
is translated from the source files named in its header; `PROJECT.json` gives
the lines of every definition, every part of the system with its status, and the
hazards of the code with the properties that would catch them.

In the paths below `scone` is `src/hw/projects/reference_router/sw/scone`,
`lwtcp` is `scone/lwtcp`, `std` is `src/hw/lib/std` and `contrib` is
`src/hw/lib/contrib`.

## 1. The system

The repository is a library of packet-processing cores in Verilog, projects that
assemble them into FPGA designs, and the software that drives the designs.  All
designs have the same data path: MAC attachment, input arbiter, output-port
lookup, output queues, MAC attachment.  The reference router adds SCONE, which
keeps the control plane in threads of one process and copies the results into
hardware tables through registers.

| Part | Source | State | Operations |
|---|---|---|---|
| routing table | `scone/or_rtable.c` | list of routes; LPM TCAM rows | add, delete, activate, deactivate, sort, rewrite TCAM, look up |
| ARP | `scone/or_arp.c` | cache, queue of waiting packets, hardware copy | request, reply, expire, retry, give up, CLI edits |
| PWOSPF | `scone/or_pwospf.c` | router list, sequence numbers, LSU queue | hello, LSU, flood, time-outs |
| Dijkstra | `scone/or_dijkstra.c` | dirty flag, `prev_router` pointers | recompute the dynamic routes |
| interfaces | `scone/or_iface.c` | active flag, neighbours | up, down, update |
| IP, ICMP, sping | `scone/or_ip.c`, `or_icmp.c`, `or_sping.c` | packets under way, sping queue | forward, answer, report an error, wait for a reply |
| NAT | `scone/or_nat.c` | never reached, see section 6 | |
| web server, command line | `scone/or_www.c`, `or_cli.c` | request queue, workers | accept, serve, dispatch |
| lwtcp | `lwtcp/*.c` | connections, mailboxes, netconns, heap, pools, threads | send, receive, retransmit, post, fetch, allocate |
| router kit | `sw/router_kit` | the last kernel tables, the hardware tables | poll, compare, rewrite |
| router tables | `std/router_output_port_lookup_v1_0_0/hdl/unencoded_cam_lut_sm.v`, `ip_lpm.v` | CAM and LUT, a lookup pipeline | look up, read row, write row, reset |
| router registers | `.../output_port_lookup_cpu_regs.v` | indirect registers | write word, issue command |
| FIFOs | `std/fallthrough_small_fifo_v1_0_0` | memory, pointers, output registers | write, read |
| input arbiter, output queues | `std/input_arbiter_v1_0_0`, `std/output_queues_v1_0_0` | FIFOs, counters | accept, arbitrate, store, drop, remove |
| other cores | `std/nf_mac_attachment*`, `std/switch_*`, `std/nic_*`, `contrib/osnt_*` | see section 6 | |

How the parts interact.  PWOSPF changes the router list and sets the dirty flag;
Dijkstra turns the list into routes; the routing table sorts them and rewrites
the TCAM; packets are looked up in the TCAM meanwhile.  ARP fills the CAM the
same way.  All table writers share one set of indirect registers.  Packets the
hardware cannot forward reach SCONE's packet thread, which forwards or
answers them under four locks, or posts them to the transport thread of
lwtcp.  The web server and the command line are clients of lwtcp: their threads
call the transport thread through a mailbox and wait for its answer, and the
transport thread sends through the same tables and locks.

What makes the code hard to test:

- hardware and software answer the same question by different rules (first
  matching row against most mask bits);
- tables are rewritten row by row under traffic, through registers with no
  acknowledgement;
- locks are released in the middle of handlers, and condition variables are
  waited on without a predicate;
- LSUs and segments are lost, doubled and reordered, routers restart, 16-bit
  sequence numbers wrap;
- FIFOs and mailboxes are filled by thresholds or by the size of a pool, without
  later back-pressure;
- a netconn is used by two threads and freed by either;
- registers shift in the same cycle in which words are read and written.

## 2. Modules

Hardware; one step is one clock cycle, except in `TableAccess`.

| Module | Models | State |
|---|---|---|
| `FifoParams`, `BoundedQueue` | parameters and the promise of a FIFO | a sequence |
| `SmallFifo`, `FallthroughFifo` | `small_fifo.v`, `fallthrough_small_fifo.v` | every register |
| `FifoOps` | a cycle of that FIFO as an operator | used by the next two |
| `InputArbiter` | `input_arbiter.v` | FIFOs and state machine |
| `OutputQueues` | `output_queues.v` | FIFOs, state machines, packet counter |
| `CamLut` | `unencoded_cam_lut_sm.v`; the CAM core is external | every register |
| `TableAccess` | row writes and read-backs of SCONE, `output_port_lookup_cpu_regs.v` | a script per thread; a step is a register access or a cycle |

SCONE and the router kit; one action per operation, one step per critical section
or table row.

| Module | Models | State |
|---|---|---|
| `RouteOrder`, `RTable` | `or_rtable.c`, first match of `ip_lpm.v` | list, active interfaces, dirty flag, TCAM, rewrite position |
| `RTableSort` | the bubble sort itself | one step per comparison |
| `Arp` | `or_arp.c` | cache, CAM, queue, position of `arp_thread` in its walk over the queue |
| `LinkState`, `Dijkstra` | `or_dijkstra.c`, the triggers in `or_pwospf.c`, `or_iface.c` | interfaces, neighbours, router list, pointers, flag, routes |
| `Pwospf` | hellos, LSUs and time-outs of `or_pwospf.c` in a network | neighbour tables, the originator's entry, each router's copy, LSUs in flight |
| `LsuBcast` | the queue and the thread that send LSUs | queue, condition variable, senders |
| `Checksum` | the checksums of `or_ip.c`, `or_icmp.c`, `lwtcp/inet.c` | operators |
| `Forward` | `or_ip.c`, `or_icmp.c`, the end of a wait for ARP in `or_arp.c` | the packet under way in a network of routers, the interface it is at; history of the packet |
| `Sping` | `or_sping.c` and the handlers of echo replies | queue of replies, waiting commands, clean-up |
| `Www` | `or_www.c` | request queue, workers, clients, the error state of each connection |
| `Locks` | every thread's sequence of locks and of uses of shared data | the position of each thread, the locks held and the locks left locked |
| `RouterKit` (2 entries in each kernel table, 2 changes, 1 restart) | the daemon of `router_kit` | kernel tables, copies, hardware rows, position |

lwtcp.

| Module | Models | State |
|---|---|---|
| `Tcp`, `TcpInput` | `tcp.c`, `tcp_output.c`, `tcp_input.c` | operators on a protocol control block |
| `TcpConnection` | two ends and the network between them | both blocks, segments in flight, what the applications wrote and got |
| `SysMbox` | a mailbox of `sys_arch.c` and the timer of `sys.c` | ring, semaphores, positions of posters and fetcher |
| `Netconn` | `api_lib.c`, `api_msg.c`, `sockets.c`, `transport_subsys.c` | a netconn, the calls of a server thread, the callbacks of the transport thread |
| `Pbuf` | `mem.c`, `pbuf.c` | the heap as blocks with offsets, buffers in it with counts and chains |
| `Memp` | `memp.c` and the calls that share its pools | free lists, mutex, the step of each call |
| `SysThread` | the list of threads of `sys_arch.c` and who extends it | list, pthread ids, positions of the creators |

`MCRTable` and `MCPwospf` give constants their values.  `MCDatapath`, `MCTables`,
`MCScone` and `MCLwip` each put several models side by side.  These share no
state in the code paths that are modelled, so no behaviour mixes them: the
variable `unit` says which model is at work, the others stand still, and each
property begins with the unit it is about.  `Arp` and `Locks` are run as they are.

`BoundedQueue` is an abstract specification.  `SmallFifo` and `FallthroughFifo`
implement it (both proved, the second also model-checked); `FallthroughFifo` is also
shown to make the step of `FifoOps` (`ImplementsQueue`), which lets the arbiter
and the queues be modelled over `FifoOps`.  Other modules are checked against a
definition of what they compute: the sort against the stable sorted sequences,
the checksums against the one's-complement sum, the routes against shortest paths,
the streams of TCP and of a netconn against what was written.

Abstractions worth knowing:

- `RTable` takes only routes with contiguous masks.  The command line accepts
  any dotted quad; with other masks the numeric order of the sort and the bit
  count of `get_next_hop` differ, and hardware and software may disagree.  A
  destination without a route hits a zeroed TCAM row, because a zero mask matches
  every address (`or_rtable.c:290`); `HwAgreesWithSw` allows such a hit exactly
  where software finds no route.
- `Pwospf` follows the LSUs of one originator.  Routers file LSUs by originator,
  so LSUs of different routers do not meet; other routers' changes enter as
  `propagate_pwospf_changes`.
- In `Dijkstra`, taking down an interface that has a neighbour ends the process
  (`running` becomes false): the loop at `or_iface.c:385` keeps using the node it
  has freed, so it aborts or does not end.  Both are one outcome in the model.
- `TableAccess`: the threads hold different locks, or none, so their accesses
  to the shared registers interleave in every way, and a packet may be looked up
  at any time.  A thread's next access comes after the command before it is done
  (three cycles of the hardware).  Two history variables record who was disturbed
  in the middle of a row (`met`) and which rows may be wrong for it (`hurt`).
- `Forward` follows one packet: in SCONE a packet leads to at most one other, an
  ICMP message, which takes its place.  The tables of the routers are settled, or
  change between any two hops so that every route is possible; a route leads out
  of an interface of its router.  A packet that a router sends to one of its own
  addresses is left out: nobody answers the ARP request for it.
- `Forward` and `Checksum` work in a byte of base `B`; the run takes 5, so that a
  word of two bytes has carries, the time to live wraps, and every message of up
  to four bytes can be enumerated.
- `Www` keeps of a socket that it is open, whether `conn->err` is set, and how
  much has come.  A failed allocation, an accept without a free socket and a
  file that ends early may happen to `SHORTAGES` of the clients.
- `Pbuf` takes the length of a header to be a multiple of `MEM_ALIGNMENT`; the
  headers of lwip that give both are not in the repository.
- `TcpConnection` lets a retransmission time-out fall due at any time; the
  estimate of the round trip is not computed.  Sequence numbers wrap at
  `SEQ_RANGE`, the congestion window at `CWND_RANGE`.
- `Locks` chooses the path through a handler instead of computing it.  What the
  data holds is the matter of the other modules.
- `Memp` and `SysThread` split an unlocked change of a list where another thread
  may come between a read and the write that depends on it.

## 3. Runs

The types of the variables are a conjunct of an invariant of each unit that
states them (`NoPacketLost`, `TableIsCoherent`, `DamageIsLocal`,
`RoutesAreShortest`, `SortsStably`, `PacketsStayWhole`, `InputsTakeTurns`; for `Pwospf` of
`EntriesSettle`); those of `RTable`, `Arp`, `SmallFifo`, `InputArbiter`, `OutputQueues`,
`SysMbox`, `CamLut`, `TableAccess` and `RTableSort` are also proved.

| Run | Units and bounds | What it shows |
|---|---|---|
| `rtable` | 2-bit addresses, 3 TCAM rows, up to 4 routes, 2 interfaces | `HwAgreesWithSw`: after a rewrite the TCAM and `get_next_hop` agree on every destination.  `WithdrawalIsHitless`: during a rewrite that only withdraws routes every destination the new table routes stays routed, by its new route or by an old one at least as specific, and no other destination is routed but by an old route.  `InactiveOnlyWhenDown`: flaps and edits leave only static routes of dead interfaces inactive.  `EventuallySynced`: the TCAM is brought up to date again and again |
| `tables` | `CamLut` (2 rows, 2 keys, CAM write of 2 cycles), `TableAccess` (2 rows, packets, five pairs of the 3 writers and 3 readers, and one writer alone), `RTableSort` (all lists of up to 4 entries), `Dijkstra` (triangle and a stub subnet), `RouterKit` | `TableIsCoherent`: CAM and LUT agree, a lookup answers as the table stood when it was asked for, a register read returns its row.  `DamageIsLocal`: whoever shares the registers, only the rows in use at a disturbance are wrong, until they are written again.  `SortsStably`.  `RoutesAreShortest`, `ChangesAreComputed`: a change that came while a computation ran is not forgotten.  `NeverMixesTables`, `EndsInSync`: the daemon never leaves rows of two tables behind, and ends with those of the kernel, restarts included |
| `datapath` | `InputArbiter` (2 inputs, FIFOs of 2), `FallthroughFifo` (depth 4, 2 values), `OutputQueues` (4 words, 3 metadata words, packets of 1 or 2 words) | `NoOverflow`, `PacketsStayWhole` (with their own metadata, and the counter right modulo its range), `InputsTakeTurns`: an input waits for at most one packet of each other input, and the arbiter sends on one whole packet after the other, `ImplementsQueue` |
| `arp` | 2 packets, 2 addresses, CAM of 1 row, 2 requests | `NoPacketLost`, `HardwareIsCurrent`: the CAM follows the cache, `NoPacketWaitsForEver` |
| `pwospf` | chains and a shared subnet; hop count 2, sequence numbers modulo 3, time-out 2 | `EntriesReturn`, `EntriesSettle`: after failures end, every router holds what the originator advertises |
| `lwip` | `TcpConnection` (7 scenarios of at most 5 bytes, 2 faults, 2 time-outs), `SysMbox` (2 posters, ring of 3, pool of 2), `Netconn` (8 scenarios), `Pbuf` (heap of 16 units), `Memp` (2 connections, 2 workers, 1 API message), `SysThread` (1 client, 1 worker) | see below |
| `scone` | `Forward` (3 routers, 2 LANs, every protocol, address and time to live), `Sping` (2 commands, 3 requests, 2 replies), `Www` (2 workers, 2 clients), `LsuBcast` (2 senders, queue of 3), `Checksum` (all messages of up to 4 bytes, cut anywhere) | see below |
| `locks` | any 3 threads of SCONE, each on any path | `NoDeadlock`, `TablesAreGuarded` |
| `table_write_lost` | 1 writer, packets | **violation** of `AllRowsUpdated` |
| `dijkstra_assert` | as `tables` | **violation** of `GatewayIsNeighbour` |
| `tcp_late_fin` | 1 byte and a FIN, 1 fault | **violation** of `FinIsReported` |
| `hello_mask` | as `locks` | **violation** of `LocksReleased` |

`lwip`.  `StreamIntact`: each end gets a prefix of what the other wrote, and the
end of the stream only after all of it.  `UnackedIsKept`: what is not
acknowledged can still be retransmitted.  `SendBufferAccounted`: the counters that
throttle the application agree with the queues (a client is one byte short for
ever).  `WindowRespected`: nothing in flight lies beyond the receiver's window.
`MailArrives`: a mailbox is a queue, and the transport thread does not sleep over
a message.  `StaleOnlyWhenRough`, `StreamsAgree`, `WritesEnd`: a netconn shared by
two threads.  `HeapIsSound`: blocks tile the heap, chains add up.
`SharedListsAreSound`: the pools and the list of threads.

`scone`.  `HopsAreBounded`: a packet made with a time to live of n is sent on fewer
than n times, also while the tables lead it round.  `ErrorsQuoteOriginals`: an
ICMP error quotes the packet as it came, also after a wait for ARP.
`SourceHears`: while the tables are settled, a good packet of a host that answers
ARP ends at its destination, or the host gets an answer or an error.  `ChecksumsAgree`.
`WaitersHearReplies`: a `sping` that gives up has not overlooked a reply that came
while it waited.  `RepliesAreWhole`, `AcceptedAreClosed`: the web server.
`UpdatesAreSent`: a queued LSU is sent although the signal may be lost.

Why the bounds are enough for the cases of interest.  The TCAM is smaller than the
longest list, so truncation happens; with three rows a rewrite has two
intermediate states and a row may hold a route that has moved up already; every FIFO passes through full, empty and several wrap-arounds; the CAM
has fewer rows than the ARP cache; counters, TCP sequence numbers and those of
LSUs wrap within a run; a hop count of 2 ends on the chain; the TCP scenarios have
a full window, a lost, doubled or reordered segment and a time-out in the opening,
in the data and in the close, and both ends closing; the web server's buffer
grows twice and its answers are sent in two pieces; the network of routers has a
route that goes round, a host that is gone, an address without a route and every
value of the time to live; in one scenario of `Netconn` the only API message is
taken, in another the pool of messages to the transport thread is empty when a
call needs one.  `MAX_EVENTS`, `MAX_IN_FLIGHT`, `PINGS`,
`REPLIES`, `MAX_TIME`, `POSTS`, `TICKS`, `CONNECTIONS`, `MAX_QUEUE`,
`MAX_ENTRIES`, `PASSES`, `SHORTAGES` and `CREW` name the other bounds.

Deadlock of the model is not checked in `tables` (the sort ends and the process of
`Dijkstra` may abort), `scone` (the checksums have no steps, connections and
commands are bounded), `lwip` (connections end) and `locks` (`NoDeadlock` says
which threads may wait for each other).

Exceptions that properties name, each because the code does break there:

- `NoDeadlock` is about threads that wait for each other.  Two early returns leave
  locks locked: that of `process_pwospf_hello_packet` when the masks differ
  (`or_pwospf.c:95-98`) and that of `send_ip_packet` without a route
  (`or_ip.c:311-314`).  Both are among the paths of the run.  Who needs such a
  lock waits for ever, and the property leaves that out; the first of the two is
  the matter of `hello_mask`, the second is checked by no run.
- `TablesAreGuarded` excepts `sping`, which sends without the locks
  (`or_icmp.c:182-236`), and the interface and router lists, which
  `or_iface.c:317-341` and others use without theirs.
- `StaleOnlyWhenRough` excepts resets, segments after the peer's FIN, and an accept
  that fails for want of memory: `accept_function` gives the connection up and
  `tcp_input` goes on using it (`api_msg.c:183-224`, `tcp_input.c:265-306`).
- `WritesEnd` excepts a call whose message `transport_apimsg` drops because its
  pool is empty (`transport_subsys.c:173-176`): its caller waits for ever.
- `HeapIsSound` says nothing after `pbuf_realloc` has cut a chain with two buffers
  or more behind the cut, which frees the last ones twice (`pbuf.c:446-450`).  It
  excepts the free block that `mem_realloc` makes, which the search of
  `mem_malloc` may skip, and the data of a buffer in a block that starts at an
  unaligned address, which `pbuf_alloc` moves past the end (`pbuf.c:298-303`).
- `RepliesAreWhole` excepts a client for which the server ran short of sockets,
  netbufs, messages or bytes of the file.
- `TableIsCoherent` excepts the old and the new key of a row that is being
  rewritten: a lookup of the old key may find the new data, and one of either key
  may miss the row.  `DamageIsLocal` excepts the rows it calls hurt.
- `HopsAreBounded` lets a packet that comes with a time to live of 0 be sent on up
  to 255 times: `or_ip.c:149` looks only for 1.  `ErrorsQuoteOriginals` excepts such
  a packet, and one whose checksum was 0xffff where the router computes 0.
- `SourceHears` excepts an ICMP error that a host sends: no error is sent about it
  when its next hop does not answer.
- `NoPacketLost` and `NoPacketWaitsForEver` except the packets that wait for an entry
  that is deleted between the two halves of a reply (`or_arp.c:179`).
- `SharedListsAreSound` excepts a pool whose `memp_free` in `netconn_delete`
  (`api_lib.c:297`) met another call, a block given to the wrong pool
  (`transport_subsys.c:175`), and two `sys_thread_new` that met
  (`sys_arch.c:170-175`).
- `AcceptedAreClosed` excepts a connection lost to a failed allocation.

### What the violations mean

- `table_write_lost`: `unencoded_cam_lut_sm.v:201` honours a write request only
  in a cycle with no lookup in its pipeline.  The request lasts one cycle, and
  `INDIRECTCONFIG` stays 0, so neither the registers nor the software notice.
  `or_rtable.c:258` says that the function updates all entries.
- `dijkstra_assert`: an interface that is down stays in the interface list.  When
  another router still advertises its subnet, `compute_rtable` picks that
  interface and asserts a neighbour on it (`or_dijkstra.c:142`).
- `tcp_late_fin`: a FIN that waits on the out-of-sequence queue is acknowledged,
  but the loop that takes it from the queue tests the flags of another segment
  (`tcp_input.c:952`), so the application is never told.
- `hello_mask`: `process_pwospf_hello_packet` returns with the router-list mutex
  locked when the masks differ (`or_pwospf.c:95-98`).

## 4. Fairness

- `RTable`: the rewrite continues once begun, and `dijkstra_thread` runs when
  the flag is set.  The first is a loop without waits; the second has a timed
  wait of about a second, after which it looks at the flag.
- `RouterKit`: the daemon polls for ever (`EndsInSync`).
- `Arp`: the second half of a reply, the steps of `arp_thread` (its loop takes
  the entries of the queue one by one), and time.
  Strong fairness is stated only for the passing of time, which nothing in the
  code can stop for ever.
- `Pwospf`: hellos (every 5 seconds), neighbour and entry time-outs, periodic
  floods and the delivery or loss of an LSU in flight.  An LSU is lost a bounded
  number of times, so deliveries are assumed in the end.  A periodic flood comes
  after the neighbour table has settled and earlier LSUs have arrived: the LSU
  interval (30 s) is longer than the hello time-out (15 s).
- `Netconn`: the server thread, the transport thread, its timer (the poll of
  `tcp_slowtmr`), and a peer that acknowledges what it is sent.  `WritesEnd` needs
  all four; a peer that neither acknowledges nor resets is given up by the
  retransmission limit of `TcpConnection`, which is not composed with it.
- `Www`: the workers run, and a client that has begun a request sends the rest or
  goes away.  The code has no time-out for a client that does neither: five of
  them hold all workers.
- `Forward`: a router goes on with a packet it has, and ARP answers or gives up in
  the end (`SourceHears`); `arp_thread` counts the requests.
- `LsuBcast`: the two threads run, and a thread that has queued packets goes on to
  signal.  `pwospf_lsu_thread` floods periodically, which is what makes a lost
  signal harmless.
- `CamLut`, `TableAccess` and `RTableSort` state fairness of the clock or of the
  loop in their own specifications; the runs check their safety.  The other
  modules check safety only.

## 5. Proofs

TLAPS proves the following for every value of the constants that satisfies the
named assumptions.

- `RTable_proofs` (assumptions `WAssumption`, `RTableAssumption`).
  `TypeCorrect`, `DeadRoutesAreStatic` (`InactiveOnlyWhenDown`),
  `HardwareAgrees` (`HwAgreesWithSw`) and `WithdrawalKeepsRoutes`
  (`WithdrawalIsHitless`).  The last two are not inductive: they speak of complete
  rewrites and of one that withdraws routes.  `IInv` adds that all masks are
  contiguous, that the list is sorted once a rewrite has begun, that the rows
  written so far are those of the list, that the others are still those the
  rewrite found, and that those were in the order of a sorted list.  The argument
  has four parts.  `MaskOrder`: among contiguous masks the numeric order refines
  the order by bit count.  `PrecedesOrder`, `RankProps`, `SortedSeqProps`: the
  comparison of the sort is a total order on the places of a list, so ranks are
  taken once each and the result is sorted.  `FirstIsBest` and `ImageAgrees`: in a
  sorted list the first active match is the best, and row `i` is the `i`-th active
  entry, so the lowest matching row is that entry.  `ImageInOrder` and
  `SubImageMovesUp`: when routes only leave, a route never moves down, so it is
  still in its old row or already in its new one, and what matches above it is at
  least as specific.  `SortIsStable` (hypothesis `SortParameters`: the entries are
  entries of a routing table) is about the bubble sort itself, exchange by exchange,
  for lists of any length: it ends with `SortedSeq` of the list it found, which the
  model of the table takes the sort to leave.  `SortInv` says that the list is a
  permutation of the one found in which entries that compare equal have not
  passed one another, and that a pass without an exchange has met only neighbours in order.
- `Arp_proofs` (`ArpAssumption`).  `PacketsAreKept` (`NoPacketLost`) and
  `CamFollowsCache` (`HardwareIsCurrent`), for every number of packets, addresses,
  rows and requests.  `NoPacketLost` is not inductive: `arp_queue_add` looks only
  for the address, so a packet could come to wait twice if two packets that wait
  had one identity.  `IInv` adds that they do not (an ICMP error takes the
  identity of the packet it gives up, which has left the queue before), where the
  walk of `process_arp_queue` is, that only the entry it is giving up may be
  without packets, and that the rows of the CAM are those of the cache in
  order or have been nuked.  `KeepProps` says what a list is after entries have
  been removed; `QueueRelease`, `QueueTail` and `QueueAdd` what the operations do
  to a queue of which every packet is in one place.
- `Fifo_proofs` (`FifoAssumption`).  `PointersAgree`: the depth counter is
  the distance of the pointers, which is inductive together with the type.
  `FifoImplementsQueue`: the circular buffer implements `BoundedQueue`; the
  refinement mapping is the sequence `Contents` read from the pointers, and
  `ContentsStep` says what a cycle does to it.  `FallthroughImplementsQueue`: with the
  three registers behind it, it implements the bounded queue of `MAX_DEPTH + 3`
  words, makes the steps of `FifoOps`, and shows a word it holds within two
  cycles; these are the parts of `ImplementsQueue`.  `FallInv` adds how long the
  output may still be invalid, given which registers are.
- `Stages_proofs`, two stages of the datapath.
  - The table core (hypothesis `Parameters`: at least one row, a CAM write of at
    least one cycle).  `TableIsSound` (`TableIsCoherent`), for tables
    of every size and CAMs of every speed.  The invariant needs what the two
    memories are during a write: `Resetting` (rows already passed by the reset are
    empty in both), `Ready` (each row agrees, waits to be written, or is in the LUT
    and not yet in the CAM), and `InFlight` and `Reading` for the lookup and the
    register read in flight; `Coming` is what a row will be once the write on its
    way has been done.
  - The input arbiter (hypothesis `ArbiterParameters`: at least one input, packets
    of at least one word).  `PacketsComeOutWhole`: types, FIFOs within their depth, and
    `PacketsAreWhole`; the theorem `InputsTakeTurns`: `BoundedBypass`.  Together they
    are the invariant `InputsTakeTurns` of the run.  `ArbiterInv` follows each packet
    through the FIFO (`Whole`: the words of a FIFO continue one another from the
    output to the sender) and says whose turn it is (`Turn`).  The state machine
    takes the end of a packet from `tlast` without a look at `tvalid`; the proof
    needs that in the middle of a packet the output of an empty FIFO still shows
    the word read last, which is not the end (`FifoClockOutput`).
- `OutputQueues_proofs` (`OutputQueuesAssumption`).  `QueuesNeverOverflow`:
  `NoOverflow` is not inductive, since the threshold is tested only at the first
  word.  `Room` adds that while a packet is being stored every queue it goes to
  has room for the words that may still come.  `PacketsStayAligned`:
  `PacketsStayWhole` (`PacketsAreWhole`, `HeaderMatches`, `CounterMatches`), for any number of queues, any sizes and any counter width.
  Words and metadata pass through two FIFOs that move at different times, so the
  invariant (`Stream`) needs a map from the metadata words to the first words of
  packets (`Headers`), increasing and onto them, and that no first word reaches the
  registers before its metadata does; the latter holds because no more words are
  before the metadata of a packet than before its first word, and both FIFOs fetch
  a word a cycle while their registers have room.
  `FifoClockWords` says what a cycle does to the words of a fall-through FIFO,
  `HeadersStep` what it does to the map, `WholeStep` what it does to the packets,
  and `CountStep` what it does to a counter that sees a store one cycle late and
  wraps.
- `TableAccess_proofs` (hypothesis `AccessParameters`: a row or more, any of the six
  functions of SCONE that use the indirect registers, with or without packets).
  `DamageStaysLocal` states `DamageIsLocal` for every interleaving.  A row is written
  after the function that wrote it has gone on to the next, so the invariant
  `AccInv` has to say what is still on its way: a row that is not hurt is the one
  ordered last or its order is in the registers (`Written`, `Ordered`), a command in
  flight is such an order or goes to a hurt row (`Pending`), a writer that was not
  disturbed finds its words in the registers (`Writing`), and a reader that was not
  disturbed is answered with the row it asked for (`Reading`, `Printed`).  `Bus` says
  where a command may be, `Narrow` that bits a table has no room for stay empty.
- `Software_proofs`, two programs.
  - The mailbox (hypothesis `RingFitsPool`: the ring is larger than the pool of
    messages).  `MailboxIsQueue` states `RingIsQueue` and `NoLostMail`, the parts of
    `MailArrives`, for any number of threads.  `sys_mbox_post` never looks whether
    the ring is full, so the proof needs `Bounded`: the pool admits no more messages
    than the ring has places, the one about to be stored included.  `Exclusive`
    says that the semaphore is a mutex, `Ring` gives each message its place.
  - The router kit (hypothesis `KitParameters`: the kernel's tables are smaller than
    the hardware's, and no entry looks like a cleared row).  `KitKeepsTablesApart` states
    `NeverMixesTables` and `HwMirrorsCopy`, for any entries, devices, changes
    of the kernel's tables and restarts of the daemon.  They speak of the copy and of
    the hardware at rest; `KitInv` adds which rows are left while the old table is
    being cleared (`Deleting`) and which are there while the new one is written
    (`Creating`).  `KeepIsList` says that what is left of a list when entries
    of unknown devices are taken out is a list of no more entries.
- `Forward_proofs` (`ForwardAssumption`: the time to live of new packets is between 2
  and the largest byte, routes lead out of interfaces of their routers, packets have
  their fields, and a host that gets a checksum right computes it as the router does;
  `ByteAssumption` of `Checksum`).  For every network, every packet, and tables that
  are settled or change at will: `TtlBoundsHops` (`HopsAreBounded`) and
  `ErrorsAreFaithful` (`ErrorsQuoteOriginals`).  Neither is inductive.  `LifeInv` adds
  that the hops done and the time to live left add up to the first time to live,
  or to that of the wrapped one.  `LeavesInv` adds that what leaves a router was
  made by it, is an error, or is the packet that came to it with one less to live
  and the checksum computed anew.  `PutBack` is the step that matters: adding one
  and computing the checksum again gives the very header that came, unless it came
  with 0.  `SummedIsGood`, `MadeIsGood`, `IcmpKeeps` and `SentOnKeeps` carry the
  invariant through the actions.

Only model-checked, and why:

- all liveness properties (`EventuallySynced`, `NoPacketWaitsForEver`,
  `EntriesSettle`, `EntriesReturn`, `EndsInSync`, `WritesEnd`, `AcceptedAreClosed`,
  `UpdatesAreSent`, `SourceHears`): temporal reasoning under fairness is out of the prover's
  reach;
- what recursive definitions and folds compute for every input, which needs
  induction over data: the checksums (`ChecksumsAgree`), the
  shortest paths, the queues of TCP, the lock programs of `Locks`;
- the invariants of the other modules (`Dijkstra`, `Sping`, `Www`, `Netconn`, `Pbuf`,
  `Memp`, `SysThread`), for which no proof is written.

## 6. Not modelled

`PROJECT.json` lists every part with the reason.

- Text: parsing and printing of the command line and of web pages, logs.
- Input and output: raw sockets, the VNS protocol, the registers behind single
  command-line tools, the driver.
- NAT.  It cannot be reached: `is_wan` of every interface is 0 (`or_main.c:359`), the
  commands that would set it or fill the table are commented out
  (`or_main.c:712-721`), and so is the start of `nat_maintenance_thread`
  (`or_main.c:249-255`).  `or_nat.c` never changes a packet, and the lock of its
  table is left out of `Locks`.
- `inet_chksum_pbuf` (`inet.c:167-191`): its only caller, `icmp_input`
  (`lwtcp/icmp.c:122`), is called by nobody.
- In lwtcp: UDP, outgoing connections, `lwip_select`, the reclaim functions, and
  `PBUF_POOL`, which nothing in SCONE allocates from.  A timer that falls due
  while the transport thread waits for a semaphore in the middle of `tcp_input`
  (`sys.c:119-170`) is not composed with `TcpConnection`.
- The router lookup pipeline (`op_lut_process_sm.v` and the parsers beside it),
  the MAC attachment, the switch and NIC lookups, the width converter and the OSNT
  cores.  Their FIFOs are `FallthroughFifo` or vendor cores; the register files
  and byte counters of the modelled cores are left out as well.
- Test benches, build scripts and the Python tools.

Lines that a reader of these parts may want to look at, for which there is no
model:

| Line | What can go wrong |
|---|---|
| `or_iface.c:385` | the loop that clears the neighbours keeps using the node it has freed |
| `ip_lpm.v:325` | the next hop comes from the head of a FIFO, not from the address looked up |
| `eth_parser.v:136` | the live ethertype register is paired with a queued address |
| `output_queues.v:161` | packets longer than `MAX_PACKET_SIZE` pass the threshold |
| `output_queues.v:615` | a single bit of a byte count is added to a counter |
| `switch_output_port_lookup.v:249` | a FIFO of four results whose `nearly_full` stops nothing |
| `rate_limiter_simple.v:148`, `inter_packet_delay.v:144` | the by-pass is switched within a packet |
| `rate_limiter_simple.v:174` | a shift may leave the counter's width |
| `extract_metadata.v:158` | `tlast` of the first word is not looked at |
| `osnt_bram_pcap_replay_uengine.v:519` | a start edge that meets a nearly full FIFO is lost |
