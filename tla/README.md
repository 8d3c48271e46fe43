# Verification of GemSc

GemSc is a discrete-event simulator in C++: modules (CPUs, caches, memories,
crossbars, routers, traffic generators) exchange packets through ports with
virtual channels, driven by one event queue.  This directory holds TLA+ models
of the parts of it whose behaviour is hard to test, the TLC configurations that
check them, and TLAPS proofs.  Paths below are relative to the repository.

## 1. The system

| Part | Source | State | Operations |
|---|---|---|---|
| Event kernel | `include/core/event_queue.hh`, `sim_object.hh` | heap of events, current cycle | `schedule`, `run`, `TickEvent::process`, `LambdaEvent::process`, `initiate_tick` |
| Ports, links | `simple_port.hh`, `master_port.hh`, `slave_port.hh`, `port_manager.hh` | the pair of each port, ports of an owner | `PortPair`, `sendReq`, `recvReq`, `sendResp`, `recvResp`, `tick` |
| Virtual channels | `virtual_channel.hh` | one bounded FIFO per VC at each end | `enqueue`, `pop`, `trySend` |
| Statistics | `port_stats.hh` and the `updateStats` of the ports | counters, delay total, minimum and maximum | count, `reset`, `merge` |
| Packets, pool | `packet.hh`, `core/ext/packet_pool.hh` | two freelists, usage, peak | `acquire`, `release` |
| Endpoints | `include/modules/{cpu,cache,memory}_sim.hh`, `traffic_gen.hh` | in-flight requests, cache buffer | request and response handlers, `tick` |
| Switches | `crossbar.hh`, `arbiter.hh`, `router.hh` and variants | request queue | handlers, `tick` |
| Streams | `ext/credit_stream.hh`, `stream_producer.hh`, `stream_consumer.hh` | credits | `send`, `returnCredit` |
| NoC | `src/noc/` | flit buffers, handshake signals | routing, switching, packet to flits and back |
| Factory, configuration | `src/core/module_factory.cc`, `include/utils/` | instances, groups, connections | `instantiateAll`, `startAllTicks`, include, match |
| Adapters | `include/sc_core/`, `src/sc_core/`, `core/ext/*payload*` | signals, TLM phases | SystemC and TLM bridges |
| Output, tools | `topology_dumper.hh`, `force_directed_layout.hh`, `python/` | none | dump, layout, generate |

How they interact.  `main` is written to build the modules from a JSON
configuration, connect ports by `PortPair`s, call `startAllTicks()` and then
`run(10000)`.  It does not come that far: it loads the configuration and hands it to
`instantiateAll()`, which takes the name of a file, so that the conversion throws
for every configuration that is an object (`src/main.cpp:33`; section 4).  And
`startAllTicks()` goes through a map that nothing fills; `cpu_main` and
`traffic_main` call `initiate_tick()` for each object.  All modules run in the one
thread of `run()`, as handlers of events: a module's
`tick()`, once per cycle, or a `LambdaEvent` scheduled some cycles ahead.  A
handler calls `sendReq()` on a downstream port; that puts the packet, in the
same call, into an `InputVC` of the port at the other side, or else into an
`OutputVC` of its own.  The receiving module takes packets from its `InputVC`s
when it calls `tick()` on its port, which calls its `handleUpstreamRequest()`.
Responses go back through `sendResp()` straight into
`handleDownstreamResponse()`.  The packet pool is shared by all, under a mutex
that only ever one thread takes.

What is hard.  *Ordering*: events of one cycle fire in any order, so whether a
packet is handled in the cycle it was sent in depends on the heap.
*Interleaving*: the owners of the two ports of a link act in any order, several
masters may share a slave, and the retries of a full VC fall between new sends.
*Boundaries*: the last cycle of a run, full buffers, full freelists, unsigned
delays.  *Ownership*: a packet passes through several modules, is shared by
request and response, and must be released once.  *Liveness*: a run must end,
a buffered packet must leave, one VC must not block another.

What makes each part correct:

- **Event kernel**: events fire at their cycle and never in the past; every
  object ticks once in each cycle, wherever a simulation is cut into runs; a run
  returns.
- **Links**: per master and VC, packets arrive exactly once and in order;
  buffers respect their capacities; VCs do not block each other; buffered
  packets get sent.
- **Statistics**: counters agree with the buffers and with each other, delays are
  consistent, through failed sends, resets and merges.
- **Pool**: nothing leaked, nothing handed out twice, no payload deleted that is
  still referred to; usage counts right; freelists bounded.
- **Endpoints**: each request is answered once, its packet and payload live while
  anybody refers to them, and are released once.
- **Switches**: no packet lost or overtaken; every output reachable.
- **Streams**: credits between 0 and the initial amount, none lost.
- **NoC**: each flit forwarded once, routed along XY to its destination; packets
  reassemble to what was split.
- **Factory**: every connection of the configuration is made, every object ticks,
  includes end.

`PROJECT.json` lists every hazard with its line and the properties that cover it.

## 2. The modules

| Module | Models | Extends |
|---|---|---|
| `EventQueue` | class `EventQueue`, `TickEvent`, `LambdaEvent`, `initiate_tick` | |
| `VCChannel` | what a link promises: one unbounded FIFO per master and VC | |
| `VCLink` | `UpstreamPort`, `DownstreamPort`, `InputVC`, `OutputVC`, `PortPair`, for requests | |
| `VCLinkStats` | `PortStats`, the counters of VCs, responses and delays | `VCLink` |
| `PacketPool` | `acquire`, `release`, the freelists and the heap behind them, for users that keep to the rules | |
| `PoolHeap` | the same pool as a value, with operators instead of actions, for users that do not | |
| `CpuMemory` | `CPUSim`, `TrafficGenerator` and `MemorySim` with their links and the pool | `PoolHeap` |
| `CpuCacheMemory` | a `CacheSim` between them | `CpuMemory` |
| `Fabric` | `Crossbar`, `Arbiter` and `Router` between sources and targets, on any topology | |
| `NocFlits` | the three ways in which the NoC cuts a packet into flits | |
| `NocMesh` | the clocked routers of `router_sc.cc` in a mesh | `NocFlits` |
| `Factory` | `ModuleFactory::instantiateAll()` with includes, groups, nested modules | |
| `..._proofs` | proofs about `EventQueue`, `VCLink`, `VCLinkStats`, `PacketPool`, `CpuMemory`, `Fabric`, `NocMesh` with `NocFlits`, `Factory` | the module they name |
| `MC...` | values of the constants for TLC | the module they name |

Each module's comments say which code an action stands for; `map` in
`PROJECT.json` gives the lines.  A definition whose comment starts with "Faulty
variant of" is no part of the model: it is a plausible bug, put in the place of
the definition it names to show that a property notices it.

### EventQueue

The heap is the set of its entries; an entry that is least may be at the top, so
that ties are broken in every way the heap might.  `RunBegin`, `FireTick`,
`FireLambda` and `RunEnd` are the call of `run()`, one turn of its loop for each
kind of event, and the way out of it.  A turn of the loop is one step because
nothing else runs meanwhile.  A handler is arbitrary code: it schedules any set
of idle `LambdaEvent`s with any delays.  The events that one call of
`initiate_tick()` sets off form a *chain*; the history variables `started` and
`ticks` say when it was set off and how many times it has ticked, and `asked`
adds up the arguments of `run()`.

### VCLink and VCChannel

State: `outq`, the `OutputVC`s by master and VC; `inq`, the `InputVC`s of the
one slave; `bound`, the masters whose pair is set.  `DownstreamPort::sendReq` is
three actions, one per outcome: `SendDirect` (VC empty, the slave takes the
packet), `SendBuffered`, and `SendRefused` (it returns false, nothing changes).
`RetryOutputs` is `DownstreamPort::tick()`, which runs `trySend` on every VC;
`trySend` reaches `sendReq` by a virtual call, so a packet at the front goes to
the back of the same buffer (section 4).  `HandleInputs(willing)` is
`UpstreamPort::tick()` with an owner that accepts packets of the VCs of
`willing`.  No code in the repository calls these two `tick()`s; the documents
make that the owner's duty, so they may happen at any time and the safety
properties hold for any schedule of them.

History: packets of a stream (a master and a VC) are numbered as `sendReq()`
accepts them; `accepted`, `entered` and `handled` say how far each stream has
got.  `VCChannel` is what the owners of the two ends may rely on.  The refinement
maps the channel of a stream to the numbers accepted and not yet handled.

### VCLinkStats

Each action of `VCLink` together with what it does to the counters, and in
addition the clock, the responses and `resetAllStats`.  A request is stamped in
the call that sends it, as `CPUSim::tick` does.  The slave's pair is the last one
made, so responses reach the master bound last, whoever asked.

### PacketPool

Packets and payloads are addresses; `packets` and `payloads` say which are
allocated.  `acquire()` binds a payload to the packet and then calls
`Packet::reset()`, which deletes it: the caller gets a packet with no payload,
and a payload from the freelist is gone.  `AttachPayload` and `Refer` are what
users do between `acquire()` and `release()`, as `test_packet_pool.cc` does it.
A user releases only what it holds.  `release()` of a response reads the reference
count of its request, by `remove_ref()`.  The request may have been released
before, and deleted because the freelist was full: then the step is
`ReleaseReadsDeleted`, which sets `ub`, after which nothing more happens.

### PoolHeap, CpuMemory, CpuCacheMemory

The modules of the simulator do not keep to those rules: request and response
share a payload, and the response goes back to the pool while the request is
still out.  `PoolHeap` therefore takes the pool as a record, so that a handler
that acquires, fills and releases is one action, and says what becomes of the
payload: `Deref` sets `ub` when a deleted payload or a null pointer is used, after
which nothing more happens.  (Packets are never deleted there: the freelists of
the code hold 1024, far more than the requests of the model.)

In `CpuMemory` each initiator, a `CPUSim` or a `TrafficGenerator`, has a link to
the memory.  Its `tick()` is `SendDirect`, `SendBuffered` or `SendRefused`, by
what `sendReq` makes of the packet; `MemoryHandles` is `UpstreamPort::tick()` with
`MemorySim::handleUpstreamRequest()`, and `Deliver` is the lambda that it
schedules, which calls through `sendResp()` into the initiator's handler.  On this
way the payload of the response is read by both ports, which count its bytes
(`Counted`), and by the handler: a generator reads the address in it, a CPU the
address in the payload of the original request (`Handled`).  The
lambda may run at any later step, in any order, which includes the 100 cycles of
the code.  `CpuCacheMemory` puts the three outcomes of
`CacheSim::handleUpstreamRequest()` (`CacheFull`, `CacheHit`, `CacheMiss`),
`tryForward()` from `tick()` and from its own lambda, and
`handleDownstreamResponse()` (`CacheAnswers`) in between.

### Fabric

A wire is a `PortPair` with the two buffers of a link.  `Enqueue` is the handler
of crossbar and arbiter, which accept everything; `Pass`, `Retry` and `NoOutput`
are the outcomes of their `tick()`; `RoutePacket` and `RouteNowhere` are the
router's handler, which sends on at once and does not look at the result.  An
`OutputVC` that holds a packet does not drain (section 4), so an output, once
full, refuses for ever; without that finding, a router could lose a packet that
its output would take a cycle later.  Responses go back wire by wire:
`AnswerForwarded`, `AnswerDropped`, `AnswerReturned`.  `released` and `lost` record
where a request ends that is not handled, and which device lost it; `returned` and
`dropped`, where a response ends.

### NocFlits and NocMesh

The data of a packet are byte offsets, so a flit's slice says exactly which bytes
it carries.  `PacketToFlits` is the loop of `packetToFlits()` as a recursive
function, `TerminalFlits` the closed form that `TerminalNode` computes,
`FlitOfPacket` the constructor of one flit.  The flits of `TerminalNode` have bytes
and no type: it works out the type of each and attaches it to the transaction of the
whole packet, `trans`, where the flit's own, `flit_trans`, was due
(`src/noc/nic.cc:44`).  So the mesh is given the flits of `packetToFlits()`.  A flit's
label has the node it comes from and its packet; the code puts the address of the payload into
`src_addr` (`packet_utils.cc:15`), which no router reads: in the model the label is history, by which
the properties tell flits apart.  No file of `src/noc/` is in a
target of `CMakeLists.txt`: these modules model the code as it is written.

All SystemC processes run at the rising edge and read the signals as they were
before it, so one cycle of the whole mesh is one step, `Clock`.  Two processes of
one router share its output buffers: what the model leaves open is which of them
runs first, `early`, and it matters only where a flit arrives for an empty buffer
(`Races`).  `link` keeps, per link, the sender's buffer, `req`, `flit` and the
receiver's `ack`.  The terminals are declared in the code and not defined; here they
follow the routers' handshake, and what concerns them is marked external in
`map`.

### Factory

A call of `instantiateAll()` is a frame of a stack, whose `phase` is the place in
the function: loading with includes, creation of the objects, groups, nested
configurations, ports, connections.  The groups are one static map and therefore
not in the frame.  `modules` maps a name to TRUE or, where the code's
`module_instances[name]` has inserted a null pointer, to FALSE; `ThroughNull` is
its use.  A nested configuration has to be a string, or `instantiateAll()` throws,
and `parsePortConfigs()` finds no ports in a string: so no module exposes one,
which `FindInternalPath` follows and does not assume.  Patterns are the sets of
names they match.  An end "module.port" is a pattern too, whose dot, which
`Wildcard::match` does not escape, stands for any one character: it could match an
object named, say, `cpu_out`, and connect nothing, as that has no port.

`loadAndInclude()` calls itself for the "include" of a file and for those in the
objects and arrays inside it.  `loading` is the stack of these calls.  What the
include at the top level contributes is merged in the model (`Merged`); what those inside
contribute is not: `keys` says what a key has once they are merged, and `nested` only
which files they are, which is what the recursion depends on.

What the files contain is chosen in `Init` and never
changes; the assumption `Format` says what a file can be: what the code reads,
with a "config" and an "include" that name
files, existing or missing.  The documents write `$include`
(`docs/CONFIGURATION_SYSTEM.md:107`), which the code does not look for, and an object in the
place of the name of a file for "config", which makes the JSON library throw.  Everything else in a file, unknown types, names nobody
has, empty names, a group or a connection of nothing, is allowed.  A JSON value of any other
wrong kind (a list where the code reads a name) makes the JSON library throw, and is
left out.  `Picked` is the sequence of what a loop with a test leaves
of a list, as in `filterExcluded()`.

## 3. The runs

| Run | Bounds | Shows |
|---|---|---|
| `event_queue` | 2 chains, 2 lambdas, delays 1 and 3, runs of 0, 1 and 3 cycles, 5 cycles in all | the properties of the kernel, at and between the ends of runs |
| `vc_link` | 2 masters, 2 VCs with capacities 2/1 and 1/2, a third VC id that does not exist, 3 packets per stream | FIFO per stream, exactly once, VCs independent, refinement of `VCChannel` |
| `vc_link_retry` | 1 master, 2 packets per stream, fairness | a buffered packet is never sent (finding) |
| `vc_link_stats` | 2 masters, one shared VC, one VC only the masters have, one nobody has; 1 packet per stream, 2 cycles | the counters balance, the delays are consistent |
| `packet_pool` | 4 packets, 4 payloads, freelists of 2 | nothing leaked or handed out twice, counts right, a deleted request read only after an overflow |
| `cpu_memory` | a CPU with 3 requests in flight, a generator of 2 requests, queues of 1, 4 requests in all | no use of a deleted payload, requests and responses match, no packet in two places, each request that arrives is answered if the memory's owner ticks its ports |
| `cpu_leak` | the same | an answered request is never released (finding) |
| `cpu_cache` | 2 CPUs with 2 requests in flight, buffer and queues of 1, 3 requests in all | a hit releases the request under its response (findings) |
| `fabric` | 3 sources, 3 routers, 2 crossbars, 2 arbiters, 2 targets, 13 wires with queues of 1, up to 4 packets, 4 programs | each request in one place, lost only for a reason of its own, one response each, in order per source and address, a blocked output blocks no other |
| `noc_mesh` | 2 x 2 mesh, flits of 2 bytes, one packet of three flits between any two nodes, one of a single flit or empty that crosses it | XY route, handshake, exactly once, in order, packets complete, delivery |
| `factory` | 672 file systems of 4 files, up to 3 objects, any set of registered types | no other connections than the files ask for, and all those between groups; which configurations crash (finding); recursion ends but for circles (finding) |
| `factory_plain` | the same | a connection by port, wildcard or regular expression is not made (finding) |

Why the bounds are enough.  In the event queue, an event's fate depends on its
place relative to the end of the run and to the other events; runs that are
empty, shorter and longer than a delay, and ties between chains and lambdas, all
occur.  On the links, each VC must be able to be full at one end and not at the
other, both ways round, which capacities 1 and 2 give; order is about pairs of
packets of a stream, and rotation of a buffer needs two places and two packets.
For the statistics two delays that differ are enough to separate minimum,
maximum and total, and both requests may be answered to one master.  For the
pool, a freelist of two overflows with three released packets, and a fourth can
refer to the one that is deleted; addresses are
interchangeable, and the run uses this symmetry (it checks no liveness).

At the memory, sends must be taken, buffered and refused, and a packet must be
used again while another's payload is still shared: with four requests and
queues of one, every outcome of `sendReq` happens, and freelist and
payloads are in use again before the last response.  Eight packets are never
used up, since a request and its response need two.  In the fabric, the
four programs fill an output from two sources, send to an address with no route,
through devices without outputs, and responses to every kind of device;
the topology has each device before and after each other that matters.  Order is
about pairs; the third packet of a program is there to be refused.  In the
mesh, a pair of nodes is each kind of XY route (along a row, along a column, a
turn, to itself), and two packets meet at an output, in one cycle or one after
the other; one packet has a head, a body and a tail, the tail full or not.  Larger
meshes add longer straight ways and nodes whose numbers are not their coordinates (the
quotient and remainder by 4), which TLC does not reach here: the proofs hold for
all.  The file systems of `factory` combine every include (none, another, itself,
missing, inside an object, both) with every nested configuration, every list of modules and of
connections: mistakes come singly and in pairs.  `MaxDepth` is more than the
number of files, so that only a circle reaches it.

Deadlock is checked in `noc_mesh`, where the clock never stops.  In the other
runs it is not: those systems may rightly stop (all bounds reached, nothing to
fire, every packet handled, the factory done).

Fairness.  `EventQueue!FairSpec` has weak fairness of the loop of `run()`, a
loop in one thread; nothing is assumed of callers.  The delays there are at
least 1, as in all modules of the repository: an event that reschedules itself
with delay 0 keeps `run()` from returning.  `VCLink!FairSpec` has what the timing
documents ask of owners, that they go on calling `tick()`, and is used only to
show that it does not help.  `VCsIndependent` brings its own assumption: weak
fairness of handling one VC, nothing about the others.  In `CpuMemory` every
scheduled lambda is run; initiators need not send.  Nothing is assumed in `Spec` of the
memory's ports: `MemorySim::tick()` is empty (`include/modules/memory_sim.hh:30`), no code in
`include/` calls `UpstreamPort::tick()`, and `docs/TIMING_MODEL.md:13` says that then
input is never consumed.  That they are ticked is therefore the premise of `Answering`, the
owner's duty under which it promises something.  It speaks only of requests that have reached the memory, or will when
what is before them has been handled: one in an `OutputVC` is never sent.  In
`Fabric` each crossbar and arbiter is ticked, as `TickEvent` does in every cycle
once `initiate_tick()` has been called for it; targets, sources and routers need do nothing.  In `NocMesh` the clock runs and
terminals need not send; there, a cycle lets every process run, so no process
needs fairness of its own.

## 4. Findings

- **A buffered packet is never sent** (`vc_link_retry`).  `OutputVC::trySend`
  (`include/core/virtual_channel.hh:86`) calls `port->sendReq(pkt)`, which is
  `DownstreamPort::sendReq`; the VC is not empty, so the packet is appended to the
  buffer it came from, `sendReq` returns true, and `trySend` pops the front and
  counts `forwarded`.  The buffer rotates; once full, it stays full and all later
  requests of that VC are refused.  `docs/TIMING_MODEL.md:111` promises the
  contrary.  Safety is not affected: the packets are still there, each once, which
  is why `OutputHoldsRest` says nothing about their order.
- **`ref_count` keeps nothing** (`cpu_cache`).  `include/core/packet.hh:63`
  says it ensures that the object `original_req` points to is not reclaimed too
  early; nothing ever calls `add_ref`.  In the run a request goes to the freelist
  under its response.  Once the pool has had more packets in use than its freelist
  holds, the request may also be deleted, and `release()` of the response reads the
  count of what is no more; `DeletedReadOnlyAfterOverflow` says how many it takes.
- **A cache hit releases a request in use** (`cpu_cache`).
  `CacheSim::handleUpstreamRequest` answers a hit with a response whose payload and
  `original_req` are the request's, and releases the request at once
  (`include/modules/cache_sim.hh:47`), although the same class says at line 71
  that the original request is still in use and is released upstream.  In the
  next cycle `CPUSim` reads the address through the request's payload, which is
  null or, when the packet has been taken again, another's.
- **Answered requests leak** (`cpu_leak`).  `docs/AI_DEV_GUIDELINES.md:191` asks
  that creation and destruction of packets are paired, and
  `include/modules/cache_sim.hh:71` says that the module upstream releases the original
  request of a response.  `CPUSim` and `TrafficGenerator` release the response and
  drop the request: the pool's usage grows with each.  `RequestsLeak` proves how much
  (section 5).
- **Connections by port, wildcard or regular expression are not made**
  (`factory_plain`).  `docs/CONFIGURATION_SYSTEM.md:74` writes the ends of a connection
  as "module.port"; `:118-123` there, `DESIGN_config.md:45` and
  `test/test_connection_resolution.cc:24-58` have wildcards and regular expressions
  connect as well.  `src/core/module_factory.cc:268` and `:280` ask
  `Wildcard::match("*", spec)`, pattern and text exchanged, which every end
  satisfies.  So "module.port" is matched against the names of objects, and a pattern
  becomes names of objects without a port.  Only groups connect ports, and only ports
  which other connections name.  `ConnectedAsSpecified` states what holds all
  the same: nothing is connected that no connection is for, and groups are connected
  in full.
- **A configuration is not verified** (`factory`).  `docs/CONFIGURATION_SYSTEM.md:269`
  to `:275` promise that existence of source and target, names of ports and circular
  dependencies are verified.  No code does it: a port of an entry that was not created, or is no
  module and has a "config", is looked for through a null pointer
  (`module_factory.cc:96`, `:140`), a layout of an unknown type is set through one (`:72`),
  and files that include or configure each other in a circle overflow the stack
  (`json_includer.hh:32`).  `CrashesExplained` and `RecursionEnds`, which hold, say
  that it takes these mistakes, and no others, and the run meets all of them.

One more, without a run of its own: `main` (`src/main.cpp:29-33`) passes the object that
it has loaded to `instantiateAll()`, which takes a string, and so throws for every
configuration of the documented form.  `Loaded` models it.

## 5. Proofs

`EventQueue_proofs` proves, for any chains, lambdas, delays and runs, `TypeOK`,
`NoEventInThePast`, `ClockMatchesRuns`, `NoTickMissed` and the action property
`FireOnTime`, from the assumptions that chains and lambdas differ and that delays
and runs are natural numbers.  `NoTickMissed` is not inductive: in the middle of
a run a chain may have ticked ahead of other events.  `IInv` adds that each
chain has exactly one entry, for the cycle after its last tick (`ChainsBeat`),
and that no chain has ticked at or past the end of the run in progress, or past
the clock between runs (`ChainsInTime`).  Each action has a lemma; what a handler
adds to the queue is bounded by `HandledEntries`.

`VCLink_proofs` proves, for any masters, virtual channels, capacities and number
of packets, `TypeOK`, `ExactlyOnceInOrder` and the refinement `ImplementsChannel`,
from the assumption that VC ids and capacities are natural numbers.  `IInv` is
`TypeOK`, the three parts of `ExactlyOnceInOrder` and `HandledEntered`: without
it, a stream of which nothing waits could have been handled further than it has
entered, and the next arrival would break `InputHoldsEntered`.  That property
speaks of a whole `InputVC`, in which the packets of several masters mix; the
proof restates it stream by stream (`EachHolds`, with `ToEachHolds` and
`FromEachHolds`), and four lemmas about one buffer say what the arrival or the
removal of a packet does to the stream it belongs to and to the others.  The
refinement maps a stream's queue to the interval of numbers from the last one
handled to the last one accepted; accepting extends the interval, handling drops
its first number (`NumsAppend`, `NumsTail`), everything else is a stutter.  The
order inside an `OutputVC` plays no part in it, which is why it holds although
retries rotate that buffer: a rotating buffer is never drained, so nothing
overtakes at the receiver.

`VCLinkStats_proofs` first proves `StatsSpec => Spec`: counting changes nothing
that `VCLink` does, so that all theorems of `VCLink_proofs` hold with statistics.
Then it proves `StatsTypeOK`, `VCStatsBalance`, `AttemptsAccounted` and
`DelayBounds`, for any masters, channels and capacities, from the assumptions that
masters and `InputVC`s are finitely many, that the bounds of the model are natural
numbers, and that no delay reaches the initial value of the minimum
(`DelaysFit`).  `StatsIInv` adds to the link's `IInv` that each counter of a channel
balances with its own queue, and `Stamped`: each accepted request has the stamp
of a cycle that has begun.  Without it a response could be measured by the stamp
of a request that was never accepted, and the delay of one response could be
negative.  `DelayBounds` speaks of the statistics merged over any set of masters
and `AttemptsAccounted` of totals over channels.  Both are folds, which the library defines
by recursive functions: `FoldExists` shows that there is one, and `FoldWithin`
that a fold stays in a set which the operation keeps; `SumNatural`, `SumGrows`
and `MergedSound` are its uses.

`PacketPool_proofs` proves, for any sets of addresses and any `MaxSize`, all five
properties of `packet_pool`, from the assumptions that the null pointer is no
address, that the addresses are finitely many and that `MaxSize` is a natural
number.  The first four are inductive together and not one by one: the usage count stays
above 0 because what a user releases is held, a packet from the freelist is held
by nobody because of `PacketsAccounted`, and a payload reaches its freelist once
because no two packets have it.  `Pushed` and `Rested` say what a queue contains
after a push and a pop; `Taken`, `PacketPut` and `PayloadPut` are the parts of
`acquire()` and `release()`.  For `DeletedReadOnlyAfterOverflow` the invariant is
`RequestsDeletedOnOverflow`: only packets in use refer to a request, and one that
is referred to can only have been deleted when the freelist was full besides the two.

`CpuMemory_proofs` proves the five safety properties that `cpu_memory` checks, for any
CPUs and traffic generators, any limits and queue sizes and any number of
requests: `TypeOK`, `NoUndefinedBehaviour`, `InflightIsOutstanding`,
`ResponseToRequester` and `InUseOnce`.  `RequestsLeak` adds that the pool's usage count is the
number of requests ever accepted plus the responses under way, whereas `PacketsPaired`
asks for the packets in use.  The assumptions are
that no initiator is of both kinds, that limits are natural numbers, that the null
pointer is no payload, and that the model's `MaxPackets` is at least twice its
`MaxTries`: it bounds the model's heap, not the code's, and a smaller one would
stop `acquire()`.  The point of the proof is that `acquire()` deletes the
payload of a packet which it takes from the freelist (`Doomed`), while a response
shares the payload of its request.  So `IInv` says more than that packets in use
and packets in the freelist differ: a packet is in one place (`PlacesApart`),
and no two packets on their way hold the same request, but a response and its
original (`RequestsHeld`), which needs new requests and their addresses to differ
from the old (`RequestsNew`).  `HeapSound` is what the pool keeps by itself;
`AcquiredPool` and `ReleasedPool` say what its operations do
to any pool of that kind, and each action has a lemma.

`Fabric_proofs` proves `PacketsAccounted` and `InOrder`, for any crossbars, arbiters
and routers in any topology, circles included, buffers of any size and
anything that the sources send.  The assumptions are what the code makes true: a
module is of one kind (`Kinds`); a wire joins two ports, each port has one wire, and
there are finitely many (`Wiring`); a port's number is the number of ports that
its `PortManager` had before (`Numbering`; `include/core/port_manager.hh:168` and
`:185`); an `OutputVC` can hold something (`Sizes`; `src/core/module_factory.cc:149`
and `:167` make it 4); an address is a natural number (`Addresses`).

The first part sees all buffers and queues as one function, `Contents`, of which
each step cuts the front of one sequence, or puts a request at the end of one, or
both (`Cut`, `Put`; one lemma per action says which).  For `PacketsAccounted`, `IInv`
is `Accounted`, each request sent is in one place, released or lost, with the
reason for each loss (`MayLose`): the device is an arbiter without outputs, or a
router whose output for this very request is full.  That it would
refuse it still needs `StaysFull`: no step makes a refusing link take again.
`Answered` says that a request has one response if it is at a target, and none
otherwise; as a request is at one place, it is handled by one target at most
(`HandledByOne`).

The second part is about order.  `Route(F, N, s, a)` says that the wires `F[0 .. N]`
are the way from source `s` to a target by the choices that crossbars, arbiters and
routers make for address `a`.  The choice at a module depends on the address alone, so
that a way that visits a module twice would never end: one that ends at a target is
simple (`RouteSimple`), and its places can be numbered (`Stages`).  `Flow` says that of
two requests for one way the earlier is further on, or before the later one in the
same sequence.  It is not inductive as it stands: a crossbar puts what an output
refuses behind younger packets for that output.  But an output that refuses is full
for ever, and what is in that queue for this way will never leave it, so `Flow` makes an
exception of such queues (`Jam`), which only ever grow in number.  A request has
to be on its way in the first place, in whatever buffer it is (`Reached`).  On a circle of wires no
order holds, but nothing that goes round in it is ever handled.  TLC does
not check `OrderInv` itself, since it quantifies over all ways.

`NocMesh_proofs` begins with `NocFlits` and `PacketCut`: for a packet of any length and flits of any
size, `packetToFlits()` makes slices without gaps from the first byte to the last,
and if there is data, the last slice and no other is a tail.  The recursive
function is first shown to exist (`RestExists`) and to satisfy its equations
(`RestTurns`).  Induction over the length is by the least offset at which the
claim fails (`LeastNatural`, from the library's theorems on well-founded
relations), since its induction principles take an operator as a parameter.
`SplittersEqual` compares the splitters in the same way: for a packet with data,
the loop of the terminal cuts at the same bytes as `packetToFlits()`, and the
constructor of a single flit makes the first flit, with its type.  For a packet without data the claim is false, which is why
`SplittersAgree` is about packets with data.

`NocMesh_proofs` proves, for meshes of any size the routers can address, any traffic
and any order of the two processes, `TypeOK`, `Handshake`, `OnRoute` and
`NoFlitLost`, from the assumptions `MeshSize` and `TrafficInMesh`.  `IInv` is one
condition per link, `Good(l)`: its buffer holds flits that are routed there, and
while request or answer is up, the wires show the front of the buffer.  The
last part is needed for the types themselves: without it, what a router takes
could be the wire's initial value, which has no destination.  `SwitchedBuffer` is
what one edge does to one link.  For `NoFlitLost`, `WaitingAfterClock` says that
after an edge the flits waiting at a link are those from before, less the one
that its receiver takes now, and those that arrive; `Receiver` and `PassedOn` find
the output of the receiver where the flit taken is among the arrivals, in the
same cycle; at a local output the flit is at its destination (`LocalIsDest`).

The last part of the module proves the rest about the mesh: `FlitsExactlyOnce`, `InOrder`,
`TailCompletesPacket` and `SplittersAgree`, from the same assumptions.  `OInv` adds
to `IInv` that terminals are given whole packets, each once (`PacketsCut`), that
what is in the mesh has been sent (`Known`) and is at a place of its XY way
(`OnTheWay`), that no flit is in two places or twice in one (`OncePlaced`), and
that of two flits from one terminal to another the earlier is ahead (`Ordered`).
The idea is to measure: `Hops` counts the links from a place to the destination
along the XY way, and two places with equal hops on the ways from one terminal
to one destination are the same place.  So "ahead" is fewer hops, or the same
place and an earlier position.  After a clock edge each flit in the mesh has an
origin before it (`Origin`): it stayed, at its position or one less, or it came
from the front of a buffer one hop further away, and then entered at the end.
`OrderKept` goes through the four cases.  `OncePlaced` and `Ordered` need
`OnTheWay`, as flits that leave their way could meet, and `Known` with
`PacketsCut`, as a new flit could otherwise equal one on its way.  That a whole
packet has arrived when its tail has, follows from the order and from
`NoFlitLost`.

`Factory_proofs` proves `TypeOK`, `ConnectedAsSpecified`, `CrashesExplained` and
`RecursionEnds`, for any registered types, any number of files with lists of any
length, and any depth of the C stack, from the assumptions `Format`, `FinitelyMany`
(files) and `DeepEnough` (the stack holds more calls than there are files, or every
configuration could overflow it).  `IInv` says of every call on the stack what it has
done by now, in terms of the files: the first `MadeTo` entries of "modules" have
become objects, the first `SoughtTo` have been looked up as modules, the first
`JoinedTo` of "connections" have been made, and these numbers follow from the
phase.  It speaks of all calls and not of the last, since a call waits in phase
internal until the nested ones are done.  Its clause for the configuration
(`Combined`) is the reading of the reference, that the outermost file with a key
gives its value; `MergedIs` shows that merging from the inside out, a fold over
the open files, amounts to the same.  Groups are shared by all calls, and a nested one
may redefine them, which is why `JoinedOK` speaks of the groups as they are now:
once a call has reached phase connect it is the last on the stack and nobody
defines any.  At the end of a call the numbers are the lengths of the lists, and
`ConnectedAtTheEnd` reads the reference off them.  `Pairs` numbers the pairs of two
lists in one sequence, by quotient and remainder; `PairsAre` shows that it has each of
them.  For `RecursionEnds`,
`CalledInTurn` says that each call on the stack was made for an entry of the one
below, `Chained` that each file of `opened` is the one that the file before includes,
and `Loading` that each file being loaded is used by the one before, at its top or inside; of more calls
than files, two are for one file (the pigeonhole principle, from the library's
theorems on cardinality), and the files between them are a circle.  TLC has
checked `IInv` on the configuration of `factory`.

## 6. What is only model-checked, and what is not modelled

Liveness (`RunReturns`, `VCsIndependent`, `Answering`, `NoHeadOfLineBlocking`,
`Delivery`) is out of the prover's reach and rests on TLC.  Every safety property
that a passing run checks is also proved.  `CpuCacheMemory` has no theorem: its run
shows that a documented property is violated, and there is no promise to prove
beyond it.

Left out of the modelled parts: bytes and credits in the statistics, wording of
logs, names and labels, VC priorities and link delays (stored by the code and
never used), the objects of fired events (never deleted by the code, which no
property concerns), the text of patterns and of port names, buffer sizes and
plugins in the factory.

Not modelled:

- *The plain pool* of `include/core/packet_pool.hh`: a second class of the same
  name, used by no module, with less in it than the one modelled.
- *Streams and credits*: `CreditStream` is one integer under a mutex, used by a
  test; the producer and consumer include headers that do not exist.
- *Adapters to SystemC and TLM*: they construct packets with constructors that
  are private and name enumerators that are gone; none of them is built.
- *`crossbar_rr.hh`, `router_hash.hh`*: they leave pure virtual functions undefined,
  so that no program can make one.  *`stream_traffic_gen.hh`* includes a header that
  does not exist.
- *`router.cc`, `sc_module.cc` and `flitsToPacket`* of the NoC: they call functions
  that are defined nowhere, or are only declared.  (`router_sc.cc`, `nic.cc` and
  `packet_utils.cc`, which are modelled, are in no build target either, and
  `nic.cc` could not be compiled.)  Reassembly is therefore
  checked as what arrives, not as what a program makes of it.
- *Layout, topology dump, extensions, loader and Python tools*: output, floating
  point, data carriers and I/O.

`PROJECT.json` lists each part with its reason, and every hazard; the hazards
without a property say why.  They concern a full cache that releases the packet it
refuses, responses that return by the number of a port, the port for MMIO that is never chosen, `startAllTicks()` on a map that
nothing fills, and the NIC, whose network is not defined.  Of the second
`docs/TIMING_MODEL.md:65` says in an example that a response goes back to its
requester; the example keeps the requests to find it, `CacheSim` and `Router` do not.
