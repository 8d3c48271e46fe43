------------------------------- MODULE CpuMemory -------------------------------
(***************************************************************************)
(* CPUSim and TrafficGenerator objects that send read requests to a        *)
(* MemorySim, each to an upstream port of its own, and the pool that all   *)
(* of them take packets from.                                              *)
(*                                                                         *)
(* A request goes straight into the InputVC of the memory when the link    *)
(* has room, otherwise into the OutputVC of its sender, which does not     *)
(* drain (see VCLink); its retries, which only turn that queue around, are *)
(* left out.  So is time: the lambda that sends a response may run at any  *)
(* later step, where the code says 100 cycles.                             *)
(***************************************************************************)
EXTENDS PoolHeap, SequencesExt

CONSTANTS
  Cpus,         \* the CPUSim objects
  Generators,   \* the TrafficGenerator objects
  MaxInflight,  \* the 4 of CPUSim::tick
  NumRequests,  \* TrafficGenerator::num_requests, 20 in the code
  OutSize, InSize,  \* capacities of the OutputVC and of the InputVC
  MaxTries      \* bound: how many requests are made in all

ASSUME Kinds == Cpus \cap Generators = {}
ASSUME Numbers ==
  {MaxInflight, NumRequests, OutSize, InSize, MaxTries} \subseteq Nat

Initiators == Cpus \cup Generators

VARIABLES
  heap,         \* the pool, see PoolHeap
  tries,        \* how many requests have been made so far
  next_addr,    \* of each initiator: the number of its next address
  inflight,     \* of each CPU: the keys of CPUSim::inflight_reqs
  completed,    \* of each initiator: the responses it has handled
  output_vc,    \* of each initiator: its OutputVC
  input_vc,     \* of each initiator: the InputVC of its port at the memory
  responses,    \* the lambdas that will send a response: packet and port
  accepted      \* history: the requests that sendReq took

links == <<output_vc, input_vc>>
vars == <<heap, tries, next_addr, inflight, completed, links, responses, accepted>>

\* The payload of the n-th request, made by initiator c with address a.
Payload(c, n, a) == [by |-> c, try |-> n, addr |-> a]
Payloads == [by : Initiators, try : 1 .. MaxTries, addr : 0 .. MaxTries]

ASSUME NullIsNoPayload == Null \notin Payloads

\* The bound on the Packets is never met: a request takes one, its answer another.
ASSUME EnoughPackets == MaxPackets \in Nat /\ MaxPackets >= 2 * MaxTries

Init ==
  /\ heap = EmptyHeap
  /\ tries = 0
  /\ next_addr = [c \in Initiators |-> 0]
  /\ inflight = [c \in Cpus |-> {}]
  /\ completed = [c \in Initiators |-> 0]
  /\ output_vc = [c \in Initiators |-> <<>>]
  /\ input_vc = [c \in Initiators |-> <<>>]
  /\ responses = {}
  /\ accepted = {}

\* Faulty variant of Direct: the InputVC takes one packet too many.
DirectOffByOne(out, in) == out = <<>> /\ Len(in) <= InSize

\* sendReq: a link of which out and in are the two queues takes the packet p.
Direct(out, in) == out = <<>> /\ Len(in) < InSize
Buffered(out, in) == ~ Direct(out, in) /\ Len(out) < OutSize
Refused(out, in) == ~ Direct(out, in) /\ ~ Len(out) < OutSize

\* The initiator c is in a state to make a request (and rand() says so).
Issues(c) ==
  /\ ~ heap.ub
  /\ tries < MaxTries
  /\ c \in Cpus => Cardinality(inflight[c]) < MaxInflight
  /\ c \in Generators => completed[c] < NumRequests

\* The packet of a new request, and the pool after it has been filled.  The
\* ports that count its bytes read the payload that has just been allocated.
Request(c) == Acquired(heap)
Requested(c) ==
  LET d == Payload(c, tries + 1, next_addr[c])
      h == [heap EXCEPT !.live = @ \cup {d}]
  IN  AcquireFilled(h, d, Null)

\* Faulty variant of Accepted: a CPU does not remember the request.
AcceptedForgotten(c) ==
  /\ heap' = Requested(c)
  /\ accepted' = accepted \cup {Payload(c, tries + 1, next_addr[c])}
  /\ next_addr' = [next_addr EXCEPT ![c] = @ + 1]
  /\ UNCHANGED inflight

\* What tick() does when sendReq has taken the request.
Accepted(c) ==
  /\ heap' = Requested(c)
  /\ accepted' = accepted \cup {Payload(c, tries + 1, next_addr[c])}
  /\ next_addr' = [next_addr EXCEPT ![c] = @ + 1]
  /\ inflight' = IF c \in Cpus
                 THEN [inflight EXCEPT ![c] = @ \cup {next_addr[c]}]
                 ELSE inflight

\* CPUSim::tick or TrafficGenerator::tick, where the packet goes through.
SendDirect(c) ==
  /\ Issues(c)
  /\ Direct(output_vc[c], input_vc[c])
  /\ input_vc' = [input_vc EXCEPT ![c] = Append(@, Request(c))]
  /\ Accepted(c)
  /\ tries' = tries + 1
  /\ UNCHANGED <<completed, output_vc, responses>>

\* The packet is put into the OutputVC, and reported as sent.
SendBuffered(c) ==
  /\ Issues(c)
  /\ Buffered(output_vc[c], input_vc[c])
  /\ output_vc' = [output_vc EXCEPT ![c] = Append(@, Request(c))]
  /\ Accepted(c)
  /\ tries' = tries + 1
  /\ UNCHANGED <<completed, input_vc, responses>>

(***************************************************************************)
(* The packet is refused and goes back to the pool.  A CPU tries the same  *)
(* address again later, a generator skips it.                              *)
(***************************************************************************)
SendRefused(c) ==
  /\ Issues(c)
  /\ Refused(output_vc[c], input_vc[c])
  /\ heap' = Release(Requested(c), Request(c))
  /\ tries' = tries + 1
  /\ next_addr' = IF c \in Generators THEN [next_addr EXCEPT ![c] = @ + 1]
                  ELSE next_addr
  /\ UNCHANGED <<inflight, completed, links, responses, accepted>>

\* Faulty variant of Answered: the request is released, as the cache does on a
\* hit.
AnsweredReleased(h, pkt) ==
  Release(AcquireFilled(Deref(h, h.payload[pkt]), h.payload[pkt], pkt), pkt)

\* The pool after the response to pkt has been made: it shares the payload.
Answered(h, pkt) == AcquireFilled(Deref(h, h.payload[pkt]), h.payload[pkt], pkt)

\* Faulty variant of AnswerPort: every answer goes to one port.
AnswerPortFirst(c) == CHOOSE i \in Initiators : TRUE

\* The port that the memory answers on: the one the request came in by.
AnswerPort(c) == c

\* Faulty variant of MemoryHandles: the port does not pop what the memory took.
MemoryHandlesNoPop(c) ==
  /\ ~ heap.ub
  /\ input_vc[c] # <<>>
  /\ heap' = Answered(heap, Head(input_vc[c]))
  /\ responses' = responses \cup {[pkt |-> Acquired(heap), port |-> AnswerPort(c)]}
  /\ UNCHANGED <<tries, next_addr, inflight, completed, links, accepted>>

\* UpstreamPort::tick for the port of c, with MemorySim::handleUpstreamRequest.
MemoryHandles(c) ==
  /\ ~ heap.ub
  /\ input_vc[c] # <<>>
  /\ heap' = Answered(heap, Head(input_vc[c]))
  /\ responses' = responses \cup {[pkt |-> Acquired(heap), port |-> AnswerPort(c)]}
  /\ input_vc' = [input_vc EXCEPT ![c] = Tail(@)]
  /\ UNCHANGED <<tries, next_addr, inflight, completed, output_vc, accepted>>

\* sendResp, and recv of the port at the other side, count the bytes of a packet
\* that has a payload: they read its length.
Counted(h, p) == IF h.payload[p] = Null THEN h ELSE Deref(h, h.payload[p])

\* The request that the response r answers, and the payload that a CPU reads.
Original(r) == heap.original_req[r.pkt]
OriginalPayload(r) == heap.payload[Original(r)]

(***************************************************************************)
(* The pool after c has handled the response r: a CPU reads the address of *)
(* the original request, a generator that of the response.                 *)
(***************************************************************************)
Handled(c, r) ==
  LET h == Counted(heap, r.pkt)
      read == IF c \in Cpus THEN OriginalPayload(r) ELSE h.payload[r.pkt]
  IN  Release(Deref(h, read), r.pkt)

\* The lambda runs: sendResp, and handleDownstreamResponse of the initiator.
Deliver(r) ==
  LET c == r.port
  IN  /\ ~ heap.ub
      /\ heap' = Handled(c, r)
      /\ inflight' =
           IF c \in Cpus /\ OriginalPayload(r) \in heap.live
           THEN [inflight EXCEPT ![c] = @ \ {OriginalPayload(r).addr}]
           ELSE inflight
      /\ completed' = [completed EXCEPT ![c] = @ + 1]
      /\ responses' = responses \ {r}
      /\ UNCHANGED <<tries, next_addr, links, accepted>>

Respond == \E r \in responses : Deliver(r)

Next ==
  \/ \E c \in Initiators :
       SendDirect(c) \/ SendBuffered(c) \/ SendRefused(c) \/ MemoryHandles(c)
  \/ Respond

(***************************************************************************)
(* The event queue runs every lambda.  Nothing is assumed of the memory's  *)
(* ports: their tick() is up to the owner, and MemorySim::tick() is empty. *)
(***************************************************************************)
Fairness ==
  \A p \in Pkts, c \in Initiators :
    WF_vars([pkt |-> p, port |-> c] \in responses /\ Deliver([pkt |-> p, port |-> c]))

Spec == Init /\ [][Next]_vars /\ Fairness

-------------------------------------------------------------------------------
HeapType ==
  [packets : 0 .. MaxPackets, freelist : Seq(Pkts), payload_freelist : Seq(Payloads),
   live : SUBSET Payloads, payload : [Pkts -> Payloads \cup {Null}],
   original_req : [Pkts -> Pkts \cup {Null}], usage : Nat, ub : BOOLEAN]

\* Types, with the limit on the requests of a CPU and the sizes of the queues.
TypeOK ==
  /\ heap \in HeapType
  /\ tries \in 0 .. MaxTries
  /\ next_addr \in [Initiators -> 0 .. MaxTries]
  /\ inflight \in [Cpus -> SUBSET (0 .. MaxTries)]
  /\ \A c \in Cpus : Cardinality(inflight[c]) <= MaxInflight
  /\ completed \in [Initiators -> Nat]
  /\ output_vc \in [Initiators -> Seq(Pkts)]
  /\ input_vc \in [Initiators -> Seq(Pkts)]
  /\ \A c \in Initiators : Len(output_vc[c]) <= OutSize /\ Len(input_vc[c]) <= InSize
  /\ responses \subseteq [pkt : Pkts, port : Initiators]
  /\ accepted \subseteq Payloads

Queued(c) == ToSet(output_vc[c]) \cup ToSet(input_vc[c])
Responding(c) == {r.pkt : r \in {s \in responses : s.port = c}}
Asked(c) == Queued(c) \cup {heap.original_req[p] : p \in Responding(c)}

\* The packets that are on their way, with the requests being answered.
InUse == UNION {Asked(c) \cup Responding(c) : c \in Initiators}

(***************************************************************************)
(* No deleted payload and no null pointer is ever used: the payload that a *)
(* request and its response share lives until both ports and the initiator *)
(* have read it, although it is released with the response and deleted by  *)
(* any acquire() that follows.                                             *)
(***************************************************************************)
NoUndefinedBehaviour == ~ heap.ub

(***************************************************************************)
(* What a CPU believes to be in flight is exactly what is on its way: each *)
(* such request has one packet in its queues or one response to come back, *)
(* by its own port, and those are no one else's.                           *)
(***************************************************************************)
InflightIsOutstanding ==
  ~ heap.ub =>
  \A c \in Cpus :
    /\ inflight[c] = {heap.payload[p].addr : p \in Asked(c)}
    /\ Cardinality(inflight[c])
         = Len(output_vc[c]) + Len(input_vc[c]) + Cardinality(Responding(c))

\* A response is sent to the initiator whose payload it carries.
ResponseToRequester ==
  \A r \in responses : heap.payload[r.pkt] # Null /\ heap.payload[r.pkt].by = r.port

(***************************************************************************)
(* A packet is in one place: in one queue and once, or the response or the *)
(* original request of one lambda.                                         *)
(***************************************************************************)
PlacesApart ==
  /\ \A c \in Initiators :
       /\ IsInjective(output_vc[c]) /\ IsInjective(input_vc[c])
       /\ ToSet(output_vc[c]) \cap ToSet(input_vc[c]) = {}
  /\ \A c, e \in Initiators : c # e => Queued(c) \cap Queued(e) = {}
  /\ \A r \in responses, c \in Initiators :
       r.pkt \notin Queued(c) /\ Original(r) \notin Queued(c)
  /\ \A r, s \in responses :
       /\ r.pkt # Original(s)
       /\ r # s => r.pkt # s.pkt /\ Original(r) # Original(s)

(***************************************************************************)
(* No packet is used twice at a time: one that is queued, answered or a    *)
(* response on its way is in one such place only, and is not in the        *)
(* freelist, where the next acquire() would hand it out again.             *)
(***************************************************************************)
InUseOnce ==
  /\ PlacesApart
  /\ InUse \cap ToSet(heap.freelist) = {}
  /\ IsInjective(heap.freelist)

(***************************************************************************)
(* "Memory leaks: creation and destruction of Packets have to be paired"   *)
(* (AI_DEV_GUIDELINES.md 7.1), the request being released by the module    *)
(* upstream (cache_sim.hh, in handleDownstreamResponse): the packets that  *)
(* have been acquired and not released are those in use.                   *)
(***************************************************************************)
PacketsPaired == heap.usage = Cardinality(InUse)

(***************************************************************************)
(* If the owner of the memory keeps ticking its ports, every request that  *)
(* has reached the memory is answered: the first n of an initiator, for    *)
(* every n, though initiators share the pool and answers go back in any    *)
(* order.                                                                  *)
(***************************************************************************)
Answering ==
  (\A c \in Initiators : WF_vars(MemoryHandles(c))) =>
    \A c \in Initiators, n \in 0 .. MaxTries :
      (Cardinality({d \in accepted : d.by = c}) - Len(output_vc[c]) >= n)
        ~> (completed[c] >= n)
===============================================================================
