-------------------------------- MODULE Fabric --------------------------------
(***************************************************************************)
(* Crossbar, Arbiter and Router objects between modules that make requests *)
(* and modules that answer them, on any topology of links.                 *)
(*                                                                         *)
(* A wire is a PortPair, with the OutputVC of its downstream port and the  *)
(* InputVC of its upstream port.  As in CpuMemory, an OutputVC that holds  *)
(* a packet does not drain.  A module that answers takes its requests one  *)
(* by one, or it refuses them all; the lambda that sends the response runs *)
(* at any later step.                                                      *)
(***************************************************************************)
EXTENDS Integers, Sequences, FiniteSets, SequencesExt, FiniteSetsExt

CONSTANTS
  Sources,    \* the modules that make requests
  Crossbars, Arbiters, Routers,
  Targets,    \* the modules that answer
  Wires,      \* the links: a set of [from, out, to, in], out and in port ids
  OutSize, InSize,  \* capacities of every OutputVC and of every InputVC
  Programs    \* the choices of what each source sends: [dma, low] addresses

Queueing == Crossbars \cup Arbiters
Devices == Queueing \cup Routers

ASSUME Kinds ==
  /\ Sources \cap (Devices \cup Targets) = {}
  /\ Devices \cap Targets = {}
  /\ Crossbars \cap Arbiters = {}
  /\ Queueing \cap Routers = {}
ASSUME Wiring ==
  /\ IsFiniteSet(Wires)
  /\ Wires \subseteq [from : Sources \cup Devices, out : Nat,
                      to : Devices \cup Targets, in : Nat]
  /\ \A v, w \in Wires : v # w => <<v.from, v.out>> # <<w.from, w.out>>
                                  /\ <<v.to, v.in>> # <<w.to, w.in>>

\* A port has the number of ports that the PortManager had before it.
ASSUME Numbering ==
  /\ \A s \in Sources : \E w \in Wires : <<w.from, w.out>> = <<s, 0>>
  /\ \A d \in Devices : LET ws == {w \in Wires : w.from = d}
                       IN  {w.out : w \in ws} = 0 .. Cardinality(ws) - 1

\* The first size of the OutputVCs is 4 for all ports that ModuleFactory makes.
ASSUME Sizes == OutSize \in Nat \ {0} /\ InSize \in Nat
ASSUME Addresses ==
  \A g \in Programs : g \in [Sources -> Seq([dma : BOOLEAN, low : Nat])]

VARIABLES
  program,   \* what each source sends, one of Programs
  refusing,  \* the targets whose handler always returns false
  sent,      \* of each source: how many of its packets sendReq took
  out_vc,    \* of each wire: its OutputVC
  in_vc,     \* of each wire: its InputVC
  req_queue, \* of each crossbar and arbiter: its queue
  handled,   \* of each target: the packets its handler took
  answers,   \* the responses under way: the request, and the wire to go back
  returned,  \* history: the responses that came back, with the source
  released,  \* history: the requests a device gave to the pool
  dropped,   \* history: the responses a device gave to the pool
  lost       \* history: the requests a device, by, neither keeps nor gives away

links == <<out_vc, in_vc>>
vars == <<program, refusing, sent, links, req_queue, handled, answers, returned,
          released, dropped, lost>>

\* The n-th packet of source s.
Packet(s, n) == [src |-> s, num |-> n]
Address(p) == program[p.src][p.num]

Init ==
  /\ program \in Programs
  /\ refusing \in SUBSET Targets
  /\ sent = [s \in Sources |-> 0]
  /\ out_vc = [w \in Wires |-> <<>>]
  /\ in_vc = [w \in Wires |-> <<>>]
  /\ req_queue = [d \in Queueing |-> <<>>]
  /\ handled = [t \in Targets |-> <<>>]
  /\ answers = {}
  /\ returned = {}
  /\ released = {}
  /\ dropped = {}
  /\ lost = {}

\* The ports of a module, and the wire at its downstream port i.
Downstream(d) == {w \in Wires : w.from = d}
Upstream(d) == {w \in Wires : w.to = d}
OutWire == [port \in {<<w.from, w.out>> : w \in Wires} |->
              CHOOSE w \in Wires : <<w.from, w.out>> = port]
WireAt(d, i) == OutWire[<<d, i>>]

\* Faulty variant of Direct: the packets that wait in the OutputVC are overtaken.
DirectOvertakes(w) == Len(in_vc[w]) < InSize

\* sendReq on wire w: straight through, into the OutputVC, or refused.
Direct(w) == out_vc[w] = <<>> /\ Len(in_vc[w]) < InSize
Taken(w) == Direct(w) \/ Len(out_vc[w]) < OutSize

\* The InputVCs, in, and the OutputVCs, after sendReq(p) has succeeded on w.
InAfter(in, w, p) == IF Direct(w) THEN [in EXCEPT ![w] = Append(@, p)] ELSE in
OutAfter(w, p) == IF Direct(w) THEN out_vc ELSE [out_vc EXCEPT ![w] = Append(@, p)]

\* A source sends its next packet.
Issue(s) ==
  LET p == Packet(s, sent[s] + 1)
  IN  /\ sent[s] < Len(program[s])
      /\ Taken(WireAt(s, 0))
      /\ sent' = [sent EXCEPT ![s] = @ + 1]
      /\ in_vc' = InAfter(in_vc, WireAt(s, 0), p)
      /\ out_vc' = OutAfter(WireAt(s, 0), p)
      /\ UNCHANGED <<program, refusing, req_queue, handled, answers, returned,
                     released, dropped, lost>>

\* UpstreamPort::tick at the end of wire w: the packet leaves the InputVC.
Popped(w) == [in_vc EXCEPT ![w] = Tail(@)]

\* Crossbar::handleUpstreamRequest and Arbiter::handleUpstreamRequest.
Enqueue(w) ==
  /\ w.to \in Queueing
  /\ in_vc[w] # <<>>
  /\ req_queue' = [req_queue EXCEPT ![w.to] = Append(@, Head(in_vc[w]))]
  /\ in_vc' = Popped(w)
  /\ UNCHANGED <<program, refusing, sent, out_vc, handled, answers, returned,
                 released, dropped, lost>>

\* Router::routeByAddress: the third port, MMIO, is never chosen.
RouteByAddress(p) == IF Address(p).dma THEN 1 ELSE 0

\* Faulty variant of Lost: a packet that the output has taken counts as lost.
LostAlways(d, w, p) == lost \cup {[pkt |-> p, by |-> d]}

\* The losses when router d has called sendReq(p) on w and not looked at its result.
Lost(d, w, p) == IF Taken(w) THEN lost ELSE lost \cup {[pkt |-> p, by |-> d]}

\* Router::handleUpstreamRequest, with a port for the packet or without.
RoutePacket(w) ==
  LET p == Head(in_vc[w])
      next == WireAt(w.to, RouteByAddress(p))
  IN  /\ w.to \in Routers
      /\ in_vc[w] # <<>>
      /\ RouteByAddress(p) < Cardinality(Downstream(w.to))
      /\ in_vc' = IF Taken(next) THEN InAfter(Popped(w), next, p) ELSE Popped(w)
      /\ out_vc' = IF Taken(next) THEN OutAfter(next, p) ELSE out_vc
      /\ lost' = Lost(w.to, next, p)
      /\ UNCHANGED <<program, refusing, sent, req_queue, handled, answers, returned,
                     released, dropped>>

RouteNowhere(w) ==
  LET p == Head(in_vc[w])
  IN  /\ w.to \in Routers
      /\ in_vc[w] # <<>>
      /\ RouteByAddress(p) >= Cardinality(Downstream(w.to))
      /\ in_vc' = Popped(w)
      /\ released' = released \cup {p}
      /\ UNCHANGED <<program, refusing, sent, out_vc, req_queue, handled, answers,
                     returned, dropped, lost>>

\* The handler of a target takes the packet; a response will come.
Handle(w) ==
  /\ w.to \in Targets \ refusing
  /\ in_vc[w] # <<>>
  /\ handled' = [handled EXCEPT ![w.to] = Append(@, Head(in_vc[w]))]
  /\ answers' = answers \cup {[pkt |-> Head(in_vc[w]), wire |-> w]}
  /\ in_vc' = Popped(w)
  /\ UNCHANGED <<program, refusing, sent, out_vc, req_queue, returned, released,
                 dropped, lost>>

\* Crossbar::route, for a crossbar with ports; an arbiter has the one output.
Output(d, p) ==
  IF d \in Crossbars THEN WireAt(d, Address(p).low % Cardinality(Downstream(d)))
  ELSE WireAt(d, 0)

\* Faulty variant of Retried: the refused packet stays at the front.
RetriedAtFront(queue) == queue

\* The queue after its front has been refused.
Retried(queue) == Append(Tail(queue), Head(queue))

\* Crossbar::tick and Arbiter::tick, where the output takes the packet.
Pass(d) ==
  LET p == Head(req_queue[d])
      w == Output(d, p)
  IN  /\ req_queue[d] # <<>>
      /\ Downstream(d) # {}
      /\ Taken(w)
      /\ req_queue' = [req_queue EXCEPT ![d] = Tail(@)]
      /\ in_vc' = InAfter(in_vc, w, p)
      /\ out_vc' = OutAfter(w, p)
      /\ UNCHANGED <<program, refusing, sent, handled, answers, returned, released,
                     dropped, lost>>

\* The output refuses the packet.
Retry(d) ==
  /\ req_queue[d] # <<>>
  /\ Downstream(d) # {}
  /\ ~ Taken(Output(d, Head(req_queue[d])))
  /\ req_queue' = [req_queue EXCEPT ![d] = Retried(@)]
  /\ UNCHANGED <<program, refusing, sent, links, handled, answers, returned, released,
                 dropped, lost>>

\* Without any output a crossbar releases the packet; an arbiter loses it.
NoOutput(d) ==
  LET p == Head(req_queue[d])
  IN  /\ req_queue[d] # <<>>
      /\ Downstream(d) = {}
      /\ req_queue' = [req_queue EXCEPT ![d] = Tail(@)]
      /\ released' = IF d \in Crossbars THEN released \cup {p} ELSE released
      /\ lost' = IF d \in Arbiters THEN lost \cup {[pkt |-> p, by |-> d]} ELSE lost
      /\ UNCHANGED <<program, refusing, sent, links, handled, answers, returned,
                     dropped>>

DeviceTick(d) == Pass(d) \/ Retry(d) \/ NoOutput(d)

(***************************************************************************)
(* handleDownstreamResponse for the response r, which has come back over   *)
(* its wire to downstream port r.wire.out.                                 *)
(***************************************************************************)
AnswerDropped(r) ==
  /\ \/ r.wire.from \in Queueing
     \/ r.wire.from \in Routers /\ r.wire.out >= Cardinality(Upstream(r.wire.from))
  /\ answers' = answers \ {r}
  /\ dropped' = dropped \cup {r.pkt}
  /\ UNCHANGED <<program, refusing, sent, links, req_queue, handled, returned,
                 released, lost>>

\* A router goes on to its upstream port of the same number.
AnswerForwarded(r) ==
  \E w \in Upstream(r.wire.from) :
    /\ r.wire.from \in Routers
    /\ w.in = r.wire.out
    /\ answers' = (answers \ {r}) \cup {[pkt |-> r.pkt, wire |-> w]}
    /\ UNCHANGED <<program, refusing, sent, links, req_queue, handled, returned,
                   released, dropped, lost>>

AnswerReturned(r) ==
  /\ r.wire.from \in Sources
  /\ answers' = answers \ {r}
  /\ returned' = returned \cup {[pkt |-> r.pkt, to |-> r.wire.from]}
  /\ UNCHANGED <<program, refusing, sent, links, req_queue, handled, released,
                 dropped, lost>>

Next ==
  \/ \E s \in Sources : Issue(s)
  \/ \E w \in Wires : Enqueue(w) \/ RoutePacket(w) \/ RouteNowhere(w) \/ Handle(w)
  \/ \E d \in Queueing : DeviceTick(d)
  \/ \E r \in answers : AnswerDropped(r) \/ AnswerForwarded(r) \/ AnswerReturned(r)

\* Every device is ticked in every cycle.
Fairness == \A d \in Queueing : WF_vars(DeviceTick(d))

Spec == Init /\ [][Next]_vars /\ Fairness

-------------------------------------------------------------------------------
MaxSent == Max({Len(g[s]) : s \in Sources, g \in Programs})
AllPackets == {Packet(s, n) : s \in Sources, n \in 1 .. MaxSent}

\* The places where requests are: the positions in all buffers and queues, and
\* those that the pool got back or that are lost.
Spots == ({"out", "in"} \X Wires) \cup ({"queue"} \X Queueing) \cup ({"target"} \X Targets)
Held(x) ==
  CASE x[1] = "out" -> out_vc[x[2]]
    [] x[1] = "in" -> in_vc[x[2]]
    [] x[1] = "queue" -> req_queue[x[2]]
    [] x[1] = "target" -> handled[x[2]]
LostPackets == {l.pkt : l \in lost}
Places(p) ==
  (UNION {{x} \X {i \in DOMAIN Held(x) : Held(x)[i] = p} : x \in Spots})
  \cup {<<<<"released">>, 0>> : q \in released \cap {p}}
  \cup {<<<<"lost">>, 0>> : q \in LostPackets \cap {p}}

\* The places where the response to a request is, or where it has ended.
ResponsePlaces(p) ==
  {<<"under way", r.wire>> : r \in {x \in answers : x.pkt = p}}
  \cup {<<"returned", r.to>> : r \in {x \in returned : x.pkt = p}}
  \cup {<<"dropped">> : q \in dropped \cap {p}}

\* Why a device may lose a request: an arbiter has no output at all; the output
\* that a router chose for this request takes nothing.
MayLose(l) ==
  \/ l.by \in Arbiters /\ Downstream(l.by) = {}
  \/ /\ l.by \in Routers
     /\ RouteByAddress(l.pkt) < Cardinality(Downstream(l.by))
     /\ ~ Taken(WireAt(l.by, RouteByAddress(l.pkt)))

(***************************************************************************)
(* Every request that was sent is in one place: a buffer, a queue, a       *)
(* target, the pool, or it is lost.  A request is lost only by an arbiter  *)
(* that has no output, or by a router whose output for this request        *)
(* refused it and, since an OutputVC does not drain, would refuse it       *)
(* still.  And each request that a target handled has one response, which  *)
(* is under way, has come to a source, or was dropped.                     *)
(***************************************************************************)
PacketsAccounted ==
  /\ \A s \in Sources : \A n \in 1 .. Len(program[s]) :
       LET p == Packet(s, n)
       IN  /\ Cardinality(Places(p)) = IF n <= sent[s] THEN 1 ELSE 0
           /\ Cardinality(ResponsePlaces(p))
                = Cardinality({t \in Targets : p \in ToSet(handled[t])})
  /\ \A l \in lost : MayLose(l)

(***************************************************************************)
(* A target handles the packets that one source sent to one address in the *)
(* order they were sent, although a crossbar puts what an output refuses   *)
(* behind younger packets for that output.                                 *)
(***************************************************************************)
InOrder ==
  \A t \in Targets : \A i, j \in 1 .. Len(handled[t]) :
    LET p == handled[t][i]
        q == handled[t][j]
    IN  i < j /\ p.src = q.src /\ Address(p) = Address(q) => p.num < q.num

(***************************************************************************)
(* An output that refuses packets does not hold up those for the others: a *)
(* packet leaves the queue of its crossbar, unless its own output refuses  *)
(* it.                                                                     *)
(***************************************************************************)
NoHeadOfLineBlocking ==
  \A d \in Crossbars, p \in AllPackets :
    (p \in ToSet(req_queue[d]))
      ~> (p \notin ToSet(req_queue[d]) \/ (Downstream(d) # {} /\ ~ Taken(Output(d, p))))
===============================================================================
