-------------------------------- MODULE NocMesh --------------------------------
(***************************************************************************)
(* The SystemC network on chip: a mesh of ScTlmRouter modules that pass    *)
(* flits over a request/acknowledge handshake, with XY routing.            *)
(*                                                                         *)
(* All processes run at the positive edge of one clock, read the signals   *)
(* as the last cycle left them and write them for the next one: a cycle is *)
(* one step.  The two processes of a router share its output buffers, and  *)
(* SystemC does not say which of them runs first.                          *)
(*                                                                         *)
(* A node is named by its address, 4 * y + x, as compute_route reads it.   *)
(* Links are named by their sender: <<n, d>> is output d of router n, and  *)
(* <<n, Terminal>> leads from the terminal of n to the router's local      *)
(* input.  Terminals are only declared by the code; they follow the same   *)
(* handshake here.                                                         *)
(***************************************************************************)
EXTENDS NocFlits

CONSTANTS
  Columns, Rows,  \* the mesh
  Packets,        \* bound: the packets the terminals send, each once
  Traffic         \* of each packet: the triples <<source, destination, length>>
                  \* it may have

ASSUME MeshSize ==
  /\ Columns \in 1 .. 4  \* compute_route divides the address by 4
  /\ Rows \in 1 .. 10    \* and reads one digit of the module's name

X(a) == a % 4
Y(a) == a \div 4
Node == {4 * y + x : x \in 0 .. Columns - 1, y \in 0 .. Rows - 1}

ASSUME TrafficInMesh == Traffic \in [Packets -> SUBSET (Node \X Node \X Nat)]

N == 0
E == 1
S == 2
W == 3
Local == 4
Terminal == 5

Links == Node \X (N .. Terminal)

VARIABLES
  link,      \* of each link: buffer, the queue at its sender (output_buffer, or
             \* the terminal's), and the signals req, flit (req_out and flit_out
             \* of the sender) and ack (ack_in of the receiver)
  sent,      \* history: the flits each terminal was given, in order
  received   \* history: the flits each terminal has taken, in order

vars == <<link, sent, received>>

\* A flit of packet p; its slice says which bytes of the packet it carries.
Flits == [packet_id : Packets, src : Node, dest : Node, slice : Slices]
NoFlit == [packet_id |-> "none"]

FlitsOf(p, src, dest, length) ==
  [i \in 1 .. Len(PacketToFlits(length)) |->
     [packet_id |-> p, src |-> src, dest |-> dest,
      slice |-> PacketToFlits(length)[i]]]

\* Faulty variants of ComputeRoute: it ends a row early; Y goes the wrong way.
ComputeRouteShort(n, f) ==
  CASE X(n) < X(f.dest) -> E
    [] X(n) > X(f.dest) -> W
    [] OTHER -> Local
ComputeRouteYX(n, f) ==
  CASE X(n) < X(f.dest) -> E
    [] X(n) > X(f.dest) -> W
    [] X(n) = X(f.dest) /\ Y(n) > Y(f.dest) -> S
    [] X(n) = X(f.dest) /\ Y(n) < Y(f.dest) -> N
    [] OTHER -> Local

(***************************************************************************)
(* compute_route(flit) at router n: first along the row, then along the    *)
(* column.                                                                 *)
(***************************************************************************)
ComputeRoute(n, f) ==
  CASE X(n) < X(f.dest) -> E
    [] X(n) > X(f.dest) -> W
    [] X(n) = X(f.dest) /\ Y(n) < Y(f.dest) -> S
    [] X(n) = X(f.dest) /\ Y(n) > Y(f.dest) -> N
    [] OTHER -> Local

\* The link of which router n is the receiver at its input i, or none.
Into(n, i) ==
  CASE i = N /\ Y(n) > 0 -> {<<n - 4, S>>}
    [] i = S /\ Y(n) < Rows - 1 -> {<<n + 4, N>>}
    [] i = E /\ X(n) < Columns - 1 -> {<<n + 1, W>>}
    [] i = W /\ X(n) > 0 -> {<<n - 1, E>>}
    [] i = Local -> {<<n, Terminal>>}
    [] OTHER -> {}

\* An output at the rim of the mesh: nothing is connected to it.
Rim == {l \in Links :
          \/ l[2] = N /\ Y(l[1]) = 0
          \/ l[2] = S /\ Y(l[1]) = Rows - 1
          \/ l[2] = E /\ X(l[1]) = Columns - 1
          \/ l[2] = W /\ X(l[1]) = 0}

\* Faulty variant of Taken: the receiver does not look at its own answer.
TakenAgain(l) == l \notin Rim /\ (link[l].req \/ link[l].ack)

\* The receiver of link l takes its flit in this cycle.
Taken(l) == l \notin Rim /\ link[l].req /\ ~ link[l].ack

(***************************************************************************)
(* routing_process of router n, for one output d: the flits it pushes,     *)
(* input by input.                                                         *)
(***************************************************************************)
Arrivals(n, d) ==
  LET at(i) == IF \E l \in Into(n, i) :
                    Taken(l) /\ ComputeRoute(n, link[l].flit) = d
               THEN <<link[CHOOSE l \in Into(n, i) : TRUE].flit>>
               ELSE <<>>
  IN  IF d = Terminal THEN <<>>
      ELSE at(N) \o at(E) \o at(S) \o at(W) \o at(Local)

\* Faulty variants of the next two: the flit is popped with its request, not
\* with the answer; the request goes up again in the cycle that pops the flit.
PopsUnanswered(l, buffer) == buffer # <<>> /\ link[l].req
OffersPopped(l, buffer) == buffer # <<>> /\ ~ link[l].req

(***************************************************************************)
(* switching_process for one output, where it finds the given buffer: it   *)
(* raises the request for the front flit, or it finds the answer to an     *)
(* earlier request, pops the flit and leaves the request down.             *)
(***************************************************************************)
Offers(l, buffer) == buffer # <<>> /\ ~ link[l].req /\ ~ link[l].ack
Pops(l, buffer) == buffer # <<>> /\ ~ link[l].req /\ link[l].ack

Init ==
  /\ link = [l \in Links |-> [buffer |-> <<>>, req |-> FALSE,
                              flit |-> NoFlit, ack |-> FALSE]]
  /\ sent = [n \in Node |-> <<>>]
  /\ received = [n \in Node |-> <<>>]

\* The terminal of src is given packet p for dest and cuts it into flits.
Generate(p, src, dest, length) ==
  /\ \A n \in Node : \A i \in 1 .. Len(sent[n]) : sent[n][i].packet_id # p
  /\ LET flits == FlitsOf(p, src, dest, length)
     IN  /\ sent' = [sent EXCEPT ![src] = @ \o flits]
         /\ link' = [link EXCEPT ![<<src, Terminal>>].buffer = @ \o flits]
  /\ UNCHANGED received

(***************************************************************************)
(* A link after a clock edge.  Where "early", switching_process of the     *)
(* sender runs before its routing_process, and does not see the flits that *)
(* arrive now.                                                             *)
(***************************************************************************)
Switched(l, early) ==
  LET buffer == link[l].buffer \o Arrivals(l[1], l[2])
      seen == IF early THEN link[l].buffer ELSE buffer
  IN  [buffer |-> IF Pops(l, seen) THEN Tail(buffer) ELSE buffer,
       req |-> Offers(l, seen),
       flit |-> IF seen # <<>> /\ ~ link[l].req THEN Head(seen) ELSE link[l].flit,
       ack |-> Taken(l)]

\* One clock edge; "early" are the routers whose switching_process runs first.
Clock(early) ==
  /\ link' = [l \in Links |-> Switched(l, l[1] \in early)]
  /\ received' = [n \in Node |->
                    IF Taken(<<n, Local>>)
                    THEN Append(received[n], link[<<n, Local>>].flit)
                    ELSE received[n]]
  /\ UNCHANGED sent

\* The order matters where a flit arrives for an empty buffer.
Races == {n \in Node : \E d \in N .. Local :
                         link[<<n, d>>].buffer = <<>> /\ Arrivals(n, d) # <<>>}

Tick == \E early \in SUBSET Races : Clock(early)

Next ==
  \/ \E p \in Packets : \E t \in Traffic[p] : Generate(p, t[1], t[2], t[3])
  \/ Tick

(***************************************************************************)
(* The clock runs; terminals need not send.                                *)
(***************************************************************************)
Spec == Init /\ [][Next]_vars /\ WF_vars(Tick)

-------------------------------------------------------------------------------
\* Buffers hold flits, signals have their types.
TypeOK ==
  /\ link \in [Links -> [buffer : Seq(Flits), req : BOOLEAN,
                         flit : Flits \cup {NoFlit}, ack : BOOLEAN]]
  /\ sent \in [Node -> Seq(Flits)]
  /\ received \in [Node -> Seq(Flits)]

(***************************************************************************)
(* A flit waits in the output that its route takes from there, never at    *)
(* one that leads out of the mesh, where it would stay for ever.           *)
(***************************************************************************)
OnRoute ==
  \A l \in Links : \A i \in 1 .. Len(link[l].buffer) :
    l[2] # Terminal =>
      ComputeRoute(l[1], link[l].buffer[i]) = l[2] /\ l \notin Rim

(***************************************************************************)
(* The handshake: request and answer are never up together, and while one  *)
(* of them is, the flit on the wires is the one at the front of the        *)
(* sender's buffer.  So what is popped is what the receiver has taken.     *)
(***************************************************************************)
Handshake ==
  \A l \in Links :
    /\ ~ (link[l].req /\ link[l].ack)
    /\ link[l].req \/ link[l].ack =>
         link[l].buffer # <<>> /\ link[l].flit = Head(link[l].buffer)

-------------------------------------------------------------------------------
\* The flits that wait at a link.  One that has been answered but not popped is
\* already in the next place.
Waiting(l) == IF link[l].ack THEN Tail(link[l].buffer) ELSE link[l].buffer

\* No flit is lost.
NoFlitLost ==
  \A n \in Node : \A k \in 1 .. Len(sent[n]) :
    LET f == sent[n][k]
    IN  \/ \E l \in Links : Contains(Waiting(l), f)
        \/ Contains(received[f.dest], f)

\* Where flits are: at the links, and at home when their terminal has them.
Home == 6
Places == Node \X (N .. Home)
Held(z) == IF z[2] = Home THEN received[z[1]] ELSE Waiting(z)

(***************************************************************************)
(* No flit is lost or duplicated: those sent differ, each of them is in    *)
(* one place and there once, and nothing else is anywhere.                 *)
(***************************************************************************)
FlitsExactlyOnce ==
  /\ NoFlitLost
  /\ \A n \in Node : IsInjective(sent[n])
  /\ \A y, z \in Places : \A i \in 1 .. Len(Held(y)), j \in 1 .. Len(Held(z)) :
       Held(y)[i] = Held(z)[j] => y = z /\ i = j
  /\ \A z \in Places : \A i \in 1 .. Len(Held(z)) :
       Contains(sent[Held(z)[i].src], Held(z)[i])

(***************************************************************************)
(* A terminal gets only what is for it, and nothing twice.  When a flit    *)
(* has arrived, all that were sent to it before from the same terminal     *)
(* have arrived before it.                                                 *)
(***************************************************************************)
InOrder ==
  \A n \in Node :
    /\ \A i \in 1 .. Len(received[n]) : received[n][i].dest = n
    /\ IsInjective(received[n])
    /\ \A src \in Node : \A l \in 1 .. Len(sent[src]) : \A k \in 1 .. l - 1 :
         sent[src][k].dest = n =>
           \A j \in 1 .. Len(received[n]) :
             received[n][j] = sent[src][l] =>
               \E i \in 1 .. j - 1 : received[n][i] = sent[src][k]

EndsPacket(f) == f.slice.type \in {"TAIL", "HEAD_TAIL"}

(***************************************************************************)
(* Every packet that carries data ends with one tail, or with its only     *)
(* flit.  When that arrives, all its flits have arrived; and when any flit *)
(* arrives, the one with the bytes before its own has arrived before it.   *)
(***************************************************************************)
TailCompletesPacket ==
  /\ \A n \in Node : \A k \in 1 .. Len(sent[n]) :
       sent[n][k].slice.length > 0 =>
         \E l \in k .. Len(sent[n]) :
           \A j \in 1 .. Len(sent[n]) :
             sent[n][j].packet_id = sent[n][k].packet_id /\ EndsPacket(sent[n][j])
               <=> j = l
  /\ \A n \in Node : \A m \in 1 .. Len(received[n]) :
       LET f == received[n][m]
       IN  /\ EndsPacket(f) =>
                \A k \in 1 .. Len(sent[f.src]) :
                  sent[f.src][k].packet_id = f.packet_id =>
                    \E i \in 1 .. m : received[n][i] = sent[f.src][k]
           /\ f.slice.offset > 0 =>
                \E i \in 1 .. m - 1 :
                  LET g == received[n][i]
                  IN  /\ g.packet_id = f.packet_id
                      /\ g.slice.offset + g.slice.length = f.slice.offset

(***************************************************************************)
(* packetToFlits(), the loop of TerminalNode and the constructor of a      *)
(* single flit cut every packet that carries data at the same bytes, and   *)
(* that constructor makes the packet's first flit, with its type.  (Those  *)
(* of TerminalNode have none.)                                             *)
(***************************************************************************)
SplittersAgree ==
  \A n \in Node : \A k \in 1 .. Len(sent[n]) :
    EndsPacket(sent[n][k]) =>
      LET f == sent[n][k]
          length == f.slice.offset + f.slice.length
          parts == TerminalFlits(length)
          first == k - Len(parts) + 1
      IN  /\ first \in 1 .. k
          /\ \A j \in 1 .. Len(sent[n]) :
               sent[n][j].packet_id = f.packet_id <=> j \in first .. k
          /\ \A j \in first .. k : PartOf(sent[n][j].slice) = parts[j - first + 1]
          /\ sent[n][first].slice = FlitOfPacket(length)

AllDelivered ==
  \A n \in Node : \A k \in 1 .. Len(sent[n]) :
    Contains(received[sent[n][k].dest], sent[n][k])

(***************************************************************************)
(* Every flit sent is delivered as long as the clock runs: a request is    *)
(* always answered, and what waits in a buffer moves on.                   *)
(***************************************************************************)
Delivery == []<>AllDelivered
===============================================================================
