-------------------------------- MODULE VCLink --------------------------------
(***************************************************************************)
(* The request path of the links between modules: DownstreamPort (a        *)
(* MasterPort with one OutputVC per virtual channel) and UpstreamPort (a   *)
(* SlavePort with one InputVC per virtual channel), bound to each other by *)
(* PortPairs.                                                              *)
(*                                                                         *)
(* There is one UpstreamPort, and one DownstreamPort per member of         *)
(* Masters: several masters may be bound to the slave, and each keeps its  *)
(* pair.  The statistics of the ports, and the responses, are in module    *)
(* VCLinkStats.                                                            *)
(*                                                                         *)
(* The owners of the ports call sendReq(), sendResp() and the tick() of    *)
(* their ports whenever they like: nothing in the ports calls them.        *)
(***************************************************************************)
EXTENDS Integers, Sequences, FiniteSets

CONSTANTS
  Masters,    \* the DownstreamPorts
  OutSizes,   \* capacity of each OutputVC, by VC id (a master's out_sizes)
  InSizes,    \* capacity of each InputVC, by VC id (the slave's in_sizes)
  VcIds,      \* the values of Packet::vc_id that owners use
  MaxPackets  \* bound: packets accepted per master and VC

OutVCs == DOMAIN OutSizes
InVCs == DOMAIN InSizes

ASSUME VirtualChannels ==
  /\ OutVCs \subseteq Nat /\ OutSizes \in [OutVCs -> Nat]
  /\ InVCs \subseteq Nat /\ InSizes \in [InVCs -> Nat]
  /\ VcIds \subseteq Int
ASSUME MaxPacketsNat == MaxPackets \in Nat

VARIABLES
  bound,       \* the masters whose pair is set
  outq,        \* OutputVC::buffer, by master and VC
  inq,         \* InputVC::buffer, by VC
  accepted,    \* history: requests for which sendReq() returned true
  entered,     \* history: of these, how many the slave has taken in
  handled      \* history: of these, the numbers the slave's owner has handled

vars == <<bound, outq, inq, accepted, entered, handled>>

\* What one master sends on one VC: packets numbered as they are accepted.
Streams == Masters \X OutVCs

Packet(m, v, n) == [src |-> m, vc |-> v, num |-> n]

Packets == [src : Masters, vc : OutVCs, num : Nat]

Init ==
  /\ bound = {}
  /\ outq = [s \in Streams |-> <<>>]
  /\ inq = [v \in InVCs |-> <<>>]
  /\ accepted = [s \in Streams |-> 0]
  /\ entered = [s \in Streams |-> 0]
  /\ handled = [s \in Streams |-> <<>>]

\* new PortPair(master m, the slave): the master's pair is set.
Bind(m) ==
  /\ bound' = bound \cup {m}
  /\ UNCHANGED <<outq, inq, accepted, entered, handled>>

\* Faulty variant of InputRoom: one packet too many.
InputRoomOffByOne(v) == v \in InVCs /\ Len(inq[v]) <= InSizes[v]

\* InputVC::enqueue and OutputVC::enqueue succeed.
InputRoom(v) == v \in InVCs /\ Len(inq[v]) < InSizes[v]
OutputRoom(m, v) == Len(outq[<<m, v>>]) < OutSizes[v]

(***************************************************************************)
(* MasterPort::sendReq returns true: the master has a pair, and recvReq()  *)
(* at its other side finds the packet's VC and room in it.                 *)
(***************************************************************************)
GoesThrough(m, v) == m \in bound /\ InputRoom(v)

\* Faulty variant of SendDirect: packets waiting in the OutputVC are overtaken.
SendDirectOvertakes(m, v) ==
  /\ v \in OutVCs
  /\ accepted[<<m, v>>] < MaxPackets
  /\ GoesThrough(m, v)
  /\ inq' = [inq EXCEPT ![v] = Append(@, Packet(m, v, accepted[<<m, v>>] + 1))]
  /\ accepted' = [accepted EXCEPT ![<<m, v>>] = @ + 1]
  /\ entered' = [entered EXCEPT ![<<m, v>>] = @ + 1]
  /\ UNCHANGED <<bound, outq, handled>>

(***************************************************************************)
(* DownstreamPort::sendReq sends directly: nothing of this VC waits, and   *)
(* the slave takes the packet.                                             *)
(***************************************************************************)
SendDirect(m, v) ==
  /\ v \in OutVCs
  /\ accepted[<<m, v>>] < MaxPackets
  /\ outq[<<m, v>>] = <<>>
  /\ GoesThrough(m, v)
  /\ inq' = [inq EXCEPT ![v] = Append(@, Packet(m, v, accepted[<<m, v>>] + 1))]
  /\ accepted' = [accepted EXCEPT ![<<m, v>>] = @ + 1]
  /\ entered' = [entered EXCEPT ![<<m, v>>] = @ + 1]
  /\ UNCHANGED <<bound, outq, handled>>

(***************************************************************************)
(* DownstreamPort::sendReq buffers: packets of this VC wait already, or    *)
(* the direct send failed; there is room in the OutputVC.                  *)
(***************************************************************************)
SendBuffered(m, v) ==
  /\ v \in OutVCs
  /\ accepted[<<m, v>>] < MaxPackets
  /\ outq[<<m, v>>] # <<>> \/ ~GoesThrough(m, v)
  /\ OutputRoom(m, v)
  /\ outq' = [outq EXCEPT ![<<m, v>>] =
                Append(@, Packet(m, v, accepted[<<m, v>>] + 1))]
  /\ accepted' = [accepted EXCEPT ![<<m, v>>] = @ + 1]
  /\ UNCHANGED <<bound, inq, entered, handled>>

(***************************************************************************)
(* DownstreamPort::sendReq returns false: there is no such VC, or the      *)
(* packet cannot go directly and the OutputVC is full.  The owner keeps    *)
(* the packet.                                                             *)
(***************************************************************************)
SendRefused(m, v) ==
  /\ v \in OutVCs =>
       (outq[<<m, v>>] # <<>> \/ ~GoesThrough(m, v)) /\ ~OutputRoom(m, v)
  /\ UNCHANGED vars

(***************************************************************************)
(* OutputVC::trySend for a VC of size c whose buffer is q.  It passes the  *)
(* front to port->sendReq(), a virtual call that lands in                  *)
(* DownstreamPort::sendReq; the VC is not empty, so that puts the packet   *)
(* at the end of the same buffer and returns true, upon which trySend pops *)
(* the front; or, when the buffer is full, it returns false.               *)
(***************************************************************************)
TrySend(q, c) ==
  IF q # <<>> /\ Len(q) < c THEN Tail(Append(q, Head(q))) ELSE q

\* DownstreamPort::tick(): trySend on every OutputVC.
RetryOutputs(m) ==
  /\ outq' = [s \in Streams |->
                IF s[1] = m THEN TrySend(outq[s], OutSizes[s[2]]) ELSE outq[s]]
  /\ UNCHANGED <<bound, inq, accepted, entered, handled>>

\* What handling the front of each InputVC of ok adds to the history.
HandledFrom(ok) ==
  [s \in Streams |->
     IF s[2] \in ok /\ Head(inq[s[2]]).src = s[1]
     THEN Append(handled[s], Head(inq[s[2]]).num)
     ELSE handled[s]]

\* Faulty variants of HandleInputs: a handled packet is not popped; the loop
\* over the VCs ends at the first packet that the owner refuses.
HandleInputsNoPop(willing) ==
  /\ handled' = HandledFrom({v \in willing : inq[v] # <<>>})
  /\ UNCHANGED <<bound, outq, inq, accepted, entered>>
HandleInputsBreak(willing) ==
  LET ok == {v \in willing : /\ inq[v] # <<>>
                             /\ \A u \in InVCs \ willing :
                                  u < v => inq[u] = <<>>}
  IN  /\ inq' = [v \in InVCs |-> IF v \in ok THEN Tail(inq[v]) ELSE inq[v]]
      /\ handled' = HandledFrom(ok)
      /\ UNCHANGED <<bound, outq, accepted, entered>>

(***************************************************************************)
(* UpstreamPort::tick(): the owner's handleUpstreamRequest() is called     *)
(* with the front of every InputVC that is not empty; those for which it   *)
(* returns true are popped.  The owner is willing to take packets of the   *)
(* VCs of willing this time.                                               *)
(***************************************************************************)
HandleInputs(willing) ==
  LET ok == {v \in willing : inq[v] # <<>>}
  IN  /\ inq' = [v \in InVCs |-> IF v \in ok THEN Tail(inq[v]) ELSE inq[v]]
      /\ handled' = HandledFrom(ok)
      /\ UNCHANGED <<bound, outq, accepted, entered>>

Next ==
  \/ \E m \in Masters : Bind(m)
  \/ \E m \in Masters, v \in VcIds : SendDirect(m, v)
  \/ \E m \in Masters, v \in VcIds : SendBuffered(m, v)
  \/ \E m \in Masters, v \in VcIds : SendRefused(m, v)
  \/ \E m \in Masters : RetryOutputs(m)
  \/ \E willing \in SUBSET InVCs : HandleInputs(willing)

Spec == Init /\ [][Next]_vars

(***************************************************************************)
(* What the timing documents ask of the owners: they keep calling the      *)
(* tick() of their ports.  Here the slave's owner also takes every packet  *)
(* it is offered, and all ports get connected.                             *)
(***************************************************************************)
FairSpec ==
  /\ Spec
  /\ \A m \in Masters : WF_vars(Bind(m)) /\ WF_vars(RetryOutputs(m))
  /\ WF_vars(HandleInputs(InVCs))

-----------------------------------------------------------------------------
\* Type invariant, with the capacity of every buffer.
TypeOK ==
  /\ bound \subseteq Masters
  /\ outq \in [Streams -> Seq(Packets)]
  /\ \A s \in Streams : Len(outq[s]) <= OutSizes[s[2]]
  /\ inq \in [InVCs -> Seq(Packets)]
  /\ \A v \in InVCs : Len(inq[v]) <= InSizes[v]
  /\ accepted \in [Streams -> Nat]
  /\ entered \in [Streams -> Nat]
  /\ handled \in [Streams -> Seq(Nat)]

(***************************************************************************)
(* The slave's owner handles the packets of each stream in the order in    *)
(* which sendReq() accepted them, each at most once.                       *)
(***************************************************************************)
HandledInOrder ==
  \A s \in Streams : \A i \in 1 .. Len(handled[s]) : handled[s][i] = i

(***************************************************************************)
(* An InputVC holds exactly the packets of each stream that have entered   *)
(* it and are not handled, in the order of their acceptance.               *)
(***************************************************************************)
InputHoldsEntered ==
  /\ \A v \in InVCs : \A i \in 1 .. Len(inq[v]) :
       LET p == inq[v][i]
       IN  /\ p.vc = v
           /\ p.num \in Len(handled[<<p.src, v>>]) + 1 .. entered[<<p.src, v>>]
           /\ \A j \in 1 .. i - 1 : inq[v][j].src = p.src
                                     => inq[v][j].num < p.num
  /\ \A s \in Streams : \A n \in Len(handled[s]) + 1 .. entered[s] :
       s[2] \in InVCs /\ \E i \in 1 .. Len(inq[s[2]]) :
         inq[s[2]][i] = Packet(s[1], s[2], n)

(***************************************************************************)
(* An OutputVC holds exactly the packets of its stream that were accepted  *)
(* and have not entered the slave, in whatever order.                      *)
(***************************************************************************)
OutputHoldsRest ==
  \A s \in Streams :
    /\ Len(outq[s]) = accepted[s] - entered[s]
    /\ \A i \in 1 .. Len(outq[s]) :
         /\ outq[s][i].src = s[1] /\ outq[s][i].vc = s[2]
         /\ outq[s][i].num \in entered[s] + 1 .. accepted[s]
         /\ \A j \in 1 .. i - 1 : outq[s][j].num # outq[s][i].num

(***************************************************************************)
(* Every packet that sendReq() accepted is in exactly one place, the       *)
(* OutputVC, the InputVC or handled; none is lost, copied or overtaken on  *)
(* its VC, whatever the other masters, VCs and ticks do in between.        *)
(***************************************************************************)
ExactlyOnceInOrder ==
  /\ HandledInOrder
  /\ InputHoldsEntered
  /\ OutputHoldsRest

(***************************************************************************)
(* The link implements VCChannel: seen from the owners, the two buffers    *)
(* and the retries between them are one queue per stream.                  *)
(***************************************************************************)
Channel ==
  INSTANCE VCChannel WITH
    chan <- [s \in Streams |->
               [i \in 1 .. accepted[s] - Len(handled[s]) |->
                  Len(handled[s]) + i]],
    delivered <- handled

ImplementsChannel == Channel!Spec

(***************************************************************************)
(* Virtual channels do not block each other at the receiver: if the owner  *)
(* keeps taking what it is offered on one VC, every packet that entered    *)
(* this VC gets handled, even though the owner may refuse the packets of   *)
(* all the others for ever.                                                *)
(***************************************************************************)
VCsIndependent ==
  \A v \in InVCs :
    WF_vars(HandleInputs({v})) =>
      \A m \in Masters, n \in 1 .. MaxPackets :
        (v \in OutVCs /\ entered[<<m, v>>] >= n) ~> Len(handled[<<m, v>>]) >= n

(***************************************************************************)
(* What the documents promise of the owners' ticks: a packet that was      *)
(* buffered because of congestion is sent by a later tick of the port.     *)
(***************************************************************************)
BufferedIsSent ==
  \A s \in Streams, n \in 1 .. MaxPackets :
    accepted[s] >= n ~> Len(handled[s]) >= n
=============================================================================
