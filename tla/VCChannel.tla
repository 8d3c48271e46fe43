------------------------------ MODULE VCChannel ------------------------------
(***************************************************************************)
(* What a port-to-port link promises to each stream of packets, a stream   *)
(* being what one master port sends on one virtual channel: an unbounded   *)
(* queue.  A packet that sendReq() accepted is handed to the slave's owner *)
(* at most once, and the packets of a stream are handed over in the order  *)
(* in which they were accepted.  Streams do not constrain each other.      *)
(*                                                                         *)
(* Packets of a stream are numbered in the order of their acceptance.      *)
(***************************************************************************)
EXTENDS Naturals, Sequences

CONSTANT Streams

VARIABLES
  chan,      \* per stream, the numbers accepted and not handed over yet
  delivered  \* per stream, the numbers handed over, in order

vars == <<chan, delivered>>

Init ==
  /\ chan = [s \in Streams |-> <<>>]
  /\ delivered = [s \in Streams |-> <<>>]

Accept(s) ==
  /\ chan' = [chan EXCEPT ![s] = Append(@, Len(delivered[s]) + Len(@) + 1)]
  /\ UNCHANGED delivered

\* One tick of the receiver takes the oldest packet of each stream of D.
Deliver(D) ==
  /\ \A s \in D : chan[s] # <<>>
  /\ chan' = [s \in Streams |-> IF s \in D THEN Tail(chan[s]) ELSE chan[s]]
  /\ delivered' = [s \in Streams |->
                     IF s \in D THEN Append(delivered[s], Head(chan[s]))
                     ELSE delivered[s]]

Next ==
  \/ \E s \in Streams : Accept(s)
  \/ \E D \in (SUBSET Streams) \ {{}} : Deliver(D)

Spec == Init /\ [][Next]_vars
=============================================================================
