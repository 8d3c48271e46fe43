------------------------------- MODULE PoolHeap -------------------------------
(***************************************************************************)
(* PacketPool as a value, for users that share payloads and release what   *)
(* others still refer to.  A heap h has the fields                         *)
(*   packets   how many Packets have been allocated; they are 1 .. packets *)
(*   freelist, payload_freelist   the two queues of the pool               *)
(*   live      the payloads that are allocated                             *)
(*   payload, original_req        the fields of each Packet                *)
(*   usage     m_current_usage                                             *)
(*   ub        a deleted payload or a null pointer has been used           *)
(* A payload is never given the identity of a deleted one, so that the use *)
(* of a stale pointer shows; what follows such a use is left open by C++.  *)
(* The freelists stay below m_max_size, 1024: nothing overflows, no Packet *)
(* is deleted, and what release() reads of original_req is allocated.      *)
(***************************************************************************)
EXTENDS Integers, Sequences, FiniteSets

CONSTANTS
  MaxPackets,  \* bound: the Packets that can be allocated
  Null         \* the null pointer

Pkts == 1 .. MaxPackets

EmptyHeap ==
  [packets |-> 0, freelist |-> <<>>, payload_freelist |-> <<>>, live |-> {},
   payload |-> [p \in Pkts |-> Null], original_req |-> [p \in Pkts |-> Null],
   usage |-> 0, ub |-> FALSE]

\* The packet that acquire() returns.
Acquired(h) == IF h.freelist # <<>> THEN Head(h.freelist) ELSE h.packets + 1

Popped(queue) == IF queue = <<>> THEN queue ELSE Tail(queue)

\* Reading or writing through the pointer d to a payload.
Deref(h, d) == [h EXCEPT !.ub = @ \/ d \notin h.live]

(***************************************************************************)
(* Packet::reset() deletes the payload of p, if it has one; the packets    *)
(* that the pool resets are never credits, which would keep theirs.        *)
(***************************************************************************)
Reset(h, p) ==
  [h EXCEPT !.ub = h.ub \/ (h.payload[p] # Null /\ h.payload[p] \notin h.live),
            !.live = h.live \ {h.payload[p]},
            !.payload = [h.payload EXCEPT ![p] = Null],
            !.original_req = [h.original_req EXCEPT ![p] = Null]]

\* acquire(): the packet is bound to the payload at the front of its freelist.
Bound(h) ==
  LET d == IF h.payload_freelist = <<>> THEN Null ELSE Head(h.payload_freelist)
  IN  [h EXCEPT
         !.packets = IF h.freelist = <<>> THEN h.packets + 1 ELSE h.packets,
         !.freelist = Popped(h.freelist),
         !.payload_freelist = Popped(h.payload_freelist),
         !.payload = [h.payload EXCEPT ![Acquired(h)] = d],
         !.usage = h.usage + 1]

\* acquire(): it is bound, and reset afterwards.
Acquire(h) == Reset(Bound(h), Acquired(h))

\* p->payload = d and p->original_req = r, as its new owner sets them.
Fill(h, p, d, r) ==
  [h EXCEPT !.payload = [h.payload EXCEPT ![p] = d],
            !.original_req = [h.original_req EXCEPT ![p] = r]]

\* A new packet filled with d and r.
AcquireFilled(h, d, r) == Fill(Acquire(h), Acquired(h), d, r)

(***************************************************************************)
(* release(p).  No reference count is ever raised, so that original_req is *)
(* only cleared, after a look at its count, which is 0.                    *)
(***************************************************************************)
Release(h, p) ==
  LET detached == [h EXCEPT !.payload[p] = Null]
  IN  [Reset(detached, p) EXCEPT
         !.freelist = Append(@, p),
         !.payload_freelist = IF h.payload[p] = Null THEN @
                              ELSE Append(@, h.payload[p]),
         !.usage = @ - 1]
===============================================================================
