------------------------------ MODULE PacketPool ------------------------------
(***************************************************************************)
(* The pool of packets, with the part of the heap that it manages: Packet  *)
(* objects and the tlm_generic_payloads that are attached to them.         *)
(*                                                                         *)
(* acquire() and release() hold m_mutex from beginning to end, so each is  *)
(* one step, whichever thread calls it.  The users here keep to the rules  *)
(* of test_packet_pool.cc: they release a packet they hold, once, and give *)
(* a packet a payload of its own; the users in CpuMemory and in            *)
(* CpuCacheMemory do not.                                                  *)
(*                                                                         *)
(* Nothing calls add_ref(), so ref_count is 0 in every packet and          *)
(* remove_ref() returns at once: release() reads the count of the request  *)
(* that original_req points to, and clears original_req.  That request may *)
(* have been released and, if the freelist was full, deleted.  What the    *)
(* program does once it has read a deleted packet is left open by C++: the *)
(* model records it in ub and stops there, and its properties speak of     *)
(* what happens until then.                                                *)
(***************************************************************************)
EXTENDS Integers, Sequences, FiniteSets

CONSTANTS
  Packets,   \* addresses at which Packets may be allocated
  Payloads,  \* addresses at which payloads may be allocated
  MaxSize,   \* m_max_size
  None       \* the null pointer

ASSUME NullPointer == None \notin Packets \cup Payloads
ASSUME FinitePool == IsFiniteSet(Packets) /\ MaxSize \in Nat

VARIABLES
  packet_freelist,   \* m_packet_freelist
  payload_freelist,  \* m_payload_freelist
  packets,           \* the Packets that are allocated
  payloads,          \* the payloads that are allocated
  payload,           \* Packet::payload, by address
  original_req,      \* Packet::original_req, by address
  current_usage,     \* m_current_usage
  peak_usage,        \* m_peak_usage
  held,              \* the packets that users hold
  ub                 \* remove_ref() has read a deleted packet

vars == <<packet_freelist, payload_freelist, packets, payloads, payload,
          original_req, current_usage, peak_usage, held, ub>>

Init ==
  /\ packet_freelist = <<>>
  /\ payload_freelist = <<>>
  /\ packets = {}
  /\ payloads = {}
  /\ payload = [p \in Packets |-> None]
  /\ original_req = [p \in Packets |-> None]
  /\ current_usage = 0
  /\ peak_usage = 0
  /\ held = {}
  /\ ub = FALSE

\* A queue after pop().
Rest(q) == IF q = <<>> THEN q ELSE Tail(q)

\* Faulty variant of NextPacket: the front of the freelist is not preferred.
NextPacketFresh(p) ==
  IF packet_freelist # <<>> /\ packets = Packets
  THEN p = Head(packet_freelist)
  ELSE p \in Packets \ packets

\* acquire() takes p: the front of the freelist, or a newly allocated packet.
NextPacket(p) ==
  IF packet_freelist # <<>>
  THEN p = Head(packet_freelist)
  ELSE p \in Packets \ packets

\* Faulty variant of Acquire: the payload that reset() deletes is not popped.
AcquireKeepsPayload(p) ==
  /\ ~ub
  /\ NextPacket(p)
  /\ packet_freelist' = Rest(packet_freelist)
  /\ packets' = packets \cup {p}
  /\ payloads' = IF payload_freelist = <<>> THEN payloads
                 ELSE payloads \ {Head(payload_freelist)}
  /\ payload' = [payload EXCEPT ![p] = None]
  /\ original_req' = [original_req EXCEPT ![p] = None]
  /\ current_usage' = current_usage + 1
  /\ peak_usage' = IF current_usage' > peak_usage THEN current_usage'
                   ELSE peak_usage
  /\ held' = held \cup {p}
  /\ UNCHANGED <<payload_freelist, ub>>

(***************************************************************************)
(* acquire().  The packet is bound to the front of the payload freelist,   *)
(* or to a new payload, and then Packet::reset() deletes that payload: the *)
(* caller gets a packet without one.                                       *)
(***************************************************************************)
Acquire(p) ==
  /\ ~ub
  /\ NextPacket(p)
  /\ packet_freelist' = Rest(packet_freelist)
  /\ payload_freelist' = Rest(payload_freelist)
  /\ packets' = packets \cup {p}
  /\ payloads' = IF payload_freelist = <<>> THEN payloads
                 ELSE payloads \ {Head(payload_freelist)}
  /\ payload' = [payload EXCEPT ![p] = None]
  /\ original_req' = [original_req EXCEPT ![p] = None]
  /\ current_usage' = current_usage + 1
  /\ peak_usage' = IF current_usage' > peak_usage THEN current_usage'
                   ELSE peak_usage
  /\ held' = held \cup {p}
  /\ UNCHANGED ub

\* A user gives its packet a newly allocated payload.
AttachPayload(p, d) ==
  /\ ~ub
  /\ p \in held
  /\ payload[p] = None
  /\ d \in Payloads \ payloads
  /\ payload' = [payload EXCEPT ![p] = d]
  /\ payloads' = payloads \cup {d}
  /\ UNCHANGED <<packet_freelist, payload_freelist, packets, original_req,
                 current_usage, peak_usage, held, ub>>

\* A user makes its packet p the response to r; r = p occurs in the tests.
Refer(p, r) ==
  /\ ~ub
  /\ {p, r} \subseteq held
  /\ original_req' = [original_req EXCEPT ![p] = r]
  /\ UNCHANGED <<packet_freelist, payload_freelist, packets, payloads, payload,
                 current_usage, peak_usage, held, ub>>

\* Faulty variant of Room: a freelist never gets its last packet.
RoomForAllButOne(q) == Len(q) + 1 < MaxSize

\* Faulty variant of Room: the freelists grow by one more.
RoomOffByOne(q) == Len(q) <= MaxSize

\* There is room in a freelist.
Room(q) == Len(q) < MaxSize

\* Faulty variant of PutPacket: a packet that finds no room is not deleted.
PutPacketLeaks(p) ==
  /\ packet_freelist' = IF Room(packet_freelist) THEN Append(packet_freelist, p)
                        ELSE packet_freelist
  /\ UNCHANGED packets

\* The packet goes to the freelist, or is deleted.
PutPacket(p) ==
  IF Room(packet_freelist)
  THEN packet_freelist' = Append(packet_freelist, p) /\ UNCHANGED packets
  ELSE packets' = packets \ {p} /\ UNCHANGED packet_freelist

\* The payload, if there is one, goes to its freelist, or is deleted.
PutPayload(d) ==
  IF d # None /\ Room(payload_freelist)
  THEN payload_freelist' = Append(payload_freelist, d) /\ UNCHANGED payloads
  ELSE payloads' = payloads \ {d} /\ UNCHANGED payload_freelist

\* The request that p refers to has been deleted; nothing is read if it is p.
DanglingRequest(p) == original_req[p] \notin packets \cup {p, None}

(***************************************************************************)
(* release(p) by the user that holds p.  remove_ref() reads the count of   *)
(* the original request first.  The payload is detached before             *)
(* Packet::reset(), which therefore deletes nothing.                       *)
(***************************************************************************)
Release(p) ==
  /\ ~ub
  /\ p \in held
  /\ ~DanglingRequest(p)
  /\ PutPayload(payload[p])
  /\ PutPacket(p)
  /\ payload' = [payload EXCEPT ![p] = None]
  /\ original_req' = [original_req EXCEPT ![p] = None]
  /\ current_usage' = current_usage - 1
  /\ held' = held \ {p}
  /\ UNCHANGED <<peak_usage, ub>>

\* release(p), where remove_ref() reads the count of a deleted request.
ReleaseReadsDeleted(p) ==
  /\ ~ub
  /\ p \in held
  /\ DanglingRequest(p)
  /\ ub' = TRUE
  /\ UNCHANGED <<packet_freelist, payload_freelist, packets, payloads, payload,
                 original_req, current_usage, peak_usage, held>>

Next ==
  \/ \E p \in Packets : Acquire(p)
  \/ \E p \in Packets, d \in Payloads : AttachPayload(p, d)
  \/ \E p, r \in Packets : Refer(p, r)
  \/ \E p \in Packets : Release(p)
  \/ \E p \in Packets : ReleaseReadsDeleted(p)

Spec == Init /\ [][Next]_vars

-----------------------------------------------------------------------------
\* Type invariant, with the bound on both freelists.
TypeOK ==
  /\ packet_freelist \in Seq(Packets) /\ Len(packet_freelist) <= MaxSize
  /\ payload_freelist \in Seq(Payloads) /\ Len(payload_freelist) <= MaxSize
  /\ packets \subseteq Packets
  /\ payloads \subseteq Payloads
  /\ payload \in [Packets -> Payloads \cup {None}]
  /\ original_req \in [Packets -> Packets \cup {None}]
  /\ current_usage \in Nat
  /\ peak_usage \in Nat
  /\ held \subseteq Packets
  /\ ub \in BOOLEAN

InQueue(q) == {q[i] : i \in 1 .. Len(q)}

Distinct(q) == \A i, j \in 1 .. Len(q) : q[i] = q[j] => i = j

(***************************************************************************)
(* Every allocated packet is either held by a user or in the freelist,     *)
(* once: no packet is handed to two users, none is leaked, and nothing in  *)
(* the freelist has been deleted, whatever order users release in and also *)
(* when the freelist overflows.                                            *)
(***************************************************************************)
PacketsAccounted ==
  /\ Distinct(packet_freelist)
  /\ held \cap InQueue(packet_freelist) = {}
  /\ packets = held \cup InQueue(packet_freelist)

(***************************************************************************)
(* Every allocated payload is attached to exactly one held packet or is in *)
(* the payload freelist, once: acquire() and release() pass payloads to    *)
(* and fro, and delete them in two places, but never one that is still     *)
(* referred to, and never twice.                                           *)
(***************************************************************************)
PayloadsAccounted ==
  LET attached == {p \in Packets : payload[p] # None}
  IN  /\ attached \subseteq held
      /\ \A p, r \in attached : payload[p] = payload[r] => p = r
      /\ Distinct(payload_freelist)
      /\ \A p \in attached : payload[p] \notin InQueue(payload_freelist)
      /\ payloads = {payload[p] : p \in attached} \cup InQueue(payload_freelist)

(***************************************************************************)
(* current_usage() is the number of packets that users hold, and the pool  *)
(* has never allocated more packets than were in use at its peak.          *)
(***************************************************************************)
UsageIsHeld ==
  /\ current_usage = Cardinality(held)
  /\ current_usage <= peak_usage
  /\ Cardinality(packets) <= peak_usage

(***************************************************************************)
(* A release() can read the reference count of a deleted request only in a *)
(* program that has had m_max_size + 2 packets in use at once: what fills  *)
(* the freelist when the request is released, the request, and the         *)
(* response that still refers to it.                                       *)
(***************************************************************************)
DeletedReadOnlyAfterOverflow == ub => peak_usage >= MaxSize + 2
=============================================================================
