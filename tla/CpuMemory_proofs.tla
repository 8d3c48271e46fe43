---------------------------- MODULE CpuMemory_proofs ----------------------------
(***************************************************************************)
(* Proofs of the safety properties of CpuMemory, for any initiators, any   *)
(* limits and queue sizes, and any number of requests.                     *)
(*                                                                         *)
(* The properties are not inductive one by one.  That no payload is used   *)
(* after acquire() has deleted it needs every packet on its way to hold a  *)
(* request of its own, which needs the packets to be in one place each,    *)
(* and the new requests to differ from the old.                            *)
(***************************************************************************)
EXTENDS CpuMemory, FiniteSetTheorems, TLAPS

\* The packets in the freelist, and the payloads that acquire() will delete.
Free(h) == ToSet(h.freelist)
Doomed(h) == ToSet(h.payload_freelist)

\* A pool that is used as it should be.
HeapSound(h) ==
  /\ IsInjective(h.freelist) /\ IsInjective(h.payload_freelist)
  /\ Free(h) \subseteq 1 .. h.packets
  /\ Doomed(h) \subseteq h.live
  /\ h.packets = Len(h.freelist) + h.usage
  /\ ~ h.ub

\* p holds an accepted request of c, of which the payload is not to be deleted.
Holds(p, c) ==
  /\ p \in 1 .. heap.packets /\ p \notin Free(heap)
  /\ heap.payload[p] \in heap.live /\ heap.payload[p] \notin Doomed(heap)
  /\ heap.payload[p] \in accepted
  /\ heap.payload[p].by = c

(***************************************************************************)
(* Every packet on its way holds a request, no two of them the same one    *)
(* but a response and its original.                                        *)
(***************************************************************************)
RequestsHeld ==
  /\ \A c \in Initiators : \A p \in Queued(c) : Holds(p, c)
  /\ \A r \in responses :
       /\ Holds(r.pkt, r.port) /\ Holds(Original(r), r.port)
       /\ heap.payload[r.pkt] = heap.payload[Original(r)]
  /\ \A c, e \in Initiators : \A p \in Asked(c), q \in Asked(e) :
       heap.payload[p] = heap.payload[q] => p = q

\* A new request differs from those made before, and so does its address.
RequestsNew ==
  /\ \A d \in heap.live : d.try <= tries
  /\ \A d \in accepted : d.try <= tries /\ d.addr < next_addr[d.by]
  /\ \A d, e \in accepted : d.by = e.by /\ d.addr = e.addr => d = e
  /\ \A c \in Initiators : next_addr[c] <= tries
  /\ IsFiniteSet(accepted) /\ Cardinality(accepted) <= tries
  /\ IsFiniteSet(responses)

(***************************************************************************)
(* The pool counts every request ever accepted, answered or not, since     *)
(* nobody releases an answered request.  The bound on the packets that     *)
(* exist rests on this.                                                    *)
(***************************************************************************)
UsageCountsRequests ==
  heap.usage = Cardinality(accepted) + Cardinality(responses)

(***************************************************************************)
(* The inductive invariant.                                                *)
(***************************************************************************)
IInv ==
  /\ TypeOK
  /\ HeapSound(heap)
  /\ PlacesApart
  /\ RequestsHeld
  /\ RequestsNew
  /\ InflightIsOutstanding
  /\ UsageCountsRequests
-------------------------------------------------------------------------------
\* A queue to which e, which is not in it, has been appended.
LEMMA Appended ==
  ASSUME NEW S, NEW q \in Seq(S), NEW e \in S, IsInjective(q), e \notin ToSet(q)
  PROVE  /\ Append(q, e) \in Seq(S)
         /\ Len(Append(q, e)) = Len(q) + 1
         /\ IsInjective(Append(q, e))
         /\ ToSet(Append(q, e)) = ToSet(q) \cup {e}
<1> DEFINE a == Append(q, e)
<1>1. /\ a \in Seq(S) /\ Len(q) \in Nat /\ Len(a) = Len(q) + 1
      /\ DOMAIN q = 1 .. Len(q) /\ DOMAIN a = 1 .. Len(a)
      /\ \A i \in 1 .. Len(q) : a[i] = q[i]
      /\ a[Len(q) + 1] = e
  OBVIOUS
<1>2. \A i \in 1 .. Len(q) : q[i] # e
  BY <1>1 DEF ToSet
<1> HIDE DEF a
<1>3. IsInjective(a)
  <2>1. SUFFICES ASSUME NEW i \in 1 .. Len(a), NEW j \in 1 .. Len(a), a[i] = a[j]
                 PROVE  i = j
    BY <1>1 DEF IsInjective
  <2>2. CASE i \in 1 .. Len(q) /\ j \in 1 .. Len(q)
    BY <1>1, <2>1, <2>2 DEF IsInjective
  <2>3. CASE ~ (i \in 1 .. Len(q) /\ j \in 1 .. Len(q))
    BY <1>1, <1>2, <2>1, <2>3
  <2>4. QED
    BY <2>2, <2>3
<1>4. ToSet(a) \subseteq ToSet(q) \cup {e}
  BY <1>1 DEF ToSet
<1>5. ToSet(q) \subseteq ToSet(a)
  <2>1. \A i \in 1 .. Len(q) : i \in 1 .. Len(a) /\ a[i] = q[i]
    BY <1>1
  <2>2. QED
    BY <1>1, <2>1 DEF ToSet
<1>6. e \in ToSet(a)
  <2>1. Len(q) + 1 \in 1 .. Len(a)
    BY <1>1
  <2>2. QED
    BY <1>1, <2>1 DEF ToSet
<1>7. QED
  BY <1>1, <1>3, <1>4, <1>5, <1>6 DEF a

\* A queue that is not empty, after its head has been removed.
LEMMA Removed ==
  ASSUME NEW S, NEW q \in Seq(S), IsInjective(q), q # <<>>
  PROVE  /\ Tail(q) \in Seq(S)
         /\ Head(q) \in S
         /\ Len(q) >= 1 /\ Len(Tail(q)) = Len(q) - 1
         /\ IsInjective(Tail(q))
         /\ Head(q) \in ToSet(q)
         /\ ToSet(Tail(q)) = ToSet(q) \ {Head(q)}
<1> DEFINE t == Tail(q)
<1>1. /\ t \in Seq(S) /\ Len(q) \in Nat /\ Len(q) >= 1 /\ Len(t) = Len(q) - 1
      /\ DOMAIN q = 1 .. Len(q) /\ DOMAIN t = 1 .. Len(t)
      /\ Head(q) = q[1] /\ Head(q) \in S
      /\ \A i \in 1 .. Len(q) - 1 : t[i] = q[i + 1]
  OBVIOUS
<1> HIDE DEF t
<1>2. \A i, j \in 1 .. Len(q) : q[i] = q[j] => i = j
  BY <1>1 DEF IsInjective
<1>3. IsInjective(t)
  <2>1. SUFFICES ASSUME NEW i \in 1 .. Len(t), NEW j \in 1 .. Len(t), t[i] = t[j]
                 PROVE  i = j
    BY <1>1 DEF IsInjective
  <2>2. i + 1 \in 1 .. Len(q) /\ j + 1 \in 1 .. Len(q) /\ q[i + 1] = q[j + 1]
    BY <1>1, <2>1
  <2>3. i + 1 = j + 1
    BY <1>2, <2>2
  <2>4. QED
    BY <1>1, <2>3
<1>4. Head(q) \in ToSet(q)
  BY <1>1 DEF ToSet
<1>5. ToSet(t) \subseteq ToSet(q) \ {Head(q)}
  <2>1. SUFFICES ASSUME NEW i \in 1 .. Len(t)
                 PROVE  t[i] \in ToSet(q) /\ t[i] # Head(q)
    BY <1>1 DEF ToSet
  <2>2. i + 1 \in 1 .. Len(q) /\ i + 1 # 1 /\ 1 \in 1 .. Len(q) /\ t[i] = q[i + 1]
    BY <1>1
  <2>3. q[i + 1] # q[1]
    BY <1>2, <2>2
  <2>4. QED
    BY <1>1, <2>2, <2>3 DEF ToSet
<1>6. ToSet(q) \ {Head(q)} \subseteq ToSet(t)
  <2>1. SUFFICES ASSUME NEW i \in 1 .. Len(q), q[i] # Head(q)
                 PROVE  q[i] \in ToSet(t)
    BY <1>1 DEF ToSet
  <2>2. i - 1 \in 1 .. Len(t) /\ t[i - 1] = q[i]
    BY <1>1, <2>1
  <2>3. QED
    BY <1>1, <2>2 DEF ToSet
<1>7. QED
  BY <1>1, <1>3, <1>4, <1>5, <1>6 DEF t

\* The same for a queue that may be empty.
LEMMA PoppedQueue ==
  ASSUME NEW S, NEW q \in Seq(S), IsInjective(q)
  PROVE  /\ Popped(q) \in Seq(S)
         /\ Len(Popped(q)) = IF q = <<>> THEN 0 ELSE Len(q) - 1
         /\ IsInjective(Popped(q))
         /\ ToSet(Popped(q)) = IF q = <<>> THEN {} ELSE ToSet(q) \ {Head(q)}
<1>1. CASE q = <<>>
  <2>1. Len(<<>>) = 0 /\ DOMAIN <<>> = {}
    OBVIOUS
  <2>2. ToSet(<<>>) = {}
    BY <2>1 DEF ToSet
  <2>3. QED
    BY <1>1, <2>1, <2>2 DEF Popped
<1>2. CASE q # <<>>
  BY <1>2, Removed DEF Popped
<1>3. QED
  BY <1>1, <1>2

-------------------------------------------------------------------------------
\* The pool after Packet::reset().
LEMMA ResetFields ==
  ASSUME NEW h \in HeapType, NEW p \in Pkts
  PROVE  LET g == Reset(h, p)
         IN  /\ g \in HeapType
             /\ g.packets = h.packets /\ g.usage = h.usage
             /\ g.freelist = h.freelist /\ g.payload_freelist = h.payload_freelist
             /\ g.live = h.live \ {h.payload[p]}
             /\ g.payload = [h.payload EXCEPT ![p] = Null]
             /\ g.original_req = [h.original_req EXCEPT ![p] = Null]
             /\ g.ub = (h.ub \/ (h.payload[p] # Null /\ h.payload[p] \notin h.live))
<1> DEFINE x == h.ub \/ (h.payload[p] # Null /\ h.payload[p] \notin h.live)
           y == [h.payload EXCEPT ![p] = Null]
           z == [h.original_req EXCEPT ![p] = Null]
           l == h.live \ {h.payload[p]}
<1>1. /\ x \in BOOLEAN /\ l \in SUBSET Payloads
      /\ y \in [Pkts -> Payloads \cup {Null}] /\ z \in [Pkts -> Pkts \cup {Null}]
  BY DEF HeapType
<1>2. Reset(h, p) = [h EXCEPT !.ub = x, !.live = l, !.payload = y, !.original_req = z]
  BY DEF Reset
<1> HIDE DEF x, y, z, l
<1>3. LET g == [h EXCEPT !.ub = x, !.live = l, !.payload = y, !.original_req = z]
      IN  /\ g \in HeapType
          /\ g.packets = h.packets /\ g.usage = h.usage
          /\ g.freelist = h.freelist /\ g.payload_freelist = h.payload_freelist
          /\ g.live = l /\ g.payload = y /\ g.original_req = z /\ g.ub = x
  BY <1>1 DEF HeapType
<1>4. QED
  BY <1>2, <1>3 DEF x, y, z, l

\* The pool after a packet has been taken and bound to a payload.
LEMMA BoundFields ==
  ASSUME NEW h \in HeapType, HeapSound(h),
         h.freelist = <<>> => h.packets < MaxPackets
  PROVE  LET a == Acquired(h)
             g == Bound(h)
         IN  /\ g \in HeapType
             /\ a \in Pkts
             /\ g.packets = IF h.freelist = <<>> THEN h.packets + 1 ELSE h.packets
             /\ g.freelist = Popped(h.freelist)
             /\ g.payload_freelist = Popped(h.payload_freelist)
             /\ g.live = h.live
             /\ g.payload[a] = IF h.payload_freelist = <<>> THEN Null
                               ELSE Head(h.payload_freelist)
             /\ \A p \in Pkts \ {a} : g.payload[p] = h.payload[p]
             /\ g.original_req = h.original_req
             /\ g.usage = h.usage + 1
             /\ g.ub = h.ub
<1> DEFINE a == Acquired(h)
           d == IF h.payload_freelist = <<>> THEN Null ELSE Head(h.payload_freelist)
           x == IF h.freelist = <<>> THEN h.packets + 1 ELSE h.packets
           f == Popped(h.freelist)
           q == Popped(h.payload_freelist)
           y == [h.payload EXCEPT ![a] = d]
           u == h.usage + 1
<1>1. /\ h.packets \in 0 .. MaxPackets /\ h.usage \in Nat
      /\ h.freelist \in Seq(Pkts) /\ IsInjective(h.freelist)
      /\ h.payload_freelist \in Seq(Payloads) /\ IsInjective(h.payload_freelist)
      /\ h.payload \in [Pkts -> Payloads \cup {Null}]
  BY DEF HeapType, HeapSound
<1>2. a \in Pkts
  BY <1>1, EnoughPackets, Removed DEF Acquired, Pkts
<1>3. d \in Payloads \cup {Null}
  BY <1>1, Removed
<1>4. f \in Seq(Pkts) /\ q \in Seq(Payloads)
  BY <1>1, PoppedQueue
<1>5. x \in 0 .. MaxPackets /\ u \in Nat
  BY <1>1, EnoughPackets
<1>6. y \in [Pkts -> Payloads \cup {Null}]
  BY <1>1, <1>2, <1>3
<1>7. y[a] = d /\ \A p \in Pkts \ {a} : y[p] = h.payload[p]
  BY <1>1, <1>2
<1>8. Bound(h) = [h EXCEPT !.packets = x, !.freelist = f, !.payload_freelist = q,
                           !.payload = y, !.usage = u]
  BY DEF Bound
<1> HIDE DEF x, f, q, y, u, d, a
<1>9. LET g == [h EXCEPT !.packets = x, !.freelist = f, !.payload_freelist = q,
                         !.payload = y, !.usage = u]
      IN  /\ g \in HeapType
          /\ g.packets = x /\ g.freelist = f /\ g.payload_freelist = q
          /\ g.live = h.live /\ g.payload = y /\ g.original_req = h.original_req
          /\ g.usage = u /\ g.ub = h.ub
  BY <1>4, <1>5, <1>6 DEF HeapType
<1>10. QED
  BY <1>2, <1>7, <1>8, <1>9 DEF x, f, q, u, d, a

\* The pool after a packet has been filled.
LEMMA FillFields ==
  ASSUME NEW h \in HeapType, NEW p \in Pkts, NEW d \in Payloads,
         NEW o \in Pkts \cup {Null}
  PROVE  LET g == Fill(h, p, d, o)
         IN  /\ g \in HeapType
             /\ g.packets = h.packets /\ g.usage = h.usage
             /\ g.freelist = h.freelist /\ g.payload_freelist = h.payload_freelist
             /\ g.live = h.live /\ g.ub = h.ub
             /\ g.payload = [h.payload EXCEPT ![p] = d]
             /\ g.original_req = [h.original_req EXCEPT ![p] = o]
<1> DEFINE y == [h.payload EXCEPT ![p] = d]
           z == [h.original_req EXCEPT ![p] = o]
<1>1. y \in [Pkts -> Payloads \cup {Null}] /\ z \in [Pkts -> Pkts \cup {Null}]
  BY DEF HeapType
<1>2. Fill(h, p, d, o) = [h EXCEPT !.payload = y, !.original_req = z]
  BY DEF Fill
<1> HIDE DEF y, z
<1>3. LET g == [h EXCEPT !.payload = y, !.original_req = z]
      IN  /\ g \in HeapType
          /\ g.packets = h.packets /\ g.usage = h.usage
          /\ g.freelist = h.freelist /\ g.payload_freelist = h.payload_freelist
          /\ g.live = h.live /\ g.ub = h.ub /\ g.payload = y /\ g.original_req = z
  BY <1>1 DEF HeapType
<1>4. QED
  BY <1>2, <1>3 DEF y, z

(***************************************************************************)
(* What a new packet, filled with the payload d and the original request   *)
(* o, changes: nothing in the packets that are not free, and no payload    *)
(* that is not due to be deleted.                                          *)
(***************************************************************************)
LEMMA AcquiredPool ==
  ASSUME NEW h \in HeapType, HeapSound(h),
         NEW d \in Payloads, NEW o \in Pkts \cup {Null},
         h.freelist = <<>> => h.packets < MaxPackets
  PROVE  LET a == Acquired(h)
             g == AcquireFilled(h, d, o)
         IN  /\ g \in HeapType /\ HeapSound(g)
             /\ a \in 1 .. g.packets /\ a \notin Free(g)
             /\ a \in Pkts
             /\ g.payload[a] = d /\ g.original_req[a] = o
             /\ \A p \in 1 .. h.packets : p \notin Free(h) =>
                  /\ p # a /\ p \in 1 .. g.packets /\ p \notin Free(g)
                  /\ g.payload[p] = h.payload[p]
                  /\ g.original_req[p] = h.original_req[p]
             /\ g.live \subseteq h.live /\ h.live \ Doomed(h) \subseteq g.live
             /\ Doomed(g) \subseteq Doomed(h)
             /\ g.usage = h.usage + 1
<1> DEFINE a == Acquired(h)
           b == Bound(h)
           c == Reset(b, a)
           g == AcquireFilled(h, d, o)
           doomed == IF h.payload_freelist = <<>> THEN Null
                     ELSE Head(h.payload_freelist)
<1>1. /\ h.packets \in 0 .. MaxPackets /\ h.usage \in Nat
      /\ h.freelist \in Seq(Pkts) /\ IsInjective(h.freelist)
      /\ h.payload_freelist \in Seq(Payloads) /\ IsInjective(h.payload_freelist)
      /\ h.payload \in [Pkts -> Payloads \cup {Null}]
      /\ h.original_req \in [Pkts -> Pkts \cup {Null}]
      /\ h.live \subseteq Payloads
      /\ Free(h) \subseteq 1 .. h.packets /\ Doomed(h) \subseteq h.live
      /\ h.packets = Len(h.freelist) + h.usage /\ ~ h.ub
  BY DEF HeapType, HeapSound
<1>2. /\ b \in HeapType /\ a \in Pkts
      /\ b.packets = IF h.freelist = <<>> THEN h.packets + 1 ELSE h.packets
      /\ b.freelist = Popped(h.freelist)
      /\ b.payload_freelist = Popped(h.payload_freelist)
      /\ b.live = h.live /\ b.payload[a] = doomed
      /\ \A p \in Pkts \ {a} : b.payload[p] = h.payload[p]
      /\ b.original_req = h.original_req
      /\ b.usage = h.usage + 1 /\ b.ub = h.ub
  BY BoundFields
<1>3. /\ c \in HeapType
      /\ c.packets = b.packets /\ c.usage = b.usage
      /\ c.freelist = b.freelist /\ c.payload_freelist = b.payload_freelist
      /\ c.live = b.live \ {b.payload[a]}
      /\ c.payload = [b.payload EXCEPT ![a] = Null]
      /\ c.original_req = [b.original_req EXCEPT ![a] = Null]
      /\ c.ub = (b.ub \/ (b.payload[a] # Null /\ b.payload[a] \notin b.live))
  BY <1>2, ResetFields
<1>4. g = Fill(c, a, d, o)
  BY DEF AcquireFilled, Acquire
<1> HIDE DEF a, b, c, g
<1>5. /\ g \in HeapType
      /\ g.packets = c.packets /\ g.usage = c.usage
      /\ g.freelist = c.freelist /\ g.payload_freelist = c.payload_freelist
      /\ g.live = c.live /\ g.ub = c.ub
      /\ g.payload = [c.payload EXCEPT ![a] = d]
      /\ g.original_req = [c.original_req EXCEPT ![a] = o]
  <2>1. c \in HeapType /\ a \in Pkts
    BY <1>2, <1>3
  <2>2. LET k == Fill(c, a, d, o)
        IN  /\ k \in HeapType
            /\ k.packets = c.packets /\ k.usage = c.usage
            /\ k.freelist = c.freelist /\ k.payload_freelist = c.payload_freelist
            /\ k.live = c.live /\ k.ub = c.ub
            /\ k.payload = [c.payload EXCEPT ![a] = d]
            /\ k.original_req = [c.original_req EXCEPT ![a] = o]
    BY <2>1, FillFields
  <2>3. QED
    BY <1>4, <2>2
<1>6. /\ IsInjective(g.freelist)
      /\ Len(g.freelist) = IF h.freelist = <<>> THEN 0 ELSE Len(h.freelist) - 1
      /\ Free(g) = IF h.freelist = <<>> THEN {} ELSE Free(h) \ {Head(h.freelist)}
  <2>1. g.freelist = Popped(h.freelist)
    BY <1>2, <1>3, <1>5
  <2>2. QED
    BY <1>1, <2>1, PoppedQueue DEF Free
<1>7. /\ IsInjective(g.payload_freelist)
      /\ Doomed(g) = IF h.payload_freelist = <<>> THEN {} ELSE Doomed(h) \ {doomed}
  <2>1. g.payload_freelist = Popped(h.payload_freelist)
    BY <1>2, <1>3, <1>5
  <2>2. QED
    BY <1>1, <2>1, PoppedQueue DEF Doomed
<1>8. IF h.payload_freelist = <<>> THEN doomed = Null
      ELSE doomed \in Doomed(h) /\ doomed \in h.live
  BY <1>1, Removed DEF Doomed
<1> HIDE DEF doomed
<1>9. ~ g.ub /\ g.live = h.live \ {doomed}
  BY <1>1, <1>2, <1>3, <1>5, <1>8
<1>10. /\ g.live \subseteq h.live /\ h.live \ Doomed(h) \subseteq g.live
       /\ Doomed(g) \subseteq Doomed(h) /\ Doomed(g) \subseteq g.live
  <2>1. Null \notin h.live
    BY <1>1, NullIsNoPayload
  <2>2. QED
    BY <1>1, <1>7, <1>8, <1>9, <2>1
<1>11. h.freelist # <<>> => Head(h.freelist) \in Free(h) /\ Len(h.freelist) >= 1
  BY <1>1, Removed DEF Free
<1>12. a = IF h.freelist # <<>> THEN Head(h.freelist) ELSE h.packets + 1
  BY DEF a, Acquired
<1>13. h.freelist = <<>> => Len(h.freelist) = 0
  OBVIOUS
<1>14. HeapSound(g)
  <2>1. g.packets = Len(g.freelist) + g.usage
    BY <1>1, <1>2, <1>3, <1>5, <1>6, <1>13
  <2>2. Free(g) \subseteq 1 .. g.packets
    BY <1>1, <1>2, <1>3, <1>5, <1>6
  <2>3. QED
    BY <1>6, <1>7, <1>9, <1>10, <2>1, <2>2 DEF HeapSound
<1>15. a \in 1 .. g.packets /\ a \notin Free(g)
  BY <1>1, <1>2, <1>3, <1>5, <1>6, <1>11, <1>12
<1>16. ASSUME NEW p \in 1 .. h.packets, p \notin Free(h)
       PROVE  /\ p # a /\ p \in 1 .. g.packets /\ p \notin Free(g)
              /\ g.payload[p] = h.payload[p]
              /\ g.original_req[p] = h.original_req[p]
  <2>1. p # a /\ p \in 1 .. g.packets /\ p \notin Free(g)
    BY <1>1, <1>2, <1>3, <1>5, <1>6, <1>11, <1>12, <1>16
  <2>2. p \in Pkts
    BY <1>1, EnoughPackets DEF Pkts
  <2>3. g.payload[p] = b.payload[p] /\ g.original_req[p] = b.original_req[p]
    BY <1>2, <1>3, <1>5, <2>1, <2>2 DEF HeapType
  <2>4. QED
    BY <1>2, <2>1, <2>2, <2>3
<1>17. g.payload[a] = d /\ g.original_req[a] = o
  BY <1>2, <1>3, <1>5 DEF HeapType
<1>18. g.usage = h.usage + 1
  BY <1>2, <1>3, <1>5
<1>19. QED
  BY <1>2, <1>5, <1>10, <1>14, <1>15, <1>16, <1>17, <1>18 DEF a, g

\* What release(p) changes, if p has a payload that is not yet to be deleted.
LEMMA ReleasedPool ==
  ASSUME NEW h \in HeapType, HeapSound(h),
         NEW p \in 1 .. h.packets, p \notin Free(h),
         h.payload[p] \in h.live, h.payload[p] \notin Doomed(h), h.usage >= 1
  PROVE  LET g == Release(h, p)
         IN  /\ g \in HeapType /\ HeapSound(g)
             /\ g.packets = h.packets
             /\ Free(g) = Free(h) \cup {p}
             /\ Doomed(g) = Doomed(h) \cup {h.payload[p]}
             /\ g.live = h.live
             /\ \A q \in Pkts \ {p} : /\ g.payload[q] = h.payload[q]
                                      /\ g.original_req[q] = h.original_req[q]
             /\ g.usage = h.usage - 1
<1> DEFINE x == [h.payload EXCEPT ![p] = Null]
           b == [h EXCEPT !.payload = x]
           c == Reset(b, p)
           g == Release(h, p)
           f == Append(h.freelist, p)
           q == Append(h.payload_freelist, h.payload[p])
<1>1. /\ h.packets \in 0 .. MaxPackets /\ h.usage \in Nat
      /\ h.freelist \in Seq(Pkts) /\ IsInjective(h.freelist)
      /\ h.payload_freelist \in Seq(Payloads) /\ IsInjective(h.payload_freelist)
      /\ h.payload \in [Pkts -> Payloads \cup {Null}]
      /\ h.original_req \in [Pkts -> Pkts \cup {Null}]
      /\ h.live \subseteq Payloads
      /\ Free(h) \subseteq 1 .. h.packets /\ Doomed(h) \subseteq h.live
      /\ h.packets = Len(h.freelist) + h.usage /\ ~ h.ub
  BY DEF HeapType, HeapSound
<1>2. p \in Pkts
  BY <1>1, EnoughPackets DEF Pkts
<1>3. h.payload[p] \in Payloads /\ h.payload[p] # Null
  BY <1>1, NullIsNoPayload
<1>4. x \in [Pkts -> Payloads \cup {Null}] /\ x[p] = Null
      /\ \A i \in Pkts \ {p} : x[i] = h.payload[i]
  BY <1>1, <1>2
<1> HIDE DEF x
<1>5. /\ b \in HeapType
      /\ b.packets = h.packets /\ b.usage = h.usage /\ b.live = h.live
      /\ b.freelist = h.freelist /\ b.payload_freelist = h.payload_freelist
      /\ b.payload = x /\ b.original_req = h.original_req /\ b.ub = h.ub
  BY <1>4 DEF HeapType
<1> HIDE DEF b
<1>6. /\ c \in HeapType
      /\ c.packets = h.packets /\ c.usage = h.usage
      /\ c.freelist = h.freelist /\ c.payload_freelist = h.payload_freelist
      /\ c.live = h.live
      /\ c.payload = [x EXCEPT ![p] = Null]
      /\ c.original_req = [h.original_req EXCEPT ![p] = Null]
      /\ ~ c.ub
  <2>1. /\ c \in HeapType
        /\ c.packets = b.packets /\ c.usage = b.usage
        /\ c.freelist = b.freelist /\ c.payload_freelist = b.payload_freelist
        /\ c.live = b.live \ {b.payload[p]}
        /\ c.payload = [b.payload EXCEPT ![p] = Null]
        /\ c.original_req = [b.original_req EXCEPT ![p] = Null]
        /\ c.ub = (b.ub \/ (b.payload[p] # Null /\ b.payload[p] \notin b.live))
    BY <1>2, <1>5, ResetFields
  <2>2. Null \notin h.live
    BY <1>1, NullIsNoPayload
  <2> HIDE DEF c
  <2>3. b.payload[p] = Null
    BY <1>4, <1>5
  <2>4. c.live = h.live /\ ~ c.ub
    <3>1. c.live = h.live
      BY <1>5, <2>1, <2>2, <2>3
    <3>2. ~ c.ub
      BY <1>1, <1>5, <2>1, <2>3, Zenon
    <3>3. QED
      BY <3>1, <3>2
  <2>5. QED
    BY <1>5, <2>1, <2>4
<1>7. /\ f \in Seq(Pkts) /\ Len(f) = Len(h.freelist) + 1
      /\ IsInjective(f) /\ ToSet(f) = Free(h) \cup {p}
  BY <1>1, <1>2, Appended DEF Free
<1>8. /\ q \in Seq(Payloads) /\ IsInjective(q)
      /\ ToSet(q) = Doomed(h) \cup {h.payload[p]}
  BY <1>1, <1>3, Appended DEF Doomed
<1>9. g = [c EXCEPT !.freelist = f, !.payload_freelist = q, !.usage = h.usage - 1]
  BY <1>3, <1>6 DEF Release, c, b, x
<1>10. h.usage - 1 \in Nat
  BY <1>1
<1> HIDE DEF f, q, c
<1>11. /\ g \in HeapType
       /\ g.packets = c.packets /\ g.usage = h.usage - 1
       /\ g.freelist = f /\ g.payload_freelist = q
       /\ g.live = c.live /\ g.payload = c.payload
       /\ g.original_req = c.original_req /\ g.ub = c.ub
  <2> HIDE DEF g
  <2>1. LET k == [c EXCEPT !.freelist = f, !.payload_freelist = q,
                           !.usage = h.usage - 1]
        IN  /\ k \in HeapType
            /\ k.packets = c.packets /\ k.usage = h.usage - 1
            /\ k.freelist = f /\ k.payload_freelist = q
            /\ k.live = c.live /\ k.payload = c.payload
            /\ k.original_req = c.original_req /\ k.ub = c.ub
    BY <1>6, <1>7, <1>8, <1>10 DEF HeapType
  <2>2. QED
    BY <1>9, <2>1
<1> HIDE DEF g
<1>12. Free(g) = Free(h) \cup {p} /\ Doomed(g) = Doomed(h) \cup {h.payload[p]}
  BY <1>7, <1>8, <1>11 DEF Free, Doomed
<1>13. HeapSound(g)
  <2>1. Len(h.freelist) \in Nat
    BY <1>1
  <2>2. g.packets = Len(g.freelist) + g.usage
    <3>1. /\ g.packets = h.packets /\ Len(g.freelist) = Len(h.freelist) + 1
          /\ g.usage = h.usage - 1
      BY <1>6, <1>7, <1>11, Zenon
    <3>2. h.usage \in Nat /\ h.packets = Len(h.freelist) + h.usage
      BY <1>1
    <3>3. QED
      BY <2>1, <3>1, <3>2
  <2>3. Free(g) \subseteq 1 .. g.packets /\ Doomed(g) \subseteq g.live
    <3>1. g.packets = h.packets /\ g.live = h.live
      BY <1>6, <1>11
    <3>2. Free(h) \subseteq 1 .. h.packets /\ Doomed(h) \subseteq h.live
      BY <1>1
    <3>3. QED
      BY <1>12, <3>1, <3>2
  <2>4. IsInjective(g.freelist) /\ IsInjective(g.payload_freelist) /\ ~ g.ub
    BY <1>6, <1>7, <1>8, <1>11
  <2>5. QED
    BY <2>2, <2>3, <2>4 DEF HeapSound
<1>14. \A i \in Pkts \ {p} : /\ g.payload[i] = h.payload[i]
                             /\ g.original_req[i] = h.original_req[i]
  BY <1>1, <1>4, <1>6, <1>11
<1>15. QED
  BY <1>6, <1>11, <1>12, <1>13, <1>14 DEF g

-------------------------------------------------------------------------------
LEMMA InitIInv == Init => IInv
<1>1. SUFFICES ASSUME Init PROVE IInv
  OBVIOUS
<1> USE <1>1 DEF Init
<1>2. /\ MaxPackets \in Nat /\ MaxTries \in Nat /\ MaxInflight \in Nat
      /\ OutSize \in Nat /\ InSize \in Nat
  BY EnoughPackets, Numbers
<1>3. IsFiniteSet({}) /\ Cardinality({}) = 0
  BY FS_EmptySet
<1>4. ToSet(<<>>) = {} /\ IsInjective(<<>>) /\ Len(<<>>) = 0
  <2>1. DOMAIN <<>> = {}
    OBVIOUS
  <2>2. QED
    BY <2>1 DEF ToSet, IsInjective
<1>5. heap \in HeapType
  BY <1>2 DEF HeapType, EmptyHeap
<1>6. TypeOK
  BY <1>2, <1>3, <1>4, <1>5 DEF TypeOK, Initiators
<1>7. HeapSound(heap)
  BY <1>2, <1>4 DEF HeapSound, EmptyHeap, Free, Doomed
<1>8. \A c \in Initiators : Queued(c) = {} /\ Responding(c) = {} /\ Asked(c) = {}
  BY <1>4 DEF Queued, Responding, Asked
<1>9. PlacesApart
  BY <1>4, <1>8 DEF PlacesApart
<1>10. RequestsHeld
  BY <1>8 DEF RequestsHeld
<1>11. RequestsNew
  BY <1>2, <1>3 DEF RequestsNew, EmptyHeap
<1>12. InflightIsOutstanding
  <2>1. SUFFICES ASSUME NEW c \in Cpus
                 PROVE  /\ inflight[c] = {heap.payload[p].addr : p \in Asked(c)}
                        /\ Cardinality(inflight[c])
                             = Len(output_vc[c]) + Len(input_vc[c])
                                 + Cardinality(Responding(c))
    BY DEF InflightIsOutstanding
  <2>2. Asked(c) = {} /\ Responding(c) = {}
    BY <1>8 DEF Initiators
  <2>3. inflight[c] = {} /\ output_vc[c] = <<>> /\ input_vc[c] = <<>>
    BY DEF Initiators
  <2>4. QED
    BY <1>3, <1>4, <2>2, <2>3
<1>13. UsageCountsRequests
  BY <1>3 DEF UsageCountsRequests, EmptyHeap
<1>14. QED
  BY <1>6, <1>7, <1>9, <1>10, <1>11, <1>12, <1>13 DEF IInv

-------------------------------------------------------------------------------
\* A set of numbers of an interval is finite.
LEMMA FinitePart ==
  ASSUME NEW m \in Int, NEW n \in Int, NEW s, s \subseteq m .. n
  PROVE  IsFiniteSet(s)
<1>1. IsFiniteSet(m .. n)
  BY FS_Interval
<1>2. QED
  BY <1>1, FS_Subset

\* Asked(c) in terms of the responses.
LEMMA AskedAre ==
  \A c : /\ Responding(c) = {r.pkt : r \in {s \in responses : s.port = c}}
         /\ Asked(c) = Queued(c) \cup {Original(r) : r \in {s \in responses : s.port = c}}
BY Zenon DEF Asked, Responding, Original

\* Every request on its way or waiting for its response is held by its packet.
LEMMA AskedHeld ==
  ASSUME IInv
  PROVE  /\ \A c \in Initiators : \A p \in Asked(c) : Holds(p, c)
         /\ \A r \in responses : /\ r.port \in Initiators
                                 /\ Original(r) \in Asked(r.port)
<1>1. \A r \in responses : r.port \in Initiators
  BY DEF IInv, TypeOK
<1>2. \A c \in Initiators : \A p \in Asked(c) : Holds(p, c)
  BY AskedAre, Zenon DEF IInv, RequestsHeld
<1>3. \A r \in responses : Original(r) \in Asked(r.port)
  BY AskedAre, Zenon
<1>4. QED
  BY <1>1, <1>2, <1>3

(***************************************************************************)
(* Each response is one to an accepted request, and to one that is not in  *)
(* a queue: so there are never more packets than MaxPackets.               *)
(***************************************************************************)
LEMMA AnswersAreRequests ==
  ASSUME IInv
  PROVE  /\ Cardinality(accepted) \in Nat
         /\ Cardinality(responses) \in Nat
         /\ Cardinality(responses) <= Cardinality(accepted)
         /\ \A c \in Initiators : \A p : p \in Queued(c) =>
              Cardinality(responses) + 1 <= Cardinality(accepted)
<1> DEFINE f == [r \in responses |-> heap.payload[r.pkt]]
<1>1. IsFiniteSet(accepted) /\ IsFiniteSet(responses)
  BY DEF IInv, RequestsNew
<1>2. Cardinality(accepted) \in Nat /\ Cardinality(responses) \in Nat
  BY <1>1, FS_CardinalityType
<1>3. \A r \in responses : /\ heap.payload[r.pkt] \in accepted
                           /\ heap.payload[r.pkt] = heap.payload[Original(r)]
  BY DEF IInv, RequestsHeld, Holds
<1>4. \A c, e \in Initiators : \A p \in Asked(c), q \in Asked(e) :
        heap.payload[p] = heap.payload[q] => p = q
  BY DEF IInv, RequestsHeld
<1>5. IsInjective(f)
  <2>1. SUFFICES ASSUME NEW r \in responses, NEW s \in responses,
                        heap.payload[r.pkt] = heap.payload[s.pkt]
                 PROVE  r = s
    BY DEF IsInjective
  <2>2. Original(r) = Original(s)
    BY <1>3, <1>4, <2>1, AskedHeld
  <2>3. QED
    BY <2>2 DEF IInv, PlacesApart
<1>6. Cardinality(responses) <= Cardinality(accepted)
  <2>1. f \in [responses -> accepted]
    BY <1>3
  <2>2. f \in Injection(responses, accepted)
    BY <1>5, <2>1 DEF Injection
  <2>3. QED
    BY <1>1, <2>2, FS_Injection
<1>7. ASSUME NEW c \in Initiators, NEW p, p \in Queued(c)
      PROVE  Cardinality(responses) + 1 <= Cardinality(accepted)
  <2> DEFINE others == accepted \ {heap.payload[p]}
  <2>1. p \in Asked(c)
    BY <1>7 DEF Asked
  <2>2. \A r \in responses : heap.payload[r.pkt] # heap.payload[p]
    <3>1. SUFFICES ASSUME NEW r \in responses, heap.payload[r.pkt] = heap.payload[p]
                   PROVE  FALSE
      OBVIOUS
    <3>2. Original(r) = p
      BY <1>3, <1>4, <2>1, <3>1, AskedHeld
    <3>3. QED
      BY <1>7, <3>2 DEF IInv, PlacesApart
  <2>3. f \in [responses -> others]
    BY <1>3, <2>2
  <2>4. f \in Injection(responses, others)
    BY <1>5, <2>3 DEF Injection
  <2>5. heap.payload[p] \in accepted
    BY <2>1, AskedHeld DEF Holds
  <2>6. IsFiniteSet(others) /\ Cardinality(others) = Cardinality(accepted) - 1
    BY <1>1, <2>5, FS_RemoveElement
  <2>7. Cardinality(responses) <= Cardinality(others)
    BY <2>4, <2>6, FS_Injection
  <2>8. QED
    BY <1>2, <2>6, <2>7
<1>8. QED
  BY <1>2, <1>6, <1>7

\* There is a Packet for a new request, and for a response.
LEMMA PacketLeft ==
  ASSUME IInv
  PROVE  /\ tries < MaxTries /\ heap.freelist = <<>> => heap.packets < MaxPackets
         /\ \A c \in Initiators : \A p : p \in Queued(c) /\ heap.freelist = <<>> =>
              heap.packets < MaxPackets
<1>1. heap.packets = Len(heap.freelist) + heap.usage
  BY DEF IInv, HeapSound
<1>2. heap.usage = Cardinality(accepted) + Cardinality(responses)
  BY DEF IInv, UsageCountsRequests
<1>3. Cardinality(accepted) <= tries /\ tries \in 0 .. MaxTries
  BY DEF IInv, RequestsNew, TypeOK
<1>4. MaxTries \in Nat /\ MaxPackets \in Nat /\ MaxPackets >= 2 * MaxTries
  BY EnoughPackets, Numbers
<1>5. heap.freelist = <<>> => Len(heap.freelist) = 0
  OBVIOUS
<1>6. QED
  BY <1>1, <1>2, <1>3, <1>4, <1>5, AnswersAreRequests

-------------------------------------------------------------------------------
\* Reading through a pointer to a payload that is allocated changes nothing.
LEMMA DerefLive ==
  ASSUME NEW h \in HeapType, HeapSound(h), NEW d \in h.live
  PROVE  Deref(h, d) = h
<1>1. ~ h.ub
  BY DEF HeapSound
<1>2. h.ub \in BOOLEAN
  BY DEF HeapType
<1>3. Deref(h, d) = [h EXCEPT !.ub = h.ub]
  BY <1>1, <1>2 DEF Deref
<1>4. [h EXCEPT !.ub = h.ub] = h
  BY DEF HeapType
<1>5. QED
  BY <1>3, <1>4

(***************************************************************************)
(* The packet of a new request: it is no packet on its way, its payload is *)
(* one that was never accepted, and everything held stays as it is.        *)
(***************************************************************************)
LEMMA RequestMade ==
  ASSUME IInv, NEW c \in Initiators, Issues(c)
  PROVE  LET a == Request(c)
             d == Payload(c, tries + 1, next_addr[c])
             g == Requested(c)
         IN  /\ g \in HeapType /\ HeapSound(g)
             /\ a \in Pkts /\ a \in 1 .. g.packets /\ a \notin Free(g)
             /\ d \in Payloads /\ d \notin accepted
             /\ g.payload[a] = d /\ d \in g.live /\ d \notin Doomed(g)
             /\ \A e \in g.live : e = d \/ e \in heap.live
             /\ \A p, e : Holds(p, e) =>
                  /\ p # a /\ p \in Pkts /\ p \in 1 .. g.packets /\ p \notin Free(g)
                  /\ g.payload[p] = heap.payload[p]
                  /\ g.original_req[p] = heap.original_req[p]
                  /\ heap.payload[p] \in g.live /\ heap.payload[p] \notin Doomed(g)
                  /\ heap.payload[p] # d
             /\ g.usage = heap.usage + 1
<1> DEFINE a == Request(c)
           d == Payload(c, tries + 1, next_addr[c])
           g == Requested(c)
           l == heap.live \cup {d}
           h == [heap EXCEPT !.live = l]
<1>1. /\ heap \in HeapType /\ HeapSound(heap)
      /\ tries \in 0 .. MaxTries /\ tries < MaxTries
      /\ next_addr[c] \in 0 .. MaxTries
      /\ MaxTries \in Nat
  BY Numbers DEF IInv, TypeOK, Issues
<1>2. d \in Payloads /\ d.try = tries + 1
  BY <1>1 DEF Payload, Payloads
<1>3. d \notin heap.live /\ d \notin accepted
  BY <1>1, <1>2 DEF IInv, RequestsNew
<1>4. l \in SUBSET Payloads
  BY <1>1, <1>2 DEF HeapType
<1>5. g = AcquireFilled(h, d, Null)
  BY DEF Requested
<1> HIDE DEF d, l
<1>6. /\ h \in HeapType
      /\ h.packets = heap.packets /\ h.usage = heap.usage /\ h.ub = heap.ub
      /\ h.freelist = heap.freelist /\ h.payload_freelist = heap.payload_freelist
      /\ h.payload = heap.payload /\ h.original_req = heap.original_req
      /\ h.live = l
  BY <1>1, <1>4 DEF HeapType
<1> HIDE DEF h, g
<1>7. Free(h) = Free(heap) /\ Doomed(h) = Doomed(heap)
  BY <1>6 DEF Free, Doomed
<1>8. HeapSound(h)
  BY <1>1, <1>6, <1>7 DEF HeapSound, l
<1>9. h.freelist = <<>> => h.packets < MaxPackets
  BY <1>1, <1>6, PacketLeft
<1>10. a = Acquired(h)
  BY <1>6 DEF Request, Acquired
<1> HIDE DEF a
<1>11. /\ g \in HeapType /\ HeapSound(g)
       /\ a \in 1 .. g.packets /\ a \notin Free(g) /\ a \in Pkts
       /\ g.payload[a] = d
       /\ \A p \in 1 .. h.packets : p \notin Free(h) =>
            /\ p # a /\ p \in 1 .. g.packets /\ p \notin Free(g)
            /\ g.payload[p] = h.payload[p]
            /\ g.original_req[p] = h.original_req[p]
       /\ g.live \subseteq h.live /\ h.live \ Doomed(h) \subseteq g.live
       /\ Doomed(g) \subseteq Doomed(h)
       /\ g.usage = h.usage + 1
  <2>1. Null \in Pkts \cup {Null}
    OBVIOUS
  <2>2. LET b == Acquired(h)
            k == AcquireFilled(h, d, Null)
        IN  /\ k \in HeapType /\ HeapSound(k)
            /\ b \in 1 .. k.packets /\ b \notin Free(k) /\ b \in Pkts
            /\ k.payload[b] = d
            /\ \A p \in 1 .. h.packets : p \notin Free(h) =>
                 /\ p # b /\ p \in 1 .. k.packets /\ p \notin Free(k)
                 /\ k.payload[p] = h.payload[p]
                 /\ k.original_req[p] = h.original_req[p]
            /\ k.live \subseteq h.live /\ h.live \ Doomed(h) \subseteq k.live
            /\ Doomed(k) \subseteq Doomed(h)
            /\ k.usage = h.usage + 1
    BY <1>2, <1>6, <1>8, <1>9, <2>1, AcquiredPool
  <2>3. QED
    BY <1>5, <1>10, <2>2
<1>12. d \in g.live /\ d \notin Doomed(g)
  <2>1. Doomed(heap) \subseteq heap.live
    BY <1>1 DEF HeapSound
  <2>2. d \in h.live /\ d \notin Doomed(h)
    BY <1>3, <1>6, <1>7, <2>1 DEF l
  <2>3. QED
    BY <1>11, <2>2
<1>13. \A e \in g.live : e = d \/ e \in heap.live
  BY <1>6, <1>11 DEF l
<1>14. ASSUME NEW p, NEW e, Holds(p, e)
       PROVE  /\ p # a /\ p \in Pkts /\ p \in 1 .. g.packets /\ p \notin Free(g)
              /\ g.payload[p] = heap.payload[p]
              /\ g.original_req[p] = heap.original_req[p]
              /\ heap.payload[p] \in g.live /\ heap.payload[p] \notin Doomed(g)
              /\ heap.payload[p] # d
  <2>1. /\ p \in 1 .. h.packets /\ p \notin Free(h)
        /\ heap.payload[p] \in h.live /\ heap.payload[p] \notin Doomed(h)
        /\ heap.payload[p] \in accepted
    BY <1>6, <1>7, <1>14 DEF Holds, l
  <2>2. p \in Pkts
    BY <1>1, <1>6, <2>1, EnoughPackets DEF HeapType, Pkts
  <2>3. QED
    BY <1>3, <1>6, <1>11, <2>1, <2>2
<1>15. g.usage = heap.usage + 1
  BY <1>6, <1>11
<1>16. QED
  BY <1>2, <1>3, <1>11, <1>12, <1>13, <1>14, <1>15 DEF a, d, g

LEMMA NewPacket ==
  ASSUME IInv, NEW c \in Initiators, Issues(c)
  PROVE  Request(c) \in Pkts /\ Request(c) \notin Queued(c)
<1>1. \A p \in Queued(c) : Holds(p, c)
  BY AskedHeld DEF Asked
<1>2. QED
  BY <1>1, RequestMade

(***************************************************************************)
(* The queues of c after the packet a has been added to one of them: each  *)
(* packet is still in one place, and no queue is longer than its link      *)
(* allows.                                                                 *)
(***************************************************************************)
QueuesSound ==
  /\ output_vc \in [Initiators -> Seq(Pkts)]
  /\ input_vc \in [Initiators -> Seq(Pkts)]
  /\ \A e \in Initiators :
       /\ Len(output_vc[e]) \in 0 .. OutSize /\ Len(input_vc[e]) \in 0 .. InSize
       /\ IsInjective(output_vc[e]) /\ IsInjective(input_vc[e])
       /\ ToSet(output_vc[e]) \cap ToSet(input_vc[e]) = {}

Queues(e) == Len(output_vc[e]) + Len(input_vc[e])

QueuesGrow(c, a) ==
  /\ QueuesSound'
  /\ Queued(c)' = Queued(c) \cup {a}
  /\ \A e \in Initiators \ {c} : Queued(e)' = Queued(e)
  /\ Queues(c)' = Queues(c) + 1
  /\ \A e \in Initiators \ {c} : Queues(e)' = Queues(e)

LEMMA SoundQueues ==
  ASSUME IInv
  PROVE  QueuesSound /\ \A e \in Initiators : Queues(e) \in Nat
<1>1. QueuesSound
  BY Numbers DEF IInv, TypeOK, PlacesApart, QueuesSound
<1>2. QED
  BY <1>1 DEF QueuesSound, Queues

LEMMA QueuedDirect ==
  ASSUME IInv, NEW c \in Initiators, NEW a \in Pkts, a \notin Queued(c),
         input_vc' = [input_vc EXCEPT ![c] = Append(@, a)],
         Len(input_vc[c]) < InSize, UNCHANGED output_vc
  PROVE  QueuesGrow(c, a)
<1>1. QueuesSound /\ \A e \in Initiators : Queues(e) \in Nat
  BY SoundQueues
<1>2. a \notin ToSet(input_vc[c]) /\ a \notin ToSet(output_vc[c])
  BY DEF Queued
<1>3. /\ input_vc' \in [Initiators -> Seq(Pkts)]
      /\ Len(input_vc'[c]) = Len(input_vc[c]) + 1 /\ IsInjective(input_vc'[c])
      /\ ToSet(input_vc'[c]) = ToSet(input_vc[c]) \cup {a}
      /\ \A e \in Initiators \ {c} : input_vc'[e] = input_vc[e]
  <2> DEFINE q == Append(input_vc[c], a)
  <2>1. input_vc \in [Initiators -> Seq(Pkts)] /\ IsInjective(input_vc[c])
    BY <1>1 DEF QueuesSound
  <2>2. /\ q \in Seq(Pkts) /\ Len(q) = Len(input_vc[c]) + 1 /\ IsInjective(q)
        /\ ToSet(q) = ToSet(input_vc[c]) \cup {a}
    BY <1>2, <2>1, Appended
  <2>3. input_vc' = [input_vc EXCEPT ![c] = q]
    OBVIOUS
  <2> HIDE DEF q
  <2>4. QED
    BY <2>1, <2>2, <2>3
<1>4. QueuesSound'
  <2>1. SUFFICES ASSUME NEW e \in Initiators
                 PROVE  /\ Len(input_vc'[e]) \in 0 .. InSize
                        /\ IsInjective(input_vc'[e])
                        /\ ToSet(output_vc[e]) \cap ToSet(input_vc'[e]) = {}
    BY <1>1, <1>3 DEF QueuesSound
  <2>2. CASE e = c
    BY <1>1, <1>2, <1>3, <2>2, Numbers DEF QueuesSound
  <2>3. CASE e # c
    BY <1>1, <1>3, <2>3 DEF QueuesSound
  <2>4. QED
    BY <2>2, <2>3
<1>5. Queues(c)' = Queues(c) + 1
  BY <1>1, <1>3 DEF QueuesSound, Queues
<1>6. QED
  BY <1>3, <1>4, <1>5 DEF QueuesGrow, Queued, Queues

LEMMA QueuedBehind ==
  ASSUME IInv, NEW c \in Initiators, NEW a \in Pkts, a \notin Queued(c),
         output_vc' = [output_vc EXCEPT ![c] = Append(@, a)],
         Len(output_vc[c]) < OutSize, UNCHANGED input_vc
  PROVE  QueuesGrow(c, a)
<1>1. QueuesSound /\ \A e \in Initiators : Queues(e) \in Nat
  BY SoundQueues
<1>2. a \notin ToSet(input_vc[c]) /\ a \notin ToSet(output_vc[c])
  BY DEF Queued
<1>3. /\ output_vc' \in [Initiators -> Seq(Pkts)]
      /\ Len(output_vc'[c]) = Len(output_vc[c]) + 1 /\ IsInjective(output_vc'[c])
      /\ ToSet(output_vc'[c]) = ToSet(output_vc[c]) \cup {a}
      /\ \A e \in Initiators \ {c} : output_vc'[e] = output_vc[e]
  <2> DEFINE q == Append(output_vc[c], a)
  <2>1. output_vc \in [Initiators -> Seq(Pkts)] /\ IsInjective(output_vc[c])
    BY <1>1 DEF QueuesSound
  <2>2. /\ q \in Seq(Pkts) /\ Len(q) = Len(output_vc[c]) + 1 /\ IsInjective(q)
        /\ ToSet(q) = ToSet(output_vc[c]) \cup {a}
    BY <1>2, <2>1, Appended
  <2>3. output_vc' = [output_vc EXCEPT ![c] = q]
    OBVIOUS
  <2> HIDE DEF q
  <2>4. QED
    BY <2>1, <2>2, <2>3
<1>4. QueuesSound'
  <2>1. SUFFICES ASSUME NEW e \in Initiators
                 PROVE  /\ Len(output_vc'[e]) \in 0 .. OutSize
                        /\ IsInjective(output_vc'[e])
                        /\ ToSet(output_vc'[e]) \cap ToSet(input_vc[e]) = {}
    BY <1>1, <1>3 DEF QueuesSound
  <2>2. CASE e = c
    BY <1>1, <1>2, <1>3, <2>2, Numbers DEF QueuesSound
  <2>3. CASE e # c
    BY <1>1, <1>3, <2>3 DEF QueuesSound
  <2>4. QED
    BY <2>2, <2>3
<1>5. Queues(c)' = Queues(c) + 1
  BY <1>1, <1>3 DEF QueuesSound, Queues
<1>6. QED
  BY <1>3, <1>4, <1>5 DEF QueuesGrow, Queued, Queues

\* A request that the link takes, into either of its queues.
LEMMA RequestTaken ==
  ASSUME IInv, NEW c \in Initiators, Issues(c), Accepted(c),
         tries' = tries + 1, UNCHANGED <<completed, responses>>,
         QueuesGrow(c, Request(c))
  PROVE  IInv'
<1>25. PICK a, d : a = Request(c) /\ d = Payload(c, tries + 1, next_addr[c])
  OBVIOUS
<1>1. /\ tries \in 0 .. MaxTries /\ tries < MaxTries /\ MaxTries \in Nat
      /\ next_addr \in [Initiators -> 0 .. MaxTries]
      /\ inflight \in [Cpus -> SUBSET (0 .. MaxTries)]
      /\ output_vc \in [Initiators -> Seq(Pkts)]
      /\ input_vc \in [Initiators -> Seq(Pkts)]
      /\ OutSize \in Nat /\ InSize \in Nat /\ MaxInflight \in Nat
  BY Numbers DEF IInv, TypeOK, Issues
<1>2. /\ heap' \in HeapType /\ HeapSound(heap')
      /\ a \in Pkts /\ a \in 1 .. heap'.packets /\ a \notin Free(heap')
      /\ d \in Payloads /\ d \notin accepted
      /\ heap'.payload[a] = d /\ d \in heap'.live /\ d \notin Doomed(heap')
      /\ \A e \in heap'.live : e = d \/ e \in heap.live
      /\ \A p, e : Holds(p, e) =>
           /\ p # a /\ p \in Pkts /\ p \in 1 .. heap'.packets /\ p \notin Free(heap')
           /\ heap'.payload[p] = heap.payload[p]
           /\ heap'.original_req[p] = heap.original_req[p]
           /\ heap.payload[p] \in heap'.live /\ heap.payload[p] \notin Doomed(heap')
           /\ heap.payload[p] # d
      /\ heap'.usage = heap.usage + 1
  BY <1>25, RequestMade DEF Accepted
<1>3. d.by = c /\ d.try = tries + 1 /\ d.addr = next_addr[c]
  BY <1>25 DEF Payload
<1>4. /\ accepted' = accepted \cup {d}
      /\ next_addr' = [next_addr EXCEPT ![c] = next_addr[c] + 1]
      /\ inflight' = IF c \in Cpus
                     THEN [inflight EXCEPT ![c] = inflight[c] \cup {next_addr[c]}]
                     ELSE inflight
  BY <1>25 DEF Accepted
<1>24. PlacesApart /\ RequestsHeld
  BY DEF IInv
<1>5. /\ \A e \in Initiators : \A p \in Asked(e) : Holds(p, e)
      /\ \A r \in responses : Holds(r.pkt, r.port) /\ Holds(Original(r), r.port)
      /\ \A r \in responses : r.port \in Initiators
  BY AskedHeld DEF IInv, RequestsHeld
<1>6. \A p, e : Holds(p, e) => Holds(p, e)' /\ p # a
  BY <1>2, <1>4 DEF Holds
<1>7. Holds(a, c)'
  BY <1>2, <1>3, <1>4 DEF Holds
<1>8. \A e \in Initiators : a \notin Queued(e)
  BY <1>5, <1>6 DEF Asked
<1>9. /\ QueuesSound'
      /\ Queued(c)' = Queued(c) \cup {a}
      /\ \A e \in Initiators \ {c} : Queued(e)' = Queued(e)
      /\ Queues(c)' = Queues(c) + 1
      /\ \A e \in Initiators \ {c} : Queues(e)' = Queues(e)
      /\ \A e \in Initiators : Queues(e) \in Nat
  BY <1>25, SoundQueues DEF QueuesGrow
<1>10. \A r \in responses : Original(r)' = Original(r)
  BY <1>2, <1>5 DEF Original
<1>11. /\ \A e : Responding(e)' = Responding(e)
       /\ Asked(c)' = Asked(c) \cup {a}
       /\ \A e \in Initiators \ {c} : Asked(e)' = Asked(e)
  <2>1. \A e : Responding(e)' = Responding(e)
    BY DEF Responding
  <2>2. \A e : {Original(r)' : r \in {s \in responses : s.port = e}}
                 = {Original(r) : r \in {s \in responses : s.port = e}}
    BY <1>10
  <2>3. \A e : Asked(e)'
                 = Queued(e)' \cup {Original(r)' : r \in {s \in responses' : s.port = e}}
    BY DEF Asked, Responding, Original
  <2>4. \A e : {Original(r)' : r \in {s \in responses' : s.port = e}}
                 = {Original(r) : r \in {s \in responses : s.port = e}}
    BY <2>2
  <2>5. \A e : Asked(e)' = Queued(e)' \cup {Original(r) : r \in {s \in responses : s.port = e}}
    BY <2>3, <2>4
  <2>6. QED
    BY <1>9, <2>1, <2>5, AskedAre
\* The requests.
<1>12. PlacesApart'
  <2>1. \A e \in Initiators :
          /\ IsInjective(output_vc'[e]) /\ IsInjective(input_vc'[e])
          /\ ToSet(output_vc'[e]) \cap ToSet(input_vc'[e]) = {}
    BY <1>9 DEF QueuesSound
  <2>2. ASSUME NEW e \in Initiators, NEW f \in Initiators, e # f
        PROVE  Queued(e)' \cap Queued(f)' = {}
    <3>1. Queued(e) \cap Queued(f) = {}
      BY <1>24, <2>2 DEF PlacesApart
    <3>2. QED
      BY <1>8, <1>9, <2>2, <3>1
  <2>3. ASSUME NEW r \in responses', NEW e \in Initiators
        PROVE  r.pkt \notin Queued(e)' /\ Original(r)' \notin Queued(e)'
    <3>1. r.pkt \notin Queued(e) /\ Original(r) \notin Queued(e)
      BY <1>24 DEF PlacesApart
    <3>2. r.pkt # a /\ Original(r) # a
      BY <1>5, <1>6
    <3>3. QED
      BY <1>9, <1>10, <3>1, <3>2
  <2>4. \A r, s \in responses' :
          /\ r.pkt # Original(s)'
          /\ r # s => r.pkt # s.pkt /\ Original(r)' # Original(s)'
    BY <1>10, <1>24 DEF PlacesApart
  <2>5. QED
    BY <2>1, <2>2, <2>3, <2>4 DEF PlacesApart
<1>13. RequestsHeld'
  <2>1. \A e \in Initiators : \A p \in Queued(e)' : Holds(p, e)'
    BY <1>5, <1>6, <1>7, <1>9 DEF Asked
  <2>2. \A r \in responses' :
          /\ Holds(r.pkt, r.port)' /\ Holds(Original(r), r.port)'
          /\ heap'.payload[r.pkt] = heap'.payload[Original(r)']
    <3>1. \A r \in responses : heap.payload[r.pkt] = heap.payload[Original(r)]
      BY <1>24 DEF RequestsHeld
    <3>2. QED
      BY <1>2, <1>5, <1>6, <1>10, <3>1
  <2>3. ASSUME NEW e \in Initiators, NEW f \in Initiators,
               NEW p \in Asked(e)', NEW q \in Asked(f)',
               heap'.payload[p] = heap'.payload[q]
        PROVE  p = q
    <3>1. \A x \in Asked(e) \cup Asked(f) :
            heap'.payload[x] = heap.payload[x] /\ heap.payload[x] # d
      BY <1>2, <1>5
    <3>2. CASE p \in Asked(e) /\ q \in Asked(f)
      BY <1>24, <2>3, <3>1, <3>2 DEF RequestsHeld
    <3>3. CASE p = a /\ q = a
      BY <3>3
    <3>4. CASE \/ p = a /\ q \in Asked(f)
               \/ p \in Asked(e) /\ q = a
      BY <1>2, <2>3, <3>1, <3>4
    <3>5. /\ p \in Asked(e) \/ p = a
          /\ q \in Asked(f) \/ q = a
      BY <1>11
    <3>6. QED
      BY <3>2, <3>3, <3>4, <3>5
  <2>4. QED
    BY <2>1, <2>2, <2>3 DEF RequestsHeld
<1>14. d \notin accepted /\ IsFiniteSet(accepted')
       /\ Cardinality(accepted') = Cardinality(accepted) + 1
  BY <1>2, <1>4, FS_AddElement DEF IInv, RequestsNew
<1>15. next_addr[c] <= tries /\ next_addr[c] \in Nat /\ next_addr'[c] = next_addr[c] + 1
       /\ \A e \in Initiators \ {c} : next_addr'[e] = next_addr[e]
  BY <1>1, <1>4 DEF IInv, RequestsNew
<1>16. \A e \in accepted : e.by = c => e.addr < next_addr[c] /\ e.addr # next_addr[c]
  <2>1. \A e \in accepted : e.by = c => e.addr < next_addr[c]
    BY DEF IInv, RequestsNew
  <2>2. \A e \in accepted : e.addr \in Nat
    BY <1>1 DEF IInv, TypeOK, Payloads
  <2>3. QED
    BY <1>15, <2>1, <2>2
<1>17. RequestsNew'
  <2>1. \A e \in heap'.live : e.try <= tries'
    <3>1. \A e \in heap.live : e.try \in Int /\ e.try <= tries
      BY <1>1 DEF IInv, TypeOK, HeapType, Payloads, RequestsNew
    <3>2. d.try = tries + 1 /\ \A e \in heap'.live : e = d \/ e \in heap.live
      BY <1>2, <1>3
    <3>3. tries' = tries + 1 /\ tries \in Int
      BY <1>1
    <3>4. QED
      BY <3>1, <3>2, <3>3
  <2>2. \A e \in accepted' : e.try <= tries' /\ e.addr < next_addr'[e.by]
    <3>1. \A e \in accepted : /\ e.try \in Int /\ e.try <= tries
                              /\ e.addr \in Int /\ e.addr < next_addr[e.by]
                              /\ e.by \in Initiators
      BY <1>1 DEF IInv, TypeOK, Payloads, RequestsNew
    <3>2. \A e \in Initiators : next_addr[e] \in Int
      BY <1>1
    <3>3. tries' = tries + 1 /\ tries \in Int
      BY <1>1
    <3>4. \A e \in accepted : e.try <= tries'
      BY <3>1, <3>3
    <3>5. \A e \in accepted : e.addr < next_addr'[e.by]
      BY <1>15, <3>1, <3>2
    <3>6. d.try <= tries' /\ d.addr < next_addr'[d.by]
      BY <1>1, <1>3, <1>15
    <3>7. QED
      BY <1>4, <3>4, <3>5, <3>6
  <2>3. \A e, f \in accepted' : e.by = f.by /\ e.addr = f.addr => e = f
    <3>1. \A e, f \in accepted : e.by = f.by /\ e.addr = f.addr => e = f
      BY DEF IInv, RequestsNew
    <3>2. QED
      BY <1>3, <1>4, <1>16, <3>1
  <2>4. \A e \in Initiators : next_addr'[e] <= tries'
    <3>1. \A e \in Initiators : next_addr[e] \in Int /\ next_addr[e] <= tries
      BY <1>1 DEF IInv, RequestsNew
    <3>2. tries' = tries + 1 /\ tries \in Int
      BY <1>1
    <3>3. \A e \in Initiators \ {c} : next_addr'[e] <= tries'
      BY <1>15, <3>1, <3>2
    <3>4. next_addr'[c] <= tries'
      BY <1>15, <3>2
    <3>5. QED
      BY <3>3, <3>4
  <2>5. Cardinality(accepted') <= tries'
    <3>1. Cardinality(accepted) \in Int /\ Cardinality(accepted) <= tries
      BY AnswersAreRequests DEF IInv, RequestsNew
    <3>2. tries' = tries + 1 /\ tries \in Int
      BY <1>1
    <3>3. QED
      BY <1>14, <3>1, <3>2
  <2>6. IsFiniteSet(responses')
    BY DEF IInv, RequestsNew
  <2>7. QED
    BY <1>14, <2>1, <2>2, <2>3, <2>4, <2>5, <2>6 DEF RequestsNew
\* What the CPUs have in flight.
<1>18. \A e \in Cpus : e \in Initiators /\ IsFiniteSet(inflight[e])
  <2>1. \A e \in Cpus : e \in Initiators /\ inflight[e] \subseteq 0 .. MaxTries
    BY <1>1 DEF Initiators
  <2>2. 0 \in Int /\ MaxTries \in Int
    BY <1>1
  <2>3. QED
    BY <2>1, <2>2, FinitePart
<1>19. ASSUME NEW e \in Cpus
       PROVE  /\ inflight'[e] = {heap'.payload[p].addr : p \in Asked(e)'}
              /\ Cardinality(inflight'[e]) = Queues(e)' + Cardinality(Responding(e)')
              /\ Cardinality(inflight'[e]) <= MaxInflight
              /\ inflight'[e] \subseteq 0 .. MaxTries
  <2>1. /\ inflight[e] = {heap.payload[p].addr : p \in Asked(e)}
        /\ Cardinality(inflight[e]) = Queues(e) + Cardinality(Responding(e))
        /\ Cardinality(inflight[e]) <= MaxInflight
        /\ Cardinality(inflight[e]) \in Nat
    BY <1>18, FS_CardinalityType
    DEF IInv, HeapSound, InflightIsOutstanding, TypeOK, Queues
  <2>2. \A p \in Asked(e) : heap'.payload[p] = heap.payload[p]
    BY <1>2, <1>5, <1>18
  <2>3. CASE e # c
    <3>1. /\ inflight'[e] = inflight[e] /\ Asked(e)' = Asked(e)
          /\ Queues(e)' = Queues(e) /\ Responding(e)' = Responding(e)
      BY <1>1, <1>4, <1>9, <1>11, <1>18, <2>3
    <3>2. {heap'.payload[p].addr : p \in Asked(e)'} = {heap.payload[p].addr : p \in Asked(e)}
      BY ONLY <2>2, <3>1
    <3>3. inflight[e] \subseteq 0 .. MaxTries
      BY <1>1
    <3>4. QED
      BY ONLY <2>1, <3>1, <3>2, <3>3
  <2>4. CASE e = c
    <3>1. inflight'[e] = inflight[e] \cup {next_addr[c]}
      BY <1>1, <1>4, <2>4
    <3>2. Asked(e)' = Asked(e) \cup {a}
      BY <1>11, <2>4
    <3>3. heap'.payload[a].addr = next_addr[c]
      BY <1>2, <1>3
    <3>4. inflight'[e] = {heap'.payload[p].addr : p \in Asked(e)'}
      BY <2>1, <2>2, <3>1, <3>2, <3>3
    <3>5. next_addr[c] \notin inflight[e]
      <4>1. SUFFICES ASSUME NEW p \in Asked(e), heap.payload[p].addr = next_addr[c]
                     PROVE  FALSE
        BY <2>1
      <4>2. heap.payload[p] \in accepted /\ heap.payload[p].by = c
        BY <1>5, <2>4 DEF Holds
      <4>3. QED
        BY <1>16, <4>1, <4>2
    <3>6. Cardinality(inflight'[e]) = Cardinality(inflight[e]) + 1
      BY <1>18, <3>1, <3>5, FS_AddElement
    <3>7. Cardinality(inflight[e]) < MaxInflight
      BY <2>4 DEF Issues
    <3>8. Cardinality(inflight'[e]) <= MaxInflight
      BY <1>1, <2>1, <3>6, <3>7
    <3>9. Cardinality(inflight'[e]) = Queues(e)' + Cardinality(Responding(e)')
      <4>1. Cardinality(Responding(e)) \in Int
        <5>1. Responding(e) \subseteq Pkts
          BY <1>2, <1>5 DEF Responding
        <5>2. IsFiniteSet(Responding(e))
          BY <5>1, EnoughPackets, FinitePart DEF Pkts
        <5>3. QED
          BY <5>2, FS_CardinalityType
      <4>2. Queues(e)' = Queues(e) + 1 /\ Responding(e)' = Responding(e)
        BY <1>9, <1>11, <2>4
      <4>3. Queues(e) \in Int
        BY <1>9, <1>18
      <4>4. QED
        BY <2>1, <3>6, <4>1, <4>2, <4>3
    <3>10. next_addr[c] \in 0 .. MaxTries
      BY <1>1
    <3>11. QED
      BY <1>1, <3>1, <3>4, <3>8, <3>9, <3>10
  <2>5. QED
    BY <2>3, <2>4
<1>20. InflightIsOutstanding'
  BY <1>19 DEF InflightIsOutstanding, Queues
<1>21. UsageCountsRequests'
  <2>1. heap.usage = Cardinality(accepted) + Cardinality(responses)
    BY DEF IInv, UsageCountsRequests
  <2>2. QED
    BY <1>2, <1>14, <2>1, AnswersAreRequests DEF UsageCountsRequests
<1>22. TypeOK'
  <2>1. next_addr' \in [Initiators -> 0 .. MaxTries]
    BY <1>1, <1>4, <1>15
  <2>2. inflight' \in [Cpus -> SUBSET (0 .. MaxTries)]
    <3>1. inflight' = [e \in Cpus |-> inflight'[e]]
      BY <1>1, <1>4
    <3>2. QED
      BY <1>19, <3>1
  <2>3. /\ completed' \in [Initiators -> Nat]
        /\ responses' \subseteq [pkt : Pkts, port : Initiators]
        /\ accepted' \subseteq Payloads
    BY <1>2, <1>4 DEF IInv, TypeOK
  <2>4. tries' \in 0 .. MaxTries
    BY <1>1
  <2>5. /\ output_vc' \in [Initiators -> Seq(Pkts)]
        /\ input_vc' \in [Initiators -> Seq(Pkts)]
        /\ \A e \in Initiators : Len(output_vc'[e]) <= OutSize /\ Len(input_vc'[e]) <= InSize
    BY <1>1, <1>9 DEF QueuesSound
  <2>6. QED
    BY <1>2, <1>19, <2>1, <2>2, <2>3, <2>4, <2>5 DEF TypeOK
<1>23. QED
  BY <1>2, <1>12, <1>13, <1>17, <1>20, <1>21, <1>22 DEF IInv

(***************************************************************************)
(* What stays as it is when the packets that hold requests do: whose they  *)
(* are, and what is asked.                                                 *)
(***************************************************************************)
LEMMA HeldStays ==
  ASSUME IInv, UNCHANGED <<output_vc, input_vc, responses>>,
         \A p, e : Holds(p, e) =>
           /\ Holds(p, e)'
           /\ heap'.payload[p] = heap.payload[p]
           /\ heap'.original_req[p] = heap.original_req[p]
  PROVE  /\ PlacesApart' /\ RequestsHeld'
         /\ \A e \in Initiators : /\ Asked(e)' = Asked(e)
                                  /\ Responding(e)' = Responding(e)
                                  /\ \A p \in Asked(e) :
                                       heap'.payload[p] = heap.payload[p]
<1>1. PlacesApart /\ RequestsHeld
  BY DEF IInv
<1>2. /\ \A e \in Initiators : \A p \in Asked(e) : Holds(p, e)
      /\ \A r \in responses : Holds(r.pkt, r.port) /\ Holds(Original(r), r.port)
  BY <1>1, AskedHeld DEF RequestsHeld
<1>3. \A r \in responses : Original(r)' = Original(r)
  BY <1>2 DEF Original
<1>4. \A e : Queued(e)' = Queued(e) /\ Responding(e)' = Responding(e)
  BY DEF Queued, Responding
<1>5. \A e : Asked(e)' = Asked(e)
  <2>1. \A e : Asked(e)'
                 = Queued(e)' \cup {Original(r)' : r \in {s \in responses' : s.port = e}}
    BY DEF Asked, Responding, Original
  <2>2. \A e : {Original(r)' : r \in {s \in responses' : s.port = e}}
                 = {Original(r) : r \in {s \in responses : s.port = e}}
    BY <1>3
  <2>3. QED
    BY <1>4, <2>1, <2>2, AskedAre
<1>6. PlacesApart'
  BY <1>1, <1>3, <1>4 DEF PlacesApart
<1>7. RequestsHeld'
  <2>1. \A e \in Initiators : \A p \in Queued(e)' : Holds(p, e)'
    BY <1>2, <1>4 DEF Asked
  <2>2. \A r \in responses' :
          /\ Holds(r.pkt, r.port)' /\ Holds(Original(r), r.port)'
          /\ heap'.payload[r.pkt] = heap'.payload[Original(r)']
    BY <1>1, <1>2, <1>3 DEF RequestsHeld
  <2>3. \A e, f \in Initiators : \A p \in Asked(e)', q \in Asked(f)' :
          heap'.payload[p] = heap'.payload[q] => p = q
    <3>1. \A e, f \in Initiators : \A p \in Asked(e), q \in Asked(f) :
            heap.payload[p] = heap.payload[q] => p = q
      BY <1>1 DEF RequestsHeld
    <3>2. QED
      BY <1>2, <1>5, <3>1
  <2>4. QED
    BY <2>1, <2>2, <2>3 DEF RequestsHeld
<1>8. QED
  BY <1>2, <1>4, <1>5, <1>6, <1>7

\* A request that is refused leaves only its payload behind, to be deleted.
LEMMA RequestRefused ==
  ASSUME IInv, NEW c \in Initiators, SendRefused(c)
  PROVE  IInv'
<1>1. PICK a, d : a = Request(c) /\ d = Payload(c, tries + 1, next_addr[c])
  OBVIOUS
<1>2. PICK g : g = Requested(c)
  OBVIOUS
<1>3. /\ tries \in 0 .. MaxTries /\ tries < MaxTries /\ MaxTries \in Nat
      /\ next_addr \in [Initiators -> 0 .. MaxTries]
      /\ heap.usage \in Nat
  BY Numbers DEF IInv, TypeOK, HeapType, SendRefused, Issues
<1>4. /\ g \in HeapType /\ HeapSound(g)
      /\ a \in Pkts /\ a \in 1 .. g.packets /\ a \notin Free(g)
      /\ d \in Payloads /\ d \notin accepted
      /\ g.payload[a] = d /\ d \in g.live /\ d \notin Doomed(g)
      /\ \A e \in g.live : e = d \/ e \in heap.live
      /\ \A p, e : Holds(p, e) =>
           /\ p # a /\ p \in Pkts /\ p \in 1 .. g.packets /\ p \notin Free(g)
           /\ g.payload[p] = heap.payload[p]
           /\ g.original_req[p] = heap.original_req[p]
           /\ heap.payload[p] \in g.live /\ heap.payload[p] \notin Doomed(g)
           /\ heap.payload[p] # d
      /\ g.usage = heap.usage + 1
  BY <1>1, <1>2, RequestMade DEF SendRefused
<1>5. heap' = Release(g, a)
  BY <1>1, <1>2 DEF SendRefused
<1>6. /\ heap' \in HeapType /\ HeapSound(heap')
      /\ heap'.packets = g.packets
      /\ Free(heap') = Free(g) \cup {a} /\ Doomed(heap') = Doomed(g) \cup {d}
      /\ heap'.live = g.live
      /\ \A q \in Pkts \ {a} : /\ heap'.payload[q] = g.payload[q]
                               /\ heap'.original_req[q] = g.original_req[q]
      /\ heap'.usage = heap.usage
  <2>1. g.usage >= 1 /\ g.usage - 1 = heap.usage
    BY <1>3, <1>4
  <2>2. LET k == Release(g, a)
        IN  /\ k \in HeapType /\ HeapSound(k)
            /\ k.packets = g.packets
            /\ Free(k) = Free(g) \cup {a}
            /\ Doomed(k) = Doomed(g) \cup {g.payload[a]}
            /\ k.live = g.live
            /\ \A q \in Pkts \ {a} : /\ k.payload[q] = g.payload[q]
                                     /\ k.original_req[q] = g.original_req[q]
            /\ k.usage = g.usage - 1
    BY <1>4, <2>1, ReleasedPool
  <2>3. QED
    BY <1>4, <1>5, <2>1, <2>2
<1>7. UNCHANGED <<inflight, completed, output_vc, input_vc, responses, accepted>>
      /\ tries' = tries + 1
  BY DEF SendRefused, links
<1>8. ASSUME NEW p, NEW e, Holds(p, e)
      PROVE  /\ Holds(p, e)'
             /\ heap'.payload[p] = heap.payload[p]
             /\ heap'.original_req[p] = heap.original_req[p]
  <2>1. /\ heap'.payload[p] = heap.payload[p]
        /\ heap'.original_req[p] = heap.original_req[p]
    BY <1>4, <1>6, <1>8
  <2>2. p \in 1 .. heap'.packets /\ p \notin Free(heap')
    BY <1>4, <1>6, <1>8
  <2>3. heap'.payload[p] \in heap'.live /\ heap'.payload[p] \notin Doomed(heap')
    BY <1>4, <1>6, <1>8, <2>1
  <2>4. QED
    BY <1>7, <1>8, <2>1, <2>2, <2>3 DEF Holds
<1>9. /\ PlacesApart' /\ RequestsHeld'
      /\ \A e \in Initiators : /\ Asked(e)' = Asked(e)
                               /\ Responding(e)' = Responding(e)
                               /\ \A p \in Asked(e) : heap'.payload[p] = heap.payload[p]
  BY <1>7, <1>8, HeldStays
<1>10. \A e \in Initiators : /\ next_addr'[e] \in 0 .. MaxTries
                             /\ next_addr[e] <= next_addr'[e]
                             /\ next_addr'[e] <= tries'
  <2>1. \A e \in Initiators : next_addr[e] <= tries
    BY DEF IInv, RequestsNew
  <2>2. \A e \in Initiators : next_addr'[e] = next_addr[e] \/ next_addr'[e] = next_addr[e] + 1
    BY <1>3 DEF SendRefused
  <2>3. QED
    BY <1>3, <1>7, <2>1, <2>2
<1>11. RequestsNew'
  <2>1. RequestsNew
    BY DEF IInv
  <2>2. \A e \in heap'.live : e.try <= tries'
    <3>1. \A e \in heap.live : e.try \in Int /\ e.try <= tries
      BY <2>1 DEF IInv, TypeOK, HeapType, Payloads, RequestsNew
    <3>2. d.try = tries + 1
      BY <1>1 DEF Payload
    <3>3. QED
      BY <1>3, <1>4, <1>6, <1>7, <3>1, <3>2
  <2>3. \A e \in accepted : e.try <= tries' /\ e.addr < next_addr'[e.by]
    <3>1. \A e \in accepted : /\ e.try \in Int /\ e.try <= tries
                              /\ e.addr \in Int /\ e.addr < next_addr[e.by]
                              /\ e.by \in Initiators
      BY <2>1 DEF IInv, TypeOK, Payloads, RequestsNew
    <3>2. \A e \in Initiators : next_addr[e] \in Int
      BY <1>3
    <3>3. QED
      BY <1>3, <1>7, <1>10, <3>1, <3>2
  <2>4. Cardinality(accepted) <= tries'
    BY <1>3, <1>7, <2>1, AnswersAreRequests DEF RequestsNew
  <2>5. QED
    BY <1>7, <1>10, <2>1, <2>2, <2>3, <2>4 DEF RequestsNew
<1>12. InflightIsOutstanding'
  <2>1. SUFFICES ASSUME NEW e \in Cpus
                 PROVE  /\ inflight'[e] = {heap'.payload[p].addr : p \in Asked(e)'}
                        /\ Cardinality(inflight'[e])
                             = Len(output_vc'[e]) + Len(input_vc'[e])
                                 + Cardinality(Responding(e)')
    BY DEF InflightIsOutstanding
  <2>2. /\ inflight[e] = {heap.payload[p].addr : p \in Asked(e)}
        /\ Cardinality(inflight[e])
             = Len(output_vc[e]) + Len(input_vc[e]) + Cardinality(Responding(e))
    BY DEF IInv, HeapSound, InflightIsOutstanding
  <2>3. /\ inflight'[e] = inflight[e] /\ output_vc'[e] = output_vc[e]
        /\ input_vc'[e] = input_vc[e]
    BY <1>7
  <2>4. /\ Asked(e)' = Asked(e) /\ Responding(e)' = Responding(e)
        /\ \A p \in Asked(e) : heap'.payload[p] = heap.payload[p]
    BY <1>9 DEF Initiators
  <2>5. inflight'[e] = {heap'.payload[p].addr : p \in Asked(e)'}
    BY <2>2, <2>3, <2>4
  <2>6. QED
    BY <2>2, <2>3, <2>4, <2>5
<1>13. UsageCountsRequests'
  BY <1>6, <1>7 DEF IInv, UsageCountsRequests
<1>14. TypeOK'
  <2>1. next_addr' \in [Initiators -> 0 .. MaxTries]
    BY <1>3, <1>10 DEF SendRefused
  <2>2. tries' \in 0 .. MaxTries
    BY <1>3, <1>7
  <2>3. QED
    BY <1>6, <1>7, <2>1, <2>2 DEF IInv, TypeOK
<1>15. QED
  BY <1>6, <1>9, <1>11, <1>12, <1>13, <1>14 DEF IInv

\* A request that reaches the memory leaves its queue and has a response.
LEMMA RequestHandled ==
  ASSUME IInv, NEW c \in Initiators, MemoryHandles(c)
  PROVE  IInv'
<1>1. PICK p, a, d : p = Head(input_vc[c]) /\ a = Acquired(heap) /\ d = heap.payload[p]
  OBVIOUS
<1>2. PICK r0 : r0 = [pkt |-> a, port |-> c]
  OBVIOUS
<1>3. r0.pkt = a /\ r0.port = c
  BY <1>2
<1>4. QueuesSound /\ PlacesApart /\ RequestsHeld /\ heap \in HeapType /\ HeapSound(heap)
  BY SoundQueues DEF IInv, TypeOK
<1>5. /\ input_vc' = [input_vc EXCEPT ![c] = Tail(input_vc[c])]
      /\ responses' = responses \cup {r0}
      /\ UNCHANGED <<tries, next_addr, inflight, completed, output_vc, accepted>>
      /\ input_vc[c] # <<>>
      /\ heap' = Answered(heap, p)
  BY <1>1, <1>2 DEF MemoryHandles, AnswerPort
\* The queues.
<1>6. /\ p \in ToSet(input_vc[c])
      /\ Tail(input_vc[c]) \in Seq(Pkts)
      /\ Len(Tail(input_vc[c])) = Len(input_vc[c]) - 1
      /\ Len(input_vc[c]) \in 1 .. InSize
      /\ IsInjective(Tail(input_vc[c]))
      /\ ToSet(Tail(input_vc[c])) = ToSet(input_vc[c]) \ {p}
  <2>1. input_vc[c] \in Seq(Pkts) /\ IsInjective(input_vc[c])
    BY <1>4 DEF QueuesSound
  <2>2. Len(input_vc[c]) \in 0 .. InSize
    BY <1>4 DEF QueuesSound
  <2>3. QED
    BY <1>1, <1>5, <2>1, <2>2, Removed
<1>7. /\ input_vc' \in [Initiators -> Seq(Pkts)]
      /\ input_vc'[c] = Tail(input_vc[c])
      /\ \A e \in Initiators \ {c} : input_vc'[e] = input_vc[e]
  BY <1>4, <1>5, <1>6 DEF QueuesSound
<1>8. /\ Queued(c)' = Queued(c) \ {p} /\ p \in Queued(c)
      /\ \A e \in Initiators \ {c} : Queued(e)' = Queued(e)
  <2>1. p \notin ToSet(output_vc[c])
    BY <1>4, <1>6 DEF QueuesSound
  <2>2. QED
    BY <1>5, <1>6, <1>7, <2>1 DEF Queued
<1>9. QueuesSound'
  <2>1. SUFFICES ASSUME NEW e \in Initiators
                 PROVE  /\ Len(input_vc'[e]) \in 0 .. InSize
                        /\ IsInjective(input_vc'[e])
                        /\ ToSet(output_vc[e]) \cap ToSet(input_vc'[e]) = {}
    BY <1>4, <1>5, <1>7 DEF QueuesSound
  <2>2. CASE e = c
    <3>1. Len(input_vc'[c]) \in 0 .. InSize /\ IsInjective(input_vc'[c])
      BY <1>6, <1>7, Numbers
    <3>2. ToSet(input_vc'[c]) \subseteq ToSet(input_vc[c])
      BY <1>6, <1>7
    <3>3. ToSet(output_vc[c]) \cap ToSet(input_vc[c]) = {}
      BY <1>4 DEF QueuesSound
    <3>4. QED
      BY <2>2, <3>1, <3>2, <3>3
  <2>3. CASE e # c
    BY <1>4, <1>7, <2>3 DEF QueuesSound
  <2>4. QED
    BY <2>2, <2>3
<1>10. /\ \A e \in Initiators : Queues(e) \in Nat
       /\ Queues(c)' = Queues(c) - 1
       /\ \A e \in Initiators \ {c} : Queues(e)' = Queues(e)
  <2>1. Len(output_vc[c]) \in Nat
    BY <1>4 DEF QueuesSound
  <2>2. QED
    BY <1>5, <1>6, <1>7, <2>1, SoundQueues DEF Queues
\* The pool.
<1>11. /\ \A e \in Initiators : \A q \in Asked(e) : Holds(q, e)
       /\ \A r \in responses : Holds(r.pkt, r.port) /\ Holds(Original(r), r.port)
       /\ p \in Asked(c) /\ Holds(p, c)
  BY <1>4, <1>8, AskedHeld DEF RequestsHeld, Asked
<1>12. d \in heap.live /\ d \in Payloads
  BY <1>1, <1>4, <1>11 DEF Holds, HeapType
<1>13. p \in Pkts
  BY <1>4, <1>6, <1>11, EnoughPackets DEF Holds, HeapType, Pkts
<1>14. /\ heap' \in HeapType /\ HeapSound(heap')
       /\ a \in 1 .. heap'.packets /\ a \notin Free(heap') /\ a \in Pkts
       /\ heap'.payload[a] = d /\ heap'.original_req[a] = p
       /\ \A q \in 1 .. heap.packets : q \notin Free(heap) =>
            /\ q # a /\ q \in 1 .. heap'.packets /\ q \notin Free(heap')
            /\ heap'.payload[q] = heap.payload[q]
            /\ heap'.original_req[q] = heap.original_req[q]
       /\ heap'.live \subseteq heap.live /\ heap.live \ Doomed(heap) \subseteq heap'.live
       /\ Doomed(heap') \subseteq Doomed(heap)
       /\ heap'.usage = heap.usage + 1
  <2>1. heap' = AcquireFilled(heap, d, p)
    BY <1>1, <1>4, <1>5, <1>12, DerefLive DEF Answered
  <2>2. heap.freelist = <<>> => heap.packets < MaxPackets
    BY <1>8, PacketLeft
  <2>3. p \in Pkts \cup {Null}
    BY <1>13
  <2>4. LET b == Acquired(heap)
            k == AcquireFilled(heap, d, p)
        IN  /\ k \in HeapType /\ HeapSound(k)
            /\ b \in 1 .. k.packets /\ b \notin Free(k) /\ b \in Pkts
            /\ k.payload[b] = d /\ k.original_req[b] = p
            /\ \A q \in 1 .. heap.packets : q \notin Free(heap) =>
                 /\ q # b /\ q \in 1 .. k.packets /\ q \notin Free(k)
                 /\ k.payload[q] = heap.payload[q]
                 /\ k.original_req[q] = heap.original_req[q]
            /\ k.live \subseteq heap.live /\ heap.live \ Doomed(heap) \subseteq k.live
            /\ Doomed(k) \subseteq Doomed(heap)
            /\ k.usage = heap.usage + 1
    BY <1>4, <1>12, <2>2, <2>3, AcquiredPool
  <2>5. QED
    BY <1>1, <2>1, <2>4
<1>15. ASSUME NEW q, NEW e, Holds(q, e)
       PROVE  /\ Holds(q, e)' /\ q # a
              /\ heap'.payload[q] = heap.payload[q]
              /\ heap'.original_req[q] = heap.original_req[q]
  <2>1. /\ q # a /\ q \in 1 .. heap'.packets /\ q \notin Free(heap')
        /\ heap'.payload[q] = heap.payload[q]
        /\ heap'.original_req[q] = heap.original_req[q]
    BY <1>14, <1>15 DEF Holds
  <2>2. heap.payload[q] \in heap'.live /\ heap.payload[q] \notin Doomed(heap')
    BY <1>14, <1>15 DEF Holds
  <2>3. QED
    BY <1>5, <1>15, <2>1, <2>2 DEF Holds
<1>16. Holds(a, c)'
  BY <1>1, <1>5, <1>11, <1>14 DEF Holds
\* The responses.
<1>17. /\ \A r \in responses : r # r0 /\ r.pkt # a /\ Original(r) # a /\ Original(r) # p
       /\ \A r \in responses : Original(r)' = Original(r)
       /\ Original(r0)' = p
       /\ p # a
  <2>1. \A r \in responses : r.pkt # a /\ Original(r) # a
    BY <1>11, <1>15
  <2>2. \A r \in responses : Original(r) # p
    BY <1>4, <1>8 DEF PlacesApart
  <2>3. \A r \in responses : Original(r)' = Original(r)
    BY <1>11, <1>15 DEF Original
  <2>4. Original(r0)' = p
    BY <1>3, <1>14 DEF Original
  <2>5. QED
    BY <1>3, <1>11, <1>15, <2>1, <2>2, <2>3, <2>4
<1>18. /\ Responding(c)' = Responding(c) \cup {a} /\ a \notin Responding(c)
       /\ \A e \in Initiators \ {c} : Responding(e)' = Responding(e)
       /\ \A e \in Initiators : Asked(e)' = Asked(e)
  <2>1. {s \in responses' : s.port = c} = {s \in responses : s.port = c} \cup {r0}
    BY <1>3, <1>5
  <2>2. \A e \in Initiators \ {c} : {s \in responses' : s.port = e}
                                      = {s \in responses : s.port = e}
    BY <1>3, <1>5
  <2>3. Responding(c)' = Responding(c) \cup {a} /\ a \notin Responding(c)
    BY <1>3, <1>17, <2>1 DEF Responding
  <2>4. \A e \in Initiators \ {c} : Responding(e)' = Responding(e)
    BY <2>2 DEF Responding
  <2>5. \A e : Asked(e)'
                 = Queued(e)' \cup {Original(r)' : r \in {s \in responses' : s.port = e}}
    BY DEF Asked, Responding, Original
  <2>6. {Original(r)' : r \in {s \in responses' : s.port = c}}
          = {Original(r) : r \in {s \in responses : s.port = c}} \cup {p}
    BY <1>17, <2>1
  <2>7. \A e \in Initiators \ {c} :
          {Original(r)' : r \in {s \in responses' : s.port = e}}
            = {Original(r) : r \in {s \in responses : s.port = e}}
    BY <1>17, <2>2
  <2>8. Asked(c)' = Asked(c)
    BY <1>8, <2>5, <2>6, AskedAre
  <2>9. \A e \in Initiators \ {c} : Asked(e)' = Asked(e)
    BY <1>8, <2>5, <2>7, AskedAre
  <2>10. QED
    BY <2>3, <2>4, <2>8, <2>9
\* The parts of the invariant.
<1>19. PlacesApart'
  <2>1. \A e \in Initiators :
          /\ IsInjective(output_vc'[e]) /\ IsInjective(input_vc'[e])
          /\ ToSet(output_vc'[e]) \cap ToSet(input_vc'[e]) = {}
    BY <1>9 DEF QueuesSound
  <2>2. \A e, f \in Initiators : e # f => Queued(e)' \cap Queued(f)' = {}
    <3>1. \A e, f \in Initiators : e # f => Queued(e) \cap Queued(f) = {}
      BY <1>4 DEF PlacesApart
    <3>2. \A e \in Initiators : Queued(e)' \subseteq Queued(e)
      BY <1>8
    <3>3. QED
      BY <3>1, <3>2
  <2>3. ASSUME NEW r \in responses', NEW e \in Initiators
        PROVE  r.pkt \notin Queued(e)' /\ Original(r)' \notin Queued(e)'
    <3>1. Queued(e)' \subseteq Queued(e)
      BY <1>8
    <3>2. CASE r \in responses
      BY <1>4, <1>17, <3>1, <3>2 DEF PlacesApart
    <3>3. CASE r = r0
      <4>1. a \notin Queued(e)
        BY <1>11, <1>15 DEF Asked
      <4>2. p \notin Queued(e)'
        <5>1. CASE e = c
          BY <1>8, <5>1
        <5>2. CASE e # c
          BY <1>4, <1>8, <5>2 DEF PlacesApart
        <5>3. QED
          BY <5>1, <5>2
      <4>3. QED
        BY <1>3, <1>17, <3>1, <3>3, <4>1, <4>2
    <3>4. QED
      BY <1>5, <3>2, <3>3
  <2>4. ASSUME NEW r \in responses', NEW s \in responses'
        PROVE  /\ r.pkt # Original(s)'
               /\ r # s => r.pkt # s.pkt /\ Original(r)' # Original(s)'
    <3>1. \A x, y \in responses :
            /\ x.pkt # Original(y)
            /\ x # y => x.pkt # y.pkt /\ Original(x) # Original(y)
      BY <1>4 DEF PlacesApart
    <3>2. \A x \in responses : x.pkt # p
      BY <1>4, <1>8 DEF PlacesApart
    <3>3. CASE r \in responses /\ s \in responses
      BY <1>17, <3>1, <3>3
    <3>4. CASE r = r0 /\ s = r0
      BY <1>3, <1>17, <3>4
    <3>5. CASE r = r0 /\ s \in responses
      BY <1>3, <1>17, <3>5
    <3>6. CASE r \in responses /\ s = r0
      BY <1>3, <1>17, <3>2, <3>6
    <3>7. QED
      BY <1>5, <3>3, <3>4, <3>5, <3>6
  <2>5. QED
    BY <2>1, <2>2, <2>3, <2>4 DEF PlacesApart
<1>20. \A e \in Initiators : \A q \in Asked(e) : heap'.payload[q] = heap.payload[q]
  BY <1>11, <1>15
<1>21. RequestsHeld'
  <2>1. \A e \in Initiators : \A q \in Queued(e)' : Holds(q, e)'
    BY <1>8, <1>11, <1>15 DEF Asked
  <2>2. ASSUME NEW r \in responses'
        PROVE  /\ Holds(r.pkt, r.port)' /\ Holds(Original(r), r.port)'
               /\ heap'.payload[r.pkt] = heap'.payload[Original(r)']
    <3>1. CASE r \in responses
      <4>1. heap.payload[r.pkt] = heap.payload[Original(r)]
        BY <1>4, <3>1 DEF RequestsHeld
      <4>2. QED
        BY <1>11, <1>15, <1>17, <3>1, <4>1
    <3>2. CASE r = r0
      BY <1>1, <1>3, <1>11, <1>14, <1>15, <1>16, <1>17, <3>2
    <3>3. QED
      BY <1>5, <3>1, <3>2
  <2>3. \A e, f \in Initiators : \A x \in Asked(e)', y \in Asked(f)' :
          heap'.payload[x] = heap'.payload[y] => x = y
    <3>1. \A e, f \in Initiators : \A x \in Asked(e), y \in Asked(f) :
            heap.payload[x] = heap.payload[y] => x = y
      BY <1>4 DEF RequestsHeld
    <3>2. QED
      BY <1>18, <1>20, <3>1
  <2>4. QED
    BY <2>1, <2>2, <2>3 DEF RequestsHeld
<1>22. IsFiniteSet(responses) /\ IsFiniteSet(responses')
       /\ Cardinality(responses') = Cardinality(responses) + 1
  BY <1>5, <1>17, FS_AddElement DEF IInv, RequestsNew
<1>23. RequestsNew'
  <2>1. RequestsNew
    BY DEF IInv
  <2>2. \A e \in heap'.live : e.try <= tries
    BY <1>14, <2>1 DEF RequestsNew
  <2>3. QED
    BY <1>5, <1>22, <2>1, <2>2 DEF RequestsNew
<1>24. InflightIsOutstanding'
  <2>1. SUFFICES ASSUME NEW e \in Cpus
                 PROVE  /\ inflight'[e] = {heap'.payload[q].addr : q \in Asked(e)'}
                        /\ Cardinality(inflight'[e])
                             = Queues(e)' + Cardinality(Responding(e)')
    BY DEF InflightIsOutstanding, Queues
  <2>2. e \in Initiators
    BY DEF Initiators
  <2>3. /\ inflight[e] = {heap.payload[q].addr : q \in Asked(e)}
        /\ Cardinality(inflight[e]) = Queues(e) + Cardinality(Responding(e))
    BY DEF IInv, HeapSound, InflightIsOutstanding, Queues
  <2>4. inflight'[e] = {heap'.payload[q].addr : q \in Asked(e)'}
    BY <1>5, <1>18, <1>20, <2>2, <2>3
  <2>5. Queues(e)' + Cardinality(Responding(e)') = Queues(e) + Cardinality(Responding(e))
    <3>1. CASE e = c
      <4>1. Responding(c) \subseteq Pkts
        BY <1>4, <1>11, EnoughPackets DEF Responding, Holds, HeapType, Pkts
      <4>2. IsFiniteSet(Responding(c))
        BY <4>1, EnoughPackets, FinitePart DEF Pkts
      <4>3. Cardinality(Responding(c)') = Cardinality(Responding(c)) + 1
            /\ Cardinality(Responding(c)) \in Nat
        BY <1>18, <4>2, FS_AddElement, FS_CardinalityType
      <4>4. Queues(c) \in Nat /\ Queues(c)' = Queues(c) - 1
        BY <1>10
      <4>5. QED
        BY <3>1, <4>3, <4>4
    <3>2. CASE e # c
      BY <1>10, <1>18, <2>2, <3>2
    <3>3. QED
      BY <3>1, <3>2
  <2>6. QED
    BY <1>5, <2>3, <2>4, <2>5
<1>25. UsageCountsRequests'
  <2>1. heap.usage = Cardinality(accepted) + Cardinality(responses)
    BY DEF IInv, UsageCountsRequests
  <2>2. QED
    BY <1>5, <1>14, <1>22, <2>1, AnswersAreRequests DEF UsageCountsRequests
<1>26. TypeOK'
  <2>1. responses' \subseteq [pkt : Pkts, port : Initiators]
    BY <1>2, <1>5, <1>14 DEF IInv, TypeOK
  <2>2. /\ output_vc' \in [Initiators -> Seq(Pkts)]
        /\ input_vc' \in [Initiators -> Seq(Pkts)]
        /\ \A e \in Initiators : Len(output_vc'[e]) <= OutSize /\ Len(input_vc'[e]) <= InSize
    BY <1>9, Numbers DEF QueuesSound
  <2>3. QED
    BY <1>5, <1>14, <2>1, <2>2 DEF IInv, TypeOK
<1>27. QED
  BY <1>14, <1>19, <1>21, <1>23, <1>24, <1>25, <1>26 DEF IInv

(***************************************************************************)
(* A response that reaches its initiator frees its packet and dooms the    *)
(* payload, which no other packet on its way shares; the original request  *)
(* is nowhere any more, and not free either.                               *)
(***************************************************************************)
LEMMA ResponseDelivered ==
  ASSUME IInv, NEW r \in responses, Deliver(r)
  PROVE  IInv'
<1>1. PICK c, x, o, d : c = r.port /\ x = r.pkt /\ o = Original(r) /\ d = heap.payload[x]
  OBVIOUS
<1>2. PlacesApart /\ RequestsHeld /\ heap \in HeapType /\ HeapSound(heap)
  BY DEF IInv, TypeOK
<1>3. /\ \A e \in Initiators : \A q \in Asked(e) : Holds(q, e)
      /\ \A s \in responses : Holds(s.pkt, s.port) /\ Holds(Original(s), s.port)
      /\ \A s \in responses : heap.payload[s.pkt] = heap.payload[Original(s)]
      /\ \A s \in responses : s.port \in Initiators /\ Original(s) \in Asked(s.port)
  BY <1>2, AskedHeld DEF RequestsHeld
<1>4. /\ c \in Initiators /\ o \in Asked(c)
      /\ Holds(x, c) /\ Holds(o, c) /\ heap.payload[o] = d
  BY <1>1, <1>3
<1>5. /\ responses' = responses \ {r}
      /\ completed' = [completed EXCEPT ![c] = @ + 1]
      /\ UNCHANGED <<tries, next_addr, output_vc, input_vc, accepted>>
      /\ inflight' = IF c \in Cpus THEN [inflight EXCEPT ![c] = @ \ {d.addr}]
                     ELSE inflight
      /\ heap' = Release(heap, x)
  <2>1. OriginalPayload(r) = d /\ d \in heap.live
    BY <1>1, <1>4 DEF OriginalPayload, Original, Holds
  <2>2. Deref(heap, d) = heap
    BY <1>2, <2>1, DerefLive
  <2>3. Counted(heap, x) = heap
    BY <1>1, <2>2 DEF Counted
  <2>4. Handled(c, r) = Release(heap, x)
    BY <1>1, <2>1, <2>2, <2>3 DEF Handled
  <2>5. heap' = Release(heap, x)
    BY <1>1, <2>4 DEF Deliver
  <2>6. QED
    BY <1>1, <2>1, <2>5 DEF Deliver, links
\* The pool.
<1>6. /\ heap' \in HeapType /\ HeapSound(heap')
      /\ heap'.packets = heap.packets
      /\ Free(heap') = Free(heap) \cup {x} /\ Doomed(heap') = Doomed(heap) \cup {d}
      /\ heap'.live = heap.live
      /\ \A q \in Pkts \ {x} : /\ heap'.payload[q] = heap.payload[q]
                               /\ heap'.original_req[q] = heap.original_req[q]
      /\ heap'.usage = heap.usage - 1
  <2>1. Cardinality(responses) >= 1
    <3>1. IsFiniteSet(responses)
      BY DEF IInv, RequestsNew
    <3>2. Cardinality(responses) # 0
      BY <3>1, FS_EmptySet
    <3>3. QED
      BY <3>2, AnswersAreRequests
  <2>2. heap.usage >= 1
    BY <2>1, AnswersAreRequests DEF IInv, UsageCountsRequests
  <2>3. /\ x \in 1 .. heap.packets /\ x \notin Free(heap)
        /\ heap.payload[x] \in heap.live /\ heap.payload[x] \notin Doomed(heap)
    BY <1>4 DEF Holds
  <2>4. LET k == Release(heap, x)
        IN  /\ k \in HeapType /\ HeapSound(k)
            /\ k.packets = heap.packets
            /\ Free(k) = Free(heap) \cup {x}
            /\ Doomed(k) = Doomed(heap) \cup {heap.payload[x]}
            /\ k.live = heap.live
            /\ \A q \in Pkts \ {x} : /\ k.payload[q] = heap.payload[q]
                                     /\ k.original_req[q] = heap.original_req[q]
            /\ k.usage = heap.usage - 1
    BY <1>2, <2>2, <2>3, ReleasedPool
  <2>5. QED
    BY <1>1, <1>5, <2>4
<1>7. ASSUME NEW q, NEW e, Holds(q, e), q # x, heap.payload[q] # d
      PROVE  /\ Holds(q, e)'
             /\ heap'.payload[q] = heap.payload[q]
             /\ heap'.original_req[q] = heap.original_req[q]
  <2>1. q \in Pkts
    BY <1>2, <1>7, EnoughPackets DEF Holds, HeapType, Pkts
  <2>2. /\ heap'.payload[q] = heap.payload[q]
        /\ heap'.original_req[q] = heap.original_req[q]
    BY <1>6, <1>7, <2>1
  <2>3. QED
    BY <1>5, <1>6, <1>7, <2>2 DEF Holds
\* Nothing else holds the request.
<1>8. \A e \in Initiators : \A q \in Asked(e) : q # o => heap.payload[q] # d
  BY <1>2, <1>4 DEF RequestsHeld
<1>9. \A e \in Initiators : \A q \in Asked(e) : q # x
  <2>1. \A e \in Initiators : x \notin Queued(e)
    BY <1>1, <1>2 DEF PlacesApart
  <2>2. \A s \in responses : x # Original(s)
    BY <1>1, <1>2 DEF PlacesApart
  <2>3. QED
    BY <2>1, <2>2, AskedAre
<1>10. /\ \A e \in Initiators : o \notin Queued(e)
       /\ \A s \in responses' : /\ Original(s) # o /\ s.pkt # x /\ s.pkt # o
                                /\ heap.payload[s.pkt] # d
  <2>1. \A e \in Initiators : o \notin Queued(e)
    BY <1>1, <1>2 DEF PlacesApart
  <2>2. \A s \in responses' : Original(s) # o /\ s.pkt # x /\ s.pkt # o
    BY <1>1, <1>2, <1>5 DEF PlacesApart
  <2>3. \A s \in responses' : heap.payload[s.pkt] # d
    BY <1>3, <1>5, <1>8, <2>2
  <2>4. QED
    BY <2>1, <2>2, <2>3
<1>11. \A e \in Initiators : \A q \in Asked(e) : q # o =>
         Holds(q, e)' /\ heap'.payload[q] = heap.payload[q]
  BY <1>3, <1>7, <1>8, <1>9
<1>12. \A s \in responses' :
         /\ Holds(s.pkt, s.port)' /\ heap'.payload[s.pkt] = heap.payload[s.pkt]
         /\ Original(s)' = Original(s)
         /\ Holds(Original(s), s.port)'
         /\ heap'.payload[Original(s)] = heap.payload[Original(s)]
  <2>1. SUFFICES ASSUME NEW s \in responses'
                 PROVE  /\ Holds(s.pkt, s.port)'
                        /\ heap'.payload[s.pkt] = heap.payload[s.pkt]
                        /\ Original(s)' = Original(s)
                        /\ Holds(Original(s), s.port)'
                        /\ heap'.payload[Original(s)] = heap.payload[Original(s)]
    OBVIOUS
  <2>2. s \in responses
    BY <1>5
  <2>3. /\ Holds(s.pkt, s.port)' /\ heap'.payload[s.pkt] = heap.payload[s.pkt]
        /\ heap'.original_req[s.pkt] = heap.original_req[s.pkt]
    BY <1>3, <1>7, <1>10, <2>2
  <2>4. Holds(Original(s), s.port)'
        /\ heap'.payload[Original(s)] = heap.payload[Original(s)]
    <3>1. PICK y : y = Original(s)
      OBVIOUS
    <3>2. s.port \in Initiators /\ y \in Asked(s.port) /\ y # o
      BY <1>3, <1>10, <2>2, <3>1
    <3>3. Original(s)' = y
      BY <2>3, <3>1 DEF Original
    <3>4. Holds(y, s.port)' /\ heap'.payload[y] = heap.payload[y]
      BY <1>11, <3>2
    <3>5. QED
      BY <3>1, <3>3, <3>4
  <2>5. QED
    BY <2>3, <2>4 DEF Original
<1>13. /\ \A e : Queued(e)' = Queued(e)
       /\ Responding(c)' = Responding(c) \ {x} /\ x \in Responding(c)
       /\ \A e \in Initiators \ {c} : Responding(e)' = Responding(e)
       /\ Asked(c)' = Asked(c) \ {o}
       /\ \A e \in Initiators \ {c} : Asked(e)' = Asked(e)
  <2>1. \A e : Queued(e)' = Queued(e)
    BY <1>5 DEF Queued
  <2>2. {s \in responses' : s.port = c} = {s \in responses : s.port = c} \ {r}
    BY <1>5
  <2>3. \A e \in Initiators \ {c} : {s \in responses' : s.port = e}
                                      = {s \in responses : s.port = e}
    BY <1>1, <1>5
  <2>4. \A s \in responses \ {r} : s.pkt # x /\ Original(s) # o
    BY <1>5, <1>10
  <2>5. r \in {s \in responses : s.port = c}
    BY <1>1
  <2>6. Responding(c)' = Responding(c) \ {x} /\ x \in Responding(c)
    BY <1>1, <2>2, <2>4, <2>5 DEF Responding
  <2>7. \A e \in Initiators \ {c} : Responding(e)' = Responding(e)
    BY <2>3 DEF Responding
  <2>8. \A e : Asked(e)'
                 = Queued(e)' \cup {Original(s)' : s \in {t \in responses' : t.port = e}}
    BY DEF Asked, Responding, Original
  <2>9. \A e : {Original(s)' : s \in {t \in responses' : t.port = e}}
                 = {Original(s) : s \in {t \in responses' : t.port = e}}
    BY <1>12
  <2>10. {Original(s) : s \in {t \in responses' : t.port = c}}
           = {Original(s) : s \in {t \in responses : t.port = c}} \ {o}
    BY <1>1, <2>2, <2>4, <2>5
  <2>11. Asked(c)' = Asked(c) \ {o}
    BY <1>4, <1>10, <2>1, <2>8, <2>9, <2>10, AskedAre
  <2>12. \A e \in Initiators \ {c} : Asked(e)' = Asked(e)
    BY <2>1, <2>3, <2>8, <2>9, AskedAre
  <2>13. QED
    BY <2>1, <2>6, <2>7, <2>11, <2>12
\* The parts of the invariant.
<1>14. PlacesApart'
  <2>1. \A s \in responses' : s \in responses /\ Original(s)' = Original(s)
    BY <1>5, <1>12
  <2>2. QED
    BY <1>2, <1>5, <1>13, <2>1 DEF PlacesApart
<1>15. \A e \in Initiators : \A q \in Asked(e)' :
         q \in Asked(e) /\ q # o /\ heap'.payload[q] = heap.payload[q]
  <2>1. \A e \in Initiators \ {c} : o \notin Asked(e)
    <3>1. \A s \in responses : s.port # c => Original(s) # o
      BY <1>1, <1>5, <1>10
    <3>2. QED
      BY <1>10, <3>1, AskedAre
  <2>2. \A e \in Initiators : \A q \in Asked(e)' : q \in Asked(e) /\ q # o
    BY <1>13, <2>1
  <2>3. QED
    BY <1>11, <2>2
<1>16. RequestsHeld'
  <2>1. \A e \in Initiators : \A q \in Queued(e)' : Holds(q, e)'
    BY <1>10, <1>11, <1>13 DEF Asked
  <2>2. \A s \in responses' :
          /\ Holds(s.pkt, s.port)' /\ Holds(Original(s), s.port)'
          /\ heap'.payload[s.pkt] = heap'.payload[Original(s)']
    BY <1>3, <1>5, <1>12
  <2>3. \A e, f \in Initiators : \A p \in Asked(e)', q \in Asked(f)' :
          heap'.payload[p] = heap'.payload[q] => p = q
    <3>1. \A e, f \in Initiators : \A p \in Asked(e), q \in Asked(f) :
            heap.payload[p] = heap.payload[q] => p = q
      BY <1>2 DEF RequestsHeld
    <3>2. QED
      BY <1>15, <3>1
  <2>4. QED
    BY <2>1, <2>2, <2>3 DEF RequestsHeld
<1>17. IsFiniteSet(responses) /\ IsFiniteSet(responses')
       /\ Cardinality(responses') = Cardinality(responses) - 1
  BY <1>5, FS_RemoveElement DEF IInv, RequestsNew
<1>18. RequestsNew'
  BY <1>5, <1>6, <1>17 DEF IInv, RequestsNew
<1>19. ASSUME NEW e \in Cpus
       PROVE  /\ inflight'[e] = {heap'.payload[q].addr : q \in Asked(e)'}
              /\ Cardinality(inflight'[e]) = Queues(e)' + Cardinality(Responding(e)')
              /\ Cardinality(inflight'[e]) <= MaxInflight
              /\ inflight'[e] \subseteq 0 .. MaxTries
  <2>1. e \in Initiators
    BY DEF Initiators
  <2>2. inflight[e] \subseteq 0 .. MaxTries /\ MaxInflight \in Nat /\ MaxTries \in Nat
        /\ inflight \in [Cpus -> SUBSET (0 .. MaxTries)]
    BY Numbers DEF IInv, TypeOK
  <2>3. IsFiniteSet(inflight[e])
    BY <2>2, FinitePart
  <2>4. /\ inflight[e] = {heap.payload[q].addr : q \in Asked(e)}
        /\ Cardinality(inflight[e]) = Queues(e) + Cardinality(Responding(e))
        /\ Cardinality(inflight[e]) <= MaxInflight
        /\ Cardinality(inflight[e]) \in Nat
    BY <2>3, FS_CardinalityType
    DEF IInv, HeapSound, InflightIsOutstanding, TypeOK, Queues
  <2>5. Queues(e)' = Queues(e) /\ Queues(e) \in Nat
    BY <1>5, <2>1, SoundQueues DEF Queues
  <2>6. CASE e # c
    <3>1. /\ inflight'[e] = inflight[e] /\ Asked(e)' = Asked(e)
          /\ Responding(e)' = Responding(e)
      BY <1>5, <1>13, <2>1, <2>2, <2>6
    <3>2. QED
      BY <1>15, <2>1, <2>2, <2>4, <2>5, <3>1
  <2>7. CASE e = c
    <3>1. inflight'[e] = inflight[e] \ {d.addr}
      BY <1>5, <2>2, <2>7
    <3>2. Asked(e)' = Asked(e) \ {o} /\ o \in Asked(e) /\ d = heap.payload[o]
      BY <1>4, <1>13, <2>7
    <3>3. d.addr \in inflight[e]
      BY <2>4, <3>2
    <3>4. \A q \in Asked(e) : heap.payload[q].addr = d.addr => q = o
      <4>1. \A f, g \in accepted : f.by = g.by /\ f.addr = g.addr => f = g
        BY DEF IInv, RequestsNew
      <4>2. \A q \in Asked(e) : heap.payload[q] \in accepted /\ heap.payload[q].by = c
        BY <1>3, <2>1, <2>7 DEF Holds
      <4>3. QED
        BY <1>8, <2>1, <3>2, <4>1, <4>2
    <3>5. inflight'[e] = {heap'.payload[q].addr : q \in Asked(e)'}
      <4>1. inflight'[e] = {heap.payload[q].addr : q \in Asked(e) \ {o}}
        BY <2>4, <3>1, <3>2, <3>4
      <4>2. \A q \in Asked(e) \ {o} : heap'.payload[q] = heap.payload[q]
        BY <1>11, <2>1
      <4>3. QED
        BY <3>2, <4>1, <4>2
    <3>6. Cardinality(inflight'[e]) = Cardinality(inflight[e]) - 1
      BY <2>3, <3>1, <3>3, FS_RemoveElement
    <3>7. Cardinality(Responding(e)') = Cardinality(Responding(e)) - 1
          /\ Cardinality(Responding(e)) \in Nat
      <4>1. Responding(e) \subseteq Pkts
        BY <1>2, <1>3, EnoughPackets DEF Responding, Holds, HeapType, Pkts
      <4>2. IsFiniteSet(Responding(e))
        BY <4>1, EnoughPackets, FinitePart DEF Pkts
      <4>3. QED
        BY <1>13, <2>7, <4>2, FS_RemoveElement, FS_CardinalityType
    <3>8. Cardinality(inflight'[e]) = Queues(e)' + Cardinality(Responding(e)')
      BY <2>4, <2>5, <3>6, <3>7
    <3>9. Cardinality(inflight'[e]) <= MaxInflight
      BY <2>2, <2>4, <3>6
    <3>10. QED
      BY <2>2, <3>1, <3>5, <3>8, <3>9
  <2>8. QED
    BY <2>6, <2>7
<1>20. InflightIsOutstanding'
  BY <1>19 DEF InflightIsOutstanding, Queues
<1>21. UsageCountsRequests'
  <2>1. heap.usage = Cardinality(accepted) + Cardinality(responses)
    BY DEF IInv, UsageCountsRequests
  <2>2. QED
    BY <1>5, <1>6, <1>17, <2>1, AnswersAreRequests DEF UsageCountsRequests
<1>22. TypeOK'
  <2>1. inflight' \in [Cpus -> SUBSET (0 .. MaxTries)]
    <3>1. inflight' = [e \in Cpus |-> inflight'[e]]
      BY <1>5 DEF IInv, TypeOK
    <3>2. QED
      BY <1>19, <3>1
  <2>2. completed' \in [Initiators -> Nat]
    <3>1. completed \in [Initiators -> Nat]
      BY DEF IInv, TypeOK
    <3>2. completed[c] + 1 \in Nat
      BY <1>4, <3>1
    <3>3. completed' = [completed EXCEPT ![c] = completed[c] + 1]
      BY <1>5
    <3>4. QED
      BY <3>1, <3>2, <3>3
  <2>3. responses' \subseteq [pkt : Pkts, port : Initiators]
    BY <1>5 DEF IInv, TypeOK
  <2>4. QED
    BY <1>5, <1>6, <1>19, <2>1, <2>2, <2>3 DEF IInv, TypeOK
<1>23. QED
  BY <1>6, <1>14, <1>16, <1>18, <1>20, <1>21, <1>22 DEF IInv

-------------------------------------------------------------------------------
LEMMA StutterIInv ==
  ASSUME IInv, UNCHANGED vars
  PROVE  IInv'
<1>1. /\ UNCHANGED <<heap, tries, next_addr, inflight, completed>>
      /\ UNCHANGED <<output_vc, input_vc, responses, accepted>>
  BY DEF vars, links
<1>2. /\ TypeOK' /\ HeapSound(heap') /\ RequestsNew' /\ UsageCountsRequests'
  BY <1>1 DEF IInv, TypeOK, RequestsNew, UsageCountsRequests
<1>3. /\ \A p, e : Holds(p, e)' <=> Holds(p, e)
      /\ \A e : Queued(e)' = Queued(e) /\ Asked(e)' = Asked(e)
                /\ Responding(e)' = Responding(e)
      /\ \A r : Original(r)' = Original(r)
  BY <1>1 DEF Holds, Queued, Asked, Responding, Original
<1>4. PlacesApart' /\ RequestsHeld' /\ InflightIsOutstanding'
  BY <1>1, <1>3 DEF IInv, PlacesApart, RequestsHeld, InflightIsOutstanding
<1>5. QED
  BY <1>2, <1>4 DEF IInv

LEMMA NextIInv ==
  ASSUME IInv, [Next]_vars
  PROVE  IInv'
<1>1. ASSUME NEW c \in Initiators, SendDirect(c)
      PROVE  IInv'
  <2>1. /\ Issues(c) /\ Accepted(c) /\ tries' = tries + 1
        /\ UNCHANGED <<completed, responses, output_vc>>
        /\ input_vc' = [input_vc EXCEPT ![c] = Append(@, Request(c))]
        /\ Len(input_vc[c]) < InSize
    BY <1>1 DEF SendDirect, Direct
  <2>2. Request(c) \in Pkts /\ Request(c) \notin Queued(c)
    BY <2>1, NewPacket
  <2>3. QueuesGrow(c, Request(c))
    BY <2>1, <2>2, QueuedDirect
  <2>4. QED
    BY <2>1, <2>3, RequestTaken
<1>2. ASSUME NEW c \in Initiators, SendBuffered(c)
      PROVE  IInv'
  <2>1. /\ Issues(c) /\ Accepted(c) /\ tries' = tries + 1
        /\ UNCHANGED <<completed, responses, input_vc>>
        /\ output_vc' = [output_vc EXCEPT ![c] = Append(@, Request(c))]
        /\ Len(output_vc[c]) < OutSize
    BY <1>2 DEF SendBuffered, Buffered
  <2>2. Request(c) \in Pkts /\ Request(c) \notin Queued(c)
    BY <2>1, NewPacket
  <2>3. QueuesGrow(c, Request(c))
    BY <2>1, <2>2, QueuedBehind
  <2>4. QED
    BY <2>1, <2>3, RequestTaken
<1>3. QED
  BY <1>1, <1>2, RequestRefused, RequestHandled, ResponseDelivered, StutterIInv
  DEF Next, Respond

(***************************************************************************)
(* The inductive invariant holds, for any initiators, limits and number of *)
(* requests, and whenever the lambdas run.                                 *)
(***************************************************************************)
THEOREM Inductive == Spec => []IInv
<1>1. Init => IInv
  BY InitIInv
<1>2. IInv /\ [Next]_vars => IInv'
  BY NextIInv
<1>3. QED
  BY <1>1, <1>2, PTL DEF Spec

(***************************************************************************)
(* The types; a CPU never has more requests in flight than tick() allows,  *)
(* and no queue of a link is overfull.                                     *)
(***************************************************************************)
THEOREM TypeCorrect == Spec => []TypeOK
<1>1. IInv => TypeOK
  BY DEF IInv
<1>2. QED
  BY <1>1, Inductive, PTL

(***************************************************************************)
(* The payload that a request and its response share is not deleted before *)
(* the initiator has read it, by no order of requests and answers.         *)
(***************************************************************************)
THEOREM PayloadsLiveLongEnough == Spec => []NoUndefinedBehaviour
<1>1. IInv => NoUndefinedBehaviour
  BY DEF IInv, HeapSound, NoUndefinedBehaviour
<1>2. QED
  BY <1>1, Inductive, PTL

(***************************************************************************)
(* inflight_reqs of a CPU is exactly what it has asked and not been        *)
(* answered, each address once.                                            *)
(***************************************************************************)
THEOREM InflightCorrect == Spec => []InflightIsOutstanding
<1>1. IInv => InflightIsOutstanding
  BY DEF IInv
<1>2. QED
  BY <1>1, Inductive, PTL

\* The memory answers whom it was asked by.
THEOREM AnsweredWhoAsked == Spec => []ResponseToRequester
<1>1. IInv => ResponseToRequester
  <2>1. SUFFICES ASSUME IInv, NEW r \in responses
                 PROVE  heap.payload[r.pkt] # Null /\ heap.payload[r.pkt].by = r.port
    BY DEF ResponseToRequester
  <2>2. Holds(r.pkt, r.port) /\ heap \in HeapType
    BY <2>1 DEF IInv, RequestsHeld, TypeOK
  <2>3. QED
    BY <2>2, NullIsNoPayload DEF Holds, HeapType
<1>2. QED
  BY <1>1, Inductive, PTL

(***************************************************************************)
(* acquire() never hands out a packet that is on its way or the request of *)
(* a response that is, and each of these is in one place.                  *)
(***************************************************************************)
THEOREM PacketsInUseOnce == Spec => []InUseOnce
<1>1. IInv => InUseOnce
  <2>1. SUFFICES ASSUME IInv PROVE InUseOnce
    OBVIOUS
  <2>2. PlacesApart /\ IsInjective(heap.freelist) /\ RequestsHeld
    BY <2>1 DEF IInv, HeapSound
  <2>3. ASSUME NEW c \in Initiators, NEW p \in Asked(c) \cup Responding(c)
        PROVE  p \notin Free(heap)
    <3>1. CASE p \in Asked(c)
      <4>1. Holds(p, c)
        BY <2>1, <2>3, <3>1, AskedHeld
      <4>2. QED
        BY <4>1 DEF Holds
    <3>2. CASE p \in Responding(c)
      BY <2>2, <3>2 DEF Responding, RequestsHeld, Holds
    <3>3. QED
      BY <2>3, <3>1, <3>2
  <2>4. InUse \cap Free(heap) = {}
    BY <2>3 DEF InUse
  <2>5. QED
    BY <2>2, <2>4 DEF InUseOnce, Free
<1>2. QED
  BY <1>1, Inductive, PTL

(***************************************************************************)
(* The leak, for any number of requests: the packets that the pool counts  *)
(* as in use are the responses on their way and all the requests that were *)
(* ever taken, although they have been answered.                           *)
(***************************************************************************)
THEOREM RequestsLeak == Spec => []UsageCountsRequests
<1>1. IInv => UsageCountsRequests
  BY DEF IInv
<1>2. QED
  BY <1>1, Inductive, PTL
===============================================================================
