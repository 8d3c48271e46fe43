--------------------------- MODULE PacketPool_proofs ---------------------------
(***************************************************************************)
(* Proofs of the safety properties of PacketPool, for any sets of          *)
(* addresses and any size of the freelists.                                *)
(***************************************************************************)
EXTENDS PacketPool, FiniteSetTheorems, FunctionTheorems, TLAPS

(***************************************************************************)
(* The first four properties are inductive together, and not one by one:   *)
(* that the count does not go below 0 needs the users to hold what they    *)
(* release, that a packet from the freelist is held by nobody needs        *)
(* PacketsAccounted, and that a payload goes to the freelist once needs    *)
(* that no other packet has it.                                            *)
(***************************************************************************)
IInv == TypeOK /\ PacketsAccounted /\ PayloadsAccounted /\ UsageIsHeld

(***************************************************************************)
(* Only packets in use refer to a request.  One that is referred to has    *)
(* been deleted only if m_max_size + 2 packets have been in use.           *)
(***************************************************************************)
RequestsDeletedOnOverflow ==
  \A p \in Packets : original_req[p] # None =>
    /\ p \in held
    /\ original_req[p] \notin packets => peak_usage >= MaxSize + 2

Attached == {p \in Packets : payload[p] # None}

-----------------------------------------------------------------------------
\* A queue after push().
LEMMA Pushed ==
  ASSUME NEW S, NEW q \in Seq(S), NEW e \in S, Distinct(q), e \notin InQueue(q)
  PROVE  /\ Append(q, e) \in Seq(S)
         /\ Len(Append(q, e)) = Len(q) + 1
         /\ Distinct(Append(q, e))
         /\ InQueue(Append(q, e)) = InQueue(q) \cup {e}
<1> DEFINE a == Append(q, e)
<1>1. /\ a \in Seq(S) /\ Len(q) \in Nat /\ Len(a) = Len(q) + 1
      /\ \A i \in 1 .. Len(q) : a[i] = q[i]
      /\ a[Len(q) + 1] = e
  OBVIOUS
<1>2. \A i \in 1 .. Len(q) : q[i] # e
  BY DEF InQueue
<1> HIDE DEF a
<1>3. Distinct(a)
  <2>1. SUFFICES ASSUME NEW i \in 1 .. Len(a), NEW j \in 1 .. Len(a), a[i] = a[j]
                 PROVE  i = j
    BY DEF Distinct
  <2>2. CASE i \in 1 .. Len(q) /\ j \in 1 .. Len(q)
    BY <1>1, <2>1, <2>2 DEF Distinct
  <2>3. CASE i \in 1 .. Len(q) /\ j = Len(q) + 1
    BY <1>1, <1>2, <2>1, <2>3
  <2>4. CASE i = Len(q) + 1 /\ j \in 1 .. Len(q)
    BY <1>1, <1>2, <2>1, <2>4
  <2>5. QED
    BY <1>1, <2>2, <2>3, <2>4
<1>4. InQueue(a) \subseteq InQueue(q) \cup {e}
  BY <1>1 DEF InQueue
<1>5. InQueue(q) \subseteq InQueue(a)
  <2>1. \A i \in 1 .. Len(q) : i \in 1 .. Len(a) /\ a[i] = q[i]
    BY <1>1
  <2>2. QED
    BY <2>1 DEF InQueue
<1>6. e \in InQueue(a)
  <2>1. Len(q) + 1 \in 1 .. Len(a)
    BY <1>1
  <2>2. QED
    BY <1>1, <2>1 DEF InQueue
<1>7. QED
  BY <1>1, <1>3, <1>4, <1>5, <1>6 DEF a

\* A queue after pop(), or as it is if there is nothing in it.
LEMMA Rested ==
  ASSUME NEW S, NEW q \in Seq(S), Distinct(q)
  PROVE  /\ Rest(q) \in Seq(S)
         /\ Len(Rest(q)) <= Len(q)
         /\ Distinct(Rest(q))
         /\ q = <<>> => InQueue(Rest(q)) = {} /\ InQueue(q) = {}
         /\ q # <<>> => /\ Head(q) \in InQueue(q)
                        /\ InQueue(Rest(q)) = InQueue(q) \ {Head(q)}
<1>1. CASE q = <<>>
  <2>1. Rest(q) = q
    BY <1>1 DEF Rest
  <2>2. Len(q) = 0 /\ 1 .. 0 = {}
    BY <1>1
  <2>3. InQueue(q) = {}
    BY <2>2 DEF InQueue
  <2>4. Len(Rest(q)) <= Len(q)
    BY <2>1, <2>2
  <2>5. Distinct(Rest(q)) /\ InQueue(Rest(q)) = {}
    BY <2>1, <2>3, Zenon
  <2>6. Rest(q) \in Seq(S)
    BY <2>1
  <2>7. QED
    BY <1>1, <2>3, <2>4, <2>5, <2>6
<1>2. CASE q # <<>>
  <2> DEFINE t == Tail(q)
  <2>1. /\ t \in Seq(S) /\ Len(q) \in Nat /\ Len(q) >= 1 /\ Len(t) = Len(q) - 1
        /\ Head(q) = q[1]
        /\ \A i \in 1 .. Len(q) - 1 : t[i] = q[i + 1]
    BY <1>2
  <2>2. Rest(q) = t
    BY <1>2 DEF Rest
  <2> HIDE DEF t
  <2>3. Distinct(t)
    <3>1. SUFFICES ASSUME NEW i \in 1 .. Len(t), NEW j \in 1 .. Len(t), t[i] = t[j]
                   PROVE  i = j
      BY DEF Distinct
    <3>2. /\ i + 1 \in 1 .. Len(q) /\ j + 1 \in 1 .. Len(q)
          /\ q[i + 1] = q[j + 1]
      BY <2>1, <3>1
    <3>3. i + 1 = j + 1
      BY <3>2 DEF Distinct
    <3>4. QED
      BY <2>1, <3>3
  <2>4. Head(q) \in InQueue(q)
    BY <2>1 DEF InQueue
  <2>5. InQueue(t) \subseteq InQueue(q) \ {Head(q)}
    <3>1. SUFFICES ASSUME NEW i \in 1 .. Len(t)
                   PROVE  t[i] \in InQueue(q) /\ t[i] # Head(q)
      BY DEF InQueue
    <3>2. i + 1 \in 1 .. Len(q) /\ i + 1 # 1 /\ 1 \in 1 .. Len(q) /\ t[i] = q[i + 1]
      BY <2>1
    <3>3. q[i + 1] # q[1]
      BY <3>2 DEF Distinct
    <3>4. QED
      BY <2>1, <3>2, <3>3 DEF InQueue
  <2>6. InQueue(q) \ {Head(q)} \subseteq InQueue(t)
    <3>1. SUFFICES ASSUME NEW i \in 1 .. Len(q), q[i] # Head(q)
                   PROVE  q[i] \in InQueue(t)
      BY DEF InQueue
    <3>2. i # 1
      BY <2>1, <3>1
    <3>3. i - 1 \in 1 .. Len(t) /\ t[i - 1] = q[i]
      BY <2>1, <3>2
    <3>4. QED
      BY <3>3 DEF InQueue
  <2>7. QED
    BY <1>2, <2>1, <2>2, <2>3, <2>4, <2>5, <2>6
<1>3. QED
  BY <1>1, <1>2

\* What is in a queue of elements of S is in S.
LEMMA InQueueTyped ==
  ASSUME NEW S, NEW q \in Seq(S)
  PROVE  InQueue(q) \subseteq S
BY DEF InQueue

-----------------------------------------------------------------------------
LEMMA InitIInv == Init => IInv
<1>1. SUFFICES ASSUME Init PROVE IInv
  OBVIOUS
<1> USE <1>1 DEF Init
<1>2. MaxSize \in Nat
  BY FinitePool
<1>3. TypeOK
  <2>1. /\ payload \in [Packets -> Payloads \cup {None}]
        /\ original_req \in [Packets -> Packets \cup {None}]
    OBVIOUS
  <2>2. /\ <<>> \in Seq(Packets) /\ <<>> \in Seq(Payloads) /\ Len(<<>>) = 0
        /\ 0 <= MaxSize
    BY <1>2
  <2>3. QED
    BY <2>1, <2>2 DEF TypeOK
<1>4. Distinct(<<>>) /\ InQueue(<<>>) = {}
  <2>1. Len(<<>>) = 0 /\ 1 .. 0 = {}
    OBVIOUS
  <2>2. QED
    BY <2>1 DEF Distinct, InQueue
<1>5. PacketsAccounted
  BY <1>4 DEF PacketsAccounted
<1>6. PayloadsAccounted
  BY <1>4 DEF PayloadsAccounted
<1>7. UsageIsHeld
  BY FS_EmptySet DEF UsageIsHeld
<1>8. QED
  BY <1>3, <1>5, <1>6, <1>7 DEF IInv

\* The packet that acquire() takes is in use by nobody.
LEMMA Taken ==
  ASSUME IInv, NEW p \in Packets, NextPacket(p)
  PROVE  /\ p \notin held
         /\ payload[p] = None
         /\ p \notin InQueue(Rest(packet_freelist))
         /\ packets \cup {p} = (held \cup {p}) \cup InQueue(Rest(packet_freelist))
         /\ packet_freelist = <<>> => packets = held
         /\ packet_freelist # <<>> => packets \cup {p} = packets
<1> DEFINE q == packet_freelist
<1>1. /\ q \in Seq(Packets) /\ Distinct(q) /\ held \cap InQueue(q) = {}
      /\ packets = held \cup InQueue(q)
      /\ Attached \subseteq held
  BY DEF IInv, TypeOK, PacketsAccounted, PayloadsAccounted, Attached
<1>2. /\ q = <<>> => InQueue(Rest(q)) = {} /\ InQueue(q) = {}
      /\ q # <<>> => /\ Head(q) \in InQueue(q)
                     /\ InQueue(Rest(q)) = InQueue(q) \ {Head(q)}
  BY <1>1, Rested
<1>3. IF q # <<>> THEN p = Head(q) ELSE p \in Packets \ packets
  BY DEF NextPacket
<1> HIDE DEF q
<1>4. p \notin held
  BY <1>1, <1>2, <1>3
<1>5. payload[p] = None
  BY <1>1, <1>4 DEF Attached
<1>6. QED
  BY <1>1, <1>2, <1>3, <1>4, <1>5 DEF q

LEMMA AcquireIInv ==
  ASSUME IInv, NEW p \in Packets, Acquire(p)
  PROVE  IInv'
<1> USE DEF Acquire
<1>1. TypeOK /\ PacketsAccounted /\ PayloadsAccounted /\ UsageIsHeld
  BY DEF IInv
<1>2. NextPacket(p)
  OBVIOUS
<1>3. /\ p \notin held
      /\ payload[p] = None
      /\ p \notin InQueue(Rest(packet_freelist))
      /\ packets \cup {p} = (held \cup {p}) \cup InQueue(Rest(packet_freelist))
      /\ packet_freelist = <<>> => packets = held
      /\ packet_freelist # <<>> => packets \cup {p} = packets
  BY <1>2, Taken
<1>4. /\ Rest(packet_freelist) \in Seq(Packets)
      /\ Len(Rest(packet_freelist)) <= Len(packet_freelist)
      /\ Distinct(Rest(packet_freelist))
      /\ packet_freelist = <<>> => InQueue(Rest(packet_freelist)) = {}
      /\ packet_freelist # <<>> =>
           InQueue(Rest(packet_freelist)) \subseteq InQueue(packet_freelist)
  BY <1>1, Rested DEF TypeOK, PacketsAccounted
<1>5. /\ Rest(payload_freelist) \in Seq(Payloads)
      /\ Len(Rest(payload_freelist)) <= Len(payload_freelist)
      /\ Distinct(Rest(payload_freelist))
      /\ payload_freelist = <<>> => /\ InQueue(Rest(payload_freelist)) = {}
                                    /\ InQueue(payload_freelist) = {}
      /\ payload_freelist # <<>> =>
           /\ Head(payload_freelist) \in InQueue(payload_freelist)
           /\ InQueue(Rest(payload_freelist))
                = InQueue(payload_freelist) \ {Head(payload_freelist)}
  BY <1>1, Rested DEF TypeOK, PayloadsAccounted
<1>6. /\ IsFiniteSet(held) /\ IsFiniteSet(packets)
      /\ Cardinality(held \cup {p}) = Cardinality(held) + 1
      /\ Cardinality(packets \cup {p}) \in Nat
      /\ Cardinality(packets) \in Nat
  <2>1. IsFiniteSet(held) /\ IsFiniteSet(packets)
    BY <1>1, FinitePool, FS_Subset DEF TypeOK
  <2>2. QED
    BY <1>3, <2>1, FS_AddElement, FS_CardinalityType
<1>7. payload' = payload
  BY <1>1, <1>3 DEF TypeOK
<1>8. /\ current_usage' \in Nat /\ peak_usage' \in Nat
      /\ current_usage' <= peak_usage' /\ peak_usage <= peak_usage'
  BY <1>1 DEF TypeOK
<1>9. TypeOK'
  <2>1. MaxSize \in Nat /\ Len(packet_freelist) \in Nat /\ Len(payload_freelist) \in Nat
        /\ Len(Rest(packet_freelist)) \in Nat /\ Len(Rest(payload_freelist)) \in Nat
    BY <1>1, <1>4, <1>5, FinitePool DEF TypeOK
  <2>2. QED
    BY <1>1, <1>4, <1>5, <1>8, <2>1 DEF TypeOK
<1>10. PacketsAccounted'
  <2>1. held \cap InQueue(Rest(packet_freelist)) = {}
    BY <1>1, <1>4 DEF PacketsAccounted
  <2>2. QED
    BY <1>3, <1>4, <2>1 DEF PacketsAccounted
<1>11. PayloadsAccounted'
  <2>1. /\ Attached \subseteq held
        /\ \A r, s \in Attached : payload[r] = payload[s] => r = s
        /\ \A r \in Attached : payload[r] \notin InQueue(payload_freelist)
        /\ payloads = {payload[r] : r \in Attached} \cup InQueue(payload_freelist)
    BY <1>1 DEF PayloadsAccounted, Attached
  <2>2. Attached' = Attached
    BY <1>7 DEF Attached
  <2>3. payloads' = {payload[r] : r \in Attached}
                      \cup InQueue(Rest(payload_freelist))
    BY <1>5, <2>1
  <2>4. \A r \in Attached : payload[r] \notin InQueue(Rest(payload_freelist))
    BY <1>5, <2>1
  <2>5. QED
    BY <1>5, <1>7, <2>1, <2>2, <2>3, <2>4 DEF PayloadsAccounted, Attached
<1>12. UsageIsHeld'
  <2>1. current_usage' = Cardinality(held')
    BY <1>1, <1>6 DEF UsageIsHeld
  <2>2. Cardinality(packets') <= peak_usage'
    <3>1. CASE packet_freelist = <<>>
      BY <1>1, <1>3, <1>6, <1>8, <3>1 DEF UsageIsHeld
    <3>2. CASE packet_freelist # <<>>
      <4>1. packets' = packets
        BY <1>3, <3>2
      <4>2. Cardinality(packets) <= peak_usage /\ peak_usage \in Nat
        BY <1>1 DEF UsageIsHeld, TypeOK
      <4>3. Cardinality(packets) <= peak_usage'
        BY <1>6, <1>8, <4>2
      <4>4. QED
        BY <4>1, <4>3
    <3>3. QED
      BY <3>1, <3>2
  <2>3. QED
    BY <1>8, <2>1, <2>2 DEF UsageIsHeld
<1>13. QED
  BY <1>9, <1>10, <1>11, <1>12 DEF IInv

LEMMA AttachIInv ==
  ASSUME IInv, NEW p \in Packets, NEW d \in Payloads, AttachPayload(p, d)
  PROVE  IInv'
<1> USE DEF AttachPayload
<1>1. TypeOK /\ PacketsAccounted /\ PayloadsAccounted /\ UsageIsHeld
  BY DEF IInv
<1>2. TypeOK'
  BY <1>1 DEF TypeOK
<1>3. PacketsAccounted' /\ UsageIsHeld'
  BY <1>1 DEF PacketsAccounted, UsageIsHeld
<1>4. PayloadsAccounted'
  <2>1. /\ Attached \subseteq held
        /\ \A r, s \in Attached : payload[r] = payload[s] => r = s
        /\ \A r \in Attached : payload[r] \notin InQueue(payload_freelist)
        /\ payloads = {payload[r] : r \in Attached} \cup InQueue(payload_freelist)
        /\ Distinct(payload_freelist)
    BY <1>1 DEF PayloadsAccounted, Attached
  <2>2. d # None /\ d \notin payloads
    BY NullPointer
  <2>3. /\ payload'[p] = d
        /\ \A r \in Packets \ {p} : payload'[r] = payload[r]
    BY <1>1 DEF TypeOK
  <2>4. p \in Packets /\ p \notin Attached
    BY DEF Attached
  <2>5. Attached' = Attached \cup {p}
    BY <2>2, <2>3, <2>4 DEF Attached
  <2>6. \A r \in Attached : r # p /\ r \in Packets /\ payload'[r] = payload[r]
    BY <2>3, <2>4 DEF Attached
  <2>7. \A r, s \in Attached' : payload'[r] = payload'[s] => r = s
    BY <2>1, <2>2, <2>3, <2>5, <2>6
  <2>8. \A r \in Attached' : payload'[r] \notin InQueue(payload_freelist')
    BY <2>1, <2>2, <2>3, <2>5, <2>6
  <2>9. payloads' = {payload'[r] : r \in Attached'} \cup InQueue(payload_freelist')
    BY <2>1, <2>3, <2>5, <2>6
  <2>10. QED
    BY <2>1, <2>5, <2>7, <2>8, <2>9 DEF PayloadsAccounted, Attached
<1>5. QED
  BY <1>2, <1>3, <1>4 DEF IInv

LEMMA ReferIInv ==
  ASSUME IInv, NEW p \in Packets, NEW r \in Packets, Refer(p, r)
  PROVE  IInv'
<1> USE DEF Refer, IInv
<1>1. TypeOK'
  BY DEF TypeOK
<1>2. PacketsAccounted' /\ PayloadsAccounted' /\ UsageIsHeld'
  BY DEF PacketsAccounted, PayloadsAccounted, UsageIsHeld
<1>3. QED
  BY <1>1, <1>2

\* release() puts a packet that is in no queue to the end of the freelist.
LEMMA PacketPut ==
  ASSUME TypeOK, PacketsAccounted, NEW p \in held, PutPacket(p)
  PROVE  /\ packet_freelist' \in Seq(Packets)
         /\ Len(packet_freelist') <= MaxSize
         /\ packets' \subseteq packets
         /\ Distinct(packet_freelist')
         /\ (held \ {p}) \cap InQueue(packet_freelist') = {}
         /\ packets' = (held \ {p}) \cup InQueue(packet_freelist')
<1>1. /\ packet_freelist \in Seq(Packets) /\ Distinct(packet_freelist)
      /\ Len(packet_freelist) \in Nat /\ Len(packet_freelist) <= MaxSize
      /\ MaxSize \in Nat
      /\ p \in Packets /\ p \notin InQueue(packet_freelist)
      /\ held \cap InQueue(packet_freelist) = {}
      /\ packets = held \cup InQueue(packet_freelist)
  BY FinitePool DEF TypeOK, PacketsAccounted
<1>2. CASE Room(packet_freelist)
  <2>1. packet_freelist' = Append(packet_freelist, p) /\ packets' = packets
    BY <1>2 DEF PutPacket
  <2>2. Len(packet_freelist) < MaxSize
    BY <1>2 DEF Room
  <2>3. /\ packet_freelist' \in Seq(Packets)
        /\ Len(packet_freelist') = Len(packet_freelist) + 1
        /\ Distinct(packet_freelist')
        /\ InQueue(packet_freelist') = InQueue(packet_freelist) \cup {p}
    BY <1>1, <2>1, Pushed
  <2>4. Len(packet_freelist') <= MaxSize
    BY <1>1, <2>2, <2>3
  <2>5. QED
    BY <1>1, <2>1, <2>3, <2>4
<1>3. CASE ~ Room(packet_freelist)
  <2>1. packet_freelist' = packet_freelist /\ packets' = packets \ {p}
    BY <1>3 DEF PutPacket
  <2>2. QED
    BY <1>1, <2>1
<1>4. QED
  BY <1>2, <1>3

\* release() puts a payload that is in no queue to the end of its freelist.
LEMMA PayloadPut ==
  ASSUME TypeOK, NEW d \in Payloads \cup {None}, PutPayload(d),
         Distinct(payload_freelist), d \notin InQueue(payload_freelist),
         InQueue(payload_freelist) \subseteq payloads, d # None => d \in payloads
  PROVE  /\ payload_freelist' \in Seq(Payloads)
         /\ Len(payload_freelist') <= MaxSize
         /\ payloads' \subseteq payloads
         /\ Distinct(payload_freelist')
         /\ InQueue(payload_freelist') \subseteq InQueue(payload_freelist) \cup {d}
         /\ payloads' = (payloads \ {d}) \cup InQueue(payload_freelist')
<1>1. /\ payload_freelist \in Seq(Payloads)
      /\ Len(payload_freelist) \in Nat /\ Len(payload_freelist) <= MaxSize
      /\ MaxSize \in Nat
      /\ payloads \subseteq Payloads
  BY FinitePool DEF TypeOK
<1>2. CASE d # None /\ Room(payload_freelist)
  <2>1. payload_freelist' = Append(payload_freelist, d) /\ payloads' = payloads
    BY <1>2 DEF PutPayload
  <2>2. Len(payload_freelist) < MaxSize /\ d \in Payloads
    BY <1>2 DEF Room
  <2>3. /\ payload_freelist' \in Seq(Payloads)
        /\ Len(payload_freelist') = Len(payload_freelist) + 1
        /\ Distinct(payload_freelist')
        /\ InQueue(payload_freelist') = InQueue(payload_freelist) \cup {d}
    BY <1>1, <2>1, <2>2, Pushed
  <2>4. Len(payload_freelist') <= MaxSize
    BY <1>1, <2>2, <2>3
  <2>5. QED
    BY <1>1, <1>2, <2>1, <2>3, <2>4
<1>3. CASE ~ (d # None /\ Room(payload_freelist))
  <2>1. payload_freelist' = payload_freelist /\ payloads' = payloads \ {d}
    BY <1>3 DEF PutPayload
  <2>2. QED
    BY <1>1, <2>1
<1>4. QED
  BY <1>2, <1>3

LEMMA ReleaseIInv ==
  ASSUME IInv, NEW p \in Packets, Release(p)
  PROVE  IInv'
<1> USE DEF Release
<1>1. TypeOK /\ PacketsAccounted /\ PayloadsAccounted /\ UsageIsHeld /\ p \in held
  BY DEF IInv
<1>2. /\ Attached \subseteq held
      /\ \A r, s \in Attached : payload[r] = payload[s] => r = s
      /\ \A r \in Attached : payload[r] \notin InQueue(payload_freelist)
      /\ payloads = {payload[r] : r \in Attached} \cup InQueue(payload_freelist)
      /\ Distinct(payload_freelist)
  BY <1>1 DEF PayloadsAccounted, Attached
<1>3. /\ packet_freelist' \in Seq(Packets)
      /\ Len(packet_freelist') <= MaxSize
      /\ packets' \subseteq packets
      /\ Distinct(packet_freelist')
      /\ (held \ {p}) \cap InQueue(packet_freelist') = {}
      /\ packets' = (held \ {p}) \cup InQueue(packet_freelist')
  BY <1>1, PacketPut
<1>4. /\ payload[p] \in Payloads \cup {None}
      /\ payload[p] \notin InQueue(payload_freelist)
      /\ InQueue(payload_freelist) \subseteq payloads
      /\ payload[p] # None => payload[p] \in payloads
  <2>1. CASE p \in Attached
    BY <1>1, <1>2, <2>1 DEF TypeOK, Attached
  <2>2. CASE p \notin Attached
    <3>1. payload[p] = None
      BY <2>2 DEF Attached
    <3>2. InQueue(payload_freelist) \subseteq Payloads
      BY <1>1, InQueueTyped DEF TypeOK
    <3>3. QED
      BY <1>2, <3>1, <3>2, NullPointer
  <2>3. QED
    BY <2>1, <2>2
<1>5. /\ payload_freelist' \in Seq(Payloads)
      /\ Len(payload_freelist') <= MaxSize
      /\ payloads' \subseteq payloads
      /\ Distinct(payload_freelist')
      /\ InQueue(payload_freelist') \subseteq InQueue(payload_freelist) \cup {payload[p]}
      /\ payloads' = (payloads \ {payload[p]}) \cup InQueue(payload_freelist')
  BY <1>1, <1>2, <1>4, PayloadPut
<1>6. /\ IsFiniteSet(held)
      /\ Cardinality(held \ {p}) = Cardinality(held) - 1
      /\ Cardinality(held \ {p}) \in Nat
      /\ Cardinality(packets') <= Cardinality(packets)
      /\ Cardinality(packets') \in Nat
      /\ Cardinality(packets) \in Nat
  <2>1. IsFiniteSet(held) /\ IsFiniteSet(packets)
    BY <1>1, FinitePool, FS_Subset DEF TypeOK
  <2>2. /\ IsFiniteSet(held \ {p})
        /\ Cardinality(held \ {p}) = Cardinality(held) - 1
    BY <1>1, <2>1, FS_RemoveElement
  <2>3. IsFiniteSet(packets') /\ Cardinality(packets') <= Cardinality(packets)
    BY <1>3, <2>1, FS_Subset
  <2>4. QED
    BY <2>1, <2>2, <2>3, FS_CardinalityType
<1>7. current_usage' = Cardinality(held') /\ current_usage' \in Nat
  BY <1>1, <1>6 DEF UsageIsHeld
<1>8. TypeOK'
  BY <1>1, <1>3, <1>5, <1>7 DEF TypeOK
<1>9. PacketsAccounted'
  BY <1>3 DEF PacketsAccounted
<1>10. PayloadsAccounted'
  <2>1. \A r \in Packets : payload'[r] = IF r = p THEN None ELSE payload[r]
    BY <1>1 DEF TypeOK
  <2>2. Attached' = Attached \ {p}
    BY <2>1 DEF Attached
  <2>3. \A r \in Attached \ {p} :
          /\ r \in held \ {p} /\ payload'[r] = payload[r]
          /\ payload[r] # payload[p]
    BY <1>2, <2>1 DEF Attached
  <2>4. \A r \in Attached' : payload'[r] \notin InQueue(payload_freelist')
    BY <1>2, <1>5, <2>2, <2>3
  <2>5. payloads' = {payload'[r] : r \in Attached'} \cup InQueue(payload_freelist')
    <3>1. InQueue(payload_freelist) \ {payload[p]} \subseteq InQueue(payload_freelist')
      <4>1. CASE payload[p] # None /\ Room(payload_freelist)
        <5>1. payload_freelist' = Append(payload_freelist, payload[p])
          BY <4>1 DEF PutPayload
        <5>2. payload_freelist \in Seq(Payloads) /\ payload[p] \in Payloads
          BY <1>1, <1>4, <4>1 DEF TypeOK
        <5>3. InQueue(payload_freelist')
                = InQueue(payload_freelist) \cup {payload[p]}
          BY <1>2, <1>4, <5>1, <5>2, Pushed
        <5>4. QED
          BY <5>3
      <4>2. CASE ~ (payload[p] # None /\ Room(payload_freelist))
        BY <4>2 DEF PutPayload
      <4>3. QED
        BY <4>1, <4>2
    <3>2. {payload[r] : r \in Attached} \ {payload[p]}
            = {payload'[r] : r \in Attached'}
      BY <2>2, <2>3
    <3>3. QED
      BY <1>2, <1>5, <3>1, <3>2
  <2>6. QED
    BY <1>2, <1>5, <2>2, <2>3, <2>4, <2>5 DEF PayloadsAccounted, Attached
<1>11. UsageIsHeld'
  <2>1. current_usage' <= peak_usage'
    BY <1>1 DEF TypeOK, UsageIsHeld
  <2>2. Cardinality(packets') <= peak_usage'
    BY <1>1, <1>6 DEF TypeOK, UsageIsHeld
  <2>3. QED
    BY <1>7, <2>1, <2>2 DEF UsageIsHeld
<1>12. QED
  BY <1>8, <1>9, <1>10, <1>11 DEF IInv

LEMMA DeletedReadIInv ==
  ASSUME IInv, NEW p \in Packets, ReleaseReadsDeleted(p)
  PROVE  IInv'
<1> USE DEF ReleaseReadsDeleted, IInv
<1>1. TypeOK'
  BY DEF TypeOK
<1>2. PacketsAccounted' /\ PayloadsAccounted' /\ UsageIsHeld'
  BY DEF PacketsAccounted, PayloadsAccounted, UsageIsHeld
<1>3. QED
  BY <1>1, <1>2

-----------------------------------------------------------------------------
\* The inductive invariant holds, for whatever users do that keep to the rules.
THEOREM Inductive == Spec => []IInv
<1>1. IInv /\ [Next]_vars => IInv'
  <2>1. SUFFICES ASSUME IInv, [Next]_vars PROVE IInv'
    OBVIOUS
  <2>2. CASE \E p \in Packets : Acquire(p)
    BY <2>1, <2>2, AcquireIInv
  <2>3. CASE \E p \in Packets, d \in Payloads : AttachPayload(p, d)
    BY <2>1, <2>3, AttachIInv
  <2>4. CASE \E p, r \in Packets : Refer(p, r)
    BY <2>1, <2>4, ReferIInv
  <2>5. CASE \E p \in Packets : Release(p)
    BY <2>1, <2>5, ReleaseIInv
  <2>6. CASE \E p \in Packets : ReleaseReadsDeleted(p)
    BY <2>1, <2>6, DeletedReadIInv
  <2>7. CASE UNCHANGED vars
    BY <2>1, <2>7 DEF vars, IInv, TypeOK, PacketsAccounted, PayloadsAccounted,
                      UsageIsHeld
  <2>8. QED
    BY <2>1, <2>2, <2>3, <2>4, <2>5, <2>6, <2>7 DEF Next
<1>2. QED
  BY <1>1, InitIInv, PTL DEF Spec

(***************************************************************************)
(* The types, and that no freelist outgrows m_max_size, whatever its value *)
(* (packet_pool.hh 112, 122).                                              *)
(***************************************************************************)
THEOREM TypeCorrect == Spec => []TypeOK
<1>1. IInv => TypeOK
  BY DEF IInv
<1>2. QED
  BY <1>1, Inductive, PTL

(***************************************************************************)
(* No packet is leaked, handed to two users or deleted while it is in the  *)
(* freelist, in any order of acquire() and release().                      *)
(***************************************************************************)
THEOREM PacketsOnce == Spec => []PacketsAccounted
<1>1. IInv => PacketsAccounted
  BY DEF IInv
<1>2. QED
  BY <1>1, Inductive, PTL

(***************************************************************************)
(* No payload is leaked, shared by two packets or deleted while a packet   *)
(* or the freelist refers to it, although acquire() deletes what it takes. *)
(***************************************************************************)
THEOREM PayloadsOnce == Spec => []PayloadsAccounted
<1>1. IInv => PayloadsAccounted
  BY DEF IInv
<1>2. QED
  BY <1>1, Inductive, PTL

(***************************************************************************)
(* current_usage() counts the packets in use, exactly, and never more      *)
(* packets exist than were in use at the peak.                             *)
(***************************************************************************)
THEOREM UsageCorrect == Spec => []UsageIsHeld
<1>1. IInv => UsageIsHeld
  BY DEF IInv
<1>2. QED
  BY <1>1, Inductive, PTL

-----------------------------------------------------------------------------
\* A queue without repetitions has as many elements as places.
LEMMA QueueCardinality ==
  ASSUME NEW S, NEW q \in Seq(S), Distinct(q)
  PROVE  IsFiniteSet(InQueue(q)) /\ Cardinality(InQueue(q)) = Len(q)
<1>1. q \in [1 .. Len(q) -> InQueue(q)] /\ Len(q) \in Nat
  BY DEF InQueue
<1>2. \A e \in InQueue(q) : \E i \in 1 .. Len(q) : q[i] = e
  BY DEF InQueue
<1>3. \A i, j \in 1 .. Len(q) : q[i] = q[j] => i = j
  BY DEF Distinct
<1>4. q \in Bijection(1 .. Len(q), InQueue(q))
  BY <1>1, <1>2, <1>3, Fun_IsBij
<1>5. ExistsBijection(1 .. Len(q), InQueue(q))
  BY <1>4 DEF ExistsBijection
<1>6. IsFiniteSet(1 .. Len(q)) /\ Cardinality(1 .. Len(q)) = Len(q)
  <2> DEFINE n == Len(q)
  <2>1. n \in Nat /\ n \in Int /\ 1 \in Int
    BY <1>1
  <2> HIDE DEF n
  <2>2. IsFiniteSet(1 .. n) /\ Cardinality(1 .. n) = IF 1 > n THEN 0 ELSE n - 1 + 1
    BY <2>1, FS_Interval
  <2>3. QED
    BY <2>1, <2>2 DEF n
<1>7. QED
  BY <1>5, <1>6, FS_Bijection

\* With two packets in use besides a full freelist, that many were in use at once.
LEMMA DeletedOnOverflow ==
  ASSUME IInv, NEW p \in held, NEW r \in held, p # r, ~Room(packet_freelist)
  PROVE  peak_usage >= MaxSize + 2
<1> DEFINE q == packet_freelist
<1>1. /\ q \in Seq(Packets) /\ Distinct(q) /\ Len(q) \in Nat /\ MaxSize \in Nat
      /\ Len(q) >= MaxSize /\ p \notin InQueue(q) /\ r \notin InQueue(q)
      /\ packets = held \cup InQueue(q) /\ packets \subseteq Packets
      /\ Cardinality(packets) <= peak_usage /\ peak_usage \in Nat
  BY FinitePool DEF IInv, TypeOK, PacketsAccounted, UsageIsHeld, Room
<1> HIDE DEF q
<1>2. IsFiniteSet(InQueue(q)) /\ Cardinality(InQueue(q)) = Len(q)
  BY <1>1, QueueCardinality
<1>3. Cardinality(InQueue(q) \cup {p} \cup {r}) = Len(q) + 2
  <2>1. /\ IsFiniteSet(InQueue(q) \cup {p})
        /\ Cardinality(InQueue(q) \cup {p}) = Len(q) + 1
    BY <1>1, <1>2, FS_AddElement
  <2>2. r \notin InQueue(q) \cup {p}
    BY <1>1
  <2>3. Cardinality(InQueue(q) \cup {p} \cup {r}) = Cardinality(InQueue(q) \cup {p}) + 1
    BY <2>1, <2>2, FS_AddElement
  <2>4. QED
    BY <1>1, <2>1, <2>3
<1>4. IsFiniteSet(packets) /\ InQueue(q) \cup {p} \cup {r} \subseteq packets
  BY <1>1, FinitePool, FS_Subset
<1>5. Cardinality(InQueue(q) \cup {p} \cup {r}) <= Cardinality(packets)
  BY <1>4, FS_Subset
<1>6. Cardinality(packets) \in Nat
  BY <1>4, FS_CardinalityType
<1>7. QED
  BY <1>1, <1>3, <1>5, <1>6

LEMMA ReleaseDeletes ==
  ASSUME IInv, NEW p \in Packets, Release(p), RequestsDeletedOnOverflow
  PROVE  RequestsDeletedOnOverflow'
<1>1. SUFFICES ASSUME NEW r \in Packets, original_req'[r] # None
               PROVE  /\ r \in held'
                      /\ original_req'[r] \notin packets' => peak_usage >= MaxSize + 2
  BY DEF RequestsDeletedOnOverflow, Release
<1>2. r # p /\ original_req[r] = original_req'[r] /\ r \in held /\ r \in held'
  BY <1>1 DEF Release, IInv, TypeOK, RequestsDeletedOnOverflow
<1>3. SUFFICES ASSUME original_req[r] \notin packets' PROVE peak_usage >= MaxSize + 2
  BY <1>2
<1>4. CASE original_req[r] \notin packets
  BY <1>1, <1>2, <1>4 DEF RequestsDeletedOnOverflow
<1>5. CASE original_req[r] \in packets
  <2>1. ~Room(packet_freelist)
    BY <1>3, <1>5 DEF Release, PutPacket
  <2>2. QED
    BY <1>2, <2>1, DeletedOnOverflow DEF Release
<1>6. QED
  BY <1>4, <1>5

\* No step but a release() deletes a packet that is referred to.
LEMMA RequestsDeletedStep ==
  ASSUME IInv, [Next]_vars, RequestsDeletedOnOverflow
  PROVE  RequestsDeletedOnOverflow'
<1>1. ASSUME NEW p \in Packets, Acquire(p)
      PROVE  RequestsDeletedOnOverflow'
  <2>1. /\ packets' = packets \cup {p}
        /\ \A r \in Packets : original_req'[r] = IF r = p THEN None ELSE original_req[r]
        /\ peak_usage' >= peak_usage /\ held' = held \cup {p}
    BY <1>1 DEF Acquire, IInv, TypeOK
  <2>2. MaxSize \in Nat /\ peak_usage \in Nat /\ peak_usage' \in Nat
    BY <1>1, FinitePool DEF Acquire, IInv, TypeOK
  <2>3. QED
    BY <2>1, <2>2 DEF RequestsDeletedOnOverflow
<1>2. ASSUME NEW p \in Packets, NEW r \in Packets, Refer(p, r)
      PROVE  RequestsDeletedOnOverflow'
  <2>1. /\ packets' = packets /\ peak_usage' = peak_usage /\ r \in packets
        /\ held' = held /\ p \in held
        /\ \A s \in Packets : original_req'[s] = IF s = p THEN r ELSE original_req[s]
    BY <1>2 DEF Refer, IInv, TypeOK, PacketsAccounted
  <2>2. QED
    BY <2>1 DEF RequestsDeletedOnOverflow
<1>3. ASSUME NEW p \in Packets, Release(p)
      PROVE  RequestsDeletedOnOverflow'
  BY <1>3, ReleaseDeletes
<1>4. CASE (\E p \in Packets, d \in Payloads : AttachPayload(p, d))
             \/ (\E p \in Packets : ReleaseReadsDeleted(p)) \/ UNCHANGED vars
  <2>1. UNCHANGED <<packets, original_req, peak_usage, held>>
    BY <1>4 DEF AttachPayload, ReleaseReadsDeleted, vars
  <2>2. QED
    BY <2>1 DEF RequestsDeletedOnOverflow
<1>5. QED
  BY <1>1, <1>2, <1>3, <1>4 DEF Next

(***************************************************************************)
(* remove_ref() reads a deleted request only after m_max_size + 2 packets  *)
(* have been in use at once, whatever the size of the freelists and        *)
(* whatever users refer to (packet_pool.hh 105-107, 122-126).              *)
(***************************************************************************)
THEOREM ReadsDeletedAfterOverflow == Spec => []DeletedReadOnlyAfterOverflow
<1> DEFINE Known == RequestsDeletedOnOverflow /\ DeletedReadOnlyAfterOverflow
<1>1. Init => Known
  BY DEF Init, RequestsDeletedOnOverflow, DeletedReadOnlyAfterOverflow
<1>2. IInv /\ Known /\ [Next]_vars => Known'
  <2>1. SUFFICES ASSUME IInv, Known, [Next]_vars PROVE DeletedReadOnlyAfterOverflow'
    BY RequestsDeletedStep
  <2>2. ASSUME NEW p \in Packets, Acquire(p)
        PROVE  DeletedReadOnlyAfterOverflow'
    BY <2>2 DEF Acquire, DeletedReadOnlyAfterOverflow
  <2>3. CASE (\E p \in Packets, d \in Payloads : AttachPayload(p, d))
               \/ (\E p, r \in Packets : Refer(p, r))
               \/ (\E p \in Packets : Release(p)) \/ UNCHANGED vars
    <3>1. UNCHANGED <<ub, peak_usage>>
      BY <2>3 DEF AttachPayload, Refer, Release, vars
    <3>2. QED
      BY <2>1, <3>1 DEF DeletedReadOnlyAfterOverflow
  <2>4. ASSUME NEW p \in Packets, ReleaseReadsDeleted(p)
        PROVE  DeletedReadOnlyAfterOverflow'
    <3>1. original_req[p] \notin packets /\ original_req[p] # None /\ peak_usage' = peak_usage
      BY <2>4 DEF ReleaseReadsDeleted, DanglingRequest
    <3>2. QED
      BY <2>1, <3>1 DEF RequestsDeletedOnOverflow, DeletedReadOnlyAfterOverflow
  <2>5. QED
    BY <2>1, <2>2, <2>3, <2>4 DEF Next
<1>3. Known => DeletedReadOnlyAfterOverflow
  OBVIOUS
<1> HIDE DEF Known
<1>4. QED
  BY <1>1, <1>2, <1>3, Inductive, PTL DEF Spec
===============================================================================
