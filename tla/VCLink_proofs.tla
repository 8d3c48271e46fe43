---------------------------- MODULE VCLink_proofs ----------------------------
(***************************************************************************)
(* Proofs of the safety properties of VCLink, for any number of masters    *)
(* and virtual channels, any capacities and any number of packets.         *)
(***************************************************************************)
EXTENDS VCLink, SequenceTheorems, TLAPS

(***************************************************************************)
(* The inductive invariant: the type invariant, the three parts of         *)
(* ExactlyOnceInOrder, and that nothing is handled before it has entered.  *)
(* Without the last, a stream of which nothing waits in the InputVC could  *)
(* have been handled further than it has entered.                          *)
(***************************************************************************)
HandledEntered == \A s \in Streams : Len(handled[s]) <= entered[s]

IInv ==
  /\ TypeOK
  /\ HandledEntered
  /\ HandledInOrder
  /\ InputHoldsEntered
  /\ OutputHoldsRest

-----------------------------------------------------------------------------
\* What Append, Head and Tail do, element by element.
LEMMA Appended ==
  ASSUME NEW S, NEW q \in Seq(S), NEW e \in S
  PROVE  /\ Append(q, e) \in Seq(S)
         /\ Len(q) \in Nat
         /\ Len(Append(q, e)) = Len(q) + 1
         /\ \A i \in 1 .. Len(q) : Append(q, e)[i] = q[i]
         /\ Append(q, e)[Len(q) + 1] = e
OBVIOUS

LEMMA Popped ==
  ASSUME NEW S, NEW q \in Seq(S), q # <<>>
  PROVE  /\ Tail(q) \in Seq(S)
         /\ Len(q) \in Nat
         /\ Len(q) >= 1
         /\ Len(Tail(q)) = Len(q) - 1
         /\ Head(q) = q[1]
         /\ q[1] \in S
         /\ \A i \in 1 .. Len(q) - 1 : Tail(q)[i] = q[i + 1]
OBVIOUS

\* A retry that succeeds moves the front of the buffer to its end.
LEMMA Rotated ==
  ASSUME NEW S, NEW q \in Seq(S), NEW c \in Nat, q # <<>>, Len(q) < c
  PROVE  /\ TrySend(q, c) \in Seq(S)
         /\ Len(TrySend(q, c)) = Len(q)
         /\ \A i \in 1 .. Len(q) - 1 : TrySend(q, c)[i] = q[i + 1]
         /\ TrySend(q, c)[Len(q)] = q[1]
<1> DEFINE a == Append(q, Head(q))
<1>1. Head(q) = q[1] /\ q[1] \in S /\ Len(q) \in Nat /\ Len(q) >= 1
  BY Popped
<1>2. /\ a \in Seq(S) /\ Len(a) = Len(q) + 1
      /\ \A i \in 1 .. Len(q) : a[i] = q[i]
      /\ a[Len(q) + 1] = q[1]
  BY <1>1, Appended
<1>3. a # <<>>
  BY <1>1, <1>2
<1>4. /\ Tail(a) \in Seq(S) /\ Len(Tail(a)) = Len(a) - 1
      /\ \A i \in 1 .. Len(a) - 1 : Tail(a)[i] = a[i + 1]
  BY <1>2, <1>3, Popped
<1>5. TrySend(q, c) = Tail(a)
  BY DEF TrySend
<1> HIDE DEF a
<1>6. QED
  BY <1>1, <1>2, <1>4, <1>5

-----------------------------------------------------------------------------
(***************************************************************************)
(* InputHoldsEntered for one stream: of the packets of master m, the       *)
(* InputVC with buffer q holds numbers hd + 1 .. en, in this order.        *)
(***************************************************************************)
Holds(q, m, hd, en) ==
  /\ \A i \in 1 .. Len(q) : q[i].src = m =>
       /\ q[i].num > hd /\ q[i].num <= en
       /\ \A j \in 1 .. i - 1 : q[j].src = m => q[j].num < q[i].num
  /\ \A n \in Nat : n > hd /\ n <= en =>
       \E i \in 1 .. Len(q) : q[i].src = m /\ q[i].num = n

EachHolds ==
  /\ \A v \in InVCs : \A i \in 1 .. Len(inq[v]) : inq[v][i].vc = v
  /\ \A s \in Streams :
       IF s[2] \in InVCs
       THEN Holds(inq[s[2]], s[1], Len(handled[s]), entered[s])
       ELSE entered[s] <= Len(handled[s])

LEMMA EntryNumber ==
  ASSUME NEW q \in Seq(Packets), NEW i \in 1 .. Len(q)
  PROVE  q[i].num \in Nat
<1>1. q[i] \in Packets
  OBVIOUS
<1>2. QED
  BY <1>1 DEF Packets

\* A packet of the stream arrives.
LEMMA HoldsArrived ==
  ASSUME NEW q \in Seq(Packets), NEW m, NEW hd \in Nat, NEW en \in Nat,
         Holds(q, m, hd, en), hd <= en,
         NEW p \in Packets, p.src = m, p.num = en + 1
  PROVE  Holds(Append(q, p), m, hd, en + 1)
<1> DEFINE r == Append(q, p)
<1>1. /\ Len(q) \in Nat /\ Len(r) = Len(q) + 1
      /\ \A i \in 1 .. Len(q) : r[i] = q[i]
      /\ r[Len(q) + 1] = p
  BY Appended
<1>2. \A i \in 1 .. Len(q) : q[i].num \in Nat
  BY EntryNumber
<1> HIDE DEF r
<1>3. ASSUME NEW i \in 1 .. Len(r), r[i].src = m
      PROVE  /\ r[i].num > hd /\ r[i].num <= en + 1
             /\ \A j \in 1 .. i - 1 : r[j].src = m => r[j].num < r[i].num
  <2>1. CASE i \in 1 .. Len(q)
    <3>1. /\ q[i].num > hd /\ q[i].num <= en /\ q[i].num \in Nat
          /\ \A j \in 1 .. i - 1 : q[j].src = m => q[j].num < q[i].num
      BY <1>1, <1>2, <1>3, <2>1 DEF Holds
    <3>2. r[i] = q[i] /\ \A j \in 1 .. i - 1 : r[j] = q[j]
      BY <1>1, <2>1
    <3>3. q[i].num <= en + 1
      BY <3>1
    <3>4. QED
      BY <3>1, <3>2, <3>3
  <2>2. CASE i = Len(q) + 1
    <3>1. \A j \in 1 .. Len(q) : q[j].src = m => q[j].num <= en
      BY DEF Holds
    <3>2. i - 1 = Len(q) /\ r[i] = p
      BY <1>1, <2>2
    <3>3. \A j \in 1 .. i - 1 : r[j].src = m => r[j].num < en + 1
      BY <1>1, <1>2, <3>1, <3>2
    <3>4. QED
      BY <3>2, <3>3
  <2>3. QED
    BY <1>1, <2>1, <2>2
<1>4. ASSUME NEW n \in Nat, n > hd, n <= en + 1
      PROVE  \E i \in 1 .. Len(r) : r[i].src = m /\ r[i].num = n
  <2>1. CASE n = en + 1
    BY <1>1, <2>1
  <2>2. CASE n <= en
    <3>1. PICK i \in 1 .. Len(q) : q[i].src = m /\ q[i].num = n
      BY <1>4, <2>2 DEF Holds
    <3>2. i \in 1 .. Len(r) /\ r[i] = q[i]
      BY <1>1
    <3>3. QED
      BY <3>1, <3>2
  <2>3. QED
    BY <1>4, <2>1, <2>2
<1>5. QED
  BY <1>3, <1>4 DEF Holds, r

\* A packet of another stream arrives.
LEMMA HoldsOtherArrived ==
  ASSUME NEW q \in Seq(Packets), NEW m, NEW hd \in Nat, NEW en \in Nat,
         Holds(q, m, hd, en), NEW p \in Packets, p.src # m
  PROVE  Holds(Append(q, p), m, hd, en)
<1> DEFINE r == Append(q, p)
<1>1. /\ Len(q) \in Nat /\ Len(r) = Len(q) + 1
      /\ \A i \in 1 .. Len(q) : r[i] = q[i]
      /\ r[Len(q) + 1] = p
  BY Appended
<1> HIDE DEF r
<1>2. ASSUME NEW i \in 1 .. Len(r), r[i].src = m
      PROVE  /\ r[i].num > hd /\ r[i].num <= en
             /\ \A j \in 1 .. i - 1 : r[j].src = m => r[j].num < r[i].num
  <2>1. i \in 1 .. Len(q)
    BY <1>1, <1>2
  <2>2. QED
    BY <1>1, <1>2, <2>1 DEF Holds
<1>3. ASSUME NEW n \in Nat, n > hd, n <= en
      PROVE  \E i \in 1 .. Len(r) : r[i].src = m /\ r[i].num = n
  <2>1. PICK i \in 1 .. Len(q) : q[i].src = m /\ q[i].num = n
    BY <1>3 DEF Holds
  <2>2. i \in 1 .. Len(r) /\ r[i] = q[i]
    BY <1>1
  <2>3. QED
    BY <2>1, <2>2
<1>4. QED
  BY <1>2, <1>3 DEF Holds, r

\* The front of the buffer is the next packet of its stream, and popping it
\* leaves the rest.
LEMMA HoldsPopped ==
  ASSUME NEW q \in Seq(Packets), NEW m, NEW hd \in Nat, NEW en \in Nat,
         Holds(q, m, hd, en), q # <<>>, Head(q).src = m
  PROVE  /\ Head(q).num = hd + 1 /\ hd + 1 <= en
         /\ Holds(Tail(q), m, hd + 1, en)
<1> DEFINE r == Tail(q)
<1>1. /\ Len(q) \in Nat /\ Len(q) >= 1 /\ Len(r) = Len(q) - 1
      /\ Head(q) = q[1]
      /\ \A i \in 1 .. Len(q) - 1 : r[i] = q[i + 1]
  BY Popped
<1>2. \A i \in 1 .. Len(q) : q[i].num \in Nat
  BY EntryNumber
<1> HIDE DEF r
<1>3. q[1].num > hd /\ q[1].num <= en /\ 1 \in 1 .. Len(q) /\ q[1].num \in Nat
  BY <1>1, <1>2 DEF Holds
<1>4. q[1].num = hd + 1
  <2>1. PICK i \in 1 .. Len(q) : q[i].src = m /\ q[i].num = hd + 1
    BY <1>3 DEF Holds
  <2>2. CASE i = 1
    BY <2>1, <2>2
  <2>3. CASE i # 1
    <3>1. 1 \in 1 .. i - 1
      BY <1>1, <2>3
    <3>2. q[1].num < q[i].num
      BY <1>1, <2>1, <3>1 DEF Holds
    <3>3. QED
      BY <1>3, <2>1, <3>2
  <2>4. QED
    BY <2>2, <2>3
<1>5. ASSUME NEW i \in 1 .. Len(r), r[i].src = m
      PROVE  /\ r[i].num > hd + 1 /\ r[i].num <= en
             /\ \A j \in 1 .. i - 1 : r[j].src = m => r[j].num < r[i].num
  <2>1. /\ i + 1 \in 1 .. Len(q) /\ r[i] = q[i + 1] /\ 1 \in 1 .. (i + 1) - 1
        /\ \A j \in 1 .. i - 1 : j + 1 \in 1 .. (i + 1) - 1 /\ r[j] = q[j + 1]
    BY <1>1
  <2>2. /\ q[i + 1].num <= en
        /\ \A j \in 1 .. (i + 1) - 1 : q[j].src = m => q[j].num < q[i + 1].num
    BY <1>5, <2>1 DEF Holds
  <2>3. r[i].num > hd + 1
    BY <1>1, <1>2, <1>4, <2>1, <2>2
  <2>4. QED
    BY <2>1, <2>2, <2>3
<1>6. ASSUME NEW n \in Nat, n > hd + 1, n <= en
      PROVE  \E i \in 1 .. Len(r) : r[i].src = m /\ r[i].num = n
  <2>1. PICK i \in 1 .. Len(q) : q[i].src = m /\ q[i].num = n
    <3>1. n > hd
      BY <1>6
    <3>2. QED
      BY <1>6, <3>1 DEF Holds
  <2>2. i # 1
    BY <1>4, <1>6, <2>1
  <2>3. i - 1 \in 1 .. Len(r) /\ r[i - 1] = q[i]
    BY <1>1, <2>2
  <2>4. QED
    BY <2>1, <2>3
<1>7. QED
  BY <1>1, <1>3, <1>4, <1>5, <1>6 DEF Holds, r

\* Popping a packet of another stream changes nothing for this one.
LEMMA HoldsOtherPopped ==
  ASSUME NEW q \in Seq(Packets), NEW m, NEW hd \in Nat, NEW en \in Nat,
         Holds(q, m, hd, en), q # <<>>, Head(q).src # m
  PROVE  Holds(Tail(q), m, hd, en)
<1> DEFINE r == Tail(q)
<1>1. /\ Len(q) \in Nat /\ Len(q) >= 1 /\ Len(r) = Len(q) - 1
      /\ Head(q) = q[1]
      /\ \A i \in 1 .. Len(q) - 1 : r[i] = q[i + 1]
  BY Popped
<1> HIDE DEF r
<1>2. ASSUME NEW i \in 1 .. Len(r), r[i].src = m
      PROVE  /\ r[i].num > hd /\ r[i].num <= en
             /\ \A j \in 1 .. i - 1 : r[j].src = m => r[j].num < r[i].num
  <2>1. /\ i + 1 \in 1 .. Len(q) /\ r[i] = q[i + 1]
        /\ \A j \in 1 .. i - 1 : j + 1 \in 1 .. (i + 1) - 1 /\ r[j] = q[j + 1]
    BY <1>1
  <2>2. /\ q[i + 1].num > hd /\ q[i + 1].num <= en
        /\ \A j \in 1 .. (i + 1) - 1 : q[j].src = m => q[j].num < q[i + 1].num
    BY <1>2, <2>1 DEF Holds
  <2>3. QED
    BY <2>1, <2>2
<1>3. ASSUME NEW n \in Nat, n > hd, n <= en
      PROVE  \E i \in 1 .. Len(r) : r[i].src = m /\ r[i].num = n
  <2>1. PICK i \in 1 .. Len(q) : q[i].src = m /\ q[i].num = n
    BY <1>3 DEF Holds
  <2>2. i # 1
    BY <1>1, <2>1
  <2>3. i - 1 \in 1 .. Len(r) /\ r[i - 1] = q[i]
    BY <1>1, <2>2
  <2>4. QED
    BY <2>1, <2>3
<1>4. QED
  BY <1>2, <1>3 DEF Holds, r

\* EachHolds says what InputHoldsEntered says, stream by stream.
LEMMA ToEachHolds ==
  ASSUME TypeOK, InputHoldsEntered
  PROVE  EachHolds
<1>1. \A v \in InVCs : \A i \in 1 .. Len(inq[v]) : inq[v][i].vc = v
  BY DEF InputHoldsEntered
<1>2. ASSUME NEW s \in Streams
      PROVE  IF s[2] \in InVCs
             THEN Holds(inq[s[2]], s[1], Len(handled[s]), entered[s])
             ELSE entered[s] <= Len(handled[s])
  <2>1. /\ s = <<s[1], s[2]>>
        /\ Len(handled[s]) \in Nat /\ entered[s] \in Nat
    BY DEF Streams, TypeOK
  <2>2. ASSUME NEW n \in Nat, n > Len(handled[s]), n <= entered[s]
        PROVE  s[2] \in InVCs /\ \E i \in 1 .. Len(inq[s[2]]) :
                 inq[s[2]][i].src = s[1] /\ inq[s[2]][i].num = n
    <3>1. n \in Len(handled[s]) + 1 .. entered[s]
      BY <2>1, <2>2
    <3>2. s[2] \in InVCs /\ \E i \in 1 .. Len(inq[s[2]]) :
            inq[s[2]][i] = Packet(s[1], s[2], n)
      BY <3>1 DEF InputHoldsEntered
    <3>3. QED
      BY <3>2 DEF Packet
  <2>3. ASSUME NEW i \in 1 .. Len(inq[s[2]]), s[2] \in InVCs,
               inq[s[2]][i].src = s[1]
        PROVE  /\ inq[s[2]][i].num > Len(handled[s])
               /\ inq[s[2]][i].num <= entered[s]
               /\ \A j \in 1 .. i - 1 : inq[s[2]][j].src = s[1]
                                         => inq[s[2]][j].num < inq[s[2]][i].num
    <3>1. /\ inq[s[2]][i].num \in Len(handled[s]) + 1 .. entered[s]
          /\ \A j \in 1 .. i - 1 : inq[s[2]][j].src = s[1]
                                    => inq[s[2]][j].num < inq[s[2]][i].num
      BY <2>1, <2>3 DEF InputHoldsEntered
    <3>2. QED
      BY <2>1, <3>1
  <2>4. CASE s[2] \in InVCs
    BY <2>2, <2>3, <2>4 DEF Holds
  <2>5. CASE s[2] \notin InVCs
    BY <2>1, <2>2, <2>5
  <2>6. QED
    BY <2>4, <2>5
<1>3. QED
  BY <1>1, <1>2 DEF EachHolds

LEMMA FromEachHolds ==
  ASSUME TypeOK', EachHolds'
  PROVE  InputHoldsEntered'
<1>1. ASSUME NEW v \in InVCs, NEW i \in 1 .. Len(inq'[v])
      PROVE  LET p == inq'[v][i]
             IN  /\ p.vc = v
                 /\ p.num \in Len(handled'[<<p.src, v>>]) + 1
                                .. entered'[<<p.src, v>>]
                 /\ \A j \in 1 .. i - 1 : inq'[v][j].src = p.src
                                           => inq'[v][j].num < p.num
  <2> DEFINE p == inq'[v][i]
             s == <<p.src, v>>
  <2>1. p.vc = v /\ p \in Packets
    BY DEF TypeOK, EachHolds
  <2>2. s \in Streams /\ s[1] = p.src /\ s[2] = v
    BY <2>1 DEF Packets, Streams
  <2>3. /\ Len(handled'[s]) \in Nat /\ entered'[s] \in Nat /\ p.num \in Nat
    BY <2>1, <2>2 DEF Packets, TypeOK
  <2>4. Holds(inq'[v], p.src, Len(handled'[s]), entered'[s])
    BY <2>2 DEF EachHolds
  <2>5. /\ p.num > Len(handled'[s]) /\ p.num <= entered'[s]
        /\ \A j \in 1 .. i - 1 : inq'[v][j].src = p.src => inq'[v][j].num < p.num
    BY <2>4 DEF Holds
  <2>6. p.num \in Len(handled'[s]) + 1 .. entered'[s]
    BY <2>3, <2>5
  <2>7. QED
    BY <2>1, <2>5, <2>6
<1>2. ASSUME NEW s \in Streams, NEW n \in Len(handled'[s]) + 1 .. entered'[s]
      PROVE  s[2] \in InVCs /\ \E i \in 1 .. Len(inq'[s[2]]) :
               inq'[s[2]][i] = Packet(s[1], s[2], n)
  <2>1. Len(handled'[s]) \in Nat /\ entered'[s] \in Nat
    BY DEF TypeOK
  <2>2. n \in Nat /\ n > Len(handled'[s]) /\ n <= entered'[s]
    BY <2>1
  <2>3. s[2] \in InVCs
    BY <2>1, <2>2 DEF EachHolds
  <2>4. Holds(inq'[s[2]], s[1], Len(handled'[s]), entered'[s])
    BY <2>3 DEF EachHolds
  <2>5. PICK i \in 1 .. Len(inq'[s[2]]) :
          inq'[s[2]][i].src = s[1] /\ inq'[s[2]][i].num = n
    BY <2>2, <2>4 DEF Holds
  <2>6. inq'[s[2]][i] \in Packets /\ inq'[s[2]][i].vc = s[2]
    BY <2>3 DEF TypeOK, EachHolds
  <2>7. inq'[s[2]][i] = Packet(s[1], s[2], n)
    BY <2>5, <2>6 DEF Packet, Packets
  <2>8. QED
    BY <2>3, <2>7
<1>3. QED
  BY <1>1, <1>2 DEF InputHoldsEntered

-----------------------------------------------------------------------------
LEMMA InitInv == Init => IInv
<1> SUFFICES ASSUME Init PROVE IInv
  OBVIOUS
<1>1. TypeOK
  <2>1. \A s \in Streams : OutSizes[s[2]] \in Nat
    BY VirtualChannels DEF Streams
  <2>2. QED
    BY <2>1, VirtualChannels DEF Init, TypeOK
<1>2. HandledEntered /\ HandledInOrder
  BY DEF Init, HandledEntered, HandledInOrder
<1>3. InputHoldsEntered
  BY DEF Init, InputHoldsEntered
<1>4. OutputHoldsRest
  BY DEF Init, OutputHoldsRest
<1>5. QED
  BY <1>1, <1>2, <1>3, <1>4 DEF IInv

\* Steps that leave everything but bound as it is.
LEMMA BindInv ==
  ASSUME IInv, bound' \subseteq Masters,
         UNCHANGED <<outq, inq, accepted, entered, handled>>
  PROVE  IInv'
BY DEF IInv, TypeOK, HandledEntered, HandledInOrder, InputHoldsEntered,
       OutputHoldsRest

LEMMA SendBufferedInv ==
  ASSUME IInv, NEW m \in Masters, NEW v \in VcIds, SendBuffered(m, v)
  PROVE  IInv'
<1> DEFINE s == <<m, v>>
           p == Packet(m, v, accepted[s] + 1)
<1> USE DEF IInv
<1>1. s \in Streams /\ v \in OutVCs /\ s[1] = m /\ s[2] = v
  BY DEF SendBuffered, Streams
<1>2. accepted[s] \in Nat /\ entered[s] \in Nat /\ outq[s] \in Seq(Packets)
  BY <1>1 DEF TypeOK
<1>3. p \in Packets /\ p.src = m /\ p.vc = v /\ p.num = accepted[s] + 1
  BY <1>1, <1>2 DEF Packet, Packets
<1>4. outq' = [outq EXCEPT ![s] = Append(@, p)]
  BY DEF SendBuffered
<1>5. accepted' = [accepted EXCEPT ![s] = @ + 1]
  BY DEF SendBuffered
<1>6. UNCHANGED <<bound, inq, entered, handled>>
  BY DEF SendBuffered
<1> HIDE DEF p
<1>7. /\ outq'[s] = Append(outq[s], p)
      /\ accepted'[s] = accepted[s] + 1
      /\ \A t \in Streams \ {s} :
           outq'[t] = outq[t] /\ accepted'[t] = accepted[t]
  BY <1>1, <1>4, <1>5 DEF TypeOK
<1>8. /\ outq'[s] \in Seq(Packets)
      /\ Len(outq'[s]) = Len(outq[s]) + 1
      /\ \A i \in 1 .. Len(outq[s]) : outq'[s][i] = outq[s][i]
      /\ outq'[s][Len(outq[s]) + 1] = p
      /\ Len(outq[s]) \in Nat
  BY <1>2, <1>3, <1>7, Appended
<1> HIDE DEF s
<1>9. TypeOK'
  <2>1. OutSizes[v] \in Nat /\ Len(outq[s]) < OutSizes[v]
    BY <1>1, VirtualChannels DEF SendBuffered, OutputRoom, s
  <2>2. ASSUME NEW t \in Streams
        PROVE  /\ outq'[t] \in Seq(Packets)
               /\ Len(outq'[t]) <= OutSizes[t[2]]
               /\ accepted'[t] \in Nat
    <3>1. CASE t = s
      <4>1. Len(outq'[s]) <= OutSizes[v] /\ accepted'[s] \in Nat
        BY <1>2, <1>7, <1>8, <2>1
      <4>2. QED
        BY <1>1, <1>8, <3>1, <4>1
    <3>2. CASE t # s
      BY <1>7, <3>2 DEF TypeOK
    <3>3. QED
      BY <3>1, <3>2
  <2>3. outq' \in [Streams -> Seq(Packets)] /\ accepted' \in [Streams -> Nat]
    BY <1>4, <1>5, <2>2 DEF TypeOK
  <2>4. QED
    BY <1>6, <2>2, <2>3 DEF TypeOK
<1>10. HandledEntered' /\ HandledInOrder' /\ InputHoldsEntered'
  <2>1. HandledEntered' /\ HandledInOrder'
    BY <1>6 DEF HandledEntered, HandledInOrder
  <2>2. InputHoldsEntered'
    BY <1>6 DEF InputHoldsEntered
  <2>3. QED
    BY <2>1, <2>2
<1>11. OutputHoldsRest'
  <2> SUFFICES ASSUME NEW t \in Streams
               PROVE  /\ Len(outq'[t]) = accepted'[t] - entered[t]
                      /\ \A i \in 1 .. Len(outq'[t]) :
                           /\ outq'[t][i].src = t[1] /\ outq'[t][i].vc = t[2]
                           /\ outq'[t][i].num \in entered[t] + 1 .. accepted'[t]
                           /\ \A j \in 1 .. i - 1 :
                                outq'[t][j].num # outq'[t][i].num
    BY <1>6 DEF OutputHoldsRest
  <2>1. CASE t # s
    BY <1>7, <2>1 DEF OutputHoldsRest
  <2>2. CASE t = s
    <3>1. /\ Len(outq[s]) = accepted[s] - entered[s]
          /\ \A i \in 1 .. Len(outq[s]) :
               /\ outq[s][i].src = m /\ outq[s][i].vc = v
               /\ outq[s][i].num \in entered[s] + 1 .. accepted[s]
               /\ \A j \in 1 .. i - 1 : outq[s][j].num # outq[s][i].num
      BY <1>1 DEF OutputHoldsRest
    <3>2. Len(outq'[s]) = accepted'[s] - entered[s]
      BY <1>2, <1>7, <1>8, <3>1
    <3>3. ASSUME NEW i \in 1 .. Len(outq'[s])
          PROVE  /\ outq'[s][i].src = m /\ outq'[s][i].vc = v
                 /\ outq'[s][i].num \in entered[s] + 1 .. accepted'[s]
                 /\ \A j \in 1 .. i - 1 : outq'[s][j].num # outq'[s][i].num
      <4>1. CASE i \in 1 .. Len(outq[s])
        <5>1. Len(outq[s]) \in Nat
          BY <1>8
        <5>2. \A j \in 1 .. i : outq'[s][j] = outq[s][j]
          BY <1>8, <4>1
        <5>3. i \in 1 .. i /\ \A j \in 1 .. i - 1 : j \in 1 .. i
          BY ONLY <4>1, <5>1
        <5>4. entered[s] + 1 .. accepted[s] \subseteq entered[s] + 1 .. accepted'[s]
          BY <1>2, <1>7, <1>8
        <5>5. QED
          BY ONLY <3>1, <4>1, <5>2, <5>3, <5>4
      <4>2. CASE i = Len(outq[s]) + 1
        BY <1>2, <1>3, <1>7, <1>8, <3>1, <4>2
      <4>3. QED
        BY <1>8, <4>1, <4>2
    <3>4. QED
      BY <1>1, <2>2, <3>2, <3>3
  <2>3. QED
    BY <2>1, <2>2
<1>12. QED
  BY <1>9, <1>10, <1>11

LEMMA RetryOutputsInv ==
  ASSUME IInv, NEW m \in Masters, RetryOutputs(m)
  PROVE  IInv'
<1> USE DEF IInv
<1>1. UNCHANGED <<bound, inq, accepted, entered, handled>>
  BY DEF RetryOutputs
<1>2. ASSUME NEW s \in Streams
      PROVE  /\ outq[s] \in Seq(Packets) /\ OutSizes[s[2]] \in Nat
             /\ \/ outq'[s] = outq[s]
                \/ /\ outq'[s] \in Seq(Packets)
                   /\ Len(outq[s]) \in Nat
                   /\ Len(outq'[s]) = Len(outq[s])
                   /\ \A i \in 1 .. Len(outq[s]) - 1 :
                        outq'[s][i] = outq[s][i + 1]
                   /\ outq'[s][Len(outq[s])] = outq[s][1]
  <2>1. outq[s] \in Seq(Packets) /\ OutSizes[s[2]] \in Nat
    BY VirtualChannels DEF TypeOK, Streams
  <2>2. outq'[s] = IF s[1] = m THEN TrySend(outq[s], OutSizes[s[2]]) ELSE outq[s]
    BY DEF RetryOutputs
  <2>3. CASE s[1] = m /\ outq[s] # <<>> /\ Len(outq[s]) < OutSizes[s[2]]
    <3>1. Len(outq[s]) \in Nat
      BY <2>1
    <3>2. QED
      BY <2>1, <2>2, <2>3, <3>1, Rotated
  <2>4. CASE ~(s[1] = m /\ outq[s] # <<>> /\ Len(outq[s]) < OutSizes[s[2]])
    BY <2>1, <2>2, <2>4 DEF TrySend
  <2>5. QED
    BY <2>1, <2>3, <2>4
<1>3. TypeOK'
  <2>1. \A s \in Streams :
          outq'[s] \in Seq(Packets) /\ Len(outq'[s]) <= OutSizes[s[2]]
    BY <1>2 DEF TypeOK
  <2>2. outq' \in [Streams -> Seq(Packets)]
    BY <2>1 DEF RetryOutputs
  <2>3. QED
    BY <1>1, <2>1, <2>2 DEF TypeOK
<1>4. HandledEntered' /\ HandledInOrder' /\ InputHoldsEntered'
  BY <1>1 DEF HandledEntered, HandledInOrder, InputHoldsEntered
<1>5. OutputHoldsRest'
  <2> SUFFICES ASSUME NEW s \in Streams
               PROVE  /\ Len(outq'[s]) = accepted[s] - entered[s]
                      /\ \A i \in 1 .. Len(outq'[s]) :
                           /\ outq'[s][i].src = s[1] /\ outq'[s][i].vc = s[2]
                           /\ outq'[s][i].num \in entered[s] + 1 .. accepted[s]
                           /\ \A j \in 1 .. i - 1 :
                                outq'[s][j].num # outq'[s][i].num
    BY <1>1 DEF OutputHoldsRest
  <2> DEFINE old == outq[s]
             new == outq'[s]
  <2>1. /\ Len(old) = accepted[s] - entered[s]
        /\ \A i \in 1 .. Len(old) :
             /\ old[i].src = s[1] /\ old[i].vc = s[2]
             /\ old[i].num \in entered[s] + 1 .. accepted[s]
             /\ \A j \in 1 .. i - 1 : old[j].num # old[i].num
    BY DEF OutputHoldsRest
  <2>2. \/ new = old
        \/ /\ Len(old) \in Nat /\ Len(new) = Len(old)
           /\ \A i \in 1 .. Len(old) - 1 : new[i] = old[i + 1]
           /\ new[Len(old)] = old[1]
    BY <1>2
  <2> HIDE DEF old, new
  <2>3. ASSUME new # old, NEW i \in 1 .. Len(new)
        PROVE  /\ new[i].src = s[1] /\ new[i].vc = s[2]
               /\ new[i].num \in entered[s] + 1 .. accepted[s]
               /\ \A j \in 1 .. i - 1 : new[j].num # new[i].num
    <3>1. PICK n : n \in Nat /\ n = Len(old) /\ n = Len(new)
      BY ONLY <2>2, <2>3
    <3>2. i \in 1 .. n /\ new[n] = old[1] /\ \A k \in 1 .. n - 1 : new[k] = old[k + 1]
      BY ONLY <2>2, <2>3, <3>1
    <3>3. CASE i = n
      <4>1. \A j \in 1 .. n - 1 : j + 1 \in 1 .. n /\ 1 \in 1 .. j + 1 - 1
        BY ONLY <3>1
      <4>2. 1 \in 1 .. n
        BY ONLY <3>1, <3>2
      <4>3. /\ old[1].src = s[1] /\ old[1].vc = s[2]
            /\ old[1].num \in entered[s] + 1 .. accepted[s]
        BY ONLY <2>1, <3>1, <4>2
      <4>4. ASSUME NEW j \in 1 .. n - 1 PROVE new[j].num # old[1].num
        <5>1. old[1].num # old[j + 1].num
          BY ONLY <2>1, <3>1, <4>1
        <5>2. QED
          BY ONLY <3>2, <5>1
      <4>5. QED
        BY ONLY <3>2, <3>3, <4>3, <4>4
    <3>4. CASE i # n
      <4>1. i \in 1 .. n - 1 /\ i + 1 \in 1 .. n
        BY ONLY <3>1, <3>2, <3>4
      <4>2. \A j \in 1 .. i - 1 : j \in 1 .. n - 1 /\ j + 1 \in 1 .. i + 1 - 1
        BY ONLY <3>1, <4>1
      <4>3. /\ old[i + 1].src = s[1] /\ old[i + 1].vc = s[2]
            /\ old[i + 1].num \in entered[s] + 1 .. accepted[s]
        BY ONLY <2>1, <3>1, <4>1
      <4>4. ASSUME NEW j \in 1 .. i - 1 PROVE new[j].num # old[i + 1].num
        <5>1. old[j + 1].num # old[i + 1].num
          BY ONLY <2>1, <3>1, <4>1, <4>2
        <5>2. QED
          BY ONLY <3>2, <4>2, <5>1
      <4>5. QED
        BY ONLY <3>2, <4>1, <4>3, <4>4
    <3>5. QED
      BY ONLY <3>3, <3>4
  <2>4. QED
    BY <2>1, <2>2, <2>3 DEF old, new
<1>6. QED
  BY <1>3, <1>4, <1>5

LEMMA SendDirectInv ==
  ASSUME IInv, NEW m \in Masters, NEW v \in VcIds, SendDirect(m, v)
  PROVE  IInv'
<1> DEFINE s == <<m, v>>
           p == Packet(m, v, accepted[s] + 1)
<1> USE DEF IInv
<1>1. s \in Streams /\ v \in OutVCs /\ v \in InVCs /\ s[1] = m /\ s[2] = v
  BY DEF SendDirect, GoesThrough, InputRoom, Streams
<1>2. /\ accepted[s] \in Nat /\ entered[s] \in Nat /\ inq[v] \in Seq(Packets)
      /\ Len(handled[s]) \in Nat
  BY <1>1 DEF TypeOK
<1>3. entered[s] = accepted[s]
  <2>1. outq[s] = <<>> /\ Len(outq[s]) = accepted[s] - entered[s]
    BY <1>1 DEF SendDirect, OutputHoldsRest
  <2>2. QED
    BY <1>2, <2>1
<1>4. p \in Packets /\ p.src = m /\ p.vc = v /\ p.num = entered[s] + 1
  BY <1>1, <1>2, <1>3 DEF Packet, Packets
<1>5. /\ inq' = [inq EXCEPT ![v] = Append(@, p)]
      /\ accepted' = [accepted EXCEPT ![s] = @ + 1]
      /\ entered' = [entered EXCEPT ![s] = @ + 1]
  BY DEF SendDirect
<1>6. p = Packet(s[1], s[2], entered[s] + 1)
  BY <1>3
<1>7. UNCHANGED <<bound, outq, handled>>
  BY DEF SendDirect
<1> HIDE DEF p
<1>8. /\ inq'[v] = Append(inq[v], p)
      /\ accepted'[s] = accepted[s] + 1 /\ entered'[s] = entered[s] + 1
      /\ \A u \in InVCs \ {v} : inq'[u] = inq[u]
      /\ \A t \in Streams \ {s} :
           accepted'[t] = accepted[t] /\ entered'[t] = entered[t]
  BY <1>1, <1>5 DEF TypeOK
<1>9. /\ inq'[v] \in Seq(Packets)
      /\ Len(inq'[v]) = Len(inq[v]) + 1
      /\ \A i \in 1 .. Len(inq[v]) : inq'[v][i] = inq[v][i]
      /\ inq'[v][Len(inq[v]) + 1] = p
      /\ Len(inq[v]) \in Nat
  BY <1>2, <1>4, <1>8, Appended
<1> HIDE DEF s
<1>10. TypeOK'
  <2>1. InSizes[v] \in Nat /\ Len(inq[v]) < InSizes[v]
    BY <1>1, VirtualChannels DEF SendDirect, GoesThrough, InputRoom
  <2>2. ASSUME NEW u \in InVCs
        PROVE  inq'[u] \in Seq(Packets) /\ Len(inq'[u]) <= InSizes[u]
    <3>1. CASE u = v
      BY <1>9, <2>1, <3>1
    <3>2. CASE u # v
      BY <1>8, <3>2 DEF TypeOK
    <3>3. QED
      BY <3>1, <3>2
  <2>3. ASSUME NEW t \in Streams
        PROVE  accepted'[t] \in Nat /\ entered'[t] \in Nat
    <3>1. CASE t = s
      BY <1>2, <1>8, <3>1
    <3>2. CASE t # s
      BY <1>8, <3>2 DEF TypeOK
    <3>3. QED
      BY <3>1, <3>2
  <2>4. /\ inq' \in [InVCs -> Seq(Packets)]
        /\ accepted' \in [Streams -> Nat] /\ entered' \in [Streams -> Nat]
    BY <1>5, <2>2, <2>3 DEF TypeOK
  <2>5. QED
    BY <1>7, <2>2, <2>4 DEF TypeOK
<1>11. HandledEntered' /\ HandledInOrder'
  <2>1. HandledInOrder'
    BY <1>7 DEF HandledInOrder
  <2>2. ASSUME NEW t \in Streams PROVE Len(handled'[t]) <= entered'[t]
    <3>1. /\ Len(handled[t]) <= entered[t]
          /\ entered[t] \in Nat /\ Len(handled[t]) \in Nat
      BY DEF HandledEntered, TypeOK
    <3>2. QED
      BY <1>7, <1>8, <3>1
  <2>3. QED
    BY <2>1, <2>2 DEF HandledEntered
<1>12. InputHoldsEntered'
  <2>1. EachHolds
    BY ToEachHolds
  <2>2. ASSUME NEW u \in InVCs, NEW i \in 1 .. Len(inq'[u])
        PROVE  inq'[u][i].vc = u
    <3>1. CASE u = v
      <4>1. i \in 1 .. Len(inq[v]) \/ i = Len(inq[v]) + 1
        BY <1>9, <3>1
      <4>2. QED
        BY <1>1, <1>4, <1>9, <2>1, <3>1, <4>1 DEF EachHolds
    <3>2. CASE u # v
      BY <1>8, <2>1, <3>2 DEF EachHolds
    <3>3. QED
      BY <3>1, <3>2
  <2>3. ASSUME NEW t \in Streams
        PROVE  IF t[2] \in InVCs
               THEN Holds(inq'[t[2]], t[1], Len(handled'[t]), entered'[t])
               ELSE entered'[t] <= Len(handled'[t])
    <3>1. /\ Len(handled[t]) \in Nat /\ entered[t] \in Nat
          /\ Len(handled[t]) <= entered[t]
      BY DEF TypeOK, HandledEntered
    <3>2. CASE t = s
      <4>1. Holds(inq[v], m, Len(handled[s]), entered[s])
        BY <1>1, <2>1 DEF EachHolds
      <4>2. Holds(inq'[v], m, Len(handled[s]), entered[s] + 1)
        BY <1>2, <1>4, <1>8, <3>1, <3>2, <4>1, HoldsArrived
      <4>3. QED
        BY <1>1, <1>7, <1>8, <3>2, <4>2
    <3>3. CASE t # s /\ t[2] = v
      <4>1. t[1] # m
        BY <3>3 DEF Streams, s
      <4>2. Holds(inq[v], t[1], Len(handled[t]), entered[t])
        BY <1>1, <2>1, <3>3 DEF EachHolds
      <4>3. Holds(inq'[v], t[1], Len(handled[t]), entered[t])
        BY <1>2, <1>4, <1>8, <3>1, <4>1, <4>2, HoldsOtherArrived
      <4>4. QED
        BY <1>1, <1>7, <1>8, <3>3, <4>3
    <3>4. CASE t # s /\ t[2] # v
      <4>1. t[2] \in InVCs => inq'[t[2]] = inq[t[2]]
        BY <1>8, <3>4
      <4>2. entered'[t] = entered[t] /\ handled'[t] = handled[t]
        BY <1>7, <1>8, <3>4
      <4>3. QED
        BY <2>1, <4>1, <4>2 DEF EachHolds
    <3>5. QED
      BY <3>2, <3>3, <3>4
  <2>4. QED
    BY <1>10, <2>2, <2>3, FromEachHolds DEF EachHolds
<1>13. OutputHoldsRest'
  <2> SUFFICES ASSUME NEW t \in Streams
               PROVE  /\ Len(outq[t]) = accepted'[t] - entered'[t]
                      /\ \A i \in 1 .. Len(outq[t]) :
                           /\ outq[t][i].src = t[1] /\ outq[t][i].vc = t[2]
                           /\ outq[t][i].num \in entered'[t] + 1 .. accepted'[t]
                           /\ \A j \in 1 .. i - 1 :
                                outq[t][j].num # outq[t][i].num
    BY <1>7 DEF OutputHoldsRest
  <2>1. CASE t # s
    BY <1>8, <2>1 DEF OutputHoldsRest
  <2>2. CASE t = s
    <3>1. outq[t] = <<>>
      BY <2>2 DEF SendDirect, s
    <3>2. QED
      BY <1>2, <1>3, <1>8, <2>2, <3>1
  <2>3. QED
    BY <2>1, <2>2
<1>14. QED
  BY <1>10, <1>11, <1>12, <1>13

\* The part of HandleInputs that concerns one stream.
LEMMA HandledStep ==
  ASSUME IInv, NEW willing \in SUBSET InVCs, HandleInputs(willing),
         NEW t \in Streams
  PROVE  /\ Len(handled[t]) \in Nat /\ entered[t] \in Nat
         /\ \/ /\ t[2] \in InVCs /\ Head(inq[t[2]]).src = t[1]
               /\ Head(inq[t[2]]).num = Len(handled[t]) + 1
               /\ inq'[t[2]] = Tail(inq[t[2]])
               /\ handled'[t] = Append(handled[t], Len(handled[t]) + 1)
               /\ Len(handled[t]) + 1 <= entered[t]
               /\ Holds(Tail(inq[t[2]]), t[1], Len(handled[t]) + 1, entered[t])
            \/ /\ handled'[t] = handled[t]
               /\ t[2] \in InVCs =>
                    Holds(inq'[t[2]], t[1], Len(handled[t]), entered[t])
<1> DEFINE v == t[2]
           ok == {w \in willing : inq[w] # <<>>}
<1>1. /\ Len(handled[t]) \in Nat /\ entered[t] \in Nat /\ t \in Streams
      /\ v \in InVCs => inq[v] \in Seq(Packets)
  BY DEF IInv, TypeOK
<1>2. EachHolds
  BY ToEachHolds DEF IInv
<1>3. /\ handled' = HandledFrom(ok)
      /\ inq' = [w \in InVCs |-> IF w \in ok THEN Tail(inq[w]) ELSE inq[w]]
  BY DEF HandleInputs
<1>4. handled'[t] = IF v \in ok /\ Head(inq[v]).src = t[1]
                    THEN Append(handled[t], Head(inq[v]).num) ELSE handled[t]
  BY <1>3 DEF HandledFrom
<1>5. v \in InVCs => inq'[v] = IF v \in ok THEN Tail(inq[v]) ELSE inq[v]
  BY <1>3
<1>6. v \in ok => v \in InVCs /\ inq[v] # <<>>
  OBVIOUS
<1>7. v \in InVCs => Holds(inq[v], t[1], Len(handled[t]), entered[t])
  BY <1>2 DEF EachHolds
<1> HIDE DEF ok
<1>8. CASE v \in ok /\ Head(inq[v]).src = t[1]
  <2>1. /\ Head(inq[v]).num = Len(handled[t]) + 1
        /\ Len(handled[t]) + 1 <= entered[t]
        /\ Holds(Tail(inq[v]), t[1], Len(handled[t]) + 1, entered[t])
    BY <1>1, <1>6, <1>7, <1>8, HoldsPopped
  <2>2. QED
    BY <1>1, <1>4, <1>5, <1>6, <1>8, <2>1
<1>9. CASE v \in ok /\ Head(inq[v]).src # t[1]
  <2>1. Holds(Tail(inq[v]), t[1], Len(handled[t]), entered[t])
    BY <1>1, <1>6, <1>7, <1>9, HoldsOtherPopped
  <2>2. QED
    BY <1>1, <1>4, <1>5, <1>9, <2>1
<1>10. CASE v \notin ok
  BY <1>1, <1>4, <1>5, <1>7, <1>10
<1>11. QED
  BY <1>8, <1>9, <1>10

LEMMA HandleInputsInv ==
  ASSUME IInv, NEW willing \in SUBSET InVCs, HandleInputs(willing)
  PROVE  IInv'
<1>1. UNCHANGED <<bound, outq, accepted, entered>>
  BY DEF HandleInputs
<1>2. ASSUME NEW t \in Streams
      PROVE  /\ handled[t] \in Seq(Nat) /\ Len(handled[t]) \in Nat
             /\ entered[t] \in Nat /\ Len(handled[t]) <= entered[t]
             /\ \A i \in 1 .. Len(handled[t]) : handled[t][i] = i
  BY DEF IInv, TypeOK, HandledEntered, HandledInOrder
<1>3. ASSUME NEW t \in Streams
      PROVE  /\ handled'[t] \in Seq(Nat) /\ Len(handled'[t]) <= entered[t]
             /\ \A i \in 1 .. Len(handled'[t]) : handled'[t][i] = i
  <2> DEFINE h == handled[t]
             n == Len(handled[t]) + 1
  <2>1. CASE handled'[t] = h
    BY <1>2, <2>1
  <2>2. CASE handled'[t] = Append(h, n) /\ n <= entered[t]
    <3>1. n \in Nat /\ h \in Seq(Nat)
      BY <1>2
    <3>2. /\ Append(h, n) \in Seq(Nat) /\ Len(Append(h, n)) = Len(h) + 1
          /\ \A i \in 1 .. Len(h) : Append(h, n)[i] = h[i]
          /\ Append(h, n)[Len(h) + 1] = n
      BY <3>1, Appended
    <3>3. QED
      BY <1>2, <2>2, <3>2
  <2>3. QED
    BY <2>1, <2>2, HandledStep
<1>4. ASSUME NEW v \in InVCs
      PROVE  /\ inq'[v] \in Seq(Packets) /\ Len(inq'[v]) <= InSizes[v]
             /\ \A i \in 1 .. Len(inq'[v]) : inq'[v][i].vc = v
  <2>1. /\ inq[v] \in Seq(Packets) /\ Len(inq[v]) \in Nat
        /\ InSizes[v] \in Nat /\ Len(inq[v]) <= InSizes[v]
        /\ \A i \in 1 .. Len(inq[v]) : inq[v][i].vc = v
    <3>1. \A i \in 1 .. Len(inq[v]) : inq[v][i].vc = v
      BY DEF IInv, InputHoldsEntered
    <3>2. /\ inq[v] \in Seq(Packets) /\ Len(inq[v]) \in Nat
          /\ InSizes[v] \in Nat /\ Len(inq[v]) <= InSizes[v]
      BY VirtualChannels DEF IInv, TypeOK
    <3>3. QED
      BY <3>1, <3>2
  <2>2. inq'[v] = inq[v] \/ (inq[v] # <<>> /\ inq'[v] = Tail(inq[v]))
    BY DEF HandleInputs
  <2>3. CASE inq'[v] = inq[v]
    BY <2>1, <2>3
  <2>4. CASE inq[v] # <<>> /\ inq'[v] = Tail(inq[v])
    <3>1. /\ Tail(inq[v]) \in Seq(Packets) /\ Len(Tail(inq[v])) = Len(inq[v]) - 1
          /\ \A i \in 1 .. Len(inq[v]) - 1 : Tail(inq[v])[i] = inq[v][i + 1]
      BY <2>1, <2>4, Popped
    <3>2. QED
      BY <2>1, <2>4, <3>1
  <2>5. QED
    BY <2>2, <2>3, <2>4
<1>5. TypeOK'
  <2>1. inq' \in [InVCs -> Seq(Packets)]
    BY <1>4 DEF HandleInputs
  <2>2. handled' \in [Streams -> Seq(Nat)]
    BY <1>3 DEF HandleInputs, HandledFrom
  <2>3. QED
    BY <1>1, <1>4, <2>1, <2>2 DEF IInv, TypeOK
<1>6. HandledEntered' /\ HandledInOrder'
  BY <1>1, <1>3 DEF HandledEntered, HandledInOrder
<1>7. ASSUME NEW t \in Streams
      PROVE  IF t[2] \in InVCs
             THEN Holds(inq'[t[2]], t[1], Len(handled'[t]), entered'[t])
             ELSE entered'[t] <= Len(handled'[t])
  <2>1. entered'[t] = entered[t]
    BY <1>1
  <2>2. CASE /\ t[2] \in InVCs
             /\ inq'[t[2]] = Tail(inq[t[2]])
             /\ handled'[t] = Append(handled[t], Len(handled[t]) + 1)
             /\ Holds(Tail(inq[t[2]]), t[1], Len(handled[t]) + 1, entered[t])
    <3>1. Len(handled'[t]) = Len(handled[t]) + 1
      BY <1>2, <2>2
    <3>2. QED
      BY <2>1, <2>2, <3>1
  <2>3. CASE /\ handled'[t] = handled[t]
             /\ t[2] \in InVCs =>
                  Holds(inq'[t[2]], t[1], Len(handled[t]), entered[t])
    <3>1. t[2] \notin InVCs => entered[t] <= Len(handled[t])
      BY ToEachHolds DEF EachHolds, IInv
    <3>2. QED
      BY <2>1, <2>3, <3>1
  <2>4. QED
    BY <2>2, <2>3, HandledStep
<1>8. InputHoldsEntered'
  BY <1>4, <1>5, <1>7, FromEachHolds DEF EachHolds
<1>9. OutputHoldsRest'
  BY <1>1 DEF IInv, OutputHoldsRest
<1>10. QED
  BY <1>5, <1>6, <1>8, <1>9 DEF IInv

LEMMA NextInv == IInv /\ [Next]_vars => IInv'
<1> SUFFICES ASSUME IInv, [Next]_vars PROVE IInv'
  OBVIOUS
<1>1. bound \subseteq Masters
  BY DEF IInv, TypeOK
<1>2. ASSUME NEW m \in Masters, Bind(m) PROVE IInv'
  <2>1. /\ bound' \subseteq Masters
        /\ UNCHANGED <<outq, inq, accepted, entered, handled>>
    BY <1>1, <1>2 DEF Bind
  <2>2. QED
    BY <2>1, BindInv
<1>3. ASSUME NEW m \in Masters, NEW v \in VcIds, SendDirect(m, v) PROVE IInv'
  BY <1>3, SendDirectInv
<1>4. ASSUME NEW m \in Masters, NEW v \in VcIds, SendBuffered(m, v) PROVE IInv'
  BY <1>4, SendBufferedInv
<1>5. ASSUME NEW m \in Masters, NEW v \in VcIds, SendRefused(m, v) PROVE IInv'
  BY <1>1, <1>5, BindInv DEF SendRefused, vars
<1>6. ASSUME NEW m \in Masters, RetryOutputs(m) PROVE IInv'
  BY <1>6, RetryOutputsInv
<1>7. ASSUME NEW willing \in SUBSET InVCs, HandleInputs(willing) PROVE IInv'
  BY <1>7, HandleInputsInv
<1>8. CASE UNCHANGED vars
  BY <1>1, <1>8, BindInv DEF vars
<1>9. QED
  BY <1>2, <1>3, <1>4, <1>5, <1>6, <1>7, <1>8 DEF Next

-----------------------------------------------------------------------------
(***************************************************************************)
(* IInv holds in every reachable state: no interleaving of sends, retries, *)
(* bindings and ticks of the ports breaks any part of it.                  *)
(***************************************************************************)
THEOREM Inductive == Spec => []IInv
BY InitInv, NextInv, PTL DEF Spec

\* The buffers hold packets and never more than their capacity.
THEOREM TypeCorrect == Spec => []TypeOK
<1>1. IInv => TypeOK
  BY DEF IInv
<1>2. QED
  BY <1>1, Inductive, PTL

(***************************************************************************)
(* Every packet that sendReq() accepted is in exactly one place, and the   *)
(* owner of the slave handles those of a stream once each, in their order. *)
(***************************************************************************)
THEOREM ExactlyOnce == Spec => []ExactlyOnceInOrder
<1>1. IInv => ExactlyOnceInOrder
  BY DEF IInv, ExactlyOnceInOrder
<1>2. QED
  BY <1>1, Inductive, PTL

-----------------------------------------------------------------------------
(***************************************************************************)
(* The refinement of VCChannel.  Under the mapping of Channel, a stream    *)
(* holds the numbers from Len(handled) + 1 to accepted.                    *)
(***************************************************************************)
Nums(a, b) == [i \in 1 .. b - a |-> a + i]

chanBar == [s \in Streams |-> Nums(Len(handled[s]), accepted[s])]

LEMMA NumsSeq ==
  ASSUME NEW a \in Nat, NEW b \in Nat, a <= b
  PROVE  /\ Nums(a, b) \in Seq(Nat) /\ Len(Nums(a, b)) = b - a
         /\ \A i \in 1 .. b - a : Nums(a, b)[i] = a + i
<1>1. b - a \in Nat /\ \A i \in 1 .. b - a : a + i \in Nat
  OBVIOUS
<1>2. QED
  BY <1>1 DEF Nums

LEMMA NumsAppend ==
  ASSUME NEW a \in Nat, NEW b \in Nat, a <= b
  PROVE  Append(Nums(a, b), b + 1) = Nums(a, b + 1)
<1> DEFINE q == Nums(a, b)
           r == Nums(a, b + 1)
           t == Append(q, b + 1)
<1>1. /\ q \in Seq(Nat) /\ Len(q) = b - a
      /\ \A i \in 1 .. b - a : q[i] = a + i
  BY NumsSeq
<1>2. b + 1 \in Nat /\ a <= b + 1
  OBVIOUS
<1>3. /\ r \in Seq(Nat) /\ Len(r) = b + 1 - a
      /\ \A i \in 1 .. b + 1 - a : r[i] = a + i
  BY <1>2, NumsSeq
<1>4. /\ t \in Seq(Nat) /\ Len(t) = Len(q) + 1
      /\ \A i \in 1 .. Len(q) : t[i] = q[i]
      /\ t[Len(q) + 1] = b + 1
  BY <1>1, <1>2, Appended
<1> HIDE DEF q, r, t
<1>5. ASSUME NEW i \in 1 .. Len(t) PROVE t[i] = r[i]
  <2>1. i \in 1 .. b + 1 - a /\ r[i] = a + i
    BY <1>1, <1>3, <1>4
  <2>2. CASE i \in 1 .. Len(q)
    BY <1>1, <1>4, <2>1, <2>2
  <2>3. CASE i = Len(q) + 1
    BY <1>1, <1>4, <2>1, <2>3
  <2>4. QED
    BY <1>1, <1>4, <2>2, <2>3
<1>6. Len(t) = Len(r)
  BY <1>1, <1>3, <1>4
<1>7. t = r
  BY <1>3, <1>4, <1>5, <1>6, SeqEqual
<1>8. QED
  BY <1>7 DEF q, r, t

LEMMA NumsTail ==
  ASSUME NEW a \in Nat, NEW b \in Nat, a + 1 <= b
  PROVE  /\ Nums(a, b) # <<>> /\ Head(Nums(a, b)) = a + 1
         /\ Tail(Nums(a, b)) = Nums(a + 1, b)
<1> DEFINE q == Nums(a, b)
           r == Nums(a + 1, b)
           t == Tail(q)
<1>1. /\ q \in Seq(Nat) /\ Len(q) = b - a
      /\ \A i \in 1 .. b - a : q[i] = a + i
  BY NumsSeq
<1>2. a + 1 \in Nat
  OBVIOUS
<1>3. /\ r \in Seq(Nat) /\ Len(r) = b - (a + 1)
      /\ \A i \in 1 .. b - (a + 1) : r[i] = a + 1 + i
  BY <1>2, NumsSeq
<1> HIDE DEF q, r
<1>4. q # <<>>
  BY <1>1
<1>5. /\ t \in Seq(Nat) /\ Len(t) = Len(q) - 1 /\ Head(q) = q[1]
      /\ \A i \in 1 .. Len(q) - 1 : t[i] = q[i + 1]
  BY <1>1, <1>4, Popped
<1> HIDE DEF t
<1>6. /\ Len(t) = Len(r) /\ q[1] = a + 1
      /\ \A i \in 1 .. Len(t) : t[i] = r[i]
  BY <1>1, <1>3, <1>5
<1>7. t = r
  BY <1>3, <1>5, <1>6, SeqEqual
<1>8. QED
  BY <1>4, <1>5, <1>6, <1>7 DEF q, r, t

LEMMA BarFacts ==
  ASSUME IInv, NEW s \in Streams
  PROVE  /\ accepted[s] \in Nat /\ Len(handled[s]) \in Nat
         /\ Len(handled[s]) <= entered[s] /\ entered[s] <= accepted[s]
         /\ chanBar[s] = Nums(Len(handled[s]), accepted[s])
<1>1. /\ accepted[s] \in Nat /\ entered[s] \in Nat
      /\ Len(handled[s]) \in Nat /\ Len(outq[s]) \in Nat
  BY DEF IInv, TypeOK
<1>2. Len(outq[s]) = accepted[s] - entered[s]
  BY DEF IInv, OutputHoldsRest
<1>3. Len(handled[s]) <= entered[s]
  BY DEF IInv, HandledEntered
<1>4. QED
  BY <1>1, <1>2, <1>3 DEF chanBar

\* Steps that neither accept nor hand over a packet are invisible.
LEMMA StutterStep ==
  ASSUME UNCHANGED <<accepted, handled>>
  PROVE  UNCHANGED Channel!vars
BY DEF Channel!vars

\* A packet that is accepted, at either end, joins the queue of its stream.
LEMMA AcceptStep ==
  ASSUME IInv, NEW s \in Streams,
         accepted' = [accepted EXCEPT ![s] = @ + 1], handled' = handled
  PROVE  Channel!Accept(s)
<1>1. ASSUME NEW t \in Streams
      PROVE  chanBar'[t] =
               IF t = s
               THEN Append(chanBar[s], Len(handled[s]) + Len(chanBar[s]) + 1)
               ELSE chanBar[t]
  <2> DEFINE a == Len(handled[t])
             b == accepted[t]
  <2>1. a \in Nat /\ b \in Nat /\ a <= b /\ chanBar[t] = Nums(a, b)
    <3>1. entered[t] \in Nat
      BY DEF IInv, TypeOK
    <3>2. QED
      BY <3>1, BarFacts
  <2>2. chanBar'[t] = Nums(a, accepted'[t])
    BY DEF chanBar
  <2>3. accepted'[t] = IF t = s THEN b + 1 ELSE b
    BY DEF IInv, TypeOK
  <2>4. Len(Nums(a, b)) = b - a
    BY <2>1, NumsSeq
  <2>5. Append(Nums(a, b), b + 1) = Nums(a, b + 1)
    BY <2>1, NumsAppend
  <2> HIDE DEF a, b
  <2>6. a + (b - a) + 1 = b + 1
    BY <2>1
  <2>7. QED
    BY <2>1, <2>2, <2>3, <2>4, <2>5, <2>6 DEF a
<1>2. chanBar' = [chanBar EXCEPT ![s] = Append(@, Len(handled[s]) + Len(@) + 1)]
  BY <1>1 DEF chanBar
<1>3. QED
  BY <1>2 DEF chanBar, Nums, Channel!Accept

\* A tick of the slave's port hands over the oldest packet of some streams.
LEMMA DeliverStep ==
  ASSUME IInv, NEW willing \in SUBSET InVCs, HandleInputs(willing)
  PROVE  [Channel!Next]_(Channel!vars)
<1>0. PICK D \in SUBSET Streams :
         D = {t \in Streams : handled'[t] # handled[t]}
  OBVIOUS
<1>1. accepted' = accepted
  BY DEF HandleInputs
<1>2. ASSUME NEW t \in Streams
      PROVE  IF t \in D
             THEN /\ chanBar[t] # <<>> /\ chanBar'[t] = Tail(chanBar[t])
                  /\ handled'[t] = Append(handled[t], Head(chanBar[t]))
             ELSE handled'[t] = handled[t] /\ chanBar'[t] = chanBar[t]
  <2> DEFINE a == Len(handled[t])
             b == accepted[t]
  <2>1. /\ a \in Nat /\ b \in Nat /\ entered[t] \in Nat
        /\ a <= entered[t] /\ entered[t] <= b /\ chanBar[t] = Nums(a, b)
    <3>1. entered[t] \in Nat
      BY DEF IInv, TypeOK
    <3>2. QED
      BY <3>1, BarFacts
  <2>2. chanBar'[t] = Nums(Len(handled'[t]), b)
    BY <1>1 DEF chanBar
  <2>3. CASE handled'[t] = Append(handled[t], a + 1) /\ a + 1 <= entered[t]
    <3>1. handled[t] \in Seq(Nat) /\ a + 1 \in Nat /\ a + 1 <= b
      BY <2>1, <2>3 DEF IInv, TypeOK
    <3>2. Len(handled'[t]) = a + 1
      BY <2>3, <3>1
    <3>3. handled'[t] # handled[t]
      BY <2>1, <3>2
    <3>4. /\ Nums(a, b) # <<>> /\ Head(Nums(a, b)) = a + 1
          /\ Tail(Nums(a, b)) = Nums(a + 1, b)
      BY <2>1, <3>1, NumsTail
    <3>5. QED
      BY <1>0, <2>1, <2>2, <2>3, <3>2, <3>3, <3>4
  <2>4. CASE handled'[t] = handled[t]
    BY <1>0, <2>1, <2>2, <2>4
  <2>5. QED
    BY <2>3, <2>4, HandledStep
<1>3. handled \in [Streams -> Seq(Nat)] /\ handled' \in [Streams -> Seq(Nat)]
  BY HandleInputsInv DEF IInv, TypeOK
<1>4. /\ \A t \in D : chanBar[t] # <<>>
      /\ chanBar' = [t \in Streams |->
                       IF t \in D THEN Tail(chanBar[t]) ELSE chanBar[t]]
      /\ handled' = [t \in Streams |->
                       IF t \in D THEN Append(handled[t], Head(chanBar[t]))
                       ELSE handled[t]]
  <2>1. D \subseteq Streams
    OBVIOUS
  <2>2. chanBar' = [t \in Streams |-> chanBar'[t]]
    BY DEF chanBar
  <2>3. handled' = [t \in Streams |-> handled'[t]]
    BY <1>3
  <2>4. QED
    BY <1>2, <2>1, <2>2, <2>3
<1>5. Channel!Deliver(D)
  BY <1>4 DEF chanBar, Nums, Channel!Deliver
<1>6. CASE D = {}
  <2>1. \A t \in Streams : handled'[t] = handled[t]
    BY <1>0, <1>6
  <2>2. handled' = handled
    BY <1>3, <2>1
  <2>3. QED
    BY <1>1, <2>2, StutterStep
<1>7. CASE D # {}
  <2>1. D \in (SUBSET Streams) \ {{}}
    BY <1>7
  <2>2. QED
    BY <1>5, <2>1 DEF Channel!Next
<1>8. QED
  BY <1>6, <1>7

LEMMA InitRefines == Init => Channel!Init
<1> SUFFICES ASSUME Init PROVE Channel!Init
  OBVIOUS
<1>1. \A s \in Streams : accepted[s] = 0 /\ handled[s] = <<>>
  BY DEF Init
<1>2. Nums(0, 0) = <<>>
  <2>1. Nums(0, 0) \in Seq(Nat) /\ Len(Nums(0, 0)) = 0
    BY NumsSeq
  <2>2. QED
    BY <2>1
<1>3. chanBar = [s \in Streams |-> <<>>]
  BY <1>1, <1>2 DEF chanBar
<1>4. QED
  BY <1>3 DEF Init, Channel!Init, chanBar, Nums

LEMMA StepRefines ==
  ASSUME IInv, [Next]_vars
  PROVE  [Channel!Next]_(Channel!vars)
<1>1. ASSUME NEW s \in Streams,
             accepted' = [accepted EXCEPT ![s] = @ + 1], handled' = handled
      PROVE  Channel!Next
  BY <1>1, AcceptStep DEF Channel!Next
<1>2. ASSUME NEW m \in Masters, NEW v \in VcIds,
             SendDirect(m, v) \/ SendBuffered(m, v)
      PROVE  Channel!Next
  <2>1. /\ <<m, v>> \in Streams
        /\ accepted' = [accepted EXCEPT ![<<m, v>>] = @ + 1]
        /\ handled' = handled
    BY <1>2 DEF SendDirect, SendBuffered, Streams
  <2>2. QED
    BY <1>1, <2>1
<1>3. ASSUME NEW willing \in SUBSET InVCs, HandleInputs(willing)
      PROVE  [Channel!Next]_(Channel!vars)
  BY <1>3, DeliverStep
<1>4. CASE UNCHANGED <<accepted, handled>>
  BY <1>4, StutterStep
<1>5. QED
  BY <1>2, <1>3, <1>4 DEF Next, vars, Bind, SendRefused, RetryOutputs

(***************************************************************************)
(* The link refines VCChannel: to the owners of the ports, the two buffers *)
(* of a VC and the retries between them are one unbounded queue per        *)
(* stream, from which only the oldest packet is ever handed over.          *)
(***************************************************************************)
THEOREM Refinement == Spec => ImplementsChannel
<1>1. Init => Channel!Init
  BY InitRefines
<1>2. IInv /\ [Next]_vars => [Channel!Next]_(Channel!vars)
  BY StepRefines
<1>3. QED
  BY <1>1, <1>2, Inductive, PTL DEF Spec, ImplementsChannel, Channel!Spec
=============================================================================
