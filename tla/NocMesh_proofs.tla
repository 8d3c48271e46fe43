---------------------------- MODULE NocMesh_proofs ----------------------------
(***************************************************************************)
(* Proofs about the NoC.  First what packetToFlits() computes, for every   *)
(* length of a packet and every size of a flit.  The induction over what   *)
(* is left of a packet is made by the least number of bytes for which a    *)
(* statement fails.  Then the mesh, for any size of it, any traffic in it  *)
(* and packets of any length: the types, the handshake, the route, and     *)
(* that no flit is lost.                                                   *)
(*                                                                         *)
(* The last part is about order, and about each flit being in one place.   *)
(* Two flits from one terminal to another take the same way.  The later    *)
(* one can overtake only at a place that both pass, where it would have to *)
(* enter before the other has; so it is enough to follow where each flit   *)
(* of the next state was before, and how far it has to go.                 *)
(***************************************************************************)
EXTENDS NocMesh, WellFoundedInduction, TLAPS

Less == {ss \in Nat \X Nat : ss[1] < ss[2]}

LEMMA LessWellFounded == IsWellFoundedOn(Less, Nat)
<1>1. Less = OpToRel(<, Nat)
  BY DEF Less, OpToRel
<1>2. QED
  BY <1>1, NatLessThanWellFounded

\* A set of natural numbers has a least element.
LEMMA LeastNatural ==
  ASSUME NEW T \in SUBSET Nat, T # {}
  PROVE  \E n \in T : \A m \in T : n <= m
<1>1. PICK n \in T : \A m \in T : ~ (<<m, n>> \in Less)
  BY LessWellFounded, WFMin
<1>2. ASSUME NEW k \in Nat, NEW m \in Nat, m < k PROVE <<m, k>> \in Less
  BY <1>2 DEF Less
<1>3. \A m \in T : ~ (m < n)
  BY <1>1, <1>2
<1>4. QED
  BY <1>3

-----------------------------------------------------------------------------
\* One turn of the loop of packetToFlits() at offset o; r has the later turns.
Turn(r, length, o) ==
  CASE length - o > DATA_SIZE -> <<Slice("BODY", o, DATA_SIZE)>> \o r[o + DATA_SIZE]
    [] length - o \in 1 .. DATA_SIZE -> <<Slice("TAIL", o, length - o)>>
    [] OTHER -> <<>>

\* The loop is well defined for the last n bytes of a packet.
Defined(length, n) ==
  \E r : r = [o \in length - n .. length |-> Turn(r, length, o)]

LEMMA RestExists ==
  ASSUME NEW length \in Nat
  PROVE  Defined(length, length)
<1> DEFINE Fails == {n \in 0 .. length : ~ Defined(length, n)}
<1>1. SUFFICES ASSUME Fails # {} PROVE FALSE
  OBVIOUS
<1>2. PICK n \in Fails : \A m \in Fails : n <= m
  <2>1. Fails \in SUBSET Nat
    OBVIOUS
  <2> HIDE DEF Fails
  <2>2. QED
    BY <1>1, <2>1, LeastNatural
<1>3. n \in 0 .. length /\ ~ Defined(length, n)
  BY <1>2
<1>4. DATA_SIZE \in Nat /\ DATA_SIZE >= 1
  BY DataSize
<1>5. CASE n = 0
  <2> DEFINE r == [o \in length - n .. length |-> <<>>]
  <2>1. \A o \in length - n .. length : Turn(r, length, o) = <<>>
    <3>1. SUFFICES ASSUME NEW o \in length - n .. length
                   PROVE  Turn(r, length, o) = <<>>
      OBVIOUS
    <3>2. length - o = 0
      BY <1>5
    <3>3. ~ (length - o > DATA_SIZE) /\ ~ (length - o \in 1 .. DATA_SIZE)
      BY <1>4, <3>2
    <3>4. QED
      BY <3>3 DEF Turn
  <2>2. r = [o \in length - n .. length |-> Turn(r, length, o)]
    BY <2>1
  <2>3. QED
    BY <1>3, <2>2 DEF Defined
<1>6. CASE n > 0
  <2>1. n - 1 \in 0 .. length /\ n - 1 \notin Fails
    BY <1>2, <1>3, <1>6
  <2>2. Defined(length, n - 1)
    BY <2>1
  <2>3. PICK r : r = [o \in length - (n - 1) .. length |-> Turn(r, length, o)]
    BY <2>2 DEF Defined
  <2> DEFINE s == [o \in length - n .. length |->
                     IF o = length - n THEN Turn(r, length, o) ELSE r[o]]
  <2>4. ASSUME NEW o \in length - n .. length
        PROVE  Turn(s, length, o) = Turn(r, length, o)
    <3>1. CASE length - o > DATA_SIZE
      <4>1. /\ o + DATA_SIZE \in length - n .. length
            /\ o + DATA_SIZE # length - n
        BY <1>3, <1>4, <3>1
      <4>2. s[o + DATA_SIZE] = r[o + DATA_SIZE]
        BY <4>1
      <4> HIDE DEF s
      <4>3. QED
        BY <3>1, <4>2 DEF Turn
    <3>2. CASE ~ (length - o > DATA_SIZE)
      <4> HIDE DEF s
      <4>1. QED
        BY <3>2 DEF Turn
    <3>3. QED
      BY <3>1, <3>2
  <2>5. \A o \in length - n .. length :
          o # length - n => o \in length - (n - 1) .. length
    BY <1>3
  <2>6. \A o \in length - n .. length : s[o] = Turn(r, length, o)
    BY <2>3, <2>5
  <2>7. s = [o \in length - n .. length |-> Turn(s, length, o)]
    BY <2>4, <2>6
  <2>8. QED
    BY <1>3, <2>7 DEF Defined
<1>7. QED
  BY <1>3, <1>5, <1>6

\* The recursive function is what its definition says.
LEMMA RestTurns ==
  ASSUME NEW length \in Nat
  PROVE  Rest(length) = [o \in 0 .. length |-> Turn(Rest(length), length, o)]
<1> DEFINE is(r) == r = [o \in 0 .. length |-> Turn(r, length, o)]
<1>1. \E r : is(r)
  <2>1. length - length = 0
    OBVIOUS
  <2>2. QED
    BY <2>1, RestExists DEF Defined
<1>2. Rest(length) = CHOOSE r : is(r)
  BY DEF Rest, Turn
<1>3. QED
  BY <1>1, <1>2

-----------------------------------------------------------------------------
(***************************************************************************)
(* The flits of s carry the bytes from .. to - 1, without a gap; the last  *)
(* of them is a tail and the others are body flits, and full.              *)
(***************************************************************************)
Cut(s, from, to) ==
  /\ s \in Seq(Slices)
  /\ s # <<>>
  /\ s[1].offset = from
  /\ \A i \in 1 .. Len(s) - 1 :
       /\ s[i].type = "BODY"
       /\ s[i].length = DATA_SIZE
       /\ s[i + 1].offset = s[i].offset + s[i].length
  /\ s[Len(s)].type = "TAIL"
  /\ s[Len(s)].length >= 1
  /\ s[Len(s)].offset + s[Len(s)].length = to

\* t is the flit f, followed by a cut up to the byte before to.
Led(t, f, to) ==
  /\ t \in Seq(Slices)
  /\ Len(t) \in Nat /\ Len(t) >= 2
  /\ t[1] = f
  /\ \A i \in 2 .. Len(t) - 1 : t[i].type = "BODY" /\ t[i].length = DATA_SIZE
  /\ \A i \in 1 .. Len(t) - 1 : t[i + 1].offset = t[i].offset + t[i].length
  /\ t[Len(t)].type = "TAIL"
  /\ t[Len(t)].length >= 1
  /\ t[Len(t)].offset + t[Len(t)].length = to

LEMMA InFront ==
  ASSUME NEW f \in Slices, NEW s, NEW to, Cut(s, f.offset + f.length, to)
  PROVE  Led(<<f>> \o s, f, to)
<1> DEFINE t == <<f>> \o s
<1>1. s \in Seq(Slices) /\ s # <<>>
  BY DEF Cut
<1>2. /\ t \in Seq(Slices) /\ Len(t) = Len(s) + 1
      /\ Len(s) \in Nat /\ Len(s) >= 1
      /\ t[1] = f
      /\ \A i \in 1 .. Len(s) : t[i + 1] = s[i]
  BY <1>1
<1> HIDE DEF t
<1>3. \A i \in 2 .. Len(t) : i - 1 \in 1 .. Len(s) /\ t[i] = s[i - 1]
  <2>1. SUFFICES ASSUME NEW i \in 2 .. Len(t)
                 PROVE  i - 1 \in 1 .. Len(s) /\ t[i] = s[i - 1]
    OBVIOUS
  <2>2. i - 1 \in 1 .. Len(s) /\ (i - 1) + 1 = i
    BY <1>2
  <2>3. QED
    BY <1>2, <2>2
<1>4. \A i \in 2 .. Len(t) - 1 : t[i].type = "BODY" /\ t[i].length = DATA_SIZE
  <2>1. SUFFICES ASSUME NEW i \in 2 .. Len(t) - 1
                 PROVE  t[i].type = "BODY" /\ t[i].length = DATA_SIZE
    OBVIOUS
  <2>2. i \in 2 .. Len(t) /\ i - 1 \in 1 .. Len(s) - 1
    BY <1>2
  <2>3. QED
    BY <1>3, <2>2 DEF Cut
<1>5. \A i \in 1 .. Len(t) - 1 : t[i + 1].offset = t[i].offset + t[i].length
  <2>1. SUFFICES ASSUME NEW i \in 1 .. Len(t) - 1
                 PROVE  t[i + 1].offset = t[i].offset + t[i].length
    OBVIOUS
  <2>2. CASE i = 1
    BY <1>2, <2>2 DEF Cut
  <2>3. CASE i # 1
    <3>1. i \in 2 .. Len(t) /\ i - 1 \in 1 .. Len(s) - 1 /\ i \in 1 .. Len(s)
          /\ (i - 1) + 1 = i
      BY <1>2, <2>3
    <3>2. t[i + 1] = s[i] /\ t[i] = s[i - 1]
      BY <1>2, <1>3, <3>1
    <3>3. s[(i - 1) + 1].offset = s[i - 1].offset + s[i - 1].length
      BY <3>1 DEF Cut
    <3>4. QED
      BY <3>1, <3>2, <3>3
  <2>4. QED
    BY <2>2, <2>3
<1>6. t[Len(t)] = s[Len(s)]
  BY <1>2
<1>7. QED
  BY <1>2, <1>4, <1>5, <1>6 DEF Cut, Led, t

\* What is left of a packet at any offset is cut, up to its end.
LEMMA RestCuts ==
  ASSUME NEW length \in Nat, NEW o \in 0 .. length
  PROVE  /\ o < length => Cut(Rest(length)[o], o, length)
         /\ o = length => Rest(length)[o] = <<>>
<1> DEFINE r == Rest(length)
           Fails == {n \in 1 .. length : ~ Cut(r[length - n], length - n, length)}
<1>1. DATA_SIZE \in Nat /\ DATA_SIZE >= 1
  BY DataSize
<1>2. \A i \in 0 .. length : r[i] = Turn(r, length, i)
  BY RestTurns
<1> HIDE DEF r
<1>3. Fails = {}
  <2>1. SUFFICES ASSUME Fails # {} PROVE FALSE
    OBVIOUS
  <2>2. PICK n \in Fails : \A m \in Fails : n <= m
    <3>1. Fails \in SUBSET Nat
      OBVIOUS
    <3> HIDE DEF Fails
    <3>2. QED
      BY <2>1, <3>1, LeastNatural
  <2>3. n \in 1 .. length /\ ~ Cut(r[length - n], length - n, length)
    BY <2>2
  <2>4. \A m \in 1 .. n - 1 : Cut(r[length - m], length - m, length)
    BY <2>2, <2>3
  <2> DEFINE at == length - n
  <2>5. at \in 0 .. length /\ length - at = n
    BY <2>3
  <2>6. CASE n > DATA_SIZE
    <3> DEFINE f == Slice("BODY", at, DATA_SIZE)
               s == r[at + DATA_SIZE]
    <3>1. r[at] = <<f>> \o s
      <4>1. length - at > DATA_SIZE /\ ~ (length - at \in 1 .. DATA_SIZE)
        BY <1>1, <2>5, <2>6
      <4>2. r[at] = Turn(r, length, at)
        BY <1>2, <2>5
      <4> HIDE DEF at
      <4>3. QED
        BY <4>1, <4>2 DEF Turn
    <3>2. /\ n - DATA_SIZE \in 1 .. n - 1
          /\ length - (n - DATA_SIZE) = at + DATA_SIZE
      BY <1>1, <2>3, <2>6
    <3>3. Cut(s, at + DATA_SIZE, length)
      BY <2>4, <3>2
    <3>4. /\ f \in Slices /\ f.offset = at /\ f.length = DATA_SIZE
          /\ f.type = "BODY"
      BY <1>1, <2>5 DEF Slice, Slices
    <3> DEFINE t == <<f>> \o s
    <3> HIDE DEF f, s
    <3>5. Led(t, f, length)
      <4>1. Cut(s, f.offset + f.length, length)
        BY <3>3, <3>4
      <4>2. QED
        BY <3>4, <4>1, InFront
    <3> HIDE DEF t
    <3>6. t # <<>>
      BY <3>5 DEF Led
    <3>7. \A i \in 1 .. Len(t) - 1 : t[i].type = "BODY" /\ t[i].length = DATA_SIZE
      BY <3>4, <3>5 DEF Led
    <3>8. Cut(t, at, length)
      BY <3>4, <3>5, <3>6, <3>7 DEF Cut, Led
    <3>9. QED
      BY <2>3, <3>1, <3>8 DEF t
  <2>7. CASE n <= DATA_SIZE
    <3> DEFINE f == Slice("TAIL", at, n)
    <3>1. ~ (length - at > DATA_SIZE) /\ length - at \in 1 .. DATA_SIZE
      BY <1>1, <2>3, <2>5, <2>7
    <3>2. r[at] = <<f>>
      BY <1>2, <2>5, <3>1 DEF Turn
    <3>3. /\ f \in Slices /\ f.offset = at /\ f.length = n /\ f.type = "TAIL"
      BY <1>1, <2>3, <2>5, <2>7 DEF Slice, Slices
    <3>4. at + n = length
      BY <2>3
    <3> HIDE DEF f, at
    <3>5. /\ <<f>> \in Seq(Slices) /\ <<f>> # <<>> /\ Len(<<f>>) = 1
          /\ <<f>>[1] = f
      BY <3>3
    <3>6. Cut(<<f>>, at, length)
      BY <3>3, <3>4, <3>5 DEF Cut
    <3>7. QED
      BY <2>3, <3>2, <3>6 DEF at
  <2>8. QED
    BY <1>1, <2>3, <2>6, <2>7
<1>4. ASSUME o < length PROVE Cut(r[o], o, length)
  <2>1. length - o \in 1 .. length /\ length - (length - o) = o
    BY <1>4
  <2>2. Cut(r[length - (length - o)], length - (length - o), length)
    BY <1>3, <2>1
  <2>3. QED
    BY <2>1, <2>2
<1>5. ASSUME o = length PROVE r[o] = <<>>
  <2>1. ~ (length - o > DATA_SIZE) /\ ~ (length - o \in 1 .. DATA_SIZE)
    BY <1>1, <1>5
  <2>2. QED
    BY <1>2, <2>1 DEF Turn
<1>6. QED
  BY <1>4, <1>5 DEF r

\* The type of the i-th of count flits that carry the data of a packet.
TypeAt(i, count) ==
  CASE count = 1 -> "HEAD_TAIL"
    [] count > 1 /\ i = 1 -> "HEAD"
    [] count > 1 /\ i = count -> "TAIL"
    [] OTHER -> "BODY"

(***************************************************************************)
(* A packet of any length becomes flits of DATA_SIZE bytes at most, and    *)
(* all but the last are full.  If it carries data, its flits carry all of  *)
(* it, without a gap, and the last, and only the last, ends the packet.    *)
(***************************************************************************)
THEOREM PacketCut ==
  ASSUME NEW length \in Nat
  PROVE  LET s == PacketToFlits(length)
         IN  /\ s \in Seq(Slices)
             /\ s # <<>>
             /\ s[1].offset = 0
             /\ \A i \in 1 .. Len(s) - 1 :
                  s[i + 1].offset = s[i].offset + s[i].length
             /\ s[Len(s)].offset + s[Len(s)].length = length
             /\ \A i \in 1 .. Len(s) - 1 : s[i].length = DATA_SIZE
             /\ length > 0 => s[Len(s)].length >= 1
             /\ length > 0 =>
                  \A i \in 1 .. Len(s) : s[i].type = TypeAt(i, Len(s))
<1> DEFINE s == PacketToFlits(length)
<1>1. DATA_SIZE \in Nat /\ DATA_SIZE >= 1
  BY DataSize
<1>2. CASE length <= DATA_SIZE
  <2> DEFINE type == IF length > 0 THEN "HEAD_TAIL" ELSE "HEAD"
             f == Slice(type, 0, length)
  <2>1. s = <<f>>
    <3>1. CASE length \in 1 .. DATA_SIZE
      BY <3>1 DEF PacketToFlits
    <3>2. CASE length = 0
      <4>1. Least(length, DATA_SIZE) = 0
        BY <1>1, <3>2 DEF Least
      <4>2. Rest(length)[0] = <<>>
        BY <3>2, RestCuts
      <4>3. s = <<Slice("HEAD", 0, 0)>> \o <<>>
        <5>1. length \notin 1 .. DATA_SIZE
          BY <3>2
        <5>2. QED
          BY <4>1, <4>2, <5>1 DEF PacketToFlits
      <4>4. <<Slice("HEAD", 0, 0)>> \o <<>> = <<Slice("HEAD", 0, 0)>>
        BY DEF Slice
      <4>5. QED
        BY <3>2, <4>3, <4>4
    <3>3. QED
      BY <1>2, <3>1, <3>2
  <2>2. /\ f \in Slices /\ f.offset = 0 /\ f.length = length /\ f.type = type
    BY <1>1, <1>2 DEF Slice, Slices
  <2>3. length > 0 => f.type = "HEAD_TAIL"
    BY <2>2
  <2> HIDE DEF f, s
  <2>4. /\ <<f>> \in Seq(Slices) /\ <<f>> # <<>> /\ Len(<<f>>) = 1
        /\ <<f>>[1] = f
    BY <2>2
  <2>5. length > 0 => f.type = TypeAt(1, 1)
    BY <2>3 DEF TypeAt
  <2>6. QED
    BY <2>1, <2>2, <2>4, <2>5 DEF s
<1>3. CASE length > DATA_SIZE
  <2> DEFINE f == Slice("HEAD", 0, DATA_SIZE)
             q == Rest(length)[DATA_SIZE]
  <2>1. Least(length, DATA_SIZE) = DATA_SIZE /\ length \notin 1 .. DATA_SIZE
    BY <1>1, <1>3 DEF Least
  <2>2. s = <<f>> \o q
    BY <2>1 DEF PacketToFlits
  <2>3. Cut(q, DATA_SIZE, length)
    BY <1>1, <1>3, RestCuts
  <2>4. f \in Slices /\ f.offset = 0 /\ f.length = DATA_SIZE /\ f.type = "HEAD"
    BY <1>1 DEF Slice, Slices
  <2> HIDE DEF f, q
  <2>5. Cut(q, f.offset + f.length, length)
    BY <1>1, <2>3, <2>4
  <2> HIDE DEF s
  <2>6. Led(s, f, length)
    BY <2>2, <2>4, <2>5, InFront
  <2>7. s # <<>>
    BY <2>6 DEF Led
  <2>8. \A i \in 1 .. Len(s) : s[i].type = TypeAt(i, Len(s))
    <3>1. SUFFICES ASSUME NEW i \in 1 .. Len(s)
                   PROVE  s[i].type = TypeAt(i, Len(s))
      OBVIOUS
    <3>2. CASE i = 1
      BY <2>4, <2>6, <3>2 DEF Led, TypeAt
    <3>3. CASE i \in 2 .. Len(s) - 1
      BY <2>6, <3>3 DEF Led, TypeAt
    <3>4. CASE i = Len(s)
      BY <2>6, <3>4 DEF Led, TypeAt
    <3>5. QED
      BY <2>6, <3>2, <3>3, <3>4 DEF Led
  <2>9. \A i \in 1 .. Len(s) - 1 : s[i].length = DATA_SIZE
    BY <2>4, <2>6 DEF Led
  <2>10. QED
    BY <2>4, <2>6, <2>7, <2>8, <2>9 DEF Led, s
<1>4. QED
  BY <1>1, <1>2, <1>3

\* The i-th flit starts where i - 1 full ones end.
LEMMA FlitOffsets ==
  ASSUME NEW length \in Nat, NEW i \in 1 .. Len(PacketToFlits(length))
  PROVE  PacketToFlits(length)[i].offset = (i - 1) * DATA_SIZE
<1> DEFINE s == PacketToFlits(length)
           Fails == {n \in 1 .. Len(s) : s[n].offset # (n - 1) * DATA_SIZE}
<1>1. DATA_SIZE \in Nat /\ DATA_SIZE >= 1
  BY DataSize
<1>2. /\ s \in Seq(Slices) /\ s # <<>>
      /\ s[1].offset = 0
      /\ \A n \in 1 .. Len(s) - 1 : s[n + 1].offset = s[n].offset + s[n].length
      /\ \A n \in 1 .. Len(s) - 1 : s[n].length = DATA_SIZE
  BY PacketCut
<1> HIDE DEF s
<1>3. SUFFICES ASSUME Fails # {} PROVE FALSE
  BY DEF s
<1>4. PICK n \in Fails : \A m \in Fails : n <= m
  <2>1. Fails \in SUBSET Nat
    OBVIOUS
  <2> HIDE DEF Fails
  <2>2. QED
    BY <1>3, <2>1, LeastNatural
<1>5. n \in 1 .. Len(s) /\ s[n].offset # (n - 1) * DATA_SIZE /\ Len(s) \in Nat
  BY <1>2, <1>4
<1>6. n # 1
  <2>1. (1 - 1) * DATA_SIZE = 0
    BY <1>1
  <2>2. QED
    BY <1>2, <1>5, <2>1
<1>7. n - 1 \in 1 .. Len(s) - 1 /\ (n - 1) + 1 = n
  BY <1>5, <1>6
<1>8. s[n - 1].offset = ((n - 1) - 1) * DATA_SIZE
  BY <1>4, <1>5, <1>7
<1>9. s[n].offset = ((n - 1) - 1) * DATA_SIZE + DATA_SIZE
  BY <1>2, <1>7, <1>8
<1>10. ((n - 1) - 1) * DATA_SIZE + DATA_SIZE = (n - 1) * DATA_SIZE
  BY <1>1, <1>5
<1>11. QED
  BY <1>5, <1>9, <1>10

\* Division by the size of a flit.
LEMMA Quotient ==
  ASSUME NEW d \in Nat, d >= 1, NEW q \in Nat, NEW r \in 0 .. d - 1
  PROVE  (q * d + r) \div d = q
<1> DEFINE m == q * d + r
<1>1. m \in Int
  OBVIOUS
<1>2. PICK u \in Int : u = m \div d
  BY <1>1
<1>3. d * u <= m /\ m < d * (u + 1)
  BY <1>1, <1>2
<1>4. d * u <= d * q + r /\ d * q + r < d * u + d
  BY <1>3
<1>5. ASSUME u > q PROVE FALSE
  <2>1. d * u >= d * (q + 1)
    BY <1>5
  <2>2. QED
    BY <1>4, <2>1
<1>6. ASSUME u < q PROVE FALSE
  <2>1. d * q >= d * (u + 1)
    BY <1>6
  <2>2. QED
    BY <1>4, <2>1
<1>7. QED
  BY <1>2, <1>5, <1>6

\* Multiples of the size of a flit.
LEMMA Multiples ==
  ASSUME NEW d \in Nat, NEW a \in Int, NEW b \in Int
  PROVE  /\ a * d \in Int
         /\ (a - 1) * d = a * d - d
         /\ a <= b => a * d <= b * d
<1>1. a * d \in Int /\ (a - 1) * d = a * d - d
  OBVIOUS
<1>2. ASSUME a <= b PROVE a * d <= b * d
  <2>1. PICK c \in Nat : b = a + c
    BY <1>2
  <2>2. b * d = a * d + c * d /\ c * d >= 0
    BY <2>1
  <2>3. QED
    BY <1>1, <2>2
<1>3. QED
  BY <1>1, <1>2

(***************************************************************************)
(* For every packet that carries data and every size of a flit, the loop   *)
(* of packetToFlits() and the count of generateAndSendRequest() cut it at  *)
(* the same bytes, and the constructor of a single flit makes the first of *)
(* the former.                                                             *)
(***************************************************************************)
THEOREM SplittersEqual ==
  ASSUME NEW length \in Nat, length > 0
  PROVE  /\ Len(TerminalFlits(length)) = Len(PacketToFlits(length))
         /\ \A i \in 1 .. Len(PacketToFlits(length)) :
              TerminalFlits(length)[i] = PartOf(PacketToFlits(length)[i])
         /\ PacketToFlits(length)[1] = FlitOfPacket(length)
<1> DEFINE s == PacketToFlits(length)
           L == Len(s)
           D == DATA_SIZE
<1>1. D \in Nat /\ D >= 1
  BY DataSize
<1>2. /\ s \in Seq(Slices) /\ s # <<>>
      /\ s[L].offset + s[L].length = length
      /\ \A i \in 1 .. L - 1 : s[i].length = D
      /\ s[L].length >= 1
      /\ \A i \in 1 .. L : s[i].type = TypeAt(i, L)
  <2>1. length > 0
    OBVIOUS
  <2>2. QED
    BY <2>1, PacketCut
<1>3. \A i \in 1 .. L : s[i].offset = (i - 1) * D
  BY FlitOffsets
<1> HIDE DEF s
<1>4. L \in Nat /\ L >= 1
  BY <1>2
<1> HIDE DEF L
<1>5. \A i \in 1 .. L : s[i] \in Slices
  BY <1>2 DEF L
<1>6. \A a, b \in Int : /\ a * D \in Int
                        /\ (a - 1) * D = a * D - D
                        /\ a <= b => a * D <= b * D
  BY <1>1, Multiples
<1> HIDE DEF D
<1>7. /\ s[L].length \in 1 .. D
      /\ (L - 1) * D + s[L].length = length
  <2>1. L \in 1 .. L /\ s[L] \in Slices
    BY <1>4, <1>5
  <2>2. s[L].length \in 0 .. D
    BY <2>1 DEF Slices, D
  <2>3. QED
    BY <1>1, <1>2, <1>3, <2>1, <2>2
<1>8. (length + D - 1) \div D = L
  <2>1. s[L].length - 1 \in 0 .. D - 1
    BY <1>1, <1>7
  <2>2. L * D + (s[L].length - 1) = length + D - 1
    BY <1>1, <1>4, <1>6, <1>7
  <2>3. (L * D + (s[L].length - 1)) \div D = L
    BY <1>1, <1>4, <2>1, Quotient
  <2>4. QED
    BY <2>2, <2>3
<1>9. ASSUME NEW i \in 1 .. L
      PROVE  s[i].length = Least(D, length - (i - 1) * D)
  <2> DEFINE o == (i - 1) * D
  <2>1. o \in Int
    BY <1>4, <1>6
  <2>2. CASE i = L
    <3>1. s[i].length = length - o /\ s[i].length \in 1 .. D
      BY <1>1, <1>7, <2>1, <2>2
    <3> HIDE DEF o
    <3>2. ~ (D < length - o) /\ s[i].length = length - o
      BY <1>1, <2>1, <3>1
    <3>3. QED
      BY <3>2 DEF Least, o
  <2>3. CASE i # L
    <3>1. (L - 1) * D >= i * D
      BY <1>4, <1>6, <2>3
    <3>2. i * D = o + D
      BY <1>1, <1>4, <1>6
    <3>3. length > o + D
      BY <1>1, <1>4, <1>6, <1>7, <2>1, <3>1, <3>2
    <3>4. s[i].length = D
      BY <1>2, <1>4, <2>3
    <3> HIDE DEF o
    <3>5. ~ (D < length - o) => D = length - o
      BY <1>1, <2>1, <3>3
    <3>6. QED
      BY <3>4, <3>5 DEF Least, o
  <2>4. QED
    BY <2>2, <2>3
<1> DEFINE at(i) == Slice(TypeAt(i, L), (i - 1) * D, Least(D, length - (i - 1) * D))
<1>10. ASSUME NEW i \in 1 .. L PROVE s[i] = at(i)
  <2>1. s[i] \in Slices
    BY <1>5
  <2>2. s[i] = [type |-> s[i].type, offset |-> s[i].offset, length |-> s[i].length]
    BY <2>1 DEF Slices
  <2>3. QED
    BY <1>2, <1>3, <1>9, <2>2 DEF Slice
<1> DEFINE part(i) == Part((i - 1) * D, Least(D, length - (i - 1) * D))
<1>11. TerminalFlits(length) = [i \in 1 .. L |-> part(i)]
  <2> DEFINE count == (length + D - 1) \div D
             from(c) == [i \in 1 .. c |->
                          Part((i - 1) * D, Least(D, length - (i - 1) * D))]
  <2>1. TerminalFlits(length) = from(count)
    BY DEF TerminalFlits, D
  <2>2. count = L
    BY <1>8
  <2> HIDE DEF count
  <2>3. QED
    BY <2>1, <2>2
<1>12. ASSUME NEW i \in 1 .. L PROVE PartOf(s[i]) = part(i)
  BY <1>3, <1>9 DEF PartOf
<1>13. /\ Len(TerminalFlits(length)) = L
       /\ \A i \in 1 .. L : TerminalFlits(length)[i] = PartOf(s[i])
  <2> HIDE DEF part
  <2>1. Len(TerminalFlits(length)) = L
    BY <1>4, <1>11
  <2>2. QED
    BY <1>11, <1>12, <2>1
<1>14. s[1] = FlitOfPacket(length)
  <2>1. s[1] = at(1) /\ (1 - 1) * D = 0 /\ length - 0 = length
    BY <1>1, <1>4, <1>10
  <2>2. s[1] = Slice(TypeAt(1, L), 0, Least(D, length))
    BY <2>1
  <2>3. Least(D, length) = Least(length, D)
    BY <1>1 DEF Least
  <2>4. TypeAt(1, L) = IF length <= D THEN "HEAD_TAIL" ELSE "HEAD"
    <3>1. CASE L = 1
      <4>1. (L - 1) * D = 0
        BY <1>1, <3>1
      <4>2. length <= D
        BY <1>1, <1>7, <3>1, <4>1
      <4>3. QED
        BY <3>1, <4>2 DEF TypeAt
    <3>2. CASE L # 1
      <4>1. (L - 1) * D >= D
        <5>1. 1 <= L - 1 /\ 1 * D = D
          BY <1>1, <1>4, <3>2
        <5>2. QED
          BY <1>4, <1>6, <5>1
      <4>2. length > D
        BY <1>1, <1>4, <1>6, <1>7, <4>1
      <4>3. ~ (length <= D) /\ L > 1
        BY <1>1, <1>4, <3>2, <4>2
      <4>4. QED
        BY <3>2, <4>3 DEF TypeAt
    <3>3. QED
      BY <3>1, <3>2
  <2>5. QED
    BY <2>2, <2>3, <2>4 DEF FlitOfPacket, D
<1>15. QED
  BY <1>13, <1>14 DEF s, L

-----------------------------------------------------------------------------
\* The flits that may wait at link l.
On(l) == {f \in Flits : l[2] # Terminal => ComputeRoute(l[1], f) = l[2]}

(***************************************************************************)
(* One link by itself.  That its flit is the front of the buffer, as long  *)
(* as request or answer are up, makes what the receiver reads a flit at    *)
(* all, and one whose destination is in the mesh.                          *)
(***************************************************************************)
Good(l) ==
  /\ link[l] \in [buffer : Seq(On(l)), req : BOOLEAN,
                  flit : Flits \cup {NoFlit}, ack : BOOLEAN]
  /\ ~ (link[l].req /\ link[l].ack)
  /\ link[l].req \/ link[l].ack =>
       link[l].buffer # <<>> /\ link[l].flit = Head(link[l].buffer)

IInv == TypeOK /\ \A l \in Links : Good(l)

-----------------------------------------------------------------------------
\* Queues of elements of T.
LEMMA Queues ==
  ASSUME NEW T, NEW q \in Seq(T), NEW r \in Seq(T)
  PROVE  /\ q \o r \in Seq(T)
         /\ q # <<>> => /\ Head(q) \in T
                        /\ Tail(q) \in Seq(T)
                        /\ q \o r # <<>>
                        /\ Head(q \o r) = Head(q)
OBVIOUS

\* The coordinates of a node.
LEMMA Coordinates ==
  ASSUME NEW n \in Node
  PROVE  /\ n \in Nat
         /\ X(n) \in 0 .. Columns - 1
         /\ Y(n) \in 0 .. Rows - 1
         /\ n = 4 * Y(n) + X(n)
<1>1. PICK x \in 0 .. Columns - 1, y \in 0 .. Rows - 1 : n = 4 * y + x
  BY DEF Node
<1>2. x \in 0 .. 3 /\ y \in Nat /\ Columns \in Nat /\ Rows \in Nat
  BY MeshSize
<1>3. (4 * y + x) % 4 = x /\ (4 * y + x) \div 4 = y
  BY <1>2
<1>4. QED
  BY <1>1, <1>2, <1>3 DEF X, Y

\* A node is what has coordinates in the mesh.
LEMMA NodeAt ==
  ASSUME NEW x \in 0 .. Columns - 1, NEW y \in 0 .. Rows - 1
  PROVE  4 * y + x \in Node
BY DEF Node

\* No route leads out of the mesh.
LEMMA RouteInside ==
  ASSUME NEW n \in Node, NEW f \in Flits, NEW d, ComputeRoute(n, f) = d
  PROVE  d \in N .. Local /\ <<n, d>> \notin Rim
<1>1. f.dest \in Node
  BY DEF Flits
<1>2. /\ X(n) \in 0 .. Columns - 1 /\ Y(n) \in 0 .. Rows - 1
      /\ X(f.dest) \in 0 .. Columns - 1 /\ Y(f.dest) \in 0 .. Rows - 1
      /\ Columns \in Nat /\ Rows \in Nat
  BY <1>1, Coordinates, MeshSize
<1>3. /\ d = N => Y(n) > 0
      /\ d = S => Y(n) < Rows - 1
      /\ d = E => X(n) < Columns - 1
      /\ d = W => X(n) > 0
      /\ d \in {N, E, S, W, Local}
  <2>1. CASE X(n) < X(f.dest)
    BY <1>2, <2>1 DEF ComputeRoute, N, E, S, W, Local
  <2>2. CASE X(n) > X(f.dest)
    BY <1>2, <2>2 DEF ComputeRoute, N, E, S, W, Local
  <2>3. CASE X(n) = X(f.dest) /\ Y(n) < Y(f.dest)
    BY <1>2, <2>3 DEF ComputeRoute, N, E, S, W, Local
  <2>4. CASE X(n) = X(f.dest) /\ Y(n) > Y(f.dest)
    BY <1>2, <2>4 DEF ComputeRoute, N, E, S, W, Local
  <2>5. CASE X(n) = X(f.dest) /\ Y(n) = Y(f.dest)
    BY <1>2, <2>5 DEF ComputeRoute, N, E, S, W, Local
  <2>6. QED
    BY <1>2, <2>1, <2>2, <2>3, <2>4, <2>5
<1>4. QED
  BY <1>2, <1>3 DEF Rim, N, E, S, W, Local

\* A link into router n comes from a router or a terminal of the mesh.
LEMMA IntoLinks ==
  ASSUME NEW n \in Node, NEW i \in N .. Local, NEW l \in Into(n, i)
  PROVE  l \in Links /\ Into(n, i) = {l}
<1>1. /\ n \in Nat /\ X(n) \in 0 .. Columns - 1 /\ Y(n) \in 0 .. Rows - 1
      /\ n = 4 * Y(n) + X(n)
      /\ Columns \in Nat /\ Rows \in Nat
  BY Coordinates, MeshSize
<1>2. CASE i = N
  <2>1. Y(n) > 0 /\ l = <<n - 4, S>> /\ Into(n, i) = {l}
    BY <1>2 DEF Into, N, E, S, W, Local
  <2>2. Y(n) - 1 \in 0 .. Rows - 1 /\ n - 4 = 4 * (Y(n) - 1) + X(n)
    BY <1>1, <2>1
  <2>3. n - 4 \in Node
    BY <1>1, <2>2, NodeAt
  <2>4. QED
    BY <2>1, <2>3 DEF Links, N, S, Terminal
<1>3. CASE i = S
  <2>1. Y(n) < Rows - 1 /\ l = <<n + 4, N>> /\ Into(n, i) = {l}
    BY <1>3 DEF Into, N, E, S, W, Local
  <2>2. Y(n) + 1 \in 0 .. Rows - 1 /\ n + 4 = 4 * (Y(n) + 1) + X(n)
    BY <1>1, <2>1
  <2>3. n + 4 \in Node
    BY <1>1, <2>2, NodeAt
  <2>4. QED
    BY <2>1, <2>3 DEF Links, N, Terminal
<1>4. CASE i = E
  <2>1. X(n) < Columns - 1 /\ l = <<n + 1, W>> /\ Into(n, i) = {l}
    BY <1>4 DEF Into, N, E, S, W, Local
  <2>2. X(n) + 1 \in 0 .. Columns - 1 /\ n + 1 = 4 * Y(n) + (X(n) + 1)
    BY <1>1, <2>1
  <2>3. n + 1 \in Node
    BY <1>1, <2>2, NodeAt
  <2>4. QED
    BY <2>1, <2>3 DEF Links, N, W, Terminal
<1>5. CASE i = W
  <2>1. X(n) > 0 /\ l = <<n - 1, E>> /\ Into(n, i) = {l}
    BY <1>5 DEF Into, N, E, S, W, Local
  <2>2. X(n) - 1 \in 0 .. Columns - 1 /\ n - 1 = 4 * Y(n) + (X(n) - 1)
    BY <1>1, <2>1
  <2>3. n - 1 \in Node
    BY <1>1, <2>2, NodeAt
  <2>4. QED
    BY <2>1, <2>3 DEF Links, N, E, Terminal
<1>6. CASE i = Local
  <2>1. l = <<n, Terminal>> /\ Into(n, i) = {l}
    BY <1>6 DEF Into, N, E, S, W, Local
  <2>2. QED
    BY <2>1 DEF Links, N, Terminal
<1>7. QED
  BY <1>2, <1>3, <1>4, <1>5, <1>6 DEF N, E, S, W, Local

\* The flit of a link that is taken is one, with a destination in the mesh.
LEMMA TakenFlit ==
  ASSUME NEW l \in Links, Good(l), Taken(l)
  PROVE  link[l].flit \in Flits
<1>1. link[l].buffer \in Seq(On(l)) /\ link[l].buffer # <<>>
      /\ link[l].flit = Head(link[l].buffer)
  BY DEF Good, Taken
<1>2. Head(link[l].buffer) \in On(l)
  BY <1>1, Queues
<1>3. QED
  BY <1>1, <1>2 DEF On

\* What a router pushes to an output takes its route there.
LEMMA ArrivalsOnRoute ==
  ASSUME IInv, NEW n \in Node, NEW d \in N .. Terminal
  PROVE  Arrivals(n, d) \in Seq(On(<<n, d>>))
<1> DEFINE taken(i) == \E l \in Into(n, i) :
                         Taken(l) /\ ComputeRoute(n, link[l].flit) = d
           at(i) == IF taken(i) THEN <<link[CHOOSE l \in Into(n, i) : TRUE].flit>>
                    ELSE <<>>
           T == On(<<n, d>>)
<1>1. ASSUME NEW i \in N .. Local
      PROVE  at(i) \in Seq(T)
  <2>1. CASE taken(i)
    <3>1. PICK l \in Into(n, i) : Taken(l) /\ ComputeRoute(n, link[l].flit) = d
      BY <2>1
    <3>2. l \in Links /\ Into(n, i) = {l}
      BY <1>1, IntoLinks
    <3>3. (CHOOSE k \in Into(n, i) : TRUE) = l
      BY <3>2
    <3>4. link[l].flit \in Flits
      BY <3>1, <3>2, TakenFlit DEF IInv
    <3>5. link[l].flit \in T
      BY <3>1, <3>4 DEF On
    <3>6. at(i) = <<link[l].flit>>
      BY <2>1, <3>3
    <3> HIDE DEF at, T
    <3>7. QED
      BY <3>5, <3>6
  <2>2. CASE ~ taken(i)
    <3>1. at(i) = <<>>
      BY <2>2
    <3>2. QED
      BY <3>1
  <2>3. QED
    BY <2>1, <2>2
<1>2. Arrivals(n, d) = IF d = Terminal THEN <<>>
                       ELSE at(N) \o at(E) \o at(S) \o at(W) \o at(Local)
  BY DEF Arrivals
<1>3. {N, E, S, W, Local} \subseteq N .. Local
  BY DEF N, E, S, W, Local
<1> HIDE DEF at, T
<1>4. /\ at(N) \in Seq(T) /\ at(E) \in Seq(T) /\ at(S) \in Seq(T)
      /\ at(W) \in Seq(T) /\ at(Local) \in Seq(T)
  BY <1>1, <1>3
<1>5. at(N) \o at(E) \o at(S) \o at(W) \o at(Local) \in Seq(T)
  BY <1>4
<1>6. QED
  BY <1>2, <1>5 DEF T

\* The flits of a packet.
LEMMA FlitsTyped ==
  ASSUME NEW p \in Packets, NEW src \in Node, NEW dest \in Node, NEW length \in Nat
  PROVE  FlitsOf(p, src, dest, length) \in Seq(Flits)
<1> DEFINE s == PacketToFlits(length)
<1>1. s \in Seq(Slices)
  BY PacketCut
<1>2. FlitsOf(p, src, dest, length) =
        [i \in 1 .. Len(s) |->
           [packet_id |-> p, src |-> src, dest |-> dest, slice |-> s[i]]]
  BY DEF FlitsOf
<1> HIDE DEF s
<1>3. /\ Len(s) \in Nat
      /\ \A i \in 1 .. Len(s) :
           [packet_id |-> p, src |-> src, dest |-> dest, slice |-> s[i]] \in Flits
  BY <1>1 DEF Flits
<1>4. QED
  BY <1>2, <1>3

-----------------------------------------------------------------------------
LEMMA InitIInv == Init => IInv
<1>1. SUFFICES ASSUME Init PROVE IInv
  OBVIOUS
<1> USE <1>1 DEF Init
<1>2. ASSUME NEW l \in Links
      PROVE  link[l] = [buffer |-> <<>>, req |-> FALSE, flit |-> NoFlit, ack |-> FALSE]
  BY <1>2
<1>3. TypeOK
  BY DEF TypeOK
<1>4. ASSUME NEW l \in Links PROVE Good(l)
  <2>1. /\ link[l].buffer = <<>> /\ link[l].flit = NoFlit
        /\ link[l].req = FALSE /\ link[l].ack = FALSE
    BY <1>2
  <2>2. link[l] \in [buffer : Seq(On(l)), req : BOOLEAN,
                     flit : Flits \cup {NoFlit}, ack : BOOLEAN]
    BY <1>2
  <2>3. QED
    BY <2>1, <2>2 DEF Good
<1>5. QED
  BY <1>3, <1>4 DEF IInv

\* The flits of a packet wait at their terminal.
LEMMA GenerateIInv ==
  ASSUME IInv, NEW p \in Packets, NEW src \in Node, NEW dest \in Node,
         NEW length \in Nat, Generate(p, src, dest, length)
  PROVE  IInv'
<1> DEFINE flits == FlitsOf(p, src, dest, length)
           t == <<src, Terminal>>
<1>1. /\ sent' = [sent EXCEPT ![src] = @ \o flits]
      /\ link' = [link EXCEPT ![t].buffer = @ \o flits]
      /\ received' = received
  BY DEF Generate
<1>2. flits \in Seq(Flits)
  BY FlitsTyped
<1>3. TypeOK
  BY DEF IInv
<1> HIDE DEF flits
<1>4. t \in Links /\ t[2] = Terminal /\ On(t) = Flits
  BY DEF Links, On, N, Terminal
<1> HIDE DEF t
<1>5. /\ link[t].buffer \in Seq(Flits) /\ link[t].buffer \in Seq(On(t))
      /\ link[t].buffer \o flits \in Seq(Flits)
  BY <1>2, <1>3, <1>4, Queues DEF TypeOK, IInv, Good
<1>6. /\ link'[t] = [link[t] EXCEPT !.buffer = link[t].buffer \o flits]
      /\ \A l \in Links \ {t} : link'[l] = link[l]
      /\ link' \in [Links -> [buffer : Seq(Flits), req : BOOLEAN,
                              flit : Flits \cup {NoFlit}, ack : BOOLEAN]]
  BY <1>1, <1>3, <1>4, <1>5 DEF TypeOK
<1>7. TypeOK'
  <2>1. sent[src] \o flits \in Seq(Flits)
    BY <1>2, <1>3, Queues DEF TypeOK
  <2>2. sent' \in [Node -> Seq(Flits)]
    BY <1>1, <1>3, <2>1 DEF TypeOK
  <2>3. QED
    BY <1>1, <1>3, <1>6, <2>2 DEF TypeOK
<1>8. ASSUME NEW l \in Links PROVE Good(l)'
  <2>1. CASE l # t
    BY <1>6, <1>8, <2>1 DEF IInv, Good, On
  <2>2. CASE l = t
    <3> DEFINE r == link[t]
               s == link'[t]
    <3>1. /\ r \in [buffer : Seq(Flits), req : BOOLEAN,
                    flit : Flits \cup {NoFlit}, ack : BOOLEAN]
          /\ ~ (r.req /\ r.ack)
          /\ r.req \/ r.ack => r.buffer # <<>> /\ r.flit = Head(r.buffer)
      BY <1>3, <1>4 DEF IInv, Good, TypeOK
    <3>2. /\ s.buffer = r.buffer \o flits /\ s.req = r.req
          /\ s.flit = r.flit /\ s.ack = r.ack
          /\ s \in [buffer : Seq(Flits), req : BOOLEAN,
                    flit : Flits \cup {NoFlit}, ack : BOOLEAN]
      BY <1>4, <1>6, <3>1
    <3>3. r.buffer # <<>> => s.buffer # <<>> /\ Head(s.buffer) = Head(r.buffer)
      BY <1>2, <1>5, <3>2, Queues
    <3>4. On(t)' = Flits
      BY <1>4 DEF On
    <3> HIDE DEF r
    <3>5. QED
      BY <2>2, <3>1, <3>2, <3>3, <3>4 DEF Good
  <2>3. QED
    BY <2>1, <2>2
<1>9. QED
  BY <1>7, <1>8 DEF IInv

(***************************************************************************)
(* A clock edge at one link, whichever process of its sender runs first:   *)
(* the buffer gets what arrives, and loses its front to an answer.         *)
(***************************************************************************)
LEMMA SwitchedBuffer ==
  ASSUME NEW l \in Links, Good(l), NEW early \in BOOLEAN,
         Arrivals(l[1], l[2]) \in Seq(On(l))
  PROVE  /\ Switched(l, early).ack = Taken(l)
         /\ link[l].ack =>
              /\ Switched(l, early).buffer
                   = Tail(link[l].buffer \o Arrivals(l[1], l[2]))
              /\ ~ Switched(l, early).req /\ ~ Switched(l, early).ack
         /\ ~ link[l].ack =>
              Switched(l, early).buffer = link[l].buffer \o Arrivals(l[1], l[2])
         /\ Switched(l, early).req =>
              /\ ~ link[l].req /\ ~ link[l].ack
              /\ Switched(l, early).buffer # <<>>
              /\ Switched(l, early).flit = Head(Switched(l, early).buffer)
         /\ Switched(l, early).flit \in Flits \cup {NoFlit}
         /\ link[l].req => Switched(l, early).flit = link[l].flit
<1> DEFINE q == link[l].buffer
           a == Arrivals(l[1], l[2])
           b == q \o a
           seen == IF early THEN q ELSE b
<1>1. /\ q \in Seq(On(l)) /\ link[l].req \in BOOLEAN /\ link[l].ack \in BOOLEAN
      /\ link[l].flit \in Flits \cup {NoFlit}
      /\ ~ (link[l].req /\ link[l].ack)
      /\ link[l].req \/ link[l].ack => q # <<>>
  BY DEF Good
<1>2. /\ b \in Seq(On(l))
      /\ q # <<>> => b # <<>> /\ Head(b) = Head(q)
      /\ b # <<>> => Head(b) \in On(l)
      /\ q # <<>> => Head(q) \in On(l)
  BY <1>1, Queues
<1>3. /\ Switched(l, early).buffer = IF Pops(l, seen) THEN Tail(b) ELSE b
      /\ Switched(l, early).req = Offers(l, seen)
      /\ Switched(l, early).flit
           = IF seen # <<>> /\ ~ link[l].req THEN Head(seen) ELSE link[l].flit
      /\ Switched(l, early).ack = Taken(l)
  BY DEF Switched
<1>4. q # <<>> => seen # <<>>
  BY <1>2
<1>5. seen # <<>> => b # <<>> /\ Head(seen) = Head(b) /\ Head(seen) \in On(l)
  BY <1>2
<1> HIDE DEF q, a, b, seen
<1>6. Pops(l, seen) <=> link[l].ack
  BY <1>1, <1>4 DEF Pops
<1>7. Offers(l, seen) <=> seen # <<>> /\ ~ link[l].req /\ ~ link[l].ack
  BY DEF Offers
<1>8. Taken(l) => link[l].req /\ ~ link[l].ack
  BY DEF Taken
<1>9. On(l) \subseteq Flits
  BY DEF On
<1>10. Switched(l, early).flit \in Flits \cup {NoFlit}
  BY <1>1, <1>3, <1>5, <1>9
<1>11. ASSUME Switched(l, early).req
       PROVE  /\ ~ link[l].req /\ ~ link[l].ack
              /\ Switched(l, early).buffer # <<>>
              /\ Switched(l, early).flit = Head(Switched(l, early).buffer)
  BY <1>3, <1>5, <1>6, <1>7, <1>11
<1>12. ASSUME link[l].ack
       PROVE  /\ Switched(l, early).buffer = Tail(b)
              /\ ~ Switched(l, early).req /\ ~ Switched(l, early).ack
  BY <1>3, <1>6, <1>7, <1>8, <1>12
<1>13. ASSUME ~ link[l].ack PROVE Switched(l, early).buffer = b
  BY <1>3, <1>6, <1>13
<1>14. link[l].req => Switched(l, early).flit = link[l].flit
  BY <1>3
<1>15. QED
  BY <1>3, <1>10, <1>11, <1>12, <1>13, <1>14 DEF a, b, q

LEMMA ClockIInv ==
  ASSUME IInv, NEW early \in SUBSET Node, Clock(early)
  PROVE  IInv'
<1>1. TypeOK
  BY DEF IInv
<1>2. /\ link' = [l \in Links |-> Switched(l, l[1] \in early)]
      /\ sent' = sent
  BY DEF Clock
<1>3. ASSUME NEW l \in Links
      PROVE  /\ Good(l)'
             /\ link'[l] \in [buffer : Seq(Flits), req : BOOLEAN,
                              flit : Flits \cup {NoFlit}, ack : BOOLEAN]
  <2> DEFINE e == l[1] \in early
             s == Switched(l, e)
             a == Arrivals(l[1], l[2])
  <2>1. /\ l[1] \in Node /\ l[2] \in N .. Terminal /\ l = <<l[1], l[2]>>
        /\ e \in BOOLEAN
    BY DEF Links
  <2>2. a \in Seq(On(l))
    BY <2>1, ArrivalsOnRoute
  <2>3. Good(l)
    BY DEF IInv
  <2>4. link'[l] = s
    BY <1>2
  <2>5. /\ link[l].buffer \in Seq(On(l)) /\ link[l].req \in BOOLEAN
        /\ link[l].ack \in BOOLEAN
        /\ link[l].req \/ link[l].ack =>
             link[l].buffer # <<>> /\ link[l].flit = Head(link[l].buffer)
    BY <2>3 DEF Good
  <2> HIDE DEF a, e
  <2>6. /\ s.ack = Taken(l)
        /\ link[l].ack =>
             s.buffer = Tail(link[l].buffer \o a) /\ ~ s.req /\ ~ s.ack
        /\ ~ link[l].ack => s.buffer = link[l].buffer \o a
        /\ s.req => /\ ~ link[l].req /\ ~ link[l].ack
                    /\ s.buffer # <<>> /\ s.flit = Head(s.buffer)
        /\ s.flit \in Flits \cup {NoFlit}
        /\ link[l].req => s.flit = link[l].flit
    BY <2>1, <2>2, <2>3, SwitchedBuffer DEF a
  <2>7. /\ link[l].buffer \o a \in Seq(On(l))
        /\ link[l].buffer # <<>> =>
             /\ link[l].buffer \o a # <<>>
             /\ Head(link[l].buffer \o a) = Head(link[l].buffer)
        /\ link[l].buffer \o a # <<>> => Tail(link[l].buffer \o a) \in Seq(On(l))
    BY <2>2, <2>5, Queues
  <2>8. s.buffer \in Seq(On(l))
    BY <2>5, <2>6, <2>7
  <2>9. s \in [buffer : Seq(On(l)), req : BOOLEAN,
               flit : Flits \cup {NoFlit}, ack : BOOLEAN]
    <3>1. s.req \in BOOLEAN /\ s.ack \in BOOLEAN
      BY <2>5 DEF Switched, Offers, Taken
    <3>2. s = [buffer |-> s.buffer, req |-> s.req, flit |-> s.flit, ack |-> s.ack]
      BY DEF Switched
    <3> HIDE DEF s
    <3>3. QED
      BY <2>6, <2>8, <3>1, <3>2
  <2> HIDE DEF s
  <2>10. s.ack => link[l].req /\ ~ link[l].ack
    BY <2>6 DEF Taken
  <2>11. ~ (s.req /\ s.ack)
    BY <2>6, <2>10
  <2>12. s.req \/ s.ack => s.buffer # <<>> /\ s.flit = Head(s.buffer)
    BY <2>5, <2>6, <2>7, <2>10
  <2>13. Good(l)'
    BY <2>4, <2>9, <2>11, <2>12 DEF Good, On
  <2>14. Seq(On(l)) \subseteq Seq(Flits)
    BY DEF On
  <2>15. QED
    BY <2>4, <2>9, <2>13, <2>14
<1>4. received' \in [Node -> Seq(Flits)]
  <2>1. ASSUME NEW n \in Node, Taken(<<n, Local>>)
        PROVE  Append(received[n], link[<<n, Local>>].flit) \in Seq(Flits)
    <3>1. <<n, Local>> \in Links
      BY DEF Links, N, Local, Terminal
    <3>2. link[<<n, Local>>].flit \in Flits
      BY <2>1, <3>1, TakenFlit DEF IInv
    <3>3. QED
      BY <1>1, <3>2 DEF TypeOK
  <2>2. received' = [n \in Node |->
                      IF Taken(<<n, Local>>)
                      THEN Append(received[n], link[<<n, Local>>].flit)
                      ELSE received[n]]
    BY DEF Clock
  <2>3. QED
    BY <1>1, <2>1, <2>2 DEF TypeOK
<1>5. TypeOK'
  BY <1>1, <1>2, <1>3, <1>4 DEF TypeOK
<1>6. QED
  BY <1>3, <1>5 DEF IInv

THEOREM Inductive == Spec => []IInv
<1>1. IInv /\ [Next]_vars => IInv'
  <2>1. SUFFICES ASSUME IInv, [Next]_vars PROVE IInv'
    OBVIOUS
  <2>2. CASE \E p \in Packets : \E t \in Traffic[p] : Generate(p, t[1], t[2], t[3])
    <3>1. PICK p \in Packets : \E t \in Traffic[p] : Generate(p, t[1], t[2], t[3])
      BY <2>2
    <3>2. PICK t \in Traffic[p] : Generate(p, t[1], t[2], t[3])
      BY <3>1
    <3>3. t[1] \in Node /\ t[2] \in Node /\ t[3] \in Nat
      BY TrafficInMesh
    <3>4. QED
      BY <2>1, <3>2, <3>3, GenerateIInv
  <2>3. CASE Tick
    <3>1. PICK early \in SUBSET Races : Clock(early)
      BY <2>3 DEF Tick
    <3>2. early \in SUBSET Node
      BY DEF Races
    <3>3. QED
      BY <2>1, <3>1, <3>2, ClockIInv
  <2>4. CASE UNCHANGED vars
    BY <2>1, <2>4 DEF vars, IInv, TypeOK, Good, On
  <2>5. QED
    BY <2>1, <2>2, <2>3, <2>4 DEF Next
<1>2. QED
  BY <1>1, InitIInv, PTL DEF Spec

(***************************************************************************)
(* The types, in a mesh of any size: what a router reads from a wire when  *)
(* it takes a flit is one, and never the wire's initial value.             *)
(***************************************************************************)
THEOREM TypeCorrect == Spec => []TypeOK
<1>1. IInv => TypeOK
  BY DEF IInv
<1>2. QED
  BY <1>1, Inductive, PTL

(***************************************************************************)
(* The handshake, for any mesh and traffic and any order of the processes: *)
(* what a router pops is what its neighbour has taken.                     *)
(***************************************************************************)
THEOREM HandshakeCorrect == Spec => []Handshake
<1>1. IInv => Handshake
  BY DEF IInv, Good, Handshake
<1>2. QED
  BY <1>1, Inductive, PTL

\* Flits take the XY route, which never leads out of the mesh.
THEOREM RouteCorrect == Spec => []OnRoute
<1>1. IInv => OnRoute
  <2>1. SUFFICES ASSUME IInv, NEW l \in Links, NEW i \in 1 .. Len(link[l].buffer),
                        l[2] # Terminal
                 PROVE  /\ ComputeRoute(l[1], link[l].buffer[i]) = l[2]
                        /\ l \notin Rim
    BY DEF OnRoute
  <2>2. link[l].buffer \in Seq(On(l))
    BY <2>1 DEF IInv, Good
  <2>3. link[l].buffer[i] \in On(l)
    BY <2>2
  <2>4. l[1] \in Node /\ l = <<l[1], l[2]>>
    BY DEF Links
  <2>5. QED
    BY <2>1, <2>3, <2>4, RouteInside DEF On
<1>2. QED
  BY <1>1, Inductive, PTL

-----------------------------------------------------------------------------
(***************************************************************************)
(* No flit is lost.  A flit leaves the queue it waits in when it is taken, *)
(* and in the same cycle it enters the next one, or has arrived.           *)
(***************************************************************************)
WaitsAt(r) == IF r.ack THEN Tail(r.buffer) ELSE r.buffer

Somewhere(links, arrived, f) ==
  \/ \E l \in Links : Contains(WaitsAt(links[l]), f)
  \/ Contains(arrived[f.dest], f)

LEMMA ContainsConcat ==
  ASSUME NEW T, NEW q \in Seq(T), NEW r \in Seq(T), NEW x
  PROVE  Contains(q \o r, x) <=> Contains(q, x) \/ Contains(r, x)
<1>1. /\ Len(q \o r) = Len(q) + Len(r) /\ Len(q) \in Nat /\ Len(r) \in Nat
      /\ \A i \in 1 .. Len(q) : (q \o r)[i] = q[i]
      /\ \A i \in 1 .. Len(r) : (q \o r)[Len(q) + i] = r[i]
  OBVIOUS
<1>2. ASSUME Contains(q, x) PROVE Contains(q \o r, x)
  BY <1>1, <1>2 DEF Contains
<1>3. ASSUME Contains(r, x) PROVE Contains(q \o r, x)
  <2>1. PICK i \in 1 .. Len(r) : r[i] = x
    BY <1>3 DEF Contains
  <2>2. Len(q) + i \in 1 .. Len(q \o r) /\ (q \o r)[Len(q) + i] = x
    BY <1>1, <2>1
  <2>3. QED
    BY <2>2 DEF Contains
<1>4. ASSUME Contains(q \o r, x) PROVE Contains(q, x) \/ Contains(r, x)
  <2>1. PICK i \in 1 .. Len(q \o r) : (q \o r)[i] = x
    BY <1>4 DEF Contains
  <2>2. CASE i \in 1 .. Len(q)
    BY <1>1, <2>1, <2>2 DEF Contains
  <2>3. CASE i \notin 1 .. Len(q)
    <3>1. i - Len(q) \in 1 .. Len(r) /\ i = Len(q) + (i - Len(q))
      BY <1>1, <2>3
    <3>2. r[i - Len(q)] = x
      BY <1>1, <2>1, <3>1
    <3>3. QED
      BY <3>1, <3>2 DEF Contains
  <2>4. QED
    BY <2>2, <2>3
<1>5. QED
  BY <1>2, <1>3, <1>4

LEMMA ContainsTail ==
  ASSUME NEW T, NEW q \in Seq(T), NEW r \in Seq(T), q # <<>>, NEW x
  PROVE  /\ Tail(q) \in Seq(T)
         /\ Tail(q \o r) = Tail(q) \o r
         /\ Contains(q, x) => x = Head(q) \/ Contains(Tail(q), x)
<1>1. Tail(q) \in Seq(T) /\ Tail(q \o r) = Tail(q) \o r
  OBVIOUS
<1>2. ASSUME Contains(q, x), x # Head(q) PROVE Contains(Tail(q), x)
  <2>1. PICK i \in 1 .. Len(q) : q[i] = x
    BY <1>2 DEF Contains
  <2>2. i # 1
    BY <1>2, <2>1
  <2>3. i - 1 \in 1 .. Len(Tail(q)) /\ Tail(q)[i - 1] = x
    BY <2>1, <2>2
  <2>4. QED
    BY <2>3 DEF Contains
<1>3. QED
  BY <1>1, <1>2

\* The same of queues of flits.
LEMMA JoinHolds ==
  ASSUME NEW q \in Seq(Flits), NEW r \in Seq(Flits), NEW f
  PROVE  Contains(q \o r, f) <=> Contains(q, f) \/ Contains(r, f)
BY ContainsConcat

LEMMA AppendHolds ==
  ASSUME NEW q \in Seq(Flits), NEW f \in Flits, NEW g
  PROVE  Contains(Append(q, f), g) <=> Contains(q, g) \/ g = f
<1> DEFINE r == <<f>>
<1>1. Append(q, f) = q \o r /\ r \in Seq(Flits)
  OBVIOUS
<1>2. Contains(r, g) <=> g = f
  BY DEF Contains
<1> HIDE DEF r
<1>3. QED
  BY <1>1, <1>2, JoinHolds

LEMMA TailHolds ==
  ASSUME NEW q \in Seq(Flits), NEW r \in Seq(Flits), q # <<>>, NEW f
  PROVE  /\ Tail(q) \in Seq(Flits)
         /\ Tail(q \o r) = Tail(q) \o r
         /\ Contains(q, f) => f = Head(q) \/ Contains(Tail(q), f)
BY ContainsTail

\* What waits at a link after a clock edge.
Kept(l) ==
  IF link[l].ack \/ Taken(l) THEN Tail(link[l].buffer) ELSE link[l].buffer

LEMMA WaitingAfterClock ==
  ASSUME IInv, NEW early \in SUBSET Node, Clock(early), NEW l \in Links
  PROVE  /\ Kept(l) \in Seq(Flits)
         /\ Arrivals(l[1], l[2]) \in Seq(Flits)
         /\ WaitsAt(link'[l]) = Kept(l) \o Arrivals(l[1], l[2])
<1> DEFINE e == l[1] \in early
           s == Switched(l, e)
           q == link[l].buffer
           a == Arrivals(l[1], l[2])
<1>1. l[1] \in Node /\ l[2] \in N .. Terminal /\ l = <<l[1], l[2]>> /\ e \in BOOLEAN
  BY DEF Links
<1>2. a \in Seq(On(l)) /\ a \in Seq(Flits)
  BY <1>1, ArrivalsOnRoute DEF On
<1>3. Good(l)
  BY DEF IInv
<1>4. link'[l] = s /\ q \in Seq(Flits)
  BY DEF IInv, Clock, TypeOK
<1>5. /\ ~ (link[l].req /\ link[l].ack)
      /\ link[l].req \/ link[l].ack => q # <<>>
      /\ Taken(l) => link[l].req
  BY <1>3 DEF Good, Taken
<1>6. q # <<>> => Tail(q) \in Seq(Flits) /\ Tail(q \o a) = Tail(q) \o a
  BY <1>2, <1>4, TailHolds
<1>7. a \in Seq(On(l))
  BY <1>2
<1> HIDE DEF a, e
<1>8. /\ s.ack = Taken(l)
      /\ link[l].ack => s.buffer = Tail(q \o a) /\ ~ s.ack
      /\ ~ link[l].ack => s.buffer = q \o a
  BY <1>1, <1>7, <1>3, SwitchedBuffer DEF a
<1>9. WaitsAt(link'[l]) = IF s.ack THEN Tail(s.buffer) ELSE s.buffer
  BY <1>4 DEF WaitsAt
<1> HIDE DEF s, q
<1>10. Kept(l) = IF link[l].ack \/ Taken(l) THEN Tail(q) ELSE q
  BY DEF Kept, q
<1>11. Kept(l) \in Seq(Flits)
  BY <1>4, <1>5, <1>6, <1>10
<1>12. WaitsAt(link'[l]) = Kept(l) \o a
  <2>1. CASE link[l].ack
    BY <1>5, <1>6, <1>8, <1>9, <1>10, <2>1
  <2>2. CASE ~ link[l].ack /\ Taken(l)
    BY <1>5, <1>6, <1>8, <1>9, <1>10, <2>2
  <2>3. CASE ~ link[l].ack /\ ~ Taken(l)
    BY <1>8, <1>9, <1>10, <2>3
  <2>4. QED
    BY <2>1, <2>2, <2>3
<1>13. QED
  BY <1>2, <1>11, <1>12 DEF a

\* A link inside the mesh leads to an input of a router.
LEMMA Receiver ==
  ASSUME NEW l \in Links, l \notin Rim, l[2] # Local
  PROVE  \E m \in Node : \E i \in N .. Local : Into(m, i) = {l}
<1> DEFINE n == l[1]
<1>1. n \in Node /\ l[2] \in N .. Terminal /\ l = <<n, l[2]>>
  BY DEF Links
<1>2. /\ n \in Nat /\ X(n) \in 0 .. Columns - 1 /\ Y(n) \in 0 .. Rows - 1
      /\ n = 4 * Y(n) + X(n) /\ Columns \in 1 .. 4 /\ Rows \in Nat
  BY <1>1, Coordinates, MeshSize
<1>3. /\ l[2] = N => Y(n) # 0
      /\ l[2] = S => Y(n) # Rows - 1
      /\ l[2] = E => X(n) # Columns - 1
      /\ l[2] = W => X(n) # 0
  BY DEF Rim
<1> HIDE DEF n
<1>4. CASE l[2] = N
  <2>1. Y(n) - 1 \in 0 .. Rows - 1 /\ n - 4 = 4 * (Y(n) - 1) + X(n)
    BY <1>2, <1>3, <1>4
  <2>2. n - 4 \in Node
    BY <1>2, <2>1, NodeAt
  <2>3. Y(n - 4) = Y(n) - 1
    BY <1>2, <2>1 DEF Y
  <2>4. Into(n - 4, S) = {<<n - 4 + 4, N>>}
    BY <1>2, <2>1, <2>3 DEF Into, N, E, S, W, Local
  <2>5. QED
    BY <1>1, <1>2, <1>4, <2>2, <2>4 DEF N, S, Local
<1>5. CASE l[2] = S
  <2>1. Y(n) + 1 \in 0 .. Rows - 1 /\ n + 4 = 4 * (Y(n) + 1) + X(n)
    BY <1>2, <1>3, <1>5
  <2>2. n + 4 \in Node
    BY <1>2, <2>1, NodeAt
  <2>3. Y(n + 4) = Y(n) + 1
    BY <1>2, <2>1 DEF Y
  <2>4. Into(n + 4, N) = {<<n + 4 - 4, S>>}
    BY <1>2, <2>1, <2>3 DEF Into, N, E, S, W, Local
  <2>5. QED
    BY <1>1, <1>2, <1>5, <2>2, <2>4 DEF N, S, Local
<1>6. CASE l[2] = E
  <2>1. X(n) + 1 \in 0 .. Columns - 1 /\ n + 1 = 4 * Y(n) + (X(n) + 1)
    BY <1>2, <1>3, <1>6
  <2>2. n + 1 \in Node
    BY <1>2, <2>1, NodeAt
  <2>3. X(n + 1) = X(n) + 1
    BY <1>2, <2>1 DEF X
  <2>4. Into(n + 1, W) = {<<n + 1 - 1, E>>}
    BY <1>2, <2>1, <2>3 DEF Into, N, E, S, W, Local
  <2>5. QED
    BY <1>1, <1>2, <1>6, <2>2, <2>4 DEF N, W, Local
<1>7. CASE l[2] = W
  <2>1. X(n) - 1 \in 0 .. Columns - 1 /\ n - 1 = 4 * Y(n) + (X(n) - 1)
    BY <1>2, <1>3, <1>7
  <2>2. n - 1 \in Node
    BY <1>2, <2>1, NodeAt
  <2>3. X(n - 1) = X(n) - 1
    BY <1>2, <2>1 DEF X
  <2>4. Into(n - 1, E) = {<<n - 1 + 1, W>>}
    BY <1>2, <2>1, <2>3 DEF Into, N, E, S, W, Local
  <2>5. QED
    BY <1>1, <1>2, <1>7, <2>2, <2>4 DEF N, E, Local
<1>8. CASE l[2] = Terminal
  <2>1. Into(n, Local) = {<<n, Terminal>>}
    BY DEF Into, N, E, S, W, Local
  <2>2. QED
    BY <1>1, <1>8, <2>1 DEF N, Local
<1>9. QED
  BY <1>1, <1>4, <1>5, <1>6, <1>7, <1>8 DEF N, E, S, W, Local, Terminal

\* A router passes on what it takes, to the output that the route says.
LEMMA PassedOn ==
  ASSUME IInv, NEW l \in Links, Taken(l), NEW m \in Node, NEW i \in N .. Local,
         Into(m, i) = {l}
  PROVE  LET d == ComputeRoute(m, link[l].flit)
         IN  /\ <<m, d>> \in Links
             /\ Contains(Arrivals(m, d), link[l].flit)
<1> DEFINE f == link[l].flit
           d == ComputeRoute(m, f)
           at(j) == IF \E k \in Into(m, j) :
                         Taken(k) /\ ComputeRoute(m, link[k].flit) = d
                    THEN <<link[CHOOSE k \in Into(m, j) : TRUE].flit>>
                    ELSE <<>>
<1>1. f \in Flits
  BY TakenFlit DEF IInv
<1>2. d \in N .. Local
  BY <1>1, RouteInside
<1>3. <<m, d>> \in Links /\ d # Terminal
  BY <1>2 DEF Links, N, Local, Terminal
<1>4. Arrivals(m, d) = at(N) \o at(E) \o at(S) \o at(W) \o at(Local)
  BY <1>3 DEF Arrivals
<1>5. at(i) = <<f>>
  <2>1. (CHOOSE k \in Into(m, i) : TRUE) = l
    OBVIOUS
  <2>2. QED
    BY <2>1
<1>6. ASSUME NEW j \in N .. Local PROVE at(j) \in Seq(Flits)
  <2>1. CASE \E k \in Into(m, j) : Taken(k) /\ ComputeRoute(m, link[k].flit) = d
    <3>1. PICK k \in Into(m, j) : Taken(k)
      BY <2>1
    <3>2. k \in Links /\ Into(m, j) = {k}
      BY <1>6, IntoLinks
    <3>3. (CHOOSE h \in Into(m, j) : TRUE) = k
      BY <3>2
    <3>4. link[k].flit \in Flits
      BY <3>1, <3>2, TakenFlit DEF IInv
    <3>5. at(j) = <<link[k].flit>>
      BY <2>1, <3>3
    <3> HIDE DEF at
    <3>6. QED
      BY <3>4, <3>5
  <2>2. CASE ~ \E k \in Into(m, j) : Taken(k) /\ ComputeRoute(m, link[k].flit) = d
    <3>1. at(j) = <<>>
      BY <2>2
    <3> HIDE DEF at
    <3>2. QED
      BY <3>1
  <2>3. QED
    BY <2>1, <2>2
<1>7. {N, E, S, W, Local} \subseteq N .. Local /\ i \in {N, E, S, W, Local}
  BY DEF N, E, S, W, Local
<1> HIDE DEF at, d, f
<1>8. Contains(at(i), f)
  BY <1>5 DEF Contains
<1>9. /\ at(N) \in Seq(Flits) /\ at(E) \in Seq(Flits) /\ at(S) \in Seq(Flits)
      /\ at(W) \in Seq(Flits) /\ at(Local) \in Seq(Flits)
  BY <1>6, <1>7
<1> DEFINE q2 == at(N) \o at(E)
           q3 == q2 \o at(S)
           q4 == q3 \o at(W)
<1>10. q2 \in Seq(Flits) /\ q3 \in Seq(Flits) /\ q4 \in Seq(Flits)
  BY <1>9
<1>11. Contains(q2, f) <=> Contains(at(N), f) \/ Contains(at(E), f)
  BY <1>9, JoinHolds
<1>12. Contains(q3, f) <=> Contains(q2, f) \/ Contains(at(S), f)
  <2> HIDE DEF q2
  <2>1. QED
    BY <1>9, <1>10, JoinHolds
<1>13. Contains(q4, f) <=> Contains(q3, f) \/ Contains(at(W), f)
  <2> HIDE DEF q3
  <2>1. QED
    BY <1>9, <1>10, JoinHolds
<1>14. Contains(q4 \o at(Local), f) <=> Contains(q4, f) \/ Contains(at(Local), f)
  <2> HIDE DEF q4
  <2>1. QED
    BY <1>9, <1>10, JoinHolds
<1>15. Contains(Arrivals(m, d), f)
  <2>1. Arrivals(m, d) = q4 \o at(Local)
    BY <1>4
  <2> HIDE DEF q2, q3, q4
  <2>2. QED
    BY <1>7, <1>8, <1>11, <1>12, <1>13, <1>14, <2>1
<1>16. QED
  BY <1>3, <1>15 DEF d, f

\* The route ends at the destination only.
LEMMA LocalIsDest ==
  ASSUME NEW n \in Node, NEW f \in Flits, ComputeRoute(n, f) = Local
  PROVE  f.dest = n
<1>1. f.dest \in Node
  BY DEF Flits
<1>2. X(n) = X(f.dest) /\ Y(n) = Y(f.dest)
  <2>1. X(n) \in Int /\ Y(n) \in Int /\ X(f.dest) \in Int /\ Y(f.dest) \in Int
    BY <1>1, Coordinates
  <2>2. QED
    BY <2>1 DEF ComputeRoute, N, E, S, W, Local
<1>3. QED
  BY <1>1, <1>2, Coordinates

LEMMA ClockKeepsFlits ==
  ASSUME IInv, NEW early \in SUBSET Node, Clock(early), NEW f \in Flits, Somewhere(link, received, f)
  PROVE  Somewhere(link', received', f)
<1>1. /\ f.dest \in Node /\ received[f.dest] \in Seq(Flits)
      /\ received'[f.dest] = IF Taken(<<f.dest, Local>>)
                             THEN Append(received[f.dest], link[<<f.dest, Local>>].flit)
                             ELSE received[f.dest]
  BY DEF IInv, TypeOK, Flits, Clock
<1>2. CASE Contains(received[f.dest], f)
  <2>1. Contains(received'[f.dest], f)
    BY <1>1, <1>2 DEF Contains
  <2>2. QED
    BY <2>1 DEF Somewhere
<1>3. ASSUME NEW l \in Links, Contains(WaitsAt(link[l]), f) PROVE Somewhere(link', received', f)
  <2>1. /\ Good(l) /\ link[l].buffer \in Seq(Flits)
        /\ l[1] \in Node /\ l = <<l[1], l[2]>>
    BY <1>3 DEF IInv, TypeOK, Links
  <2>2. CASE Contains(Kept(l), f)
    <3>1. /\ Kept(l) \in Seq(Flits) /\ Arrivals(l[1], l[2]) \in Seq(Flits)
          /\ WaitsAt(link'[l]) = Kept(l) \o Arrivals(l[1], l[2])
      BY <1>3, WaitingAfterClock
    <3>2. Contains(WaitsAt(link'[l]), f)
      BY <2>2, <3>1, JoinHolds
    <3>3. QED
      BY <1>3, <3>2 DEF Somewhere
  <2>3. CASE ~ Contains(Kept(l), f)
    <3>1. Taken(l) /\ ~ link[l].ack
      BY <1>3, <2>3 DEF Kept, WaitsAt
    <3>2. link[l].buffer # <<>> /\ link[l].flit = Head(link[l].buffer)
      BY <2>1, <3>1 DEF Good, Taken
    <3>3. f = link[l].flit
      <4>1. Contains(link[l].buffer, f) /\ ~ Contains(Tail(link[l].buffer), f)
        BY <1>3, <2>3, <3>1 DEF Kept, WaitsAt
      <4>2. QED
        BY <2>1, <3>2, <4>1, TailHolds
    <3>4. l \notin Rim
      BY <3>1 DEF Taken
    <3>5. CASE l[2] = Local
      <4>1. link[l].buffer \in Seq(On(l))
        BY <2>1 DEF Good
      <4>2. f \in On(l)
        BY <3>2, <3>3, <4>1, Queues
      <4>3. ComputeRoute(l[1], f) = Local
        BY <3>5, <4>2 DEF On, Local, Terminal
      <4>4. l = <<f.dest, Local>>
        BY <2>1, <3>5, <4>3, LocalIsDest
      <4>5. received'[f.dest] = Append(received[f.dest], f)
        BY <1>1, <3>1, <3>3, <4>4
      <4>6. Contains(Append(received[f.dest], f), f)
        BY <1>1, AppendHolds
      <4>7. QED
        BY <4>5, <4>6 DEF Somewhere
    <3>6. CASE l[2] # Local
      <4>1. PICK m \in Node : \E i \in N .. Local : Into(m, i) = {l}
        BY <1>3, <3>4, <3>6, Receiver
      <4>2. PICK i \in N .. Local : Into(m, i) = {l}
        BY <4>1
      <4> DEFINE k == <<m, ComputeRoute(m, f)>>
      <4>3. k \in Links /\ Contains(Arrivals(k[1], k[2]), f)
        BY <1>3, <3>1, <3>3, <4>2, PassedOn
      <4> HIDE DEF k
      <4>4. /\ Kept(k) \in Seq(Flits) /\ Arrivals(k[1], k[2]) \in Seq(Flits)
            /\ WaitsAt(link'[k]) = Kept(k) \o Arrivals(k[1], k[2])
        BY <4>3, WaitingAfterClock
      <4>5. Contains(WaitsAt(link'[k]), f)
        BY <4>3, <4>4, JoinHolds
      <4>6. QED
        BY <4>3, <4>5 DEF Somewhere
    <3>7. QED
      BY <3>5, <3>6
  <2>4. QED
    BY <2>2, <2>3
<1>4. QED
  BY <1>2, <1>3 DEF Somewhere

LEMMA GenerateKeepsFlits ==
  ASSUME IInv, NEW p \in Packets, NEW src \in Node, NEW dest \in Node,
         NEW length \in Nat, Generate(p, src, dest, length), NEW f \in Flits
  PROVE  /\ Somewhere(link, received, f) => Somewhere(link', received', f)
         /\ Contains(FlitsOf(p, src, dest, length), f) => Somewhere(link', received', f)
<1> DEFINE flits == FlitsOf(p, src, dest, length)
           t == <<src, Terminal>>
           q == link[t].buffer
<1>1. flits \in Seq(Flits)
  BY FlitsTyped
<1>2. t \in Links
  BY DEF Links, N, Terminal
<1>3. /\ link' = [link EXCEPT ![t].buffer = @ \o flits]
      /\ received' = received
  BY DEF Generate
<1> HIDE DEF flits, t
<1>4. /\ q \in Seq(Flits) /\ link[t].ack => q # <<>>
  BY <1>2 DEF IInv, TypeOK, Good
<1>5. /\ link'[t] = [link[t] EXCEPT !.buffer = q \o flits]
      /\ \A l \in Links \ {t} : link'[l] = link[l]
      /\ link'[t].buffer = q \o flits /\ link'[t].ack = link[t].ack
  BY <1>2, <1>3 DEF IInv, TypeOK
<1> HIDE DEF q
<1>6. WaitsAt(link[t]) \in Seq(Flits) /\ WaitsAt(link'[t]) = WaitsAt(link[t]) \o flits
  <2>1. CASE link[t].ack
    <3>1. q \in Seq(Flits) /\ q # <<>>
      BY <1>2, <2>1 DEF IInv, TypeOK, Good, q
    <3>2. WaitsAt(link[t]) = Tail(q) /\ WaitsAt(link'[t]) = Tail(q \o flits)
      BY <1>5, <2>1 DEF WaitsAt, q
    <3>3. QED
      BY <1>1, <3>1, <3>2, TailHolds
  <2>2. CASE ~ link[t].ack
    <3>1. q \in Seq(Flits)
      BY <1>2 DEF IInv, TypeOK, q
    <3>2. WaitsAt(link[t]) = q /\ WaitsAt(link'[t]) = q \o flits
      BY <1>5, <2>2 DEF WaitsAt, q
    <3>3. QED
      BY <3>1, <3>2
  <2>3. QED
    BY <2>1, <2>2
<1>7. Contains(WaitsAt(link'[t]), f) <=>
         Contains(WaitsAt(link[t]), f) \/ Contains(flits, f)
  BY <1>1, <1>6, JoinHolds
<1>8. Contains(flits, f) => Somewhere(link', received', f)
  BY <1>2, <1>7 DEF Somewhere
<1>9. ASSUME Somewhere(link, received, f) PROVE Somewhere(link', received', f)
  <2>1. CASE Contains(received[f.dest], f)
    BY <1>3, <2>1 DEF Somewhere
  <2>2. ASSUME NEW l \in Links, Contains(WaitsAt(link[l]), f) PROVE Somewhere(link', received', f)
    <3>1. CASE l = t
      BY <1>2, <1>7, <2>2, <3>1 DEF Somewhere
    <3>2. CASE l # t
      <4>1. WaitsAt(link'[l]) = WaitsAt(link[l])
        BY <1>5, <2>2, <3>2 DEF WaitsAt
      <4>2. QED
        BY <2>2, <4>1 DEF Somewhere
    <3>3. QED
      BY <3>1, <3>2
  <2>3. QED
    BY <1>9, <2>1, <2>2 DEF Somewhere
<1>10. QED
  BY <1>8, <1>9 DEF flits

(***************************************************************************)
(* In a mesh of any size and under any traffic, every flit a terminal was  *)
(* given waits in a buffer of the mesh or has arrived at its destination:  *)
(* the first part of FlitsExactlyOnce.                                     *)
(***************************************************************************)
THEOREM NothingLost == Spec => []NoFlitLost
<1>1. Init => NoFlitLost
  BY DEF Init, NoFlitLost
<1>2. IInv /\ NoFlitLost /\ [Next]_vars => NoFlitLost'
  <2>1. SUFFICES ASSUME IInv, NoFlitLost, [Next]_vars PROVE NoFlitLost'
    OBVIOUS
  <2>2. \A n \in Node : \A k \in 1 .. Len(sent[n]) : Somewhere(link, received, sent[n][k])
    BY <2>1 DEF NoFlitLost, Somewhere, Waiting, WaitsAt
  <2>3. \A n \in Node : \A k \in 1 .. Len(sent[n]) : sent[n][k] \in Flits
    BY <2>1 DEF IInv, TypeOK
  <2>4. SUFFICES ASSUME NEW n \in Node, NEW k \in 1 .. Len(sent'[n])
                 PROVE  Somewhere(link', received', sent'[n][k])
    BY DEF NoFlitLost, Somewhere, Waiting, WaitsAt
  <2>5. CASE \E p \in Packets : \E t \in Traffic[p] : Generate(p, t[1], t[2], t[3])
    <3>1. PICK p \in Packets : \E t \in Traffic[p] : Generate(p, t[1], t[2], t[3])
      BY <2>5
    <3>2. PICK t \in Traffic[p] : Generate(p, t[1], t[2], t[3])
      BY <3>1
    <3>3. t[1] \in Node /\ t[2] \in Node /\ t[3] \in Nat
      BY TrafficInMesh
    <3> DEFINE flits == FlitsOf(p, t[1], t[2], t[3])
    <3>4. flits \in Seq(Flits)
      BY <3>3, FlitsTyped
    <3>5. sent[n] \in Seq(Flits)
      BY <2>1 DEF IInv, TypeOK
    <3>6. sent'[n] = IF n = t[1] THEN sent[n] \o flits ELSE sent[n]
      BY <2>1, <3>2 DEF Generate, IInv, TypeOK
    <3> HIDE DEF flits
    <3>7. CASE n = t[1] /\ k \notin 1 .. Len(sent[n])
      <4>1. k - Len(sent[n]) \in 1 .. Len(flits)
            /\ sent'[n][k] = flits[k - Len(sent[n])]
        BY <2>4, <3>4, <3>5, <3>6, <3>7
      <4>2. Contains(flits, sent'[n][k]) /\ sent'[n][k] \in Flits
        BY <3>4, <4>1 DEF Contains
      <4>3. QED
        BY <2>1, <3>2, <3>3, <4>2, GenerateKeepsFlits DEF flits
    <3>8. CASE k \in 1 .. Len(sent[n])
      <4>1. sent'[n][k] = sent[n][k]
        BY <3>4, <3>5, <3>6, <3>8
      <4>2. QED
        BY <2>1, <2>2, <2>3, <3>2, <3>3, <3>8, <4>1, GenerateKeepsFlits
    <3>9. QED
      BY <2>4, <3>6, <3>7, <3>8
  <2>6. CASE Tick
    <3>1. PICK early \in SUBSET Races : Clock(early)
      BY <2>6 DEF Tick
    <3>2. early \in SUBSET Node
      BY DEF Races
    <3>3. sent' = sent
      BY <3>1 DEF Clock
    <3>4. QED
      BY <2>1, <2>2, <2>3, <2>4, <3>1, <3>2, <3>3, ClockKeepsFlits
  <2>7. CASE UNCHANGED vars
    BY <2>2, <2>4, <2>7 DEF vars, Somewhere, WaitsAt
  <2>8. QED
    BY <2>1, <2>5, <2>6, <2>7 DEF Next
<1>3. QED
  BY <1>1, <1>2, Inductive, PTL DEF Spec

-------------------------------------------------------------------------------
\* The order of flits.
Between(a, b, c) == (a <= b /\ b <= c) \/ (c <= b /\ b <= a)

\* Router n is on the XY route of flit f.
OnRow(n, f) == Y(n) = Y(f.src) /\ Between(X(f.src), X(n), X(f.dest))
OnColumn(n, f) == X(n) = X(f.dest) /\ Between(Y(f.src), Y(n), Y(f.dest))

\* Place z is on the way of flit f, from its terminal to its destination.
OnWay(z, f) ==
  /\ z[2] = Home => z[1] = f.dest
  /\ z[2] = Terminal => z[1] = f.src
  /\ z[2] \in N .. Local =>
       /\ OnRow(z[1], f) \/ OnColumn(z[1], f)
       /\ ComputeRoute(z[1], f) = z[2]

Gap(a, b) == IF a < b THEN b - a ELSE a - b
Distance(n, m) == Gap(X(n), X(m)) + Gap(Y(n), Y(m))

\* The number of places a flit at z has still to pass on the way to dest.
Hops(z, dest) ==
  IF z[2] = Home THEN 0
  ELSE Distance(z[1], dest) + (IF z[2] = Terminal THEN 2 ELSE 1)

\* The router at the other end of link l, and the place a flit f goes to there.
NextRouter(l) ==
  CASE l[2] = N -> l[1] - 4
    [] l[2] = S -> l[1] + 4
    [] l[2] = E -> l[1] + 1
    [] l[2] = W -> l[1] - 1
    [] OTHER -> l[1]
NextPlace(l, f) ==
  IF l[2] = Local THEN <<l[1], Home>>
  ELSE <<NextRouter(l), ComputeRoute(NextRouter(l), f)>>

-----------------------------------------------------------------------------
\* The coordinates of a neighbour.
LEMMA Neighbour ==
  ASSUME NEW l \in Links, l \notin Rim, l[2] \in N .. W
  PROVE  /\ NextRouter(l) \in Node
         /\ X(NextRouter(l)) = CASE l[2] = E -> X(l[1]) + 1
                                 [] l[2] = W -> X(l[1]) - 1
                                 [] OTHER -> X(l[1])
         /\ Y(NextRouter(l)) = CASE l[2] = S -> Y(l[1]) + 1
                                 [] l[2] = N -> Y(l[1]) - 1
                                 [] OTHER -> Y(l[1])
<1> DEFINE n == l[1]
           d == l[2]
<1>1. n \in Node /\ d \in N .. W
  BY DEF Links
<1>2. /\ n \in Nat /\ X(n) \in 0 .. Columns - 1 /\ Y(n) \in 0 .. Rows - 1
      /\ n = 4 * Y(n) + X(n) /\ Columns \in 1 .. 4 /\ Rows \in Nat
  BY <1>1, Coordinates, MeshSize
<1>3. /\ d = N => Y(n) # 0
      /\ d = S => Y(n) # Rows - 1
      /\ d = E => X(n) # Columns - 1
      /\ d = W => X(n) # 0
  BY DEF Rim
<1>4. ASSUME NEW x \in 0 .. Columns - 1, NEW y \in 0 .. Rows - 1
      PROVE  4 * y + x \in Node /\ X(4 * y + x) = x /\ Y(4 * y + x) = y
  <2>1. x \in 0 .. 3 /\ y \in Nat
    BY <1>2
  <2>2. (4 * y + x) % 4 = x /\ (4 * y + x) \div 4 = y
    BY <2>1
  <2>3. QED
    BY <2>2, NodeAt DEF X, Y
<1>5. NextRouter(l) = CASE d = N -> n - 4 [] d = S -> n + 4
                        [] d = E -> n + 1 [] d = W -> n - 1 [] OTHER -> n
  BY DEF NextRouter
<1> HIDE DEF n, d
<1>6. CASE d = N
  <2>1. Y(n) - 1 \in 0 .. Rows - 1 /\ n - 4 = 4 * (Y(n) - 1) + X(n)
    BY <1>2, <1>3, <1>6
  <2>2. n - 4 \in Node /\ X(n - 4) = X(n) /\ Y(n - 4) = Y(n) - 1
    BY <1>2, <1>4, <2>1
  <2>3. NextRouter(l) = n - 4
    BY <1>5, <1>6 DEF N, E, S, W
  <2>4. QED
    BY <1>6, <2>2, <2>3 DEF n, d, N, E, S, W
<1>7. CASE d = S
  <2>1. Y(n) + 1 \in 0 .. Rows - 1 /\ n + 4 = 4 * (Y(n) + 1) + X(n)
    BY <1>2, <1>3, <1>7
  <2>2. n + 4 \in Node /\ X(n + 4) = X(n) /\ Y(n + 4) = Y(n) + 1
    BY <1>2, <1>4, <2>1
  <2>3. NextRouter(l) = n + 4
    BY <1>5, <1>7 DEF N, E, S, W
  <2>4. QED
    BY <1>7, <2>2, <2>3 DEF n, d, N, E, S, W
<1>8. CASE d = E
  <2>1. X(n) + 1 \in 0 .. Columns - 1 /\ n + 1 = 4 * Y(n) + (X(n) + 1)
    BY <1>2, <1>3, <1>8
  <2>2. n + 1 \in Node /\ X(n + 1) = X(n) + 1 /\ Y(n + 1) = Y(n)
    BY <1>2, <1>4, <2>1
  <2>3. NextRouter(l) = n + 1
    BY <1>5, <1>8 DEF N, E, S, W
  <2>4. QED
    BY <1>8, <2>2, <2>3 DEF n, d, N, E, S, W
<1>9. CASE d = W
  <2>1. X(n) - 1 \in 0 .. Columns - 1 /\ n - 1 = 4 * Y(n) + (X(n) - 1)
    BY <1>2, <1>3, <1>9
  <2>2. n - 1 \in Node /\ X(n - 1) = X(n) - 1 /\ Y(n - 1) = Y(n)
    BY <1>2, <1>4, <2>1
  <2>3. NextRouter(l) = n - 1
    BY <1>5, <1>9 DEF N, E, S, W
  <2>4. QED
    BY <1>9, <2>2, <2>3 DEF n, d, N, E, S, W
<1>10. QED
  BY <1>1, <1>6, <1>7, <1>8, <1>9 DEF N, E, S, W

\* Where the coordinates of a flit lie.
LEMMA FlitNodes ==
  ASSUME NEW f \in Flits, NEW n \in Node
  PROVE  /\ f.src \in Node /\ f.dest \in Node
         /\ X(n) \in Int /\ Y(n) \in Int
         /\ X(f.src) \in Int /\ Y(f.src) \in Int
         /\ X(f.dest) \in Int /\ Y(f.dest) \in Int
<1>1. f.src \in Node /\ f.dest \in Node
  BY DEF Flits
<1>2. QED
  BY <1>1, Coordinates

\* What the route is, by the coordinates.
LEMMA RouteIs ==
  ASSUME NEW f \in Flits, NEW n \in Node
  PROVE  /\ X(n) < X(f.dest) => ComputeRoute(n, f) = E
         /\ X(n) > X(f.dest) => ComputeRoute(n, f) = W
         /\ X(n) = X(f.dest) =>
              /\ Y(n) < Y(f.dest) => ComputeRoute(n, f) = S
              /\ Y(n) > Y(f.dest) => ComputeRoute(n, f) = N
              /\ Y(n) = Y(f.dest) => ComputeRoute(n, f) = Local
BY FlitNodes DEF ComputeRoute

(***************************************************************************)
(* A flit that a neighbour takes stays on its way, one place further.      *)
(***************************************************************************)
LEMMA OneHop ==
  ASSUME NEW f \in Flits, NEW l \in Links, l \notin Rim, l[2] # Local, OnWay(l, f)
  PROVE  /\ NextPlace(l, f) \in Links
         /\ OnWay(NextPlace(l, f), f)
         /\ Hops(NextPlace(l, f), f.dest) = Hops(l, f.dest) - 1
<1> DEFINE n == l[1]
           m == NextRouter(l)
           d == ComputeRoute(m, f)
<1>1. n \in Node /\ l[2] \in N .. Terminal /\ l = <<n, l[2]>>
  BY DEF Links
<1>2. /\ m \in Node
      /\ OnRow(m, f) \/ OnColumn(m, f)
      /\ Distance(m, f.dest) = Distance(n, f.dest) - (IF l[2] = Terminal THEN 0 ELSE 1)
  <2>1. CASE l[2] = Terminal
    <3>1. m = n /\ n = f.src
      BY <2>1 DEF NextRouter, OnWay, N, E, S, W, Terminal, Home
    <3>2. OnRow(n, f)
      BY <1>1, <3>1, FlitNodes DEF OnRow, Between
    <3>3. Distance(n, f.dest) \in Int
      BY <1>1, FlitNodes DEF Distance, Gap
    <3>4. QED
      BY <1>1, <2>1, <3>1, <3>2, <3>3
  <2>2. CASE l[2] \in N .. W
    <3>1. /\ OnRow(n, f) \/ OnColumn(n, f)
          /\ ComputeRoute(n, f) = l[2]
      BY <2>2 DEF OnWay, N, W, Local
    <3>2. /\ m \in Node
          /\ X(m) = CASE l[2] = E -> X(n) + 1 [] l[2] = W -> X(n) - 1 [] OTHER -> X(n)
          /\ Y(m) = CASE l[2] = S -> Y(n) + 1 [] l[2] = N -> Y(n) - 1 [] OTHER -> Y(n)
      BY <2>2, Neighbour
    <3>3. /\ X(n) \in Int /\ Y(n) \in Int
          /\ X(f.src) \in Int /\ Y(f.src) \in Int
          /\ X(f.dest) \in Int /\ Y(f.dest) \in Int
      BY <1>1, FlitNodes
    <3>4. l[2] # Terminal /\ l[2] # Local
      BY <2>2 DEF N, W, Local, Terminal
    <3> HIDE DEF n, m
    <3>5. CASE X(n) < X(f.dest)
      <4>1. l[2] = E
        BY <1>1, <3>1, <3>5, RouteIs DEF n
      <4>2. X(m) = X(n) + 1 /\ Y(m) = Y(n)
        BY <3>2, <4>1 DEF N, E, S, W
      <4>3. Distance(m, f.dest) = Distance(n, f.dest) - 1
        BY <3>3, <3>5, <4>2 DEF Distance, Gap
      <4>4. OnRow(m, f)
        BY <3>1, <3>3, <3>5, <4>2 DEF OnRow, OnColumn, Between
      <4>5. QED
        BY <3>2, <3>4, <4>3, <4>4
    <3>6. CASE X(n) > X(f.dest)
      <4>1. l[2] = W
        BY <1>1, <3>1, <3>6, RouteIs DEF n
      <4>2. X(m) = X(n) - 1 /\ Y(m) = Y(n)
        BY <3>2, <4>1 DEF N, E, S, W
      <4>3. Distance(m, f.dest) = Distance(n, f.dest) - 1
        BY <3>3, <3>6, <4>2 DEF Distance, Gap
      <4>4. OnRow(m, f)
        BY <3>1, <3>3, <3>6, <4>2 DEF OnRow, OnColumn, Between
      <4>5. QED
        BY <3>2, <3>4, <4>3, <4>4
    <3>7. CASE X(n) = X(f.dest) /\ Y(n) < Y(f.dest)
      <4>1. l[2] = S
        BY <1>1, <3>1, <3>7, RouteIs DEF n
      <4>2. X(m) = X(n) /\ Y(m) = Y(n) + 1
        BY <3>2, <4>1 DEF N, E, S, W
      <4>3. Distance(m, f.dest) = Distance(n, f.dest) - 1
        BY <3>3, <3>7, <4>2 DEF Distance, Gap
      <4>4. OnColumn(m, f)
        BY <3>1, <3>3, <3>7, <4>2 DEF OnRow, OnColumn, Between
      <4>5. QED
        BY <3>2, <3>4, <4>3, <4>4
    <3>8. CASE X(n) = X(f.dest) /\ Y(n) > Y(f.dest)
      <4>1. l[2] = N
        BY <1>1, <3>1, <3>8, RouteIs DEF n
      <4>2. X(m) = X(n) /\ Y(m) = Y(n) - 1
        BY <3>2, <4>1 DEF N, E, S, W
      <4>3. Distance(m, f.dest) = Distance(n, f.dest) - 1
        BY <3>3, <3>8, <4>2 DEF Distance, Gap
      <4>4. OnColumn(m, f)
        BY <3>1, <3>3, <3>8, <4>2 DEF OnRow, OnColumn, Between
      <4>5. QED
        BY <3>2, <3>4, <4>3, <4>4
    <3>9. CASE X(n) = X(f.dest) /\ Y(n) = Y(f.dest)
      BY <1>1, <3>1, <3>4, <3>9, RouteIs DEF n
    <3>10. QED
      BY <3>3, <3>5, <3>6, <3>7, <3>8, <3>9
  <2>3. QED
    BY <1>1, <2>1, <2>2 DEF N, E, S, W, Local, Terminal
<1>3. d \in N .. Local
  BY <1>2, RouteInside
<1>4. NextPlace(l, f) = <<m, d>>
  BY DEF NextPlace
<1>5. d # Home /\ d # Terminal /\ <<m, d>> \in Links
  BY <1>2, <1>3 DEF Links, N, Local, Terminal, Home
<1>6. OnWay(<<m, d>>, f)
  BY <1>2, <1>5 DEF OnWay
<1>7. l[2] # Home /\ Distance(n, f.dest) \in Int
  BY <1>1, FlitNodes DEF N, Terminal, Home, Distance, Gap
<1> HIDE DEF n, m, d
<1>8. Hops(<<m, d>>, f.dest) = Hops(l, f.dest) - 1
  <2>1. Hops(<<m, d>>, f.dest) = Distance(m, f.dest) + 1
    BY <1>5 DEF Hops
  <2>2. Hops(l, f.dest) = Distance(n, f.dest) + (IF l[2] = Terminal THEN 2 ELSE 1)
    BY <1>7 DEF Hops, n
  <2>3. QED
    BY <1>2, <1>7, <2>1, <2>2
<1>9. QED
  BY <1>4, <1>5, <1>6, <1>8

\* The same of the last hop, to the destination's terminal.
LEMMA LastHop ==
  ASSUME NEW f \in Flits, NEW l \in Links, l[2] = Local, OnWay(l, f)
  PROVE  /\ NextPlace(l, f) = <<l[1], Home>>
         /\ OnWay(NextPlace(l, f), f)
         /\ Hops(NextPlace(l, f), f.dest) = Hops(l, f.dest) - 1
<1>1. l[1] \in Node
  BY DEF Links
<1>2. ComputeRoute(l[1], f) = Local
  BY DEF OnWay, N, Local
<1>3. f.dest = l[1]
  BY <1>1, <1>2, LocalIsDest
<1>4. NextPlace(l, f) = <<l[1], Home>>
  BY DEF NextPlace
<1>5. OnWay(<<l[1], Home>>, f)
  BY <1>3 DEF OnWay, N, Local, Terminal, Home
<1>6. Distance(l[1], f.dest) = 0
  BY <1>1, <1>3, Coordinates DEF Distance, Gap
<1>7. Hops(l, f.dest) = 1 /\ Hops(<<l[1], Home>>, f.dest) = 0
  BY <1>6 DEF Hops, Local, Terminal, Home
<1>8. QED
  BY <1>4, <1>5, <1>7

\* Of sums.
LEMMA Cancel ==
  ASSUME NEW a \in Int, NEW b \in Int, NEW c \in Int,
         a + c = b + c \/ c + a = c + b
  PROVE  a = b
OBVIOUS

\* On a straight way, the distance tells the place.
LEMMA Straight ==
  ASSUME NEW a \in Int, NEW b \in Int, NEW u \in Int, NEW v \in Int,
         Between(a, u, b), Between(a, v, b), Gap(u, b) = Gap(v, b)
  PROVE  u = v
BY DEF Gap, Between

\* A place on the row and one on the column are as far only at the corner.
LEMMA Corner ==
  ASSUME NEW xt \in Int, NEW ys \in Int, NEW yt \in Int, NEW x \in Int, NEW y \in Int,
         Between(ys, y, yt),
         Gap(x, xt) + Gap(ys, yt) = Gap(xt, xt) + Gap(y, yt)
  PROVE  x = xt /\ y = ys
<1>1. Gap(xt, xt) = 0 /\ Gap(x, xt) \in Nat /\ Gap(y, yt) \in Nat /\ Gap(ys, yt) \in Nat
  BY DEF Gap
<1>2. Gap(y, yt) <= Gap(ys, yt) /\ (Gap(y, yt) = Gap(ys, yt) => y = ys)
  BY DEF Gap, Between
<1>3. Gap(x, xt) = 0 => x = xt
  BY DEF Gap
<1>4. QED
  BY <1>1, <1>2, <1>3

(***************************************************************************)
(* On the way from one terminal to another, the hops tell the place.       *)
(***************************************************************************)
LEMMA HopsTell ==
  ASSUME NEW f \in Flits, NEW g \in Flits, f.src = g.src, f.dest = g.dest,
         NEW y \in Places, NEW z \in Places, OnWay(y, f), OnWay(z, g)
  PROVE  /\ Hops(y, f.dest) \in Nat
         /\ Hops(y, f.dest) = Hops(z, f.dest) => y = z
         /\ y # <<f.src, Terminal>> =>
              Hops(y, f.dest) < Hops(<<f.src, Terminal>>, f.dest)
         /\ y # <<f.dest, Home>> => Hops(y, f.dest) > 0
<1> DEFINE s == f.src
           t == f.dest
<1>1. /\ y[1] \in Node /\ y[2] \in N .. Home /\ y = <<y[1], y[2]>>
      /\ z[1] \in Node /\ z[2] \in N .. Home /\ z = <<z[1], z[2]>>
      /\ s \in Node /\ t \in Node
  BY FlitNodes DEF Places
<1>2. ASSUME NEW n \in Node, NEW m \in Node
      PROVE  Distance(n, m) \in Nat
  BY <1>2, Coordinates DEF Distance, Gap
<1>3. ASSUME NEW n \in Node, OnRow(n, f) \/ OnColumn(n, f)
      PROVE  Distance(n, t) <= Distance(s, t)
  <2>1. /\ X(n) \in Int /\ Y(n) \in Int
        /\ X(s) \in Int /\ Y(s) \in Int /\ X(t) \in Int /\ Y(t) \in Int
    BY <1>3, FlitNodes
  <2> HIDE DEF s, t
  <2>2. QED
    BY <1>3, <2>1 DEF OnRow, OnColumn, Between, Distance, Gap, s, t
<1>4. ASSUME NEW n \in Node, OnRow(n, f) \/ OnColumn(n, f),
             NEW m \in Node, OnRow(m, g) \/ OnColumn(m, g),
             Distance(n, t) = Distance(m, t)
      PROVE  n = m
  <2>1. /\ X(n) \in Int /\ Y(n) \in Int /\ X(m) \in Int /\ Y(m) \in Int
        /\ X(s) \in Int /\ Y(s) \in Int /\ X(t) \in Int /\ Y(t) \in Int
    BY <1>4, FlitNodes
  <2>2. OnRow(m, f) \/ OnColumn(m, f)
    BY <1>4 DEF OnRow, OnColumn
  <2>3. X(n) = X(m) /\ Y(n) = Y(m)
    <3> HIDE DEF s, t
    <3>1. /\ OnRow(n, f) => Y(n) = Y(s) /\ Between(X(s), X(n), X(t))
          /\ OnRow(m, f) => Y(m) = Y(s) /\ Between(X(s), X(m), X(t))
          /\ OnColumn(n, f) => X(n) = X(t) /\ Between(Y(s), Y(n), Y(t))
          /\ OnColumn(m, f) => X(m) = X(t) /\ Between(Y(s), Y(m), Y(t))
      BY DEF OnRow, OnColumn, s, t
    <3>2. CASE OnRow(n, f) /\ OnRow(m, f)
      <4>1. /\ Gap(X(n), X(t)) + Gap(Y(s), Y(t)) = Gap(X(m), X(t)) + Gap(Y(s), Y(t))
            /\ Y(n) = Y(s) /\ Y(m) = Y(s)
        BY <1>4, <3>1, <3>2 DEF Distance
      <4>2. Gap(X(n), X(t)) \in Int /\ Gap(X(m), X(t)) \in Int /\ Gap(Y(s), Y(t)) \in Int
        BY <2>1 DEF Gap
      <4>3. Gap(X(n), X(t)) = Gap(X(m), X(t))
        BY <4>1, <4>2, Cancel
      <4>4. X(n) = X(m)
        BY <2>1, <3>1, <3>2, <4>3, Straight
      <4>5. QED
        BY <4>1, <4>4
    <3>3. CASE OnColumn(n, f) /\ OnColumn(m, f)
      <4>1. /\ Gap(X(t), X(t)) + Gap(Y(n), Y(t)) = Gap(X(t), X(t)) + Gap(Y(m), Y(t))
            /\ X(n) = X(t) /\ X(m) = X(t)
        BY <1>4, <3>1, <3>3 DEF Distance
      <4>2. Gap(Y(n), Y(t)) \in Int /\ Gap(Y(m), Y(t)) \in Int /\ Gap(X(t), X(t)) \in Int
        BY <2>1 DEF Gap
      <4>3. Gap(Y(n), Y(t)) = Gap(Y(m), Y(t))
        BY <4>1, <4>2, Cancel
      <4>4. Y(n) = Y(m)
        BY <2>1, <3>1, <3>3, <4>3, Straight
      <4>5. QED
        BY <4>1, <4>4
    <3>4. CASE OnRow(n, f) /\ OnColumn(m, f)
      <4>1. /\ Gap(X(n), X(t)) + Gap(Y(s), Y(t)) = Gap(X(t), X(t)) + Gap(Y(m), Y(t))
            /\ Between(Y(s), Y(m), Y(t)) /\ Y(n) = Y(s) /\ X(m) = X(t)
        BY <1>4, <3>1, <3>4 DEF Distance
      <4>2. QED
        BY <2>1, <4>1, Corner
    <3>5. CASE OnColumn(n, f) /\ OnRow(m, f)
      <4>1. /\ Gap(X(m), X(t)) + Gap(Y(s), Y(t)) = Gap(X(t), X(t)) + Gap(Y(n), Y(t))
            /\ Between(Y(s), Y(n), Y(t)) /\ Y(m) = Y(s) /\ X(n) = X(t)
        BY <1>4, <3>1, <3>5 DEF Distance
      <4>2. QED
        BY <2>1, <4>1, Corner
    <3>6. QED
      BY <1>4, <2>2, <3>2, <3>3, <3>4, <3>5
  <2>4. QED
    BY <1>4, <2>3, Coordinates
<1>5. /\ y[2] = Home => y = <<t, Home>> /\ Hops(y, t) = 0
      /\ y[2] = Terminal => y = <<s, Terminal>> /\ Hops(y, t) = Distance(s, t) + 2
      /\ y[2] \in N .. Local =>
           /\ OnRow(y[1], f) \/ OnColumn(y[1], f)
           /\ ComputeRoute(y[1], f) = y[2]
           /\ Hops(y, t) = Distance(y[1], t) + 1
  BY <1>1 DEF OnWay, Hops, N, Local, Terminal, Home
<1>6. /\ z[2] = Home => z = <<t, Home>> /\ Hops(z, t) = 0
      /\ z[2] = Terminal => z = <<s, Terminal>> /\ Hops(z, t) = Distance(s, t) + 2
      /\ z[2] \in N .. Local =>
           /\ OnRow(z[1], g) \/ OnColumn(z[1], g)
           /\ ComputeRoute(z[1], g) = z[2]
           /\ Hops(z, t) = Distance(z[1], t) + 1
           /\ OnRow(z[1], f) \/ OnColumn(z[1], f)
  BY <1>1 DEF OnWay, OnRow, OnColumn, Hops, N, Local, Terminal, Home
<1>7. /\ y[2] \in N .. Local \/ y[2] = Terminal \/ y[2] = Home
      /\ z[2] \in N .. Local \/ z[2] = Terminal \/ z[2] = Home
  BY <1>1 DEF N, Local, Terminal, Home
<1>8. Hops(<<s, Terminal>>, t) = Distance(s, t) + 2 /\ Distance(s, t) \in Nat
  BY <1>1, <1>2 DEF Hops, Terminal, Home
<1>9. ASSUME y[2] \in N .. Local
      PROVE  Distance(y[1], t) \in Nat /\ Distance(y[1], t) <= Distance(s, t)
  BY <1>1, <1>2, <1>3, <1>5, <1>9
<1>10. ASSUME z[2] \in N .. Local
       PROVE  Distance(z[1], t) \in Nat /\ Distance(z[1], t) <= Distance(s, t)
  BY <1>1, <1>2, <1>3, <1>6, <1>10
<1>11. ASSUME y[2] \in N .. Local, z[2] \in N .. Local, Hops(y, t) = Hops(z, t)
       PROVE  y = z
  <2>1. Distance(y[1], t) = Distance(z[1], t)
    BY <1>5, <1>6, <1>9, <1>10, <1>11
  <2>2. y[1] = z[1]
    BY <1>1, <1>4, <1>5, <1>6, <1>11, <2>1
  <2>3. ComputeRoute(y[1], f) = ComputeRoute(z[1], g)
    BY <2>2 DEF ComputeRoute
  <2>4. QED
    BY <1>1, <1>5, <1>6, <1>11, <2>2, <2>3
<1> HIDE DEF s, t
<1>12. Hops(y, t) \in Nat
  BY <1>5, <1>7, <1>8, <1>9
<1>13. Hops(y, t) = Hops(z, t) => y = z
  BY <1>5, <1>6, <1>7, <1>8, <1>9, <1>10, <1>11
<1>14. y # <<s, Terminal>> => Hops(y, t) < Hops(<<s, Terminal>>, t)
  BY <1>5, <1>7, <1>8, <1>9
<1>15. y # <<t, Home>> => Hops(y, t) > 0
  BY <1>5, <1>7, <1>8, <1>9
<1>16. QED
  BY <1>12, <1>13, <1>14, <1>15 DEF s, t

\* The distance is a natural number; it shrinks on the way, and on the way of
\* flits of one pair of nodes it tells the place.
LEMMA HopsNatural ==
  ASSUME NEW f \in Flits, NEW y \in Places, OnWay(y, f)
  PROVE  Hops(y, f.dest) \in Nat
BY HopsTell, Zenon

LEMMA HopsToDoor ==
  ASSUME NEW f \in Flits, NEW y \in Places, OnWay(y, f), y # <<f.src, Terminal>>
  PROVE  Hops(y, f.dest) < Hops(<<f.src, Terminal>>, f.dest)
BY HopsTell, Zenon

LEMMA SamePlace ==
  ASSUME NEW f \in Flits, NEW g \in Flits, f.src = g.src, f.dest = g.dest,
         NEW y \in Places, NEW z \in Places, OnWay(y, f), OnWay(z, g),
         Hops(y, f.dest) = Hops(z, f.dest)
  PROVE  y = z
<1>1. Hops(y, f.dest) = Hops(z, f.dest) => y = z
  BY HopsTell, Zenon
<1>2. QED
  BY <1>1

-----------------------------------------------------------------------------
(***************************************************************************)
(* What a clock edge moves.  Stayed(z) are the flits that stay at place z, *)
(* Gone(z) how many leave, Entering(z) those that enter behind them.       *)
(***************************************************************************)
Stayed(z) == IF z[2] = Home THEN received[z[1]] ELSE Kept(z)
Gone(z) == IF z[2] # Home /\ Taken(z) THEN 1 ELSE 0
Entering(z) ==
  IF z[2] = Home
  THEN IF Taken(<<z[1], Local>>) THEN <<link[<<z[1], Local>>].flit>> ELSE <<>>
  ELSE Arrivals(z[1], z[2])

\* The input at which link l ends.
Input(l) ==
  CASE l[2] = N -> S
    [] l[2] = S -> N
    [] l[2] = E -> W
    [] l[2] = W -> E
    [] OTHER -> Local

\* Input i of router m has a flit for its output d: 1, or none: 0.
Comes(m, i, d) ==
  IF \E l \in Into(m, i) : Taken(l) /\ ComputeRoute(m, link[l].flit) = d THEN 1 ELSE 0

\* How many flits have come for output d when that of input i has.
Count(m, i, d) ==
  Comes(m, N, d) + (IF i >= E THEN Comes(m, E, d) ELSE 0)
                 + (IF i >= S THEN Comes(m, S, d) ELSE 0)
                 + (IF i >= W THEN Comes(m, W, d) ELSE 0)
                 + (IF i >= Local THEN Comes(m, Local, d) ELSE 0)

\* Of the flits that enter place z, which one is that of link l.
Slot(l, z) == IF z[2] = Home THEN 1 ELSE Count(z[1], Input(l), z[2])

\* What is at position i of place z after the edge was at position j of y.
Stays(y, j, z, i) == y = z /\ j = i + Gone(z) /\ i <= Len(Stayed(z))
Moves(y, j, z, i) ==
  /\ y \in Links /\ Taken(y)
  /\ j = 1
  /\ z = NextPlace(y, Held(y)[1])
  /\ i = Len(Stayed(z)) + Slot(y, z) /\ i > Len(Stayed(z))

\* What is in queue s, made of q and of one more element at most.
Joined(q, r, s) ==
  /\ Len(s) = Len(q) + Len(r)
  /\ \A k \in 1 .. Len(s) :
       \/ k \in 1 .. Len(q) /\ s[k] = q[k]
       \/ Len(r) = 1 /\ k = Len(q) + 1 /\ s[k] = r[1]

\* At most one flit joins behind those that stay.
LEMMA JoinLast ==
  ASSUME NEW T, NEW q \in Seq(T), NEW r \in Seq(T), Len(r) \in {0, 1}
  PROVE  q \o r \in Seq(T) /\ Joined(q, r, q \o r)
<1>1. /\ Len(q) \in Nat /\ Len(q \o r) = Len(q) + Len(r) /\ q \o r \in Seq(T)
      /\ \A k \in 1 .. Len(q) : (q \o r)[k] = q[k]
      /\ \A k \in 1 .. Len(r) : (q \o r)[Len(q) + k] = r[k]
  OBVIOUS
<1> DEFINE s == q \o r
<1> HIDE DEF s
<1>2. /\ Len(q) \in Nat /\ Len(s) = Len(q) + Len(r)
      /\ \A k \in 1 .. Len(q) : s[k] = q[k]
      /\ Len(r) = 1 => s[Len(q) + 1] = r[1]
  BY <1>1 DEF s
<1>3. PICK m \in Nat : m = Len(q)
  BY <1>2
<1>4. \A k \in 1 .. Len(s) : k \in 1 .. m \/ (Len(r) = 1 /\ k = m + 1)
  <2>1. PICK j \in {0, 1} : j = Len(r)
    OBVIOUS
  <2>2. Len(s) = m + j
    BY <1>2, <1>3, <2>1
  <2>3. \A k \in 1 .. m + j : k \in 1 .. m \/ (j = 1 /\ k = m + 1)
    OBVIOUS
  <2>4. QED
    BY <2>1, <2>2, <2>3, Zenon
<1>5. Joined(q, r, s)
  <2>1. ASSUME NEW k \in 1 .. Len(s)
        PROVE  \/ k \in 1 .. Len(q) /\ s[k] = q[k]
               \/ Len(r) = 1 /\ k = Len(q) + 1 /\ s[k] = r[1]
    BY <1>2, <1>3, <1>4, <2>1, Zenon
  <2>2. QED
    BY <1>2, <2>1 DEF Joined
<1>6. QED
  BY <1>1, <1>5 DEF s

\* The same of five queues of one element at most.
LEMMA JoinedFive ==
  ASSUME NEW a, NEW b, NEW c, NEW d, NEW e, NEW r, NEW s, NEW t, NEW q,
         Joined(a, b, r), Joined(r, c, s), Joined(s, d, t), Joined(t, e, q),
         Len(a) \in {0, 1}, Len(b) \in {0, 1}, Len(c) \in {0, 1},
         Len(d) \in {0, 1}, Len(e) \in {0, 1}, NEW k \in 1 .. Len(q)
  PROVE  \/ Len(a) = 1 /\ q[k] = a[1] /\ k = Len(a)
         \/ Len(b) = 1 /\ q[k] = b[1] /\ k = Len(a) + Len(b)
         \/ Len(c) = 1 /\ q[k] = c[1] /\ k = Len(a) + Len(b) + Len(c)
         \/ Len(d) = 1 /\ q[k] = d[1] /\ k = Len(a) + Len(b) + Len(c) + Len(d)
         \/ /\ Len(e) = 1 /\ q[k] = e[1]
            /\ k = Len(a) + Len(b) + Len(c) + Len(d) + Len(e)
<1>1. \/ k \in 1 .. Len(t) /\ q[k] = t[k]
      \/ Len(e) = 1 /\ k = Len(t) + 1 /\ q[k] = e[1]
  BY DEF Joined
<1>2. k \in 1 .. Len(t) => \/ k \in 1 .. Len(s) /\ t[k] = s[k]
                           \/ Len(d) = 1 /\ k = Len(s) + 1 /\ t[k] = d[1]
  BY DEF Joined
<1>3. k \in 1 .. Len(s) => \/ k \in 1 .. Len(r) /\ s[k] = r[k]
                           \/ Len(c) = 1 /\ k = Len(r) + 1 /\ s[k] = c[1]
  BY DEF Joined
<1>4. k \in 1 .. Len(r) => \/ k \in 1 .. Len(a) /\ r[k] = a[k]
                           \/ Len(b) = 1 /\ k = Len(a) + 1 /\ r[k] = b[1]
  BY DEF Joined
<1>5. PICK la \in {0, 1}, lb \in {0, 1}, lc \in {0, 1}, ld \in {0, 1} :
        la = Len(a) /\ lb = Len(b) /\ lc = Len(c) /\ ld = Len(d)
  OBVIOUS
<1>6. k \in 1 .. la => k = 1 /\ la = 1
  OBVIOUS
<1>7. Len(r) = la + lb /\ Len(s) = la + lb + lc /\ Len(t) = la + lb + lc + ld
  BY <1>5 DEF Joined
<1>8. CASE Len(e) = 1 /\ k = Len(t) + 1 /\ q[k] = e[1]
  BY <1>5, <1>7, <1>8
<1>9. CASE k \in 1 .. Len(t) /\ q[k] = t[k]
  <2>1. CASE Len(d) = 1 /\ k = Len(s) + 1 /\ t[k] = d[1]
    BY <1>5, <1>7, <1>9, <2>1
  <2>2. CASE k \in 1 .. Len(s) /\ t[k] = s[k]
    <3>1. CASE Len(c) = 1 /\ k = Len(r) + 1 /\ s[k] = c[1]
      BY <1>5, <1>7, <1>9, <2>2, <3>1
    <3>2. CASE k \in 1 .. Len(r) /\ s[k] = r[k]
      <4>1. CASE Len(b) = 1 /\ k = Len(a) + 1 /\ r[k] = b[1]
        BY <1>5, <1>9, <2>2, <3>2, <4>1
      <4>2. CASE k \in 1 .. Len(a) /\ r[k] = a[k]
        BY <1>5, <1>6, <1>9, <2>2, <3>2, <4>2
      <4>3. QED
        BY <1>4, <3>2, <4>1, <4>2
    <3>3. QED
      BY <1>3, <2>2, <3>1, <3>2
  <2>3. QED
    BY <1>2, <1>9, <2>1, <2>2
<1>10. QED
  BY <1>1, <1>8, <1>9

\* A link into router m is the one of which m is the next router.
LEMMA FromLink ==
  ASSUME NEW m \in Node, NEW i \in N .. Local, NEW l \in Into(m, i)
  PROVE  /\ l \in Links /\ Into(m, i) = {l}
         /\ m = NextRouter(l) /\ i = Input(l) /\ l[2] # Local
<1>1. l \in Links /\ Into(m, i) = {l}
  BY IntoLinks
<1>2. m \in Int /\ i \in {N, E, S, W, Local}
  BY Coordinates DEF N, E, S, W, Local
<1>3. CASE i = N
  <2>1. l = <<m - 4, S>>
    BY <1>3 DEF Into, N, E, S, W, Local
  <2>2. QED
    BY <1>1, <1>2, <1>3, <2>1 DEF NextRouter, Input, N, E, S, W, Local
<1>4. CASE i = S
  <2>1. l = <<m + 4, N>>
    BY <1>4 DEF Into, N, E, S, W, Local
  <2>2. QED
    BY <1>1, <1>2, <1>4, <2>1 DEF NextRouter, Input, N, E, S, W, Local
<1>5. CASE i = E
  <2>1. l = <<m + 1, W>>
    BY <1>5 DEF Into, N, E, S, W, Local
  <2>2. QED
    BY <1>1, <1>2, <1>5, <2>1 DEF NextRouter, Input, N, E, S, W, Local
<1>6. CASE i = W
  <2>1. l = <<m - 1, E>>
    BY <1>6 DEF Into, N, E, S, W, Local
  <2>2. QED
    BY <1>1, <1>2, <1>6, <2>1 DEF NextRouter, Input, N, E, S, W, Local
<1>7. CASE i = Local
  <2>1. l = <<m, Terminal>>
    BY <1>7 DEF Into, N, E, S, W, Local
  <2>2. QED
    BY <1>1, <1>2, <1>7, <2>1 DEF NextRouter, Input, N, E, S, W, Local, Terminal
<1>8. QED
  BY <1>2, <1>3, <1>4, <1>5, <1>6, <1>7

\* Each flit that arrives for an output is that of one link, in its turn.
LEMMA ArrivalsFrom ==
  ASSUME IInv, NEW m \in Node, NEW d \in N .. Local,
         NEW k \in 1 .. Len(Arrivals(m, d))
  PROVE  \E l \in Links :
           /\ Taken(l) /\ l[2] # Local
           /\ Arrivals(m, d)[k] = link[l].flit
           /\ <<m, d>> = NextPlace(l, link[l].flit)
           /\ k = Count(m, Input(l), d)
<1> DEFINE taken(i) == \E l \in Into(m, i) :
                         Taken(l) /\ ComputeRoute(m, link[l].flit) = d
           at(i) == IF taken(i) THEN <<link[CHOOSE l \in Into(m, i) : TRUE].flit>>
                    ELSE <<>>
           c(i) == Comes(m, i, d)
<1>1. Arrivals(m, d) = at(N) \o at(E) \o at(S) \o at(W) \o at(Local)
  <2>1. d # Terminal
    BY DEF N, Local, Terminal
  <2>2. QED
    BY <2>1, Zenon DEF Arrivals
<1>2. ASSUME NEW i \in N .. Local
      PROVE  /\ at(i) \in Seq(Flits) /\ Len(at(i)) = c(i) /\ c(i) \in {0, 1}
             /\ c(i) = 1 =>
                  \E l \in Links :
                    /\ Taken(l) /\ l[2] # Local /\ i = Input(l)
                    /\ at(i)[1] = link[l].flit
                    /\ <<m, d>> = NextPlace(l, link[l].flit)
  <2>1. CASE taken(i)
    <3>1. PICK l \in Into(m, i) : Taken(l) /\ ComputeRoute(m, link[l].flit) = d
      BY <2>1
    <3>2. /\ l \in Links /\ Into(m, i) = {l}
          /\ m = NextRouter(l) /\ i = Input(l) /\ l[2] # Local
      BY <1>2, FromLink
    <3>3. (CHOOSE h \in Into(m, i) : TRUE) = l
      BY <3>2
    <3>4. at(i) = <<link[l].flit>>
      BY <2>1, <3>3
    <3>5. link[l].flit \in Flits
      BY <3>1, <3>2, TakenFlit DEF IInv
    <3>6. c(i) = 1
      BY <2>1 DEF Comes
    <3>7. <<m, d>> = NextPlace(l, link[l].flit)
      BY <3>1, <3>2 DEF NextPlace
    <3> HIDE DEF at, c
    <3>8. at(i) \in Seq(Flits) /\ Len(at(i)) = 1 /\ at(i)[1] = link[l].flit
      BY <3>4, <3>5
    <3>9. QED
      BY <3>1, <3>2, <3>6, <3>7, <3>8
  <2>2. CASE ~ taken(i)
    <3>1. at(i) = <<>> /\ c(i) = 0
      BY <2>2 DEF Comes
    <3> HIDE DEF at, c
    <3>2. QED
      BY <3>1
  <2>3. QED
    BY <2>1, <2>2
<1>3. /\ N \in N .. Local /\ E \in N .. Local /\ S \in N .. Local
      /\ W \in N .. Local /\ Local \in N .. Local
  BY DEF N, E, S, W, Local
<1> HIDE DEF at, c
<1>4. /\ at(N) \in Seq(Flits) /\ at(E) \in Seq(Flits) /\ at(S) \in Seq(Flits)
      /\ at(W) \in Seq(Flits) /\ at(Local) \in Seq(Flits)
      /\ Len(at(N)) = c(N) /\ Len(at(E)) = c(E) /\ Len(at(S)) = c(S)
      /\ Len(at(W)) = c(W) /\ Len(at(Local)) = c(Local)
      /\ c(N) \in {0, 1} /\ c(E) \in {0, 1} /\ c(S) \in {0, 1}
      /\ c(W) \in {0, 1} /\ c(Local) \in {0, 1}
  BY <1>2, <1>3
<1>5. /\ Count(m, N, d) = c(N)
      /\ Count(m, E, d) = c(N) + c(E)
      /\ Count(m, S, d) = c(N) + c(E) + c(S)
      /\ Count(m, W, d) = c(N) + c(E) + c(S) + c(W)
      /\ Count(m, Local, d) = c(N) + c(E) + c(S) + c(W) + c(Local)
  <2>1. /\ ~ (N >= E) /\ ~ (N >= S) /\ ~ (N >= W) /\ ~ (N >= Local)
        /\ E >= E /\ ~ (E >= S) /\ ~ (E >= W) /\ ~ (E >= Local)
        /\ S >= E /\ S >= S /\ ~ (S >= W) /\ ~ (S >= Local)
        /\ W >= E /\ W >= S /\ W >= W /\ ~ (W >= Local)
        /\ Local >= E /\ Local >= S /\ Local >= W /\ Local >= Local
    BY DEF N, E, S, W, Local
  <2>2. /\ Count(m, N, d) = c(N) + 0 + 0 + 0 + 0
        /\ Count(m, E, d) = c(N) + c(E) + 0 + 0 + 0
        /\ Count(m, S, d) = c(N) + c(E) + c(S) + 0 + 0
        /\ Count(m, W, d) = c(N) + c(E) + c(S) + c(W) + 0
        /\ Count(m, Local, d) = c(N) + c(E) + c(S) + c(W) + c(Local)
    BY <2>1 DEF Count, c
  <2>3. QED
    BY <1>4, <2>2
<1>6. \/ Len(at(N)) = 1 /\ Arrivals(m, d)[k] = at(N)[1] /\ k = Len(at(N))
      \/ Len(at(E)) = 1 /\ Arrivals(m, d)[k] = at(E)[1] /\ k = Len(at(N)) + Len(at(E))
      \/ Len(at(S)) = 1 /\ Arrivals(m, d)[k] = at(S)[1]
           /\ k = Len(at(N)) + Len(at(E)) + Len(at(S))
      \/ Len(at(W)) = 1 /\ Arrivals(m, d)[k] = at(W)[1]
           /\ k = Len(at(N)) + Len(at(E)) + Len(at(S)) + Len(at(W))
      \/ Len(at(Local)) = 1 /\ Arrivals(m, d)[k] = at(Local)[1]
           /\ k = Len(at(N)) + Len(at(E)) + Len(at(S)) + Len(at(W)) + Len(at(Local))
  <2>1. /\ Len(at(N)) \in {0, 1} /\ Len(at(E)) \in {0, 1} /\ Len(at(S)) \in {0, 1}
        /\ Len(at(W)) \in {0, 1} /\ Len(at(Local)) \in {0, 1}
    BY <1>4
  <2> DEFINE r == at(N) \o at(E)
             s == r \o at(S)
             t == s \o at(W)
             q == t \o at(Local)
  <2>2. r \in Seq(Flits) /\ Joined(at(N), at(E), r)
    BY <1>4, <2>1, JoinLast
  <2>3. s \in Seq(Flits) /\ Joined(r, at(S), s)
    <3> HIDE DEF r
    <3>1. QED
      BY <1>4, <2>1, <2>2, JoinLast
  <2>4. t \in Seq(Flits) /\ Joined(s, at(W), t)
    <3> HIDE DEF s
    <3>1. QED
      BY <1>4, <2>1, <2>3, JoinLast
  <2>5. Joined(t, at(Local), q)
    <3> HIDE DEF t
    <3>1. QED
      BY <1>4, <2>1, <2>4, JoinLast
  <2>6. Arrivals(m, d) = q /\ k \in 1 .. Len(q)
    BY <1>1
  <2> HIDE DEF r, s, t, q
  <2>7. QED
    BY <2>1, <2>2, <2>3, <2>4, <2>5, <2>6, JoinedFive
<1>7. \E i \in N .. Local :
         c(i) = 1 /\ Arrivals(m, d)[k] = at(i)[1] /\ k = Count(m, i, d)
  BY <1>3, <1>4, <1>5, <1>6
<1>8. PICK i \in N .. Local :
        c(i) = 1 /\ Arrivals(m, d)[k] = at(i)[1] /\ k = Count(m, i, d)
  BY <1>7
<1>9. QED
  BY <1>2, <1>8

\* What is at a place that is a link.
LEMMA AtLink ==
  ASSUME NEW z \in Places, z[2] # Home
  PROVE  z \in Links /\ Held(z) = Waiting(z)
<1>1. z[1] \in Node /\ z[2] \in N .. Home /\ z = <<z[1], z[2]>>
  BY DEF Places
<1>2. z[2] \in N .. Terminal
  BY <1>1 DEF N, Terminal, Home
<1>3. <<z[1], z[2]>> \in Links
  BY <1>1, <1>2 DEF Links
<1>4. QED
  BY <1>1, <1>3 DEF Held

\* Each link is a place, and so is the home of its router.
LEMMA LinkPlaces ==
  ASSUME NEW l \in Links
  PROVE  l \in Places /\ l[2] # Home /\ <<l[1], Home>> \in Places
<1>1. l[1] \in Node /\ l[2] \in N .. Terminal /\ l = <<l[1], l[2]>>
  BY DEF Links
<1>2. l[2] \in N .. Home /\ l[2] # Home /\ Home \in N .. Home
  BY <1>1 DEF N, Terminal, Home
<1>3. <<l[1], l[2]>> \in Places /\ <<l[1], Home>> \in Places
  BY <1>1, <1>2 DEF Places
<1>4. QED
  BY <1>1, <1>2, <1>3

\* What a place holds is typed; of a link that is taken, the front is taken.
LEMMA HeldTyped ==
  ASSUME IInv, NEW z \in Places
  PROVE  /\ Held(z) \in Seq(Flits) /\ Stayed(z) \in Seq(Flits)
         /\ Gone(z) \in {0, 1}
         /\ Gone(z) = 0 => Held(z) = Stayed(z)
         /\ Gone(z) = 1 => /\ z \in Links /\ Taken(z)
                           /\ Held(z) # <<>> /\ Head(Held(z)) = link[z].flit
                           /\ Stayed(z) = Tail(Held(z))
<1>1. CASE z[2] = Home
  <2>1. Held(z) = received[z[1]] /\ Stayed(z) = received[z[1]] /\ Gone(z) = 0
    BY <1>1 DEF Held, Stayed, Gone
  <2>2. received[z[1]] \in Seq(Flits)
    BY DEF IInv, TypeOK, Places
  <2>3. QED
    BY <2>1, <2>2
<1>2. CASE z[2] # Home
  <2>1. z \in Links /\ Held(z) = Waiting(z) /\ Stayed(z) = Kept(z)
    BY <1>2, AtLink DEF Stayed
  <2>2. /\ link[z].buffer \in Seq(Flits)
        /\ ~ (link[z].req /\ link[z].ack)
        /\ link[z].req \/ link[z].ack =>
             link[z].buffer # <<>> /\ link[z].flit = Head(link[z].buffer)
    BY <2>1 DEF IInv, TypeOK, Good
  <2> DEFINE q == link[z].buffer
  <2>3. q \in Seq(Flits) /\ (q # <<>> => Tail(q) \in Seq(Flits))
    BY <2>2
  <2> HIDE DEF q
  <2>4. CASE Taken(z)
    <3>1. Gone(z) = 1 /\ ~ link[z].ack /\ link[z].req
      BY <1>2, <2>4 DEF Gone, Taken
    <3>2. Held(z) = q /\ Stayed(z) = Tail(q)
      BY <2>1, <2>4, <3>1 DEF Waiting, Kept, q
    <3>3. q # <<>> /\ link[z].flit = Head(q)
      BY <2>2, <3>1 DEF q
    <3>4. QED
      BY <2>1, <2>3, <2>4, <3>1, <3>2, <3>3
  <2>5. CASE ~ Taken(z)
    <3>1. Gone(z) = 0
      BY <2>5 DEF Gone
    <3>2. /\ Held(z) = IF link[z].ack THEN Tail(q) ELSE q
          /\ Stayed(z) = Held(z)
      BY <2>1, <2>5 DEF Waiting, Kept, q
    <3>3. link[z].ack => q # <<>>
      BY <2>2 DEF q
    <3>4. Held(z) \in Seq(Flits)
      BY <2>3, <3>2, <3>3
    <3>5. QED
      BY <3>1, <3>2, <3>4
  <2>6. QED
    BY <2>4, <2>5
<1>3. QED
  BY <1>1, <1>2

\* What a place holds after a clock edge.
LEMMA HeldAfterClock ==
  ASSUME IInv, NEW early \in SUBSET Node, Clock(early), NEW z \in Places
  PROVE  /\ Entering(z) \in Seq(Flits)
         /\ Held(z)' = Stayed(z) \o Entering(z)
<1>1. CASE z[2] = Home
  <2> DEFINE n == z[1]
             l == <<n, Local>>
  <2>1. n \in Node /\ received[n] \in Seq(Flits)
    BY DEF IInv, TypeOK, Places
  <2>2. l \in Links
    BY <2>1 DEF Links, N, Local, Terminal
  <2>3. Taken(l) => link[l].flit \in Flits
    BY <2>2, TakenFlit DEF IInv
  <2>4. /\ Held(z)' = received'[n] /\ Stayed(z) = received[n]
        /\ Entering(z) = IF Taken(l) THEN <<link[l].flit>> ELSE <<>>
    BY <1>1 DEF Held, Stayed, Entering
  <2>5. received'[n] = IF Taken(l) THEN Append(received[n], link[l].flit)
                       ELSE received[n]
    BY <2>1 DEF Clock
  <2> HIDE DEF n, l
  <2>6. CASE Taken(l)
    <3>1. Append(received[n], link[l].flit) = received[n] \o <<link[l].flit>>
      BY <2>1, <2>3, <2>6
    <3>2. QED
      BY <2>3, <2>4, <2>5, <2>6, <3>1
  <2>7. CASE ~ Taken(l)
    <3>1. received[n] = received[n] \o <<>> /\ <<>> \in Seq(Flits)
      BY <2>1
    <3>2. Entering(z) = <<>> /\ Held(z)' = received[n] /\ Stayed(z) = received[n]
      BY <2>4, <2>5, <2>7
    <3>3. QED
      BY <3>1, <3>2, Zenon
  <2>8. QED
    BY <2>6, <2>7
<1>2. CASE z[2] # Home
  <2>1. z \in Links
    BY <1>2, AtLink
  <2>2. /\ Arrivals(z[1], z[2]) \in Seq(Flits)
        /\ WaitsAt(link'[z]) = Kept(z) \o Arrivals(z[1], z[2])
    BY <2>1, WaitingAfterClock
  <2>3. Held(z)' = WaitsAt(link'[z])
    BY <1>2 DEF Held, Waiting, WaitsAt
  <2>4. QED
    BY <1>2, <2>2, <2>3 DEF Stayed, Entering
<1>3. QED
  BY <1>1, <1>2

\* Each flit that enters a place is that of one link, in its turn.
LEMMA EnteringFrom ==
  ASSUME IInv, NEW z \in Places, NEW k \in 1 .. Len(Entering(z))
  PROVE  \E l \in Links :
           /\ Taken(l)
           /\ Entering(z)[k] = link[l].flit
           /\ z = NextPlace(l, link[l].flit)
           /\ k = Slot(l, z)
<1>1. z[1] \in Node /\ z[2] \in N .. Home /\ z = <<z[1], z[2]>>
  BY DEF Places
<1>2. CASE z[2] = Home
  <2> DEFINE l == <<z[1], Local>>
  <2>1. l \in Links
    BY <1>1 DEF Links, N, Local, Terminal
  <2>2. /\ Entering(z) = IF Taken(l) THEN <<link[l].flit>> ELSE <<>>
        /\ Slot(l, z) = 1
        /\ NextPlace(l, link[l].flit) = <<z[1], Home>>
    BY <1>2 DEF Entering, Slot, NextPlace
  <2> HIDE DEF l
  <2>3. Taken(l)
    <3>1. Len(<<>>) = 0 /\ k \in 1 .. Len(Entering(z))
      OBVIOUS
    <3>2. QED
      BY <2>2, <3>1
  <2>4. k = 1 /\ Entering(z)[k] = link[l].flit
    BY <2>2, <2>3
  <2>5. QED
    BY <1>1, <1>2, <2>1, <2>2, <2>3, <2>4
<1>3. CASE z[2] = Terminal
  <2>1. Entering(z) = <<>>
    BY <1>3 DEF Entering, Arrivals, Terminal, Home
  <2>2. Len(Entering(z)) = 0
    BY <2>1
  <2>3. QED
    BY <2>2
<1>4. CASE z[2] \in N .. Local
  <2>1. z[2] # Home
    BY <1>4 DEF N, Local, Home
  <2>2. Entering(z) = Arrivals(z[1], z[2])
    BY <2>1 DEF Entering
  <2>3. PICK l \in Links :
          /\ Taken(l) /\ l[2] # Local
          /\ Arrivals(z[1], z[2])[k] = link[l].flit
          /\ <<z[1], z[2]>> = NextPlace(l, link[l].flit)
          /\ k = Count(z[1], Input(l), z[2])
    <3> DEFINE m == z[1]
               d == z[2]
    <3>1. m \in Node /\ d \in N .. Local /\ k \in 1 .. Len(Arrivals(m, d))
      BY <1>1, <1>4, <2>2
    <3> HIDE DEF m, d
    <3>2. \E l \in Links :
            /\ Taken(l) /\ l[2] # Local
            /\ Arrivals(m, d)[k] = link[l].flit
            /\ <<m, d>> = NextPlace(l, link[l].flit)
            /\ k = Count(m, Input(l), d)
      BY <3>1, ArrivalsFrom
    <3>3. QED
      BY <3>2 DEF m, d
  <2>4. k = Slot(l, z)
    BY <2>1, <2>3 DEF Slot
  <2>5. QED
    BY <1>1, <2>2, <2>3, <2>4
<1>5. QED
  BY <1>1, <1>2, <1>3, <1>4 DEF N, Local, Terminal, Home

\* The elements of two queues joined, and of a queue without its front.
LEMMA Positions ==
  ASSUME NEW T, NEW q \in Seq(T), NEW r \in Seq(T)
  PROVE  /\ Len(q) \in Nat /\ Len(r) \in Nat
         /\ \A i \in 1 .. Len(q \o r) :
              \/ i \in 1 .. Len(q) /\ (q \o r)[i] = q[i]
              \/ i - Len(q) \in 1 .. Len(r) /\ (q \o r)[i] = r[i - Len(q)]
         /\ q # <<>> => /\ 1 \in 1 .. Len(q) /\ Head(q) = q[1]
                        /\ Len(Tail(q)) = Len(q) - 1
                        /\ \A i \in 1 .. Len(Tail(q)) :
                             i + 1 \in 1 .. Len(q) /\ Tail(q)[i] = q[i + 1]
OBVIOUS

(***************************************************************************)
(* What is in the mesh after a clock edge was there before, and has stayed *)
(* in its place or moved on to the next.                                   *)
(***************************************************************************)
LEMMA Origin ==
  ASSUME IInv, NEW early \in SUBSET Node, Clock(early),
         NEW z \in Places, NEW i \in 1 .. Len(Held(z)')
  PROVE  \E y \in Places : \E j \in 1 .. Len(Held(y)) :
           /\ Held(z)'[i] = Held(y)[j]
           /\ Stays(y, j, z, i) \/ Moves(y, j, z, i)
<1>1. /\ Stayed(z) \in Seq(Flits) /\ Entering(z) \in Seq(Flits)
      /\ Held(z)' = Stayed(z) \o Entering(z)
  BY HeldTyped, HeldAfterClock
<1>2. /\ Len(Stayed(z)) \in Nat
      /\ \/ i \in 1 .. Len(Stayed(z)) /\ Held(z)'[i] = Stayed(z)[i]
         \/ /\ i - Len(Stayed(z)) \in 1 .. Len(Entering(z))
            /\ Held(z)'[i] = Entering(z)[i - Len(Stayed(z))]
  BY <1>1, Positions
<1>3. CASE i \in 1 .. Len(Stayed(z)) /\ Held(z)'[i] = Stayed(z)[i]
  <2>1. CASE Gone(z) = 0
    <3>1. Held(z) = Stayed(z) /\ i = i + Gone(z)
      BY <2>1, HeldTyped
    <3>2. Stays(z, i, z, i)
      BY <1>3, <3>1 DEF Stays
    <3>3. QED
      BY <1>3, <3>1, <3>2
  <2>2. CASE Gone(z) = 1
    <3>1. Held(z) \in Seq(Flits) /\ Held(z) # <<>> /\ Stayed(z) = Tail(Held(z))
      BY <2>2, HeldTyped
    <3>2. i + 1 \in 1 .. Len(Held(z)) /\ Stayed(z)[i] = Held(z)[i + 1]
      BY <1>3, <3>1, Positions
    <3>3. Stays(z, i + 1, z, i)
      BY <1>3, <2>2 DEF Stays
    <3>4. QED
      BY <1>3, <3>2, <3>3
  <2>3. QED
    BY <2>1, <2>2, HeldTyped
<1>4. CASE /\ i - Len(Stayed(z)) \in 1 .. Len(Entering(z))
           /\ Held(z)'[i] = Entering(z)[i - Len(Stayed(z))]
  <2> DEFINE k == i - Len(Stayed(z))
  <2>1. k \in 1 .. Len(Entering(z)) /\ Held(z)'[i] = Entering(z)[k]
    BY <1>4
  <2>2. i = Len(Stayed(z)) + k /\ i > Len(Stayed(z))
    BY <1>2, <2>1
  <2> HIDE DEF k
  <2>3. PICK l \in Links : /\ Taken(l)
                           /\ Entering(z)[k] = link[l].flit
                           /\ z = NextPlace(l, link[l].flit)
                           /\ k = Slot(l, z)
    BY <2>1, EnteringFrom
  <2>4. l \in Places /\ Gone(l) = 1
    BY <2>3, LinkPlaces DEF Gone
  <2>5. /\ Held(l) \in Seq(Flits) /\ Held(l) # <<>> /\ Head(Held(l)) = link[l].flit
    BY <2>4, HeldTyped
  <2>6. 1 \in 1 .. Len(Held(l)) /\ Held(l)[1] = link[l].flit
    BY <2>5, Positions
  <2>7. Moves(l, 1, z, i)
    BY <2>2, <2>3, <2>6 DEF Moves
  <2>8. QED
    BY <2>1, <2>3, <2>4, <2>6, <2>7
<1>5. QED
  BY <1>2, <1>3, <1>4

-----------------------------------------------------------------------------
\* What a clock edge does to one flit: it stays on its way, and comes nearer.
LEMMA MovedOn ==
  ASSUME NEW y, NEW j, NEW z, NEW i, Moves(y, j, z, i),
         NEW f \in Flits, f = Held(y)[j], OnWay(y, f)
  PROVE  /\ OnWay(z, f)
         /\ Hops(z, f.dest) = Hops(y, f.dest) - 1
<1>1. y \in Links /\ Taken(y) /\ z = NextPlace(y, f)
  BY DEF Moves
<1>2. y \notin Rim
  BY <1>1 DEF Taken
<1>3. CASE y[2] = Local
  BY <1>1, <1>3, LastHop
<1>4. CASE y[2] # Local
  BY <1>1, <1>2, <1>4, OneHop
<1>5. QED
  BY <1>3, <1>4

\* A flit at place y, position i, is ahead of one for the same destination.
Ahead(y, i, z, j, dest) ==
  \/ y = z /\ i < j
  \/ Hops(y, dest) < Hops(z, dest)

\* Flit f is on its way at position j of y, and at i of z after a clock edge.
Goes(f, y, j, z, i) ==
  /\ y \in Places /\ j \in 1 .. Len(Held(y)) /\ f = Held(y)[j]
  /\ f \in Flits /\ OnWay(y, f)
  /\ Stays(y, j, z, i) \/ Moves(y, j, z, i)

(***************************************************************************)
(* Two flits from one terminal to another, at positions i0 of y0 and j0 of *)
(* z0, are at positions i of y and j of z after a clock edge: if they are  *)
(* one, they are one still, and if the first is ahead, it stays ahead.     *)
(***************************************************************************)
LEMMA OrderKept ==
  ASSUME IInv, NEW f, NEW g, f.src = g.src, f.dest = g.dest,
         NEW y0, NEW i0, NEW y \in Places, NEW i \in Nat, i >= 1, Goes(f, y0, i0, y, i),
         NEW z0, NEW j0, NEW z \in Places, NEW j \in Nat, j >= 1, Goes(g, z0, j0, z, j)
  PROVE  /\ y0 = z0 /\ i0 = j0 => y = z /\ i = j
         /\ Ahead(y0, i0, z0, j0, f.dest) => Ahead(y, i, z, j, f.dest)
<1> DEFINE t == f.dest
<1>1. /\ y0 \in Places /\ i0 \in Int /\ i0 >= 1 /\ f = Held(y0)[i0]
      /\ f \in Flits /\ OnWay(y0, f)
      /\ Stays(y0, i0, y, i) \/ Moves(y0, i0, y, i)
      /\ z0 \in Places /\ j0 \in Int /\ j0 >= 1 /\ g = Held(z0)[j0]
      /\ g \in Flits /\ OnWay(z0, g)
      /\ Stays(z0, j0, z, j) \/ Moves(z0, j0, z, j)
  BY DEF Goes
<1>2. /\ Stays(y0, i0, y, i) => y0 = y /\ i0 = i + Gone(y) /\ i <= Len(Stayed(y))
      /\ Stays(z0, j0, z, j) => z0 = z /\ j0 = j + Gone(z) /\ j <= Len(Stayed(z))
  BY DEF Stays
<1>3. /\ Moves(y0, i0, y, i) =>
           /\ y0 \in Links /\ Taken(y0) /\ i0 = 1 /\ y = NextPlace(y0, Held(y0)[1])
           /\ i = Len(Stayed(y)) + Slot(y0, y) /\ i > Len(Stayed(y))
      /\ Moves(z0, j0, z, j) =>
           /\ z0 \in Links /\ Taken(z0) /\ j0 = 1 /\ z = NextPlace(z0, Held(z0)[1])
           /\ j = Len(Stayed(z)) + Slot(z0, z) /\ j > Len(Stayed(z))
  BY DEF Moves
<1>4. /\ Moves(y0, i0, y, i) => Gone(y0) = 1
      /\ Moves(z0, j0, z, j) => Gone(z0) = 1
  BY <1>3, LinkPlaces DEF Gone
<1>5. /\ Gone(y) \in {0, 1} /\ Gone(z) \in {0, 1}
      /\ Len(Stayed(y)) \in Nat /\ Len(Stayed(z)) \in Nat
  <2>1. Stayed(y) \in Seq(Flits) /\ Stayed(z) \in Seq(Flits)
    BY HeldTyped
  <2>2. QED
    BY <2>1, HeldTyped
<1>6. Hops(y0, t) \in Nat /\ Hops(z0, t) \in Nat
  <2>1. Hops(y0, f.dest) \in Nat /\ Hops(z0, g.dest) \in Nat
    BY <1>1, HopsNatural
  <2>2. QED
    BY <2>1
<1>7. /\ Stays(y0, i0, y, i) => OnWay(y, f) /\ Hops(y, t) = Hops(y0, t)
      /\ Moves(y0, i0, y, i) => OnWay(y, f) /\ Hops(y, t) = Hops(y0, t) - 1
      /\ Stays(z0, j0, z, j) => OnWay(z, g) /\ Hops(z, t) = Hops(z0, t)
      /\ Moves(z0, j0, z, j) => OnWay(z, g) /\ Hops(z, t) = Hops(z0, t) - 1
  <2>1. Moves(y0, i0, y, i) => OnWay(y, f) /\ Hops(y, f.dest) = Hops(y0, f.dest) - 1
    BY <1>1, MovedOn
  <2>2. Moves(z0, j0, z, j) => OnWay(z, g) /\ Hops(z, g.dest) = Hops(z0, g.dest) - 1
    BY <1>1, MovedOn
  <2>3. QED
    BY <1>1, <1>2, <2>1, <2>2
<1>8. OnWay(y, f) /\ OnWay(z, g)
  BY <1>1, <1>7
<1>9. Hops(y, t) = Hops(z, t) => y = z
  <2>1. f \in Flits /\ g \in Flits
    BY <1>1
  <2>2. Hops(y, f.dest) = Hops(z, f.dest) => y = z
    BY <1>8, <2>1, SamePlace
  <2>3. QED
    BY <2>2
<1> HIDE DEF t
<1>10. CASE Stays(y0, i0, y, i) /\ Stays(z0, j0, z, j)
  BY <1>2, <1>5, <1>6, <1>7, <1>10 DEF Ahead, t
<1>11. CASE Moves(y0, i0, y, i) /\ Moves(z0, j0, z, j)
  <2>1. y0 = z0 => y = z /\ i = j
    BY <1>3, <1>11
  <2>2. ASSUME Ahead(y0, i0, z0, j0, t) PROVE Hops(y, t) < Hops(z, t)
    BY <1>3, <1>6, <1>7, <1>11, <2>2 DEF Ahead
  <2>3. QED
    BY <2>1, <2>2 DEF Ahead, t
<1>12. CASE Stays(y0, i0, y, i) /\ Moves(z0, j0, z, j)
  <2>1. ~ (y0 = z0 /\ i0 = j0)
    BY <1>2, <1>3, <1>4, <1>12
  <2>2. ASSUME Ahead(y0, i0, z0, j0, t) PROVE Ahead(y, i, z, j, t)
    <3>1. i0 >= 1 /\ j0 = 1
      BY <1>2, <1>3, <1>5, <1>12
    <3>2. Hops(y, t) < Hops(z, t) + 1
      <4>1. Hops(y0, t) < Hops(z0, t)
        BY <1>1, <1>6, <2>2, <3>1 DEF Ahead
      <4>2. QED
        BY <1>6, <1>7, <1>12, <4>1
    <3>3. Hops(y, t) \in Int /\ Hops(z, t) \in Int
      BY <1>6, <1>7, <1>12
    <3>4. CASE Hops(y, t) = Hops(z, t)
      <4>1. y = z
        BY <1>9, <3>4
      <4>2. i < j
        BY <1>2, <1>3, <1>5, <1>12, <4>1
      <4>3. QED
        BY <4>1, <4>2 DEF Ahead
    <3>5. QED
      BY <3>2, <3>3, <3>4 DEF Ahead
  <2>3. QED
    BY <2>1, <2>2 DEF t
<1>13. CASE Moves(y0, i0, y, i) /\ Stays(z0, j0, z, j)
  <2>1. ~ (y0 = z0 /\ i0 = j0)
    BY <1>2, <1>3, <1>4, <1>13
  <2>2. ASSUME Ahead(y0, i0, z0, j0, t) PROVE Hops(y, t) < Hops(z, t)
    BY <1>2, <1>6, <1>7, <1>13, <2>2 DEF Ahead
  <2>3. QED
    BY <2>1, <2>2 DEF Ahead, t
<1>14. QED
  BY <1>1, <1>10, <1>11, <1>12, <1>13

-----------------------------------------------------------------------------
\* The flits of packet p, triple t of the traffic, are those from position a + 1
\* of q, which terminal n was given.
IsPacket(q, p, n, t, a) ==
  LET flits == FlitsOf(p, n, t[2], t[3])
  IN  /\ a + Len(flits) <= Len(q)
      /\ \A j \in 1 .. Len(flits) : q[a + j] = flits[j]
      /\ \A j \in 1 .. Len(q) : q[j].packet_id = p <=> j \in a + 1 .. a + Len(flits)

\* Terminals are given whole packets, each once.
PacketsCut ==
  \A n \in Node : \A k \in 1 .. Len(sent[n]) :
    LET p == sent[n][k].packet_id
    IN  \E t \in Traffic[p] : \E a \in 0 .. Len(sent[n]) : IsPacket(sent[n], p, n, t, a)

\* What is in the mesh has been sent, and is on its way.
Known ==
  \A z \in Places : \A i \in 1 .. Len(Held(z)) :
    Contains(sent[Held(z)[i].src], Held(z)[i])
OnTheWay ==
  \A z \in Places : \A i \in 1 .. Len(Held(z)) : OnWay(z, Held(z)[i])

\* No flit is in two places, or twice in one.
OncePlaced ==
  \A y, z \in Places : \A i \in 1 .. Len(Held(y)), j \in 1 .. Len(Held(z)) :
    Held(y)[i] = Held(z)[j] => y = z /\ i = j

\* Of two flits from one terminal to another, the earlier is ahead.
Ordered ==
  \A n \in Node : \A l \in 1 .. Len(sent[n]) : \A k \in 1 .. l - 1 :
    sent[n][k].dest = sent[n][l].dest =>
      \A y, z \in Places : \A i \in 1 .. Len(Held(y)), j \in 1 .. Len(Held(z)) :
        Held(y)[i] = sent[n][k] /\ Held(z)[j] = sent[n][l] =>
          Ahead(y, i, z, j, sent[n][k].dest)

(***************************************************************************)
(* The inductive invariant.  OncePlaced and Ordered are kept only by flits *)
(* that are on their way, which OnTheWay says, and only if new flits are   *)
(* not those of an earlier packet, which Known and PacketsCut say.         *)
(***************************************************************************)
OInv ==
  /\ IInv
  /\ PacketsCut
  /\ Known
  /\ OnTheWay
  /\ OncePlaced
  /\ Ordered

\* A flit is in one place, and there once.
LEMMA PlacedOnce ==
  ASSUME OncePlaced, NEW y \in Places, NEW z \in Places,
         NEW i \in 1 .. Len(Held(y)), NEW j \in 1 .. Len(Held(z)),
         Held(y)[i] = Held(z)[j]
  PROVE  y = z /\ i = j
BY DEF OncePlaced

\* What FlitsOf makes: the slices of the packet, each once.
Made(q, p, n, dest, length) ==
  /\ q \in Seq(Flits) /\ Len(q) \in Nat /\ Len(q) >= 1
  /\ Len(q) = Len(PacketToFlits(length))
  /\ \A i \in 1 .. Len(q) :
       /\ q[i].packet_id = p /\ q[i].src = n /\ q[i].dest = dest
       /\ q[i].slice = PacketToFlits(length)[i]
  /\ \A i, j \in 1 .. Len(q) : q[i] = q[j] => i = j

\* The flits of a packet are made so.
LEMMA FlitsMade ==
  ASSUME NEW p \in Packets, NEW n \in Node, NEW dest \in Node, NEW length \in Nat
  PROVE  Made(FlitsOf(p, n, dest, length), p, n, dest, length)
<1> DEFINE q == FlitsOf(p, n, dest, length)
           s == PacketToFlits(length)
<1>1. s \in Seq(Slices) /\ s # <<>>
  BY PacketCut
<1>2. Len(s) \in Nat /\ Len(s) >= 1
  BY <1>1
<1>3. q \in Seq(Flits)
  BY FlitsTyped
<1>4. q = [i \in 1 .. Len(s) |->
             [packet_id |-> p, src |-> n, dest |-> dest, slice |-> s[i]]]
  BY DEF FlitsOf
<1>5. Len(q) = Len(s)
  <2> HIDE DEF s
  <2>1. QED
    BY <1>2, <1>4
<1>6. ASSUME NEW i \in 1 .. Len(q)
      PROVE  /\ q[i].packet_id = p /\ q[i].src = n /\ q[i].dest = dest
             /\ q[i].slice = s[i]
  <2> HIDE DEF s
  <2>1. QED
    BY <1>4, <1>5, <1>6
<1>7. ASSUME NEW i \in 1 .. Len(q), NEW j \in 1 .. Len(q), q[i] = q[j]
      PROVE  i = j
  <2>1. s[i].offset = s[j].offset
    BY <1>6, <1>7
  <2>2. (i - 1) * DATA_SIZE = (j - 1) * DATA_SIZE
    <3>1. i \in 1 .. Len(s) /\ j \in 1 .. Len(s)
      BY <1>5, <1>7
    <3>2. s[i].offset = (i - 1) * DATA_SIZE
      BY <3>1, FlitOffsets
    <3>3. s[j].offset = (j - 1) * DATA_SIZE
      BY <3>1, FlitOffsets
    <3>4. QED
      BY <2>1, <3>2, <3>3
  <2>3. i \in Int /\ j \in Int /\ DATA_SIZE \in Nat /\ DATA_SIZE >= 1
    BY <1>7, DataSize
  <2>4. /\ (i - 1) * DATA_SIZE = i * DATA_SIZE - DATA_SIZE
        /\ i <= j - 1 => i * DATA_SIZE <= (j - 1) * DATA_SIZE
        /\ i * DATA_SIZE \in Int
    BY <2>3, Multiples
  <2>5. /\ (j - 1) * DATA_SIZE = j * DATA_SIZE - DATA_SIZE
        /\ j <= i - 1 => j * DATA_SIZE <= (i - 1) * DATA_SIZE
        /\ j * DATA_SIZE \in Int
    BY <2>3, Multiples
  <2>6. ~ (i <= j - 1) /\ ~ (j <= i - 1)
    BY <2>2, <2>3, <2>4, <2>5
  <2>7. QED
    BY <2>3, <2>6
<1>8. QED
  BY <1>2, <1>3, <1>5, <1>6, <1>7 DEF Made

\* What the triples of the traffic are.
LEMMA TrafficTyped ==
  ASSUME NEW p \in Packets, NEW t \in Traffic[p]
  PROVE  t[1] \in Node /\ t[2] \in Node /\ t[3] \in Nat
BY TrafficInMesh

\* A terminal is given only flits of its own.
LEMMA SourceIs ==
  ASSUME OInv, NEW n \in Node, NEW k \in 1 .. Len(sent[n])
  PROVE  sent[n][k] \in Flits /\ sent[n][k].src = n
<1> DEFINE p == sent[n][k].packet_id
<1>1. sent[n][k] \in Flits /\ sent[n] \in Seq(Flits)
  BY DEF OInv, IInv, TypeOK
<1>2. p \in Packets
  BY <1>1 DEF Flits
<1>3. PICK t \in Traffic[p] : \E a \in 0 .. Len(sent[n]) : IsPacket(sent[n], p, n, t, a)
  BY DEF OInv, PacketsCut
<1>4. PICK a \in 0 .. Len(sent[n]) : IsPacket(sent[n], p, n, t, a)
  BY <1>3
<1> DEFINE q == FlitsOf(p, n, t[2], t[3])
<1>5. Len(q) \in Nat /\ \A i \in 1 .. Len(q) : q[i].src = n
  <2>1. t[2] \in Node /\ t[3] \in Nat
    BY <1>2, TrafficTyped
  <2> HIDE DEF p
  <2>2. Made(q, p, n, t[2], t[3])
    BY <1>2, <2>1, FlitsMade
  <2> HIDE DEF q
  <2>3. QED
    BY <2>2 DEF Made
<1>6. k \in a + 1 .. a + Len(q) /\ \A j \in 1 .. Len(q) : sent[n][a + j] = q[j]
  BY <1>4 DEF IsPacket
<1> HIDE DEF q
<1>7. k - a \in 1 .. Len(q) /\ k = a + (k - a)
  BY <1>5, <1>6
<1>8. QED
  BY <1>1, <1>5, <1>6, <1>7

\* At first there is no flit anywhere.
LEMMA InitOInv == Init => OInv
<1>1. SUFFICES ASSUME Init PROVE OInv
  OBVIOUS
<1>2. IInv
  BY <1>1, InitIInv
<1>3. ASSUME NEW z \in Places PROVE 1 .. Len(Held(z)) = {}
  <2>1. CASE z[2] = Home
    <3>1. Held(z) = <<>>
      BY <1>1, <2>1 DEF Held, Init, Places
    <3>2. QED
      BY <3>1
  <2>2. CASE z[2] # Home
    <3>1. z \in Links /\ Held(z) = Waiting(z)
      BY <2>2, AtLink
    <3>2. Waiting(z) = <<>>
      BY <1>1, <3>1 DEF Waiting, Init
    <3>3. QED
      BY <3>1, <3>2
  <2>3. QED
    BY <2>1, <2>2
<1>4. ASSUME NEW n \in Node PROVE 1 .. Len(sent[n]) = {}
  BY <1>1 DEF Init
<1>5. PacketsCut
  BY <1>4 DEF PacketsCut
<1>6. Ordered
  BY <1>4 DEF Ordered
<1>7. Known /\ OnTheWay
  BY <1>3 DEF Known, OnTheWay
<1>8. OncePlaced
  BY <1>3 DEF OncePlaced
<1>9. QED
  BY <1>2, <1>5, <1>6, <1>7, <1>8 DEF OInv

\* Flit f at position i of y and g at j of z were somewhere before, as ordered.
Came(f, y, i, g, z, j) ==
  \E y0, z0 \in Places : \E i0 \in 1 .. Len(Held(y0)), j0 \in 1 .. Len(Held(z0)) :
    /\ Held(y0)[i0] = f /\ Held(z0)[j0] = g
    /\ y0 = z0 /\ i0 = j0 => y = z /\ i = j
    /\ Ahead(y0, i0, z0, j0, f.dest) => Ahead(y, i, z, j, f.dest)

\* A clock edge keeps the invariant.
LEMMA ClockOInv ==
  ASSUME OInv, NEW early \in SUBSET Node, Clock(early)
  PROVE  OInv'
<1>1. IInv /\ sent' = sent
  BY DEF OInv, Clock
<1>2. ASSUME NEW z \in Places, NEW i \in 1 .. Len(Held(z)')
      PROVE  \E y \in Places : \E j \in 1 .. Len(Held(y)) : Goes(Held(z)'[i], y, j, z, i)
  <2>1. PICK y \in Places : \E j \in 1 .. Len(Held(y)) :
          /\ Held(z)'[i] = Held(y)[j]
          /\ Stays(y, j, z, i) \/ Moves(y, j, z, i)
    BY <1>1, <1>2, Origin
  <2>2. PICK j \in 1 .. Len(Held(y)) :
          /\ Held(z)'[i] = Held(y)[j]
          /\ Stays(y, j, z, i) \/ Moves(y, j, z, i)
    BY <2>1
  <2>3. Held(y) \in Seq(Flits)
    BY <1>1, HeldTyped
  <2>4. Held(y)[j] \in Flits
    BY <2>3
  <2>5. OnWay(y, Held(y)[j])
    BY DEF OInv, OnTheWay
  <2>6. Goes(Held(z)'[i], y, j, z, i)
    BY <2>2, <2>4, <2>5 DEF Goes
  <2>7. QED
    BY <2>6
<1>3. IInv'
  BY <1>1, ClockIInv
<1>4. PacketsCut'
  BY <1>1 DEF OInv, PacketsCut
<1>5. Known'
  <2>1. ASSUME NEW z \in Places, NEW i \in 1 .. Len(Held(z)')
        PROVE  Contains(sent[Held(z)'[i].src], Held(z)'[i])
    <3>1. PICK y \in Places : \E j \in 1 .. Len(Held(y)) : Goes(Held(z)'[i], y, j, z, i)
      BY <1>2, <2>1
    <3>2. QED
      BY <3>1 DEF OInv, Known, Goes
  <2>2. QED
    BY <1>1, <2>1 DEF Known
<1>6. OnTheWay'
  <2>1. ASSUME NEW z \in Places, NEW i \in 1 .. Len(Held(z)')
        PROVE  OnWay(z, Held(z)'[i])
    <3>1. PICK y \in Places : \E j \in 1 .. Len(Held(y)) : Goes(Held(z)'[i], y, j, z, i)
      BY <1>2, <2>1
    <3>2. PICK j \in 1 .. Len(Held(y)) : Goes(Held(z)'[i], y, j, z, i)
      BY <3>1
    <3>3. CASE Stays(y, j, z, i)
      BY <3>2, <3>3 DEF Stays, Goes
    <3>4. CASE Moves(y, j, z, i)
      <4>1. Held(z)'[i] \in Flits /\ Held(z)'[i] = Held(y)[j] /\ OnWay(y, Held(z)'[i])
        BY <3>2 DEF Goes
      <4>2. QED
        BY <3>4, <4>1, MovedOn
    <3>5. QED
      BY <3>2, <3>3, <3>4 DEF Goes
  <2>2. QED
    BY <2>1 DEF OnTheWay
<1>7. ASSUME NEW y \in Places, NEW i \in 1 .. Len(Held(y)'),
             NEW z \in Places, NEW j \in 1 .. Len(Held(z)'),
             NEW f, NEW g, f = Held(y)'[i], g = Held(z)'[j],
             f.src = g.src, f.dest = g.dest
      PROVE  Came(f, y, i, g, z, j)
  <2>1. PICK y0 \in Places : \E i0 \in 1 .. Len(Held(y0)) : Goes(f, y0, i0, y, i)
    BY <1>2, <1>7
  <2>2. PICK i0 \in 1 .. Len(Held(y0)) : Goes(f, y0, i0, y, i)
    BY <2>1
  <2>3. PICK z0 \in Places : \E j0 \in 1 .. Len(Held(z0)) : Goes(g, z0, j0, z, j)
    BY <1>2, <1>7
  <2>4. PICK j0 \in 1 .. Len(Held(z0)) : Goes(g, z0, j0, z, j)
    BY <2>3
  <2>5. i \in Nat /\ i >= 1 /\ j \in Nat /\ j >= 1
    OBVIOUS
  <2>6. /\ y0 = z0 /\ i0 = j0 => y = z /\ i = j
        /\ Ahead(y0, i0, z0, j0, f.dest) => Ahead(y, i, z, j, f.dest)
    BY <1>1, <1>7, <2>2, <2>4, <2>5, OrderKept
  <2>7. Held(y0)[i0] = f /\ Held(z0)[j0] = g
    BY <2>2, <2>4 DEF Goes
  <2>8. QED
    BY <2>6, <2>7 DEF Came
<1>8. OncePlaced'
  <2>1. ASSUME NEW y \in Places, NEW i \in 1 .. Len(Held(y)'),
               NEW z \in Places, NEW j \in 1 .. Len(Held(z)'),
               Held(y)'[i] = Held(z)'[j]
        PROVE  y = z /\ i = j
    <3> DEFINE f == Held(y)'[i]
    <3>1. f = Held(y)'[i] /\ f = Held(z)'[j] /\ f.src = f.src /\ f.dest = f.dest
      BY <2>1
    <3> HIDE DEF f
    <3>2. Came(f, y, i, f, z, j)
      BY <1>7, <2>1, <3>1
    <3>3. QED
      BY <3>2 DEF Came, OInv, OncePlaced
  <2>2. QED
    BY <2>1 DEF OncePlaced
<1>9. Ordered'
  <2>a. SUFFICES ASSUME NEW n \in Node, NEW l \in 1 .. Len(sent'[n]), NEW k \in 1 .. l - 1,
                        sent'[n][k].dest = sent'[n][l].dest
                 PROVE  \A y, z \in Places :
                          \A i \in 1 .. Len(Held(y)'), j \in 1 .. Len(Held(z)') :
                            Held(y)'[i] = sent'[n][k] /\ Held(z)'[j] = sent'[n][l] =>
                              Ahead(y, i, z, j, sent'[n][k].dest)
    BY DEF Ordered
  <2>b. SUFFICES ASSUME NEW y \in Places, NEW z \in Places,
                        NEW i \in 1 .. Len(Held(y)'), NEW j \in 1 .. Len(Held(z)'),
                        Held(y)'[i] = sent'[n][k], Held(z)'[j] = sent'[n][l]
                 PROVE  Ahead(y, i, z, j, sent'[n][k].dest)
    OBVIOUS
  <2>1. /\ l \in 1 .. Len(sent[n]) /\ sent[n][k].dest = sent[n][l].dest
        /\ Held(y)'[i] = sent[n][k] /\ Held(z)'[j] = sent[n][l]
        /\ sent'[n][k] = sent[n][k]
    BY <1>1, <2>a, <2>b
  <2> DEFINE f == sent[n][k]
             g == sent[n][l]
  <2>2. k \in 1 .. Len(sent[n])
    <3>1. Len(sent[n]) \in Nat
      BY <1>1 DEF IInv, TypeOK
    <3>2. QED
      BY <2>1, <3>1
  <2>3. f.src = g.src /\ f.dest = g.dest
    BY <2>1, <2>2, SourceIs
  <2>4. Came(f, y, i, g, z, j)
    <3>1. f = Held(y)'[i] /\ g = Held(z)'[j]
      BY <2>1
    <3> HIDE DEF f, g
    <3>2. QED
      BY <1>7, <2>3, <3>1
  <2>5. PICK y0 \in Places, z0 \in Places :
          \E i0 \in 1 .. Len(Held(y0)), j0 \in 1 .. Len(Held(z0)) :
            /\ Held(y0)[i0] = f /\ Held(z0)[j0] = g
            /\ Ahead(y0, i0, z0, j0, f.dest) => Ahead(y, i, z, j, f.dest)
    BY <2>4 DEF Came
  <2>6. PICK i0 \in 1 .. Len(Held(y0)), j0 \in 1 .. Len(Held(z0)) :
          /\ Held(y0)[i0] = f /\ Held(z0)[j0] = g
          /\ Ahead(y0, i0, z0, j0, f.dest) => Ahead(y, i, z, j, f.dest)
    BY <2>5
  <2>7. Ahead(y0, i0, z0, j0, f.dest)
    BY <2>1, <2>6 DEF OInv, Ordered
  <2>8. QED
    BY <2>1, <2>6, <2>7
<1>10. QED
  BY <1>3, <1>4, <1>5, <1>6, <1>8, <1>9 DEF OInv

-----------------------------------------------------------------------------
\* Queues of flits joined.
LEMMA JoinAt ==
  ASSUME NEW q \in Seq(Flits), NEW r \in Seq(Flits)
  PROVE  /\ q \o r \in Seq(Flits)
         /\ Len(q) \in Nat /\ Len(r) \in Nat /\ Len(q \o r) = Len(q) + Len(r)
         /\ \A i \in 1 .. Len(q) : (q \o r)[i] = q[i]
         /\ \A i \in 1 .. Len(r) : (q \o r)[Len(q) + i] = r[i]
OBVIOUS

\* What follows a packet does not change it.
LEMMA PacketStays ==
  ASSUME NEW q \in Seq(Flits), NEW r \in Seq(Flits), NEW n, NEW t, NEW p,
         NEW a \in 0 .. Len(q), IsPacket(q, p, n, t, a),
         \A i \in 1 .. Len(r) : r[i].packet_id # p
  PROVE  IsPacket(q \o r, p, n, t, a)
<1> DEFINE s == q \o r
           c == FlitsOf(p, n, t[2], t[3])
<1>1. /\ Len(q) \in Nat /\ Len(r) \in Nat /\ Len(s) = Len(q) + Len(r)
      /\ \A i \in 1 .. Len(q) : s[i] = q[i]
      /\ \A i \in 1 .. Len(r) : s[Len(q) + i] = r[i]
  BY JoinAt
<1>2. /\ a + Len(c) <= Len(q)
      /\ \A j \in 1 .. Len(c) : q[a + j] = c[j]
      /\ \A j \in 1 .. Len(q) : q[j].packet_id = p <=> j \in a + 1 .. a + Len(c)
  BY DEF IsPacket
<1>3. Len(c) \in Nat
  BY DEF FlitsOf
<1> HIDE DEF s, c
<1>4. a + Len(c) <= Len(s)
  BY <1>1, <1>2, <1>3
<1>5. ASSUME NEW j \in 1 .. Len(c) PROVE s[a + j] = c[j]
  <2>1. a + j \in 1 .. Len(q)
    BY <1>1, <1>2, <1>3, <1>5
  <2>2. QED
    BY <1>1, <1>2, <1>5, <2>1
<1>6. ASSUME NEW j \in 1 .. Len(s)
      PROVE  s[j].packet_id = p <=> j \in a + 1 .. a + Len(c)
  <2>1. CASE j \in 1 .. Len(q)
    BY <1>1, <1>2, <2>1
  <2>2. CASE j \notin 1 .. Len(q)
    <3>1. PICK i \in 1 .. Len(r) : j = Len(q) + i
      <4>1. j - Len(q) \in 1 .. Len(r) /\ j = Len(q) + (j - Len(q))
        BY <1>1, <1>6, <2>2
      <4>2. QED
        BY <4>1
    <3>2. s[j].packet_id # p
      BY <1>1, <3>1
    <3>3. j \notin a + 1 .. a + Len(c)
      BY <1>1, <1>2, <1>3, <2>2, <3>1
    <3>4. QED
      BY <3>2, <3>3
  <2>3. QED
    BY <2>1, <2>2
<1>7. QED
  BY <1>4, <1>5, <1>6 DEF IsPacket, s, c

\* The flits of a new packet, behind others.
LEMMA PacketJoins ==
  ASSUME NEW q \in Seq(Flits), NEW p \in Packets, NEW n \in Node, NEW t,
         t[2] \in Node, t[3] \in Nat,
         \A i \in 1 .. Len(q) : q[i].packet_id # p
  PROVE  IsPacket(q \o FlitsOf(p, n, t[2], t[3]), p, n, t, Len(q))
<1> DEFINE c == FlitsOf(p, n, t[2], t[3])
           s == q \o c
<1>1. Made(c, p, n, t[2], t[3])
  BY FlitsMade
<1>2. /\ c \in Seq(Flits)
      /\ \A i \in 1 .. Len(c) : c[i].packet_id = p
  BY <1>1 DEF Made
<1>3. /\ Len(q) \in Nat /\ Len(c) \in Nat /\ Len(s) = Len(q) + Len(c)
      /\ \A i \in 1 .. Len(q) : s[i] = q[i]
      /\ \A i \in 1 .. Len(c) : s[Len(q) + i] = c[i]
  <2> HIDE DEF c
  <2>1. QED
    BY <1>2, JoinAt
<1> HIDE DEF c, s
<1>4. ASSUME NEW j \in 1 .. Len(s)
      PROVE  s[j].packet_id = p <=> j \in Len(q) + 1 .. Len(q) + Len(c)
  <2>1. CASE j \in 1 .. Len(q)
    BY <1>3, <2>1
  <2>2. CASE j \notin 1 .. Len(q)
    <3>1. PICK i \in 1 .. Len(c) : j = Len(q) + i
      <4>1. j - Len(q) \in 1 .. Len(c) /\ j = Len(q) + (j - Len(q))
        BY <1>3, <1>4, <2>2
      <4>2. QED
        BY <4>1
    <3>2. s[j].packet_id = p
      BY <1>2, <1>3, <3>1
    <3>3. j \in Len(q) + 1 .. Len(q) + Len(c)
      BY <1>3, <3>1
    <3>4. QED
      BY <3>2, <3>3
  <2>3. QED
    BY <2>1, <2>2
<1>5. Len(q) + Len(c) <= Len(s)
  BY <1>3
<1>6. QED
  BY <1>3, <1>4, <1>5 DEF IsPacket, s, c

\* An element of a queue that has grown is an old or a new one.
LEMMA OldOrNew ==
  ASSUME NEW q \in Seq(Flits), NEW r \in Seq(Flits), NEW i \in 1 .. Len(q \o r)
  PROVE  \/ i \in 1 .. Len(q) /\ (q \o r)[i] = q[i]
         \/ \E m \in 1 .. Len(r) : i = Len(q) + m /\ (q \o r)[i] = r[m]
<1> DEFINE s == q \o r
<1>1. /\ Len(q) \in Nat /\ Len(r) \in Nat
      /\ \/ i \in 1 .. Len(q) /\ s[i] = q[i]
         \/ i - Len(q) \in 1 .. Len(r) /\ s[i] = r[i - Len(q)]
  BY Positions
<1>2. ASSUME i - Len(q) \in 1 .. Len(r), s[i] = r[i - Len(q)]
      PROVE  \E m \in 1 .. Len(r) : i = Len(q) + m /\ s[i] = r[m]
  <2>1. i = Len(q) + (i - Len(q))
    BY <1>1
  <2>2. QED
    BY <1>2, <2>1, Zenon
<1> HIDE DEF s
<1>3. QED
  BY <1>1, <1>2 DEF s

\* What a new packet changes: one queue of what is sent, one of what is held.
LEMMA AfterGenerate ==
  ASSUME IInv, NEW p \in Packets, NEW src \in Node, NEW dest \in Node,
         NEW length \in Nat, Generate(p, src, dest, length)
  PROVE  /\ \A n \in Node :
              sent'[n] = IF n = src THEN sent[n] \o FlitsOf(p, src, dest, length)
                         ELSE sent[n]
         /\ <<src, Terminal>> \in Places
         /\ \A z \in Places :
              Held(z)' = IF z = <<src, Terminal>>
                         THEN Held(z) \o FlitsOf(p, src, dest, length) ELSE Held(z)
<1> DEFINE flits == FlitsOf(p, src, dest, length)
           t == <<src, Terminal>>
<1>1. flits \in Seq(Flits)
  BY FlitsTyped
<1>2. /\ sent' = [sent EXCEPT ![src] = @ \o flits]
      /\ link' = [link EXCEPT ![t].buffer = @ \o flits]
      /\ received' = received
  BY DEF Generate
<1>3. t \in Links /\ t \in Places /\ t[2] # Home
  <2>1. t \in Links
    BY DEF Links, N, Terminal
  <2>2. QED
    BY <2>1, LinkPlaces
<1>4. /\ link[t].buffer \in Seq(Flits)
      /\ link[t].ack => link[t].buffer # <<>>
      /\ link \in [Links -> [buffer : Seq(Flits), req : BOOLEAN,
                             flit : Flits \cup {NoFlit}, ack : BOOLEAN]]
  BY <1>3 DEF IInv, TypeOK, Good
<1> HIDE DEF flits, t
<1>5. \A n \in Node : sent'[n] = IF n = src THEN sent[n] \o flits ELSE sent[n]
  BY <1>2 DEF IInv, TypeOK
<1>6. /\ link'[t].buffer = link[t].buffer \o flits
      /\ link'[t].ack = link[t].ack
      /\ \A l \in Links : l # t => link'[l] = link[l]
  BY <1>2, <1>3, <1>4
<1>7. ASSUME NEW z \in Places
      PROVE  Held(z)' = IF z = t THEN Held(z) \o flits ELSE Held(z)
  <2>1. CASE z[2] = Home
    BY <1>2, <1>3, <2>1 DEF Held
  <2>2. CASE z[2] # Home /\ z # t
    <3>1. z \in Links /\ Held(z) = Waiting(z)
      BY <2>2, AtLink
    <3>2. Held(z)' = Waiting(z)'
      BY <2>2 DEF Held
    <3>3. Waiting(z)' = Waiting(z)
      BY <1>6, <2>2, <3>1 DEF Waiting
    <3>4. QED
      BY <2>2, <3>1, <3>2, <3>3
  <2>3. CASE z = t
    <3> DEFINE q == link[t].buffer
    <3>1. Held(t) = IF link[t].ack THEN Tail(q) ELSE q
      BY <1>3 DEF Held, Waiting
    <3>2. Held(t)' = IF link'[t].ack THEN Tail(link'[t].buffer) ELSE link'[t].buffer
      BY <1>3 DEF Held, Waiting
    <3>3. q \in Seq(Flits) /\ (link[t].ack => q # <<>>)
      BY <1>4
    <3> HIDE DEF q
    <3>4. Held(t)' = IF link[t].ack THEN Tail(q \o flits) ELSE q \o flits
      BY <1>6, <3>2 DEF q
    <3>5. q # <<>> => Tail(q \o flits) = Tail(q) \o flits
      BY <1>1, <3>3, TailHolds
    <3>6. Held(t)' = Held(t) \o flits
      BY <3>1, <3>3, <3>4, <3>5
    <3>7. QED
      BY <2>3, <3>6
  <2>4. QED
    BY <2>1, <2>2, <2>3
<1>8. QED
  BY <1>3, <1>5, <1>7 DEF flits, t

\* A new packet keeps the invariant: its flits are new, and behind all others.
LEMMA GenerateOInv ==
  ASSUME OInv, NEW p \in Packets, NEW t \in Traffic[p], Generate(p, t[1], t[2], t[3])
  PROVE  OInv'
<1> DEFINE src == t[1]
           flits == FlitsOf(p, src, t[2], t[3])
           door == <<src, Terminal>>
<1>1. src \in Node /\ t[2] \in Node /\ t[3] \in Nat
  BY TrafficTyped
<1>2. /\ IInv /\ PacketsCut /\ Known /\ OnTheWay /\ OncePlaced /\ Ordered
      /\ \A n \in Node : sent[n] \in Seq(Flits)
      /\ \A z \in Places : Held(z) \in Seq(Flits)
  BY HeldTyped DEF OInv, IInv, TypeOK
<1>3. Made(flits, p, src, t[2], t[3])
  BY <1>1, FlitsMade
<1>4. /\ flits \in Seq(Flits) /\ Len(flits) \in Nat
      /\ \A m \in 1 .. Len(flits) :
           /\ flits[m] \in Flits /\ flits[m].packet_id = p
           /\ flits[m].src = src /\ flits[m].dest = t[2]
      /\ \A l, m \in 1 .. Len(flits) : flits[l] = flits[m] => l = m
  <2> HIDE DEF flits
  <2>1. flits \in Seq(Flits)
    BY <1>3 DEF Made
  <2>2. QED
    BY <1>3, <2>1 DEF Made
<1>5. /\ \A n \in Node : sent'[n] = IF n = src THEN sent[n] \o flits ELSE sent[n]
      /\ door \in Places
      /\ \A z \in Places : Held(z)' = IF z = door THEN Held(z) \o flits ELSE Held(z)
  <2>1. IInv
    BY <1>2
  <2> HIDE DEF src
  <2>2. Generate(p, src, t[2], t[3])
    BY DEF src
  <2> DEFINE dest == t[2]
             length == t[3]
  <2>3. dest \in Node /\ length \in Nat /\ Generate(p, src, dest, length)
    BY <1>1, <2>2
  <2> HIDE DEF dest, length
  <2>4. /\ \A n \in Node :
             sent'[n] = IF n = src THEN sent[n] \o FlitsOf(p, src, dest, length)
                        ELSE sent[n]
        /\ <<src, Terminal>> \in Places
        /\ \A z \in Places :
             Held(z)' = IF z = <<src, Terminal>>
                        THEN Held(z) \o FlitsOf(p, src, dest, length) ELSE Held(z)
    BY <1>1, <2>1, <2>3, AfterGenerate
  <2>5. QED
    BY <2>4 DEF dest, length
<1>6. \A n \in Node : \A i \in 1 .. Len(sent[n]) : sent[n][i].packet_id # p
  BY DEF Generate
<1>7. door[1] = src /\ door[2] = Terminal
  OBVIOUS
<1> HIDE DEF src, flits, door
<1>8. ASSUME NEW z \in Places, NEW i \in 1 .. Len(Held(z))
      PROVE  /\ Held(z)[i] \in Flits /\ Held(z)[i].src \in Node
             /\ Held(z)[i].packet_id # p
  <2>1. Held(z)[i] \in Flits
    BY <1>2
  <2>2. Held(z)[i].src \in Node
    BY <2>1 DEF Flits
  <2>3. Contains(sent[Held(z)[i].src], Held(z)[i])
    BY <1>2 DEF Known
  <2>4. QED
    BY <1>6, <2>1, <2>2, <2>3 DEF Contains
\* What is sent, and what is held, is old or new; it is new if its packet is.
<1>9. ASSUME NEW n \in Node, NEW k \in 1 .. Len(sent'[n])
      PROVE  \/ /\ k \in 1 .. Len(sent[n]) /\ sent'[n][k] = sent[n][k]
                /\ sent'[n][k].packet_id # p
             \/ /\ n = src /\ sent'[n][k].packet_id = p
                /\ \E m \in 1 .. Len(flits) :
                     k = Len(sent[src]) + m /\ sent'[n][k] = flits[m]
  <2>1. CASE n = src
    <3>1. sent'[n] = sent[n] \o flits /\ sent[n] \in Seq(Flits)
      BY <1>2, <1>5, <2>1
    <3>2. \/ k \in 1 .. Len(sent[n]) /\ sent'[n][k] = sent[n][k]
          \/ \E m \in 1 .. Len(flits) : k = Len(sent[n]) + m /\ sent'[n][k] = flits[m]
      <4>1. flits \in Seq(Flits) /\ k \in 1 .. Len(sent[n] \o flits)
        BY <1>4, <1>9, <3>1
      <4>2. \/ k \in 1 .. Len(sent[n]) /\ (sent[n] \o flits)[k] = sent[n][k]
            \/ \E m \in 1 .. Len(flits) :
                 k = Len(sent[n]) + m /\ (sent[n] \o flits)[k] = flits[m]
        BY <3>1, <4>1, OldOrNew
      <4>3. QED
        BY <3>1, <4>2
    <3>3. QED
      BY <1>4, <1>6, <2>1, <3>2
  <2>2. CASE n # src
    BY <1>5, <1>6, <1>9, <2>2
  <2>3. QED
    BY <2>1, <2>2
<1>10. ASSUME NEW z \in Places, NEW i \in 1 .. Len(Held(z)')
       PROVE  \/ /\ i \in 1 .. Len(Held(z)) /\ Held(z)'[i] = Held(z)[i]
                 /\ Held(z)'[i].packet_id # p
              \/ /\ z = door /\ Held(z)'[i].packet_id = p
                 /\ \E m \in 1 .. Len(flits) :
                      i = Len(Held(door)) + m /\ Held(z)'[i] = flits[m]
  <2>1. CASE z = door
    <3>1. Held(z)' = Held(z) \o flits /\ Held(z) \in Seq(Flits)
      BY <1>2, <1>5, <2>1
    <3>2. \/ i \in 1 .. Len(Held(z)) /\ Held(z)'[i] = Held(z)[i]
          \/ \E m \in 1 .. Len(flits) : i = Len(Held(z)) + m /\ Held(z)'[i] = flits[m]
      BY <1>4, <1>10, <3>1, OldOrNew
    <3>3. QED
      BY <1>4, <1>8, <2>1, <3>2
  <2>2. CASE z # door
    BY <1>5, <1>8, <1>10, <2>2
  <2>3. QED
    BY <2>1, <2>2
<1>11. IInv'
  BY <1>1, <1>2, GenerateIInv DEF src
<1>12. PacketsCut'
  <2>1. SUFFICES ASSUME NEW n \in Node, NEW k \in 1 .. Len(sent'[n])
                 PROVE  \E u \in Traffic[sent'[n][k].packet_id] :
                          \E a \in 0 .. Len(sent'[n]) :
                            IsPacket(sent'[n], sent'[n][k].packet_id, n, u, a)
    BY DEF PacketsCut
  <2>2. CASE /\ k \in 1 .. Len(sent[n]) /\ sent'[n][k] = sent[n][k]
             /\ sent'[n][k].packet_id # p
    <3> DEFINE o == sent[n][k].packet_id
    <3>1. PICK u \in Traffic[o] : \E a \in 0 .. Len(sent[n]) :
                                    IsPacket(sent[n], o, n, u, a)
      BY <1>2, <2>2 DEF PacketsCut
    <3>2. PICK a \in 0 .. Len(sent[n]) : IsPacket(sent[n], o, n, u, a)
      BY <3>1
    <3> HIDE DEF o
    <3>3. CASE n = src
      <4>1. sent'[n] = sent[n] \o flits /\ sent[n] \in Seq(Flits)
        BY <1>2, <1>5, <3>3
      <4>2. \A i \in 1 .. Len(flits) : flits[i].packet_id # o
        BY <1>4, <2>2 DEF o
      <4>3. IsPacket(sent'[n], o, n, u, a)
        BY <1>4, <3>2, <4>1, <4>2, PacketStays
      <4>4. a \in 0 .. Len(sent'[n])
        <5>1. Len(sent'[n]) = Len(sent[n]) + Len(flits) /\ Len(sent[n]) \in Nat
          BY <1>4, <4>1, JoinAt
        <5>2. QED
          BY <1>4, <5>1
      <4>5. QED
        BY <2>2, <4>3, <4>4 DEF o
    <3>4. CASE n # src
      BY <1>5, <2>2, <3>2, <3>4 DEF o
    <3>5. QED
      BY <3>3, <3>4
  <2>3. CASE n = src /\ sent'[n][k].packet_id = p
    <3>1. sent'[n] = sent[n] \o flits /\ sent[n] \in Seq(Flits)
      BY <1>2, <1>5, <2>3
    <3>2. IsPacket(sent'[n], p, n, t, Len(sent[n]))
      BY <1>1, <1>6, <2>3, <3>1, PacketJoins DEF flits
    <3>3. Len(sent[n]) \in 0 .. Len(sent'[n])
      <4>1. Len(sent'[n]) = Len(sent[n]) + Len(flits) /\ Len(sent[n]) \in Nat
        BY <1>4, <3>1, JoinAt
      <4>2. QED
        BY <1>4, <4>1
    <3>4. QED
      BY <2>3, <3>2, <3>3
  <2>4. QED
    BY <1>9, <2>1, <2>2, <2>3
<1>13. Known'
  <2>1. SUFFICES ASSUME NEW z \in Places, NEW i \in 1 .. Len(Held(z)')
                 PROVE  Contains(sent'[Held(z)'[i].src], Held(z)'[i])
    BY DEF Known
  <2> DEFINE f == Held(z)'[i]
  <2>2. CASE i \in 1 .. Len(Held(z)) /\ f = Held(z)[i]
    <3>1. f \in Flits /\ f.src \in Node /\ Contains(sent[f.src], f)
      BY <1>2, <1>8, <2>2 DEF Known
    <3> HIDE DEF f
    <3>2. CASE f.src = src
      BY <1>2, <1>4, <1>5, <3>1, <3>2, JoinHolds DEF f
    <3>3. CASE f.src # src
      BY <1>5, <3>1, <3>3 DEF f
    <3>4. QED
      BY <3>2, <3>3
  <2>3. CASE \E m \in 1 .. Len(flits) : f = flits[m]
    <3>1. f.src = src /\ Contains(flits, f)
      BY <1>4, <2>3 DEF Contains
    <3> HIDE DEF f
    <3>2. QED
      BY <1>1, <1>2, <1>4, <1>5, <3>1, JoinHolds DEF f
  <2>4. QED
    BY <1>10, <2>1, <2>2, <2>3
<1>14. OnTheWay'
  <2>1. SUFFICES ASSUME NEW z \in Places, NEW i \in 1 .. Len(Held(z)')
                 PROVE  OnWay(z, Held(z)'[i])
    BY DEF OnTheWay
  <2>2. CASE i \in 1 .. Len(Held(z)) /\ Held(z)'[i] = Held(z)[i]
    BY <1>2, <2>2 DEF OnTheWay
  <2>3. CASE z = door /\ \E m \in 1 .. Len(flits) : Held(z)'[i] = flits[m]
    <3>1. Held(z)'[i].src = src
      BY <1>4, <2>3
    <3>2. QED
      BY <1>7, <2>3, <3>1 DEF OnWay, N, Local, Terminal, Home
  <2>4. QED
    BY <1>10, <2>1, <2>2, <2>3
<1>15. OncePlaced'
  <2>1. SUFFICES ASSUME NEW y \in Places, NEW z \in Places,
                        NEW i \in 1 .. Len(Held(y)'), NEW j \in 1 .. Len(Held(z)'),
                        Held(y)'[i] = Held(z)'[j]
                 PROVE  y = z /\ i = j
    BY DEF OncePlaced
  <2>2. CASE Held(y)'[i].packet_id # p
    <3>1. /\ i \in 1 .. Len(Held(y)) /\ Held(y)'[i] = Held(y)[i]
          /\ j \in 1 .. Len(Held(z)) /\ Held(z)'[j] = Held(z)[j]
      BY <1>10, <2>1, <2>2
    <3>2. QED
      <4>1. Held(y)[i] = Held(z)[j]
        BY <2>1, <3>1
      <4>2. OncePlaced
        BY <1>2
      <4>3. QED
        BY <3>1, <4>1, <4>2, PlacedOnce
  <2>3. CASE Held(y)'[i].packet_id = p
    <3>1. /\ y = door /\ z = door
          /\ \E m \in 1 .. Len(flits) :
               i = Len(Held(door)) + m /\ Held(y)'[i] = flits[m]
          /\ \E m \in 1 .. Len(flits) :
               j = Len(Held(door)) + m /\ Held(z)'[j] = flits[m]
      BY <1>10, <2>1, <2>3
    <3>2. PICK b \in 1 .. Len(flits), c \in 1 .. Len(flits) :
            /\ i = Len(Held(door)) + b /\ Held(y)'[i] = flits[b]
            /\ j = Len(Held(door)) + c /\ Held(z)'[j] = flits[c]
      BY <3>1
    <3>3. b = c
      BY <1>4, <2>1, <3>2
    <3>4. QED
      BY <3>1, <3>2, <3>3
  <2>4. QED
    BY <2>2, <2>3
<1>16. Ordered'
  <2>1. SUFFICES ASSUME NEW n \in Node, NEW l \in 1 .. Len(sent'[n]), NEW k \in 1 .. l - 1,
                        sent'[n][k].dest = sent'[n][l].dest,
                        NEW y \in Places, NEW z \in Places,
                        NEW i \in 1 .. Len(Held(y)'), NEW j \in 1 .. Len(Held(z)'),
                        Held(y)'[i] = sent'[n][k], Held(z)'[j] = sent'[n][l]
                 PROVE  Ahead(y, i, z, j, sent'[n][k].dest)
    BY DEF Ordered
  <2>2. Len(sent[n]) \in Nat /\ Len(Held(door)) \in Nat
    BY <1>2, <1>5
  <2>3. l \in Nat /\ k \in Nat /\ k < l
    OBVIOUS
  <2>4. k \in 1 .. Len(sent'[n])
    <3>1. sent'[n] \in Seq(Flits)
      BY <1>11 DEF IInv, TypeOK
    <3>2. QED
      BY <2>1, <3>1
  <2> DEFINE f == sent'[n][k]
             g == sent'[n][l]
  <2>5. CASE g.packet_id # p
    <3>1. l \in 1 .. Len(sent[n]) /\ g = sent[n][l]
      BY <1>9, <2>1, <2>5
    <3>2. f.packet_id # p /\ f = sent[n][k]
      <4>1. ASSUME f.packet_id = p PROVE FALSE
        <5>1. n = src /\ \E m \in 1 .. Len(flits) : k = Len(sent[src]) + m
          BY <1>9, <2>4, <4>1
        <5>2. QED
          BY <2>2, <2>3, <3>1, <5>1
      <4>2. QED
        BY <1>9, <2>4, <4>1
    <3>3. /\ i \in 1 .. Len(Held(y)) /\ Held(y)[i] = f
          /\ j \in 1 .. Len(Held(z)) /\ Held(z)[j] = g
      BY <1>10, <2>1, <2>5, <3>2
    <3>4. QED
      BY <1>2, <2>1, <3>1, <3>2, <3>3 DEF Ordered
  <2>6. CASE g.packet_id = p
    <3>1. PICK m \in 1 .. Len(flits) : l = Len(sent[src]) + m /\ g = flits[m]
      BY <1>9, <2>1, <2>6
    <3>2. n = src
      BY <1>9, <2>1, <2>6
    <3>3. z = door /\ \E h \in 1 .. Len(flits) : j = Len(Held(door)) + h /\ g = flits[h]
      BY <1>10, <2>1, <2>6
    <3>4. j = Len(Held(door)) + m
      BY <1>4, <3>1, <3>3
    <3>5. CASE f.packet_id = p
      <4>1. PICK h \in 1 .. Len(flits) : k = Len(sent[src]) + h /\ f = flits[h]
        BY <1>9, <2>4, <3>5
      <4>2. y = door /\ \E c \in 1 .. Len(flits) : i = Len(Held(door)) + c /\ f = flits[c]
        BY <1>10, <2>1, <3>5
      <4>3. i = Len(Held(door)) + h
        BY <1>4, <4>1, <4>2
      <4>4. h < m
        BY <2>2, <2>3, <3>1, <3>2, <4>1
      <4>5. i < j
        BY <2>2, <3>4, <4>3, <4>4
      <4>6. QED
        BY <3>3, <4>2, <4>5 DEF Ahead
    <3>6. CASE f.packet_id # p
      <4>1. i \in 1 .. Len(Held(y)) /\ Held(y)[i] = f
        BY <1>10, <2>1, <3>6
      <4>2. f \in Flits /\ OnWay(y, f)
        BY <1>2, <1>8, <4>1 DEF OnTheWay
      <4>3. f.src = src
        <5>1. k \in 1 .. Len(sent[n]) /\ f = sent[n][k]
          BY <1>9, <2>4, <3>6
        <5>2. QED
          BY <3>2, <5>1, SourceIs
      <4> HIDE DEF f
      <4>4. y # door => Hops(y, f.dest) < Hops(door, f.dest)
        BY <4>2, <4>3, HopsToDoor DEF door
      <4>5. CASE y = door
        <5>1. i < j
          BY <2>2, <3>4, <4>1, <4>5
        <5>2. QED
          BY <3>3, <4>5, <5>1 DEF Ahead
      <4>6. CASE y # door
        BY <3>3, <4>4, <4>6 DEF Ahead, f
      <4>7. QED
        BY <4>5, <4>6
    <3>7. QED
      BY <3>5, <3>6
  <2>7. QED
    BY <2>5, <2>6
<1>17. QED
  BY <1>11, <1>12, <1>13, <1>14, <1>15, <1>16 DEF OInv

-----------------------------------------------------------------------------
(***************************************************************************)
(* The inductive invariant holds of every reachable state: each flit ever  *)
(* sent is on its XY way, in one place only, and behind those that the     *)
(* same terminal has sent to the same destination before it.               *)
(***************************************************************************)
THEOREM OrderInductive == Spec => []OInv
<1>1. Init => OInv
  BY InitOInv
<1>2. OInv /\ [Next]_vars => OInv'
  <2>1. SUFFICES ASSUME OInv, [Next]_vars PROVE OInv'
    OBVIOUS
  <2>2. CASE \E p \in Packets : \E t \in Traffic[p] : Generate(p, t[1], t[2], t[3])
    BY <2>1, <2>2, GenerateOInv
  <2>3. CASE Tick
    <3>1. PICK early \in SUBSET Races : Clock(early)
      BY <2>3 DEF Tick
    <3>2. early \in SUBSET Node
      BY DEF Races
    <3>3. QED
      BY <2>1, <3>1, <3>2, ClockOInv
  <2>4. CASE UNCHANGED vars
    <3>1. link' = link /\ sent' = sent /\ received' = received
      BY <2>4 DEF vars
    <3>2. IInv'
      BY <2>1, <3>1 DEF OInv, IInv, TypeOK, Good, On
    <3>3. PacketsCut'
      BY <2>1, <3>1 DEF OInv, PacketsCut
    <3>4. \A z : Held(z)' = Held(z)
      BY <3>1 DEF Held, Waiting
    <3>5. Known' /\ OnTheWay'
      BY <2>1, <3>1, <3>4 DEF OInv, Known, OnTheWay
    <3>6. OncePlaced'
      BY <2>1, <3>4 DEF OInv, OncePlaced
    <3>7. Ordered'
      <4>a. SUFFICES ASSUME NEW n \in Node, NEW l \in 1 .. Len(sent'[n]), NEW k \in 1 .. l - 1,
                            sent'[n][k].dest = sent'[n][l].dest
                     PROVE  \A y, z \in Places :
                              \A i \in 1 .. Len(Held(y)'), j \in 1 .. Len(Held(z)') :
                                Held(y)'[i] = sent'[n][k] /\ Held(z)'[j] = sent'[n][l] =>
                                  Ahead(y, i, z, j, sent'[n][k].dest)
        BY DEF Ordered
      <4>b. SUFFICES ASSUME NEW y \in Places, NEW z \in Places,
                            NEW i \in 1 .. Len(Held(y)'), NEW j \in 1 .. Len(Held(z)'),
                            Held(y)'[i] = sent'[n][k], Held(z)'[j] = sent'[n][l]
                     PROVE  Ahead(y, i, z, j, sent'[n][k].dest)
        OBVIOUS
      <4>1. Ordered
        BY <2>1 DEF OInv
      <4>2. /\ l \in 1 .. Len(sent[n]) /\ sent[n][k].dest = sent[n][l].dest
            /\ i \in 1 .. Len(Held(y)) /\ j \in 1 .. Len(Held(z))
            /\ Held(y)[i] = sent[n][k] /\ Held(z)[j] = sent[n][l]
            /\ sent'[n][k] = sent[n][k]
        BY <3>1, <3>4, <4>a, <4>b
      <4>3. Ahead(y, i, z, j, sent[n][k].dest)
        BY <4>1, <4>2 DEF Ordered
      <4>4. QED
        BY <4>2, <4>3
    <3>8. QED
      BY <3>2, <3>3, <3>5, <3>6, <3>7 DEF OInv
  <2>5. QED
    BY <2>1, <2>2, <2>3, <2>4 DEF Next
<1>3. QED
  BY <1>1, <1>2, PTL DEF Spec

-----------------------------------------------------------------------------
\* Flit k of terminal n is one of a packet: the flits from position a + 1.
PacketAt(n, k, dest, length, a) ==
  LET p == sent[n][k].packet_id
      s == PacketToFlits(length)
  IN  /\ a + Len(s) <= Len(sent[n]) /\ k \in a + 1 .. a + Len(s)
      /\ \A j \in 1 .. Len(s) :
           /\ sent[n][a + j].packet_id = p /\ sent[n][a + j].dest = dest
           /\ sent[n][a + j].slice = s[j]
      /\ \A i, j \in 1 .. Len(s) : sent[n][a + i] = sent[n][a + j] => i = j
      /\ \A j \in 1 .. Len(sent[n]) :
           sent[n][j].packet_id = p <=> j \in a + 1 .. a + Len(s)

LEMMA PacketOf ==
  ASSUME OInv, NEW n \in Node, NEW k \in 1 .. Len(sent[n])
  PROVE  \E dest \in Node, length \in Nat, a \in Nat : PacketAt(n, k, dest, length, a)
<1> DEFINE p == sent[n][k].packet_id
<1>1. p \in Packets
  BY SourceIs DEF Flits
<1>2. PICK t \in Traffic[p] : \E a \in 0 .. Len(sent[n]) : IsPacket(sent[n], p, n, t, a)
  BY DEF OInv, PacketsCut
<1>3. PICK a \in 0 .. Len(sent[n]) : IsPacket(sent[n], p, n, t, a)
  BY <1>2
<1> DEFINE dest == t[2]
           length == t[3]
           q == FlitsOf(p, n, dest, length)
           s == PacketToFlits(length)
<1>4. dest \in Node /\ length \in Nat /\ a \in Nat
  BY <1>1, TrafficTyped
<1>5. Made(q, p, n, dest, length)
  <2> HIDE DEF p, dest, length
  <2>1. QED
    BY <1>1, <1>4, FlitsMade
<1>6. /\ a + Len(q) <= Len(sent[n])
      /\ \A j \in 1 .. Len(q) : sent[n][a + j] = q[j]
      /\ \A j \in 1 .. Len(sent[n]) :
           sent[n][j].packet_id = p <=> j \in a + 1 .. a + Len(q)
  BY <1>3 DEF IsPacket
<1> HIDE DEF q
<1>7. /\ Len(q) = Len(s)
      /\ \A i \in 1 .. Len(q) : q[i].packet_id = p /\ q[i].dest = dest /\ q[i].slice = s[i]
      /\ \A i, j \in 1 .. Len(q) : q[i] = q[j] => i = j
  BY <1>5 DEF Made
<1> HIDE DEF s
<1>8. k \in a + 1 .. a + Len(s)
  BY <1>6, <1>7
<1>9. ASSUME NEW j \in 1 .. Len(s)
      PROVE  /\ sent[n][a + j].packet_id = p /\ sent[n][a + j].dest = dest
             /\ sent[n][a + j].slice = s[j]
  <2>1. j \in 1 .. Len(q)
    BY <1>7, <1>9
  <2>2. sent[n][a + j] = q[j]
    BY <1>6, <2>1
  <2>3. QED
    BY <1>7, <2>1, <2>2
<1>10. ASSUME NEW i \in 1 .. Len(s), NEW j \in 1 .. Len(s),
              sent[n][a + i] = sent[n][a + j]
       PROVE  i = j
  <2>1. i \in 1 .. Len(q) /\ j \in 1 .. Len(q)
    BY <1>7, <1>10
  <2>2. sent[n][a + i] = q[i] /\ sent[n][a + j] = q[j]
    BY <1>6, <2>1
  <2>3. q[i] = q[j]
    BY <1>10, <2>2
  <2>4. \A l, m \in 1 .. Len(q) : q[l] = q[m] => l = m
    BY <1>7
  <2>5. QED
    BY <2>1, <2>3, <2>4, Zenon
<1>11. PacketAt(n, k, dest, length, a)
  BY <1>6, <1>7, <1>8, <1>9, <1>10 DEF PacketAt, p, s
<1>12. QED
  BY <1>4, <1>11

\* A terminal is given no flit twice.
LEMMA SentOnce ==
  ASSUME OInv, NEW n \in Node, NEW k \in 1 .. Len(sent[n]), NEW l \in 1 .. Len(sent[n]),
         sent[n][k] = sent[n][l]
  PROVE  k = l
<1>1. PICK dest \in Node, length \in Nat, a \in Nat : PacketAt(n, k, dest, length, a)
  BY PacketOf
<1> DEFINE s == PacketToFlits(length)
<1>2. /\ k \in a + 1 .. a + Len(s)
      /\ \A i, j \in 1 .. Len(s) : sent[n][a + i] = sent[n][a + j] => i = j
      /\ sent[n][l].packet_id = sent[n][k].packet_id <=> l \in a + 1 .. a + Len(s)
  BY <1>1 DEF PacketAt
<1>3. s \in Seq(Slices)
  BY PacketCut
<1> HIDE DEF s
<1>4. Len(s) \in Nat /\ l \in a + 1 .. a + Len(s)
  BY <1>2, <1>3
<1>5. k - a \in 1 .. Len(s) /\ l - a \in 1 .. Len(s) /\ k = a + (k - a) /\ l = a + (l - a)
  <2>1. k - a \in 1 .. Len(s) /\ k = a + (k - a)
    BY <1>2, <1>4
  <2>2. l - a \in 1 .. Len(s) /\ l = a + (l - a)
    BY <1>4
  <2>3. QED
    BY <2>1, <2>2
<1>6. k - a = l - a
  BY <1>2, <1>5
<1>7. QED
  BY <1>5, <1>6

\* Every flit sent is at some place.
LEMMA SentIsHeld ==
  ASSUME OInv, NoFlitLost, NEW n \in Node, NEW k \in 1 .. Len(sent[n])
  PROVE  \E z \in Places : \E i \in 1 .. Len(Held(z)) : Held(z)[i] = sent[n][k]
<1> DEFINE f == sent[n][k]
<1>1. \/ \E l \in Links : Contains(Waiting(l), f)
      \/ Contains(received[f.dest], f)
  BY DEF NoFlitLost
<1>2. f.dest \in Node
  BY SourceIs DEF Flits
<1> HIDE DEF f
<1>3. CASE \E l \in Links : Contains(Waiting(l), f)
  <2>1. PICK l \in Links : Contains(Waiting(l), f)
    BY <1>3
  <2>2. l \in Places /\ Held(l) = Waiting(l)
    BY LinkPlaces, AtLink
  <2>3. QED
    BY <2>1, <2>2 DEF Contains, f
<1>4. CASE Contains(received[f.dest], f)
  <2>1. <<f.dest, Home>> \in Places /\ Held(<<f.dest, Home>>) = received[f.dest]
    BY <1>2 DEF Places, Held, N, Home
  <2>2. QED
    BY <1>4, <2>1 DEF Contains, f
<1>5. QED
  BY <1>1, <1>3, <1>4

\* What terminal n has taken is at the place Home.
LEMMA AtHome ==
  ASSUME OInv, NEW n \in Node
  PROVE  /\ <<n, Home>> \in Places /\ Held(<<n, Home>>) = received[n]
         /\ \A i \in 1 .. Len(received[n]) :
              /\ received[n][i] \in Flits
              /\ received[n][i].dest = n
              /\ received[n][i].src \in Node
              /\ Contains(sent[received[n][i].src], received[n][i])
<1>1. <<n, Home>> \in Places /\ Held(<<n, Home>>) = received[n]
  BY DEF Places, Held, N, Home
<1>2. received[n] \in Seq(Flits)
  BY DEF OInv, IInv, TypeOK
<1>3. ASSUME NEW i \in 1 .. Len(received[n])
      PROVE  /\ received[n][i] \in Flits
             /\ received[n][i].dest = n
             /\ received[n][i].src \in Node
             /\ Contains(sent[received[n][i].src], received[n][i])
  <2>1. received[n][i] \in Flits
    BY <1>2, <1>3
  <2>2. OnWay(<<n, Home>>, received[n][i])
    BY <1>1, <1>3 DEF OInv, OnTheWay
  <2>3. Contains(sent[received[n][i].src], received[n][i])
    BY <1>1, <1>3 DEF OInv, Known
  <2>4. QED
    BY <2>1, <2>2, <2>3 DEF OnWay, Flits
<1>4. QED
  BY <1>1, <1>3

\* When a flit has arrived, those sent to the same terminal before it have.
LEMMA ArrivedBefore ==
  ASSUME OInv, NoFlitLost, NEW n \in Node, NEW src \in Node,
         NEW l \in 1 .. Len(sent[src]), NEW k \in 1 .. l - 1, sent[src][k].dest = n,
         NEW j \in 1 .. Len(received[n]), received[n][j] = sent[src][l]
  PROVE  \E i \in 1 .. j - 1 : received[n][i] = sent[src][k]
<1> DEFINE f == sent[src][k]
           h == <<n, Home>>
<1>1. k \in 1 .. Len(sent[src])
  <2>1. sent[src] \in Seq(Flits)
    BY DEF OInv, IInv, TypeOK
  <2>2. QED
    BY <2>1
<1>2. h \in Places /\ Held(h) = received[n] /\ received[n][j].dest = n
  BY AtHome
<1>3. PICK z \in Places : \E i \in 1 .. Len(Held(z)) : Held(z)[i] = f
  BY <1>1, SentIsHeld
<1>4. PICK i \in 1 .. Len(Held(z)) : Held(z)[i] = f
  BY <1>3
<1>5. Ahead(z, i, h, j, n)
  <2>1. sent[src][k].dest = sent[src][l].dest
    BY <1>2
  <2> HIDE DEF h
  <2>2. Held(h)[j] = sent[src][l] /\ j \in 1 .. Len(Held(h))
    BY <1>2
  <2>3. QED
    BY <1>2, <1>4, <2>1, <2>2 DEF OInv, Ordered
<1>6. Hops(h, n) = 0
  BY DEF Hops, Home
<1>7. Hops(z, n) \in Nat
  <2>1. f \in Flits /\ f.dest = n
    BY <1>1, SourceIs
  <2>2. OnWay(z, f)
    BY <1>4 DEF OInv, OnTheWay
  <2> HIDE DEF f
  <2>3. QED
    BY <2>1, <2>2, HopsNatural
<1>8. z = h /\ i < j
  BY <1>5, <1>6, <1>7 DEF Ahead
<1>9. received[n][i] = f /\ i \in 1 .. j - 1
  BY <1>2, <1>4, <1>8
<1>10. QED
  BY <1>9

\* Of c slices, the last one ends the packet, and no other.
LEMMA LastEnds ==
  ASSUME NEW c \in Nat, NEW i \in Nat, i >= 1, i <= c
  PROVE  TypeAt(i, c) \in {"TAIL", "HEAD_TAIL"} <=> i = c
<1>1. CASE c = 1
  BY <1>1 DEF TypeAt
<1>2. CASE c # 1 /\ i = 1
  BY <1>2 DEF TypeAt
<1>3. CASE c # 1 /\ i # 1 /\ i = c
  BY <1>3 DEF TypeAt
<1>4. CASE c # 1 /\ i # 1 /\ i # c
  BY <1>4 DEF TypeAt
<1>5. QED
  BY <1>1, <1>2, <1>3, <1>4

\* Of a packet's slices: the last, and only the last, ends it, if it has data;
\* each but the first follows the one before it.
LEMMA SliceFacts ==
  ASSUME NEW length \in Nat, NEW m \in 1 .. Len(PacketToFlits(length))
  PROVE  LET s == PacketToFlits(length)
         IN  /\ Len(s) \in Nat
             /\ s[m].type \in {"TAIL", "HEAD_TAIL"} <=> length > 0 /\ m = Len(s)
             /\ s[m].length > 0 => length > 0
             /\ m = Len(s) => s[m].offset + s[m].length = length
             /\ s[m].offset > 0 =>
                  /\ m - 1 \in 1 .. Len(s)
                  /\ s[m - 1].offset + s[m - 1].length = s[m].offset
<1> DEFINE s == PacketToFlits(length)
<1>1. /\ s \in Seq(Slices)
      /\ s # <<>>
      /\ s[1].offset = 0
      /\ \A i \in 1 .. Len(s) - 1 : s[i + 1].offset = s[i].offset + s[i].length
      /\ s[Len(s)].offset + s[Len(s)].length = length
      /\ length > 0 => \A i \in 1 .. Len(s) : s[i].type = TypeAt(i, Len(s))
  BY PacketCut
<1>2. length = 0 => Len(s) = 1 /\ s[1] = Slice("HEAD", 0, 0)
  <2>1. ASSUME length = 0 PROVE Len(s) = 1 /\ s[1] = Slice("HEAD", 0, 0)
    <3>1. DATA_SIZE \in Nat /\ DATA_SIZE >= 1
      BY DataSize
    <3>2. length \notin 1 .. DATA_SIZE /\ Least(length, DATA_SIZE) = 0
      BY <2>1, <3>1 DEF Least
    <3>3. s = <<Slice("HEAD", 0, 0)>> \o Rest(length)[0]
      BY <3>2 DEF PacketToFlits
    <3>4. Rest(length)[0] = <<>>
      BY <2>1, RestCuts
    <3> DEFINE h == Slice("HEAD", 0, 0)
    <3> HIDE DEF s, h
    <3>5. s = <<h>>
      BY <3>3, <3>4 DEF h
    <3>6. QED
      BY <3>5 DEF h
  <2>2. QED
    BY <2>1
<1> HIDE DEF s
<1>3. Len(s) \in Nat /\ m \in Nat /\ m >= 1 /\ m <= Len(s)
  BY <1>1 DEF s
<1>4. s[m].type \in {"TAIL", "HEAD_TAIL"} <=> length > 0 /\ m = Len(s)
  <2>1. CASE length = 0
    <3>1. m = 1 /\ s[1] = Slice("HEAD", 0, 0)
      <4>1. Len(s) = 1 /\ s[1] = Slice("HEAD", 0, 0)
        BY <1>2, <2>1
      <4>2. m = 1
        BY <1>3, <4>1
      <4>3. QED
        BY <4>1, <4>2, Zenon
    <3>2. s[m].type = "HEAD"
      BY <3>1 DEF Slice
    <3>3. QED
      BY <2>1, <3>2
  <2>2. CASE length > 0
    <3>1. s[m].type = TypeAt(m, Len(s))
      BY <1>1, <1>3, <2>2
    <3>2. TypeAt(m, Len(s)) \in {"TAIL", "HEAD_TAIL"} <=> m = Len(s)
      BY <1>3, LastEnds
    <3>3. QED
      BY <2>2, <3>1, <3>2
  <2>3. QED
    BY <2>1, <2>2
<1>5. s[m].length > 0 => length > 0
  <2>1. ASSUME length = 0 PROVE s[m].length = 0
    <3>1. m = 1 /\ s[1] = Slice("HEAD", 0, 0)
      <4>1. Len(s) = 1 /\ s[1] = Slice("HEAD", 0, 0)
        BY <1>2, <2>1
      <4>2. m = 1
        BY <1>3, <4>1
      <4>3. QED
        BY <4>1, <4>2, Zenon
    <3>2. QED
      BY <3>1 DEF Slice
  <2>2. QED
    BY <2>1
<1>6. s[m].offset > 0 =>
        /\ m - 1 \in 1 .. Len(s)
        /\ s[m - 1].offset + s[m - 1].length = s[m].offset
  <2>1. SUFFICES ASSUME s[m].offset > 0
                 PROVE  /\ m - 1 \in 1 .. Len(s)
                        /\ s[m - 1].offset + s[m - 1].length = s[m].offset
    OBVIOUS
  <2>2. m # 1
    BY <1>1, <2>1
  <2>3. m - 1 \in 1 .. Len(s) - 1 /\ (m - 1) + 1 = m
    BY <1>3, <2>2
  <2>4. s[(m - 1) + 1].offset = s[m - 1].offset + s[m - 1].length
    BY <1>1, <2>3
  <2>5. QED
    BY <1>3, <2>3, <2>4
<1>7. QED
  BY <1>1, <1>3, <1>4, <1>5, <1>6 DEF s

\* The flits with the same packet_id are those of the packet.
LEMMA InPacket ==
  ASSUME OInv, NEW n \in Node, NEW k \in 1 .. Len(sent[n]),
         NEW dest \in Node, NEW length \in Nat, NEW a \in Nat,
         PacketAt(n, k, dest, length, a),
         NEW j \in 1 .. Len(sent[n]), sent[n][j].packet_id = sent[n][k].packet_id
  PROVE  /\ j - a \in 1 .. Len(PacketToFlits(length))
         /\ sent[n][j].slice = PacketToFlits(length)[j - a]
         /\ sent[n][j].dest = dest
<1> DEFINE s == PacketToFlits(length)
<1>1. s \in Seq(Slices)
  BY PacketCut
<1>2. /\ j \in a + 1 .. a + Len(s)
      /\ \A i \in 1 .. Len(s) : sent[n][a + i].dest = dest /\ sent[n][a + i].slice = s[i]
  BY DEF PacketAt
<1> HIDE DEF s
<1>3. j - a \in 1 .. Len(s) /\ a + (j - a) = j
  BY <1>1, <1>2
<1>4. sent[n][j].dest = dest /\ sent[n][j].slice = s[j - a]
  BY <1>2, <1>3
<1>5. QED
  BY <1>3, <1>4 DEF s

-----------------------------------------------------------------------------
\* What has arrived is a flit that was sent there.
LEMMA Arrived ==
  ASSUME OInv, NEW n \in Node, NEW m \in 1 .. Len(received[n])
  PROVE  /\ received[n][m] \in Flits /\ received[n][m].dest = n
         /\ received[n][m].src \in Node
         /\ \E l \in 1 .. Len(sent[received[n][m].src]) :
              sent[received[n][m].src][l] = received[n][m]
BY AtHome DEF Contains

(***************************************************************************)
(* For any mesh, traffic and length of packets: no flit is lost or         *)
(* duplicated, and nothing else is anywhere.                               *)
(***************************************************************************)
THEOREM EachFlitOnce == Spec => []FlitsExactlyOnce
<1>1. OInv /\ NoFlitLost => FlitsExactlyOnce
  <2>1. SUFFICES ASSUME OInv, NoFlitLost PROVE FlitsExactlyOnce
    OBVIOUS
  <2>2. ASSUME NEW n \in Node PROVE IsInjective(sent[n])
    <3>1. sent[n] \in Seq(Flits)
      BY <2>1 DEF OInv, IInv, TypeOK
    <3>2. DOMAIN sent[n] = 1 .. Len(sent[n])
      BY <3>1
    <3>3. ASSUME NEW k \in 1 .. Len(sent[n]), NEW l \in 1 .. Len(sent[n]),
                 sent[n][k] = sent[n][l]
          PROVE  k = l
      BY <2>1, <3>3, SentOnce
    <3>4. QED
      BY <3>2, <3>3 DEF IsInjective
  <2>3. OncePlaced /\ Known
    BY <2>1 DEF OInv
  <2>4. QED
    BY <2>1, <2>2, <2>3 DEF FlitsExactlyOnce, OncePlaced, Known
<1>2. QED
  BY <1>1, OrderInductive, NothingLost, PTL

(***************************************************************************)
(* For any mesh, traffic and length of packets: flits arrive where they    *)
(* are sent, once, and from each terminal in the order they were sent.     *)
(***************************************************************************)
THEOREM ArrivalInOrder == Spec => []InOrder
<1>1. OInv /\ NoFlitLost => InOrder
  <2>1. SUFFICES ASSUME OInv, NoFlitLost, NEW n \in Node
                 PROVE  /\ \A i \in 1 .. Len(received[n]) : received[n][i].dest = n
                        /\ IsInjective(received[n])
                        /\ \A src \in Node : \A l \in 1 .. Len(sent[src]) :
                             \A k \in 1 .. l - 1 :
                               sent[src][k].dest = n =>
                                 \A j \in 1 .. Len(received[n]) :
                                   received[n][j] = sent[src][l] =>
                                     \E i \in 1 .. j - 1 : received[n][i] = sent[src][k]
    BY DEF InOrder
  <2>2. \A i \in 1 .. Len(received[n]) : received[n][i].dest = n
    BY <2>1, AtHome
  <2>3. IsInjective(received[n])
    <3>1. DOMAIN received[n] = 1 .. Len(received[n])
      <4>1. received[n] \in Seq(Flits)
        BY <2>1 DEF OInv, IInv, TypeOK
      <4>2. QED
        BY <4>1
    <3>2. <<n, Home>> \in Places /\ Held(<<n, Home>>) = received[n] /\ OncePlaced
      BY <2>1, AtHome DEF OInv
    <3>3. ASSUME NEW i \in 1 .. Len(received[n]), NEW j \in 1 .. Len(received[n]),
                 received[n][i] = received[n][j]
          PROVE  i = j
      BY <3>2, <3>3, PlacedOnce
    <3>4. QED
      BY <3>1, <3>3 DEF IsInjective
  <2>4. ASSUME NEW src \in Node, NEW l \in 1 .. Len(sent[src]), NEW k \in 1 .. l - 1,
               sent[src][k].dest = n,
               NEW j \in 1 .. Len(received[n]), received[n][j] = sent[src][l]
        PROVE  \E i \in 1 .. j - 1 : received[n][i] = sent[src][k]
    BY <2>1, <2>4, ArrivedBefore
  <2>5. QED
    BY <2>2, <2>3, <2>4
<1>2. QED
  BY <1>1, OrderInductive, NothingLost, PTL

\* What arrives with the last flit of a packet, and before any other.
LEMMA PacketArrives ==
  ASSUME OInv, NoFlitLost, NEW n \in Node, NEW m \in 1 .. Len(received[n])
  PROVE  LET f == received[n][m]
         IN  /\ EndsPacket(f) =>
                  \A k \in 1 .. Len(sent[f.src]) :
                    sent[f.src][k].packet_id = f.packet_id =>
                      \E i \in 1 .. m : received[n][i] = sent[f.src][k]
             /\ f.slice.offset > 0 =>
                  \E i \in 1 .. m - 1 :
                    LET g == received[n][i]
                    IN  /\ g.packet_id = f.packet_id
                        /\ g.slice.offset + g.slice.length = f.slice.offset
<1> DEFINE f == received[n][m]
           src == f.src
<1>1. f \in Flits /\ f.dest = n /\ src \in Node
  BY Arrived
<1>2. PICK l \in 1 .. Len(sent[src]) : sent[src][l] = f
  BY Arrived
<1> HIDE DEF f, src
<1>3. PICK dest \in Node, length \in Nat, a \in Nat : PacketAt(src, l, dest, length, a)
  BY <1>1, PacketOf
<1> DEFINE s == PacketToFlits(length)
<1>4. ASSUME NEW k \in 1 .. Len(sent[src]), sent[src][k].packet_id = f.packet_id
      PROVE  /\ k - a \in 1 .. Len(s) /\ sent[src][k].slice = s[k - a]
             /\ sent[src][k].dest = dest
  BY <1>1, <1>2, <1>3, <1>4, InPacket
<1>5. l - a \in 1 .. Len(s) /\ f.slice = s[l - a] /\ dest = n
  BY <1>1, <1>2, <1>4
<1>6. /\ Len(s) \in Nat
      /\ EndsPacket(f) => l - a = Len(s)
      /\ f.slice.offset > 0 =>
           /\ (l - a) - 1 \in 1 .. Len(s)
           /\ s[(l - a) - 1].offset + s[(l - a) - 1].length = f.slice.offset
  <2> DEFINE c == l - a
  <2>1. c \in 1 .. Len(s) /\ f.slice = s[c]
    BY <1>5
  <2> HIDE DEF c
  <2>2. /\ Len(s) \in Nat
        /\ s[c].type \in {"TAIL", "HEAD_TAIL"} => c = Len(s)
        /\ s[c].offset > 0 => /\ c - 1 \in 1 .. Len(s)
                              /\ s[c - 1].offset + s[c - 1].length = s[c].offset
    BY <2>1, SliceFacts
  <2>3. QED
    BY <2>1, <2>2 DEF EndsPacket, c
<1>7. ASSUME NEW k \in 1 .. l - 1, sent[src][k].dest = n
      PROVE  \E i \in 1 .. m - 1 : received[n][i] = sent[src][k]
  BY <1>1, <1>2, <1>7, ArrivedBefore DEF f
<1>8. Len(sent[src]) \in Nat /\ Len(received[n]) \in Nat
  BY <1>1 DEF OInv, IInv, TypeOK
<1>9. ASSUME EndsPacket(f), NEW k \in 1 .. Len(sent[src]),
             sent[src][k].packet_id = f.packet_id
      PROVE  \E i \in 1 .. m : received[n][i] = sent[src][k]
  <2>1. k <= l
    BY <1>4, <1>5, <1>6, <1>8, <1>9
  <2>2. CASE k = l
    BY <1>2, <1>8, <2>2 DEF f
  <2>3. CASE k < l
    <3>1. k \in 1 .. l - 1 /\ sent[src][k].dest = n
      <4>1. k \in 1 .. l - 1
        BY <1>8, <1>9, <2>3
      <4>2. QED
        BY <1>4, <1>5, <1>9, <4>1
    <3>2. PICK i \in 1 .. m - 1 : received[n][i] = sent[src][k]
      BY <1>7, <3>1
    <3>3. i \in 1 .. m
      BY <1>8
    <3>4. QED
      BY <3>2, <3>3
  <2>4. QED
    BY <1>8, <2>1, <2>2, <2>3
<1>10. ASSUME f.slice.offset > 0
       PROVE  \E i \in 1 .. m - 1 :
                /\ received[n][i].packet_id = f.packet_id
                /\ received[n][i].slice.offset + received[n][i].slice.length
                     = f.slice.offset
  <2> DEFINE k == l - 1
  <2>1. k - a \in 1 .. Len(s) /\ s[k - a].offset + s[k - a].length = f.slice.offset
    <3>1. (l - a) - 1 = k - a
      BY <1>8
    <3>2. QED
      BY <1>6, <1>10, <3>1
  <2>2. k \in 1 .. l - 1 /\ k \in 1 .. Len(sent[src])
    BY <1>6, <1>8, <2>1
  <2>3. sent[src][k].packet_id = f.packet_id
    <3>1. k \in a + 1 .. a + Len(s)
      BY <1>6, <2>1
    <3>2. \A j \in 1 .. Len(sent[src]) :
            sent[src][j].packet_id = sent[src][l].packet_id <=> j \in a + 1 .. a + Len(s)
      BY <1>3 DEF PacketAt
    <3> HIDE DEF k, s
    <3>3. QED
      BY <1>2, <2>2, <3>1, <3>2
  <2> HIDE DEF k
  <2>4. sent[src][k].slice = s[k - a] /\ sent[src][k].dest = n
    BY <1>4, <1>5, <2>2, <2>3
  <2>5. PICK i \in 1 .. m - 1 : received[n][i] = sent[src][k]
    BY <1>7, <2>2, <2>4
  <2>6. QED
    BY <2>1, <2>3, <2>4, <2>5
<1>11. QED
  BY <1>9, <1>10 DEF f, src

\* One tail ends each packet that carries data.
LEMMA OneTail ==
  ASSUME OInv, NEW n \in Node, NEW k \in 1 .. Len(sent[n]),
         sent[n][k].slice.length > 0
  PROVE  \E l \in k .. Len(sent[n]) :
           \A j \in 1 .. Len(sent[n]) :
             sent[n][j].packet_id = sent[n][k].packet_id /\ EndsPacket(sent[n][j])
               <=> j = l
<1> DEFINE p == sent[n][k].packet_id
<1>1. PICK dest \in Node, length \in Nat, a \in Nat : PacketAt(n, k, dest, length, a)
  BY PacketOf
<1> DEFINE s == PacketToFlits(length)
           l == a + Len(s)
<1>2. ASSUME NEW j \in 1 .. Len(sent[n]), sent[n][j].packet_id = p
      PROVE  /\ j - a \in 1 .. Len(s) /\ sent[n][j].slice = s[j - a]
             /\ EndsPacket(sent[n][j]) <=> length > 0 /\ j - a = Len(s)
             /\ sent[n][j].slice.length > 0 => length > 0
  <2>1. j - a \in 1 .. Len(s) /\ sent[n][j].slice = s[j - a]
    BY <1>1, <1>2, InPacket
  <2> DEFINE c == j - a
  <2> HIDE DEF c
  <2>2. /\ s[c].type \in {"TAIL", "HEAD_TAIL"} <=> length > 0 /\ c = Len(s)
        /\ s[c].length > 0 => length > 0
    BY <2>1, SliceFacts DEF c
  <2>3. QED
    BY <2>1, <2>2 DEF EndsPacket, c
<1>3. length > 0 /\ k - a \in 1 .. Len(s)
  BY <1>2
<1>4. /\ a + Len(s) <= Len(sent[n])
      /\ \A j \in 1 .. Len(sent[n]) :
           sent[n][j].packet_id = p <=> j \in a + 1 .. a + Len(s)
  BY <1>1 DEF PacketAt
<1>5. s \in Seq(Slices) /\ sent[n] \in Seq(Flits)
  BY PacketCut DEF OInv, IInv, TypeOK
<1>6. Len(s) \in Nat /\ Len(sent[n]) \in Nat
  BY <1>5
<1> HIDE DEF s, p
<1>7. l \in k .. Len(sent[n]) /\ l \in 1 .. Len(sent[n]) /\ l \in a + 1 .. a + Len(s)
  BY <1>3, <1>4, <1>6
<1>8. ASSUME NEW j \in 1 .. Len(sent[n])
      PROVE  sent[n][j].packet_id = p /\ EndsPacket(sent[n][j]) <=> j = l
  <2>1. ASSUME sent[n][j].packet_id = p, EndsPacket(sent[n][j]) PROVE j = l
    BY <1>2, <1>6, <2>1
  <2>2. ASSUME j = l PROVE sent[n][j].packet_id = p /\ EndsPacket(sent[n][j])
    <3>1. sent[n][j].packet_id = p
      BY <1>4, <1>7, <2>2
    <3>2. j - a = Len(s)
      BY <1>6, <2>2
    <3>3. QED
      BY <1>2, <1>3, <3>1, <3>2
  <2>3. QED
    BY <2>1, <2>2
<1> HIDE DEF l
<1>9. QED
  BY <1>7, <1>8 DEF p

(***************************************************************************)
(* For any mesh, traffic and length of packets: a packet with data has one *)
(* last flit, and that arrives last of all its flits; each flit arrives    *)
(* after the one before it.                                                *)
(***************************************************************************)
THEOREM TailIsLast == Spec => []TailCompletesPacket
<1>1. OInv /\ NoFlitLost => TailCompletesPacket
  BY OneTail, PacketArrives DEF TailCompletesPacket
<1>2. QED
  BY <1>1, OrderInductive, NothingLost, PTL

(***************************************************************************)
(* For any mesh, traffic, length of packets and size of flits: what        *)
(* packetToFlits() has made of a packet with data, and the mesh was given, *)
(* is cut where the other two places of the code would cut it.             *)
(***************************************************************************)
THEOREM SameFlits == Spec => []SplittersAgree
<1>1. OInv => SplittersAgree
  <2>1. SUFFICES ASSUME OInv, NEW n \in Node, NEW k \in 1 .. Len(sent[n]),
                        EndsPacket(sent[n][k])
                 PROVE  LET f == sent[n][k]
                            length == f.slice.offset + f.slice.length
                            parts == TerminalFlits(length)
                            first == k - Len(parts) + 1
                        IN  /\ first \in 1 .. k
                            /\ \A j \in 1 .. Len(sent[n]) :
                                 sent[n][j].packet_id = f.packet_id <=> j \in first .. k
                            /\ \A j \in first .. k :
                                 PartOf(sent[n][j].slice) = parts[j - first + 1]
                            /\ sent[n][first].slice = FlitOfPacket(length)
    BY DEF SplittersAgree
  <2> DEFINE f == sent[n][k]
             p == f.packet_id
  <2>2. PICK dest \in Node, length \in Nat, a \in Nat : PacketAt(n, k, dest, length, a)
    BY <2>1, PacketOf
  <2> DEFINE s == PacketToFlits(length)
             c == k - a
             first == k - Len(s) + 1
  <2>3. c \in 1 .. Len(s) /\ f.slice = s[c]
    BY <2>1, <2>2, InPacket
  <2>4. /\ Len(s) \in Nat /\ length > 0 /\ c = Len(s)
        /\ f.slice.offset + f.slice.length = length
    <3> HIDE DEF c
    <3>1. /\ Len(s) \in Nat
          /\ s[c].type \in {"TAIL", "HEAD_TAIL"} <=> length > 0 /\ c = Len(s)
          /\ c = Len(s) => s[c].offset + s[c].length = length
      BY <2>3, SliceFacts
    <3>2. s[c].type \in {"TAIL", "HEAD_TAIL"}
      BY <2>1, <2>3 DEF EndsPacket
    <3>3. QED
      BY <2>3, <3>1, <3>2
  <2>5. /\ Len(TerminalFlits(length)) = Len(s)
        /\ \A i \in 1 .. Len(s) : TerminalFlits(length)[i] = PartOf(s[i])
        /\ s[1] = FlitOfPacket(length)
    BY <2>4, SplittersEqual
  <2>6. /\ \A j \in 1 .. Len(sent[n]) :
             sent[n][j].packet_id = p <=> j \in a + 1 .. a + Len(s)
        /\ \A j \in 1 .. Len(s) : sent[n][a + j].slice = s[j]
    BY <2>2 DEF PacketAt
  <2> HIDE DEF s
  <2>7. first = a + 1 /\ k = a + Len(s) /\ first \in 1 .. k
    <3> DEFINE len == Len(s)
    <3>1. k - a = len /\ len \in Nat /\ k - a >= 1
      BY <2>3, <2>4
    <3>2. k \in Int
      OBVIOUS
    <3> HIDE DEF len
    <3>3. k - len + 1 = a + 1 /\ k = a + len /\ k - len + 1 \in 1 .. k
      BY <3>1, <3>2
    <3>4. QED
      BY <3>3 DEF len
  <2>8. ASSUME NEW j \in first .. k
        PROVE  /\ sent[n][j].slice = s[j - first + 1]
               /\ PartOf(sent[n][j].slice) = TerminalFlits(length)[j - first + 1]
    <3>1. j - a \in 1 .. Len(s) /\ a + (j - a) = j /\ j - first + 1 = j - a
      BY <2>4, <2>7
    <3>2. sent[n][j].slice = s[j - first + 1]
      BY <2>6, <3>1
    <3>3. TerminalFlits(length)[j - a] = PartOf(s[j - a])
      BY <2>5, <3>1
    <3>4. QED
      BY <3>1, <3>2, <3>3
  <2>9. \A j \in 1 .. Len(sent[n]) : sent[n][j].packet_id = p <=> j \in first .. k
    BY <2>6, <2>7
  <2>10. sent[n][first].slice = FlitOfPacket(length)
    <3>1. first \in first .. k /\ first - first + 1 = 1
      BY <2>1, <2>7
    <3>2. sent[n][first].slice = s[1]
      BY <2>8, <3>1
    <3>3. QED
      BY <2>5, <3>2
  <2>11. k - Len(TerminalFlits(length)) + 1 = first
    BY <2>5
  <2> HIDE DEF first, p
  <2>12. QED
    BY <2>4, <2>7, <2>8, <2>9, <2>10, <2>11 DEF p
<1>2. QED
  BY <1>1, OrderInductive, PTL
===============================================================================
