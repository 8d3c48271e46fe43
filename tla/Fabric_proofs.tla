----------------------------- MODULE Fabric_proofs -----------------------------
(***************************************************************************)
(* Proofs of the safety properties of Fabric, on every topology of links,  *)
(* for any sizes of the buffers and anything that the sources send.        *)
(*                                                                         *)
(* All buffers and queues are taken together as one function, of which a   *)
(* step cuts the front of one sequence or puts a request at the end of     *)
(* one, or does both.                                                      *)
(*                                                                         *)
(* The second half is about order.  By their addresses, the requests of    *)
(* one source to one target take the same way, which passes each queue at  *)
(* most once.  The places on it are numbered, and the later request is     *)
(* never ahead; but in a queue that can no longer give anything away,      *)
(* since its output is full, the two may be in any order.                  *)
(***************************************************************************)
EXTENDS Fabric, FiniteSetTheorems, WellFoundedInduction, TLAPS

Pkts == [src : Sources, num : Nat]

\* What all places for requests hold, as one function.
ContentsOf(out, in, queue, target) ==
  [x \in Spots |-> CASE x[1] = "out" -> out[x[2]]
                     [] x[1] = "in" -> in[x[2]]
                     [] x[1] = "queue" -> queue[x[2]]
                     [] x[1] = "target" -> target[x[2]]]
Contents == ContentsOf(out_vc, in_vc, req_queue, handled)

AllContents == [Spots -> Seq(Pkts)]
With(f, x, v) == [f EXCEPT ![x] = v]
Cut(c, x) == With(c, x, Tail(c[x]))
Put(c, y, p) == With(c, y, Append(c[y], p))

Nowhere(c, p) == \A x \in Spots : \A i \in 1 .. Len(c[x]) : c[x][i] # p
OnlyAt(c, p, x, i) ==
  /\ i \in 1 .. Len(c[x]) /\ c[x][i] = p
  /\ \A y \in Spots : \A j \in 1 .. Len(c[y]) : c[y][j] = p => y = x /\ j = i
Once(c, p) == \E x \in Spots : \E i \in 1 .. Len(c[x]) : OnlyAt(c, p, x, i)

\* The request p is in one place, or nowhere, if the pool got back those in
\* gone and those in away are lost.
InOnePlace(c, gone, away, p) ==
  \/ Once(c, p) /\ p \notin gone /\ p \notin away
  \/ Nowhere(c, p) /\ p \in gone /\ p \notin away
  \/ Nowhere(c, p) /\ p \notin gone /\ p \in away
InNoPlace(c, gone, away, p) == Nowhere(c, p) /\ p \notin gone /\ p \notin away

\* Of each source m[s] requests have been sent.
Accounted(c, gone, away, m) ==
  \A p \in Pkts : /\ p.num \in 1 .. m[p.src] => InOnePlace(c, gone, away, p)
                  /\ p.num \notin 1 .. m[p.src] => InNoPlace(c, gone, away, p)

Typed ==
  /\ program \in Programs
  /\ sent \in [Sources -> Nat]
  /\ \A s \in Sources : sent[s] <= Len(program[s])
  /\ out_vc \in [Wires -> Seq(Pkts)] /\ in_vc \in [Wires -> Seq(Pkts)]
  /\ req_queue \in [Queueing -> Seq(Pkts)]
  /\ handled \in [Targets -> Seq(Pkts)]

\* Of each request that a target handled there is one response, and of no other:
\* one of those under way, a, or that came back, b, or one of those in d.
Of(set, p) == {r \in set : r.pkt = p}
OneResponse(a, b, d, p) ==
  \/ (\E r : Of(a, p) = {r}) /\ Of(b, p) = {} /\ p \notin d
  \/ Of(a, p) = {} /\ (\E r : Of(b, p) = {r}) /\ p \notin d
  \/ Of(a, p) = {} /\ Of(b, p) = {} /\ p \in d
NoResponse(a, b, d, p) == Of(a, p) = {} /\ Of(b, p) = {} /\ p \notin d

AtTarget(h, p) == \E t \in Targets : \E i \in 1 .. Len(h[t]) : h[t][i] = p
RightAnswers(h, a, b, d, p) ==
  /\ AtTarget(h, p) => OneResponse(a, b, d, p)
  /\ ~ AtTarget(h, p) => NoResponse(a, b, d, p)
Answered == \A p \in Pkts : RightAnswers(handled, answers, returned, dropped, p)

(***************************************************************************)
(* The inductive invariant.                                                *)
(***************************************************************************)
IInv ==
  /\ Typed
  /\ Accounted(Contents, released, LostPackets, sent)
  /\ \A l \in lost : MayLose(l)
  /\ Answered

-------------------------------------------------------------------------------
\* A spot of each kind.
LEMMA SpotsAre ==
  /\ \A w \in Wires : <<"out", w>> \in Spots /\ <<"in", w>> \in Spots
  /\ \A d \in Queueing : <<"queue", d>> \in Spots
  /\ \A t \in Targets : <<"target", t>> \in Spots
  /\ \A x \in Spots : \/ x[1] \in {"out", "in"} /\ x[2] \in Wires /\ x = <<x[1], x[2]>>
                      \/ x[1] = "queue" /\ x[2] \in Queueing /\ x = <<x[1], x[2]>>
                      \/ x[1] = "target" /\ x[2] \in Targets /\ x = <<x[1], x[2]>>
BY DEF Spots

\* What the spots of each kind hold.
LEMMA OutAt ==
  ASSUME NEW o, NEW n, NEW q, NEW h, NEW w \in Wires
  PROVE  ContentsOf(o, n, q, h)[<<"out", w>>] = o[w]
BY SpotsAre DEF ContentsOf

LEMMA InAt ==
  ASSUME NEW o, NEW n, NEW q, NEW h, NEW w \in Wires
  PROVE  ContentsOf(o, n, q, h)[<<"in", w>>] = n[w]
BY SpotsAre DEF ContentsOf

LEMMA QueueAt ==
  ASSUME NEW o, NEW n, NEW q, NEW h, NEW d \in Queueing
  PROVE  ContentsOf(o, n, q, h)[<<"queue", d>>] = q[d]
BY SpotsAre DEF ContentsOf

LEMMA TargetAt ==
  ASSUME NEW o, NEW n, NEW q, NEW h, NEW t \in Targets
  PROVE  ContentsOf(o, n, q, h)[<<"target", t>>] = h[t]
BY SpotsAre DEF ContentsOf

\* The contents are typed.
LEMMA ContentsTyped ==
  ASSUME NEW o \in [Wires -> Seq(Pkts)], NEW n \in [Wires -> Seq(Pkts)],
         NEW q \in [Queueing -> Seq(Pkts)], NEW h \in [Targets -> Seq(Pkts)]
  PROVE  ContentsOf(o, n, q, h) \in AllContents
<1> DEFINE c == ContentsOf(o, n, q, h)
<1>1. ASSUME NEW x \in Spots PROVE c[x] \in Seq(Pkts)
  <2> HIDE DEF c
  <2>1. CASE x[1] \in {"out", "in"} /\ x[2] \in Wires /\ x = <<x[1], x[2]>>
    <3>1. PICK w \in Wires : x = <<"out", w>> \/ x = <<"in", w>>
      BY <2>1
    <3>2. c[<<"out", w>>] = o[w] /\ c[<<"in", w>>] = n[w]
      BY OutAt, InAt DEF c
    <3>3. QED
      BY <3>1, <3>2
  <2>2. CASE x[1] = "queue" /\ x[2] \in Queueing /\ x = <<x[1], x[2]>>
    <3>1. PICK d \in Queueing : x = <<"queue", d>>
      BY <2>2
    <3>2. c[<<"queue", d>>] = q[d]
      BY QueueAt DEF c
    <3>3. QED
      BY <3>1, <3>2
  <2>3. CASE x[1] = "target" /\ x[2] \in Targets /\ x = <<x[1], x[2]>>
    <3>1. PICK t \in Targets : x = <<"target", t>>
      BY <2>3
    <3>2. c[<<"target", t>>] = h[t]
      BY TargetAt DEF c
    <3>3. QED
      BY <3>1, <3>2
  <2>4. QED
    BY <2>1, <2>2, <2>3, SpotsAre
<1>2. DOMAIN c = Spots /\ c = [x \in Spots |-> c[x]]
  <2> DEFINE at(x) == CASE x[1] = "out" -> o[x[2]]
                        [] x[1] = "in" -> n[x[2]]
                        [] x[1] = "queue" -> q[x[2]]
                        [] x[1] = "target" -> h[x[2]]
  <2>1. c = [x \in Spots |-> at(x)]
    BY Zenon DEF ContentsOf
  <2> HIDE DEF at, c
  <2>2. QED
    BY <2>1
<1> HIDE DEF c
<1>3. QED
  BY <1>1, <1>2 DEF AllContents, c

\* A buffer, a queue or what a target has handled changes.
LEMMA OutChanged ==
  ASSUME NEW o, NEW n, NEW q, NEW h, NEW w \in Wires, NEW v, DOMAIN o = Wires
  PROVE  ContentsOf(With(o, w, v), n, q, h)
           = With(ContentsOf(o, n, q, h), <<"out", w>>, v)
BY SpotsAre DEF ContentsOf, With

LEMMA InChanged ==
  ASSUME NEW o, NEW n, NEW q, NEW h, NEW w \in Wires, NEW v, DOMAIN n = Wires
  PROVE  ContentsOf(o, With(n, w, v), q, h)
           = With(ContentsOf(o, n, q, h), <<"in", w>>, v)
BY SpotsAre DEF ContentsOf, With

LEMMA QueueChanged ==
  ASSUME NEW o, NEW n, NEW q, NEW h, NEW d \in Queueing, NEW v, DOMAIN q = Queueing
  PROVE  ContentsOf(o, n, With(q, d, v), h)
           = With(ContentsOf(o, n, q, h), <<"queue", d>>, v)
BY SpotsAre DEF ContentsOf, With

LEMMA TargetChanged ==
  ASSUME NEW o, NEW n, NEW q, NEW h, NEW t \in Targets, NEW v, DOMAIN h = Targets
  PROVE  ContentsOf(o, n, q, With(h, t, v))
           = With(ContentsOf(o, n, q, h), <<"target", t>>, v)
BY SpotsAre DEF ContentsOf, With

-------------------------------------------------------------------------------
\* What is left in a place of which the front is cut off.
LEMMA AfterCut ==
  ASSUME NEW c \in AllContents, NEW x \in Spots, c[x] # <<>>
  PROVE  /\ Cut(c, x) \in AllContents
         /\ c[x][1] \in Pkts /\ 1 \in 1 .. Len(c[x]) /\ Head(c[x]) = c[x][1]
         /\ Len(Cut(c, x)[x]) = Len(c[x]) - 1 /\ Len(c[x]) \in Nat
         /\ \A i \in 1 .. Len(c[x]) - 1 : Cut(c, x)[x][i] = c[x][i + 1]
         /\ \A y \in Spots \ {x} : Cut(c, x)[y] = c[y]
<1>1. c[x] \in Seq(Pkts) /\ c \in [Spots -> Seq(Pkts)]
  BY DEF AllContents
<1>2. /\ Tail(c[x]) \in Seq(Pkts) /\ Len(Tail(c[x])) = Len(c[x]) - 1
      /\ \A i \in 1 .. Len(c[x]) - 1 : Tail(c[x])[i] = c[x][i + 1]
      /\ Head(c[x]) = c[x][1] /\ c[x][1] \in Pkts /\ Len(c[x]) \in Nat /\ Len(c[x]) >= 1
  BY <1>1
<1>3. /\ Cut(c, x) \in [Spots -> Seq(Pkts)] /\ Cut(c, x)[x] = Tail(c[x])
      /\ \A y \in Spots \ {x} : Cut(c, x)[y] = c[y]
  BY <1>1, <1>2 DEF Cut, With
<1>4. QED
  BY <1>2, <1>3 DEF AllContents

\* What a place has at whose end p is put.
LEMMA AfterPut ==
  ASSUME NEW c \in AllContents, NEW x \in Spots, NEW p \in Pkts
  PROVE  /\ Put(c, x, p) \in AllContents
         /\ Len(Put(c, x, p)[x]) = Len(c[x]) + 1 /\ Len(c[x]) \in Nat
         /\ \A i \in 1 .. Len(c[x]) : Put(c, x, p)[x][i] = c[x][i]
         /\ Put(c, x, p)[x][Len(c[x]) + 1] = p
         /\ \A y \in Spots \ {x} : Put(c, x, p)[y] = c[y]
<1>1. c[x] \in Seq(Pkts) /\ c \in [Spots -> Seq(Pkts)]
  BY DEF AllContents
<1>2. /\ Append(c[x], p) \in Seq(Pkts) /\ Len(Append(c[x], p)) = Len(c[x]) + 1
      /\ \A i \in 1 .. Len(c[x]) : Append(c[x], p)[i] = c[x][i]
      /\ Append(c[x], p)[Len(c[x]) + 1] = p /\ Len(c[x]) \in Nat
  BY <1>1
<1>3. /\ Put(c, x, p) \in [Spots -> Seq(Pkts)] /\ Put(c, x, p)[x] = Append(c[x], p)
      /\ \A y \in Spots \ {x} : Put(c, x, p)[y] = c[y]
  BY <1>1, <1>2 DEF Put, With
<1>4. QED
  BY <1>2, <1>3 DEF AllContents

\* A request is still nowhere after a cut, or where it was.
LEMMA CutOnce ==
  ASSUME NEW c \in AllContents, NEW x \in Spots, c[x] # <<>>, NEW q
  PROVE  /\ Nowhere(c, q) => Nowhere(Cut(c, x), q)
         /\ Once(c, q) /\ q # Head(c[x]) => Once(Cut(c, x), q)
         /\ Once(c, q) /\ q = Head(c[x]) => Nowhere(Cut(c, x), q)
<1> DEFINE d == Cut(c, x)
<1>1. /\ c[x][1] \in Pkts /\ 1 \in 1 .. Len(c[x]) /\ Head(c[x]) = c[x][1]
      /\ Len(d[x]) = Len(c[x]) - 1 /\ Len(c[x]) \in Nat
      /\ \A i \in 1 .. Len(c[x]) - 1 : d[x][i] = c[x][i + 1]
      /\ \A y \in Spots \ {x} : d[y] = c[y]
  BY AfterCut
<1> HIDE DEF d
\* Position j of place y was position From(y, j) before.
<1> DEFINE From(y, j) == IF y = x THEN j + 1 ELSE j
<1>2. ASSUME NEW y \in Spots, NEW j \in 1 .. Len(d[y])
      PROVE  /\ From(y, j) \in 1 .. Len(c[y]) /\ d[y][j] = c[y][From(y, j)]
             /\ y = x => From(y, j) # 1
  BY <1>1, <1>2
<1>3. ASSUME NEW y \in Spots, NEW i \in 1 .. Len(c[y]), ~ (y = x /\ i = 1)
      PROVE  \E j \in 1 .. Len(d[y]) : From(y, j) = i
  <2>1. CASE y = x
    <3>1. i - 1 \in 1 .. Len(d[y]) /\ (i - 1) + 1 = i
      BY <1>1, <1>3, <2>1
    <3>2. QED
      BY <2>1, <3>1
  <2>2. CASE y # x
    BY <1>1, <2>2
  <2>3. QED
    BY <2>1, <2>2
<1>4. ASSUME NEW y \in Spots, NEW i \in 1 .. Len(d[y]), NEW j \in 1 .. Len(d[y]),
             From(y, i) = From(y, j)
      PROVE  i = j
  BY <1>4
<1> HIDE DEF From
<1>5. Nowhere(c, q) => Nowhere(d, q)
  BY <1>2 DEF Nowhere
<1>6. ASSUME Once(c, q), q # Head(c[x]) PROVE Once(d, q)
  <2>1. PICK y \in Spots : \E i \in 1 .. Len(c[y]) : OnlyAt(c, q, y, i)
    BY <1>6 DEF Once
  <2>2. PICK i \in 1 .. Len(c[y]) : OnlyAt(c, q, y, i)
    BY <2>1
  <2>3. PICK j \in 1 .. Len(d[y]) : From(y, j) = i
    BY <1>1, <1>3, <1>6, <2>2 DEF OnlyAt
  <2>4. d[y][j] = q
    BY <1>2, <2>2, <2>3 DEF OnlyAt
  <2>5. ASSUME NEW z \in Spots, NEW k \in 1 .. Len(d[z]), d[z][k] = q
        PROVE  z = y /\ k = j
    <3>1. From(z, k) \in 1 .. Len(c[z]) /\ c[z][From(z, k)] = q
      BY <1>2, <2>5
    <3>2. z = y /\ From(z, k) = i
      BY <2>2, <3>1 DEF OnlyAt
    <3>3. QED
      BY <1>4, <2>3, <3>2
  <2>6. OnlyAt(d, q, y, j)
    BY <2>4, <2>5 DEF OnlyAt
  <2>7. QED
    BY <2>6 DEF Once
<1>7. ASSUME Once(c, q), q = Head(c[x]) PROVE Nowhere(d, q)
  <2>1. PICK y \in Spots : \E i \in 1 .. Len(c[y]) : OnlyAt(c, q, y, i)
    BY <1>7 DEF Once
  <2>2. PICK i \in 1 .. Len(c[y]) : OnlyAt(c, q, y, i)
    BY <2>1
  <2>3. y = x /\ i = 1
    BY <1>1, <1>7, <2>2 DEF OnlyAt
  <2>4. ASSUME NEW z \in Spots, NEW k \in 1 .. Len(d[z]), d[z][k] = q PROVE FALSE
    <3>1. From(z, k) \in 1 .. Len(c[z]) /\ c[z][From(z, k)] = q
      BY <1>2, <2>4
    <3>2. z = x /\ From(z, k) = 1
      BY <2>2, <2>3, <3>1 DEF OnlyAt
    <3>3. QED
      BY <1>2, <3>2
  <2>5. QED
    BY <2>4 DEF Nowhere
<1>8. QED
  BY <1>5, <1>6, <1>7 DEF d

\* The same of putting p at the end of a place.
LEMMA PutOnce ==
  ASSUME NEW c \in AllContents, NEW x \in Spots, NEW p \in Pkts, NEW q
  PROVE  /\ Nowhere(c, q) /\ q # p => Nowhere(Put(c, x, p), q)
         /\ Once(c, q) /\ q # p => Once(Put(c, x, p), q)
         /\ Nowhere(c, p) => Once(Put(c, x, p), p)
<1> DEFINE d == Put(c, x, p)
           L == Len(c[x]) + 1
<1>1. /\ Len(d[x]) = L /\ Len(c[x]) \in Nat
      /\ \A i \in 1 .. Len(c[x]) : d[x][i] = c[x][i]
      /\ d[x][L] = p
      /\ \A y \in Spots \ {x} : d[y] = c[y]
  BY AfterPut
<1> HIDE DEF d
<1>2. ASSUME NEW y \in Spots, NEW j \in 1 .. Len(d[y]), ~ (y = x /\ j = L)
      PROVE  j \in 1 .. Len(c[y]) /\ d[y][j] = c[y][j]
  BY <1>1, <1>2
<1>3. ASSUME NEW y \in Spots, NEW i \in 1 .. Len(c[y])
      PROVE  i \in 1 .. Len(d[y]) /\ d[y][i] = c[y][i]
  BY <1>1
<1>4. L \in 1 .. Len(d[x])
  BY <1>1
<1> HIDE DEF L
<1>5. ASSUME Nowhere(c, q), q # p PROVE Nowhere(d, q)
  BY <1>1, <1>2, <1>5 DEF Nowhere
<1>6. ASSUME Once(c, q), q # p PROVE Once(d, q)
  <2>1. PICK y \in Spots : \E i \in 1 .. Len(c[y]) : OnlyAt(c, q, y, i)
    BY <1>6 DEF Once
  <2>2. PICK i \in 1 .. Len(c[y]) : OnlyAt(c, q, y, i)
    BY <2>1
  <2>3. i \in 1 .. Len(d[y]) /\ d[y][i] = q
    BY <1>3, <2>2 DEF OnlyAt
  <2>4. ASSUME NEW z \in Spots, NEW k \in 1 .. Len(d[z]), d[z][k] = q
        PROVE  z = y /\ k = i
    <3>1. k \in 1 .. Len(c[z]) /\ c[z][k] = q
      BY <1>1, <1>2, <1>6, <2>4
    <3>2. QED
      BY <2>2, <3>1 DEF OnlyAt
  <2>5. OnlyAt(d, q, y, i)
    BY <2>3, <2>4 DEF OnlyAt
  <2>6. QED
    BY <2>3, <2>5 DEF Once
<1>7. ASSUME Nowhere(c, p) PROVE Once(d, p)
  <2>1. ASSUME NEW z \in Spots, NEW k \in 1 .. Len(d[z]), d[z][k] = p
        PROVE  z = x /\ k = L
    BY <1>2, <1>7, <2>1 DEF Nowhere
  <2>2. OnlyAt(d, p, x, L)
    BY <1>1, <1>4, <2>1 DEF OnlyAt
  <2>3. QED
    BY <1>4, <2>2 DEF Once
<1>8. QED
  BY <1>5, <1>6, <1>7 DEF d

-------------------------------------------------------------------------------
\* A request that is at the front of a place has been sent, and is there only.
LEMMA AtFront ==
  ASSUME NEW c \in AllContents, NEW x \in Spots, c[x] # <<>>,
         NEW gone, NEW away, NEW m, Accounted(c, gone, away, m)
  PROVE  LET p == Head(c[x])
         IN  /\ p \in Pkts /\ p.num \in 1 .. m[p.src]
             /\ Once(c, p) /\ p \notin gone /\ p \notin away
<1> DEFINE p == Head(c[x])
<1>1. c[x][1] = p /\ 1 \in 1 .. Len(c[x]) /\ p \in Pkts
  BY AfterCut
<1>2. ~ Nowhere(c, p)
  BY <1>1 DEF Nowhere
<1>3. p.num \in 1 .. m[p.src] /\ InOnePlace(c, gone, away, p)
  BY <1>1, <1>2 DEF Accounted, InNoPlace
<1>4. QED
  BY <1>1, <1>2, <1>3 DEF InOnePlace

\* A request goes from the front of a place to the end of one, perhaps the same.
LEMMA Moved ==
  ASSUME NEW c \in AllContents, NEW x \in Spots, NEW y \in Spots, c[x] # <<>>,
         NEW gone, NEW away, NEW m, Accounted(c, gone, away, m)
  PROVE  Accounted(Put(Cut(c, x), y, Head(c[x])), gone, away, m)
<1>1. PICK p : p = Head(c[x])
  OBVIOUS
<1>2. Cut(c, x) \in AllContents
  BY AfterCut
<1>3. p \in Pkts /\ p.num \in 1 .. m[p.src] /\ Once(c, p) /\ p \notin gone /\ p \notin away
  BY <1>1, AtFront
<1>4. Once(Put(Cut(c, x), y, p), p)
  BY <1>1, <1>2, <1>3, CutOnce, PutOnce
<1>5. ASSUME NEW q \in Pkts, q # p
      PROVE  /\ Once(c, q) => Once(Put(Cut(c, x), y, p), q)
             /\ Nowhere(c, q) => Nowhere(Put(Cut(c, x), y, p), q)
  <2>1. /\ Nowhere(c, q) => Nowhere(Cut(c, x), q)
        /\ Once(c, q) => Once(Cut(c, x), q)
    BY <1>1, <1>5, CutOnce
  <2>2. /\ Nowhere(Cut(c, x), q) => Nowhere(Put(Cut(c, x), y, p), q)
        /\ Once(Cut(c, x), q) => Once(Put(Cut(c, x), y, p), q)
    BY <1>2, <1>3, <1>5, PutOnce
  <2>3. QED
    BY <2>1, <2>2
<1>6. Accounted(Put(Cut(c, x), y, p), gone, away, m)
  BY <1>3, <1>4, <1>5, Zenon DEF Accounted, InOnePlace, InNoPlace
<1>7. QED
  BY <1>1, <1>6

\* A request from the front of a place goes to the pool, or is lost.
LEMMA Left ==
  ASSUME NEW c \in AllContents, NEW x \in Spots, c[x] # <<>>,
         NEW gone, NEW away, NEW m, Accounted(c, gone, away, m)
  PROVE  /\ Accounted(Cut(c, x), gone \cup {Head(c[x])}, away, m)
         /\ Accounted(Cut(c, x), gone, away \cup {Head(c[x])}, m)
<1>1. PICK p : p = Head(c[x])
  OBVIOUS
<1>2. p \in Pkts /\ p.num \in 1 .. m[p.src] /\ Once(c, p) /\ p \notin gone /\ p \notin away
  BY <1>1, AtFront
<1>3. Nowhere(Cut(c, x), p)
  BY <1>1, <1>2, CutOnce
<1>4. ASSUME NEW q \in Pkts, q # p
      PROVE  /\ Once(c, q) => Once(Cut(c, x), q)
             /\ Nowhere(c, q) => Nowhere(Cut(c, x), q)
             /\ q \in gone \cup {p} <=> q \in gone
             /\ q \in away \cup {p} <=> q \in away
  BY <1>1, <1>4, CutOnce
<1>5. Accounted(Cut(c, x), gone \cup {p}, away, m)
  <2>1. InOnePlace(Cut(c, x), gone \cup {p}, away, p)
    BY <1>2, <1>3 DEF InOnePlace
  <2>2. ASSUME NEW q \in Pkts, q # p
        PROVE  /\ InOnePlace(c, gone, away, q) => InOnePlace(Cut(c, x), gone \cup {p}, away, q)
               /\ InNoPlace(c, gone, away, q) => InNoPlace(Cut(c, x), gone \cup {p}, away, q)
    BY <1>4, <2>2 DEF InOnePlace, InNoPlace
  <2>3. QED
    BY <1>2, <2>1, <2>2 DEF Accounted
<1>6. Accounted(Cut(c, x), gone, away \cup {p}, m)
  <2>1. InOnePlace(Cut(c, x), gone, away \cup {p}, p)
    BY <1>2, <1>3 DEF InOnePlace
  <2>2. ASSUME NEW q \in Pkts, q # p
        PROVE  /\ InOnePlace(c, gone, away, q) => InOnePlace(Cut(c, x), gone, away \cup {p}, q)
               /\ InNoPlace(c, gone, away, q) => InNoPlace(Cut(c, x), gone, away \cup {p}, q)
    BY <1>4, <2>2 DEF InOnePlace, InNoPlace
  <2>3. QED
    BY <1>2, <2>1, <2>2 DEF Accounted
<1>7. QED
  BY <1>1, <1>5, <1>6

\* A source puts its next request at the end of a place.
LEMMA Came ==
  ASSUME NEW c \in AllContents, NEW y \in Spots, NEW gone, NEW away,
         NEW m \in [Sources -> Nat], Accounted(c, gone, away, m), NEW s \in Sources
  PROVE  Accounted(Put(c, y, Packet(s, m[s] + 1)), gone, away, [m EXCEPT ![s] = m[s] + 1])
<1>1. PICK p : p = Packet(s, m[s] + 1)
  OBVIOUS
<1> DEFINE k == [m EXCEPT ![s] = m[s] + 1]
<1>2. /\ p \in Pkts /\ p.src = s /\ p.num = m[s] + 1 /\ m[s] \in Nat
      /\ \A q \in Pkts : q.src = s /\ q.num = m[s] + 1 => q = p
  BY <1>1 DEF Packet, Pkts
<1>3. k[s] = m[s] + 1 /\ \A t \in Sources \ {s} : k[t] = m[t]
  OBVIOUS
<1> HIDE DEF k
<1>4. p.num \notin 1 .. m[p.src] /\ p.num \in 1 .. k[p.src]
  BY <1>2, <1>3
<1>5. ASSUME NEW q \in Pkts, q # p
      PROVE  q.num \in 1 .. k[q.src] <=> q.num \in 1 .. m[q.src]
  <2>1. q.src \in Sources /\ q.num \in Nat
    BY DEF Pkts
  <2>2. CASE q.src # s
    BY <1>3, <2>1, <2>2
  <2>3. CASE q.src = s
    <3>1. q.num # m[s] + 1
      BY <1>2, <1>5, <2>3
    <3>2. QED
      BY <1>2, <1>3, <2>1, <2>3, <3>1
  <2>4. QED
    BY <2>2, <2>3
<1>6. Nowhere(c, p) /\ p \notin gone /\ p \notin away
  BY <1>2, <1>4 DEF Accounted, InNoPlace
<1>7. InOnePlace(Put(c, y, p), gone, away, p)
  BY <1>2, <1>6, PutOnce DEF InOnePlace
<1>8. ASSUME NEW q \in Pkts, q # p
      PROVE  /\ InOnePlace(c, gone, away, q) => InOnePlace(Put(c, y, p), gone, away, q)
             /\ InNoPlace(c, gone, away, q) => InNoPlace(Put(c, y, p), gone, away, q)
  <2>1. /\ Once(c, q) => Once(Put(c, y, p), q)
        /\ Nowhere(c, q) => Nowhere(Put(c, y, p), q)
    BY <1>2, <1>8, PutOnce
  <2>2. QED
    BY <2>1 DEF InOnePlace, InNoPlace
<1>9. Accounted(Put(c, y, p), gone, away, k)
  BY <1>4, <1>5, <1>7, <1>8 DEF Accounted
<1>10. QED
  BY <1>1, <1>9 DEF k

-------------------------------------------------------------------------------
\* An element of a sequence.
LEMMA ElementOfSeq ==
  ASSUME NEW S, NEW f \in Seq(S), NEW i \in 1 .. Len(f)
  PROVE  f[i] \in S
OBVIOUS

\* The wires of the ports.
LEMMA PortWires ==
  ASSUME NEW d, NEW i \in Nat,
         \/ d \in Sources /\ i = 0
         \/ d \in Devices /\ i < Cardinality(Downstream(d))
  PROVE  /\ WireAt(d, i) \in Wires
         /\ WireAt(d, i).from = d /\ WireAt(d, i).out = i
<1>1. \E w \in Wires : <<w.from, w.out>> = <<d, i>>
  <2>1. CASE d \in Sources /\ i = 0
    BY <2>1, Numbering
  <2>2. CASE d \in Devices /\ i < Cardinality(Downstream(d))
    <3>1. {w.out : w \in Downstream(d)} = 0 .. Cardinality(Downstream(d)) - 1
      BY <2>2, Numbering DEF Downstream
    <3>2. Downstream(d) \subseteq Wires /\ IsFiniteSet(Downstream(d))
      BY Wiring, FS_Subset DEF Downstream
    <3>3. Cardinality(Downstream(d)) \in Nat
      BY <3>2, FS_CardinalityType
    <3>4. i \in {w.out : w \in Downstream(d)}
      BY <2>2, <3>1, <3>3
    <3>5. QED
      BY <3>4 DEF Downstream
  <2>3. QED
    BY <2>1, <2>2
<1>2. <<d, i>> \in {<<w.from, w.out>> : w \in Wires}
  BY <1>1
<1>3. WireAt(d, i) = CHOOSE w \in Wires : <<w.from, w.out>> = <<d, i>>
  BY <1>2 DEF WireAt, OutWire
<1>4. QED
  BY <1>1, <1>3

\* The output of a crossbar or an arbiter that has one.
LEMMA OutputWire ==
  ASSUME Typed, NEW d \in Queueing, Downstream(d) # {},
         NEW p \in Pkts, p.num \in 1 .. Len(program[p.src])
  PROVE  /\ Output(d, p) \in Wires /\ Output(d, p).from = d
<1>1. Downstream(d) \subseteq Wires /\ IsFiniteSet(Downstream(d)) /\ d \in Devices
  BY Wiring, FS_Subset DEF Downstream, Devices
<1>2. Cardinality(Downstream(d)) \in Nat /\ Cardinality(Downstream(d)) # 0
  BY <1>1, FS_CardinalityType, FS_EmptySet
<1>3. PICK n : n = Cardinality(Downstream(d))
  OBVIOUS
<1>4. p.src \in Sources /\ program[p.src] \in Seq([dma : BOOLEAN, low : Nat])
  BY Addresses DEF Typed, Pkts
<1>5. Address(p).low \in Nat
  <2>1. PICK f, n1 : f = program[p.src] /\ n1 = p.num
    OBVIOUS
  <2>2. f \in Seq([dma : BOOLEAN, low : Nat]) /\ n1 \in 1 .. Len(f)
    BY <1>4, <2>1, Zenon
  <2>3. f[n1] \in [dma : BOOLEAN, low : Nat]
    BY <2>2, ElementOfSeq
  <2>4. QED
    BY <2>1, <2>3 DEF Address
<1>6. Address(p).low % n \in Nat /\ Address(p).low % n < n /\ 0 < n
  BY <1>2, <1>3, <1>5
<1>7. QED
  BY <1>1, <1>3, <1>6, PortWires DEF Output

\* A wire takes what its OutputVC has room for.
LEMMA TakenIs ==
  ASSUME NEW w, out_vc[w] \in Seq(Pkts)
  PROVE  Taken(w) <=> Len(out_vc[w]) < OutSize
BY Sizes DEF Taken, Direct

(***************************************************************************)
(* sendReq(p) on w, which takes it, when the InputVCs are in: p is put at  *)
(* the end of the InputVC or of the OutputVC.                              *)
(***************************************************************************)
EndOf(w) == IF Direct(w) THEN <<"in", w>> ELSE <<"out", w>>
SentEffect(w, p, in, q, h) ==
  /\ OutAfter(w, p) \in [Wires -> Seq(Pkts)]
  /\ InAfter(in, w, p) \in [Wires -> Seq(Pkts)]
  /\ \A u \in Wires : ~ Taken(u) => OutAfter(w, p)[u] = out_vc[u]
  /\ EndOf(w) \in Spots
  /\ ContentsOf(OutAfter(w, p), InAfter(in, w, p), q, h)
       = Put(ContentsOf(out_vc, in, q, h), EndOf(w), p)
LEMMA SentOn ==
  ASSUME Typed, NEW w \in Wires, Taken(w), NEW p \in Pkts,
         NEW in \in [Wires -> Seq(Pkts)], NEW q, NEW h
  PROVE  SentEffect(w, p, in, q, h)
<1>1. out_vc \in [Wires -> Seq(Pkts)] /\ DOMAIN out_vc = Wires /\ DOMAIN in = Wires
  BY DEF Typed
<1>2. CASE Direct(w)
  <2> PICK v : v = Append(in[w], p)
    OBVIOUS
  <2>1. OutAfter(w, p) = out_vc /\ InAfter(in, w, p) = With(in, w, v)
    BY <1>2 DEF OutAfter, InAfter, With
  <2>2. With(in, w, v) \in [Wires -> Seq(Pkts)]
    BY DEF With
  <2>3. ContentsOf(out_vc, With(in, w, v), q, h)
          = With(ContentsOf(out_vc, in, q, h), <<"in", w>>, v)
    BY <1>1, InChanged
  <2>4. ContentsOf(out_vc, in, q, h)[<<"in", w>>] = in[w]
    BY InAt
  <2>5. ContentsOf(out_vc, With(in, w, v), q, h) = Put(ContentsOf(out_vc, in, q, h), <<"in", w>>, p)
    BY <2>3, <2>4 DEF Put
  <2>6. QED
    BY <1>1, <1>2, <2>1, <2>2, <2>5, SpotsAre DEF EndOf, SentEffect
<1>3. CASE ~ Direct(w)
  <2> PICK v : v = Append(out_vc[w], p)
    OBVIOUS
  <2>1. OutAfter(w, p) = With(out_vc, w, v) /\ InAfter(in, w, p) = in
    BY <1>3 DEF OutAfter, InAfter, With
  <2>2. With(out_vc, w, v) \in [Wires -> Seq(Pkts)]
    BY <1>1 DEF With
  <2>3. ContentsOf(With(out_vc, w, v), in, q, h)
          = With(ContentsOf(out_vc, in, q, h), <<"out", w>>, v)
    BY <1>1, OutChanged
  <2>4. ContentsOf(out_vc, in, q, h)[<<"out", w>>] = out_vc[w]
    BY OutAt
  <2>5. ContentsOf(With(out_vc, w, v), in, q, h) = Put(ContentsOf(out_vc, in, q, h), <<"out", w>>, p)
    BY <2>3, <2>4 DEF Put
  <2>6. \A u \in Wires : ~ Taken(u) => With(out_vc, w, v)[u] = out_vc[u]
    BY <1>1 DEF With
  <2>7. QED
    BY <1>3, <2>1, <2>2, <2>5, <2>6, SpotsAre DEF EndOf, SentEffect
<1>4. QED
  BY <1>2, <1>3

\* A packet leaves the InputVC of w.
LEMMA InPopped ==
  ASSUME Typed, NEW w \in Wires, in_vc[w] # <<>>, NEW q, NEW h
  PROVE  /\ Popped(w) \in [Wires -> Seq(Pkts)]
         /\ ContentsOf(out_vc, Popped(w), q, h) = Cut(ContentsOf(out_vc, in_vc, q, h), <<"in", w>>)
<1>1. in_vc \in [Wires -> Seq(Pkts)] /\ DOMAIN in_vc = Wires
  BY DEF Typed
<1> PICK v : v = Tail(in_vc[w])
  OBVIOUS
<1>2. Popped(w) = With(in_vc, w, v)
  BY DEF Popped, With
<1>3. With(in_vc, w, v) \in [Wires -> Seq(Pkts)]
  BY <1>1 DEF With
<1>4. ContentsOf(out_vc, With(in_vc, w, v), q, h)
        = With(ContentsOf(out_vc, in_vc, q, h), <<"in", w>>, v)
  BY <1>1, InChanged
<1>5. ContentsOf(out_vc, in_vc, q, h)[<<"in", w>>] = in_vc[w]
  BY InAt
<1>6. QED
  BY <1>2, <1>3, <1>4, <1>5 DEF Cut

\* The contents of the places, and of a few of them.
LEMMA TheContents ==
  ASSUME Typed
  PROVE  /\ Contents \in AllContents
         /\ \A w \in Wires : Contents[<<"out", w>>] = out_vc[w]
         /\ \A w \in Wires : Contents[<<"in", w>>] = in_vc[w]
         /\ \A d \in Queueing : Contents[<<"queue", d>>] = req_queue[d]
<1>1. Contents \in AllContents
  BY ContentsTyped DEF Typed, Contents
<1>2. ASSUME NEW w \in Wires PROVE Contents[<<"in", w>>] = in_vc[w]
  BY InAt DEF Contents
<1>3. ASSUME NEW d \in Queueing PROVE Contents[<<"queue", d>>] = req_queue[d]
  BY QueueAt DEF Contents
<1>4. ASSUME NEW w \in Wires PROVE Contents[<<"out", w>>] = out_vc[w]
  BY OutAt DEF Contents
<1>5. QED
  BY <1>1, <1>2, <1>3, <1>4

\* The request at the front of an InputVC or of a queue.
IsSent(p) == p \in Pkts /\ p.num \in 1 .. sent[p.src] /\ p.num \in 1 .. Len(program[p.src])
LEMMA FrontIsSent ==
  ASSUME IInv, NEW x \in Spots, Contents[x] # <<>>
  PROVE  IsSent(Head(Contents[x]))
<1>1. PICK p : p = Head(Contents[x])
  OBVIOUS
<1>2. p \in Pkts /\ p.num \in 1 .. sent[p.src]
  BY <1>1, TheContents, AtFront DEF IInv
<1>3. p.src \in Sources
  BY <1>2 DEF Pkts
<1>4. sent[p.src] <= Len(program[p.src]) /\ sent[p.src] \in Nat
  BY <1>3 DEF IInv, Typed
<1>5. Len(program[p.src]) \in Nat
  BY <1>3, Addresses DEF IInv, Typed
<1>6. p.num \in 1 .. Len(program[p.src])
  BY <1>2, <1>4, <1>5
<1>7. QED
  BY <1>1, <1>2, <1>6 DEF IsSent

LEMMA InFront ==
  ASSUME IInv, NEW w \in Wires, in_vc[w] # <<>>
  PROVE  IsSent(Head(in_vc[w]))
<1>1. Contents[<<"in", w>>] = in_vc[w] /\ <<"in", w>> \in Spots
  BY TheContents, SpotsAre DEF IInv
<1>2. QED
  BY <1>1, FrontIsSent

LEMMA QueueFront ==
  ASSUME IInv, NEW d \in Queueing, req_queue[d] # <<>>
  PROVE  IsSent(Head(req_queue[d]))
<1>1. Contents[<<"queue", d>>] = req_queue[d] /\ <<"queue", d>> \in Spots
  BY TheContents, SpotsAre DEF IInv
<1>2. QED
  BY <1>1, FrontIsSent

-------------------------------------------------------------------------------
\* Each step keeps the types and the account.
StillAccounted == Accounted(Contents, released, LostPackets, sent)

\* What it does to the contents.
Comes(y, p) == y \in Spots /\ p \in Pkts /\ Contents' = Put(Contents, y, p)
Cuts(x) == x \in Spots /\ Contents[x] # <<>> /\ Contents' = Cut(Contents, x)
Moves(x, y) ==
  /\ x \in Spots /\ y \in Spots /\ Contents[x] # <<>>
  /\ Contents' = Put(Cut(Contents, x), y, Head(Contents[x]))

\* And an OutputVC that is full stays as it is.
FullKept == \A u \in Wires : ~ Taken(u) => out_vc'[u] = out_vc[u]

\* One more request is lost.
LEMMA OneMoreLost ==
  ASSUME NEW p, NEW d, lost' = lost \cup {[pkt |-> p, by |-> d]}
  PROVE  LostPackets' = LostPackets \cup {p}
<1>1. \A q : q \in LostPackets <=> \E l \in lost : q = l.pkt
  BY DEF LostPackets
<1>2. \A q : q \in LostPackets' <=> \E l \in lost' : q = l.pkt
  BY DEF LostPackets
<1>3. [pkt |-> p, by |-> d].pkt = p
  OBVIOUS
<1>4. \A q : q \in LostPackets' <=> q \in LostPackets \/ q = p
  BY <1>1, <1>2, <1>3, Zenon
<1>5. QED
  BY <1>4

LEMMA IssueKeeps ==
  ASSUME IInv, NEW s \in Sources, Issue(s)
  PROVE  /\ Typed' /\ StillAccounted' /\ FullKept
         /\ Comes(EndOf(WireAt(s, 0)), Packet(s, sent[s] + 1))
<1> DEFINE w == WireAt(s, 0)
           y == EndOf(w)
<1>1. PICK p : p = Packet(s, sent[s] + 1)
  OBVIOUS
<1>2. Typed /\ Accounted(Contents, released, LostPackets, sent) /\ Contents \in AllContents
  BY TheContents DEF IInv
<1>3. w \in Wires
  BY PortWires
<1>4. /\ sent[s] \in Nat /\ sent[s] < Len(program[s]) /\ Taken(w)
      /\ sent' = [sent EXCEPT ![s] = sent[s] + 1]
      /\ in_vc' = InAfter(in_vc, w, p) /\ out_vc' = OutAfter(w, p)
      /\ UNCHANGED <<program, req_queue, handled, released, lost>>
  BY <1>1, <1>2 DEF Issue, Typed
<1>5. p \in Pkts
  BY <1>1, <1>4 DEF Packet, Pkts
<1> HIDE DEF w, y
<1>6. in_vc \in [Wires -> Seq(Pkts)]
  BY <1>2 DEF Typed
<1>7. /\ OutAfter(w, p) \in [Wires -> Seq(Pkts)]
      /\ InAfter(in_vc, w, p) \in [Wires -> Seq(Pkts)]
      /\ \A u \in Wires : ~ Taken(u) => OutAfter(w, p)[u] = out_vc[u]
      /\ y \in Spots
      /\ ContentsOf(OutAfter(w, p), InAfter(in_vc, w, p), req_queue, handled)
           = Put(ContentsOf(out_vc, in_vc, req_queue, handled), y, p)
  <2>1. SentEffect(w, p, in_vc, req_queue, handled)
    BY <1>2, <1>3, <1>4, <1>5, <1>6, SentOn
  <2>2. QED
    BY <2>1, Zenon DEF SentEffect, y
<1>8. Contents' = Put(Contents, y, p)
  BY <1>4, <1>7, Zenon DEF Contents
<1>9. Accounted(Put(Contents, y, p), released, LostPackets, sent')
  BY <1>1, <1>2, <1>4, <1>7, Came DEF Typed
<1>10. StillAccounted'
  BY <1>4, <1>8, <1>9, Zenon DEF StillAccounted, LostPackets
<1>11. sent' \in [Sources -> Nat] /\ \A u \in Sources : sent'[u] <= Len(program'[u])
  <2>1. \A u \in Sources : Len(program[u]) \in Nat
    BY <1>2, Addresses DEF Typed
  <2>2. QED
    BY <1>2, <1>4, <2>1 DEF Typed
<1>12. FullKept
  BY <1>4, <1>7, Zenon DEF FullKept
<1>13. Comes(EndOf(WireAt(s, 0)), Packet(s, sent[s] + 1))
  BY <1>1, <1>5, <1>7, <1>8 DEF Comes, w, y
<1>14. QED
  BY <1>2, <1>4, <1>7, <1>10, <1>11, <1>12, <1>13 DEF Typed

LEMMA EnqueueKeeps ==
  ASSUME IInv, NEW w \in Wires, Enqueue(w)
  PROVE  /\ Typed' /\ StillAccounted'
         /\ Moves(<<"in", w>>, <<"queue", w.to>>)
<1> DEFINE d == w.to
<1>1. PICK p : p = Head(in_vc[w])
  OBVIOUS
<1>2. Typed /\ Accounted(Contents, released, LostPackets, sent) /\ Contents \in AllContents
  BY TheContents DEF IInv
<1>3. /\ d \in Queueing /\ in_vc[w] # <<>> /\ in_vc' = Popped(w)
      /\ req_queue' = [req_queue EXCEPT ![d] = Append(req_queue[d], p)]
      /\ UNCHANGED <<program, sent, out_vc, handled, released, lost>>
  BY <1>1 DEF Enqueue
<1>4. p \in Pkts
  BY <1>1, <1>3, InFront DEF IsSent
<1> HIDE DEF d
<1>5. PICK v : v = Append(req_queue[d], p)
  OBVIOUS
<1>6. /\ req_queue' = With(req_queue, d, v) /\ DOMAIN req_queue = Queueing
      /\ With(req_queue, d, v) \in [Queueing -> Seq(Pkts)]
  BY <1>2, <1>3, <1>4, <1>5 DEF Typed, With
<1>7. /\ Popped(w) \in [Wires -> Seq(Pkts)]
      /\ ContentsOf(out_vc, Popped(w), req_queue, handled) = Cut(Contents, <<"in", w>>)
  BY <1>2, <1>3, InPopped DEF Contents
<1>8. ContentsOf(out_vc, Popped(w), With(req_queue, d, v), handled)
        = With(ContentsOf(out_vc, Popped(w), req_queue, handled), <<"queue", d>>, v)
  BY <1>3, <1>6, QueueChanged
<1>9. ContentsOf(out_vc, Popped(w), req_queue, handled)[<<"queue", d>>] = req_queue[d]
  BY <1>3, QueueAt
<1>10. Contents' = Put(Cut(Contents, <<"in", w>>), <<"queue", d>>, p)
  BY <1>3, <1>5, <1>6, <1>7, <1>8, <1>9, Zenon DEF Contents, Put
<1>11. <<"in", w>> \in Spots /\ <<"queue", d>> \in Spots /\ Contents[<<"in", w>>] = in_vc[w]
  BY <1>2, <1>3, SpotsAre, TheContents
<1>12. Accounted(Put(Cut(Contents, <<"in", w>>), <<"queue", d>>, p), released, LostPackets, sent)
  BY <1>1, <1>2, <1>3, <1>11, Moved
<1>13. StillAccounted'
  BY <1>3, <1>10, <1>12, Zenon DEF StillAccounted, LostPackets
<1>14. Moves(<<"in", w>>, <<"queue", w.to>>)
  BY <1>1, <1>3, <1>10, <1>11, Zenon DEF Moves, d
<1>15. QED
  BY <1>2, <1>3, <1>6, <1>7, <1>13, <1>14 DEF Typed

LEMMA HandleKeeps ==
  ASSUME IInv, NEW w \in Wires, Handle(w)
  PROVE  /\ Typed' /\ StillAccounted'
         /\ Moves(<<"in", w>>, <<"target", w.to>>)
<1> DEFINE d == w.to
<1>1. PICK p : p = Head(in_vc[w])
  OBVIOUS
<1>2. Typed /\ Accounted(Contents, released, LostPackets, sent) /\ Contents \in AllContents
  BY TheContents DEF IInv
<1>3. /\ d \in Targets /\ in_vc[w] # <<>> /\ in_vc' = Popped(w)
      /\ handled' = [handled EXCEPT ![d] = Append(handled[d], p)]
      /\ UNCHANGED <<program, sent, out_vc, req_queue, released, lost>>
  BY <1>1 DEF Handle
<1>4. p \in Pkts
  BY <1>1, <1>3, InFront DEF IsSent
<1> HIDE DEF d
<1>5. PICK v : v = Append(handled[d], p)
  OBVIOUS
<1>6. /\ handled' = With(handled, d, v) /\ DOMAIN handled = Targets
      /\ With(handled, d, v) \in [Targets -> Seq(Pkts)]
  BY <1>2, <1>3, <1>4, <1>5 DEF Typed, With
<1>7. /\ Popped(w) \in [Wires -> Seq(Pkts)]
      /\ ContentsOf(out_vc, Popped(w), req_queue, handled) = Cut(Contents, <<"in", w>>)
  BY <1>2, <1>3, InPopped DEF Contents
<1>8. ContentsOf(out_vc, Popped(w), req_queue, With(handled, d, v))
        = With(ContentsOf(out_vc, Popped(w), req_queue, handled), <<"target", d>>, v)
  BY <1>3, <1>6, TargetChanged
<1>9. ContentsOf(out_vc, Popped(w), req_queue, handled)[<<"target", d>>] = handled[d]
  BY <1>3, TargetAt
<1>10. Contents' = Put(Cut(Contents, <<"in", w>>), <<"target", d>>, p)
  BY <1>3, <1>5, <1>6, <1>7, <1>8, <1>9, Zenon DEF Contents, Put
<1>11. <<"in", w>> \in Spots /\ <<"target", d>> \in Spots /\ Contents[<<"in", w>>] = in_vc[w]
  BY <1>2, <1>3, SpotsAre, TheContents
<1>12. Accounted(Put(Cut(Contents, <<"in", w>>), <<"target", d>>, p), released, LostPackets, sent)
  BY <1>1, <1>2, <1>3, <1>11, Moved
<1>13. StillAccounted'
  BY <1>3, <1>10, <1>12, Zenon DEF StillAccounted, LostPackets
<1>14. Moves(<<"in", w>>, <<"target", w.to>>)
  BY <1>1, <1>3, <1>10, <1>11, Zenon DEF Moves, d
<1>15. QED
  BY <1>2, <1>3, <1>6, <1>7, <1>13, <1>14 DEF Typed

\* By a router that has a port for the request.
Routed(w) ==
  LET v == WireAt(w.to, RouteByAddress(Head(in_vc[w])))
  IN  (Taken(v) /\ Moves(<<"in", w>>, EndOf(v))) \/ (~ Taken(v) /\ Cuts(<<"in", w>>))

LEMMA RoutePacketKeeps ==
  ASSUME IInv, NEW w \in Wires, RoutePacket(w)
  PROVE  /\ Typed' /\ StillAccounted' /\ FullKept
         /\ Routed(w)
<1>1. PICK p : p = Head(in_vc[w])
  OBVIOUS
<1>2. PICK v : v = WireAt(w.to, RouteByAddress(p))
  OBVIOUS
<1>3. Typed /\ Accounted(Contents, released, LostPackets, sent) /\ Contents \in AllContents
  BY TheContents DEF IInv
<1>4. /\ w.to \in Routers /\ in_vc[w] # <<>>
      /\ RouteByAddress(p) < Cardinality(Downstream(w.to))
      /\ in_vc' = IF Taken(v) THEN InAfter(Popped(w), v, p) ELSE Popped(w)
      /\ out_vc' = IF Taken(v) THEN OutAfter(v, p) ELSE out_vc
      /\ lost' = Lost(w.to, v, p)
      /\ UNCHANGED <<program, sent, req_queue, handled, released>>
  BY <1>1, <1>2 DEF RoutePacket
<1>5. p \in Pkts
  BY <1>1, <1>4, InFront DEF IsSent
<1>6. v \in Wires
  <2>1. RouteByAddress(p) \in Nat /\ w.to \in Devices
    BY <1>4 DEF RouteByAddress, Devices
  <2>2. QED
    BY <1>2, <1>4, <2>1, PortWires
<1>7. /\ Popped(w) \in [Wires -> Seq(Pkts)]
      /\ ContentsOf(out_vc, Popped(w), req_queue, handled) = Cut(Contents, <<"in", w>>)
  BY <1>3, <1>4, InPopped DEF Contents
<1>8. <<"in", w>> \in Spots /\ Contents[<<"in", w>>] = in_vc[w]
  BY <1>3, SpotsAre, TheContents
<1>9. CASE Taken(v)
  <2>1. /\ in_vc' = InAfter(Popped(w), v, p) /\ out_vc' = OutAfter(v, p)
        /\ lost' = lost
    BY <1>4, <1>9 DEF Lost
  <2>2. /\ OutAfter(v, p) \in [Wires -> Seq(Pkts)]
        /\ InAfter(Popped(w), v, p) \in [Wires -> Seq(Pkts)]
        /\ \A u \in Wires : ~ Taken(u) => OutAfter(v, p)[u] = out_vc[u]
        /\ EndOf(v) \in Spots
        /\ ContentsOf(OutAfter(v, p), InAfter(Popped(w), v, p), req_queue, handled)
             = Put(ContentsOf(out_vc, Popped(w), req_queue, handled), EndOf(v), p)
    <3>1. PICK n : n = Popped(w)
      OBVIOUS
    <3>2. n \in [Wires -> Seq(Pkts)]
      BY <1>7, <3>1
    <3>3. SentEffect(v, p, n, req_queue, handled)
      BY <1>3, <1>5, <1>6, <1>9, <3>2, SentOn
    <3>4. QED
      BY <3>1, <3>3, Zenon DEF SentEffect
  <2>3. Contents' = Put(Cut(Contents, <<"in", w>>), EndOf(v), p)
    BY <1>4, <1>7, <2>1, <2>2, Zenon DEF Contents
  <2>4. Accounted(Put(Cut(Contents, <<"in", w>>), EndOf(v), p), released, LostPackets, sent)
    BY <1>1, <1>3, <1>4, <1>8, <2>2, Moved
  <2>5. StillAccounted'
    BY <1>4, <2>1, <2>3, <2>4, Zenon DEF StillAccounted, LostPackets
  <2>6. FullKept
    BY <2>1, <2>2, Zenon DEF FullKept
  <2>7. Moves(<<"in", w>>, EndOf(v))
    BY <1>1, <1>4, <1>8, <2>2, <2>3, Zenon DEF Moves
  <2>8. Routed(w)
    BY <1>1, <1>2, <1>9, <2>7, Zenon DEF Routed
  <2>9. QED
    BY <1>3, <1>4, <2>1, <2>2, <2>5, <2>6, <2>8 DEF Typed
<1>10. CASE ~ Taken(v)
  <2>1. /\ in_vc' = Popped(w) /\ out_vc' = out_vc
        /\ lost' = lost \cup {[pkt |-> p, by |-> w.to]}
    BY <1>4, <1>10 DEF Lost
  <2>8. LostPackets' = LostPackets \cup {p}
    BY <2>1, OneMoreLost
  <2>2. Contents' = Cut(Contents, <<"in", w>>)
    BY <1>4, <1>7, <2>1, Zenon DEF Contents
  <2>3. Accounted(Cut(Contents, <<"in", w>>), released, LostPackets \cup {p}, sent)
    BY <1>1, <1>3, <1>4, <1>8, Left
  <2>4. StillAccounted'
    BY <1>4, <2>2, <2>3, <2>8, Zenon DEF StillAccounted
  <2>5. Cuts(<<"in", w>>)
    BY <1>4, <1>8, <2>2, Zenon DEF Cuts
  <2>6. Routed(w)
    BY <1>1, <1>2, <1>10, <2>5, Zenon DEF Routed
  <2>7. QED
    BY <1>3, <1>4, <1>7, <2>1, <2>4, <2>6 DEF Typed, FullKept
<1>11. QED
  BY <1>9, <1>10

LEMMA RouteNowhereKeeps ==
  ASSUME IInv, NEW w \in Wires, RouteNowhere(w)
  PROVE  /\ Typed' /\ StillAccounted'
         /\ Cuts(<<"in", w>>)
<1>1. PICK p : p = Head(in_vc[w])
  OBVIOUS
<1>2. Typed /\ Accounted(Contents, released, LostPackets, sent) /\ Contents \in AllContents
  BY TheContents DEF IInv
<1>3. /\ in_vc[w] # <<>> /\ in_vc' = Popped(w) /\ released' = released \cup {p}
      /\ UNCHANGED <<program, sent, out_vc, req_queue, handled, lost>>
  BY <1>1 DEF RouteNowhere
<1>4. /\ Popped(w) \in [Wires -> Seq(Pkts)]
      /\ ContentsOf(out_vc, Popped(w), req_queue, handled) = Cut(Contents, <<"in", w>>)
  BY <1>2, <1>3, InPopped DEF Contents
<1>5. <<"in", w>> \in Spots /\ Contents[<<"in", w>>] = in_vc[w]
  BY <1>2, SpotsAre, TheContents
<1>6. Contents' = Cut(Contents, <<"in", w>>)
  BY <1>3, <1>4, Zenon DEF Contents
<1>7. Accounted(Cut(Contents, <<"in", w>>), released \cup {p}, LostPackets, sent)
  BY <1>1, <1>2, <1>3, <1>5, Left
<1>8. StillAccounted'
  BY <1>3, <1>6, <1>7, Zenon DEF StillAccounted, LostPackets
<1>9. Cuts(<<"in", w>>)
  BY <1>3, <1>5, <1>6, Zenon DEF Cuts
<1>10. QED
  BY <1>2, <1>3, <1>4, <1>8, <1>9 DEF Typed

\* The front of the queue of a device goes.
LEMMA QueuePopped ==
  ASSUME Typed, NEW d \in Queueing, req_queue[d] # <<>>, NEW o, NEW n
  PROVE  /\ [req_queue EXCEPT ![d] = Tail(@)] \in [Queueing -> Seq(Pkts)]
         /\ ContentsOf(o, n, [req_queue EXCEPT ![d] = Tail(@)], handled)
              = Cut(ContentsOf(o, n, req_queue, handled), <<"queue", d>>)
<1>1. req_queue \in [Queueing -> Seq(Pkts)] /\ DOMAIN req_queue = Queueing
  BY DEF Typed
<1>2. PICK v : v = Tail(req_queue[d])
  OBVIOUS
<1>3. [req_queue EXCEPT ![d] = Tail(@)] = With(req_queue, d, v)
  BY <1>2 DEF With
<1>4. With(req_queue, d, v) \in [Queueing -> Seq(Pkts)]
  BY <1>1, <1>2 DEF With
<1>5. ContentsOf(o, n, With(req_queue, d, v), handled)
        = With(ContentsOf(o, n, req_queue, handled), <<"queue", d>>, v)
  BY <1>1, QueueChanged
<1>6. ContentsOf(o, n, req_queue, handled)[<<"queue", d>>] = req_queue[d]
  BY QueueAt
<1>7. QED
  BY <1>2, <1>3, <1>4, <1>5, <1>6 DEF Cut

LEMMA PassKeeps ==
  ASSUME IInv, NEW d \in Queueing, Pass(d)
  PROVE  /\ Typed' /\ StillAccounted' /\ FullKept
         /\ Moves(<<"queue", d>>, EndOf(Output(d, Head(req_queue[d]))))
<1>1. PICK p : p = Head(req_queue[d])
  OBVIOUS
<1>2. PICK v : v = Output(d, p)
  OBVIOUS
<1>3. Typed /\ Accounted(Contents, released, LostPackets, sent) /\ Contents \in AllContents
  BY TheContents DEF IInv
<1>4. /\ req_queue[d] # <<>> /\ Downstream(d) # {} /\ Taken(v)
      /\ req_queue' = [req_queue EXCEPT ![d] = Tail(@)]
      /\ in_vc' = InAfter(in_vc, v, p) /\ out_vc' = OutAfter(v, p)
      /\ UNCHANGED <<program, sent, handled, released, lost>>
  BY <1>1, <1>2 DEF Pass
<1>5. p \in Pkts /\ p.num \in 1 .. Len(program[p.src])
  BY <1>1, <1>4, QueueFront DEF IsSent
<1>6. v \in Wires
  BY <1>2, <1>3, <1>4, <1>5, OutputWire
<1>7. PICK q : q = [req_queue EXCEPT ![d] = Tail(@)]
  OBVIOUS
<1>8. /\ q \in [Queueing -> Seq(Pkts)]
      /\ ContentsOf(out_vc, in_vc, q, handled) = Cut(Contents, <<"queue", d>>)
  BY <1>3, <1>4, <1>7, QueuePopped DEF Contents
<1>9. in_vc \in [Wires -> Seq(Pkts)]
  BY <1>3 DEF Typed
<1>10. /\ OutAfter(v, p) \in [Wires -> Seq(Pkts)]
       /\ InAfter(in_vc, v, p) \in [Wires -> Seq(Pkts)]
       /\ \A u \in Wires : ~ Taken(u) => OutAfter(v, p)[u] = out_vc[u]
       /\ EndOf(v) \in Spots
       /\ ContentsOf(OutAfter(v, p), InAfter(in_vc, v, p), q, handled)
            = Put(ContentsOf(out_vc, in_vc, q, handled), EndOf(v), p)
  <2>1. SentEffect(v, p, in_vc, q, handled)
    BY <1>3, <1>4, <1>5, <1>6, <1>9, SentOn
  <2>2. QED
    BY <2>1, Zenon DEF SentEffect
<1>11. Contents' = Put(Cut(Contents, <<"queue", d>>), EndOf(v), p)
  BY <1>4, <1>7, <1>8, <1>10, Zenon DEF Contents
<1>12. <<"queue", d>> \in Spots /\ Contents[<<"queue", d>>] = req_queue[d]
  BY <1>3, SpotsAre, TheContents
<1>13. Accounted(Put(Cut(Contents, <<"queue", d>>), EndOf(v), p), released, LostPackets, sent)
  BY <1>1, <1>3, <1>4, <1>10, <1>12, Moved
<1>14. StillAccounted'
  BY <1>4, <1>11, <1>13, Zenon DEF StillAccounted, LostPackets
<1>15. FullKept
  BY <1>4, <1>10, Zenon DEF FullKept
<1>16. Moves(<<"queue", d>>, EndOf(Output(d, Head(req_queue[d]))))
  BY <1>1, <1>2, <1>4, <1>10, <1>11, <1>12, Zenon DEF Moves
<1>17. QED
  BY <1>3, <1>4, <1>7, <1>8, <1>10, <1>14, <1>15, <1>16 DEF Typed

LEMMA RetryKeeps ==
  ASSUME IInv, NEW d \in Queueing, Retry(d)
  PROVE  /\ Typed' /\ StillAccounted'
         /\ Moves(<<"queue", d>>, <<"queue", d>>)
<1>1. PICK p : p = Head(req_queue[d])
  OBVIOUS
<1>2. Typed /\ Accounted(Contents, released, LostPackets, sent) /\ Contents \in AllContents
  BY TheContents DEF IInv
<1>3. /\ req_queue[d] # <<>>
      /\ req_queue' = [req_queue EXCEPT ![d] = Append(Tail(req_queue[d]), p)]
      /\ UNCHANGED <<program, sent, out_vc, in_vc, handled, released, lost>>
  BY <1>1 DEF Retry, Retried, links
<1>4. p \in Pkts
  BY <1>1, <1>3, QueueFront DEF IsSent
<1>5. PICK q : q = [req_queue EXCEPT ![d] = Tail(@)]
  OBVIOUS
<1>6. /\ q \in [Queueing -> Seq(Pkts)] /\ DOMAIN q = Queueing
      /\ ContentsOf(out_vc, in_vc, q, handled) = Cut(Contents, <<"queue", d>>)
  BY <1>2, <1>3, <1>5, QueuePopped DEF Contents
<1>7. PICK v : v = Append(q[d], p)
  OBVIOUS
<1>8. req_queue' = With(q, d, v) /\ With(q, d, v) \in [Queueing -> Seq(Pkts)]
  BY <1>2, <1>3, <1>4, <1>5, <1>6, <1>7 DEF Typed, With
<1>9. ContentsOf(out_vc, in_vc, With(q, d, v), handled)
        = With(ContentsOf(out_vc, in_vc, q, handled), <<"queue", d>>, v)
  BY <1>6, QueueChanged
<1>10. ContentsOf(out_vc, in_vc, q, handled)[<<"queue", d>>] = q[d]
  BY QueueAt
<1>11. Contents' = Put(Cut(Contents, <<"queue", d>>), <<"queue", d>>, p)
  BY <1>3, <1>6, <1>7, <1>8, <1>9, <1>10, Zenon DEF Contents, Put
<1>12. <<"queue", d>> \in Spots /\ Contents[<<"queue", d>>] = req_queue[d]
  BY <1>2, SpotsAre, TheContents
<1>13. Accounted(Put(Cut(Contents, <<"queue", d>>), <<"queue", d>>, p), released, LostPackets, sent)
  BY <1>1, <1>2, <1>3, <1>12, Moved
<1>14. StillAccounted'
  BY <1>3, <1>11, <1>13, Zenon DEF StillAccounted, LostPackets
<1>15. Moves(<<"queue", d>>, <<"queue", d>>)
  BY <1>1, <1>3, <1>11, <1>12, Zenon DEF Moves
<1>16. QED
  BY <1>2, <1>3, <1>8, <1>14, <1>15 DEF Typed

LEMMA NoOutputKeeps ==
  ASSUME IInv, NEW d \in Queueing, NoOutput(d)
  PROVE  /\ Typed' /\ StillAccounted'
         /\ Cuts(<<"queue", d>>)
<1>1. PICK p : p = Head(req_queue[d])
  OBVIOUS
<1>2. Typed /\ Accounted(Contents, released, LostPackets, sent) /\ Contents \in AllContents
  BY TheContents DEF IInv
<1>3. /\ req_queue[d] # <<>>
      /\ req_queue' = [req_queue EXCEPT ![d] = Tail(@)]
      /\ \/ released' = released \cup {p} /\ lost' = lost
         \/ released' = released /\ lost' = lost \cup {[pkt |-> p, by |-> d]}
      /\ UNCHANGED <<program, sent, out_vc, in_vc, handled>>
  BY <1>1, Kinds DEF NoOutput, Queueing, links
<1>4. PICK q : q = [req_queue EXCEPT ![d] = Tail(@)]
  OBVIOUS
<1>5. /\ q \in [Queueing -> Seq(Pkts)]
      /\ ContentsOf(out_vc, in_vc, q, handled) = Cut(Contents, <<"queue", d>>)
  BY <1>2, <1>3, <1>4, QueuePopped DEF Contents
<1>6. Contents' = Cut(Contents, <<"queue", d>>)
  BY <1>3, <1>4, <1>5, Zenon DEF Contents
<1>7. <<"queue", d>> \in Spots /\ Contents[<<"queue", d>>] = req_queue[d]
  BY <1>2, SpotsAre, TheContents
<1>8. /\ Accounted(Cut(Contents, <<"queue", d>>), released \cup {p}, LostPackets, sent)
      /\ Accounted(Cut(Contents, <<"queue", d>>), released, LostPackets \cup {p}, sent)
  BY <1>1, <1>2, <1>3, <1>7, Left
<1>12. \/ released' = released \cup {p} /\ LostPackets' = LostPackets
       \/ released' = released /\ LostPackets' = LostPackets \cup {p}
  <2>1. CASE released' = released \cup {p} /\ lost' = lost
    BY <2>1, Zenon DEF LostPackets
  <2>2. CASE released' = released /\ lost' = lost \cup {[pkt |-> p, by |-> d]}
    BY <2>2, OneMoreLost
  <2>3. QED
    BY <1>3, <2>1, <2>2
<1>9. StillAccounted'
  BY <1>3, <1>6, <1>8, <1>12, Zenon DEF StillAccounted
<1>10. Cuts(<<"queue", d>>)
  BY <1>3, <1>6, <1>7, Zenon DEF Cuts
<1>11. QED
  BY <1>2, <1>3, <1>4, <1>5, <1>9, <1>10 DEF Typed

-------------------------------------------------------------------------------
\* What each step does to the types, the account and the buffers that are full.
LEMMA StepKeeps ==
  ASSUME IInv, Next
  PROVE  Typed' /\ StillAccounted' /\ FullKept /\ program' = program
<1> DEFINE Goal == Typed' /\ StillAccounted' /\ FullKept /\ program' = program
<1>1. ASSUME NEW s \in Sources, Issue(s) PROVE Goal
  BY <1>1, IssueKeeps DEF Issue
<1>2. ASSUME NEW w \in Wires, Enqueue(w) PROVE Goal
  BY <1>2, EnqueueKeeps DEF Enqueue, FullKept
<1>3. ASSUME NEW w \in Wires, RoutePacket(w) PROVE Goal
  BY <1>3, RoutePacketKeeps DEF RoutePacket
<1>4. ASSUME NEW w \in Wires, RouteNowhere(w) PROVE Goal
  BY <1>4, RouteNowhereKeeps DEF RouteNowhere, FullKept
<1>5. ASSUME NEW w \in Wires, Handle(w) PROVE Goal
  BY <1>5, HandleKeeps DEF Handle, FullKept
<1>6. ASSUME NEW d \in Queueing, DeviceTick(d) PROVE Goal
  <2>1. CASE Pass(d)
    BY <2>1, PassKeeps DEF Pass
  <2>2. CASE Retry(d)
    BY <2>2, RetryKeeps DEF Retry, FullKept, links
  <2>3. CASE NoOutput(d)
    BY <2>3, NoOutputKeeps DEF NoOutput, FullKept, links
  <2>4. QED
    BY <1>6, <2>1, <2>2, <2>3 DEF DeviceTick
<1>7. ASSUME NEW r \in answers, AnswerDropped(r) \/ AnswerForwarded(r) \/ AnswerReturned(r)
      PROVE  Goal
  <2>1. UNCHANGED <<program, sent, links, req_queue, handled, released, lost>>
    BY <1>7 DEF AnswerDropped, AnswerForwarded, AnswerReturned
  <2>2. QED
    BY <2>1 DEF IInv, Typed, StillAccounted, Contents, LostPackets, FullKept, links
<1>8. QED
  BY <1>1, <1>2, <1>3, <1>4, <1>5, <1>6, <1>7 DEF Next

\* A wire that takes no packet takes none ever after.
LEMMA StaysFull ==
  ASSUME IInv, Typed', FullKept, NEW w \in Wires, ~ Taken(w)
  PROVE  ~ Taken(w)'
<1>1. out_vc'[w] = out_vc[w] /\ out_vc[w] \in Seq(Pkts)
  BY DEF IInv, Typed, FullKept
<1>2. ~ (Len(out_vc[w]) < OutSize) /\ out_vc[w] # <<>>
  BY <1>1, Sizes DEF Taken
<1>3. QED
  BY <1>1, <1>2 DEF Taken, Direct

\* The wire that a router chooses.
LEMMA RouterWire ==
  ASSUME NEW d \in Routers, NEW p, RouteByAddress(p) < Cardinality(Downstream(d))
  PROVE  WireAt(d, RouteByAddress(p)) \in Wires
<1>1. RouteByAddress(p) \in Nat /\ d \in Devices
  BY DEF RouteByAddress, Devices
<1>2. QED
  BY <1>1, PortWires

\* A packet that was lost by a router would be lost again.
LEMMA StillMayLose ==
  ASSUME IInv, Next, NEW l, MayLose(l)
  PROVE  MayLose(l)'
<1> DEFINE d == l.by
           p == l.pkt
<1>1. Typed' /\ FullKept /\ program' = program
  BY StepKeeps
<1>2. RouteByAddress(p)' = RouteByAddress(p)
  BY <1>1 DEF RouteByAddress, Address
<1>3. ASSUME d \in Routers, RouteByAddress(p) < Cardinality(Downstream(d)),
             ~ Taken(WireAt(d, RouteByAddress(p)))
      PROVE  ~ Taken(WireAt(d, RouteByAddress(p)))'
  <2>1. PICK w : w = WireAt(d, RouteByAddress(p))
    OBVIOUS
  <2>2. w \in Wires
    BY <1>3, <2>1, RouterWire
  <2>3. ~ Taken(w)'
    BY <1>1, <1>3, <2>1, <2>2, StaysFull
  <2>4. WireAt(d, RouteByAddress(p))' = w
    BY <1>2, <2>1 DEF WireAt
  <2>5. QED
    BY <2>3, <2>4 DEF Taken, Direct
<1>4. CASE d \in Arbiters /\ Downstream(d) = {}
  BY <1>4 DEF MayLose, Downstream
<1>5. CASE /\ d \in Routers
           /\ RouteByAddress(p) < Cardinality(Downstream(d))
           /\ ~ Taken(WireAt(d, RouteByAddress(p)))
  <2>1. Downstream(d)' = Downstream(d)
    BY DEF Downstream
  <2>2. QED
    BY <1>2, <1>3, <1>5, <2>1 DEF MayLose
<1>6. QED
  BY <1>4, <1>5 DEF MayLose

\* Why a device loses a request in a step.
LEMMA LostForReason ==
  ASSUME IInv, Next, NEW l \in lost'
  PROVE  MayLose(l)'
<1>1. CASE l \in lost
  BY <1>1, StillMayLose DEF IInv
<1>2. CASE l \notin lost
  <2>1. ASSUME NEW w \in Wires, RoutePacket(w) PROVE MayLose(l)
    <3>1. PICK v : v = WireAt(w.to, RouteByAddress(Head(in_vc[w])))
      OBVIOUS
    <3>2. /\ w.to \in Routers
          /\ RouteByAddress(Head(in_vc[w])) < Cardinality(Downstream(w.to))
          /\ lost' = Lost(w.to, v, Head(in_vc[w]))
      BY <2>1, <3>1 DEF RoutePacket
    <3>3. ~ Taken(v) /\ l.pkt = Head(in_vc[w]) /\ l.by = w.to
      BY <1>2, <3>2 DEF Lost
    <3>4. QED
      BY <3>1, <3>2, <3>3 DEF MayLose
  <2>2. ASSUME NEW d \in Queueing, NoOutput(d) PROVE MayLose(l)
    <3>1. d \in Arbiters /\ Downstream(d) = {} /\ l.by = d
      BY <1>2, <2>2 DEF NoOutput
    <3>2. QED
      BY <3>1 DEF MayLose
  <2>3. MayLose(l)
    <3>1. \/ \E w \in Wires : RoutePacket(w)
          \/ \E d \in Queueing : NoOutput(d)
          \/ lost' = lost
      BY DEF Next, Issue, Enqueue, RouteNowhere, Handle, DeviceTick, Pass, Retry,
             AnswerDropped, AnswerForwarded, AnswerReturned
    <3>2. QED
      BY <1>2, <2>1, <2>2, <3>1
  <2>4. QED
    BY <2>3, StillMayLose
<1>3. QED
  BY <1>1, <1>2

\* A step that handles no request and moves no response.
LEMMA AnswersAlone ==
  ASSUME Answered, UNCHANGED <<handled, answers, returned, dropped>>
  PROVE  Answered'
BY DEF Answered

\* A target handles a request, which no target had.
LEMMA AnswerComes ==
  ASSUME IInv, NEW w \in Wires, Handle(w)
  PROVE  Answered'
<1> DEFINE t == w.to
           new == [pkt |-> Head(in_vc[w]), wire |-> w]
<1>1. PICK q : q = Head(in_vc[w])
  OBVIOUS
<1>2. /\ t \in Targets /\ in_vc[w] # <<>>
      /\ handled' = [handled EXCEPT ![t] = Append(handled[t], q)]
      /\ answers' = answers \cup {new} /\ new.pkt = q
      /\ returned' = returned /\ dropped' = dropped
  BY <1>1 DEF Handle
<1>3. IsSent(q) /\ Typed /\ Contents[<<"in", w>>] = in_vc[w] /\ <<"in", w>> \in Spots
  BY <1>1, <1>2, InFront, TheContents, SpotsAre DEF IInv
<1>4. handled \in [Targets -> Seq(Pkts)] /\ in_vc[w] \in Seq(Pkts) /\ q \in Pkts
  BY <1>3 DEF Typed, IsSent
<1> HIDE DEF t, new
<1>5. /\ Len(handled'[t]) = Len(handled[t]) + 1 /\ Len(handled[t]) \in Nat
      /\ \A i \in 1 .. Len(handled[t]) : handled'[t][i] = handled[t][i]
      /\ handled'[t][Len(handled[t]) + 1] = q
      /\ \A u \in Targets \ {t} : handled'[u] = handled[u]
  <2>1. PICK v : v = handled[t]
    OBVIOUS
  <2>2. v \in Seq(Pkts) /\ handled'[t] = Append(v, q)
    BY <1>2, <1>4, <2>1
  <2>3. Len(Append(v, q)) = Len(v) + 1 /\ Len(v) \in Nat
        /\ (\A i \in 1 .. Len(v) : Append(v, q)[i] = v[i]) /\ Append(v, q)[Len(v) + 1] = q
    BY <1>4, <2>2
  <2>4. QED
    BY <1>2, <1>4, <2>1, <2>2, <2>3
<1>6. ~ AtTarget(handled, q)
  <2>1. Accounted(Contents, released, LostPackets, sent) /\ q.num \in 1 .. sent[q.src]
    BY <1>3 DEF IInv, IsSent
  <2>2. 1 \in 1 .. Len(in_vc[w]) /\ in_vc[w][1] = q
    BY <1>1, <1>2, <1>4
  <2>3. ~ Nowhere(Contents, q)
    BY <1>3, <2>2 DEF Nowhere
  <2>4. Once(Contents, q)
    BY <1>4, <2>1, <2>3 DEF Accounted, InOnePlace
  <2>5. PICK x \in Spots : \E i \in 1 .. Len(Contents[x]) : OnlyAt(Contents, q, x, i)
    BY <2>4 DEF Once
  <2>6. \A y \in Spots : \A j \in 1 .. Len(Contents[y]) : Contents[y][j] = q => y = x
    BY <2>5 DEF OnlyAt
  <2>7. x = <<"in", w>>
    BY <1>3, <2>2, <2>6
  <2>8. ASSUME NEW u \in Targets, NEW j \in 1 .. Len(handled[u]), handled[u][j] = q
        PROVE  FALSE
    <3>1. <<"target", u>> \in Spots /\ Contents[<<"target", u>>] = handled[u]
      BY SpotsAre, TargetAt DEF Contents
    <3>2. x = <<"target", u>>
      BY <2>6, <2>8, <3>1
    <3>3. QED
      BY <2>7, <3>2
  <2>9. QED
    BY <2>8 DEF AtTarget
<1>7. ASSUME NEW p \in Pkts, p # q
      PROVE  RightAnswers(handled', answers', returned', dropped', p)
  <2>1. AtTarget(handled', p) <=> AtTarget(handled, p)
    <3>1. ASSUME NEW u \in Targets
          PROVE  (\E i \in 1 .. Len(handled'[u]) : handled'[u][i] = p)
                   <=> (\E i \in 1 .. Len(handled[u]) : handled[u][i] = p)
      <4>1. CASE u = t
        <5>1. PICK n : n = Len(handled[t])
          OBVIOUS
        <5>2. /\ n \in Nat /\ Len(handled'[t]) = n + 1 /\ handled'[t][n + 1] = q
              /\ \A i \in 1 .. n : handled'[t][i] = handled[t][i]
          BY <1>5, <5>1
        <5>3. \A i : i \in 1 .. n + 1 <=> i \in 1 .. n \/ i = n + 1
          BY <5>2
        <5>4. QED
          BY <1>7, <4>1, <5>1, <5>2, <5>3
      <4>2. CASE u # t
        BY <1>5, <4>2
      <4>3. QED
        BY <4>1, <4>2
    <3>2. QED
      BY <3>1, Zenon DEF AtTarget
  <2>2. Of(answers', p) = Of(answers, p)
    BY <1>2, <1>7 DEF Of
  <2>3. RightAnswers(handled, answers, returned, dropped, p)
    BY <1>7 DEF IInv, Answered
  <2>4. QED
    BY <1>2, <2>1, <2>2, <2>3 DEF RightAnswers, OneResponse, NoResponse
<1>8. RightAnswers(handled', answers', returned', dropped', q)
  <2>1. NoResponse(answers, returned, dropped, q)
    BY <1>4, <1>6 DEF IInv, Answered, RightAnswers
  <2>2. Of(answers', q) = {new}
    BY <1>2, <2>1 DEF NoResponse, Of
  <2>3. OneResponse(answers', returned', dropped', q)
    BY <1>2, <2>1, <2>2 DEF NoResponse, OneResponse
  <2>4. t \in Targets /\ Len(handled[t]) + 1 \in 1 .. Len(handled'[t])
    BY <1>2, <1>5
  <2>5. AtTarget(handled', q)
    BY <1>5, <2>4 DEF AtTarget
  <2>6. QED
    BY <2>3, <2>5 DEF RightAnswers
<1>9. QED
  BY <1>7, <1>8 DEF Answered

\* A response moves, comes back or is dropped.
LEMMA AnswerMoves ==
  ASSUME IInv, NEW r \in answers, AnswerDropped(r) \/ AnswerForwarded(r) \/ AnswerReturned(r)
  PROVE  Answered'
<1>1. handled' = handled
  BY DEF AnswerDropped, AnswerForwarded, AnswerReturned
<1>2. PICK add, back, out :
         /\ answers' = (answers \ {r}) \cup add
         /\ returned' = returned \cup back
         /\ dropped' = dropped \cup out
         /\ \/ add = {} /\ back = {} /\ out = {r.pkt}
            \/ (\E n : add = {n} /\ n.pkt = r.pkt) /\ back = {} /\ out = {}
            \/ add = {} /\ (\E n : back = {n} /\ n.pkt = r.pkt) /\ out = {}
  <2>1. CASE AnswerDropped(r)
    BY <2>1 DEF AnswerDropped
  <2>2. CASE AnswerForwarded(r)
    <3>1. PICK w \in Upstream(r.wire.from) :
             /\ answers' = (answers \ {r}) \cup {[pkt |-> r.pkt, wire |-> w]}
             /\ returned' = returned /\ dropped' = dropped
      BY <2>2 DEF AnswerForwarded
    <3>2. [pkt |-> r.pkt, wire |-> w].pkt = r.pkt
      OBVIOUS
    <3>3. PICK n : n = [pkt |-> r.pkt, wire |-> w]
      OBVIOUS
    <3>4. QED
      BY <3>1, <3>2, <3>3
  <2>3. CASE AnswerReturned(r)
    <3>1. PICK n : n = [pkt |-> r.pkt, to |-> r.wire.from]
      OBVIOUS
    <3>2. answers' = answers \ {r} /\ returned' = returned \cup {n} /\ dropped' = dropped
      BY <2>3, <3>1 DEF AnswerReturned
    <3>3. n.pkt = r.pkt
      BY <3>1
    <3>4. QED
      BY <3>2, <3>3
  <2>4. QED
    BY <2>1, <2>2, <2>3
<1>3. ASSUME NEW p \in Pkts
      PROVE  RightAnswers(handled, answers', returned', dropped', p)
  <2>1. RightAnswers(handled, answers, returned, dropped, p)
    BY DEF IInv, Answered
  <2>2. CASE p # r.pkt
    <3>1. Of(answers', p) = Of(answers, p)
      BY <1>2, <2>2 DEF Of
    <3>2. Of(returned', p) = Of(returned, p)
      BY <1>2, <2>2 DEF Of
    <3>3. p \in dropped' <=> p \in dropped
      BY <1>2, <2>2
    <3>4. QED
      BY <2>1, <3>1, <3>2, <3>3 DEF RightAnswers, OneResponse, NoResponse
  <2>3. CASE p = r.pkt
    <3>1. r \in Of(answers, p)
      BY <2>3 DEF Of
    <3>2. AtTarget(handled, p) /\ OneResponse(answers, returned, dropped, p)
      BY <2>1, <3>1 DEF RightAnswers, NoResponse
    <3>3. Of(answers, p) = {r} /\ Of(returned, p) = {} /\ p \notin dropped
      BY <3>1, <3>2 DEF OneResponse
    <3>4. \A x \in answers : x.pkt = p => x = r
      BY <3>3 DEF Of
    <3>5. \A x \in returned : x.pkt # p
      BY <3>3 DEF Of
    <3>6. CASE add = {} /\ back = {} /\ out = {r.pkt}
      <4>1. Of(answers', p) = {} /\ Of(returned', p) = {} /\ p \in dropped'
        BY <1>2, <2>3, <3>4, <3>5, <3>6 DEF Of
      <4>2. QED
        BY <3>2, <4>1 DEF RightAnswers, OneResponse
    <3>7. CASE (\E n : add = {n} /\ n.pkt = r.pkt) /\ back = {} /\ out = {}
      <4>1. PICK n : add = {n} /\ n.pkt = p
        BY <2>3, <3>7
      <4>2. Of(answers', p) = {n} /\ Of(returned', p) = {} /\ p \notin dropped'
        BY <1>2, <3>3, <3>4, <3>5, <3>7, <4>1 DEF Of
      <4>3. QED
        BY <3>2, <4>2 DEF RightAnswers, OneResponse
    <3>8. CASE add = {} /\ (\E n : back = {n} /\ n.pkt = r.pkt) /\ out = {}
      <4>1. PICK n : back = {n} /\ n.pkt = p
        BY <2>3, <3>8
      <4>2. Of(answers', p) = {} /\ Of(returned', p) = {n} /\ p \notin dropped'
        BY <1>2, <3>3, <3>4, <3>5, <3>8, <4>1 DEF Of
      <4>3. QED
        BY <3>2, <4>2 DEF RightAnswers, OneResponse
    <3>9. QED
      BY <1>2, <3>6, <3>7, <3>8
  <2>4. QED
    BY <2>2, <2>3
<1>4. QED
  BY <1>1, <1>3 DEF Answered

LEMMA AnsweredKept ==
  ASSUME IInv, Next
  PROVE  Answered'
<1>1. \/ \E w \in Wires : Handle(w)
      \/ \E r \in answers : AnswerDropped(r) \/ AnswerForwarded(r) \/ AnswerReturned(r)
      \/ UNCHANGED <<handled, answers, returned, dropped>>
  BY DEF Next, Issue, Enqueue, RoutePacket, RouteNowhere, DeviceTick, Pass, Retry, NoOutput
<1>2. QED
  BY <1>1, AnswerComes, AnswerMoves, AnswersAlone DEF IInv

LEMMA InvInit == Init => IInv
<1> SUFFICES ASSUME Init PROVE IInv
  OBVIOUS
<1>1. Typed
  <2>1. \A s \in Sources : Len(program[s]) \in Nat
    BY Addresses DEF Init
  <2>2. QED
    BY <2>1 DEF Init, Typed
<1>2. ASSUME NEW x \in Spots PROVE Contents[x] = <<>>
  <2>1. /\ \A w \in Wires : out_vc[w] = <<>> /\ in_vc[w] = <<>>
        /\ \A d \in Queueing : req_queue[d] = <<>>
        /\ \A t \in Targets : handled[t] = <<>>
    BY DEF Init
  <2>2. Contents[x] = CASE x[1] = "out" -> out_vc[x[2]]
                        [] x[1] = "in" -> in_vc[x[2]]
                        [] x[1] = "queue" -> req_queue[x[2]]
                        [] x[1] = "target" -> handled[x[2]]
    BY DEF Contents, ContentsOf
  <2>3. QED
    BY <2>1, <2>2, SpotsAre
<1>3. \A p \in Pkts : Nowhere(Contents, p)
  BY <1>2 DEF Nowhere
<1>4. \A p \in Pkts : p.num \notin 1 .. sent[p.src]
  BY DEF Init, Pkts
<1>5. Accounted(Contents, released, LostPackets, sent)
  <2>1. LostPackets = {} /\ released = {}
    BY DEF Init, LostPackets
  <2>2. QED
    BY <1>3, <1>4, <2>1 DEF Accounted, InNoPlace
<1>6. Answered
  <2>1. \A t \in Targets : handled[t] = <<>>
    BY DEF Init
  <2>2. \A p : ~ AtTarget(handled, p)
    BY <2>1 DEF AtTarget
  <2>3. \A p : NoResponse(answers, returned, dropped, p)
    BY DEF Init, NoResponse, Of
  <2>4. QED
    BY <2>2, <2>3 DEF Answered, RightAnswers
<1>7. QED
  BY <1>1, <1>5, <1>6 DEF Init, IInv

LEMMA InvNext == IInv /\ [Next]_vars => IInv'
<1> SUFFICES ASSUME IInv, [Next]_vars PROVE IInv'
  OBVIOUS
<1>1. CASE Next
  BY <1>1, StepKeeps, LostForReason, AnsweredKept DEF IInv, StillAccounted
<1>2. CASE UNCHANGED vars
  <2>1. UNCHANGED <<program, sent, out_vc, in_vc, req_queue, handled, released, lost>>
    BY <1>2 DEF vars, links
  <2>2. Typed' /\ Contents' = Contents /\ LostPackets' = LostPackets
    BY <2>1 DEF IInv, Typed, Contents, LostPackets
  <2>3. \A l : MayLose(l)' = MayLose(l)
    BY <2>1 DEF MayLose, RouteByAddress, Address, Taken, Direct, WireAt, Downstream
  <2>4. Answered'
    BY <1>2, AnswersAlone DEF IInv, vars
  <2>5. QED
    BY <2>1, <2>2, <2>3, <2>4 DEF IInv
<1>3. QED
  BY <1>1, <1>2

\* The invariant holds in every state.
THEOREM InvHolds == Spec => []IInv
BY InvInit, InvNext, PTL DEF Spec

-------------------------------------------------------------------------------
\* The places of a request, as the contents tell them.
LEMMA HeldIs ==
  ASSUME NEW x \in Spots
  PROVE  Held(x) = Contents[x]
<1>1. Contents = [y \in Spots |-> Held(y)]
  BY Zenon DEF Held, Contents, ContentsOf
<1>2. QED
  BY <1>1

LEMMA PlacesAre ==
  ASSUME Typed, NEW p
  PROVE  \A z : z \in Places(p) <=>
           \/ \E x \in Spots : \E i \in 1 .. Len(Contents[x]) :
                z = <<x, i>> /\ Contents[x][i] = p
           \/ z = <<<<"released">>, 0>> /\ p \in released
           \/ z = <<<<"lost">>, 0>> /\ p \in LostPackets
<1>1. \A x \in Spots : Contents[x] \in Seq(Pkts)
  BY TheContents DEF AllContents
<1>2. \A x \in Spots : DOMAIN Contents[x] = 1 .. Len(Contents[x])
  BY <1>1
<1> DEFINE At(x) == {x} \X {i \in 1 .. Len(Contents[x]) : Contents[x][i] = p}
           U == UNION {At(x) : x \in Spots}
           R == {<<<<"released">>, 0>> : q \in released \cap {p}}
           L == {<<<<"lost">>, 0>> : q \in LostPackets \cap {p}}
<1>3. Places(p) = U \cup R \cup L
  <2> DEFINE HeldAt(x) == {x} \X {i \in DOMAIN Held(x) : Held(x)[i] = p}
             V == UNION {HeldAt(x) : x \in Spots}
  <2>1. ASSUME NEW x \in Spots PROVE HeldAt(x) = At(x)
    BY <1>2, HeldIs
  <2>2. Places(p) = V \cup R \cup L
    BY Zenon DEF Places
  <2> HIDE DEF HeldAt, At, R, L
  <2>3. U = V
    BY <2>1
  <2> HIDE DEF U, V
  <2>4. QED
    BY <2>2, <2>3, Zenon
<1>4. ASSUME NEW z
      PROVE  z \in U <=>
               \E x \in Spots : \E i \in 1 .. Len(Contents[x]) :
                 z = <<x, i>> /\ Contents[x][i] = p
  <2>1. \A x : z \in At(x) <=>
                \E i \in 1 .. Len(Contents[x]) : z = <<x, i>> /\ Contents[x][i] = p
    OBVIOUS
  <2> HIDE DEF At
  <2>2. QED
    BY <2>1
<1>5. ASSUME NEW z
      PROVE  /\ z \in R <=> z = <<<<"released">>, 0>> /\ p \in released
             /\ z \in L <=> z = <<<<"lost">>, 0>> /\ p \in LostPackets
  OBVIOUS
<1> HIDE DEF U, R, L
<1>6. \A z : z \in Places(p) <=> z \in U \/ z \in R \/ z \in L
  BY <1>3
<1>7. QED
  BY <1>4, <1>5, <1>6

LEMMA PlacesCounted ==
  ASSUME Typed, NEW p
  PROVE  /\ InOnePlace(Contents, released, LostPackets, p) => Cardinality(Places(p)) = 1
         /\ InNoPlace(Contents, released, LostPackets, p) => Cardinality(Places(p)) = 0
<1>1. ASSUME NEW z, Places(p) = {z} PROVE Cardinality(Places(p)) = 1
  BY <1>1, FS_Singleton
<1>2. ASSUME Once(Contents, p), p \notin released, p \notin LostPackets
      PROVE  \E z : Places(p) = {z}
  <2>1. PICK x \in Spots : \E i \in 1 .. Len(Contents[x]) : OnlyAt(Contents, p, x, i)
    BY <1>2 DEF Once
  <2>2. PICK i \in 1 .. Len(Contents[x]) : OnlyAt(Contents, p, x, i)
    BY <2>1
  <2>3. \A z : z \in Places(p) <=> z = <<x, i>>
    BY <1>2, <2>2, PlacesAre DEF OnlyAt
  <2>4. Places(p) = {<<x, i>>}
    BY <2>3
  <2>5. QED
    BY <2>4
<1>3. ASSUME Nowhere(Contents, p), p \in released, p \notin LostPackets
      PROVE  \E z : Places(p) = {z}
  <2>1. \A z : z \in Places(p) <=> z = <<<<"released">>, 0>>
    BY <1>3, PlacesAre DEF Nowhere
  <2>2. Places(p) = {<<<<"released">>, 0>>}
    BY <2>1
  <2>3. QED
    BY <2>2
<1>4. ASSUME Nowhere(Contents, p), p \notin released, p \in LostPackets
      PROVE  \E z : Places(p) = {z}
  <2>1. \A z : z \in Places(p) <=> z = <<<<"lost">>, 0>>
    BY <1>4, PlacesAre DEF Nowhere
  <2>2. Places(p) = {<<<<"lost">>, 0>>}
    BY <2>1
  <2>3. QED
    BY <2>2
<1>5. InNoPlace(Contents, released, LostPackets, p) => Places(p) = {}
  BY PlacesAre DEF InNoPlace, Nowhere
<1>6. QED
  BY <1>1, <1>2, <1>3, <1>4, <1>5, FS_EmptySet DEF InOnePlace

\* The responses to a request, as the invariant tells them.
LEMMA ResponsesCounted ==
  ASSUME NEW p
  PROVE  /\ OneResponse(answers, returned, dropped, p) => Cardinality(ResponsePlaces(p)) = 1
         /\ NoResponse(answers, returned, dropped, p) => Cardinality(ResponsePlaces(p)) = 0
<1> DEFINE A == {<<"under way", r.wire>> : r \in Of(answers, p)}
           B == {<<"returned", r.to>> : r \in Of(returned, p)}
           D == {<<"dropped">> : q \in dropped \cap {p}}
<1>1. ResponsePlaces(p) = A \cup B \cup D
  BY Zenon DEF ResponsePlaces, Of
<1>2. Of(answers, p) = {} => A = {}
  OBVIOUS
<1>3. Of(returned, p) = {} => B = {}
  OBVIOUS
<1>4. (p \notin dropped => D = {}) /\ (p \in dropped => D = {<<"dropped">>})
  OBVIOUS
<1>5. ASSUME NEW r, Of(answers, p) = {r} PROVE A = {<<"under way", r.wire>>}
  BY <1>5
<1>6. ASSUME NEW r, Of(returned, p) = {r} PROVE B = {<<"returned", r.to>>}
  BY <1>6
<1> HIDE DEF A, B, D
<1>7. ASSUME OneResponse(answers, returned, dropped, p)
      PROVE  \E z : A \cup B \cup D = {z}
  <2>1. CASE (\E r : Of(answers, p) = {r}) /\ Of(returned, p) = {} /\ p \notin dropped
    <3>1. PICK r : Of(answers, p) = {r}
      BY <2>1
    <3>2. A = {<<"under way", r.wire>>} /\ B = {} /\ D = {}
      BY <1>3, <1>4, <1>5, <2>1, <3>1
    <3>3. PICK z : z = <<"under way", r.wire>>
      OBVIOUS
    <3>4. A \cup B \cup D = {z}
      BY <3>2, <3>3
    <3>5. QED
      BY <3>4
  <2>2. CASE Of(answers, p) = {} /\ (\E r : Of(returned, p) = {r}) /\ p \notin dropped
    <3>1. PICK r : Of(returned, p) = {r}
      BY <2>2
    <3>2. A = {} /\ B = {<<"returned", r.to>>} /\ D = {}
      BY <1>2, <1>4, <1>6, <2>2, <3>1
    <3>3. PICK z : z = <<"returned", r.to>>
      OBVIOUS
    <3>4. A \cup B \cup D = {z}
      BY <3>2, <3>3
    <3>5. QED
      BY <3>4
  <2>3. CASE Of(answers, p) = {} /\ Of(returned, p) = {} /\ p \in dropped
    <3>1. A \cup B \cup D = {<<"dropped">>}
      BY <1>2, <1>3, <1>4, <2>3
    <3>2. QED
      BY <3>1
  <2>4. QED
    BY <1>7, <2>1, <2>2, <2>3 DEF OneResponse
<1>8. NoResponse(answers, returned, dropped, p) => A \cup B \cup D = {}
  BY <1>2, <1>3, <1>4 DEF NoResponse
<1>9. QED
  BY <1>1, <1>7, <1>8, FS_Singleton, FS_EmptySet

\* The targets that have handled a request: at most one.
LEMMA HandledByOne ==
  ASSUME IInv, NEW p \in Pkts
  PROVE  Cardinality({t \in Targets : p \in ToSet(handled[t])})
           = IF AtTarget(handled, p) THEN 1 ELSE 0
<1> DEFINE T == {t \in Targets : p \in ToSet(handled[t])}
<1>1. ASSUME NEW t \in Targets
      PROVE  p \in ToSet(handled[t]) <=> \E i \in 1 .. Len(handled[t]) : handled[t][i] = p
  <2>1. PICK h : h = handled[t]
    OBVIOUS
  <2>2. h \in Seq(Pkts)
    BY <2>1 DEF IInv, Typed
  <2>3. DOMAIN h = 1 .. Len(h)
    BY <2>2
  <2>4. QED
    BY <2>1, <2>3 DEF ToSet
<1>2. CASE ~ AtTarget(handled, p)
  <2>1. T = {}
    BY <1>1, <1>2 DEF AtTarget
  <2>2. QED
    BY <1>2, <2>1, FS_EmptySet
<1>3. CASE AtTarget(handled, p)
  <2>1. PICK t \in Targets : \E i \in 1 .. Len(handled[t]) : handled[t][i] = p
    BY <1>3 DEF AtTarget
  <2>2. ASSUME NEW u \in Targets, \E i \in 1 .. Len(handled[u]) : handled[u][i] = p
        PROVE  <<"target", u>> \in Spots
               /\ \E i \in 1 .. Len(Contents[<<"target", u>>]) : Contents[<<"target", u>>][i] = p
    <3>1. <<"target", u>> \in Spots /\ Contents[<<"target", u>>] = handled[u]
      BY SpotsAre, TargetAt DEF Contents
    <3>2. QED
      BY <2>2, <3>1
  <2>3. Once(Contents, p)
    <3>1. ~ Nowhere(Contents, p)
      BY <2>1, <2>2 DEF Nowhere
    <3>2. QED
      BY <3>1 DEF IInv, Accounted, InOnePlace, InNoPlace
  <2>4. PICK x \in Spots : \A y \in Spots : \A j \in 1 .. Len(Contents[y]) :
           Contents[y][j] = p => y = x
    BY <2>3 DEF Once, OnlyAt
  <2>5. ASSUME NEW u \in T PROVE u = t
    <3>1. u \in Targets /\ \E i \in 1 .. Len(handled[u]) : handled[u][i] = p
      BY <1>1
    <3>2. x = <<"target", u>> /\ x = <<"target", t>>
      BY <2>1, <2>2, <2>4, <3>1
    <3>3. QED
      BY <3>2
  <2>6. t \in T
    BY <1>1, <2>1
  <2>7. T = {t}
    BY <2>5, <2>6
  <2>8. QED
    BY <1>3, <2>7, FS_Singleton
<1>4. QED
  BY <1>2, <1>3

(***************************************************************************)
(* On every topology, every request that a source has sent is in exactly   *)
(* one place, and no other is anywhere; a device loses a request only if   *)
(* it is an arbiter without an output, or a router of which the output     *)
(* that it chose for this request refused it (Crossbar::tick,              *)
(* Arbiter::tick, Router::handleUpstreamRequest).  And each request that   *)
(* a target handled has exactly one response, under way, come back or      *)
(* dropped (handleDownstreamResponse).                                     *)
(***************************************************************************)
THEOREM RequestsAccounted == Spec => []PacketsAccounted
<1>1. IInv => PacketsAccounted
  <2> SUFFICES ASSUME IInv, NEW s \in Sources, NEW n \in 1 .. Len(program[s])
               PROVE  LET p == Packet(s, n)
                      IN  /\ Cardinality(Places(p)) = IF n <= sent[s] THEN 1 ELSE 0
                          /\ Cardinality(ResponsePlaces(p))
                               = Cardinality({t \in Targets : p \in ToSet(handled[t])})
    BY DEF PacketsAccounted, IInv
  <2>1. PICK p : p = Packet(s, n)
    OBVIOUS
  <2>2. p \in Pkts /\ p.src = s /\ p.num = n
    BY <2>1 DEF Packet, Pkts
  <2>3. sent[s] \in Nat /\ Typed
    BY DEF IInv, Typed
  <2>4. n \in 1 .. sent[s] <=> n <= sent[s]
    BY <2>3
  <2>5. Cardinality(Places(p)) = IF n <= sent[s] THEN 1 ELSE 0
    BY <2>2, <2>3, <2>4, PlacesCounted DEF IInv, Accounted
  <2>6. Cardinality(ResponsePlaces(p))
          = Cardinality({t \in Targets : p \in ToSet(handled[t])})
    <3>1. RightAnswers(handled, answers, returned, dropped, p)
      BY <2>2 DEF IInv, Answered
    <3>2. QED
      BY <2>2, <3>1, ResponsesCounted, HandledByOne DEF RightAnswers
  <2>7. QED
    BY <2>1, <2>5, <2>6
<1>2. QED
  BY <1>1, InvHolds, PTL

-------------------------------------------------------------------------------
(***************************************************************************)
(* Order.  Let mine be the requests of one source to one address, and st   *)
(* number the places on their way.  They are in line if each is on the way *)
(* and an earlier one is never behind a later one, except in the queues    *)
(* jam, which are those of devices with a full output.                     *)
(***************************************************************************)
Precedes(mine, p, q) == p \in mine /\ q \in mine /\ p.num < q.num

LEMMA NotBoth ==
  ASSUME NEW mine, NEW p \in Pkts, NEW q \in Pkts, Precedes(mine, p, q)
  PROVE  ~ Precedes(mine, q, p)
BY DEF Precedes, Pkts

OnWay(c, mine, st) ==
  \A x \in Spots : \A i \in 1 .. Len(c[x]) : c[x][i] \in mine => x \in DOMAIN st
InTurn(c, mine, st, jam) ==
  \A x, y \in Spots : \A i \in 1 .. Len(c[x]) : \A j \in 1 .. Len(c[y]) :
    Precedes(mine, c[x][i], c[y][j]) => st[y] <= st[x] /\ (x = y => i < j \/ x \in jam)
InLine(c, mine, st, jam) == OnWay(c, mine, st) /\ InTurn(c, mine, st, jam)

\* Where what is left after a cut was before.
From(x, z, j) == IF z = x THEN j + 1 ELSE j
LEMMA CutFrom ==
  ASSUME NEW c \in AllContents, NEW x \in Spots, c[x] # <<>>,
         NEW z \in Spots, NEW j \in 1 .. Len(Cut(c, x)[z])
  PROVE  From(x, z, j) \in 1 .. Len(c[z]) /\ Cut(c, x)[z][j] = c[z][From(x, z, j)]
<1>1. PICK d : d = Cut(c, x)
  OBVIOUS
<1>2. /\ Len(d[x]) = Len(c[x]) - 1 /\ Len(c[x]) \in Nat
      /\ \A i \in 1 .. Len(c[x]) - 1 : d[x][i] = c[x][i + 1]
      /\ \A y \in Spots \ {x} : d[y] = c[y]
  BY <1>1, AfterCut
<1>3. j \in 1 .. Len(d[z])
  BY <1>1
<1>4. From(x, z, j) \in 1 .. Len(c[z]) /\ d[z][j] = c[z][From(x, z, j)]
  BY <1>2, <1>3 DEF From
<1>5. QED
  BY <1>1, <1>4

\* Where what a place holds after r was put there was before.
LEMMA PutFrom ==
  ASSUME NEW c \in AllContents, NEW y \in Spots, NEW r \in Pkts,
         NEW z \in Spots, NEW j \in 1 .. Len(Put(c, y, r)[z])
  PROVE  \/ z = y /\ j = Len(c[y]) + 1 /\ Put(c, y, r)[z][j] = r
         \/ j \in 1 .. Len(c[z]) /\ Put(c, y, r)[z][j] = c[z][j]
<1>1. PICK d : d = Put(c, y, r)
  OBVIOUS
<1>2. /\ Len(d[y]) = Len(c[y]) + 1 /\ Len(c[y]) \in Nat
      /\ \A i \in 1 .. Len(c[y]) : d[y][i] = c[y][i]
      /\ d[y][Len(c[y]) + 1] = r
      /\ \A u \in Spots \ {y} : d[u] = c[u]
  BY <1>1, AfterPut
<1>3. j \in 1 .. Len(d[z])
  BY <1>1
<1>4. \/ z = y /\ j = Len(c[y]) + 1 /\ d[z][j] = r
      \/ j \in 1 .. Len(c[z]) /\ d[z][j] = c[z][j]
  BY <1>2, <1>3
<1>5. QED
  BY <1>1, <1>4

\* A cut keeps the line.
LEMMA LineCut ==
  ASSUME NEW c \in AllContents, NEW x \in Spots, c[x] # <<>>,
         NEW mine, NEW st, NEW jam, InLine(c, mine, st, jam)
  PROVE  InLine(Cut(c, x), mine, st, jam)
<1>1. PICK d : d = Cut(c, x)
  OBVIOUS
<1>2. ASSUME NEW z \in Spots, NEW j \in 1 .. Len(d[z])
      PROVE  From(x, z, j) \in 1 .. Len(c[z]) /\ d[z][j] = c[z][From(x, z, j)]
  BY <1>1, CutFrom
<1>3. OnWay(d, mine, st)
  BY <1>2 DEF OnWay, InLine
<1>4. ASSUME NEW u \in Spots, NEW z \in Spots, NEW i \in 1 .. Len(d[u]), NEW j \in 1 .. Len(d[z]),
             Precedes(mine, d[u][i], d[z][j])
      PROVE  st[z] <= st[u] /\ (u = z => i < j \/ u \in jam)
  <2>1. PICK k \in 1 .. Len(c[u]) : k = From(x, u, i) /\ d[u][i] = c[u][k]
    BY <1>2
  <2>2. PICK l \in 1 .. Len(c[z]) : l = From(x, z, j) /\ d[z][j] = c[z][l]
    BY <1>2
  <2>3. Precedes(mine, c[u][k], c[z][l])
    BY <1>4, <2>1, <2>2
  <2>4. st[z] <= st[u] /\ (u = z => k < l \/ u \in jam)
    BY <2>3 DEF InLine, InTurn
  <2>5. u = z /\ k < l => i < j
    BY <2>1, <2>2 DEF From
  <2>6. QED
    BY <2>4, <2>5
<1>5. InTurn(d, mine, st, jam)
  BY <1>4 DEF InTurn
<1>6. QED
  BY <1>1, <1>3, <1>5 DEF InLine

\* The request r would be in line at the end of y.
Fits(c, mine, st, jam, r, y) ==
  r \in mine =>
    /\ y \in DOMAIN st
    /\ \A z \in Spots : \A i \in 1 .. Len(c[z]) : LET p == c[z][i] IN
         /\ Precedes(mine, p, r) => st[y] <= st[z]
         /\ Precedes(mine, r, p) => st[z] <= st[y] /\ (z = y => y \in jam)

LEMMA LinePut ==
  ASSUME NEW c \in AllContents, NEW y \in Spots, NEW r \in Pkts,
         NEW mine, NEW st, NEW jam,
         InLine(c, mine, st, jam), Fits(c, mine, st, jam, r, y)
  PROVE  InLine(Put(c, y, r), mine, st, jam)
<1>1. PICK d : d = Put(c, y, r)
  OBVIOUS
<1> DEFINE New(z, j) == z = y /\ j = Len(c[y]) + 1 /\ d[z][j] = r
           Old(z, j) == j \in 1 .. Len(c[z]) /\ d[z][j] = c[z][j]
<1>2. ASSUME NEW z \in Spots, NEW j \in 1 .. Len(d[z]) PROVE New(z, j) \/ Old(z, j)
  BY <1>1, PutFrom
<1>3. OnWay(d, mine, st)
  BY <1>2 DEF OnWay, InLine, Fits
<1>4. ASSUME NEW u \in Spots, NEW z \in Spots, NEW i \in 1 .. Len(d[u]), NEW j \in 1 .. Len(d[z]),
             Precedes(mine, d[u][i], d[z][j])
      PROVE  st[z] <= st[u] /\ (u = z => i < j \/ u \in jam)
  <2>1. CASE Old(u, i) /\ Old(z, j)
    BY <1>4, <2>1 DEF InLine, InTurn
  <2>2. CASE Old(u, i) /\ New(z, j)
    <3>1. Precedes(mine, c[u][i], r) /\ r \in mine
      BY <1>4, <2>2 DEF Precedes
    <3>2. st[y] <= st[u]
      BY <2>2, <3>1 DEF Fits
    <3>3. u = z => i < j
      BY <2>2, AfterPut
    <3>4. QED
      BY <2>2, <3>2, <3>3
  <2>3. CASE New(u, i) /\ Old(z, j)
    <3>1. Precedes(mine, r, c[z][j]) /\ r \in mine
      BY <1>4, <2>3 DEF Precedes
    <3>2. st[z] <= st[y] /\ (z = y => y \in jam)
      BY <2>3, <3>1 DEF Fits
    <3>3. QED
      BY <2>3, <3>2
  <2>4. CASE New(u, i) /\ New(z, j)
    <3>1. Precedes(mine, r, r)
      BY <1>4, <2>4
    <3>2. QED
      BY <3>1 DEF Precedes, Pkts
  <2>5. QED
    BY <1>2, <2>1, <2>2, <2>3, <2>4
<1>5. InTurn(d, mine, st, jam)
  BY <1>4 DEF InTurn
<1>6. QED
  BY <1>1, <1>3, <1>5 DEF InLine

\* Places between x and y on the way are empty.
Adjacent(c, st, x, y) ==
  /\ y \in DOMAIN st /\ st[x] < st[y]
  /\ \A z \in DOMAIN st : st[x] < st[z] /\ st[z] < st[y] => c[z] = <<>>

Numbered(st) ==
  /\ DOMAIN st \subseteq Spots /\ st \in [DOMAIN st -> Nat]
  /\ \A x, y \in DOMAIN st : st[x] = st[y] => x = y

\* What goes from the front of a place to the next on the way stays in line.
LEMMA LineMoved ==
  ASSUME NEW c \in AllContents, NEW x \in Spots, NEW y \in Spots, c[x] # <<>>,
         NEW mine, NEW st, NEW jam, Numbered(st), InLine(c, mine, st, jam),
         Head(c[x]) \in mine => x \notin jam /\ Adjacent(c, st, x, y)
  PROVE  InLine(Put(Cut(c, x), y, Head(c[x])), mine, st, jam)
<1>1. PICK d, r : d = Cut(c, x) /\ r = Head(c[x])
  OBVIOUS
<1>2. /\ d \in AllContents /\ r \in Pkts /\ 1 \in 1 .. Len(c[x]) /\ c[x][1] = r
  BY <1>1, AfterCut
<1>3. InLine(d, mine, st, jam)
  BY <1>1, LineCut
<1>4. Fits(d, mine, st, jam, r, y)
  <2> SUFFICES ASSUME r \in mine PROVE
        /\ y \in DOMAIN st
        /\ \A z \in Spots : \A i \in 1 .. Len(d[z]) : LET p == d[z][i] IN
             /\ Precedes(mine, p, r) => st[y] <= st[z]
             /\ Precedes(mine, r, p) => st[z] <= st[y] /\ (z = y => y \in jam)
    BY DEF Fits
  <2>1. x \notin jam /\ Adjacent(c, st, x, y) /\ x \in DOMAIN st
    BY <1>1, <1>2 DEF InLine, OnWay
  <2>2. ASSUME NEW z \in Spots, NEW i \in 1 .. Len(d[z])
        PROVE  /\ Precedes(mine, d[z][i], r) => st[y] <= st[z]
               /\ Precedes(mine, r, d[z][i]) => st[z] <= st[y] /\ (z = y => y \in jam)
    <3>1. PICK k \in 1 .. Len(c[z]) : k = From(x, z, i) /\ d[z][i] = c[z][k]
      BY <1>1, CutFrom
    <3>2. c[z][k] \in mine => z \in DOMAIN st
      BY DEF InLine, OnWay
    <3>3. c[z][k] \in Pkts /\ c[x][1] \in Pkts
      BY <1>2, ElementOfSeq DEF AllContents
    <3>4. CASE Precedes(mine, c[z][k], c[x][1])
      <4>1. st[x] <= st[z] /\ (z = x => k < 1 \/ z \in jam)
        BY <1>2, <3>4 DEF InLine, InTurn
      <4>2. z # x /\ z \in DOMAIN st /\ c[z] # <<>>
        BY <2>1, <3>2, <3>4, <4>1 DEF Precedes
      <4>3. st[z] # st[x] /\ st[z] \in Nat /\ st[x] \in Nat /\ st[y] \in Nat
        BY <2>1, <4>2 DEF Numbered, Adjacent
      <4>4. st[y] <= st[z]
        BY <2>1, <4>1, <4>2, <4>3 DEF Adjacent
      <4>5. ~ Precedes(mine, c[x][1], c[z][k])
        BY <3>3, <3>4, NotBoth
      <4>6. QED
        BY <1>2, <3>1, <4>4, <4>5
    <3>5. CASE Precedes(mine, c[x][1], c[z][k])
      <4>1. st[z] <= st[x]
        BY <1>2, <3>5 DEF InLine, InTurn
      <4>2. z \in DOMAIN st
        BY <3>2, <3>5 DEF Precedes
      <4>3. st[z] < st[y] /\ st[z] \in Nat /\ st[y] \in Nat
        BY <2>1, <4>1, <4>2 DEF Numbered, Adjacent
      <4>4. ~ Precedes(mine, c[z][k], c[x][1])
        BY <3>3, <3>5, NotBoth
      <4>5. QED
        BY <1>2, <3>1, <4>3, <4>4
    <3>6. QED
      BY <1>2, <3>1, <3>4, <3>5
  <2>3. QED
    BY <2>1, <2>2 DEF Adjacent
<1>5. InLine(Put(d, y, r), mine, st, jam)
  BY <1>2, <1>3, <1>4, LinePut DEF Numbered
<1>6. QED
  BY <1>1, <1>5

\* What a device with a full output puts back stays in line.
LEMMA LineRetried ==
  ASSUME NEW c \in AllContents, NEW x \in Spots, c[x] # <<>>,
         NEW mine, NEW st, NEW jam, Numbered(st), InLine(c, mine, st, jam),
         Head(c[x]) \in mine => x \in jam
  PROVE  InLine(Put(Cut(c, x), x, Head(c[x])), mine, st, jam)
<1>1. PICK d, r : d = Cut(c, x) /\ r = Head(c[x])
  OBVIOUS
<1>2. /\ d \in AllContents /\ r \in Pkts /\ 1 \in 1 .. Len(c[x]) /\ c[x][1] = r
  BY <1>1, AfterCut
<1>3. InLine(d, mine, st, jam)
  BY <1>1, LineCut
<1>4. Fits(d, mine, st, jam, r, x)
  <2>1. ASSUME r \in mine, NEW z \in Spots, NEW i \in 1 .. Len(d[z])
        PROVE  /\ Precedes(mine, d[z][i], r) => st[x] <= st[z]
               /\ Precedes(mine, r, d[z][i]) => st[z] <= st[x] /\ (z = x => x \in jam)
    <3>1. PICK k \in 1 .. Len(c[z]) : k = From(x, z, i) /\ d[z][i] = c[z][k]
      BY <1>1, CutFrom
    <3>2. Precedes(mine, c[z][k], c[x][1]) => st[x] <= st[z]
      BY <1>2 DEF InLine, InTurn
    <3>3. Precedes(mine, c[x][1], c[z][k]) => st[z] <= st[x]
      BY <1>2 DEF InLine, InTurn
    <3>4. QED
      BY <1>1, <1>2, <2>1, <3>1, <3>2, <3>3
  <2>2. r \in mine => x \in DOMAIN st
    BY <1>2 DEF InLine, OnWay
  <2>3. QED
    BY <2>1, <2>2 DEF Fits
<1>5. InLine(Put(d, x, r), mine, st, jam)
  BY <1>2, <1>3, <1>4, LinePut
<1>6. QED
  BY <1>1, <1>5

\* A later request that comes is in line, if the places before its own are empty.
LEMMA LineCame ==
  ASSUME NEW c \in AllContents, NEW y \in Spots, NEW r \in Pkts,
         NEW mine, NEW st, NEW jam, InLine(c, mine, st, jam), Numbered(st),
         r \in mine => /\ y \in DOMAIN st
                       /\ \A z \in DOMAIN st : st[z] < st[y] => c[z] = <<>>,
         \A z \in Spots : \A i \in 1 .. Len(c[z]) : ~ Precedes(mine, r, c[z][i])
  PROVE  InLine(Put(c, y, r), mine, st, jam)
<1>1. ASSUME r \in mine, NEW z \in Spots, NEW i \in 1 .. Len(c[z]), Precedes(mine, c[z][i], r)
      PROVE  st[y] <= st[z]
  <2>1. z \in DOMAIN st /\ c[z] # <<>>
    BY <1>1 DEF InLine, OnWay, Precedes
  <2>2. st[z] \in Nat /\ st[y] \in Nat
    BY <1>1, <2>1 DEF Numbered
  <2>3. QED
    BY <1>1, <2>1, <2>2
<1>2. Fits(c, mine, st, jam, r, y)
  BY <1>1 DEF Fits
<1>3. QED
  BY <1>2, LinePut

\* More jammed queues allow more.
LEMMA LineJammed ==
  ASSUME NEW c, NEW mine, NEW st, NEW jam, NEW more, jam \subseteq more,
         InLine(c, mine, st, jam)
  PROVE  InLine(c, mine, st, more)
BY DEF InLine, InTurn

-------------------------------------------------------------------------------
(***************************************************************************)
(* The way of the requests that s sends to address a: wire F[0] is that of *)
(* the source, and each device chooses the next one by the address.        *)
(***************************************************************************)
PortFor(d, a) ==
  IF d \in Routers THEN IF a.dma THEN 1 ELSE 0
  ELSE IF d \in Crossbars THEN a.low % Cardinality(Downstream(d)) ELSE 0

Walk(F, N, s, a) ==
  /\ N \in Nat /\ F \in [0 .. N -> Wires]
  /\ F[0] = WireAt(s, 0)
  /\ \A k \in 0 .. N - 1 : /\ F[k].to \in Devices
                           /\ F[k + 1] = WireAt(F[k].to, PortFor(F[k].to, a))
Route(F, N, s, a) == Walk(F, N, s, a) /\ F[N].to \in Targets

Less == {ss \in Nat \X Nat : ss[1] < ss[2]}

LEMMA LessWellFounded == IsWellFoundedOn(Less, Nat)
<1>1. Less = OpToRel(<, Nat)
  BY DEF Less, OpToRel
<1>2. QED
  BY <1>1, NatLessThanWellFounded

\* A set of natural numbers has a least element.
LEMMA LeastNatural ==
  ASSUME NEW T \in SUBSET Nat, T # {}
  PROVE  \E n \in T : \A m \in T : n <= m
<1>1. PICK n \in T : \A m \in T : ~ (<<m, n>> \in Less)
  BY LessWellFounded, WFMin
<1>2. ASSUME NEW k \in Nat, NEW m \in Nat, m < k PROVE <<m, k>> \in Less
  BY <1>2 DEF Less
<1>3. \A m \in T : ~ (m < n)
  BY <1>1, <1>2
<1>4. QED
  BY <1>3

\* A way to a target visits no module twice.
LEMMA RouteSimple ==
  ASSUME NEW N, NEW F, NEW s, NEW a, Route(F, N, s, a),
         NEW j \in 0 .. N, NEW k \in 0 .. N, F[j].to = F[k].to
  PROVE  j = k
<1> SUFFICES ASSUME NEW l \in 0 .. N, NEW m \in 0 .. N, F[l].to = F[m].to, l < m
             PROVE  FALSE
  BY DEF Route, Walk
<1>1. N \in Nat /\ \A i \in 0 .. N - 1 : /\ F[i].to \in Devices
                           /\ F[i + 1] = WireAt(F[i].to, PortFor(F[i].to, a))
  BY DEF Route, Walk
<1> DEFINE Differ == {i \in 0 .. N - m : F[l + i].to # F[m + i].to}
<1>2. CASE Differ = {}
  <2>1. N - m \in 0 .. N - m /\ l + (N - m) \in 0 .. N - 1 /\ m + (N - m) = N
    BY <1>1
  <2>2. F[l + (N - m)].to = F[N].to
    BY <1>2, <2>1
  <2>3. QED
    BY <1>1, <2>1, <2>2, Kinds DEF Route
<1>3. CASE Differ # {}
  <2>1. PICK i \in Differ : \A n \in Differ : i <= n
    <3>1. Differ \in SUBSET Nat
      BY <1>1
    <3> HIDE DEF Differ
    <3>2. QED
      BY <1>3, <3>1, LeastNatural
  <2>2. i \in 0 .. N - m /\ F[l + i].to # F[m + i].to
    OBVIOUS
  <2>3. i # 0
    <3>1. l + 0 = l /\ m + 0 = m
      BY <1>1
    <3>2. QED
      BY <2>2, <3>1
  <2>4. i - 1 \in 0 .. N - m /\ i - 1 \notin Differ
    <3>1. i - 1 \in 0 .. N - m /\ ~ (i <= i - 1)
      BY <1>1, <2>2, <2>3
    <3>2. QED
      BY <2>1, <3>1
  <2>5. F[l + (i - 1)].to = F[m + (i - 1)].to
    BY <2>4
  <2>6. /\ l + (i - 1) \in 0 .. N - 1 /\ m + (i - 1) \in 0 .. N - 1
        /\ (l + (i - 1)) + 1 = l + i /\ (m + (i - 1)) + 1 = m + i
    BY <1>1, <2>2, <2>3
  <2>7. F[l + i] = F[m + i]
    BY <1>1, <2>5, <2>6
  <2>8. QED
    BY <2>2, <2>7
<1>4. QED
  BY <1>2, <1>3

\* The places on the way, numbered; the router has no queue and keeps nothing.
PlaceIs(F, N, x, n) ==
  \E k \in 0 .. N :
    \/ x = <<"out", F[k]>> /\ n = 3 * k
    \/ x = <<"in", F[k]>> /\ n = 3 * k + 1
    \/ x \in {<<"queue", F[k].to>>, <<"target", F[k].to>>} /\ n = 3 * k + 2
Way(F, N) == {x \in Spots : \E n \in Nat : PlaceIs(F, N, x, n)}
Stages(F, N) == [x \in Way(F, N) |-> CHOOSE n \in Nat : PlaceIs(F, N, x, n)]

\* The queues on the way that have a full output.
Jam(F, N) == {<<"queue", F[k].to>> : k \in {i \in 0 .. N - 1 : ~ Taken(F[i + 1])}}

LEMMA PlaceUnique ==
  ASSUME NEW N, NEW F, NEW s, NEW a, Route(F, N, s, a), NEW x \in Spots,
         NEW m, NEW n, PlaceIs(F, N, x, m), PlaceIs(F, N, x, n)
  PROVE  m = n
<1>1. PICK j \in 0 .. N :
        \/ x = <<"out", F[j]>> /\ m = 3 * j
        \/ x = <<"in", F[j]>> /\ m = 3 * j + 1
        \/ x \in {<<"queue", F[j].to>>, <<"target", F[j].to>>} /\ m = 3 * j + 2
  BY Zenon DEF PlaceIs
<1>2. PICK k \in 0 .. N :
        \/ x = <<"out", F[k]>> /\ n = 3 * k
        \/ x = <<"in", F[k]>> /\ n = 3 * k + 1
        \/ x \in {<<"queue", F[k].to>>, <<"target", F[k].to>>} /\ n = 3 * k + 2
  BY Zenon DEF PlaceIs
<1>3. F[j].to = F[k].to
  BY <1>1, <1>2
<1>4. j = k
  BY <1>3, RouteSimple
<1>5. QED
  BY <1>1, <1>2, <1>4

LEMMA OnePerPlace ==
  ASSUME NEW N, NEW F, NEW s, NEW a, Route(F, N, s, a), NEW x \in Spots, NEW y \in Spots,
         NEW n, PlaceIs(F, N, x, n), PlaceIs(F, N, y, n)
  PROVE  x = y
<1>1. PICK j \in 0 .. N :
        \/ x = <<"out", F[j]>> /\ n = 3 * j
        \/ x = <<"in", F[j]>> /\ n = 3 * j + 1
        \/ x \in {<<"queue", F[j].to>>, <<"target", F[j].to>>} /\ n = 3 * j + 2
  BY Zenon DEF PlaceIs
<1>2. PICK k \in 0 .. N :
        \/ y = <<"out", F[k]>> /\ n = 3 * k
        \/ y = <<"in", F[k]>> /\ n = 3 * k + 1
        \/ y \in {<<"queue", F[k].to>>, <<"target", F[k].to>>} /\ n = 3 * k + 2
  BY Zenon DEF PlaceIs
<1>3. N \in Nat
  BY DEF Route, Walk
<1>4. j = k
  BY <1>1, <1>2, <1>3
<1>5. \/ x \in {<<"out", F[k]>>} /\ y \in {<<"out", F[k]>>}
      \/ x \in {<<"in", F[k]>>} /\ y \in {<<"in", F[k]>>}
      \/ /\ x \in {<<"queue", F[k].to>>, <<"target", F[k].to>>}
         /\ y \in {<<"queue", F[k].to>>, <<"target", F[k].to>>}
  BY <1>1, <1>2, <1>3, <1>4
<1>6. ~ (<<"queue", F[k].to>> \in Spots /\ <<"target", F[k].to>> \in Spots)
  BY Kinds DEF Spots, Devices
<1>7. QED
  BY <1>5, <1>6

LEMMA WayNumbered ==
  ASSUME NEW N, NEW F, NEW s, NEW a, Route(F, N, s, a)
  PROVE  /\ Numbered(Stages(F, N)) /\ DOMAIN Stages(F, N) = Way(F, N)
         /\ \A x \in Way(F, N) : PlaceIs(F, N, x, Stages(F, N)[x])
         /\ \A x \in Spots : \A n \in Nat :
              PlaceIs(F, N, x, n) => x \in Way(F, N) /\ Stages(F, N)[x] = n
<1>1. PICK st : st = Stages(F, N)
  OBVIOUS
<1>2. DOMAIN st = Way(F, N) /\ Way(F, N) \subseteq Spots
  BY <1>1 DEF Stages, Way
<1>3. ASSUME NEW x \in Way(F, N)
      PROVE  st[x] \in Nat /\ PlaceIs(F, N, x, st[x])
  <2>1. \E n \in Nat : PlaceIs(F, N, x, n)
    BY DEF Way
  <2>2. st[x] = CHOOSE n \in Nat : PlaceIs(F, N, x, n)
    BY <1>1 DEF Stages
  <2>3. QED
    BY <2>1, <2>2
<1>4. ASSUME NEW x \in Spots, NEW n \in Nat, PlaceIs(F, N, x, n)
      PROVE  x \in Way(F, N) /\ st[x] = n
  <2>1. x \in Way(F, N)
    BY <1>4 DEF Way
  <2>2. PlaceIs(F, N, x, st[x])
    BY <1>3, <2>1
  <2>3. QED
    BY <1>4, <2>1, <2>2, PlaceUnique
<1>5. ASSUME NEW x \in Way(F, N), NEW y \in Way(F, N), st[x] = st[y] PROVE x = y
  <2>1. PlaceIs(F, N, x, st[x]) /\ PlaceIs(F, N, y, st[x]) /\ x \in Spots /\ y \in Spots
    BY <1>2, <1>3, <1>5
  <2>2. QED
    BY <2>1, OnePerPlace
<1>6. st \in [Way(F, N) -> Nat]
  <2>1. st = [x \in Way(F, N) |-> st[x]]
    BY <1>1 DEF Stages
  <2>2. QED
    BY <1>3, <2>1
<1>7. Numbered(st)
  BY <1>2, <1>5, <1>6 DEF Numbered
<1>8. QED
  BY <1>1, <1>2, <1>3, <1>4, <1>7

\* Which place has a number.
LEMMA PlaceAt ==
  ASSUME NEW N \in Nat, NEW F, NEW x, NEW n, PlaceIs(F, N, x, n), NEW k \in Nat
  PROVE  /\ n = 3 * k => x = <<"out", F[k]>>
         /\ n = 3 * k + 1 => x = <<"in", F[k]>>
         /\ n = 3 * k + 2 => x \in {<<"queue", F[k].to>>, <<"target", F[k].to>>}
<1>1. PICK j \in 0 .. N :
        \/ x = <<"out", F[j]>> /\ n = 3 * j
        \/ x = <<"in", F[j]>> /\ n = 3 * j + 1
        \/ x \in {<<"queue", F[j].to>>, <<"target", F[j].to>>} /\ n = 3 * j + 2
  BY Zenon DEF PlaceIs
<1>2. CASE n = 3 * k
  BY <1>1, <1>2
<1>3. CASE n = 3 * k + 1
  BY <1>1, <1>3
<1>4. CASE n = 3 * k + 2
  BY <1>1, <1>4
<1>5. QED
  BY <1>2, <1>3, <1>4

\* An InputVC on the way, and a queue.
LEMMA InOnWay ==
  ASSUME NEW N, NEW F, NEW s, NEW a, Route(F, N, s, a),
         NEW w \in Wires, <<"in", w>> \in Way(F, N)
  PROVE  \E k \in 0 .. N : w = F[k] /\ Stages(F, N)[<<"in", w>>] = 3 * k + 1
<1>1. PICK n : PlaceIs(F, N, <<"in", w>>, n) /\ n = Stages(F, N)[<<"in", w>>]
  BY WayNumbered
<1>2. QED
  BY <1>1 DEF PlaceIs

LEMMA QueueOnWay ==
  ASSUME NEW N, NEW F, NEW s, NEW a, Route(F, N, s, a),
         NEW d \in Queueing, <<"queue", d>> \in Way(F, N)
  PROVE  \E k \in 0 .. N - 1 : d = F[k].to /\ Stages(F, N)[<<"queue", d>>] = 3 * k + 2
<1>1. PICK n : PlaceIs(F, N, <<"queue", d>>, n) /\ n = Stages(F, N)[<<"queue", d>>]
  BY WayNumbered
<1>2. PICK k \in 0 .. N : d = F[k].to /\ n = 3 * k + 2
  BY <1>1 DEF PlaceIs
<1>3. k # N /\ N \in Nat
  BY <1>2, Kinds DEF Route, Walk, Devices
<1>4. k \in 0 .. N - 1
  BY <1>3
<1>5. QED
  BY <1>1, <1>2, <1>4

\* A place of the way from its number.
LEMMA StageIs ==
  ASSUME NEW N, NEW F, NEW s, NEW a, Route(F, N, s, a), NEW k \in 0 .. N
  PROVE  /\ <<"out", F[k]>> \in Way(F, N) /\ Stages(F, N)[<<"out", F[k]>>] = 3 * k
         /\ <<"in", F[k]>> \in Way(F, N) /\ Stages(F, N)[<<"in", F[k]>>] = 3 * k + 1
<1>1. N \in Nat /\ F[k] \in Wires /\ k \in Nat
  BY DEF Route, Walk
<1>2. <<"out", F[k]>> \in Spots /\ <<"in", F[k]>> \in Spots
  BY <1>1, SpotsAre
<1>3. PlaceIs(F, N, <<"out", F[k]>>, 3 * k) /\ PlaceIs(F, N, <<"in", F[k]>>, 3 * k + 1)
  BY Zenon DEF PlaceIs
<1>4. 3 * k \in Nat /\ 3 * k + 1 \in Nat
  BY <1>1
<1>5. \A x \in Spots : \A n \in Nat : PlaceIs(F, N, x, n) => x \in Way(F, N) /\ Stages(F, N)[x] = n
  BY WayNumbered
<1>6. QED
  BY <1>2, <1>3, <1>4, <1>5

LEMMA BehindIs ==
  ASSUME NEW N, NEW F, NEW s, NEW a, Route(F, N, s, a), NEW k \in 0 .. N,
         NEW x \in Spots, x \in {<<"queue", F[k].to>>, <<"target", F[k].to>>}
  PROVE  x \in Way(F, N) /\ Stages(F, N)[x] = 3 * k + 2
<1>1. PlaceIs(F, N, x, 3 * k + 2)
  BY Zenon DEF PlaceIs
<1>2. 3 * k + 2 \in Nat
  BY DEF Route, Walk
<1>3. QED
  BY <1>1, <1>2, WayNumbered

\* Where sendReq on the k-th wire puts a request, and what is before it.
LEMMA EndIs ==
  ASSUME Typed, NEW N, NEW F, NEW s, NEW a, Route(F, N, s, a), NEW k \in 0 .. N
  PROVE  /\ EndOf(F[k]) \in Way(F, N) /\ Stages(F, N)[EndOf(F[k])] \in {3 * k, 3 * k + 1}
         /\ \A z \in Way(F, N) :
              3 * k <= Stages(F, N)[z] /\ Stages(F, N)[z] < Stages(F, N)[EndOf(F[k])]
                => Contents[z] = <<>>
<1>1. N \in Nat /\ F[k] \in Wires /\ k \in Nat
  BY DEF Route, Walk
<1>2. PICK st : st = Stages(F, N)
  OBVIOUS
<1>3. /\ <<"out", F[k]>> \in Way(F, N) /\ st[<<"out", F[k]>>] = 3 * k
      /\ <<"in", F[k]>> \in Way(F, N) /\ st[<<"in", F[k]>>] = 3 * k + 1
  BY <1>2, StageIs
<1>4. EndOf(F[k]) \in Way(F, N) /\ st[EndOf(F[k])] \in {3 * k, 3 * k + 1}
  BY <1>3 DEF EndOf
<1>5. ASSUME NEW z \in Way(F, N), 3 * k <= st[z], st[z] < st[EndOf(F[k])]
      PROVE  Contents[z] = <<>>
  <2>1. PlaceIs(F, N, z, st[z]) /\ st[z] \in Nat
    BY <1>2, WayNumbered DEF Numbered
  <2>2. st[z] = 3 * k /\ Direct(F[k])
    BY <1>1, <1>3, <1>5, <2>1 DEF EndOf
  <2>3. z = <<"out", F[k]>>
    BY <1>1, <2>1, <2>2, PlaceAt
  <2>4. Contents[z] = out_vc[F[k]]
    BY <1>1, <2>3, TheContents
  <2>5. QED
    BY <2>2, <2>4 DEF Direct
<1>6. QED
  BY <1>2, <1>4, <1>5

-------------------------------------------------------------------------------
\* The requests that s sends to address a are in line.
Mine(s, a) == {p \in Pkts : p.src = s /\ Address(p) = a}
Flow(F, N, s, a) == InLine(Contents, Mine(s, a), Stages(F, N), Jam(F, N))

\* After a step, with the jam of before.
FlowOn(F, N, s, a) == InLine(Contents', Mine(s, a), Stages(F, N), Jam(F, N))

\* The outputs of the devices, by the address.
LEMMA RouterChoice ==
  ASSUME NEW d \in Routers, NEW p
  PROVE  RouteByAddress(p) = PortFor(d, Address(p))
BY DEF RouteByAddress, PortFor

LEMMA QueueingChoice ==
  ASSUME NEW d \in Queueing, NEW p
  PROVE  Output(d, p) = WireAt(d, PortFor(d, Address(p)))
<1>1. d \notin Routers
  BY Kinds
<1>2. PICK a : a = Address(p)
  OBVIOUS
<1>3. QED
  BY <1>1, <1>2 DEF PortFor, Output

\* The request at the front of a place on the way.
LEMMA FrontOnWay ==
  ASSUME IInv, NEW N, NEW F, NEW s, NEW a, Flow(F, N, s, a), Route(F, N, s, a),
         NEW x \in Spots, Contents[x] # <<>>, Head(Contents[x]) \in Mine(s, a)
  PROVE  x \in Way(F, N)
<1>1. 1 \in 1 .. Len(Contents[x]) /\ Head(Contents[x]) = Contents[x][1]
  BY TheContents, AfterCut DEF IInv
<1>2. x \in DOMAIN Stages(F, N)
  BY <1>1 DEF Flow, InLine, OnWay
<1>3. QED
  BY <1>2, WayNumbered

LEMMA FlowMoved ==
  ASSUME IInv, NEW N, NEW F, NEW s, NEW a, Route(F, N, s, a), Flow(F, N, s, a),
         NEW x, NEW y, Moves(x, y),
         Head(Contents[x]) \in Mine(s, a) =>
           x \notin Jam(F, N) /\ Adjacent(Contents, Stages(F, N), x, y)
  PROVE  FlowOn(F, N, s, a)
<1>1. /\ Contents \in AllContents /\ x \in Spots /\ y \in Spots /\ Contents[x] # <<>>
      /\ Contents' = Put(Cut(Contents, x), y, Head(Contents[x]))
  BY TheContents DEF IInv, Moves
<1>2. InLine(Contents, Mine(s, a), Stages(F, N), Jam(F, N)) /\ Numbered(Stages(F, N))
  BY WayNumbered DEF Flow
<1>3. InLine(Put(Cut(Contents, x), y, Head(Contents[x])), Mine(s, a), Stages(F, N), Jam(F, N))
  BY <1>1, <1>2, LineMoved
<1>4. QED
  BY <1>1, <1>3 DEF FlowOn

LEMMA FlowCut ==
  ASSUME IInv, NEW N, NEW F, NEW s, NEW a, Flow(F, N, s, a), NEW x, Cuts(x)
  PROVE  FlowOn(F, N, s, a)
<1>1. /\ Contents \in AllContents /\ x \in Spots /\ Contents[x] # <<>>
      /\ Contents' = Cut(Contents, x)
  BY TheContents DEF IInv, Cuts
<1>2. InLine(Cut(Contents, x), Mine(s, a), Stages(F, N), Jam(F, N))
  BY <1>1, LineCut DEF Flow
<1>3. QED
  BY <1>1, <1>2 DEF FlowOn

\* What is in a place has been sent.
LEMMA HeldIsSent ==
  ASSUME IInv, NEW z \in Spots, NEW i \in 1 .. Len(Contents[z])
  PROVE  Contents[z][i] \in Pkts /\ Contents[z][i].num \in 1 .. sent[Contents[z][i].src]
<1>1. Contents[z] \in Seq(Pkts)
  BY TheContents DEF IInv, AllContents
<1>2. PICK p : p = Contents[z][i]
  OBVIOUS
<1>3. p \in Pkts
  BY <1>1, <1>2, ElementOfSeq
<1>4. ~ Nowhere(Contents, p)
  BY <1>2 DEF Nowhere
<1>5. p.num \in 1 .. sent[p.src]
  BY <1>3, <1>4 DEF IInv, Accounted, InNoPlace
<1>6. QED
  BY <1>2, <1>3, <1>5

LEMMA FlowIssue ==
  ASSUME IInv, NEW N, NEW F, NEW s \in Sources, NEW a, Route(F, N, s, a), Flow(F, N, s, a),
         NEW u \in Sources, Comes(EndOf(WireAt(u, 0)), Packet(u, sent[u] + 1))
  PROVE  FlowOn(F, N, s, a)
<1>1. PICK r, y : r = Packet(u, sent[u] + 1) /\ y = EndOf(WireAt(u, 0))
  OBVIOUS
<1>2. /\ Contents \in AllContents /\ Typed /\ y \in Spots /\ r \in Pkts
      /\ Contents' = Put(Contents, y, r)
  BY <1>1, TheContents DEF IInv, Comes
<1>3. InLine(Contents, Mine(s, a), Stages(F, N), Jam(F, N)) /\ Numbered(Stages(F, N))
  BY WayNumbered DEF Flow
<1>4. ASSUME r \in Mine(s, a)
      PROVE  /\ y \in DOMAIN Stages(F, N)
             /\ \A z \in DOMAIN Stages(F, N) :
                  Stages(F, N)[z] < Stages(F, N)[y] => Contents[z] = <<>>
  <2>1. u = s /\ F[0] = WireAt(s, 0) /\ 0 \in 0 .. N
    BY <1>1, <1>4 DEF Mine, Packet, Route, Walk
  <2>2. y = EndOf(F[0])
    BY <1>1, <2>1
  <2>3. \A z \in Way(F, N) : Stages(F, N)[z] \in Nat
    BY WayNumbered DEF Numbered
  <2>4. /\ y \in Way(F, N)
        /\ \A z \in Way(F, N) :
             3 * 0 <= Stages(F, N)[z] /\ Stages(F, N)[z] < Stages(F, N)[y]
               => Contents[z] = <<>>
    BY <1>2, <2>1, <2>2, EndIs
  <2>5. QED
    BY <2>3, <2>4, WayNumbered
<1>5. ASSUME NEW z \in Spots, NEW i \in 1 .. Len(Contents[z]),
             Precedes(Mine(s, a), r, Contents[z][i])
      PROVE  FALSE
  <2>1. PICK q : q = Contents[z][i]
    OBVIOUS
  <2>2. q \in Pkts /\ q.num \in 1 .. sent[q.src]
    BY <2>1, HeldIsSent
  <2>3. q.src = u /\ r.num = sent[u] + 1 /\ r.num < q.num /\ sent[u] \in Nat
    BY <1>1, <1>2, <1>5, <2>1 DEF Precedes, Mine, Packet, Typed
  <2>4. QED
    BY <2>2, <2>3
<1>6. InLine(Put(Contents, y, r), Mine(s, a), Stages(F, N), Jam(F, N))
  BY <1>2, <1>3, <1>4, <1>5, LineCame
<1>7. QED
  BY <1>2, <1>6 DEF FlowOn

\* From an InputVC to the place behind it.
LEMMA FlowTaken ==
  ASSUME IInv, NEW N, NEW F, NEW s, NEW a, Route(F, N, s, a), Flow(F, N, s, a),
         NEW w \in Wires, NEW y \in {<<"queue", w.to>>, <<"target", w.to>>},
         Moves(<<"in", w>>, y)
  PROVE  FlowOn(F, N, s, a)
<1>1. PICK x : x = <<"in", w>>
  OBVIOUS
<1>2. Moves(x, y) /\ x \in Spots /\ y \in Spots /\ Contents[x] # <<>>
  BY <1>1 DEF Moves
<1>3. ASSUME Head(Contents[x]) \in Mine(s, a)
      PROVE  x \notin Jam(F, N) /\ Adjacent(Contents, Stages(F, N), x, y)
  <2>1. x \in Way(F, N)
    BY <1>2, <1>3, FrontOnWay
  <2>2. PICK k \in 0 .. N : w = F[k] /\ Stages(F, N)[x] = 3 * k + 1
    BY <1>1, <2>1, InOnWay
  <2>3. y \in Way(F, N) /\ Stages(F, N)[y] = 3 * k + 2
    BY <1>2, <2>2, BehindIs
  <2>4. \A z \in Way(F, N) : Stages(F, N)[z] \in Nat
    BY WayNumbered DEF Numbered
  <2>5. k \in Nat
    BY DEF Route, Walk
  <2>6. Adjacent(Contents, Stages(F, N), x, y)
    BY <2>2, <2>3, <2>4, <2>5, WayNumbered DEF Adjacent
  <2>7. QED
    BY <1>1, <2>6 DEF Jam
<1>4. QED
  BY <1>2, <1>3, FlowMoved

\* Over the wire that the device at the end of the k-th one chooses.
LEMMA OverNext ==
  ASSUME Typed, NEW N, NEW F, NEW s, NEW a, Route(F, N, s, a), NEW k \in 0 .. N - 1,
         NEW x \in Way(F, N), NEW n \in {3 * k + 1, 3 * k + 2}, Stages(F, N)[x] = n,
         n = 3 * k + 1 => F[k].to \in Routers
  PROVE  Adjacent(Contents, Stages(F, N), x, EndOf(F[k + 1]))
<1>1. N \in Nat /\ k \in Nat /\ k \in 0 .. N /\ k + 1 \in 0 .. N
  BY DEF Route, Walk
<1>2. PICK st, y : st = Stages(F, N) /\ y = EndOf(F[k + 1])
  OBVIOUS
<1>3. /\ y \in Way(F, N) /\ st[y] \in {3 * (k + 1), 3 * (k + 1) + 1}
      /\ \A z \in Way(F, N) :
           3 * (k + 1) <= st[z] /\ st[z] < st[y] => Contents[z] = <<>>
  BY <1>1, <1>2, EndIs
<1>4. ASSUME NEW z \in Way(F, N), st[x] < st[z], st[z] < st[y]
      PROVE  Contents[z] = <<>>
  <2>1. PlaceIs(F, N, z, st[z]) /\ st[z] \in Nat
    BY <1>2, WayNumbered DEF Numbered
  <2>2. CASE st[z] = 3 * k + 2
    <3>1. F[k].to \in Routers
      BY <1>1, <1>2, <1>4, <2>2
    <3>2. z \in {<<"queue", F[k].to>>, <<"target", F[k].to>>} /\ z \in Spots
      BY <1>1, <2>1, <2>2, PlaceAt DEF Way
    <3>3. QED
      BY <3>1, <3>2, Kinds DEF Spots, Devices
  <2>3. CASE st[z] # 3 * k + 2
    <3>1. 3 * (k + 1) <= st[z]
      BY <1>1, <1>2, <1>4, <2>1, <2>3
    <3>2. QED
      BY <1>3, <1>4, <3>1
  <2>4. QED
    BY <2>2, <2>3
<1>5. st[x] < st[y]
  BY <1>1, <1>2, <1>3
<1>6. QED
  BY <1>2, <1>3, <1>4, <1>5, WayNumbered DEF Adjacent

LEMMA FlowRouted ==
  ASSUME IInv, NEW N, NEW F, NEW s, NEW a, Route(F, N, s, a), Flow(F, N, s, a),
         NEW w \in Wires, w.to \in Routers, Routed(w)
  PROVE  FlowOn(F, N, s, a)
<1>1. PICK v : v = WireAt(w.to, RouteByAddress(Head(in_vc[w])))
  OBVIOUS
<1>2. CASE ~ Taken(v) /\ Cuts(<<"in", w>>)
  BY <1>2, FlowCut
<1>3. CASE Taken(v) /\ Moves(<<"in", w>>, EndOf(v))
  <2>1. PICK x : x = <<"in", w>>
    OBVIOUS
  <2>2. Moves(x, EndOf(v)) /\ x \in Spots /\ Contents[x] # <<>>
    BY <1>3, <2>1 DEF Moves
  <2>3. Contents[x] = in_vc[w]
    BY <2>1, TheContents DEF IInv
  <2>4. ASSUME Head(Contents[x]) \in Mine(s, a)
        PROVE  x \notin Jam(F, N) /\ Adjacent(Contents, Stages(F, N), x, EndOf(v))
    <3>1. x \in Way(F, N)
      BY <2>2, <2>4, FrontOnWay
    <3>2. PICK k \in 0 .. N : w = F[k] /\ Stages(F, N)[x] = 3 * k + 1
      BY <2>1, <3>1, InOnWay
    <3>3. k \in 0 .. N - 1
      <4>1. k # N /\ N \in Nat
        BY <3>2, Kinds DEF Route, Walk, Devices
      <4>2. QED
        BY <4>1
    <3>4. F[k + 1] = WireAt(w.to, PortFor(w.to, a))
      BY <3>2, <3>3 DEF Route, Walk
    <3>5. RouteByAddress(Head(in_vc[w])) = PortFor(w.to, a)
      <4>1. Address(Head(in_vc[w])) = a
        BY <2>3, <2>4 DEF Mine
      <4>2. QED
        BY <4>1, RouterChoice
    <3>6. v = F[k + 1]
      BY <1>1, <3>4, <3>5
    <3>7. 3 * k + 1 \in {3 * k + 1, 3 * k + 2}
      OBVIOUS
    <3>8. Adjacent(Contents, Stages(F, N), x, EndOf(F[k + 1]))
      BY <3>1, <3>2, <3>3, <3>7, OverNext DEF IInv
    <3>9. x \notin Jam(F, N)
      BY <2>1 DEF Jam
    <3>10. QED
      BY <3>6, <3>8, <3>9
  <2>5. QED
    BY <2>2, <2>4, FlowMoved
<1>4. QED
  BY <1>1, <1>2, <1>3 DEF Routed

\* The next wire of a request at the front of a queue on the way.
LEMMA QueueNext ==
  ASSUME IInv, NEW N, NEW F, NEW s, NEW a, Route(F, N, s, a), Flow(F, N, s, a),
         NEW d \in Queueing, req_queue[d] # <<>>, Head(req_queue[d]) \in Mine(s, a)
  PROVE  \E k \in 0 .. N - 1 :
           /\ d = F[k].to /\ F[k + 1] = Output(d, Head(req_queue[d]))
           /\ <<"queue", d>> \in Way(F, N) /\ Stages(F, N)[<<"queue", d>>] = 3 * k + 2
<1>1. PICK x : x = <<"queue", d>>
  OBVIOUS
<1>2. Contents[x] = req_queue[d] /\ x \in Spots
  BY <1>1, TheContents, SpotsAre DEF IInv
<1>3. x \in Way(F, N)
  BY <1>2, FrontOnWay
<1>4. PICK k \in 0 .. N - 1 : d = F[k].to /\ Stages(F, N)[x] = 3 * k + 2
  BY <1>1, <1>3, QueueOnWay
<1>5. F[k + 1] = WireAt(d, PortFor(d, a))
  BY <1>4 DEF Route, Walk
<1>6. Address(Head(req_queue[d])) = a
  BY DEF Mine
<1>7. Output(d, Head(req_queue[d])) = WireAt(d, PortFor(d, a))
  BY <1>6, QueueingChoice
<1>8. QED
  BY <1>1, <1>3, <1>4, <1>5, <1>7

LEMMA FlowPassed ==
  ASSUME IInv, NEW N, NEW F, NEW s, NEW a, Route(F, N, s, a), Flow(F, N, s, a),
         NEW d \in Queueing, NEW v, v = Output(d, Head(req_queue[d])), Taken(v),
         Moves(<<"queue", d>>, EndOf(v))
  PROVE  FlowOn(F, N, s, a)
<1>1. PICK x : x = <<"queue", d>>
  OBVIOUS
<1>2. Contents[x] = req_queue[d] /\ Contents[x] # <<>> /\ Moves(x, EndOf(v))
  BY <1>1, TheContents DEF IInv, Moves
<1>3. ASSUME Head(Contents[x]) \in Mine(s, a)
      PROVE  x \notin Jam(F, N) /\ Adjacent(Contents, Stages(F, N), x, EndOf(v))
  <2>1. PICK k \in 0 .. N - 1 :
          /\ d = F[k].to /\ F[k + 1] = v
          /\ x \in Way(F, N) /\ Stages(F, N)[x] = 3 * k + 2
    BY <1>1, <1>2, <1>3, QueueNext
  <2>2. 3 * k + 2 \in {3 * k + 1, 3 * k + 2} /\ ~ (3 * k + 2 = 3 * k + 1)
    BY DEF Route, Walk
  <2>3. Adjacent(Contents, Stages(F, N), x, EndOf(F[k + 1]))
    BY <2>1, <2>2, OverNext DEF IInv
  <2>4. x \notin Jam(F, N)
    <3>1. SUFFICES ASSUME x \in Jam(F, N) PROVE FALSE
      OBVIOUS
    <3>2. PICK j \in 0 .. N - 1 : x = <<"queue", F[j].to>> /\ ~ Taken(F[j + 1])
      BY <3>1 DEF Jam
    <3>3. F[j].to = F[k].to /\ j \in 0 .. N /\ k \in 0 .. N
      BY <1>1, <2>1, <3>2 DEF Route, Walk
    <3>4. j = k
      BY <3>3, RouteSimple
    <3>5. QED
      BY <2>1, <3>2, <3>4
  <2>5. QED
    BY <2>1, <2>3, <2>4
<1>4. QED
  BY <1>2, <1>3, FlowMoved

LEMMA FlowRetried ==
  ASSUME IInv, NEW N, NEW F, NEW s, NEW a, Route(F, N, s, a), Flow(F, N, s, a),
         NEW d \in Queueing, ~ Taken(Output(d, Head(req_queue[d]))),
         Moves(<<"queue", d>>, <<"queue", d>>)
  PROVE  FlowOn(F, N, s, a)
<1>1. PICK x : x = <<"queue", d>>
  OBVIOUS
<1>2. /\ Contents[x] = req_queue[d] /\ Contents[x] # <<>> /\ x \in Spots
      /\ Contents' = Put(Cut(Contents, x), x, Head(Contents[x]))
  BY <1>1, TheContents DEF IInv, Moves
<1>3. ASSUME Head(Contents[x]) \in Mine(s, a) PROVE x \in Jam(F, N)
  <2>1. PICK k \in 0 .. N - 1 : d = F[k].to /\ F[k + 1] = Output(d, Head(req_queue[d]))
    BY <1>2, <1>3, QueueNext
  <2>2. QED
    BY <1>1, <2>1 DEF Jam
<1>4. /\ InLine(Contents, Mine(s, a), Stages(F, N), Jam(F, N)) /\ Numbered(Stages(F, N))
      /\ Contents \in AllContents
  BY WayNumbered, TheContents DEF Flow, IInv
<1>5. InLine(Put(Cut(Contents, x), x, Head(Contents[x])), Mine(s, a), Stages(F, N), Jam(F, N))
  BY <1>2, <1>3, <1>4, LineRetried
<1>6. QED
  BY <1>2, <1>5 DEF FlowOn

-------------------------------------------------------------------------------
\* A step keeps the requests in line.
LEMMA FlowStep ==
  ASSUME IInv, Next, NEW N, NEW F, NEW s \in Sources, NEW a, Route(F, N, s, a), Flow(F, N, s, a)
  PROVE  FlowOn(F, N, s, a)
<1>1. ASSUME NEW u \in Sources, Issue(u) PROVE FlowOn(F, N, s, a)
  BY <1>1, IssueKeeps, FlowIssue
<1>2. ASSUME NEW w \in Wires, Enqueue(w) PROVE FlowOn(F, N, s, a)
  BY <1>2, EnqueueKeeps, FlowTaken
<1>3. ASSUME NEW w \in Wires, RoutePacket(w) PROVE FlowOn(F, N, s, a)
  <2>1. w.to \in Routers
    BY <1>3 DEF RoutePacket
  <2>2. QED
    BY <1>3, <2>1, RoutePacketKeeps, FlowRouted
<1>4. ASSUME NEW w \in Wires, RouteNowhere(w) PROVE FlowOn(F, N, s, a)
  BY <1>4, RouteNowhereKeeps, FlowCut
<1>5. ASSUME NEW w \in Wires, Handle(w) PROVE FlowOn(F, N, s, a)
  BY <1>5, HandleKeeps, FlowTaken
<1>6. ASSUME NEW d \in Queueing, DeviceTick(d) PROVE FlowOn(F, N, s, a)
  <2>1. CASE Pass(d)
    <3>1. PICK v : v = Output(d, Head(req_queue[d]))
      OBVIOUS
    <3>2. Taken(v) /\ Moves(<<"queue", d>>, EndOf(v))
      BY <2>1, <3>1, PassKeeps DEF Pass
    <3>3. QED
      BY <3>1, <3>2, FlowPassed
  <2>2. CASE Retry(d)
    <3>1. ~ Taken(Output(d, Head(req_queue[d])))
      BY <2>2 DEF Retry
    <3>2. QED
      BY <2>2, <3>1, RetryKeeps, FlowRetried
  <2>3. CASE NoOutput(d)
    BY <2>3, NoOutputKeeps, FlowCut
  <2>4. QED
    BY <1>6, <2>1, <2>2, <2>3 DEF DeviceTick
<1>7. ASSUME NEW r \in answers, AnswerDropped(r) \/ AnswerForwarded(r) \/ AnswerReturned(r)
      PROVE  FlowOn(F, N, s, a)
  <2>1. UNCHANGED <<out_vc, in_vc, req_queue, handled>>
    BY <1>7 DEF AnswerDropped, AnswerForwarded, AnswerReturned, links
  <2>2. Contents' = Contents
    BY <2>1 DEF Contents
  <2>3. QED
    BY <2>2 DEF Flow, FlowOn
<1>8. QED
  BY <1>1, <1>2, <1>3, <1>4, <1>5, <1>6, <1>7 DEF Next

LEMMA FlowKept ==
  ASSUME IInv, Next, NEW N, NEW F, NEW s \in Sources, NEW a, Route(F, N, s, a), Flow(F, N, s, a)
  PROVE  Flow(F, N, s, a)'
<1>1. Typed' /\ FullKept /\ program' = program
  BY StepKeeps
<1>2. Mine(s, a)' = Mine(s, a)
  BY <1>1 DEF Mine, Address
<1>3. \A i \in 0 .. N - 1 : ~ Taken(F[i + 1]) => ~ Taken(F[i + 1])'
  <2>1. \A i \in 0 .. N - 1 : F[i + 1] \in Wires
    BY DEF Route, Walk
  <2>2. \A w \in Wires : ~ Taken(w) => ~ Taken(w)'
    BY <1>1, StaysFull
  <2>3. QED
    BY <2>1, <2>2
<1>4. Jam(F, N) \subseteq Jam(F, N)'
  BY <1>3 DEF Jam
<1>5. InLine(Contents', Mine(s, a), Stages(F, N), Jam(F, N))
  BY FlowStep DEF FlowOn
<1>6. InLine(Contents', Mine(s, a), Stages(F, N), Jam(F, N)')
  BY <1>4, <1>5, LineJammed
<1>7. Stages(F, N)' = Stages(F, N)
  OBVIOUS
<1>8. QED
  BY <1>2, <1>6, <1>7 DEF Flow

-------------------------------------------------------------------------------
(***************************************************************************)
(* A request is at a place where a walk leads by its address.              *)
(***************************************************************************)
EndsAt(x, w) == x \in {<<"out", w>>, <<"in", w>>, <<"queue", w.to>>, <<"target", w.to>>}
Reach(p, x) == \E F, N : Walk(F, N, p.src, Address(p)) /\ EndsAt(x, F[N])
Reached(c) == \A x \in Spots : \A i \in 1 .. Len(c[x]) : Reach(c[x][i], x)

\* A walk goes on by the wire that the device chooses.
LEMMA WalkOn ==
  ASSUME NEW F, NEW N, NEW s, NEW a, Walk(F, N, s, a), F[N].to \in Devices,
         NEW v \in Wires, v = WireAt(F[N].to, PortFor(F[N].to, a))
  PROVE  \E G, M : Walk(G, M, s, a) /\ G[M] = v
<1>1. /\ N \in Nat /\ F \in [0 .. N -> Wires] /\ F[0] = WireAt(s, 0)
      /\ \A k \in 0 .. N - 1 : /\ F[k].to \in Devices
                               /\ F[k + 1] = WireAt(F[k].to, PortFor(F[k].to, a))
  BY DEF Walk
<1> DEFINE M == N + 1
           G == [k \in 0 .. M |-> IF k = M THEN v ELSE F[k]]
<1>2. M \in Nat /\ G \in [0 .. M -> Wires] /\ G[M] = v
  BY <1>1
<1>3. \A k \in 0 .. N : G[k] = F[k]
  BY <1>1
<1>4. G[0] = WireAt(s, 0)
  BY <1>1, <1>3
<1>5. ASSUME NEW k \in 0 .. M - 1
      PROVE  G[k].to \in Devices /\ G[k + 1] = WireAt(G[k].to, PortFor(G[k].to, a))
  <2> HIDE DEF G
  <2>1. G[k] = F[k]
    BY <1>1, <1>3
  <2>2. CASE k = N
    BY <1>2, <2>1, <2>2
  <2>3. CASE k # N
    <3>1. k \in 0 .. N - 1 /\ k + 1 \in 0 .. N
      BY <1>1, <2>3
    <3>2. G[k + 1] = F[k + 1]
      BY <1>3, <3>1
    <3>3. QED
      BY <1>1, <2>1, <3>1, <3>2
  <2>4. QED
    BY <2>2, <2>3
<1>6. Walk(G, M, s, a)
  BY <1>2, <1>4, <1>5 DEF Walk
<1>7. QED
  BY <1>2, <1>6

\* What was reached stays so, if what comes to a place has a walk there.
LEMMA ReachedMoved ==
  ASSUME IInv, Reached(Contents), NEW x, NEW y, Moves(x, y), Reach(Head(Contents[x]), y)
  PROVE  Reached(Contents')
<1>1. PICK c, d, r : c = Contents /\ d = Cut(c, x) /\ r = Head(c[x])
  OBVIOUS
<1>2. /\ c \in AllContents /\ x \in Spots /\ y \in Spots /\ c[x] # <<>>
      /\ Contents' = Put(d, y, r)
  BY <1>1, TheContents DEF IInv, Moves
<1>3. d \in AllContents /\ r \in Pkts
  BY <1>1, <1>2, AfterCut
<1>4. ASSUME NEW z \in Spots, NEW j \in 1 .. Len(Put(d, y, r)[z])
      PROVE  Reach(Put(d, y, r)[z][j], z)
  <2>1. CASE z = y /\ Put(d, y, r)[z][j] = r
    BY <1>1, <2>1
  <2>2. CASE j \in 1 .. Len(d[z]) /\ Put(d, y, r)[z][j] = d[z][j]
    <3>1. From(x, z, j) \in 1 .. Len(c[z]) /\ d[z][j] = c[z][From(x, z, j)]
      BY <1>1, <1>2, <2>2, CutFrom
    <3>2. Reach(c[z][From(x, z, j)], z)
      BY <1>1, <3>1 DEF Reached
    <3>3. QED
      BY <2>2, <3>1, <3>2
  <2>3. QED
    BY <1>2, <1>3, <2>1, <2>2, PutFrom
<1>5. QED
  BY <1>2, <1>4 DEF Reached

LEMMA ReachedCut ==
  ASSUME IInv, Reached(Contents), NEW x, Cuts(x)
  PROVE  Reached(Contents')
<1>1. PICK c, d : c = Contents /\ d = Cut(c, x)
  OBVIOUS
<1>2. c \in AllContents /\ x \in Spots /\ c[x] # <<>> /\ Contents' = d
  BY <1>1, TheContents DEF IInv, Cuts
<1>3. ASSUME NEW z \in Spots, NEW j \in 1 .. Len(d[z]) PROVE Reach(d[z][j], z)
  <2>1. From(x, z, j) \in 1 .. Len(c[z]) /\ d[z][j] = c[z][From(x, z, j)]
    BY <1>1, <1>2, CutFrom
  <2>2. QED
    BY <1>1, <2>1 DEF Reached
<1>4. QED
  BY <1>2, <1>3 DEF Reached

LEMMA ReachedCame ==
  ASSUME IInv, Reached(Contents), NEW y, NEW p, Comes(y, p), Reach(p, y)
  PROVE  Reached(Contents')
<1>1. PICK c : c = Contents
  OBVIOUS
<1>2. c \in AllContents /\ y \in Spots /\ p \in Pkts /\ Contents' = Put(c, y, p)
  BY <1>1, TheContents DEF IInv, Comes
<1>3. ASSUME NEW z \in Spots, NEW j \in 1 .. Len(Put(c, y, p)[z])
      PROVE  Reach(Put(c, y, p)[z][j], z)
  <2>1. CASE z = y /\ Put(c, y, p)[z][j] = p
    BY <2>1
  <2>2. CASE j \in 1 .. Len(c[z]) /\ Put(c, y, p)[z][j] = c[z][j]
    BY <1>1, <2>2 DEF Reached
  <2>3. QED
    BY <1>2, <2>1, <2>2, PutFrom
<1>4. QED
  BY <1>2, <1>3 DEF Reached

\* The front of a place has been reached.
LEMMA FrontReached ==
  ASSUME IInv, Reached(Contents), NEW x, NEW y, Moves(x, y)
  PROVE  Reach(Head(Contents[x]), x)
<1>1. Contents \in AllContents /\ x \in Spots /\ Contents[x] # <<>>
  BY TheContents DEF IInv, Moves
<1>2. 1 \in 1 .. Len(Contents[x]) /\ Head(Contents[x]) = Contents[x][1]
  BY <1>1, AfterCut
<1>3. QED
  BY <1>1, <1>2 DEF Reached

\* sendReq puts a request where the walk has reached the wire.
LEMMA ReachEnd ==
  ASSUME NEW p, NEW F, NEW N, Walk(F, N, p.src, Address(p))
  PROVE  Reach(p, EndOf(F[N])) /\ Reach(p, <<"queue", F[N].to>>) /\ Reach(p, <<"target", F[N].to>>)
BY DEF Reach, EndsAt, EndOf

LEMMA ReachFirst ==
  ASSUME Typed, NEW s \in Sources, NEW p, p.src = s
  PROVE  Reach(p, EndOf(WireAt(s, 0)))
<1> DEFINE F == [k \in 0 .. 0 |-> WireAt(s, 0)]
<1>1. WireAt(s, 0) \in Wires
  BY PortWires
<1>2. Walk(F, 0, s, Address(p)) /\ F[0] = WireAt(s, 0)
  BY <1>1 DEF Walk
<1> HIDE DEF F
<1>3. QED
  BY <1>2, ReachEnd

LEMMA ReachedStep ==
  ASSUME IInv, Reached(Contents), Next
  PROVE  Reached(Contents')
<1> DEFINE Goal == Reached(Contents')
<1>1. ASSUME NEW s \in Sources, Issue(s) PROVE Goal
  <2>1. PICK p, y : p = Packet(s, sent[s] + 1) /\ y = EndOf(WireAt(s, 0))
    OBVIOUS
  <2>2. Comes(y, p)
    BY <1>1, <2>1, IssueKeeps
  <2>3. p.src = s
    BY <2>1 DEF Packet
  <2>4. Reach(p, y)
    BY <2>1, <2>3, ReachFirst DEF IInv
  <2>5. QED
    BY <2>2, <2>4, ReachedCame
<1>2. ASSUME NEW w \in Wires, NEW y \in {<<"queue", w.to>>, <<"target", w.to>>},
             Moves(<<"in", w>>, y)
      PROVE  Goal
  <2>1. PICK x, p : x = <<"in", w>> /\ p = Head(Contents[x])
    OBVIOUS
  <2>2. Reach(p, x) /\ Moves(x, y)
    BY <1>2, <2>1, FrontReached
  <2>3. PICK F, N : Walk(F, N, p.src, Address(p)) /\ EndsAt(x, F[N])
    BY <2>2 DEF Reach
  <2>4. F[N] = w
    BY <2>1, <2>3 DEF EndsAt
  <2>5. Reach(p, y)
    BY <2>3, <2>4, ReachEnd
  <2>6. QED
    BY <2>1, <2>2, <2>5, ReachedMoved
<1>3. ASSUME NEW w \in Wires, Enqueue(w) PROVE Goal
  BY <1>2, <1>3, EnqueueKeeps
<1>4. ASSUME NEW w \in Wires, Handle(w) PROVE Goal
  BY <1>2, <1>4, HandleKeeps
<1>5. ASSUME NEW w \in Wires, RoutePacket(w) PROVE Goal
  <2>1. PICK v : v = WireAt(w.to, RouteByAddress(Head(in_vc[w])))
    OBVIOUS
  <2>2. w.to \in Routers /\ Routed(w) /\ v \in Wires
    BY <1>5, <2>1, RoutePacketKeeps, RouterWire DEF RoutePacket
  <2>3. CASE Cuts(<<"in", w>>)
    BY <2>3, ReachedCut
  <2>4. CASE Moves(<<"in", w>>, EndOf(v))
    <3>1. PICK x, p : x = <<"in", w>> /\ p = Head(Contents[x])
      OBVIOUS
    <3>2. Reach(p, x) /\ Moves(x, EndOf(v))
      BY <2>4, <3>1, FrontReached
    <3>3. PICK F, N : Walk(F, N, p.src, Address(p)) /\ EndsAt(x, F[N])
      BY <3>2 DEF Reach
    <3>4. F[N] = w /\ w.to \in Devices
      BY <2>2, <3>1, <3>3 DEF EndsAt, Devices
    <3>5. p = Head(in_vc[w])
      BY <3>1, TheContents DEF IInv
    <3>6. v = WireAt(w.to, PortFor(w.to, Address(p)))
      BY <2>1, <2>2, <3>5, RouterChoice
    <3>7. PICK G, M : Walk(G, M, p.src, Address(p)) /\ G[M] = v
      BY <2>2, <3>3, <3>4, <3>6, WalkOn
    <3>8. Reach(p, EndOf(v))
      BY <3>7, ReachEnd
    <3>9. QED
      BY <3>1, <3>2, <3>8, ReachedMoved
  <2>5. QED
    BY <2>1, <2>2, <2>3, <2>4 DEF Routed
<1>6. ASSUME NEW w \in Wires, RouteNowhere(w) PROVE Goal
  BY <1>6, RouteNowhereKeeps, ReachedCut
<1>7. ASSUME NEW d \in Queueing, Pass(d) PROVE Goal
  <2>1. PICK v : v = Output(d, Head(req_queue[d]))
    OBVIOUS
  <2>2. PICK x, p : x = <<"queue", d>> /\ p = Head(Contents[x])
    OBVIOUS
  <2>3. p = Head(req_queue[d])
    BY <2>2, TheContents DEF IInv
  <2>4. Moves(x, EndOf(v)) /\ req_queue[d] # <<>> /\ Downstream(d) # {}
    BY <1>7, <2>1, <2>2, PassKeeps DEF Pass
  <2>5. IsSent(p)
    BY <2>3, <2>4, QueueFront
  <2>6. v \in Wires
    BY <2>1, <2>3, <2>4, <2>5, OutputWire DEF IInv, IsSent
  <2>7. Reach(p, x)
    BY <2>2, <2>4, FrontReached
  <2>8. PICK F, N : Walk(F, N, p.src, Address(p)) /\ EndsAt(x, F[N])
    BY <2>7 DEF Reach
  <2>9. F[N].to = d /\ d \in Devices
    BY <2>2, <2>8 DEF EndsAt, Devices
  <2>10. v = WireAt(d, PortFor(d, Address(p)))
    BY <2>1, <2>3, QueueingChoice
  <2>11. PICK G, M : Walk(G, M, p.src, Address(p)) /\ G[M] = v
    BY <2>6, <2>8, <2>9, <2>10, WalkOn
  <2>12. Reach(p, EndOf(v))
    BY <2>11, ReachEnd
  <2>13. QED
    BY <2>2, <2>4, <2>12, ReachedMoved
<1>8. ASSUME NEW d \in Queueing, Retry(d) PROVE Goal
  <2>1. PICK x : x = <<"queue", d>>
    OBVIOUS
  <2>2. Moves(x, x)
    BY <1>8, <2>1, RetryKeeps
  <2>3. QED
    BY <2>2, FrontReached, ReachedMoved
<1>9. ASSUME NEW d \in Queueing, NoOutput(d) PROVE Goal
  BY <1>9, NoOutputKeeps, ReachedCut
<1>10. ASSUME NEW r \in answers, AnswerDropped(r) \/ AnswerForwarded(r) \/ AnswerReturned(r)
       PROVE  Goal
  <2>1. UNCHANGED <<out_vc, in_vc, req_queue, handled>>
    BY <1>10 DEF AnswerDropped, AnswerForwarded, AnswerReturned, links
  <2>2. Contents' = Contents
    BY <2>1 DEF Contents
  <2>3. QED
    BY <2>2
<1>11. QED
  BY <1>1, <1>3, <1>4, <1>5, <1>6, <1>7, <1>8, <1>9, <1>10 DEF Next, DeviceTick

(***************************************************************************)
(* The inductive invariant for the order.                                  *)
(***************************************************************************)
InStep == \A F, N, a : \A s \in Sources : Route(F, N, s, a) => Flow(F, N, s, a)
OrderInv == IInv /\ Reached(Contents) /\ InStep

LEMMA OrderInit == Init => OrderInv
<1> SUFFICES ASSUME Init PROVE OrderInv
  OBVIOUS
<1>1. IInv
  BY InvInit
<1>2. ASSUME NEW x \in Spots PROVE Contents[x] = <<>>
  <2>1. /\ \A w \in Wires : out_vc[w] = <<>> /\ in_vc[w] = <<>>
        /\ \A d \in Queueing : req_queue[d] = <<>>
        /\ \A t \in Targets : handled[t] = <<>>
    BY DEF Init
  <2>2. Contents[x] = CASE x[1] = "out" -> out_vc[x[2]]
                        [] x[1] = "in" -> in_vc[x[2]]
                        [] x[1] = "queue" -> req_queue[x[2]]
                        [] x[1] = "target" -> handled[x[2]]
    BY DEF Contents, ContentsOf
  <2>3. QED
    BY <2>1, <2>2, SpotsAre
<1>3. \A x \in Spots : 1 .. Len(Contents[x]) = {}
  BY <1>2
<1>4. Reached(Contents)
  BY <1>3 DEF Reached
<1>5. InStep
  BY <1>3 DEF InStep, Flow, InLine, OnWay, InTurn
<1>6. QED
  BY <1>1, <1>4, <1>5 DEF OrderInv

LEMMA OrderNext == OrderInv /\ [Next]_vars => OrderInv'
<1> SUFFICES ASSUME OrderInv, [Next]_vars PROVE OrderInv'
  OBVIOUS
<1>1. IInv' /\ IInv /\ Reached(Contents)
  BY InvNext DEF OrderInv
<1>2. CASE Next
  <2>1. program' = program /\ Reached(Contents')
    BY <1>1, <1>2, StepKeeps, ReachedStep
  <2>2. Reached(Contents)'
    BY <2>1 DEF Reached, Reach, Address
  <2>3. ASSUME NEW F, NEW N, NEW a, NEW s \in Sources, Route(F, N, s, a)
        PROVE  Flow(F, N, s, a)'
    BY <1>1, <1>2, <2>3, FlowKept DEF OrderInv, InStep
  <2>4. InStep'
    BY <2>3 DEF InStep
  <2>5. QED
    BY <1>1, <2>2, <2>4 DEF OrderInv
<1>3. CASE UNCHANGED vars
  <2>1. UNCHANGED <<program, out_vc, in_vc, req_queue, handled>>
    BY <1>3 DEF vars, links
  <2>2. Contents' = Contents
    BY <2>1 DEF Contents
  <2>3. Reached(Contents)'
    BY <1>1, <2>1, <2>2 DEF Reached, Reach, Address
  <2>4. ASSUME NEW F, NEW N, NEW a, NEW s \in Sources, Flow(F, N, s, a)
        PROVE  Flow(F, N, s, a)'
    <3>1. Mine(s, a)' = Mine(s, a) /\ Jam(F, N)' = Jam(F, N)
      BY <2>1 DEF Mine, Address, Jam, Taken, Direct
    <3>2. QED
      BY <2>2, <2>4, <3>1 DEF Flow
  <2>5. InStep'
    BY <2>4 DEF OrderInv, InStep
  <2>6. QED
    BY <1>1, <2>3, <2>5 DEF OrderInv
<1>4. QED
  BY <1>2, <1>3

(***************************************************************************)
(* On every topology, a target handles the requests of one source to one   *)
(* address in the order they were sent, although tick() of crossbar and    *)
(* arbiter puts what an output refuses behind younger requests.            *)
(***************************************************************************)
THEOREM RequestsInOrder == Spec => []InOrder
<1>1. OrderInv => InOrder
  <2> SUFFICES ASSUME OrderInv, NEW t \in Targets,
                      NEW i \in 1 .. Len(handled[t]), NEW j \in 1 .. Len(handled[t]), i < j,
                      handled[t][i].src = handled[t][j].src,
                      Address(handled[t][i]) = Address(handled[t][j])
               PROVE  handled[t][i].num < handled[t][j].num
    BY DEF InOrder
  <2>1. PICK x : x = <<"target", t>>
    OBVIOUS
  <2>2. x \in Spots /\ Contents[x] = handled[t] /\ IInv
    BY <2>1, SpotsAre, TargetAt DEF Contents, OrderInv
  <2>3. PICK p, q : p = Contents[x][i] /\ q = Contents[x][j]
    OBVIOUS
  <2>4. p \in Pkts /\ q \in Pkts /\ p.num \in 1 .. sent[p.src]
    BY <2>2, <2>3, HeldIsSent
  <2>5. p # q
    <3>1. Once(Contents, p)
      <4>1. ~ Nowhere(Contents, p)
        BY <2>2, <2>3 DEF Nowhere
      <4>2. InOnePlace(Contents, released, LostPackets, p)
        BY <2>2, <2>4 DEF IInv, Accounted
      <4>3. QED
        BY <4>1, <4>2 DEF InOnePlace
    <3>2. PICK y \in Spots : \E k \in 1 .. Len(Contents[y]) : OnlyAt(Contents, p, y, k)
      BY <3>1 DEF Once
    <3>3. PICK k \in 1 .. Len(Contents[y]) : OnlyAt(Contents, p, y, k)
      BY <3>2
    <3>4. QED
      BY <2>2, <2>3, <3>3 DEF OnlyAt
  <2>6. p.num # q.num
    BY <2>2, <2>3, <2>4, <2>5 DEF Pkts
  <2>7. Reach(p, x)
    BY <2>2, <2>3 DEF OrderInv, Reached
  <2>8. PICK F, N : Walk(F, N, p.src, Address(p)) /\ EndsAt(x, F[N])
    BY <2>7 DEF Reach
  <2>9. PICK s, a : s = p.src /\ a = Address(p)
    OBVIOUS
  <2>10. F[N].to = t
    BY <2>1, <2>8 DEF EndsAt
  <2>11. Route(F, N, s, a) /\ s \in Sources
    BY <2>4, <2>8, <2>9, <2>10 DEF Route, Pkts
  <2>12. InTurn(Contents, Mine(s, a), Stages(F, N), Jam(F, N))
    BY <2>11 DEF OrderInv, InStep, Flow, InLine
  <2>13. p \in Mine(s, a) /\ q \in Mine(s, a)
    BY <2>2, <2>3, <2>4, <2>9 DEF Mine
  <2>14. x \notin Jam(F, N)
    BY <2>1 DEF Jam
  <2>15. ASSUME q.num < p.num PROVE FALSE
    <3>1. Precedes(Mine(s, a), q, p)
      BY <2>13, <2>15 DEF Precedes
    <3>2. j < i
      BY <2>2, <2>3, <2>12, <2>14, <3>1 DEF InTurn
    <3>3. QED
      BY <3>2
  <2>16. p.num \in Nat /\ q.num \in Nat
    BY <2>4 DEF Pkts
  <2>17. QED
    BY <2>2, <2>3, <2>6, <2>15, <2>16
<1>2. QED
  BY <1>1, OrderInit, OrderNext, PTL DEF Spec
===============================================================================
