-------------------------- MODULE VCLinkStats_proofs --------------------------
(***************************************************************************)
(* Proofs of the properties of VCLinkStats: whatever is sent, retried,     *)
(* handled, answered and reset, in whatever order, the counters of ports   *)
(* and virtual channels agree with each other and with the buffers.        *)
(*                                                                         *)
(* The folds of the model are recursive functions over the finite sets of  *)
(* VCs and masters.  What is true of them for all sets is shown by sets of *)
(* numbers and of subsets that contain the next one (AllNumbers and        *)
(* AllSubsets).                                                            *)
(***************************************************************************)
EXTENDS VCLinkStats, VCLink_proofs, FiniteSetTheorems, WellFoundedInduction

-----------------------------------------------------------------------------
Below == {p \in Nat \X Nat : p[1] < p[2]}

\* A set of numbers with 0 and the successor of each has all numbers.
LEMMA AllNumbers ==
  ASSUME NEW Q, 0 \in Q, \A n \in Nat : n \in Q => n + 1 \in Q
  PROVE  Nat \subseteq Q
<1> DEFINE Out == Nat \ Q
<1>1. SUFFICES ASSUME Out # {} PROVE FALSE
  OBVIOUS
<1>2. IsWellFoundedOn(Below, Nat)
  <2>1. Below = OpToRel(<, Nat)
    BY DEF Below, OpToRel
  <2>2. QED
    BY <2>1, NatLessThanWellFounded
<1>3. PICK n \in Out : \A m \in Out : ~ (<<m, n>> \in Below)
  <2>1. Out \subseteq Nat
    OBVIOUS
  <2> HIDE DEF Out
  <2>2. QED
    BY <1>1, <1>2, <2>1, WFMin
<1>4. n \in Nat /\ n # 0 /\ n \notin Q
  OBVIOUS
<1>5. n - 1 \in Nat /\ (n - 1) + 1 = n /\ n - 1 < n
  BY <1>4
<1>6. <<n - 1, n>> \in Below
  BY <1>4, <1>5 DEF Below
<1>7. n - 1 \notin Out
  BY <1>3, <1>6
<1>8. n - 1 \in Q
  BY <1>5, <1>7
<1>9. QED
  BY <1>4, <1>5, <1>8

\* The element that a fold takes from a set, and what it leaves.
Chosen(s) == CHOOSE x \in s : TRUE
Rest(s) == s \ {Chosen(s)}

LEMMA RestSmaller ==
  ASSUME NEW S, IsFiniteSet(S), NEW s \in SUBSET S, s # {}
  PROVE  /\ Chosen(s) \in s /\ Chosen(s) \in S /\ Rest(s) \in SUBSET S
         /\ IsFiniteSet(s) /\ Cardinality(s) \in Nat /\ Cardinality(s) >= 1
         /\ Cardinality(Rest(s)) = Cardinality(s) - 1
<1>1. Chosen(s) \in s
  BY DEF Chosen
<1>2. IsFiniteSet(s)
  BY FS_Subset
<1>3. Cardinality(Rest(s)) = Cardinality(s) - 1
  BY <1>1, <1>2, FS_RemoveElement DEF Rest
<1>4. Cardinality(s) \in Nat /\ Cardinality(s) # 0
  BY <1>2, FS_CardinalityType, FS_EmptySet
<1>5. QED
  BY <1>1, <1>2, <1>3, <1>4 DEF Rest

\* A set of subsets with the empty set, and with s if it has the rest of s.
LEMMA AllSubsets ==
  ASSUME NEW S, IsFiniteSet(S), NEW Q, {} \in Q,
         \A s \in SUBSET S : s # {} /\ Rest(s) \in Q => s \in Q
  PROVE  SUBSET S \subseteq Q
<1> DEFINE K == {n \in Nat : \A s \in SUBSET S : Cardinality(s) = n => s \in Q}
<1>1. 0 \in K
  <2>1. ASSUME NEW s \in SUBSET S, Cardinality(s) = 0 PROVE s = {}
    BY <2>1, FS_Subset, FS_EmptySet
  <2>2. QED
    BY <2>1
<1>2. ASSUME NEW n \in Nat, n \in K PROVE n + 1 \in K
  <2>1. SUFFICES ASSUME NEW s \in SUBSET S, Cardinality(s) = n + 1 PROVE s \in Q
    OBVIOUS
  <2>2. s # {}
    <3>1. Cardinality({}) = 0
      BY FS_EmptySet
    <3>2. QED
      BY <2>1, <3>1
  <2>3. Rest(s) \in SUBSET S /\ Cardinality(Rest(s)) = n
    BY <2>1, <2>2, RestSmaller
  <2>4. Rest(s) \in Q
    BY <1>2, <2>3
  <2>5. QED
    BY <2>2, <2>4
<1>3. Nat \subseteq K
  <2> HIDE DEF K
  <2>1. QED
    BY <1>1, <1>2, AllNumbers
<1>4. SUFFICES ASSUME NEW s \in SUBSET S PROVE s \in Q
  OBVIOUS
<1>5. Cardinality(s) \in Nat
  BY FS_Subset, FS_CardinalityType
<1>6. QED
  BY <1>3, <1>5

-----------------------------------------------------------------------------
\* What a fold of h from base makes of set s, when r has the smaller sets.
Folded(r, h, base, s) == IF s = {} THEN base ELSE h[<<Chosen(s), r[Rest(s)]>>]

IsFold(r, h, base, D) == r = [s \in D |-> Folded(r, h, base, s)]

UpTo(S, n) == {s \in SUBSET S : Cardinality(s) <= n}

\* The recursive function of a fold exists.
LEMMA FoldExists ==
  ASSUME NEW S, IsFiniteSet(S), NEW h, NEW base
  PROVE  \E r : IsFold(r, h, base, SUBSET S)
<1> DEFINE K == {n \in Nat : \E r : IsFold(r, h, base, UpTo(S, n))}
<1>1. 0 \in K
  <2> DEFINE r == [s \in UpTo(S, 0) |-> base]
  <2>1. ASSUME NEW s \in UpTo(S, 0) PROVE s = {}
    BY <2>1, FS_Subset, FS_EmptySet, FS_CardinalityType DEF UpTo
  <2>2. r = [s \in UpTo(S, 0) |-> Folded(r, h, base, s)]
    BY <2>1 DEF Folded
  <2>3. IsFold(r, h, base, UpTo(S, 0))
    BY <2>2 DEF IsFold
  <2>4. QED
    BY <2>3
<1>2. ASSUME NEW n \in Nat, n \in K PROVE n + 1 \in K
  <2>1. PICK r : IsFold(r, h, base, UpTo(S, n))
    BY <1>2
  <2> DEFINE q == [s \in UpTo(S, n + 1) |-> Folded(r, h, base, s)]
  <2>2. ASSUME NEW s \in UpTo(S, n + 1) PROVE Folded(r, h, base, s) = Folded(q, h, base, s)
    <3>1. CASE s = {}
      BY <3>1 DEF Folded
    <3>2. CASE s # {}
      <4>1. s \in SUBSET S /\ Cardinality(s) <= n + 1
        BY DEF UpTo
      <4>2. Rest(s) \in SUBSET S /\ Cardinality(Rest(s)) <= n
            /\ Cardinality(Rest(s)) <= n + 1
        BY <3>2, <4>1, RestSmaller
      <4>3. Rest(s) \in UpTo(S, n) /\ Rest(s) \in UpTo(S, n + 1)
        BY <4>2 DEF UpTo
      <4>4. r[Rest(s)] = Folded(r, h, base, Rest(s))
        BY <2>1, <4>3 DEF IsFold
      <4>5. q[Rest(s)] = Folded(r, h, base, Rest(s))
        BY <4>3
      <4> HIDE DEF q
      <4>6. QED
        BY <4>4, <4>5 DEF Folded
    <3>3. QED
      BY <3>1, <3>2
  <2>3. q = [s \in UpTo(S, n + 1) |-> Folded(q, h, base, s)]
    <3>1. \A s \in UpTo(S, n + 1) : Folded(r, h, base, s) = Folded(q, h, base, s)
      BY <2>2
    <3> DEFINE a == [s \in UpTo(S, n + 1) |-> Folded(q, h, base, s)]
    <3>2. [s \in UpTo(S, n + 1) |-> Folded(r, h, base, s)]
            = [s \in UpTo(S, n + 1) |-> Folded(q, h, base, s)]
      <4> HIDE DEF q
      <4>1. QED
        BY <3>1, Zenon
    <3>3. QED
      BY <3>2, Zenon
  <2>4. IsFold(q, h, base, UpTo(S, n + 1))
    BY <2>3, Zenon DEF IsFold
  <2>5. QED
    BY <2>4
<1>3. Cardinality(S) \in K
  <2>1. Nat \subseteq K
    <3> HIDE DEF K
    <3>1. QED
      BY <1>1, <1>2, AllNumbers
  <2>2. QED
    BY <2>1, FS_CardinalityType
<1>4. UpTo(S, Cardinality(S)) = SUBSET S
  BY FS_Subset DEF UpTo
<1>5. QED
  BY <1>3, <1>4

\* Set V has base, and h does not leave it.
KeepsTo(h, base, S, V) == base \in V /\ \A x \in S, y \in V : h[<<x, y>>] \in V

\* Every value of a fold is in such a set.
LEMMA FoldWithin ==
  ASSUME NEW S, IsFiniteSet(S), NEW h, NEW base, NEW r,
         IsFold(r, h, base, SUBSET S), NEW V, KeepsTo(h, base, S, V)
  PROVE  r \in [SUBSET S -> V]
<1> DEFINE Q == {s \in SUBSET S : r[s] \in V}
<1>1. \A s \in SUBSET S : r[s] = Folded(r, h, base, s)
  BY DEF IsFold
<1>2. {} \in Q
  <2>1. {} \in SUBSET S
    OBVIOUS
  <2>2. r[{}] = base
    BY <1>1, <2>1 DEF Folded
  <2>3. QED
    BY <2>1, <2>2 DEF KeepsTo
<1>3. ASSUME NEW s \in SUBSET S, s # {}, Rest(s) \in Q PROVE s \in Q
  <2>1. Chosen(s) \in S
    BY <1>3, RestSmaller
  <2>2. r[Rest(s)] \in V
    BY <1>3
  <2>3. h[<<Chosen(s), r[Rest(s)]>>] \in V
    BY <2>1, <2>2 DEF KeepsTo
  <2>4. r[s] = h[<<Chosen(s), r[Rest(s)]>>]
    BY <1>1, <1>3 DEF Folded
  <2>5. QED
    BY <2>3, <2>4
<1>4. SUBSET S \subseteq Q
  <2> HIDE DEF Q
  <2>1. QED
    BY <1>2, <1>3, AllSubsets
<1>5. \A s \in SUBSET S : r[s] \in V
  BY <1>4
<1>6. r = [s \in SUBSET S |-> r[s]]
  BY DEF IsFold
<1>7. QED
  BY <1>5, <1>6

-----------------------------------------------------------------------------
\* What a sum of w makes of set s, when r has the sums of smaller sets.
Summed(r, w, s) == IF s = {} THEN 0 ELSE w[Chosen(s)] + r[Rest(s)]

IsSum(r, w, S) == r \in [SUBSET S -> Nat] /\ r = [s \in SUBSET S |-> Summed(r, w, s)]

\* Sums of natural numbers exist, and whatever satisfies the equation is one.
LEMMA SumExists ==
  ASSUME NEW S, IsFiniteSet(S), NEW w \in [S -> Nat]
  PROVE  \E r : IsSum(r, w, S)
<1> DEFINE h == [p \in S \X Nat |-> w[p[1]] + p[2]]
<1>1. PICK r : IsFold(r, h, 0, SUBSET S)
  BY FoldExists
<1>2. \A x \in S, y \in Nat : h[<<x, y>>] = w[x] + y /\ h[<<x, y>>] \in Nat
  OBVIOUS
<1>3. r \in [SUBSET S -> Nat]
  <2>1. KeepsTo(h, 0, S, Nat)
    BY <1>2 DEF KeepsTo
  <2> HIDE DEF h
  <2>2. QED
    BY <1>1, <2>1, FoldWithin, Zenon
<1>4. ASSUME NEW s \in SUBSET S PROVE Folded(r, h, 0, s) = Summed(r, w, s)
  <2>1. CASE s = {}
    BY <2>1 DEF Folded, Summed
  <2>2. CASE s # {}
    <3>1. Chosen(s) \in S /\ Rest(s) \in SUBSET S
      BY <2>2, RestSmaller
    <3>2. r[Rest(s)] \in Nat
      BY <1>3, <3>1
    <3> HIDE DEF h
    <3>3. h[<<Chosen(s), r[Rest(s)]>>] = w[Chosen(s)] + r[Rest(s)]
      BY <1>2, <3>1, <3>2
    <3>4. QED
      BY <2>2, <3>3 DEF Folded, Summed
  <2>3. QED
    BY <2>1, <2>2
<1>5. r = [s \in SUBSET S |-> Summed(r, w, s)]
  <2>1. r = [s \in SUBSET S |-> Folded(r, h, 0, s)]
    BY <1>1 DEF IsFold
  <2> HIDE DEF h
  <2>2. QED
    BY <1>4, <2>1
<1>6. QED
  BY <1>3, <1>5 DEF IsSum

LEMMA SumNatural ==
  ASSUME NEW S, IsFiniteSet(S), NEW w \in [S -> Nat], NEW r,
         r = [s \in SUBSET S |-> Summed(r, w, s)]
  PROVE  IsSum(r, w, S)
<1> DEFINE Q == {s \in SUBSET S : r[s] \in Nat}
<1>1. \A s \in SUBSET S : r[s] = Summed(r, w, s)
  OBVIOUS
<1>2. {} \in Q
  <2>1. {} \in SUBSET S /\ r[{}] = 0
    BY <1>1 DEF Summed
  <2>2. QED
    BY <2>1
<1>3. ASSUME NEW s \in SUBSET S, s # {}, Rest(s) \in Q PROVE s \in Q
  <2>1. w[Chosen(s)] \in Nat /\ r[Rest(s)] \in Nat
    BY <1>3, RestSmaller
  <2>2. r[s] = w[Chosen(s)] + r[Rest(s)]
    BY <1>1, <1>3 DEF Summed
  <2>3. QED
    BY <2>1, <2>2
<1>4. SUBSET S \subseteq Q
  <2> HIDE DEF Q
  <2>1. QED
    BY <1>2, <1>3, AllSubsets
<1>5. \A s \in SUBSET S : r[s] \in Nat
  BY <1>4
<1>6. r \in [SUBSET S -> Nat]
  BY <1>5
<1>7. QED
  BY <1>6 DEF IsSum

\* One number, that of v if it is in S, grows by d.
OneGrows(w, u, v, d, S) == \A x \in S : u[x] = w[x] + (IF x = v THEN d ELSE 0)

\* When one number grows by d, so does the sum of every set with it.
LEMMA SumGrows ==
  ASSUME NEW S, IsFiniteSet(S), NEW w \in [S -> Nat], NEW u \in [S -> Nat],
         NEW v, NEW d \in Nat, OneGrows(w, u, v, d, S),
         NEW r, IsSum(r, w, S), NEW q, IsSum(q, u, S)
  PROVE  q[S] = r[S] + (IF v \in S THEN d ELSE 0)
<1> DEFINE Grown(s) == q[s] = r[s] + (IF v \in s THEN d ELSE 0)
           Q == {s \in SUBSET S : Grown(s)}
<1>1. /\ \A s \in SUBSET S : r[s] \in Nat /\ q[s] \in Nat
      /\ \A s \in SUBSET S : r[s] = Summed(r, w, s)
      /\ \A s \in SUBSET S : q[s] = Summed(q, u, s)
  BY DEF IsSum
<1>2. {} \in Q
  <2>1. {} \in SUBSET S /\ r[{}] = 0 /\ q[{}] = 0
    BY <1>1 DEF Summed
  <2>2. QED
    BY <2>1
<1>3. ASSUME NEW s \in SUBSET S, s # {}, Rest(s) \in Q PROVE s \in Q
  <2>1. Chosen(s) \in S /\ Chosen(s) \in s /\ Rest(s) \in SUBSET S
    BY <1>3, RestSmaller
  <2>2. v \in s <=> v = Chosen(s) \/ v \in Rest(s)
    BY <2>1 DEF Rest
  <2>3. v = Chosen(s) => v \notin Rest(s)
    BY DEF Rest
  <2>4. q[Rest(s)] = r[Rest(s)] + (IF v \in Rest(s) THEN d ELSE 0)
    BY <1>3
  <2>5. q[s] = u[Chosen(s)] + q[Rest(s)] /\ r[s] = w[Chosen(s)] + r[Rest(s)]
    BY <1>1, <1>3 DEF Summed
  <2>6. u[Chosen(s)] = w[Chosen(s)] + (IF Chosen(s) = v THEN d ELSE 0)
    BY <2>1 DEF OneGrows
  <2>7. w[Chosen(s)] \in Nat /\ r[Rest(s)] \in Nat
    BY <1>1, <2>1
  <2>8. Grown(s)
    BY <2>2, <2>3, <2>4, <2>5, <2>6, <2>7
  <2>9. QED
    BY <2>8
<1>4. SUBSET S \subseteq Q
  <2> HIDE DEF Q
  <2>1. QED
    BY <1>2, <1>3, AllSubsets
<1>5. QED
  BY <1>4

-----------------------------------------------------------------------------
\* What has arrived at each VC, of which Arrived is the sum.
ArrivedAt(c) == [v \in InVCs |-> c[v].enqueued + c[v].dropped]

VCCounts == [enqueued : Nat, processed : Nat, dropped : Nat]

LEMMA ArrivedIs ==
  ASSUME NEW c \in [InVCs -> VCCounts]
  PROVE  /\ ArrivedAt(c) \in [InVCs -> Nat]
         /\ \E r : IsSum(r, ArrivedAt(c), InVCs) /\ Arrived(c) = r[InVCs]
<1> DEFINE w == ArrivedAt(c)
           Body(i) == [s \in SUBSET InVCs |->
                         IF s = {} THEN 0
                         ELSE (c[CHOOSE x \in s : TRUE].enqueued + c[CHOOSE x \in s : TRUE].dropped)
                                + i[s \ {CHOOSE x \in s : TRUE}]]
           r == CHOOSE i : i = Body(i)
<1>1. Arrived(c) = r[InVCs]
  BY DEF Arrived, MapThenSumSet, MapThenFoldSet
<1>2. \A i : \A s \in SUBSET InVCs : Body(i)[s] = Summed(i, w, s)
  BY DEF Summed, Chosen, Rest, ArrivedAt
<1>3. \A i : Body(i) = [s \in SUBSET InVCs |-> Summed(i, w, s)]
  BY <1>2
<1>4. w \in [InVCs -> Nat]
  BY DEF ArrivedAt, VCCounts
<1> HIDE DEF w, Body
<1>5. PICK i : IsSum(i, w, InVCs)
  BY <1>4, PortsFinite, SumExists
<1>6. i = Body(i)
  BY <1>3, <1>5 DEF IsSum
<1>7. r = Body(r)
  BY <1>6
<1>8. r = [s \in SUBSET InVCs |-> Summed(r, w, s)]
  BY <1>3, <1>7
<1> HIDE DEF r
<1>9. IsSum(r, w, InVCs)
  BY <1>4, <1>8, PortsFinite, SumNatural
<1>10. QED
  BY <1>1, <1>4, <1>9 DEF w

\* From counters c to counters e, d more packets have come to VC v.
MoreAt(c, e, v, d) ==
  \A x \in InVCs : e[x].enqueued + e[x].dropped
                     = c[x].enqueued + c[x].dropped + (IF x = v THEN d ELSE 0)

LEMMA ArrivedGrows ==
  ASSUME NEW c \in [InVCs -> VCCounts], NEW e \in [InVCs -> VCCounts],
         NEW v, NEW d \in Nat, MoreAt(c, e, v, d)
  PROVE  /\ Arrived(c) \in Nat
         /\ Arrived(e) = Arrived(c) + (IF v \in InVCs THEN d ELSE 0)
<1>1. PICK r : IsSum(r, ArrivedAt(c), InVCs) /\ Arrived(c) = r[InVCs]
  BY ArrivedIs
<1>2. PICK q : IsSum(q, ArrivedAt(e), InVCs) /\ Arrived(e) = q[InVCs]
  BY ArrivedIs
<1>3. ArrivedAt(c) \in [InVCs -> Nat] /\ ArrivedAt(e) \in [InVCs -> Nat]
  BY ArrivedIs
<1>4. OneGrows(ArrivedAt(c), ArrivedAt(e), v, d, InVCs)
  BY DEF ArrivedAt, OneGrows, MoreAt
<1>5. q[InVCs] = r[InVCs] + (IF v \in InVCs THEN d ELSE 0)
  BY <1>1, <1>2, <1>3, <1>4, PortsFinite, SumGrows
<1>6. r[InVCs] \in Nat
  BY <1>1 DEF IsSum
<1>7. QED
  BY <1>1, <1>2, <1>5, <1>6

-----------------------------------------------------------------------------
\* The counts of one port, or of a report, whose delays are consistent.
DelaysSound(st) ==
  /\ st.resp_count = 0 =>
       st.total_delay = 0 /\ st.min_delay = UINT64_MAX /\ st.max_delay = 0
  /\ st.resp_count > 0 =>
       /\ st.resp_count * st.min_delay <= st.total_delay
       /\ st.total_delay <= st.resp_count * st.max_delay

SoundCounts == {st \in PortCounts : DelaysSound(st)}

\* Products and sums: two totals within their bounds are so together.
LEMMA BelowProduct ==
  ASSUME NEW a \in Nat, NEW b \in Nat, NEW k \in Nat, NEW l \in Nat, NEW m \in Nat,
         m <= k, m <= l
  PROVE  (a + b) * m <= a * k + b * l
<1>1. (a + b) * m = a * m + b * m
  OBVIOUS
<1>2. a * m <= a * k
  OBVIOUS
<1>3. b * m <= b * l
  OBVIOUS
<1>4. a * m \in Nat /\ b * m \in Nat /\ a * k \in Nat /\ b * l \in Nat
  OBVIOUS
<1>5. QED
  BY <1>1, <1>2, <1>3, <1>4

LEMMA AboveProduct ==
  ASSUME NEW a \in Nat, NEW b \in Nat, NEW k \in Nat, NEW l \in Nat, NEW m \in Nat,
         k <= m, l <= m
  PROVE  a * k + b * l <= (a + b) * m
<1>1. (a + b) * m = a * m + b * m
  OBVIOUS
<1>2. a * k <= a * m
  OBVIOUS
<1>3. b * l <= b * m
  OBVIOUS
<1>4. a * m \in Nat /\ b * m \in Nat /\ a * k \in Nat /\ b * l \in Nat
  OBVIOUS
<1>5. QED
  BY <1>1, <1>2, <1>3, <1>4

\* Four counts of a port changed at once.
Changed(st, n, t, k, l) ==
  [st EXCEPT !.resp_count = n, !.total_delay = t, !.min_delay = k, !.max_delay = l]

Has(st, n, t, k, l) ==
  /\ st \in PortCounts
  /\ st.resp_count = n /\ st.total_delay = t
  /\ st.min_delay = k /\ st.max_delay = l

LEMMA FourChanged ==
  ASSUME NEW st \in PortCounts, NEW n \in Nat, NEW t \in Nat, NEW k \in Nat, NEW l \in Nat
  PROVE  Has(Changed(st, n, t, k, l), n, t, k, l)
<1> DEFINE one == [st EXCEPT !.resp_count = n]
           two == [one EXCEPT !.total_delay = t]
           three == [two EXCEPT !.min_delay = k]
<1>1. one \in PortCounts /\ one.resp_count = n
  BY DEF PortCounts
<1> HIDE DEF one
<1>2. two \in PortCounts /\ two.resp_count = n /\ two.total_delay = t
  BY <1>1 DEF PortCounts
<1> HIDE DEF two
<1>3. /\ three \in PortCounts
      /\ three.resp_count = n /\ three.total_delay = t /\ three.min_delay = k
  BY <1>2 DEF PortCounts
<1> HIDE DEF three
<1>4. Changed(st, n, t, k, l) = [three EXCEPT !.max_delay = l]
  BY DEF Changed, one, two, three
<1>5. QED
  BY <1>3, <1>4 DEF PortCounts, Has

\* A new response keeps the delays of a port consistent.
LEMMA MeasuredSound ==
  ASSUME NEW st \in SoundCounts, cycle \in 0 .. MaxCycle, NEW src_cycle \in 0 .. cycle
  PROVE  Measured(st, src_cycle) \in SoundCounts
<1> DEFINE delay == cycle - src_cycle
           least == IF delay < st.min_delay THEN delay ELSE st.min_delay
           most == IF delay > st.max_delay THEN delay ELSE st.max_delay
<1>1. st \in PortCounts /\ DelaysSound(st)
  BY DEF SoundCounts
<1>2. /\ st.req_count \in Nat /\ st.resp_count \in Nat /\ st.total_delay \in Nat
      /\ st.min_delay \in Nat /\ st.max_delay \in Nat
  BY <1>1 DEF PortCounts
<1>3. delay \in Nat /\ delay < UINT64_MAX /\ least \in Nat /\ most \in Nat
  BY <1>2, DelaysFit
<1>4. /\ least <= st.min_delay /\ least <= delay
      /\ st.max_delay <= most /\ delay <= most
  BY <1>2, <1>3
<1> DEFINE new == Measured(st, src_cycle)
<1>5. /\ new \in PortCounts
      /\ new.resp_count = st.resp_count + 1
      /\ new.total_delay = st.total_delay + delay
      /\ new.min_delay = least /\ new.max_delay = most
  <2>1. new = [st EXCEPT !.resp_count = @ + 1, !.total_delay = @ + delay,
                         !.min_delay = least, !.max_delay = most]
    BY Zenon DEF Measured
  <2>2. new = Changed(st, st.resp_count + 1, st.total_delay + delay, least, most)
    BY <2>1, Zenon DEF Changed
  <2> HIDE DEF delay, least, most, new
  <2>3. st.resp_count + 1 \in Nat /\ st.total_delay + delay \in Nat
    BY <1>2, <1>3
  <2>4. Has(new, st.resp_count + 1, st.total_delay + delay, least, most)
    BY <1>1, <1>3, <2>2, <2>3, FourChanged, Zenon
  <2>5. QED
    BY <2>4, Zenon DEF Has
<1> HIDE DEF delay, least, most, new
<1>6. /\ st.resp_count * st.min_delay <= st.total_delay
      /\ st.total_delay <= st.resp_count * st.max_delay
  <2>1. CASE st.resp_count = 0
    BY <1>1, <1>2, <2>1 DEF DelaysSound
  <2>2. CASE st.resp_count > 0
    BY <1>1, <2>2 DEF DelaysSound
  <2>3. QED
    BY <1>2, <2>1, <2>2
<1>7. (st.resp_count + 1) * least <= st.resp_count * st.min_delay + 1 * delay
  BY <1>2, <1>3, <1>4, BelowProduct
<1>8. st.resp_count * st.max_delay + 1 * delay <= (st.resp_count + 1) * most
  BY <1>2, <1>3, <1>4, AboveProduct
<1>9. /\ st.resp_count * st.min_delay \in Nat /\ st.resp_count * st.max_delay \in Nat
      /\ (st.resp_count + 1) * least \in Nat /\ (st.resp_count + 1) * most \in Nat
  BY <1>2, <1>3
<1>10. /\ (st.resp_count + 1) * least <= st.total_delay + delay
       /\ st.total_delay + delay <= (st.resp_count + 1) * most
  BY <1>2, <1>3, <1>6, <1>7, <1>8, <1>9
<1>11. DelaysSound(new)
  BY <1>2, <1>5, <1>10 DEF DelaysSound
<1>12. QED
  BY <1>5, <1>11 DEF SoundCounts, new

\* A report merged from two consistent ones is consistent.
LEMMA MergeSound ==
  ASSUME NEW a \in SoundCounts, NEW b \in SoundCounts
  PROVE  Merge(a, b) \in SoundCounts
<1> DEFINE least == IF b.min_delay < a.min_delay THEN b.min_delay ELSE a.min_delay
           most == IF b.max_delay > a.max_delay THEN b.max_delay ELSE a.max_delay
           new == Merge(a, b)
<1>1. a \in PortCounts /\ DelaysSound(a) /\ b \in PortCounts /\ DelaysSound(b)
  BY DEF SoundCounts
<1>2. /\ a.req_count \in Nat /\ a.resp_count \in Nat /\ a.total_delay \in Nat
      /\ a.min_delay \in Nat /\ a.max_delay \in Nat
      /\ b.req_count \in Nat /\ b.resp_count \in Nat /\ b.total_delay \in Nat
      /\ b.min_delay \in Nat /\ b.max_delay \in Nat
  BY <1>1 DEF PortCounts
<1>3. /\ least \in Nat /\ least <= a.min_delay /\ least <= b.min_delay
      /\ most \in Nat /\ a.max_delay <= most /\ b.max_delay <= most
  BY <1>2
<1>4. /\ new \in PortCounts
      /\ new.resp_count = a.resp_count + b.resp_count
      /\ new.total_delay = a.total_delay + b.total_delay
      /\ new.min_delay = least /\ new.max_delay = most
  BY <1>2, <1>3 DEF Merge, PortCounts
<1>5. CASE a.resp_count = 0 /\ b.resp_count = 0
  <2>1. /\ new.resp_count = 0 /\ new.total_delay = 0
        /\ new.min_delay = UINT64_MAX /\ new.max_delay = 0
    BY <1>1, <1>4, <1>5, DelaysFit DEF DelaysSound
  <2>2. DelaysSound(new)
    BY <2>1 DEF DelaysSound
  <2>3. QED
    BY <1>4, <2>2 DEF SoundCounts
<1>6. CASE ~ (a.resp_count = 0 /\ b.resp_count = 0)
  <2> HIDE DEF least, most, new
  <2>1. ASSUME NEW st, st \in {a, b}
        PROVE  /\ st.resp_count * st.min_delay <= st.total_delay
               /\ st.total_delay <= st.resp_count * st.max_delay
    <3>1. st.resp_count \in Nat /\ st.min_delay \in Nat /\ st.max_delay \in Nat
          /\ DelaysSound(st)
      BY <1>1, <1>2, <2>1
    <3>2. CASE st.resp_count = 0
      BY <3>1, <3>2 DEF DelaysSound
    <3>3. CASE st.resp_count > 0
      BY <3>1, <3>3 DEF DelaysSound
    <3>4. QED
      BY <3>1, <3>2, <3>3
  <2>2. /\ a.resp_count * a.min_delay <= a.total_delay
        /\ a.total_delay <= a.resp_count * a.max_delay
        /\ b.resp_count * b.min_delay <= b.total_delay
        /\ b.total_delay <= b.resp_count * b.max_delay
    BY <2>1
  <2>3. (a.resp_count + b.resp_count) * least
          <= a.resp_count * a.min_delay + b.resp_count * b.min_delay
    BY <1>2, <1>3, BelowProduct
  <2>4. a.resp_count * a.max_delay + b.resp_count * b.max_delay
          <= (a.resp_count + b.resp_count) * most
    BY <1>2, <1>3, AboveProduct
  <2>5. /\ a.resp_count * a.min_delay \in Nat /\ a.resp_count * a.max_delay \in Nat
        /\ b.resp_count * b.min_delay \in Nat /\ b.resp_count * b.max_delay \in Nat
        /\ (a.resp_count + b.resp_count) * least \in Nat
        /\ (a.resp_count + b.resp_count) * most \in Nat
    BY <1>2, <1>3
  <2>6. /\ (a.resp_count + b.resp_count) * least <= a.total_delay + b.total_delay
        /\ a.total_delay + b.total_delay <= (a.resp_count + b.resp_count) * most
    BY <1>2, <2>2, <2>3, <2>4, <2>5
  <2>7. new.resp_count > 0
    BY <1>2, <1>4, <1>6
  <2>8. DelaysSound(new)
    BY <1>4, <2>6, <2>7 DEF DelaysSound
  <2>9. QED
    BY <1>4, <2>8 DEF SoundCounts, new
<1>7. QED
  BY <1>5, <1>6

LEMMA ZeroSound == ZeroStats \in SoundCounts
BY DelaysFit DEF ZeroStats, SoundCounts, PortCounts, DelaysSound

-----------------------------------------------------------------------------
(***************************************************************************)
(* A report merged from any of the masters' counts is consistent if each   *)
(* of them is.                                                             *)
(***************************************************************************)
LEMMA MergedSound ==
  ASSUME mstats \in [Masters -> SoundCounts], NEW M \in SUBSET Masters
  PROVE  Merged(M) \in SoundCounts
<1> DEFINE Body(i) == [s \in SUBSET M |->
                         IF s = {} THEN ZeroStats
                         ELSE Merge(mstats[CHOOSE x \in s : TRUE],
                                    i[s \ {CHOOSE x \in s : TRUE}])]
           Turn(i, s) == IF s = {} THEN ZeroStats
                         ELSE Merge(mstats[Chosen(s)], i[Rest(s)])
           h == [p \in M \X SoundCounts |-> Merge(mstats[p[1]], p[2])]
           r == CHOOSE i : i = Body(i)
<1>1. Merged(M) = r[M]
  BY DEF Merged, FoldFunctionOnSet, MapThenFoldSet
<1>2. \A i : Body(i) = [s \in SUBSET M |-> Turn(i, s)]
  BY DEF Chosen, Rest
<1>3. IsFiniteSet(M)
  BY PortsFinite, FS_Subset
<1>4. ASSUME NEW x \in M, NEW y \in SoundCounts
      PROVE  h[<<x, y>>] = Merge(mstats[x], y) /\ h[<<x, y>>] \in SoundCounts
  <2>1. mstats[x] \in SoundCounts
    OBVIOUS
  <2>2. <<x, y>> \in M \X SoundCounts
    OBVIOUS
  <2>3. h[<<x, y>>] = Merge(mstats[x], y)
    BY <2>2
  <2> HIDE DEF h
  <2>4. QED
    BY <2>1, <2>3, MergeSound
<1>5. PICK i : IsFold(i, h, ZeroStats, SUBSET M)
  BY <1>3, FoldExists
<1>6. KeepsTo(h, ZeroStats, M, SoundCounts)
  BY <1>4, ZeroSound DEF KeepsTo
<1> HIDE DEF h, Body, r
<1>7. i \in [SUBSET M -> SoundCounts]
  BY <1>3, <1>5, <1>6, FoldWithin, Zenon
<1>8. ASSUME NEW s \in SUBSET M PROVE Folded(i, h, ZeroStats, s) = Turn(i, s)
  <2>1. CASE s = {}
    BY <2>1 DEF Folded
  <2>2. CASE s # {}
    <3>1. Chosen(s) \in M /\ Rest(s) \in SUBSET M
      BY <1>3, <2>2, RestSmaller
    <3>2. h[<<Chosen(s), i[Rest(s)]>>] = Merge(mstats[Chosen(s)], i[Rest(s)])
      BY <1>4, <1>7, <3>1
    <3>3. QED
      BY <2>2, <3>2 DEF Folded
  <2>3. QED
    BY <2>1, <2>2
<1>9. i = Body(i)
  <2>1. i = [s \in SUBSET M |-> Folded(i, h, ZeroStats, s)]
    BY <1>5 DEF IsFold
  <2> HIDE DEF Turn
  <2>2. i = [s \in SUBSET M |-> Turn(i, s)]
    BY <1>8, <2>1
  <2>3. QED
    BY <1>2, <2>2
<1>10. r = Body(r)
  BY <1>9 DEF r
<1>11. \A s \in SUBSET M : r[s] = Turn(r, s)
  <2> HIDE DEF Turn
  <2>1. r = [s \in SUBSET M |-> Turn(r, s)]
    BY <1>2, <1>10
  <2>2. QED
    BY <2>1
<1> DEFINE Q == {s \in SUBSET M : r[s] \in SoundCounts}
<1>12. {} \in Q
  <2>1. {} \in SUBSET M /\ r[{}] = ZeroStats
    BY <1>11
  <2>2. QED
    BY <2>1, ZeroSound
<1>13. ASSUME NEW s \in SUBSET M, s # {}, Rest(s) \in Q PROVE s \in Q
  <2>1. mstats[Chosen(s)] \in SoundCounts /\ r[Rest(s)] \in SoundCounts
    BY <1>3, <1>13, RestSmaller
  <2>2. r[s] = Merge(mstats[Chosen(s)], r[Rest(s)])
    BY <1>11, <1>13
  <2>3. QED
    BY <2>1, <2>2, MergeSound
<1>14. SUBSET M \subseteq Q
  <2> HIDE DEF Q
  <2>1. QED
    BY <1>3, <1>12, <1>13, AllSubsets
<1>15. QED
  BY <1>1, <1>14

-----------------------------------------------------------------------------
(***************************************************************************)
(* The inductive invariant: that of the links, and for the statistics      *)
(*   - the counts of the ports are sound, and AttemptsAccounted;           *)
(*   - the two parts of VCStatsBalance;                                    *)
(*   - each accepted request has the stamp of a cycle that has begun.      *)
(* The last is what bounds the delays: a response is measured by the stamp *)
(* of its request, and only what was accepted is handled and answered.     *)
(***************************************************************************)
PortsCounted ==
  /\ mstats \in [Masters -> SoundCounts]
  /\ sstats \in PortCounts
  /\ ivc \in [InVCs -> VCCounts]
  /\ no_such_vc \in Nat /\ at_reset \in Nat
  /\ AttemptsAccounted

InputsBalance == \A v \in InVCs : ivc[v].enqueued - ivc[v].processed = Len(inq[v])

OutCounts == [enqueued : Nat, forwarded : Nat, dropped : Nat]
OutputsBalance ==
  /\ ovc \in [Streams -> OutCounts]
  /\ \A s \in Streams : ovc[s].enqueued - ovc[s].forwarded = Len(outq[s])

Stamped ==
  /\ cycle \in 0 .. MaxCycle
  /\ sent_at \in [Streams -> Seq(Nat)]
  /\ \A s \in Streams : Len(sent_at[s]) = accepted[s]
  /\ \A s \in Streams : \A i \in 1 .. accepted[s] : sent_at[s][i] \in 0 .. cycle

InRange == slave_pair \in Masters \cup {None} /\ tries \in 0 .. MaxTries

StatsIInv ==
  /\ IInv
  /\ PortsCounted
  /\ InputsBalance
  /\ OutputsBalance
  /\ Stamped
  /\ InRange

LEMMA StatsInitInv == StatsInit => StatsIInv
<1> SUFFICES ASSUME StatsInit PROVE StatsIInv
  OBVIOUS
<1>1. IInv
  BY InitInv DEF StatsInit
<1>2. /\ mstats \in [Masters -> SoundCounts] /\ sstats \in PortCounts
      /\ ivc \in [InVCs -> VCCounts]
      /\ \A v \in InVCs : ivc[v].enqueued = 0 /\ ivc[v].processed = 0 /\ ivc[v].dropped = 0
  BY ZeroSound DEF StatsInit, SoundCounts, VCCounts
<1>3. Arrived(ivc) = 0
  <2>1. PICK r : IsSum(r, ArrivedAt(ivc), InVCs) /\ Arrived(ivc) = r[InVCs]
    BY <1>2, ArrivedIs
  <2>2. \A v \in InVCs : ArrivedAt(ivc)[v] = 0
    BY <1>2 DEF ArrivedAt
  <2> DEFINE Q == {s \in SUBSET InVCs : r[s] = 0}
  <2>3. {} \in Q
    BY <2>1 DEF IsSum, Summed
  <2>4. ASSUME NEW s \in SUBSET InVCs, s # {}, Rest(s) \in Q PROVE s \in Q
    <3>1. Chosen(s) \in InVCs
      BY <2>4, PortsFinite, RestSmaller
    <3>2. r[s] = ArrivedAt(ivc)[Chosen(s)] + r[Rest(s)]
      BY <2>1, <2>4 DEF IsSum, Summed
    <3>3. QED
      BY <2>2, <2>4, <3>1, <3>2
  <2>5. SUBSET InVCs \subseteq Q
    <3> HIDE DEF Q
    <3>1. QED
      BY <2>3, <2>4, PortsFinite, AllSubsets
  <2>6. QED
    BY <2>1, <2>5
<1>4. PortsCounted
  BY <1>2, <1>3 DEF PortsCounted, AttemptsAccounted, StatsInit, ZeroStats
<1>5. InputsBalance
  BY <1>2 DEF InputsBalance, StatsInit, Init
<1>6. OutputsBalance
  BY DEF OutputsBalance, OutCounts, StatsInit, Init
<1>7. Stamped
  BY DelaysFit DEF Stamped, StatsInit, Init
<1>8. InRange
  BY MaxTriesNat DEF InRange, StatsInit
<1>9. QED
  BY <1>1, <1>4, <1>5, <1>6, <1>7, <1>8 DEF StatsIInv

-----------------------------------------------------------------------------
\* One more request of a port; its delays stay.
LEMMA OneRequest ==
  ASSUME NEW st \in PortCounts, NEW d \in Nat
  PROVE  LET new == [st EXCEPT !.req_count = @ + d]
         IN  /\ new \in PortCounts /\ new.req_count = st.req_count + d
             /\ DelaysSound(st) => DelaysSound(new)
<1> DEFINE new == [st EXCEPT !.req_count = @ + d]
<1>1. /\ new \in PortCounts /\ new.req_count = st.req_count + d
      /\ new.resp_count = st.resp_count /\ new.total_delay = st.total_delay
      /\ new.min_delay = st.min_delay /\ new.max_delay = st.max_delay
  BY DEF PortCounts
<1> HIDE DEF new
<1>2. DelaysSound(st) => DelaysSound(new)
  BY <1>1 DEF DelaysSound
<1>3. QED
  BY <1>1, <1>2 DEF new

LEMMA MasterCounts ==
  ASSUME mstats \in [Masters -> SoundCounts], NEW m \in Masters,
         mstats' = [mstats EXCEPT ![m].req_count = @ + 1]
  PROVE  mstats' \in [Masters -> SoundCounts]
<1> DEFINE new == [mstats[m] EXCEPT !.req_count = @ + 1]
<1>1. mstats[m] \in PortCounts /\ DelaysSound(mstats[m])
  BY DEF SoundCounts
<1>2. new \in PortCounts /\ DelaysSound(new)
  BY <1>1, OneRequest
<1>3. mstats' = [mstats EXCEPT ![m] = new]
  OBVIOUS
<1> HIDE DEF new
<1>4. new \in SoundCounts
  BY <1>2 DEF SoundCounts
<1>5. QED
  BY <1>3, <1>4

\* What a VC has taken in and given out is as before.
SameTaken ==
  \A u \in InVCs : /\ ivc'[u].enqueued = ivc[u].enqueued
                   /\ ivc'[u].processed = ivc[u].processed

(***************************************************************************)
(* The slave counts d requests more, of which so many have reached VC v,   *)
(* or have been refused because there is no VC v.                          *)
(***************************************************************************)
Counts(v, d) ==
  /\ mstats' \in [Masters -> SoundCounts]
  /\ sstats' = [sstats EXCEPT !.req_count = @ + d]
  /\ no_such_vc' = no_such_vc + (IF v \in InVCs THEN 0 ELSE d)
  /\ ivc' \in [InVCs -> VCCounts]
  /\ MoreAt(ivc, ivc', v, d)
  /\ UNCHANGED at_reset

LEMMA ArrivalCounted ==
  ASSUME PortsCounted, NEW v, NEW d \in Nat, Counts(v, d)
  PROVE  PortsCounted'
<1>1. sstats \in PortCounts /\ ivc \in [InVCs -> VCCounts]
      /\ no_such_vc \in Nat /\ at_reset \in Nat
      /\ sstats.req_count = Arrived(ivc) + no_such_vc - at_reset
  BY DEF PortsCounted, AttemptsAccounted
<1>2. Arrived(ivc) \in Nat /\ Arrived(ivc') = Arrived(ivc) + (IF v \in InVCs THEN d ELSE 0)
  BY <1>1, ArrivedGrows, Zenon DEF Counts
<1>3. sstats' \in PortCounts /\ sstats'.req_count = sstats.req_count + d
  BY <1>1, OneRequest DEF Counts
<1>4. /\ no_such_vc' = no_such_vc + (IF v \in InVCs THEN 0 ELSE d)
      /\ no_such_vc' \in Nat /\ at_reset' = at_reset
  BY <1>1 DEF Counts
<1>5. sstats'.req_count = Arrived(ivc') + no_such_vc' - at_reset'
  BY <1>1, <1>2, <1>3, <1>4
<1>6. QED
  BY <1>1, <1>3, <1>4, <1>5 DEF PortsCounted, AttemptsAccounted, Counts

\* A direct send that fails.
LEMMA FailedSendInv ==
  ASSUME PortsCounted, NEW m \in Masters, NEW v, CountFailedSend(m, v),
         UNCHANGED at_reset
  PROVE  PortsCounted' /\ SameTaken
<1> DEFINE d == IF m \in bound THEN 1 ELSE 0
<1>1. /\ mstats' = [mstats EXCEPT ![m].req_count = @ + 1]
      /\ sstats' = [sstats EXCEPT !.req_count = @ + d]
      /\ no_such_vc' = no_such_vc + (IF m \in bound /\ v \notin InVCs THEN 1 ELSE 0)
      /\ ivc' = [u \in InVCs |->
                   IF m \in bound /\ u = v
                   THEN [ivc[u] EXCEPT !.dropped = @ + 1] ELSE ivc[u]]
  BY DEF CountFailedSend
<1>2. mstats' \in [Masters -> SoundCounts]
  BY <1>1, MasterCounts DEF PortsCounted
<1>3. ASSUME NEW u \in InVCs
      PROVE  /\ ivc'[u] \in VCCounts
             /\ ivc'[u].enqueued = ivc[u].enqueued
             /\ ivc'[u].processed = ivc[u].processed
             /\ ivc'[u].enqueued + ivc'[u].dropped
                  = ivc[u].enqueued + ivc[u].dropped + (IF u = v THEN d ELSE 0)
  <2>1. ivc[u] \in VCCounts
    BY DEF PortsCounted
  <2>2. CASE m \in bound /\ u = v
    <3>1. ivc'[u] = [ivc[u] EXCEPT !.dropped = @ + 1]
      BY <1>1, <2>2
    <3>2. QED
      BY <2>1, <2>2, <3>1 DEF VCCounts
  <2>3. CASE ~ (m \in bound /\ u = v)
    <3>1. ivc'[u] = ivc[u]
      BY <1>1, <2>3
    <3>2. QED
      BY <2>1, <2>3, <3>1 DEF VCCounts
  <2>4. QED
    BY <2>2, <2>3
<1>4. ivc' \in [InVCs -> VCCounts]
  <2>1. ivc' = [u \in InVCs |-> ivc'[u]]
    BY <1>1
  <2>2. QED
    BY <1>3, <2>1
<1>5. no_such_vc' = no_such_vc + (IF v \in InVCs THEN 0 ELSE d)
  BY <1>1
<1>6. d \in Nat
  OBVIOUS
<1> HIDE DEF d
<1>7. Counts(v, d)
  BY <1>1, <1>2, <1>3, <1>4, <1>5 DEF Counts, MoreAt
<1>8. PortsCounted'
  BY <1>6, <1>7, ArrivalCounted
<1>9. QED
  BY <1>3, <1>8 DEF SameTaken

LEMMA AttemptInv ==
  ASSUME PortsCounted, NEW m \in Masters, NEW v, CountAttempt(m, v), UNCHANGED at_reset
  PROVE  PortsCounted' /\ SameTaken
<1>1. CASE outq[<<m, v>>] = <<>>
  BY <1>1, FailedSendInv DEF CountAttempt
<1>2. CASE outq[<<m, v>>] # <<>>
  BY <1>2 DEF CountAttempt, PortsCounted, AttemptsAccounted, SameTaken
<1>3. QED
  BY <1>1, <1>2

\* A direct send that the slave takes.
LEMMA DirectSendInv ==
  ASSUME PortsCounted, NEW m \in Masters, NEW v \in InVCs,
         mstats' = [mstats EXCEPT ![m].req_count = @ + 1],
         sstats' = [sstats EXCEPT !.req_count = @ + 1],
         ivc' = [ivc EXCEPT ![v].enqueued = @ + 1],
         UNCHANGED <<no_such_vc, at_reset>>
  PROVE  PortsCounted'
<1>1. mstats' \in [Masters -> SoundCounts]
  BY MasterCounts DEF PortsCounted
<1>2. ivc \in [InVCs -> VCCounts] /\ no_such_vc \in Nat
  BY DEF PortsCounted
<1> DEFINE new == [ivc[v] EXCEPT !.enqueued = @ + 1]
<1>3. new \in VCCounts /\ new.enqueued = ivc[v].enqueued + 1 /\ new.dropped = ivc[v].dropped
  <2>1. ivc[v] \in VCCounts
    BY <1>2
  <2>2. QED
    BY <2>1 DEF VCCounts
<1>4. ivc' = [ivc EXCEPT ![v] = new]
  OBVIOUS
<1> HIDE DEF new
<1>5. ivc' \in [InVCs -> VCCounts]
  BY <1>2, <1>3, <1>4
<1>6. ASSUME NEW x \in InVCs
      PROVE  ivc'[x].enqueued + ivc'[x].dropped
               = ivc[x].enqueued + ivc[x].dropped + (IF x = v THEN 1 ELSE 0)
  <2>1. ivc[x].enqueued \in Nat /\ ivc[x].dropped \in Nat
    BY <1>2 DEF VCCounts
  <2>2. CASE x = v
    BY <1>2, <1>3, <1>4, <2>1, <2>2
  <2>3. CASE x # v
    BY <1>2, <1>4, <2>1, <2>3
  <2>4. QED
    BY <2>2, <2>3
<1>7. no_such_vc' = no_such_vc + (IF v \in InVCs THEN 0 ELSE 1)
  BY <1>2
<1>8. Counts(v, 1)
  BY <1>1, <1>5, <1>6, <1>7 DEF Counts, MoreAt
<1>9. QED
  BY <1>8, ArrivalCounted

-----------------------------------------------------------------------------
\* The stamps: a clock that goes on, and a request that is accepted now.
LEMMA StampsStay ==
  ASSUME Stamped, UNCHANGED <<sent_at, accepted>>, cycle' \in cycle .. MaxCycle
  PROVE  Stamped'
<1>1. cycle \in 0 .. MaxCycle /\ MaxCycle \in Nat
  BY DelaysFit DEF Stamped
<1>2. cycle' \in 0 .. MaxCycle /\ \A c \in 0 .. cycle : c \in 0 .. cycle'
  BY <1>1
<1>3. QED
  BY <1>2 DEF Stamped

LEMMA LastStamp ==
  ASSUME NEW q \in Seq(Nat), NEW c \in Nat, NEW n, Len(q) = n
  PROVE  /\ Append(q, c) \in Seq(Nat) /\ Len(Append(q, c)) = n + 1
         /\ \A i \in 1 .. n : Append(q, c)[i] = q[i]
         /\ Append(q, c)[n + 1] = c
BY Appended

LEMMA StampAdded ==
  ASSUME IInv, Stamped, NEW m \in Masters, NEW v \in OutVCs, Stamp(m, v),
         accepted' = [accepted EXCEPT ![<<m, v>>] = @ + 1], UNCHANGED cycle
  PROVE  Stamped'
<1> DEFINE s == <<m, v>>
           new == Append(sent_at[s], cycle)
<1>1. accepted \in [Streams -> Nat] /\ s \in Streams
  BY DEF IInv, TypeOK, Streams
<1>2. cycle \in Nat /\ cycle \in 0 .. cycle /\ sent_at[s] \in Seq(Nat)
      /\ Len(sent_at[s]) = accepted[s]
  BY <1>1 DEF Stamped
<1>3. sent_at' = [sent_at EXCEPT ![s] = new]
  BY DEF Stamp
<1>4. /\ new \in Seq(Nat) /\ Len(new) = accepted[s] + 1
      /\ \A i \in 1 .. accepted[s] : new[i] = sent_at[s][i]
      /\ new[accepted[s] + 1] = cycle
  <2> DEFINE n == accepted[s]
             q == sent_at[s]
  <2>1. q \in Seq(Nat) /\ cycle \in Nat /\ Len(q) = n
    BY <1>2
  <2> HIDE DEF n, q
  <2>2. /\ Append(q, cycle) \in Seq(Nat) /\ Len(Append(q, cycle)) = n + 1
        /\ \A i \in 1 .. n : Append(q, cycle)[i] = q[i]
        /\ Append(q, cycle)[n + 1] = cycle
    BY <2>1, LastStamp
  <2>3. QED
    BY <2>2, Zenon DEF n, q, new
<1> HIDE DEF new, s
<1>5. sent_at' \in [Streams -> Seq(Nat)]
  BY <1>1, <1>3, <1>4 DEF Stamped
<1>6. ASSUME NEW t \in Streams
      PROVE  Len(sent_at'[t]) = accepted'[t]
             /\ \A i \in 1 .. accepted'[t] : sent_at'[t][i] \in 0 .. cycle
  <2>1. CASE t = s
    <3>1. sent_at'[t] = new /\ accepted'[t] = accepted[s] + 1 /\ accepted[s] \in Nat
      BY <1>1, <1>3, <2>1 DEF s, Stamped
    <3>2. ASSUME NEW i \in 1 .. accepted[s] + 1 PROVE new[i] \in 0 .. cycle
      <4>1. CASE i = accepted[s] + 1
        BY <1>2, <1>4, <4>1
      <4>2. CASE i # accepted[s] + 1
        <5>1. i \in 1 .. accepted[s]
          BY <3>1, <4>2
        <5>2. QED
          BY <1>1, <1>4, <5>1 DEF Stamped
      <4>3. QED
        BY <4>1, <4>2
    <3>3. QED
      BY <1>4, <3>1, <3>2
  <2>2. CASE t # s
    <3>1. sent_at'[t] = sent_at[t] /\ accepted'[t] = accepted[t]
      BY <1>1, <1>3, <2>2 DEF s, Stamped
    <3>2. QED
      BY <3>1 DEF Stamped
  <2>3. QED
    BY <2>1, <2>2
<1>7. cycle' = cycle /\ cycle \in 0 .. MaxCycle
  BY DEF Stamped
<1>8. QED
  BY <1>5, <1>6, <1>7 DEF Stamped

-----------------------------------------------------------------------------
\* The difference of two counters, when one or both of them count once more.
LEMMA Differences ==
  ASSUME NEW a \in Nat, NEW b \in Nat, NEW n, a - b = n
  PROVE  (a + 1) - b = n + 1 /\ (a + 1) - (b + 1) = n /\ a - (b + 1) = n - 1
OBVIOUS

\* A packet put back into the buffer it came from counts at both ends.
LEMMA BothCounted ==
  ASSUME NEW c \in OutCounts
  PROVE  LET new == [c EXCEPT !.enqueued = @ + 1, !.forwarded = @ + 1]
         IN  /\ new \in OutCounts
             /\ new.enqueued - new.forwarded = c.enqueued - c.forwarded
<1> DEFINE one == [c EXCEPT !.enqueued = @ + 1]
           new == [one EXCEPT !.forwarded = @ + 1]
<1>1. c.enqueued \in Nat /\ c.forwarded \in Nat
  BY DEF OutCounts
<1>2. one \in OutCounts /\ one.enqueued = c.enqueued + 1 /\ one.forwarded = c.forwarded
  BY <1>1 DEF OutCounts
<1> HIDE DEF one
<1>3. /\ new \in OutCounts /\ new.enqueued = c.enqueued + 1
      /\ new.forwarded = c.forwarded + 1
  BY <1>1, <1>2 DEF OutCounts
<1> HIDE DEF new
<1>4. new.enqueued - new.forwarded = c.enqueued - c.forwarded
  BY <1>1, <1>3
<1>5. [c EXCEPT !.enqueued = @ + 1, !.forwarded = @ + 1] = new
  BY <1>2 DEF new, one
<1>6. QED
  BY <1>3, <1>4, <1>5

\* The counters of the output VCs: a packet that is put into its buffer.
LEMMA OutputsAppended ==
  ASSUME IInv, OutputsBalance, NEW m \in Masters, NEW v \in OutVCs, SendBuffered(m, v),
         ovc' = [ovc EXCEPT ![<<m, v>>].enqueued = @ + 1]
  PROVE  OutputsBalance'
<1> DEFINE s == <<m, v>>
           p == Packet(m, v, accepted[s] + 1)
           new == [ovc[s] EXCEPT !.enqueued = @ + 1]
<1>1. s \in Streams /\ outq \in [Streams -> Seq(Packets)] /\ accepted[s] \in Nat
  BY DEF IInv, TypeOK, Streams
<1>2. p \in Packets
  BY <1>1 DEF Packet, Packets
<1>3. outq' = [outq EXCEPT ![s] = Append(@, p)]
  BY DEF SendBuffered
<1>4. Len(Append(outq[s], p)) = Len(outq[s]) + 1
  BY <1>1, <1>2
<1>5. ovc[s] \in OutCounts /\ ovc[s].enqueued - ovc[s].forwarded = Len(outq[s])
  BY <1>1 DEF OutputsBalance
<1>6. /\ new \in OutCounts /\ new.enqueued = ovc[s].enqueued + 1
      /\ new.forwarded = ovc[s].forwarded
  BY <1>5 DEF OutCounts
<1>7. ovc' = [ovc EXCEPT ![s] = new]
  OBVIOUS
<1> HIDE DEF s, p, new
<1>8. ovc \in [Streams -> OutCounts]
  BY DEF OutputsBalance
<1>9. ovc' \in [Streams -> OutCounts]
  BY <1>6, <1>7, <1>8
<1>10. ASSUME NEW t \in Streams
       PROVE  ovc'[t].enqueued - ovc'[t].forwarded = Len(outq'[t])
  <2>1. CASE t = s
    <3>1. ovc'[t] = new /\ outq'[t] = Append(outq[s], p)
      BY <1>1, <1>3, <1>7, <1>8, <2>1
    <3>2. ovc[s].enqueued \in Nat /\ ovc[s].forwarded \in Nat
      BY <1>5 DEF OutCounts
    <3>3. (ovc[s].enqueued + 1) - ovc[s].forwarded = Len(outq[s]) + 1
      <4> DEFINE a == ovc[s].enqueued
                 b == ovc[s].forwarded
                 n == Len(outq[s])
      <4>1. a \in Nat /\ b \in Nat /\ a - b = n
        BY <1>5, <3>2
      <4> HIDE DEF a, b, n
      <4>2. (a + 1) - b = n + 1
        BY <4>1, Differences
      <4>3. QED
        BY <4>2 DEF a, b, n
    <3>4. new.enqueued - new.forwarded = Len(Append(outq[s], p))
      BY <1>4, <1>6, <3>3
    <3>5. QED
      BY <3>1, <3>4
  <2>2. CASE t # s
    <3>1. ovc'[t] = ovc[t] /\ outq'[t] = outq[t]
      BY <1>1, <1>3, <1>7, <1>8, <2>2
    <3>2. QED
      BY <3>1 DEF OutputsBalance
  <2>3. QED
    BY <2>1, <2>2
<1>11. QED
  BY <1>9, <1>10 DEF OutputsBalance

\* A packet that is refused.
LEMMA OutputsDropped ==
  ASSUME OutputsBalance, NEW s \in Streams, UNCHANGED outq,
         ovc' = [ovc EXCEPT ![s].dropped = @ + 1]
  PROVE  OutputsBalance'
<1> DEFINE new == [ovc[s] EXCEPT !.dropped = @ + 1]
<1>1. ovc \in [Streams -> OutCounts] /\ ovc[s] \in OutCounts
  BY DEF OutputsBalance
<1>2. /\ new \in OutCounts /\ new.enqueued = ovc[s].enqueued
      /\ new.forwarded = ovc[s].forwarded
  BY <1>1 DEF OutCounts
<1>3. ovc' = [ovc EXCEPT ![s] = new]
  OBVIOUS
<1> HIDE DEF new
<1>4. ovc' \in [Streams -> OutCounts]
  BY <1>1, <1>2, <1>3
<1>5. \A t \in Streams : ovc'[t].enqueued = ovc[t].enqueued
                         /\ ovc'[t].forwarded = ovc[t].forwarded
  BY <1>1, <1>2, <1>3
<1>6. QED
  BY <1>4, <1>5 DEF OutputsBalance

\* A tick of a master's port: every buffer keeps its length.
LEMMA OutputsRetried ==
  ASSUME IInv, OutputsBalance, NEW m \in Masters, RetryOutputs(m),
         ovc' = [s \in Streams |-> IF s[1] = m THEN Retried(s) ELSE ovc[s]]
  PROVE  OutputsBalance'
<1>1. ASSUME NEW s \in Streams
      PROVE  /\ ovc'[s] \in OutCounts
             /\ ovc'[s].enqueued - ovc'[s].forwarded = Len(outq'[s])
  <2>1. /\ ovc[s] \in OutCounts /\ ovc[s].enqueued - ovc[s].forwarded = Len(outq[s])
        /\ outq[s] \in Seq(Packets) /\ Len(outq[s]) \in Nat
        /\ s = <<s[1], s[2]>> /\ OutSizes[s[2]] \in Nat
    <3>1. s[1] \in Masters /\ s[2] \in OutVCs /\ s = <<s[1], s[2]>>
      BY DEF Streams
    <3>2. OutSizes[s[2]] \in Nat
      BY <3>1, VirtualChannels
    <3>3. ovc[s] \in OutCounts /\ ovc[s].enqueued - ovc[s].forwarded = Len(outq[s])
      BY DEF OutputsBalance
    <3>4. outq[s] \in Seq(Packets)
      BY DEF IInv, TypeOK
    <3>5. QED
      BY <3>1, <3>2, <3>3, <3>4
  <2>2. /\ ovc'[s] = IF s[1] = m THEN Retried(s) ELSE ovc[s]
        /\ outq'[s] = IF s[1] = m THEN TrySend(outq[s], OutSizes[s[2]]) ELSE outq[s]
    BY DEF RetryOutputs
  <2>3. CASE s[1] # m
    BY <2>1, <2>2, <2>3
  <2>4. CASE s[1] = m /\ outq[s] = <<>>
    BY <2>1, <2>2, <2>4 DEF Retried, TrySend
  <2>5. CASE s[1] = m /\ outq[s] # <<>> /\ OutputRoom(s[1], s[2])
    <3>1. Len(outq[s]) < OutSizes[s[2]]
      BY <2>1, <2>5 DEF OutputRoom
    <3>2. Len(outq'[s]) = Len(outq[s])
      BY <2>1, <2>2, <2>5, <3>1, Rotated
    <3>3. ovc'[s] = [ovc[s] EXCEPT !.enqueued = @ + 1, !.forwarded = @ + 1]
      BY <2>2, <2>5 DEF Retried
    <3>4. /\ ovc'[s] \in OutCounts
          /\ ovc'[s].enqueued - ovc'[s].forwarded = ovc[s].enqueued - ovc[s].forwarded
      BY <2>1, <3>3, BothCounted
    <3>5. QED
      BY <2>1, <3>2, <3>4
  <2>6. CASE s[1] = m /\ outq[s] # <<>> /\ ~ OutputRoom(s[1], s[2])
    <3>1. ~ (Len(outq[s]) < OutSizes[s[2]])
      BY <2>1, <2>6 DEF OutputRoom
    <3>2. outq'[s] = outq[s]
      BY <2>2, <2>6, <3>1 DEF TrySend
    <3>3. ovc'[s] = [ovc[s] EXCEPT !.dropped = @ + 1]
      BY <2>2, <2>6 DEF Retried
    <3>4. /\ ovc'[s] \in OutCounts /\ ovc'[s].enqueued = ovc[s].enqueued
          /\ ovc'[s].forwarded = ovc[s].forwarded
      BY <2>1, <3>3 DEF OutCounts
    <3>5. QED
      BY <2>1, <3>2, <3>4
  <2>7. QED
    BY <2>3, <2>4, <2>5, <2>6
<1>2. ovc' \in [Streams -> OutCounts]
  <2>1. ovc' = [s \in Streams |-> ovc'[s]]
    OBVIOUS
  <2>2. QED
    BY <1>1, <2>1
<1>3. QED
  BY <1>1, <1>2 DEF OutputsBalance

-----------------------------------------------------------------------------
\* The counters of the input VCs: nothing taken in or given out.
LEMMA InputsStay ==
  ASSUME InputsBalance, SameTaken, UNCHANGED inq
  PROVE  InputsBalance'
BY DEF InputsBalance, SameTaken

\* A packet that arrives.
LEMMA InputsAppended ==
  ASSUME IInv, PortsCounted, InputsBalance, NEW v \in InVCs, NEW p \in Packets,
         inq' = [inq EXCEPT ![v] = Append(@, p)],
         ivc' = [ivc EXCEPT ![v].enqueued = @ + 1]
  PROVE  InputsBalance'
<1>1. inq \in [InVCs -> Seq(Packets)] /\ ivc \in [InVCs -> VCCounts]
  BY DEF IInv, TypeOK, PortsCounted
<1> DEFINE new == [ivc[v] EXCEPT !.enqueued = @ + 1]
<1>2. new.enqueued = ivc[v].enqueued + 1 /\ new.processed = ivc[v].processed
      /\ ivc[v].enqueued \in Nat /\ ivc[v].processed \in Nat
  <2>1. ivc[v] \in VCCounts
    BY <1>1
  <2>2. QED
    BY <2>1 DEF VCCounts
<1>3. ivc' = [ivc EXCEPT ![v] = new]
  OBVIOUS
<1> HIDE DEF new
<1>4. ASSUME NEW u \in InVCs
      PROVE  ivc'[u].enqueued - ivc'[u].processed = Len(inq'[u])
  <2>1. CASE u = v
    <3> DEFINE a == ivc[v].enqueued
               b == ivc[v].processed
               n == Len(inq[v])
    <3>1. a \in Nat /\ b \in Nat /\ a - b = n
      BY <1>2 DEF InputsBalance
    <3>2. Len(Append(inq[v], p)) = n + 1
      BY <1>1
    <3>3. ivc'[u] = new /\ inq'[u] = Append(inq[v], p)
      BY <1>1, <1>3, <2>1
    <3>4. new.enqueued = a + 1 /\ new.processed = b
      BY <1>2
    <3> HIDE DEF a, b, n
    <3>5. (a + 1) - b = n + 1
      BY <3>1, Differences
    <3>6. QED
      BY <3>2, <3>3, <3>4, <3>5
  <2>2. CASE u # v
    <3>1. ivc'[u] = ivc[u] /\ inq'[u] = inq[u]
      BY <1>1, <1>3, <2>2
    <3>2. QED
      BY <3>1 DEF InputsBalance
  <2>3. QED
    BY <2>1, <2>2
<1>5. QED
  BY <1>4 DEF InputsBalance

\* A tick of the slave: what the owner takes is popped, and counted.
LEMMA InputsHandled ==
  ASSUME IInv, PortsCounted, InputsBalance, NEW willing \in SUBSET InVCs,
         CountHandleInputs(willing)
  PROVE  InputsBalance' /\ PortsCounted'
<1>1. inq \in [InVCs -> Seq(Packets)] /\ ivc \in [InVCs -> VCCounts]
  BY DEF IInv, TypeOK, PortsCounted
<1>2. /\ inq' = [v \in InVCs |->
                   IF v \in {u \in willing : inq[u] # <<>>} THEN Tail(inq[v]) ELSE inq[v]]
      /\ ivc' = [v \in InVCs |->
                   IF v \in willing /\ inq[v] # <<>>
                   THEN [ivc[v] EXCEPT !.processed = @ + 1] ELSE ivc[v]]
      /\ UNCHANGED <<mstats, sstats, no_such_vc, at_reset>>
  BY DEF CountHandleInputs, HandleInputs
<1>3. ASSUME NEW v \in InVCs
      PROVE  /\ ivc'[v] \in VCCounts
             /\ ivc'[v].enqueued = ivc[v].enqueued /\ ivc'[v].dropped = ivc[v].dropped
             /\ ivc'[v].enqueued - ivc'[v].processed = Len(inq'[v])
  <2> DEFINE a == ivc[v].enqueued
             b == ivc[v].processed
             n == Len(inq[v])
  <2>1. /\ ivc[v] \in VCCounts /\ inq[v] \in Seq(Packets)
        /\ a \in Nat /\ b \in Nat /\ a - b = n
    BY <1>1 DEF VCCounts, InputsBalance
  <2>2. CASE v \in willing /\ inq[v] # <<>>
    <3>1. inq'[v] = Tail(inq[v]) /\ ivc'[v] = [ivc[v] EXCEPT !.processed = @ + 1]
      BY <1>2, <2>2
    <3>2. /\ ivc'[v] \in VCCounts /\ ivc'[v].enqueued = a /\ ivc'[v].processed = b + 1
          /\ ivc'[v].dropped = ivc[v].dropped
      BY <2>1, <3>1 DEF VCCounts
    <3>3. Len(Tail(inq[v])) = n - 1
      BY <2>1, <2>2
    <3>4. a - (b + 1) = n - 1
      <4> HIDE DEF a, b, n
      <4>1. QED
        BY <2>1, Differences
    <3>5. QED
      BY <3>1, <3>2, <3>3, <3>4
  <2>3. CASE ~ (v \in willing /\ inq[v] # <<>>)
    <3>1. inq'[v] = inq[v] /\ ivc'[v] = ivc[v]
      BY <1>2, <2>3
    <3>2. QED
      BY <2>1, <3>1
  <2>4. QED
    BY <2>2, <2>3
<1>4. ivc' \in [InVCs -> VCCounts]
  <2>1. ivc' = [v \in InVCs |-> ivc'[v]]
    BY <1>2
  <2>2. QED
    BY <1>3, <2>1
<1>5. Arrived(ivc') = Arrived(ivc)
  <2>1. \A x \in InVCs : ivc[x].enqueued \in Nat /\ ivc[x].dropped \in Nat
    BY <1>1 DEF VCCounts
  <2>2. \A v : MoreAt(ivc, ivc', v, 0)
    BY <1>3, <2>1 DEF MoreAt
  <2>3. Arrived(ivc) \in Nat /\ Arrived(ivc') = Arrived(ivc) + (IF 0 \in InVCs THEN 0 ELSE 0)
    BY <1>1, <1>4, <2>2, ArrivedGrows, Zenon
  <2>4. QED
    BY <2>3
<1>6. PortsCounted'
  BY <1>2, <1>4, <1>5 DEF PortsCounted, AttemptsAccounted
<1>7. QED
  BY <1>3, <1>6 DEF InputsBalance

-----------------------------------------------------------------------------
\* A response: its request was accepted, and so has a stamp.
LEMMA ResponseInv ==
  ASSUME StatsIInv, NEW m \in Masters, NEW v \in OutVCs, NEW n \in 1 .. MaxPackets,
         Respond(m, v, n)
  PROVE  PortsCounted'
<1> DEFINE s == <<m, v>>
           c == sent_at[s][n]
<1>1. IInv /\ PortsCounted /\ Stamped
  BY DEF StatsIInv
<1>2. s \in Streams
  BY DEF Streams
<1>3. PICK i \in 1 .. Len(handled[s]) : handled[s][i] = n
  BY DEF Respond
<1>4. n \in 1 .. Len(handled[s])
  BY <1>1, <1>2, <1>3 DEF IInv, HandledInOrder
<1>5. Len(handled[s]) <= entered[s] /\ entered[s] <= accepted[s]
  <2>1. handled[s] \in Seq(Nat) /\ entered[s] \in Nat /\ accepted[s] \in Nat
        /\ outq[s] \in Seq(Packets)
    BY <1>1, <1>2 DEF IInv, TypeOK
  <2>2. Len(handled[s]) <= entered[s] /\ Len(outq[s]) = accepted[s] - entered[s]
    BY <1>1, <1>2 DEF IInv, HandledEntered, OutputHoldsRest
  <2>3. Len(outq[s]) \in Nat
    BY <2>1
  <2>4. QED
    BY <2>1, <2>2, <2>3
<1>6. n \in 1 .. accepted[s]
  <2>1. handled[s] \in Seq(Nat) /\ entered[s] \in Nat /\ accepted[s] \in Nat
    BY <1>1, <1>2 DEF IInv, TypeOK
  <2>2. Len(handled[s]) \in Nat
    BY <2>1
  <2>3. QED
    BY <1>4, <1>5, <2>1, <2>2
<1>7. c \in 0 .. cycle /\ cycle \in 0 .. MaxCycle
  BY <1>1, <1>2, <1>6 DEF Stamped
<1>8. mstats' = [mstats EXCEPT ![slave_pair] = Measured(@, c)]
      /\ sstats' = [sstats EXCEPT !.resp_count = @ + 1]
      /\ UNCHANGED <<ivc, no_such_vc, at_reset>>
  BY DEF Respond
<1> HIDE DEF s, c
<1>9. \A st \in SoundCounts : Measured(st, c) \in SoundCounts
  BY <1>7, MeasuredSound
<1>10. mstats' \in [Masters -> SoundCounts]
  BY <1>1, <1>8, <1>9 DEF PortsCounted
<1>11. sstats' \in PortCounts /\ sstats'.req_count = sstats.req_count
  <2>1. sstats \in PortCounts
    BY <1>1 DEF PortsCounted
  <2>2. QED
    BY <1>8, <2>1 DEF PortCounts
<1>12. QED
  BY <1>1, <1>8, <1>10, <1>11 DEF PortsCounted, AttemptsAccounted

\* Every step of VCLinkStats is one of VCLink, or leaves its links alone.
LEMMA StepOfLinks == [StatsNext]_allvars => [Next]_vars
<1> SUFFICES ASSUME [StatsNext]_allvars PROVE [Next]_vars
  OBVIOUS
<1>1. CASE AdvanceClock \/ ResetSlave \/ UNCHANGED allvars
  BY <1>1 DEF AdvanceClock, ResetSlave, allvars
<1>2. CASE \E m \in Masters : Connect(m) \/ CountRetryOutputs(m) \/ ResetMaster(m)
  BY <1>2 DEF Connect, CountRetryOutputs, ResetMaster, Next
<1>3. CASE \E m \in Masters, v \in VcIds :
             CountSendDirect(m, v) \/ CountSendBuffered(m, v) \/ CountSendRefused(m, v)
  BY <1>3 DEF CountSendDirect, CountSendBuffered, CountSendRefused, Next
<1>4. CASE \E willing \in SUBSET InVCs : CountHandleInputs(willing)
  BY <1>4 DEF CountHandleInputs, Next
<1>5. CASE \E m \in Masters, v \in OutVCs, n \in 1 .. MaxPackets : Respond(m, v, n)
  BY <1>5 DEF Respond
<1>6. QED
  BY <1>1, <1>2, <1>3, <1>4, <1>5 DEF StatsNext

\* One more of the calls that are bounded.
LEMMA Tried == ASSUME InRange, Try PROVE tries' \in 0 .. MaxTries
BY MaxTriesNat DEF InRange, Try

\* What the statistics need of a step, apart from what it does to the links.
Kept == PortsCounted' /\ InputsBalance' /\ OutputsBalance' /\ Stamped' /\ InRange'

LEMMA PortsStay ==
  ASSUME PortsCounted, UNCHANGED <<mstats, sstats, ivc, no_such_vc, at_reset>>
  PROVE  PortsCounted' /\ SameTaken
BY DEF PortsCounted, AttemptsAccounted, SameTaken

LEMMA OutputsStay ==
  ASSUME OutputsBalance, UNCHANGED <<outq, ovc>>
  PROVE  OutputsBalance'
BY DEF OutputsBalance

LEMMA ClockStays ==
  ASSUME Stamped, UNCHANGED <<sent_at, accepted, cycle>>
  PROVE  Stamped'
BY DEF Stamped

LEMMA SendDirectKept ==
  ASSUME StatsIInv, NEW m \in Masters, NEW v \in VcIds, CountSendDirect(m, v)
  PROVE  Kept
<1>1. IInv /\ PortsCounted /\ InputsBalance /\ OutputsBalance /\ Stamped /\ InRange
  BY DEF StatsIInv
<1>2. v \in OutVCs /\ v \in InVCs
  BY DEF CountSendDirect, SendDirect, GoesThrough, InputRoom
<1>3. PortsCounted'
  BY <1>1, <1>2, DirectSendInv DEF CountSendDirect
<1>4. InputsBalance'
  <2> DEFINE p == Packet(m, v, accepted[<<m, v>>] + 1)
  <2>1. accepted[<<m, v>>] \in Nat
    BY <1>1, <1>2 DEF IInv, TypeOK, Streams
  <2>2. p \in Packets
    BY <1>2, <2>1 DEF Packet, Packets
  <2>3. inq' = [inq EXCEPT ![v] = Append(@, p)] /\ ivc' = [ivc EXCEPT ![v].enqueued = @ + 1]
    BY DEF CountSendDirect, SendDirect
  <2> HIDE DEF p
  <2>4. QED
    BY <1>1, <1>2, <2>2, <2>3, InputsAppended
<1>5. OutputsBalance'
  BY <1>1, OutputsStay DEF CountSendDirect, SendDirect
<1>6. Stamped'
  BY <1>1, <1>2, StampAdded DEF CountSendDirect, SendDirect
<1>7. InRange'
  BY <1>1 DEF InRange, CountSendDirect
<1>8. QED
  BY <1>3, <1>4, <1>5, <1>6, <1>7 DEF Kept

LEMMA SendBufferedKept ==
  ASSUME StatsIInv, NEW m \in Masters, NEW v \in VcIds, CountSendBuffered(m, v)
  PROVE  Kept
<1>1. IInv /\ PortsCounted /\ InputsBalance /\ OutputsBalance /\ Stamped /\ InRange
  BY DEF StatsIInv
<1>2. v \in OutVCs
  BY DEF CountSendBuffered, SendBuffered
<1>3. PortsCounted' /\ SameTaken
  BY <1>1, AttemptInv DEF CountSendBuffered
<1>4. InputsBalance'
  BY <1>1, <1>3, InputsStay DEF CountSendBuffered, SendBuffered
<1>5. OutputsBalance'
  BY <1>1, <1>2, OutputsAppended DEF CountSendBuffered
<1>6. Stamped'
  BY <1>1, <1>2, StampAdded DEF CountSendBuffered, SendBuffered
<1>7. InRange'
  BY <1>1 DEF InRange, CountSendBuffered, CountAttempt
<1>8. QED
  BY <1>3, <1>4, <1>5, <1>6, <1>7 DEF Kept

LEMMA SendRefusedKept ==
  ASSUME StatsIInv, NEW m \in Masters, NEW v \in VcIds, CountSendRefused(m, v)
  PROVE  Kept
<1>1. IInv /\ PortsCounted /\ InputsBalance /\ OutputsBalance /\ Stamped /\ InRange
  BY DEF StatsIInv
<1>2. /\ UNCHANGED <<bound, outq, inq, accepted, entered, handled>>
      /\ UNCHANGED <<slave_pair, cycle, sent_at, answered, at_reset>> /\ Try
  BY DEF CountSendRefused, SendRefused, vars
<1>3. (PortsCounted' /\ SameTaken) /\ OutputsBalance'
  <2>1. CASE v \in OutVCs
    <3>1. CountAttempt(m, v) /\ ovc' = [ovc EXCEPT ![<<m, v>>].dropped = @ + 1]
      BY <2>1 DEF CountSendRefused
    <3>2. <<m, v>> \in Streams
      BY <2>1 DEF Streams
    <3>3. PortsCounted' /\ SameTaken
      BY <1>1, <1>2, <3>1, AttemptInv
    <3>4. OutputsBalance'
      BY <1>1, <1>2, <3>1, <3>2, OutputsDropped
    <3>5. QED
      BY <3>3, <3>4
  <2>2. CASE v \notin OutVCs
    <3>1. UNCHANGED <<mstats, sstats, ivc, ovc, no_such_vc>>
      BY <2>2 DEF CountSendRefused
    <3>2. QED
      BY <1>1, <1>2, <3>1, PortsStay, OutputsStay
  <2>3. QED
    BY <2>1, <2>2
<1>4. InputsBalance'
  BY <1>1, <1>2, <1>3, InputsStay
<1>5. Stamped'
  BY <1>1, <1>2, ClockStays
<1>6. InRange'
  BY <1>1, <1>2, Tried DEF InRange
<1>7. QED
  BY <1>3, <1>4, <1>5, <1>6 DEF Kept

\* A module resets the statistics of its ports: the VCs go on counting.
LEMMA ResetKept ==
  ASSUME StatsIInv, ResetSlave \/ \E m \in Masters : ResetMaster(m)
  PROVE  Kept
<1>1. IInv /\ PortsCounted /\ InputsBalance /\ OutputsBalance /\ Stamped /\ InRange
  BY DEF StatsIInv
<1>2. /\ UNCHANGED <<bound, outq, inq, accepted, entered, handled>>
      /\ UNCHANGED <<slave_pair, cycle, ivc, ovc, sent_at, answered, no_such_vc>> /\ Try
  BY DEF ResetSlave, ResetMaster, vars
<1>3. SameTaken
  BY <1>2 DEF SameTaken
<1>4. InputsBalance' /\ OutputsBalance' /\ Stamped'
  BY <1>1, <1>2, <1>3, InputsStay, OutputsStay, ClockStays
<1>5. InRange'
  BY <1>1, <1>2, Tried DEF InRange
<1>6. PortsCounted'
  <2>1. CASE ResetSlave
    <3>1. Arrived(ivc) \in Nat /\ no_such_vc \in Nat
      <4>1. ivc \in [InVCs -> VCCounts] /\ no_such_vc \in Nat
        BY <1>1 DEF PortsCounted
      <4>2. PICK r : IsSum(r, ArrivedAt(ivc), InVCs) /\ Arrived(ivc) = r[InVCs]
        BY <4>1, ArrivedIs
      <4>3. QED
        BY <4>1, <4>2 DEF IsSum
    <3>2. /\ sstats' = ZeroStats /\ at_reset' = Arrived(ivc) + no_such_vc
          /\ UNCHANGED mstats
      BY <2>1 DEF ResetSlave, Reset
    <3>3. sstats' \in PortCounts /\ sstats'.req_count = 0
      BY <3>2, ZeroSound DEF SoundCounts, ZeroStats
    <3>4. QED
      BY <1>1, <1>2, <3>1, <3>2, <3>3 DEF PortsCounted, AttemptsAccounted
  <2>2. CASE \E m \in Masters : ResetMaster(m)
    <3>1. PICK m \in Masters : ResetMaster(m)
      BY <2>2
    <3>2. mstats' = [mstats EXCEPT ![m] = ZeroStats] /\ UNCHANGED <<sstats, at_reset>>
      BY <3>1 DEF ResetMaster, Reset
    <3>3. mstats' \in [Masters -> SoundCounts]
      BY <1>1, <3>2, ZeroSound DEF PortsCounted
    <3>4. QED
      BY <1>1, <1>2, <3>2, <3>3 DEF PortsCounted, AttemptsAccounted
  <2>3. QED
    BY <2>1, <2>2
<1>7. QED
  BY <1>4, <1>5, <1>6 DEF Kept

LEMMA StatsNextInv == StatsIInv /\ [StatsNext]_allvars => StatsIInv'
<1> SUFFICES ASSUME StatsIInv, [StatsNext]_allvars PROVE StatsIInv'
  OBVIOUS
<1>1. IInv /\ PortsCounted /\ InputsBalance /\ OutputsBalance /\ Stamped /\ InRange
  BY DEF StatsIInv
<1>2. IInv'
  BY <1>1, StepOfLinks, NextInv
<1>3. CASE AdvanceClock
  <2>1. /\ cycle < MaxCycle /\ cycle' = cycle + 1
        /\ UNCHANGED <<bound, outq, inq, accepted, entered, handled>>
        /\ UNCHANGED <<slave_pair, mstats, sstats, ivc, ovc, sent_at, no_such_vc,
                       at_reset, tries>>
    BY <1>3 DEF AdvanceClock, vars
  <2>2. cycle' \in cycle .. MaxCycle
    BY <1>1, <2>1, DelaysFit DEF Stamped
  <2>3. Stamped'
    BY <1>1, <2>1, <2>2, StampsStay
  <2>4. (PortsCounted' /\ SameTaken) /\ OutputsBalance'
    BY <1>1, <2>1, PortsStay, OutputsStay
  <2>5. InputsBalance'
    BY <1>1, <2>1, <2>4, InputsStay
  <2>6. QED
    BY <1>1, <1>2, <2>1, <2>3, <2>4, <2>5 DEF StatsIInv, InRange
<1>4. ASSUME NEW m \in Masters, Connect(m) PROVE Kept
  <2>1. /\ UNCHANGED <<outq, inq, accepted, entered, handled>> /\ slave_pair' = m
        /\ UNCHANGED <<cycle, mstats, sstats, ivc, ovc, sent_at, no_such_vc,
                       at_reset, tries>>
    BY <1>4 DEF Connect, Bind
  <2>2. (PortsCounted' /\ SameTaken) /\ OutputsBalance' /\ Stamped'
    BY <1>1, <2>1, PortsStay, OutputsStay, ClockStays
  <2>3. InputsBalance'
    BY <1>1, <2>1, <2>2, InputsStay
  <2>4. QED
    BY <1>1, <2>1, <2>2, <2>3 DEF Kept, InRange
<1>5. ASSUME NEW m \in Masters, CountRetryOutputs(m) PROVE Kept
  <2>1. /\ RetryOutputs(m) /\ Try
        /\ ovc' = [s \in Streams |-> IF s[1] = m THEN Retried(s) ELSE ovc[s]]
        /\ UNCHANGED <<bound, inq, accepted, entered, handled>>
        /\ UNCHANGED <<slave_pair, cycle, mstats, sstats, ivc, sent_at, no_such_vc, at_reset>>
    BY <1>5 DEF CountRetryOutputs, RetryOutputs
  <2>2. (PortsCounted' /\ SameTaken) /\ OutputsBalance' /\ Stamped'
    BY <1>1, <2>1, PortsStay, OutputsRetried, ClockStays
  <2>3. InputsBalance'
    BY <1>1, <2>1, <2>2, InputsStay
  <2>4. QED
    BY <1>1, <2>1, <2>2, <2>3, Tried DEF Kept, InRange
<1>6. ASSUME NEW willing \in SUBSET InVCs, CountHandleInputs(willing) PROVE Kept
  <2>1. /\ UNCHANGED <<bound, outq, accepted, entered>>
        /\ UNCHANGED <<slave_pair, cycle, ovc, sent_at, tries>>
    BY <1>6 DEF CountHandleInputs, HandleInputs
  <2>2. InputsBalance' /\ PortsCounted'
    BY <1>1, <1>6, InputsHandled
  <2>3. OutputsBalance' /\ Stamped'
    BY <1>1, <2>1, OutputsStay, ClockStays
  <2>4. QED
    BY <1>1, <2>1, <2>2, <2>3 DEF Kept, InRange
<1>7. ASSUME NEW m \in Masters, NEW v \in OutVCs, NEW n \in 1 .. MaxPackets, Respond(m, v, n)
      PROVE  Kept
  <2>1. /\ UNCHANGED <<bound, outq, inq, accepted, entered, handled>>
        /\ UNCHANGED <<slave_pair, cycle, ivc, ovc, sent_at, no_such_vc, at_reset, tries>>
    BY <1>7 DEF Respond, vars
  <2>2. PortsCounted'
    BY <1>7, ResponseInv
  <2>3. SameTaken
    BY <2>1 DEF SameTaken
  <2>4. InputsBalance' /\ OutputsBalance' /\ Stamped'
    BY <1>1, <2>1, <2>3, InputsStay, OutputsStay, ClockStays
  <2>5. QED
    BY <1>1, <2>1, <2>2, <2>4 DEF Kept, InRange
<1>8. CASE UNCHANGED allvars
  <2>1. /\ UNCHANGED <<bound, outq, inq, accepted, entered, handled>>
        /\ UNCHANGED <<slave_pair, cycle, mstats, sstats, ivc, ovc, sent_at, no_such_vc,
                       at_reset, tries>>
    BY <1>8 DEF allvars, statvars, vars
  <2>2. (PortsCounted' /\ SameTaken) /\ OutputsBalance' /\ Stamped'
    BY <1>1, <2>1, PortsStay, OutputsStay, ClockStays
  <2>3. InputsBalance'
    BY <1>1, <2>1, <2>2, InputsStay
  <2>4. QED
    BY <1>1, <1>2, <2>1, <2>2, <2>3 DEF StatsIInv, InRange
<1>9. Kept => StatsIInv'
  BY <1>2 DEF Kept, StatsIInv
<1>10. QED
  BY <1>3, <1>4, <1>5, <1>6, <1>7, <1>8, <1>9, SendDirectKept, SendBufferedKept,
     SendRefusedKept, ResetKept DEF StatsNext

-----------------------------------------------------------------------------
(***************************************************************************)
(* Counting does not change what the links do: with statistics and         *)
(* responses, they behave as VCLink says, so that its theorems hold here.  *)
(***************************************************************************)
THEOREM CountingOnlyCounts == StatsSpec => Spec
<1>1. StatsInit => Init
  BY DEF StatsInit
<1>2. QED
  BY <1>1, StepOfLinks, PTL DEF StatsSpec, Spec

\* The inductive invariant holds of every reachable state.
THEOREM StatsInductive == StatsSpec => []StatsIInv
BY StatsInitInv, StatsNextInv, PTL DEF StatsSpec

(***************************************************************************)
(* No counter and no delay is ever negative, and no request has a stamp    *)
(* from the future, whatever is sent, answered and reset.                  *)
(***************************************************************************)
THEOREM CountsTyped == StatsSpec => []StatsTypeOK
<1>1. StatsIInv => StatsTypeOK
  <2>1. SUFFICES ASSUME StatsIInv PROVE StatsTypeOK
    OBVIOUS
  <2>2. PortsCounted /\ OutputsBalance /\ Stamped /\ InRange
    BY <2>1 DEF StatsIInv
  <2>3. mstats \in [Masters -> PortCounts] /\ sstats \in PortCounts
        /\ no_such_vc \in Nat /\ at_reset \in Nat
    BY <2>2 DEF PortsCounted, SoundCounts
  <2>4. ivc \in [InVCs -> [enqueued : Nat, processed : Nat, dropped : Nat]]
    BY <2>2 DEF PortsCounted, VCCounts
  <2>5. ovc \in [Streams -> [enqueued : Nat, forwarded : Nat, dropped : Nat]]
    BY <2>2 DEF OutputsBalance, OutCounts
  <2>6. \A s \in Streams : \A i \in 1 .. Len(sent_at[s]) : sent_at[s][i] \in 0 .. cycle
    BY <2>2 DEF Stamped
  <2>7. QED
    BY <2>2, <2>3, <2>4, <2>5, <2>6 DEF StatsTypeOK, Stamped, InRange
<1>2. QED
  BY <1>1, StatsInductive, PTL

(***************************************************************************)
(* What went into a buffer by its counters, and has not come out, is what  *)
(* it holds, although retries turn an OutputVC over and count both ways.   *)
(***************************************************************************)
THEOREM CountersBalance == StatsSpec => []VCStatsBalance
<1>1. StatsIInv => VCStatsBalance
  BY DEF StatsIInv, InputsBalance, OutputsBalance, VCStatsBalance
<1>2. QED
  BY <1>1, StatsInductive, PTL

(***************************************************************************)
(* The slave's count of requests is what has arrived since its last reset: *)
(* taken in, dropped at a full VC, or refused for want of the VC.          *)
(***************************************************************************)
THEOREM EachAttemptCounted == StatsSpec => []AttemptsAccounted
<1>1. StatsIInv => AttemptsAccounted
  BY DEF StatsIInv, PortsCounted
<1>2. QED
  BY <1>1, StatsInductive, PTL

(***************************************************************************)
(* In the report of any set of masters the total delay lies between the    *)
(* least and the greatest delay, once per response; a report without       *)
(* responses has no delay and the initial minimum.                         *)
(***************************************************************************)
THEOREM DelaysConsistent == StatsSpec => []DelayBounds
<1>1. StatsIInv => DelayBounds
  <2>1. SUFFICES ASSUME StatsIInv, NEW M \in SUBSET Masters PROVE DelaysSound(Merged(M))
    BY DEF DelayBounds, DelaysSound
  <2>2. Merged(M) \in SoundCounts
    BY <2>1, MergedSound DEF StatsIInv, PortsCounted
  <2>3. QED
    BY <2>2 DEF SoundCounts
<1>2. QED
  BY <1>1, StatsInductive, PTL
=============================================================================
