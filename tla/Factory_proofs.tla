----------------------------- MODULE Factory_proofs -----------------------------
(***************************************************************************)
(* Proofs of the safety properties of Factory, for any registered types    *)
(* and any files of the form that Format describes.                        *)
(***************************************************************************)
EXTENDS Factory, FiniteSetTheorems, SequenceTheorems, WellFoundedInduction, TLAPS

Less == {ss \in Nat \X Nat : ss[1] < ss[2]}

LEMMA LessWellFounded == IsWellFoundedOn(Less, Nat)
<1>1. Less = OpToRel(<, Nat)
  BY DEF Less, OpToRel
<1>2. QED
  BY <1>1, NatLessThanWellFounded

\* A set of natural numbers has a least element.
LEMMA LeastNatural ==
  ASSUME NEW T \in SUBSET Nat, T # {}
  PROVE  \E n \in T : \A m \in T : n <= m
<1>1. PICK n \in T : \A m \in T : ~ (<<m, n>> \in Less)
  BY LessWellFounded, WFMin
<1>2. ASSUME NEW k \in Nat, NEW m \in Nat, m < k PROVE <<m, k>> \in Less
  BY <1>2 DEF Less
<1>3. \A m \in T : ~ (m < n)
  BY <1>1, <1>2
<1>4. QED
  BY <1>3

\* A set of numbers with 0 and the successor of each has all numbers.
LEMMA AllNumbers ==
  ASSUME NEW Q, 0 \in Q, \A n \in Nat : n \in Q => n + 1 \in Q
  PROVE  Nat \subseteq Q
<1>1. SUFFICES ASSUME Nat \ Q # {} PROVE FALSE
  OBVIOUS
<1>2. PICK n \in Nat \ Q : \A m \in Nat \ Q : n <= m
  <2> DEFINE T == Nat \ Q
  <2>1. T \in SUBSET Nat /\ T # {}
    BY <1>1
  <2> HIDE DEF T
  <2>2. \E n \in T : \A m \in T : n <= m
    BY <2>1, LeastNatural
  <2>3. QED
    BY <2>2 DEF T
<1>3. n # 0
  OBVIOUS
<1>4. n - 1 \in Nat /\ (n - 1) + 1 = n
  BY <1>3
<1>5. n - 1 \in Q
  BY <1>2, <1>4
<1>6. QED
  BY <1>4, <1>5

-----------------------------------------------------------------------------
\* Positions in a list: the least and the greatest of some.
LEMMA LeastPosition ==
  ASSUME NEW n \in Nat, NEW I \in SUBSET (1 .. n), I # {}
  PROVE  Min(I) \in I /\ \A i \in I : Min(I) <= i
<1>1. \E x \in I : \A y \in I : x <= y
  BY LeastNatural
<1>2. QED
  BY <1>1 DEF Min

LEMMA GreatestNumber ==
  ASSUME NEW n \in Nat, NEW I \in SUBSET (0 .. n), I # {}
  PROVE  Max(I) \in I /\ \A i \in I : i <= Max(I)
<1> DEFINE T == {m \in Nat : \A i \in I : i <= m}
<1>1. T \in SUBSET Nat /\ n \in T
  OBVIOUS
<1>2. PICK m \in T : \A k \in T : m <= k
  <2> HIDE DEF T
  <2>1. QED
    BY <1>1, LeastNatural
<1>3. m \in I
  <2>1. SUFFICES ASSUME m \notin I PROVE FALSE
    OBVIOUS
  <2>2. PICK i \in I : TRUE
    OBVIOUS
  <2>3. \A j \in I : j \in Nat /\ j <= m /\ j # m
    BY <2>1
  <2>4. m - 1 \in Nat /\ \A j \in I : j <= m - 1
    BY <2>2, <2>3
  <2>5. QED
    BY <1>2, <2>4
<1>4. \E x \in I : \A y \in I : x >= y
  BY <1>3
<1>5. QED
  BY <1>4 DEF Max

\* The positions in a set, counted from the first, are all of them.
LEMMA NthPositions ==
  ASSUME NEW m \in Nat, NEW I \in SUBSET (1 .. m)
  PROVE  /\ Cardinality(I) \in Nat
         /\ \A n \in 1 .. Cardinality(I) : Nth(I, n) \in I
         /\ \A i \in I : \E n \in 1 .. Cardinality(I) : Nth(I, n) = i
<1> DEFINE Below(i) == {j \in I : j < i}
           rank == [i \in I |-> Cardinality(Below(i)) + 1]
           C == Cardinality(I)
<1>1. IsFiniteSet(I) /\ C \in Nat
  <2>1. IsFiniteSet(1 .. m)
    BY FS_Interval
  <2>2. IsFiniteSet(I)
    BY <2>1, FS_Subset
  <2>3. QED
    BY <2>2, FS_CardinalityType
<1>2. ASSUME NEW i \in I PROVE IsFiniteSet(Below(i)) /\ Cardinality(Below(i)) \in Nat
  BY <1>1, FS_Subset, FS_CardinalityType
<1>3. ASSUME NEW i \in I PROVE Cardinality(Below(i)) < C
  <2>1. Below(i) \in SUBSET I /\ Below(i) # I
    OBVIOUS
  <2>2. Cardinality(Below(i)) <= C /\ Cardinality(Below(i)) # C
    BY <1>1, <2>1, FS_Subset
  <2>3. QED
    BY <1>1, <1>2, <2>2
<1>4. ASSUME NEW i \in I, NEW j \in I, i < j
      PROVE  Cardinality(Below(i)) < Cardinality(Below(j))
  <2>1. i \in Below(j) /\ i \notin Below(i)
    BY <1>4
  <2>2. Below(i) \in SUBSET Below(j)
    <3>1. \A k \in I : k < i => k < j
      BY <1>4
    <3>2. QED
      BY <3>1
  <2>3. Below(i) # Below(j)
    BY <2>1
  <2>4. Cardinality(Below(i)) <= Cardinality(Below(j))
        /\ Cardinality(Below(i)) # Cardinality(Below(j))
    BY <1>2, <2>2, <2>3, FS_Subset
  <2>5. QED
    BY <1>2, <2>4
<1> HIDE DEF Below, C
<1>5. rank \in [I -> 1 .. C]
  BY <1>1, <1>2, <1>3
<1>6. \A i, j \in I : rank[i] = rank[j] => i = j
  <2>1. \A i, j \in I : i < j => rank[i] # rank[j]
    BY <1>2, <1>4
  <2>2. \A i, j \in I : i < j \/ j < i \/ i = j
    OBVIOUS
  <2> HIDE DEF rank
  <2>3. QED
    BY <2>1, <2>2
<1>7. rank \in Injection(I, 1 .. C)
  BY <1>5, <1>6, Zenon DEF Injection, IsInjective
<1>8. rank \in Surjection(I, 1 .. C)
  <2>1. IsFiniteSet(1 .. C) /\ Cardinality(1 .. C) = C
    BY <1>1, FS_Interval
  <2> HIDE DEF rank
  <2>2. QED
    BY <1>1, <1>7, <2>1, FS_Injection DEF C
<1>9. \A n \in 1 .. C : \E i \in I : rank[i] = n
  BY <1>8, Zenon DEF Surjection
<1>10. \A n \in 1 .. C : \A i \in I : Cardinality(Below(i)) = n - 1 <=> rank[i] = n
  BY <1>1, <1>2
<1>11. \A n \in 1 .. C : Nth(I, n) = CHOOSE i \in I : Cardinality(Below(i)) = n - 1
  BY DEF Nth, Below
<1> HIDE DEF rank
<1>12. \A n \in 1 .. C : Nth(I, n) \in I /\ rank[Nth(I, n)] = n
  BY <1>9, <1>10, <1>11
<1>13. \A i \in I : rank[i] \in 1 .. C /\ Nth(I, rank[i]) = i
  BY <1>5, <1>6, <1>12
<1>14. QED
  BY <1>1, <1>12, <1>13 DEF C

\* What is picked from a list is what is at the positions picked.
LEMMA PickedIs ==
  ASSUME NEW S, NEW s \in Seq(S), NEW I \in SUBSET DOMAIN s
  PROVE  /\ Picked(s, I) \in Seq(S)
         /\ ToSet(Picked(s, I)) = {s[i] : i \in I}
         /\ Picked(s, I) = <<>> <=> I = {}
<1>1. Len(s) \in Nat /\ DOMAIN s = 1 .. Len(s)
  OBVIOUS
<1>2. /\ Cardinality(I) \in Nat
      /\ \A n \in 1 .. Cardinality(I) : Nth(I, n) \in I
      /\ \A i \in I : \E n \in 1 .. Cardinality(I) : Nth(I, n) = i
  BY <1>1, NthPositions
<1> DEFINE C == Cardinality(I)
           p == [n \in 1 .. C |-> s[Nth(I, n)]]
<1>3. Picked(s, I) = p
  BY DEF Picked
<1>4. \A i \in I : s[i] \in S
  OBVIOUS
<1> HIDE DEF C
<1>5. p \in Seq(S) /\ Len(p) = C /\ DOMAIN p = 1 .. C
  BY <1>2, <1>4 DEF C
<1>6. ToSet(p) = {s[i] : i \in I}
  BY <1>2 DEF ToSet, C
<1> HIDE DEF p
<1>7. p = <<>> <=> I = {}
  <2>1. I = {} <=> C = 0
    BY <1>2 DEF C
  <2>2. p = <<>> <=> Len(p) = 0
    BY <1>5
  <2>3. QED
    BY <1>5, <2>1, <2>2
<1>8. QED
  BY <1>3, <1>5, <1>6, <1>7, Zenon

\* A finite set as a list.
LEMMA ListOfSet ==
  ASSUME NEW S, IsFiniteSet(S)
  PROVE  SetToSeq(S) \in Seq(S) /\ ToSet(SetToSeq(S)) = S
<1> DEFINE C == Cardinality(S)
           f == SetToSeq(S)
<1>1. C \in Nat /\ ExistsBijection(1 .. C, S)
  BY FS_CardinalityType
<1>2. PICK g : g \in [1 .. C -> S] /\ IsInjective(g)
  BY <1>1 DEF ExistsBijection, Bijection, Injection
<1>3. f \in [1 .. C -> S] /\ IsInjective(f)
  BY <1>2 DEF SetToSeq
<1> HIDE DEF f, C
<1>4. f \in Injection(1 .. C, S)
  BY <1>3 DEF Injection
<1>5. f \in Surjection(1 .. C, S)
  <2>1. Cardinality(1 .. C) = C
    BY <1>1, FS_Interval
  <2>2. QED
    BY <1>4, <2>1, FS_Injection DEF C
<1>6. \A x \in S : \E n \in 1 .. C : f[n] = x
  BY <1>5 DEF Surjection
<1>7. ToSet(f) = S
  BY <1>3, <1>6 DEF ToSet
<1>8. f \in Seq(S)
  BY <1>1, <1>3
<1>9. QED
  BY <1>7, <1>8 DEF f

-----------------------------------------------------------------------------
\* The keys of the files at the positions s, those of the first that has them.
Combined(K, s) ==
  [k \in UNION {DOMAIN K[i] : i \in s} |->
     K[Min({i \in s : k \in DOMAIN K[i]})][k]]

LEMMA CombinedTurn ==
  ASSUME NEW n \in Nat, NEW s \in SUBSET (1 .. n), s # {}, NEW K
  PROVE  Combined(K, s) = Overlay(K[Min(s)], Combined(K, s \ {Min(s)}))
<1>1. PICK m : m = Min(s)
  OBVIOUS
<1>2. m \in s /\ \A i \in s : m <= i
  BY <1>1, LeastPosition
<1> DEFINE Having(k) == {i \in s : k \in DOMAIN K[i]}
           rest == Combined(K, s \ {m})
           Keys == UNION {DOMAIN K[i] : i \in s}
           Others == UNION {DOMAIN K[i] : i \in s \ {m}}
<1>3. Keys = DOMAIN K[m] \cup Others
  BY <1>2
<1>4. DOMAIN rest = Others
  BY DEF Combined
<1>5. ASSUME NEW k \in DOMAIN K[m] PROVE Min(Having(k)) = m
  <2>1. m \in Having(k) /\ Having(k) \in SUBSET (1 .. n)
    BY <1>2
  <2>2. Min(Having(k)) \in Having(k) /\ \A i \in Having(k) : Min(Having(k)) <= i
    BY <2>1, LeastPosition
  <2>3. \A i \in Having(k) : m <= i /\ i \in Nat
    BY <1>2
  <2> HIDE DEF Having
  <2>4. Min(Having(k)) <= m /\ m <= Min(Having(k)) /\ m \in Nat /\ Min(Having(k)) \in Nat
    BY <2>1, <2>2, <2>3
  <2>5. QED
    BY <2>4
<1>6. ASSUME NEW k \in Others, k \notin DOMAIN K[m]
      PROVE  rest[k] = K[Min(Having(k))][k]
  <2>1. Having(k) = {i \in s \ {m} : k \in DOMAIN K[i]}
    BY <1>6
  <2>2. QED
    BY <2>1 DEF Combined
<1> HIDE DEF rest
<1>7. \A k \in Keys : K[Min(Having(k))][k] = IF k \in DOMAIN K[m] THEN K[m][k] ELSE rest[k]
  BY <1>3, <1>5, <1>6
<1> HIDE DEF Having
<1>8. [k \in Keys |-> K[Min(Having(k))][k]]
        = [k \in DOMAIN K[m] \cup DOMAIN rest |-> IF k \in DOMAIN K[m] THEN K[m][k] ELSE rest[k]]
  BY <1>3, <1>4, <1>7
<1>9. Combined(K, s) = [k \in Keys |-> K[Min(Having(k))][k]]
  BY DEF Combined, Having
<1>10. QED
  BY <1>1, <1>8, <1>9 DEF Overlay, rest

\* The files that are opened, by their keys.
KeysOf(opened) == [i \in DOMAIN opened |-> OwnKeys(opened[i])]

\* Merging from the inside out gives each key the value in the outermost file.
LEMMA MergedIs ==
  ASSUME NEW opened \in Seq(Files)
  PROVE  Merged(opened) = Combined(KeysOf(opened), DOMAIN opened)
<1> DEFINE D == DOMAIN opened
           n == Len(opened)
           K == KeysOf(opened)
           Turn(r, s) == IF s = {} THEN EmptyFunction
                         ELSE Overlay(OwnKeys(opened[Min(s)]), r[s \ {Min(s)}])
           Body(r) == [s \in SUBSET D |->
                         IF s = {} THEN EmptyFunction
                         ELSE Overlay(OwnKeys(opened[Min(s)]), r[s \ {Min(s)}])]
           fold == CHOOSE r : r = Body(r)
           c == [s \in SUBSET D |-> Combined(K, s)]
<1>1. Merged(opened) = fold[D]
  BY DEF Merged, FoldRight, MapThenFoldSet
<1>2. n \in Nat /\ D = 1 .. n
  OBVIOUS
<1>3. \A r : Body(r) = [s \in SUBSET D |-> Turn(r, s)]
  OBVIOUS
<1> HIDE DEF Body, n, D
<1>4. \A i \in D : K[i] = OwnKeys(opened[i])
  BY DEF KeysOf, D
<1> HIDE DEF K
<1>5. Combined(K, {}) = EmptyFunction
  BY DEF Combined, EmptyFunction
<1>6. ASSUME NEW s \in SUBSET D, s # {}
      PROVE  /\ Min(s) \in s
             /\ Combined(K, s) = Overlay(OwnKeys(opened[Min(s)]), Combined(K, s \ {Min(s)}))
  <2>1. s \in SUBSET (1 .. n)
    BY <1>2
  <2>2. Min(s) \in s
    BY <1>2, <1>6, <2>1, LeastPosition
  <2>3. Combined(K, s) = Overlay(K[Min(s)], Combined(K, s \ {Min(s)}))
    BY <1>2, <1>6, <2>1, CombinedTurn
  <2>4. QED
    BY <1>4, <2>2, <2>3
<1>7. ASSUME NEW s \in SUBSET D PROVE c[s] = Turn(c, s)
  <2>1. CASE s = {}
    BY <1>5, <2>1
  <2>2. CASE s # {}
    <3>1. c[s \ {Min(s)}] = Combined(K, s \ {Min(s)})
      OBVIOUS
    <3>2. c[s] = Combined(K, s)
      OBVIOUS
    <3> HIDE DEF c
    <3>3. QED
      BY <1>6, <2>2, <3>1, <3>2
  <2>3. QED
    BY <2>1, <2>2
<1>8. c = Body(c)
  <2>1. c = [s \in SUBSET D |-> c[s]]
    OBVIOUS
  <2> HIDE DEF c, Turn
  <2>2. [s \in SUBSET D |-> c[s]] = [s \in SUBSET D |-> Turn(c, s)]
    BY <1>7
  <2>3. QED
    BY <1>3, <2>1, <2>2, Zenon
<1> HIDE DEF c
<1>9. fold = Body(fold)
  BY <1>8
<1> HIDE DEF fold
<1>10. \A s \in SUBSET D : fold[s] = Turn(fold, s)
  <2> HIDE DEF Turn
  <2>1. fold = [s \in SUBSET D |-> Turn(fold, s)]
    BY <1>3, <1>9, Zenon
  <2>2. QED
    BY <2>1
<1> DEFINE Q == {k \in Nat : k <= n => fold[(n - k + 1) .. n] = Combined(K, (n - k + 1) .. n)}
<1>11. 0 \in Q
  <2>1. (n - 0 + 1) .. n = {} /\ {} \in SUBSET D
    BY <1>2
  <2>2. fold[{}] = EmptyFunction
    BY <1>10, <2>1
  <2>3. fold[(n - 0 + 1) .. n] = Combined(K, (n - 0 + 1) .. n)
    BY <1>5, <2>1, <2>2
  <2>4. QED
    BY <2>3
<1>12. ASSUME NEW k \in Nat, k \in Q PROVE k + 1 \in Q
  <2> SUFFICES ASSUME k + 1 <= n
               PROVE  fold[(n - (k + 1) + 1) .. n] = Combined(K, (n - (k + 1) + 1) .. n)
    OBVIOUS
  <2>1. PICK s, t : s = (n - (k + 1) + 1) .. n /\ t = (n - k + 1) .. n
    OBVIOUS
  <2>2. n - k \in s /\ s \in SUBSET D /\ (\A i \in s : n - k <= i)
    BY <1>2, <2>1
  <2>3. Min(s) = n - k
    <3>1. Min(s) \in s /\ \A i \in s : Min(s) <= i
      BY <1>2, <2>2, LeastPosition
    <3>2. \A x \in s : x \in Nat
      BY <1>2, <2>2
    <3>3. \E x \in Nat : x = Min(s) /\ x <= n - k /\ n - k <= x
      BY <2>2, <3>1, <3>2
    <3>4. QED
      BY <1>2, <3>3
  <2>4. s \ {Min(s)} = t
    BY <1>2, <2>1, <2>3
  <2>5. fold[t] = Combined(K, t)
    BY <1>12, <1>2, <2>1
  <2>6. s # {}
    BY <2>2
  <2>7. fold[s] = Overlay(OwnKeys(opened[Min(s)]), fold[t])
    BY <1>10, <2>2, <2>4, <2>6
  <2>8. Combined(K, s) = Overlay(OwnKeys(opened[Min(s)]), Combined(K, t))
    BY <1>6, <2>2, <2>4, <2>6
  <2>9. fold[s] = Combined(K, s)
    BY <2>5, <2>7, <2>8
  <2>10. QED
    BY <2>1, <2>9
<1>13. n \in Q
  <2> HIDE DEF Q
  <2>1. QED
    BY <1>2, <1>11, <1>12, AllNumbers
<1>14. (n - n + 1) .. n = D
  BY <1>2
<1>15. fold[D] = Combined(K, D)
  BY <1>2, <1>13, <1>14
<1>16. QED
  BY <1>1, <1>15 DEF K, D

-----------------------------------------------------------------------------
\* The entries and the connections of a frame, and the types it finds.
Es(F) == Listed(F, "modules")
Cs(F) == Listed(F, "connections")
Registered == object_registry \cup module_registry

\* How many entries the frame has made objects of, or looked up as modules, and
\* how many connections it has made.
MadeTo(F) ==
  CASE F.phase = "load" -> 0
    [] F.phase = "create" -> F.next - 1
    [] OTHER -> Len(Es(F))
SoughtTo(F) ==
  CASE F.phase \in {"load", "create", "groups"} -> 0
    [] F.phase = "internal" -> F.next - 1
    [] OTHER -> Len(Es(F))
JoinedTo(F) ==
  CASE F.phase = "connect" -> F.next - 1
    [] F.phase = "end" -> Len(Cs(F))
    [] OTHER -> 0

\* Of the first k entries, those that become objects, and those that become modules.
Making(F, k) == {i \in 1 .. k : Complete(Es(F)[i]) /\ Es(F)[i].type \in Registered}
Modular(F, k) == {i \in 1 .. k : Complete(Es(F)[i]) /\ Es(F)[i].type \in module_registry}
Seeking(F, k) == {i \in 1 .. k : Es(F)[i].config # None}
Names(F, I) == {Es(F)[i].name : i \in I}
Called(F, I, n) == {i \in I : Es(F)[i].name = n}

Fields == {"opened", "loading", "by_main", "config", "phase", "next", "objects", "modules",
           "upstream", "downstream", "pairs"}
Phases == {"load", "create", "groups", "internal", "ports", "connect", "end"}

\* Each file that is open includes the next one.
Chained(o) ==
  /\ o \in Seq(Files) /\ o # <<>>
  /\ \A i \in 1 .. Len(o) - 1 : files[o[i]].kind = "object" /\ o[i + 1] = files[o[i]].include

\* Of the files being loaded, each uses the next one, and only the last may have
\* loaded none of its includes yet; o are the files opened.
Openings == [file : Files, next : Nat, top : BOOLEAN]
Loading(l, o) ==
  /\ l \in Seq(Openings) /\ l # <<>>
  /\ \A i \in 1 .. Len(l) - 1 : l[i].next > 1 /\ l[i + 1].file \in Uses(l[i].file)
  /\ l[Len(l)].next > 0
  /\ l[Len(l)].top /\ l[Len(l)].next = 1 => l[Len(l)].file = o[Len(o)]

Shaped(F) ==
  /\ DOMAIN F = Fields
  /\ F.phase = "load" => Loading(F.loading, F.opened)
  /\ F.phase \in Phases
  /\ Chained(F.opened)
  /\ F.next \in Nat \ {0}
  /\ F.phase \in {"load", "groups", "ports"} => F.next = 1
  /\ F.phase \in {"create", "internal"} => F.next <= Len(Es(F)) + 1
  /\ F.phase = "connect" => F.next <= Len(Cs(F)) + 1
  /\ F.config = IF F.phase = "load" THEN EmptyFunction
                ELSE Combined(KeysOf(F.opened), DOMAIN F.opened)

ObjectsOK(F) ==
  LET made == Making(F, MadeTo(F))
  IN  /\ DOMAIN F.objects = Names(F, made)
      /\ \A n \in DOMAIN F.objects : F.objects[n] = Es(F)[Max(Called(F, made, n))].type
      /\ \A i \in 1 .. MadeTo(F) :
           Es(F)[i].layout /\ Complete(Es(F)[i]) => Es(F)[i].name \in Names(F, Making(F, i))

ModulesOK(F) ==
  LET modular == Names(F, Modular(F, MadeTo(F)))
      sought == Seeking(F, SoughtTo(F))
  IN  /\ DOMAIN F.modules = modular \cup Names(F, sought)
      /\ \A n \in DOMAIN F.modules : F.modules[n] = (n \in modular)
      /\ \A i \in sought :
           /\ Es(F)[i].name # None
           /\ Es(F)[i].name \in modular => files[Es(F)[i].config].kind # "object"

\* Connections that MakePorts() has been through.
PortsOK(F) ==
  F.phase \in {"connect", "end"} =>
    /\ IsList(F.downstream) /\ IsList(F.upstream)
    /\ ToSet(F.downstream) = {c.src : c \in {x \in ToSet(Cs(F)) : MakesPort(F, x.src)}}
    /\ ToSet(F.upstream) = {c.dst : c \in {x \in ToSet(Cs(F)) : MakesPort(F, x.dst)}}
    /\ \A c \in ToSet(Cs(F)) : ~ ThroughNull(F, c.src) /\ ~ ThroughNull(F, c.dst)

\* The ends that connection c has, without those it excludes.
SrcEnds(c) == Members(c.src) \ c.exclude
DstEnds(c) == Members(c.dst) \ c.exclude
HasSource(F, c) ==
  \/ SrcEnds(c) # {}
  \/ \E n \in DOMAIN F.objects : Matches(c.src, n) /\ Plain(n, None) \notin c.exclude
Linked(F, c) ==
  {p \in SrcEnds(c) \X DstEnds(c) : p[1] \in ToSet(F.downstream) /\ p[2] \in ToSet(F.upstream)}
NoNull(F, c) ==
  /\ \A s \in SrcEnds(c) : ~ ThroughNull(F, s)
  /\ HasSource(F, c) => \A d \in DstEnds(c) : ~ ThroughNull(F, d)

Links(F) == {<<F.downstream[p.src], F.upstream[p.dst]>> : p \in ToSet(F.pairs)}

JoinedOK(F) ==
  LET joined == {Cs(F)[i] : i \in 1 .. JoinedTo(F)}
  IN  /\ IsList(F.pairs)
      /\ \A p \in ToSet(F.pairs) : p.src \in DOMAIN F.downstream /\ p.dst \in DOMAIN F.upstream
      /\ Links(F) = UNION {Linked(F, c) : c \in joined}
      /\ \A c \in joined : NoNull(F, c)

FrameOK(F) == Shaped(F) /\ ObjectsOK(F) /\ ModulesOK(F) /\ PortsOK(F) /\ JoinedOK(F)

\* Frame F has called instantiateAll() with the name of file f.
CallsFor(F, f) ==
  \E e \in ToSet(Es(F)) :
    e.config # None /\ files[e.config].kind = "string" /\ files[e.config].file = f

CalledInTurn(s) ==
  /\ IsList(s)
  /\ \A i \in 1 .. Len(s) - 1 :
       /\ s[i].phase = "internal"
       /\ CallsFor(s[i], s[i + 1].opened[1])
       /\ ~ s[i + 1].by_main

StackOK == CalledInTurn(stack)

GroupsOK == \A g \in DOMAIN groups : g # None /\ IsList(groups[g])

Circular == \E circle \in (SUBSET Files) \ {{}} : \A f \in circle : Uses(f) \cap circle # {}

IInv ==
  /\ files \in FileSystems
  /\ object_registry \subseteq ObjectTypes /\ module_registry \subseteq ModuleTypes
  /\ outcome \in Outcomes
  /\ outcome = "idle" => stack = <<>>
  /\ outcome = "running" => stack # <<>>
  /\ GroupsOK
  /\ StackOK
  /\ \A F \in ToSet(stack) : FrameOK(F)
  /\ outcome = "crashed" =>
       \E F \in ToSet(stack) : F = Last(stack) /\ (UnknownLaidOut(F) \/ PortOfConfigured(F))
  /\ outcome = "overflow" => Circular

-----------------------------------------------------------------------------
\* What the lists of a frame contain.
LEMMA OwnContent ==
  ASSUME files \in FileSystems, NEW f \in Files
  PROVE  IsContent(OwnKeys(f))
<1>1. CASE files[f].kind = "object"
  BY <1>1, Format DEF OwnKeys
<1>2. CASE files[f].kind # "object"
  <2>1. DOMAIN OwnKeys(f) = {}
    BY <1>2 DEF OwnKeys, EmptyFunction
  <2>2. QED
    BY <2>1 DEF IsContent
<1>3. QED
  BY <1>1, <1>2

\* The first of the files that have the key, those at H, gives its value in F.
Gives(F, key, H) ==
  /\ key \in DOMAIN F.config <=> H # {}
  /\ H # {} => F.config[key] = OwnKeys(F.opened[Min(H)])[key]

LEMMA ConfigIs ==
  ASSUME NEW F, Shaped(F), F.phase # "load", NEW key,
         NEW H, H = {i \in DOMAIN F.opened : key \in DOMAIN OwnKeys(F.opened[i])}
  PROVE  Gives(F, key, H)
<1> DEFINE D == DOMAIN F.opened
           K == KeysOf(F.opened)
<1>1. F.config = Combined(K, D)
  BY DEF Shaped
<1>2. \A i \in D : K[i] = OwnKeys(F.opened[i])
  BY DEF KeysOf
<1> HIDE DEF K
<1>3. H = {i \in D : key \in DOMAIN K[i]}
  BY <1>2
<1>4. key \in DOMAIN F.config <=> H # {}
  BY <1>1, <1>3 DEF Combined
<1>5. ASSUME H # {} PROVE F.config[key] = K[Min(H)][key]
  BY <1>1, <1>3, <1>4, <1>5 DEF Combined
<1>6. ASSUME H # {} PROVE Min(H) \in D
  <2>1. F.opened \in Seq(Files)
    BY DEF Shaped, Chained
  <2>2. Len(F.opened) \in Nat /\ D = 1 .. Len(F.opened)
    BY <2>1
  <2>3. H \in SUBSET (1 .. Len(F.opened))
    BY <2>2
  <2>4. Min(H) \in H
    BY <1>6, <2>2, <2>3, LeastPosition
  <2>5. QED
    BY <2>4
<1>7. QED
  BY <1>2, <1>4, <1>5, <1>6 DEF Gives

LEMMA ListedIsSaid ==
  ASSUME NEW F, Shaped(F), F.phase # "load", NEW key
  PROVE  Listed(F, key) = Said(F, key)
<1>1. PICK H : H = {i \in DOMAIN F.opened : key \in DOMAIN OwnKeys(F.opened[i])}
  OBVIOUS
<1>2. Gives(F, key, H)
  BY <1>1, ConfigIs
<1>3. Said(F, key) = IF H = {} THEN <<>> ELSE OwnKeys(F.opened[Min(H)])[key]
  BY <1>1 DEF Said
<1>4. QED
  BY <1>2, <1>3 DEF Gives, Listed

LEMMA HeldByFile ==
  ASSUME NEW F, Shaped(F), NEW key \in DOMAIN F.config
  PROVE  /\ F.phase # "load"
         /\ \E i \in DOMAIN F.opened : /\ key \in DOMAIN OwnKeys(F.opened[i])
                                       /\ F.config[key] = OwnKeys(F.opened[i])[key]
<1>1. F.phase # "load"
  BY DEF Shaped, EmptyFunction
<1>2. PICK H : H = {i \in DOMAIN F.opened : key \in DOMAIN OwnKeys(F.opened[i])}
  OBVIOUS
<1>3. H # {} /\ F.config[key] = OwnKeys(F.opened[Min(H)])[key]
  <2>1. Gives(F, key, H)
    BY <1>1, <1>2, ConfigIs
  <2>2. QED
    BY <2>1 DEF Gives
<1>4. F.opened \in Seq(Files)
  BY DEF Shaped, Chained
<1>5. Len(F.opened) \in Nat /\ DOMAIN F.opened = 1 .. Len(F.opened)
  BY <1>4
<1>6. Min(H) \in H
  <2>1. H \in SUBSET (1 .. Len(F.opened))
    BY <1>2, <1>5
  <2>2. QED
    BY <1>3, <1>5, <2>1, LeastPosition
<1>7. QED
  BY <1>1, <1>2, <1>3, <1>6

EntriesOK(F) ==
  IsList(Es(F)) /\ \A e \in ToSet(Es(F)) : e.layout \in BOOLEAN /\ e.config \in Files \cup {None}
ConnectionsOK(F) ==
  IsList(Cs(F)) /\ \A c \in ToSet(Cs(F)) : IsEnd(c.src) /\ IsEnd(c.dst)
Definitions(F) ==
  "groups" \in DOMAIN F.config =>
    \A g \in DOMAIN F.config["groups"] : g # None /\ IsList(F.config["groups"][g])

LEMMA EmptyList == IsList(<<>>) /\ ToSet(<<>>) = {}
BY DEF IsList, ToSet

LEMMA ListsTyped ==
  ASSUME files \in FileSystems, NEW F, Shaped(F)
  PROVE  EntriesOK(F) /\ ConnectionsOK(F) /\ Definitions(F)
<1>1. ASSUME NEW key \in DOMAIN F.config
      PROVE  \E f \in Files : /\ IsContent(OwnKeys(f)) /\ key \in DOMAIN OwnKeys(f)
                              /\ F.config[key] = OwnKeys(f)[key]
  <2>1. PICK i \in DOMAIN F.opened : /\ key \in DOMAIN OwnKeys(F.opened[i])
                                     /\ F.config[key] = OwnKeys(F.opened[i])[key]
    BY HeldByFile
  <2>2. F.opened[i] \in Files
    BY DEF Shaped, Chained
  <2>3. QED
    BY <2>1, <2>2, OwnContent
<1>2. EntriesOK(F)
  <2>1. CASE "modules" \in DOMAIN F.config
    <3>1. PICK f \in Files : /\ IsContent(OwnKeys(f)) /\ "modules" \in DOMAIN OwnKeys(f)
                             /\ F.config["modules"] = OwnKeys(f)["modules"]
      BY <1>1, <2>1
    <3>2. Es(F) = OwnKeys(f)["modules"]
      BY <2>1, <3>1 DEF Es, Listed
    <3>3. QED
      BY <3>1, <3>2 DEF EntriesOK, IsContent
  <2>2. CASE "modules" \notin DOMAIN F.config
    BY <2>2, EmptyList DEF EntriesOK, Es, Listed
  <2>3. QED
    BY <2>1, <2>2
<1>3. ConnectionsOK(F)
  <2>1. CASE "connections" \in DOMAIN F.config
    <3>1. PICK f \in Files : /\ IsContent(OwnKeys(f)) /\ "connections" \in DOMAIN OwnKeys(f)
                             /\ F.config["connections"] = OwnKeys(f)["connections"]
      BY <1>1, <2>1
    <3>2. Cs(F) = OwnKeys(f)["connections"]
      BY <2>1, <3>1 DEF Cs, Listed
    <3>3. QED
      BY <3>1, <3>2 DEF ConnectionsOK, IsContent
  <2>2. CASE "connections" \notin DOMAIN F.config
    BY <2>2, EmptyList DEF ConnectionsOK, Cs, Listed
  <2>3. QED
    BY <2>1, <2>2
<1>4. Definitions(F)
  <2>1. SUFFICES ASSUME "groups" \in DOMAIN F.config PROVE Definitions(F)
    BY DEF Definitions
  <2>2. PICK f \in Files : /\ IsContent(OwnKeys(f)) /\ "groups" \in DOMAIN OwnKeys(f)
                           /\ F.config["groups"] = OwnKeys(f)["groups"]
    BY <1>1, <2>1
  <2>3. QED
    BY <2>2 DEF Definitions, IsContent
<1>5. QED
  BY <1>2, <1>3, <1>4

\* A list and its elements.
LEMMA ListFacts ==
  ASSUME NEW s, IsList(s)
  PROVE  /\ Len(s) \in Nat /\ DOMAIN s = 1 .. Len(s)
         /\ \A i \in 1 .. Len(s) : s[i] \in ToSet(s)
         /\ ToSet(s) = {s[i] : i \in 1 .. Len(s)}
         /\ s = <<>> <=> ToSet(s) = {}
<1>1. s \in Seq(ToSet(s))
  BY DEF IsList
<1>2. Len(s) \in Nat /\ DOMAIN s = 1 .. Len(s) /\ (s = <<>> <=> Len(s) = 0)
  BY <1>1
<1>3. ToSet(s) = {s[i] : i \in 1 .. Len(s)}
  BY <1>2 DEF ToSet
<1>4. s = <<>> <=> ToSet(s) = {}
  <2>1. ASSUME ToSet(s) = {} PROVE Len(s) = 0
    <3>1. SUFFICES ASSUME Len(s) # 0 PROVE FALSE
      OBVIOUS
    <3>2. s[1] \in ToSet(s)
      BY <1>2, <1>3, <3>1
    <3>3. QED
      BY <2>1, <3>2
  <2>2. QED
    BY <1>2, <1>3, <2>1
<1>5. QED
  BY <1>2, <1>3, <1>4

-----------------------------------------------------------------------------
\* A frame that differs in other fields has the same lists, objects and so on.
SameLists(F, G) ==
  /\ Es(G) = Es(F) /\ Cs(G) = Cs(F)
  /\ \A k : Making(G, k) = Making(F, k) /\ Modular(G, k) = Modular(F, k)
            /\ Seeking(G, k) = Seeking(F, k)
  /\ \A I : Names(G, I) = Names(F, I)
  /\ \A I, n : Called(G, I, n) = Called(F, I, n)

LEMMA SameConfig ==
  ASSUME NEW F, NEW G, G.config = F.config
  PROVE  SameLists(F, G)
<1>1. Es(G) = Es(F) /\ Cs(G) = Cs(F)
  BY DEF Es, Cs, Listed
<1>2. \A k : Making(G, k) = Making(F, k) /\ Modular(G, k) = Modular(F, k)
             /\ Seeking(G, k) = Seeking(F, k)
  BY <1>1 DEF Making, Modular, Seeking
<1>3. \A I : Names(G, I) = Names(F, I)
  BY <1>1 DEF Names
<1>4. \A I, n : Called(G, I, n) = Called(F, I, n)
  BY <1>1 DEF Called
<1>5. QED
  BY <1>1, <1>2, <1>3, <1>4 DEF SameLists

LEMMA ObjectsKept ==
  ASSUME NEW F, NEW G, ObjectsOK(F), SameLists(F, G), G.objects = F.objects, MadeTo(G) = MadeTo(F)
  PROVE  ObjectsOK(G)
BY DEF ObjectsOK, SameLists

LEMMA ModulesKept ==
  ASSUME NEW F, NEW G, ModulesOK(F), SameLists(F, G), G.modules = F.modules,
         MadeTo(G) = MadeTo(F), SoughtTo(G) = SoughtTo(F)
  PROVE  ModulesOK(G)
BY DEF ModulesOK, SameLists

LEMMA SameNulls ==
  ASSUME NEW F, NEW G, G.modules = F.modules, NEW end
  PROVE  ThroughNull(G, end) <=> ThroughNull(F, end)
BY DEF ThroughNull

LEMMA SamePorts ==
  ASSUME NEW F, NEW G, G.modules = F.modules, G.objects = F.objects, NEW end
  PROVE  MakesPort(G, end) <=> MakesPort(F, end)
BY DEF MakesPort

LEMMA PortsKept ==
  ASSUME NEW F, NEW G, PortsOK(F), SameLists(F, G), G.modules = F.modules,
         G.objects = F.objects, G.downstream = F.downstream, G.upstream = F.upstream,
         F.phase \in {"connect", "end"}
  PROVE  PortsOK(G)
<1>1. Cs(G) = Cs(F)
  BY DEF SameLists
<1>2. \A end : (ThroughNull(G, end) <=> ThroughNull(F, end))
               /\ (MakesPort(G, end) <=> MakesPort(F, end))
  BY SameNulls, SamePorts
<1>3. {c.src : c \in {x \in ToSet(Cs(G)) : MakesPort(G, x.src)}}
        = {c.src : c \in {x \in ToSet(Cs(F)) : MakesPort(F, x.src)}}
  BY <1>1, <1>2
<1>4. {c.dst : c \in {x \in ToSet(Cs(G)) : MakesPort(G, x.dst)}}
        = {c.dst : c \in {x \in ToSet(Cs(F)) : MakesPort(F, x.dst)}}
  BY <1>1, <1>2
<1>5. QED
  BY <1>1, <1>2, <1>3, <1>4 DEF PortsOK

LEMMA NoPorts ==
  ASSUME NEW G, G.phase \notin {"connect", "end"}
  PROVE  PortsOK(G)
BY DEF PortsOK

\* Nothing is joined before the connections.
LEMMA NoPairs ==
  ASSUME NEW F, JoinedOK(F), JoinedTo(F) = 0
  PROVE  IsList(F.pairs) /\ ToSet(F.pairs) = {}
<1>1. {Cs(F)[i] : i \in 1 .. JoinedTo(F)} = {}
  OBVIOUS
<1>2. Links(F) = {}
  BY <1>1 DEF JoinedOK
<1>3. ToSet(F.pairs) = {}
  <2>1. SUFFICES ASSUME NEW p \in ToSet(F.pairs) PROVE FALSE
    OBVIOUS
  <2>2. <<F.downstream[p.src], F.upstream[p.dst]>> \in Links(F)
    BY DEF Links
  <2>3. QED
    BY <1>2, <2>2
<1>4. QED
  BY <1>3 DEF JoinedOK

LEMMA NothingJoined ==
  ASSUME NEW G, IsList(G.pairs), ToSet(G.pairs) = {}, JoinedTo(G) = 0
  PROVE  JoinedOK(G)
<1>1. {Cs(G)[i] : i \in 1 .. JoinedTo(G)} = {}
  OBVIOUS
<1>2. Links(G) = {}
  BY DEF Links
<1>3. QED
  BY <1>1, <1>2 DEF JoinedOK

LEMMA SameEnds ==
  ASSUME NEW F, NEW G, G.modules = F.modules, G.objects = F.objects,
         G.downstream = F.downstream, G.upstream = F.upstream, NEW c
  PROVE  Linked(G, c) = Linked(F, c) /\ (NoNull(G, c) <=> NoNull(F, c))
BY SameNulls DEF Linked, NoNull, HasSource

LEMMA JoinedKept ==
  ASSUME NEW F, NEW G, JoinedOK(F), SameLists(F, G), G.modules = F.modules,
         G.objects = F.objects, G.downstream = F.downstream, G.upstream = F.upstream,
         G.pairs = F.pairs, JoinedTo(G) = JoinedTo(F)
  PROVE  JoinedOK(G)
<1> DEFINE joined(H) == {Cs(H)[i] : i \in 1 .. JoinedTo(H)}
<1>1. joined(G) = joined(F)
  BY DEF SameLists
<1>2. Links(G) = Links(F)
  BY DEF Links
<1>3. \A c : Linked(G, c) = Linked(F, c) /\ (NoNull(G, c) <=> NoNull(F, c))
  BY SameEnds
<1>4. UNION {Linked(G, c) : c \in joined(G)} = UNION {Linked(F, c) : c \in joined(F)}
  <2> HIDE DEF joined
  <2>1. QED
    BY <1>1, <1>3
<1>5. /\ IsList(F.pairs)
      /\ \A p \in ToSet(F.pairs) : p.src \in DOMAIN F.downstream /\ p.dst \in DOMAIN F.upstream
      /\ Links(F) = UNION {Linked(F, c) : c \in joined(F)}
      /\ \A c \in joined(F) : NoNull(F, c)
  BY DEF JoinedOK
<1>6. /\ IsList(G.pairs)
      /\ \A p \in ToSet(G.pairs) : p.src \in DOMAIN G.downstream /\ p.dst \in DOMAIN G.upstream
      /\ Links(G) = UNION {Linked(G, c) : c \in joined(G)}
      /\ \A c \in joined(G) : NoNull(G, c)
  <2> HIDE DEF joined
  <2>1. QED
    BY <1>1, <1>2, <1>3, <1>4, <1>5
<1>7. QED
  BY <1>6, Zenon DEF JoinedOK

-----------------------------------------------------------------------------
\* The steps of one frame.  First loading.
LEMMA CallOK ==
  ASSUME NEW f \in Files
  PROVE  FrameOK(Call(f)) /\ Call(f).opened[1] = f /\ ~ Call(f).by_main
         /\ Call(f).phase = "load"
<1>1. PICK G : G = Call(f)
  OBVIOUS
<1>2. /\ DOMAIN G = Fields /\ G.opened = <<f>> /\ ~ G.by_main /\ G.config = EmptyFunction
      /\ G.phase = "load" /\ G.next = 1 /\ G.objects = EmptyFunction
      /\ G.modules = EmptyFunction /\ G.pairs = <<>> /\ G.loading = <<Opening(f, TRUE)>>
  BY <1>1 DEF Call, Fields
<1>3. Shaped(G)
  <2>1. Loading(<<Opening(f, TRUE)>>, <<f>>)
    BY DEF Loading, Opening, Openings
  <2>2. QED
    BY <1>2, <2>1 DEF Shaped, Chained, Phases
<1>4. MadeTo(G) = 0 /\ SoughtTo(G) = 0 /\ JoinedTo(G) = 0
  BY <1>2 DEF MadeTo, SoughtTo, JoinedTo
<1>5. /\ DOMAIN G.objects = {} /\ DOMAIN G.modules = {}
      /\ Making(G, 0) = {} /\ Modular(G, 0) = {} /\ Seeking(G, 0) = {}
  BY <1>2 DEF EmptyFunction, Making, Modular, Seeking
<1>6. ObjectsOK(G)
  BY <1>4, <1>5 DEF ObjectsOK, Names
<1>7. ModulesOK(G)
  BY <1>4, <1>5 DEF ModulesOK, Names
<1>8. PortsOK(G)
  BY <1>2, NoPorts
<1>9. JoinedOK(G)
  BY <1>2, <1>4, EmptyList, NothingJoined
<1>10. QED
  BY <1>1, <1>2, <1>3, <1>6, <1>7, <1>8, <1>9 DEF FrameOK

\* What a frame has before it creates anything.
Fresh(F) == DOMAIN F.objects = {} /\ DOMAIN F.modules = {} /\ IsList(F.pairs) /\ ToSet(F.pairs) = {}

LEMMA LoadingIsFresh ==
  ASSUME NEW F, FrameOK(F), F.phase = "load"
  PROVE  Fresh(F)
<1>1. MadeTo(F) = 0 /\ SoughtTo(F) = 0 /\ JoinedTo(F) = 0
  BY DEF MadeTo, SoughtTo, JoinedTo
<1>2. Making(F, 0) = {} /\ Modular(F, 0) = {} /\ Seeking(F, 0) = {}
  BY DEF Making, Modular, Seeking
<1>3. DOMAIN F.objects = {}
  BY <1>1, <1>2 DEF FrameOK, ObjectsOK, Names
<1>4. DOMAIN F.modules = {}
  BY <1>1, <1>2 DEF FrameOK, ModulesOK, Names
<1>5. IsList(F.pairs) /\ ToSet(F.pairs) = {}
  BY <1>1, NoPairs DEF FrameOK
<1>6. QED
  BY <1>3, <1>4, <1>5 DEF Fresh

LEMMA FreshOK ==
  ASSUME NEW G, Shaped(G), Fresh(G), MadeTo(G) = 0, SoughtTo(G) = 0, JoinedTo(G) = 0,
         G.phase \notin {"connect", "end"}
  PROVE  FrameOK(G)
<1>1. Making(G, 0) = {} /\ Modular(G, 0) = {} /\ Seeking(G, 0) = {}
  BY DEF Making, Modular, Seeking
<1>2. ObjectsOK(G)
  BY <1>1 DEF ObjectsOK, Names, Fresh
<1>3. ModulesOK(G)
  BY <1>1 DEF ModulesOK, Names, Fresh
<1>4. PortsOK(G) /\ JoinedOK(G)
  BY NoPorts, NothingJoined DEF Fresh
<1>5. QED
  BY <1>2, <1>3, <1>4 DEF FrameOK

\* The includes of a file are files.
LEMMA IncludesListed ==
  ASSUME files \in FileSystems, NEW f \in Files
  PROVE  /\ Includes(f) \in Seq(Files)
         /\ files[f].kind # "object" => Includes(f) = <<>>
<1>1. CASE files[f].kind = "object"
  <2>1. files[f].include \in Files \cup {None} /\ files[f].nested \in Seq(Files)
    BY <1>1, Format
  <2>2. (IF Included(f) = None THEN <<>> ELSE <<Included(f)>>) \in Seq(Files)
    BY <2>1 DEF Included
  <2>3. QED
    BY <1>1, <2>1, <2>2 DEF Includes
<1>2. CASE files[f].kind # "object"
  BY <1>2 DEF Includes
<1>3. QED
  BY <1>1, <1>2

\* What a file includes, it uses.
LEMMA IncludesAre ==
  ASSUME files \in FileSystems, NEW f \in Files, NEW n \in 1 .. Len(Includes(f))
  PROVE  /\ files[f].kind = "object"
         /\ Includes(f)[n] \in Files /\ Includes(f)[n] \in Uses(f)
         /\ n = 1 /\ Included(f) # None => Includes(f)[n] = files[f].include
<1>1. files[f].kind = "object"
  <2>1. ASSUME Includes(f) = <<>> PROVE FALSE
    BY <2>1
  <2>2. QED
    BY <2>1, IncludesListed
<1>2. files[f].include \in Files \cup {None} /\ files[f].nested \in Seq(Files)
  BY <1>1, Format
<1>3. PICK a, b : /\ a = IF Included(f) = None THEN <<>> ELSE <<Included(f)>>
                  /\ b = files[f].nested
  OBVIOUS
<1>4. Includes(f) = a \o b
  BY <1>1, <1>3 DEF Includes
<1>5. a \in Seq(Files) /\ b \in Seq(Files)
  BY <1>2, <1>3 DEF Included
<1>6. /\ Len(a \o b) = Len(a) + Len(b) /\ Len(a) \in Nat /\ Len(b) \in Nat
      /\ \A i \in 1 .. Len(a) + Len(b) :
           (a \o b)[i] = IF i <= Len(a) THEN a[i] ELSE b[i - Len(a)]
  BY <1>5
<1>7. n \in 1 .. Len(a) + Len(b)
  BY <1>4, <1>6
<1>8. CASE n <= Len(a)
  <2>1. Included(f) # None /\ n = 1 /\ a[n] = Included(f) /\ Includes(f)[n] = a[n]
    BY <1>3, <1>4, <1>6, <1>7, <1>8
  <2>2. QED
    BY <1>1, <1>2, <2>1 DEF Included, Uses
<1>9. CASE ~ (n <= Len(a))
  <2>1. n - Len(a) \in 1 .. Len(b) /\ Includes(f)[n] = b[n - Len(a)]
    BY <1>4, <1>6, <1>7, <1>9
  <2>2. b[n - Len(a)] \in ToSet(b) /\ b[n - Len(a)] \in Files
    BY <1>5, <2>1 DEF ToSet
  <2>3. Included(f) # None => Len(a) = 1
    BY <1>3
  <2>4. ~ (n = 1 /\ Included(f) # None)
    <3>1. ASSUME n = 1, Len(a) = 1 PROVE FALSE
      BY <1>9, <3>1
    <3>2. QED
      BY <2>3, <3>1, Zenon
  <2>5. ToSet(b) \subseteq Uses(f)
    BY <1>1, <1>3 DEF Uses
  <2>6. QED
    BY <1>1, <2>1, <2>2, <2>4, <2>5
<1>10. QED
  BY <1>8, <1>9

\* All but the last of the files being loaded.
LEMMA OpenFront ==
  ASSUME NEW l \in Seq(Openings), l # <<>>
  PROVE  /\ Len(l) \in Nat \ {0} /\ Last(l) = l[Len(l)]
         /\ Front(l) \in Seq(Openings) /\ Len(Front(l)) = Len(l) - 1
         /\ \A i \in 1 .. Len(l) - 1 : Front(l)[i] = l[i]
<1>1. Len(l) \in Nat \ {0} /\ Last(l) = l[Len(l)]
  BY DEF Last
<1>2. PICK n : n = Len(l) - 1 /\ n \in Nat
  BY <1>1
<1>3. Front(l) = SubSeq(l, 1, n)
  BY <1>2 DEF Front
<1>4. SubSeq(l, 1, n) \in Seq(Openings) /\ Len(SubSeq(l, 1, n)) = n
      /\ \A i \in 1 .. n : SubSeq(l, 1, n)[i] = l[i]
  BY <1>1, <1>2
<1>5. QED
  BY <1>1, <1>2, <1>3, <1>4

\* The last open file goes on to its next include.
OneOn(e) == [e EXCEPT !.next = @ + 1]
Entered(l, e, f, top) == Append(Append(Front(l), OneOn(e)), Opening(f, top))
Enters(l, o, e, f, top, q) ==
  /\ Loading(l, o) /\ Chained(o)
  /\ e = Last(l) /\ e.next <= Len(Includes(e.file))
  /\ f = Includes(e.file)[e.next]
  /\ top = (e.top /\ e.next = 1 /\ Included(e.file) # None)
  /\ q = IF top THEN Append(o, f) ELSE o
LEMMA NextInclude ==
  ASSUME files \in FileSystems, NEW l, NEW o, NEW e, NEW f, NEW top, NEW q,
         Enters(l, o, e, f, top, q)
  PROVE  /\ Loading(Entered(l, e, f, top), q)
         /\ Chained(q) /\ q[1] = o[1]
<1>0. /\ Loading(l, o) /\ Chained(o)
      /\ e = Last(l) /\ e.next <= Len(Includes(e.file))
      /\ f = Includes(e.file)[e.next]
      /\ top = (e.top /\ e.next = 1 /\ Included(e.file) # None)
      /\ q = IF top THEN Append(o, f) ELSE o
  BY DEF Enters
<1>1. PICK n, k, j : n = Len(l) /\ k = OneOn(e) /\ j = Opening(f, top)
  OBVIOUS
<1>2. /\ n \in Nat \ {0} /\ e = l[n] /\ e \in Openings
      /\ Front(l) \in Seq(Openings) /\ Len(Front(l)) = n - 1
      /\ \A i \in 1 .. n - 1 : Front(l)[i] = l[i]
  <2>1. l \in Seq(Openings) /\ l # <<>>
    BY <1>0 DEF Loading
  <2>2. QED
    BY <1>0, <1>1, <2>1, OpenFront
<1>3. /\ e.file \in Files /\ e.next \in Nat /\ e.next > 0
      /\ (e.top /\ e.next = 1 => e.file = o[Len(o)])
  BY <1>0, <1>1, <1>2 DEF Loading, Openings
<1>4. /\ files[e.file].kind = "object" /\ f \in Files /\ f \in Uses(e.file)
      /\ e.next = 1 /\ Included(e.file) # None => f = files[e.file].include
  <2>1. Len(Includes(e.file)) \in Nat
    BY <1>0, <1>3, IncludesListed
  <2>2. e.next \in 1 .. Len(Includes(e.file))
    BY <1>0, <1>3, <2>1
  <2>3. QED
    BY <1>0, <1>3, <2>2, IncludesAre
<1>5. k \in Openings /\ k.file = e.file /\ k.next > 1
  <2>1. k = [e EXCEPT !.next = @ + 1] /\ e \in Openings /\ e.next \in Nat /\ e.next > 0
    BY <1>1, <1>2, <1>3 DEF OneOn
  <2>2. QED
    BY ONLY <2>1 DEF Openings
<1>6. j \in Openings /\ j.file = f /\ j.next = 1 /\ (j.top <=> top)
  BY <1>0, <1>1, <1>4 DEF Opening, Openings
<1>7. o \in Seq(Files) /\ Len(o) \in Nat \ {0}
  BY <1>0 DEF Chained
<1>8. PICK m : m = Append(Append(Front(l), k), j)
  OBVIOUS
<1>9. /\ m \in Seq(Openings) /\ m # <<>> /\ Len(m) = n + 1 /\ m[n + 1] = j /\ m[n] = k
      /\ \A i \in 1 .. n - 1 : m[i] = l[i]
  <2>1. PICK g : g = Append(Front(l), k)
    OBVIOUS
  <2>2. g \in Seq(Openings) /\ Len(g) = n /\ g[n] = k /\ \A i \in 1 .. n - 1 : g[i] = l[i]
    BY <1>0, <1>2, <1>5, <2>1
  <2>3. m = Append(g, j)
    BY <1>0, <1>8, <2>1
  <2>4. QED
    BY <1>0, <1>2, <1>6, <2>2, <2>3
<1>10. Chained(q) /\ q[1] = o[1] /\ (top => f = q[Len(q)])
  <2>1. CASE top
    <3>1. /\ q \in Seq(Files) /\ Len(q) = Len(o) + 1 /\ q[Len(o) + 1] = f
          /\ \A i \in 1 .. Len(o) : q[i] = o[i]
      BY <1>0, <1>4, <1>7, <2>1
    <3>2. f = files[o[Len(o)]].include /\ files[o[Len(o)]].kind = "object"
      BY <1>0, <1>3, <1>4, <2>1
    <3>3. ASSUME NEW i \in 1 .. Len(o)
          PROVE  files[q[i]].kind = "object" /\ q[i + 1] = files[q[i]].include
      <4>1. CASE i = Len(o)
        BY <1>0, <3>1, <3>2, <4>1
      <4>2. CASE i # Len(o)
        <5>1. i \in 1 .. Len(o) - 1 /\ i + 1 \in 1 .. Len(o)
          BY <1>0, <1>7, <4>2
        <5>2. QED
          BY <1>0, <3>1, <5>1 DEF Chained
      <4>3. QED
        BY <1>0, <4>1, <4>2
    <3>4. Len(q) - 1 = Len(o) /\ q # <<>> /\ q[1] = o[1] /\ f = q[Len(q)]
      BY <1>0, <1>7, <3>1
    <3>5. Chained(q)
      BY <1>0, <3>1, <3>3, <3>4 DEF Chained
    <3>6. QED
      BY <1>0, <3>4, <3>5
  <2>2. CASE ~ top
    BY <1>0, <2>2
  <2>3. QED
    BY <1>0, <2>1, <2>2
<1>11. ASSUME NEW i \in 1 .. n PROVE m[i].next > 1 /\ m[i + 1].file \in Uses(m[i].file)
  <2>1. CASE i = n
    BY <1>0, <1>4, <1>5, <1>6, <1>9, <2>1
  <2>2. CASE i = n - 1
    <3>1. i \in 1 .. n - 1 /\ i + 1 = n
      BY <1>0, <1>2, <2>2
    <3>2. l[i].next > 1 /\ e.file \in Uses(l[i].file)
      BY <1>0, <1>1, <1>2, <3>1 DEF Loading
    <3>3. QED
      BY <1>0, <1>5, <1>9, <3>1, <3>2
  <2>3. CASE i # n /\ i # n - 1
    <3>1. i \in 1 .. n - 1 /\ i + 1 \in 1 .. n - 1
      BY <1>0, <1>2, <2>3
    <3>2. l[i].next > 1 /\ l[i + 1].file \in Uses(l[i].file)
      BY <1>0, <1>1, <3>1 DEF Loading
    <3>3. QED
      BY <1>0, <1>9, <3>1, <3>2
  <2>4. QED
    BY <1>0, <2>1, <2>2, <2>3
<1>12. Len(m) - 1 = n
  BY <1>0, <1>2, <1>9
<1>13. Loading(m, q)
  BY <1>0, <1>6, <1>9, <1>10, <1>11, <1>12 DEF Loading
<1>14. QED
  BY <1>0, <1>1, <1>8, <1>10, <1>13 DEF Entered

\* The last open file is merged into the one before.
LEMMA NoMoreIncludes ==
  ASSUME NEW l, NEW o, Loading(l, o), Len(l) > 1
  PROVE  Loading(Front(l), o)
<1>1. PICK n, m : n = Len(l) /\ m = Front(l)
  OBVIOUS
<1>2. l \in Seq(Openings) /\ l # <<>>
  BY DEF Loading
<1>3. /\ n \in Nat /\ n > 1 /\ m \in Seq(Openings) /\ Len(m) = n - 1
      /\ \A i \in 1 .. n - 1 : m[i] = l[i]
  BY <1>1, <1>2, OpenFront
<1>4. \A i \in 1 .. n - 1 : l[i].next > 1 /\ l[i + 1].file \in Uses(l[i].file)
  BY <1>1 DEF Loading
<1>5. ASSUME NEW i \in 1 .. Len(m) - 1
      PROVE  m[i].next > 1 /\ m[i + 1].file \in Uses(m[i].file)
  <2>1. i \in 1 .. n - 1 /\ i + 1 \in 1 .. n - 1
    BY <1>3
  <2>2. QED
    BY <1>3, <1>4, <2>1
<1>6. m[Len(m)].next > 1 /\ m # <<>> /\ m[Len(m)] \in Openings
  <2>1. n - 1 \in 1 .. n - 1
    BY <1>3
  <2>2. QED
    BY <1>3, <1>4, <2>1
<1>7. m[Len(m)].next > 0 /\ m[Len(m)].next # 1
  BY <1>6 DEF Openings
<1>8. QED
  BY <1>1, <1>3, <1>5, <1>6, <1>7 DEF Loading

\* A frame that goes on loading.
LoadsTo(F, l, q) == [F EXCEPT !.loading = l, !.opened = q]
LEMMA LoadsOn ==
  ASSUME NEW F, FrameOK(F), F.phase = "load",
         NEW l, NEW q, Loading(l, q), Chained(q), q[1] = F.opened[1],
         NEW G, G = LoadsTo(F, l, q)
  PROVE  FrameOK(G) /\ G.opened[1] = F.opened[1] /\ G.by_main = F.by_main
<1>1. DOMAIN F = Fields /\ Shaped(F)
  BY DEF FrameOK, Shaped
<1>2. /\ DOMAIN G = Fields /\ G.opened = q /\ G.loading = l /\ G.by_main = F.by_main
      /\ G.config = F.config /\ G.phase = "load" /\ G.next = F.next
      /\ G.objects = F.objects /\ G.modules = F.modules /\ G.pairs = F.pairs
  BY <1>1 DEF Fields, LoadsTo
<1>3. Shaped(G)
  BY <1>1, <1>2 DEF Shaped
<1>4. Fresh(G)
  BY <1>2, LoadingIsFresh DEF Fresh
<1>5. FrameOK(G)
  BY <1>2, <1>3, <1>4, FreshOK DEF MadeTo, SoughtTo, JoinedTo
<1>6. QED
  BY <1>2, <1>5

LEMMA LoadedOK ==
  ASSUME files \in FileSystems, NEW F, FrameOK(F), F.phase = "load",
         NEW G, G = [F EXCEPT !.config = Merged(F.opened), !.loading = <<>>, !.phase = "create"]
  PROVE  FrameOK(G) /\ G.opened[1] = F.opened[1] /\ G.by_main = F.by_main
<1>1. DOMAIN F = Fields /\ F.opened \in Seq(Files) /\ F.next = 1 /\ Shaped(F)
  BY DEF FrameOK, Shaped, Chained
<1>2. /\ DOMAIN G = Fields /\ G.opened = F.opened /\ G.by_main = F.by_main
      /\ G.config = Merged(F.opened)
      /\ G.phase = "create" /\ G.next = F.next /\ G.objects = F.objects
      /\ G.modules = F.modules /\ G.pairs = F.pairs
  BY <1>1 DEF Fields
<1>3. G.config = Combined(KeysOf(G.opened), DOMAIN G.opened)
  BY <1>1, <1>2, MergedIs
<1>4. Len(Es(G)) \in Nat
  <2>1. Shaped([G EXCEPT !.phase = "ports"])
    <3>1. PICK H : H = [G EXCEPT !.phase = "ports"]
      OBVIOUS
    <3>2. /\ DOMAIN H = Fields /\ H.opened = G.opened /\ H.config = G.config
          /\ H.phase = "ports" /\ H.next = G.next
      BY <1>2, <3>1 DEF Fields
    <3>3. QED
      BY <1>1, <1>2, <1>3, <3>1, <3>2 DEF Shaped, Phases
  <2>2. PICK H : H = [G EXCEPT !.phase = "ports"]
    OBVIOUS
  <2>3. EntriesOK(H)
    BY <2>1, <2>2, ListsTyped
  <2>4. H.config = G.config
    BY <1>2, <2>2 DEF Fields
  <2>5. Es(H) = Es(G)
    BY <2>4 DEF Es, Listed
  <2>6. QED
    BY <2>3, <2>5, ListFacts DEF EntriesOK
<1>5. Shaped(G)
  BY <1>1, <1>2, <1>3, <1>4 DEF Shaped, Phases
<1>6. Fresh(G)
  BY <1>2, LoadingIsFresh DEF Fresh
<1>7. MadeTo(G) = 0 /\ SoughtTo(G) = 0 /\ JoinedTo(G) = 0
  BY <1>1, <1>2 DEF MadeTo, SoughtTo, JoinedTo
<1>8. QED
  BY <1>2, <1>5, <1>6, <1>7, FreshOK

-----------------------------------------------------------------------------
\* Creating an object: one more entry.
LEMMA OneMore ==
  ASSUME NEW F, NEW k \in Nat, NEW e, e = Es(F)[k + 1]
  PROVE  /\ Making(F, k + 1) = Making(F, k) \cup
              (IF Complete(e) /\ e.type \in Registered THEN {k + 1} ELSE {})
         /\ Modular(F, k + 1) = Modular(F, k) \cup
              (IF Complete(e) /\ e.type \in module_registry THEN {k + 1} ELSE {})
         /\ Seeking(F, k + 1) = Seeking(F, k) \cup
              (IF e.config # None THEN {k + 1} ELSE {})
<1>1. \A i : i \in 1 .. k + 1 <=> i \in 1 .. k \/ i = k + 1
  OBVIOUS
<1>2. Making(F, k + 1) = Making(F, k) \cup
        (IF Complete(e) /\ e.type \in Registered THEN {k + 1} ELSE {})
  BY <1>1 DEF Making
<1>3. Modular(F, k + 1) = Modular(F, k) \cup
        (IF Complete(e) /\ e.type \in module_registry THEN {k + 1} ELSE {})
  BY <1>1 DEF Modular
<1>4. Seeking(F, k + 1) = Seeking(F, k) \cup (IF e.config # None THEN {k + 1} ELSE {})
  BY <1>1 DEF Seeking
<1>5. QED
  BY <1>2, <1>3, <1>4

\* The objects after entry k + 1.
ObjectsAt(F, objects, k) ==
  /\ DOMAIN objects = Names(F, Making(F, k))
  /\ \A n \in DOMAIN objects : objects[n] = Es(F)[Max(Called(F, Making(F, k), n))].type
  /\ \A i \in 1 .. k :
       Es(F)[i].layout /\ Complete(Es(F)[i]) => Es(F)[i].name \in Names(F, Making(F, i))

LEMMA ObjectsAreAt ==
  ASSUME NEW F
  PROVE  ObjectsOK(F) <=> ObjectsAt(F, F.objects, MadeTo(F))
BY DEF ObjectsOK, ObjectsAt

LEMMA NoObjectMore ==
  ASSUME NEW F, NEW k \in Nat, NEW objects, ObjectsAt(F, objects, k),
         Making(F, k + 1) = Making(F, k),
         LET e == Es(F)[k + 1]
         IN  e.layout /\ Complete(e) => e.name \in DOMAIN objects
  PROVE  ObjectsAt(F, objects, k + 1)
<1>1. \A i : i \in 1 .. k + 1 <=> i \in 1 .. k \/ i = k + 1
  OBVIOUS
<1>2. \A i \in 1 .. k :
        Es(F)[i].layout /\ Complete(Es(F)[i]) => Es(F)[i].name \in Names(F, Making(F, i))
  BY DEF ObjectsAt
<1>3. Es(F)[k + 1].layout /\ Complete(Es(F)[k + 1])
        => Es(F)[k + 1].name \in Names(F, Making(F, k + 1))
  BY DEF ObjectsAt
<1>4. \A i \in 1 .. k + 1 :
        Es(F)[i].layout /\ Complete(Es(F)[i]) => Es(F)[i].name \in Names(F, Making(F, i))
  BY <1>1, <1>2, <1>3
<1>5. /\ DOMAIN objects = Names(F, Making(F, k + 1))
      /\ \A n \in DOMAIN objects : objects[n] = Es(F)[Max(Called(F, Making(F, k + 1), n))].type
  BY DEF ObjectsAt
<1>6. QED
  BY <1>4, <1>5 DEF ObjectsAt

LEMMA OneObjectMore ==
  ASSUME NEW F, NEW k \in Nat, NEW objects, ObjectsAt(F, objects, k),
         NEW e, e = Es(F)[k + 1],
         Making(F, k + 1) = Making(F, k) \cup {k + 1}
  PROVE  ObjectsAt(F, Put(objects, e.name, e.type), k + 1)
<1> DEFINE M == Making(F, k)
           N == M \cup {k + 1}
           p == Put(objects, e.name, e.type)
<1>1. M \in SUBSET (1 .. k)
  BY DEF Making
<1>2. Making(F, k + 1) = N
  OBVIOUS
<1> HIDE DEF M
<1>3. DOMAIN objects = Names(F, M)
      /\ \A n \in DOMAIN objects : objects[n] = Es(F)[Max(Called(F, M, n))].type
  BY DEF ObjectsAt, M
<1>4. /\ DOMAIN p = Names(F, M) \cup {e.name}
      /\ p[e.name] = e.type
      /\ \A n \in Names(F, M) \ {e.name} : p[n] = objects[n]
  BY <1>3 DEF Put
<1>5. Names(F, N) = Names(F, M) \cup {e.name}
  BY DEF Names
<1>6. Max(Called(F, N, e.name)) = k + 1
  <2>1. PICK C : C = Called(F, N, e.name)
    OBVIOUS
  <2>2. k + 1 \in C
    BY <2>1 DEF Called
  <2>3. C \in SUBSET (0 .. k + 1)
    <3>1. \A i \in 1 .. k : i \in 0 .. k + 1
      OBVIOUS
    <3>2. \A i \in N : i \in 0 .. k + 1
      BY <1>1, <3>1
    <3> HIDE DEF N
    <3>3. QED
      BY <2>1, <3>2 DEF Called
  <2>4. Max(C) \in C /\ \A i \in C : i <= Max(C)
    <3>1. k + 1 \in Nat /\ C # {}
      BY <2>2
    <3>2. QED
      BY <2>3, <3>1, GreatestNumber
  <2>5. PICK m : m = Max(C)
    OBVIOUS
  <2>6. m \in 0 .. k + 1 /\ k + 1 <= m
    BY <2>2, <2>3, <2>4, <2>5
  <2>7. QED
    BY <2>1, <2>5, <2>6
<1>7. \A n : n # e.name => Called(F, N, n) = Called(F, M, n)
  BY DEF Called
<1> HIDE DEF p, N
<1>8. \A n \in DOMAIN p : p[n] = Es(F)[Max(Called(F, N, n))].type
  <2> SUFFICES ASSUME NEW n \in DOMAIN p PROVE p[n] = Es(F)[Max(Called(F, N, n))].type
    OBVIOUS
  <2>1. CASE n = e.name
    BY <1>4, <1>6, <2>1
  <2>2. CASE n # e.name
    BY <1>3, <1>4, <1>7, <2>2
  <2>3. QED
    BY <2>1, <2>2
<1>9. \A i \in 1 .. k :
        Es(F)[i].layout /\ Complete(Es(F)[i]) => Es(F)[i].name \in Names(F, Making(F, i))
  BY DEF ObjectsAt
<1>10. Es(F)[k + 1].name \in Names(F, Making(F, k + 1))
  BY <1>2, <1>5
<1>11. \A i \in 1 .. k + 1 :
        Es(F)[i].layout /\ Complete(Es(F)[i]) => Es(F)[i].name \in Names(F, Making(F, i))
  <2>1. \A i : i \in 1 .. k + 1 <=> i \in 1 .. k \/ i = k + 1
    OBVIOUS
  <2>2. QED
    BY <1>9, <1>10, <2>1
<1>12. DOMAIN p = Names(F, N)
  BY <1>4, <1>5
<1>13. ObjectsAt(F, p, k + 1)
  BY <1>2, <1>8, <1>11, <1>12 DEF ObjectsAt
<1>14. QED
  BY <1>13 DEF p

ModulesAt(F, modules, k, m) ==
  LET modular == Names(F, Modular(F, k))
      sought == Seeking(F, m)
  IN  /\ DOMAIN modules = modular \cup Names(F, sought)
      /\ \A n \in DOMAIN modules : modules[n] = (n \in modular)
      /\ \A i \in sought :
           /\ Es(F)[i].name # None
           /\ Es(F)[i].name \in modular => files[Es(F)[i].config].kind # "object"

LEMMA ModulesAreAt ==
  ASSUME NEW F
  PROVE  ModulesOK(F) <=> ModulesAt(F, F.modules, MadeTo(F), SoughtTo(F))
BY DEF ModulesOK, ModulesAt

LEMMA NothingSought ==
  ASSUME NEW F
  PROVE  Seeking(F, 0) = {} /\ Names(F, Seeking(F, 0)) = {}
BY DEF Seeking, Names

LEMMA NoModuleMore ==
  ASSUME NEW F, NEW k \in Nat, NEW modules, ModulesAt(F, modules, k, 0),
         Modular(F, k + 1) = Modular(F, k)
  PROVE  ModulesAt(F, modules, k + 1, 0)
BY DEF ModulesAt

LEMMA OneModuleMore ==
  ASSUME NEW F, NEW k \in Nat, NEW modules, ModulesAt(F, modules, k, 0),
         NEW e, e = Es(F)[k + 1],
         Modular(F, k + 1) = Modular(F, k) \cup {k + 1}
  PROVE  ModulesAt(F, Put(modules, e.name, TRUE), k + 1, 0)
<1>1. PICK M, p : M = Names(F, Modular(F, k)) /\ p = Put(modules, e.name, TRUE)
  OBVIOUS
<1>2. Names(F, Modular(F, k + 1)) = M \cup {e.name}
  BY <1>1 DEF Names
<1>3. DOMAIN modules = M /\ \A n \in DOMAIN modules : modules[n] = (n \in M)
  BY <1>1, NothingSought DEF ModulesAt
<1>4. DOMAIN p = M \cup {e.name} /\ \A n \in DOMAIN p : p[n] = TRUE
  BY <1>1, <1>3 DEF Put
<1>5. \A n \in DOMAIN p : p[n] = (n \in M \cup {e.name})
  BY <1>4
<1>6. QED
  BY <1>1, <1>2, <1>4, <1>5, NothingSought DEF ModulesAt

\* An entry is passed: the frame G has these objects and modules.
LEMMA PassedOK ==
  ASSUME NEW F, FrameOK(F), F.phase = "create", F.next <= Len(Es(F)),
         Len(Es(F)) \in Nat,
         NEW G, ObjectsAt(F, G.objects, F.next), ModulesAt(F, G.modules, F.next, 0),
         DOMAIN G = Fields, G.opened = F.opened, G.config = F.config,
         G.phase = "create", G.next = F.next + 1, G.pairs = F.pairs
  PROVE  FrameOK(G)
<1>1. SameLists(F, G)
  BY SameConfig
<1>2. Es(G) = Es(F) /\ F.next \in Nat \ {0}
  BY <1>1 DEF SameLists, FrameOK, Shaped
<1>3. Shaped(G)
  BY <1>2 DEF FrameOK, Shaped
<1>4. MadeTo(G) = F.next /\ SoughtTo(G) = 0 /\ JoinedTo(G) = 0 /\ JoinedTo(F) = 0
  BY <1>2 DEF MadeTo, SoughtTo, JoinedTo
<1>5. ObjectsAt(G, G.objects, F.next) /\ ModulesAt(G, G.modules, F.next, 0)
  BY <1>1 DEF SameLists, ObjectsAt, ModulesAt
<1>6. ObjectsOK(G) /\ ModulesOK(G)
  BY <1>4, <1>5, ObjectsAreAt, ModulesAreAt
<1>7. PortsOK(G) /\ JoinedOK(G)
  BY <1>4, NoPorts, NoPairs, NothingJoined DEF FrameOK
<1>8. QED
  BY <1>3, <1>6, <1>7 DEF FrameOK

LEMMA SkippedOK ==
  ASSUME files \in FileSystems, NEW F, FrameOK(F), F.phase = "create", F.next <= Len(Es(F)),
         NEW e, e = Es(F)[F.next], e.name = None \/ e.type = None,
         NEW G, G = [F EXCEPT !.next = @ + 1]
  PROVE  FrameOK(G) /\ G.opened[1] = F.opened[1] /\ G.by_main = F.by_main
<1>1. F.next \in Nat \ {0} /\ DOMAIN F = Fields /\ Shaped(F)
  BY DEF FrameOK, Shaped
<1>2. Len(Es(F)) \in Nat
  BY <1>1, ListsTyped, ListFacts DEF EntriesOK
<1>3. PICK k : k \in Nat /\ k = F.next - 1 /\ F.next = k + 1
  BY <1>1
<1>4. ~ Complete(e)
  BY DEF Complete
<1>5. Making(F, k + 1) = Making(F, k) /\ Modular(F, k + 1) = Modular(F, k)
  <2>1. /\ Making(F, k + 1) = Making(F, k) \cup
              (IF Complete(e) /\ e.type \in Registered THEN {k + 1} ELSE {})
        /\ Modular(F, k + 1) = Modular(F, k) \cup
              (IF Complete(e) /\ e.type \in module_registry THEN {k + 1} ELSE {})
    BY <1>3, OneMore
  <2>2. QED
    BY <1>4, <2>1
<1>6. MadeTo(F) = k /\ SoughtTo(F) = 0
  BY <1>3 DEF MadeTo, SoughtTo
<1>7. ObjectsAt(F, F.objects, k) /\ ModulesAt(F, F.modules, k, 0)
  BY <1>6, ObjectsAreAt, ModulesAreAt DEF FrameOK
<1>8. ObjectsAt(F, F.objects, F.next)
  BY <1>3, <1>4, <1>5, <1>7, NoObjectMore
<1>9. ModulesAt(F, F.modules, F.next, 0)
  BY <1>3, <1>5, <1>7, NoModuleMore
<1>10. /\ DOMAIN G = Fields /\ G.opened = F.opened /\ G.config = F.config
       /\ G.phase = "create" /\ G.next = F.next + 1 /\ G.objects = F.objects
       /\ G.modules = F.modules /\ G.pairs = F.pairs /\ G.by_main = F.by_main
  BY <1>1 DEF Fields
<1>11. FrameOK(G)
  BY <1>2, <1>8, <1>9, <1>10, PassedOK
<1>12. QED
  BY <1>10, <1>11

AfterCreating(F, e) ==
  [F EXCEPT !.objects = Created(e), !.modules = CreatedModules(e), !.next = @ + 1]

LEMMA CreatedOK ==
  ASSUME files \in FileSystems, NEW F, F = Top, FrameOK(F), F.phase = "create",
         F.next <= Len(Es(F)),
         NEW e, e = Es(F)[F.next], e.name # None, e.type # None,
         ~ (e.layout /\ e.name \notin DOMAIN Created(e)),
         NEW G, G = AfterCreating(F, e)
  PROVE  FrameOK(G) /\ G.opened[1] = F.opened[1] /\ G.by_main = F.by_main
<1>1. F.next \in Nat \ {0} /\ DOMAIN F = Fields /\ Shaped(F)
  BY DEF FrameOK, Shaped
<1>2. Len(Es(F)) \in Nat
  BY <1>1, ListsTyped, ListFacts DEF EntriesOK
<1>3. PICK k : k \in Nat /\ k = F.next - 1 /\ F.next = k + 1
  BY <1>1
<1>4. Complete(e) /\ e = Es(F)[k + 1]
  BY <1>3 DEF Complete
<1>5. MadeTo(F) = k /\ SoughtTo(F) = 0
  BY <1>3 DEF MadeTo, SoughtTo
<1>6. ObjectsAt(F, F.objects, k) /\ ModulesAt(F, F.modules, k, 0)
  BY <1>5, ObjectsAreAt, ModulesAreAt DEF FrameOK
<1> DEFINE IfMade == IF Complete(e) /\ e.type \in Registered THEN {k + 1} ELSE {}
           IfModule == IF Complete(e) /\ e.type \in module_registry THEN {k + 1} ELSE {}
<1>0. /\ Making(F, k + 1) = Making(F, k) \cup IfMade
      /\ Modular(F, k + 1) = Modular(F, k) \cup IfModule
  <2>1. k \in Nat /\ e = Es(F)[k + 1]
    BY <1>3, <1>4
  <2>2. QED
    BY ONLY <2>1, OneMore
<1>7. PICK o, m : o = Created(e) /\ m = CreatedModules(e)
  OBVIOUS
<1>8. ObjectsAt(F, o, k + 1)
  <2>1. CASE e.type \in Registered
    <3>1. o = Put(F.objects, e.name, e.type)
      BY <1>7, <2>1 DEF Created, Registered
    <3>2. Making(F, k + 1) = Making(F, k) \cup {k + 1}
      BY <1>0, <1>4, <2>1
    <3>3. QED
      BY <1>3, <1>4, <1>6, <3>1, <3>2, OneObjectMore
  <2>2. CASE e.type \notin Registered
    <3>1. o = F.objects
      BY <1>7, <2>2 DEF Created, Registered
    <3>2. Making(F, k + 1) = Making(F, k)
      BY <1>0, <2>2
    <3>3. e.layout => e.name \in DOMAIN F.objects
      BY <1>7, <3>1
    <3>4. QED
      BY <1>3, <1>4, <1>6, <3>1, <3>2, <3>3, NoObjectMore
  <2>3. QED
    BY <2>1, <2>2
<1>9. ModulesAt(F, m, k + 1, 0)
  <2>1. CASE e.type \in module_registry
    <3>1. m = Put(F.modules, e.name, TRUE)
      BY <1>7, <2>1 DEF CreatedModules
    <3>2. Modular(F, k + 1) = Modular(F, k) \cup {k + 1}
      BY <1>0, <1>4, <2>1
    <3>3. QED
      BY <1>3, <1>4, <1>6, <3>1, <3>2, OneModuleMore
  <2>2. CASE e.type \notin module_registry
    <3>1. m = F.modules
      BY <1>7, <2>2 DEF CreatedModules
    <3>2. Modular(F, k + 1) = Modular(F, k)
      BY <1>0, <2>2
    <3>3. QED
      BY <1>3, <1>6, <3>1, <3>2, NoModuleMore
  <2>3. QED
    BY <2>1, <2>2
<1>10. /\ DOMAIN G = Fields /\ G.opened = F.opened /\ G.config = F.config
       /\ G.phase = "create" /\ G.next = F.next + 1 /\ G.objects = o
       /\ G.modules = m /\ G.pairs = F.pairs /\ G.by_main = F.by_main
  BY <1>1, <1>7 DEF Fields, AfterCreating
<1>11. FrameOK(G)
  <2>1. ObjectsAt(F, G.objects, F.next) /\ ModulesAt(F, G.modules, F.next, 0)
    BY <1>3, <1>8, <1>9, <1>10
  <2>2. QED
    <3>1. FrameOK(F) /\ F.phase = "create" /\ F.next <= Len(Es(F)) /\ Len(Es(F)) \in Nat
      BY <1>2
    <3>2. ObjectsAt(F, G.objects, F.next) /\ ModulesAt(F, G.modules, F.next, 0)
      BY <2>1
    <3>3. DOMAIN G = Fields /\ G.opened = F.opened /\ G.config = F.config
      BY <1>10
    <3>4. G.phase = "create" /\ G.next = F.next + 1 /\ G.pairs = F.pairs
      BY <1>10
    <3>5. QED
      BY <3>1, <3>2, <3>3, <3>4, PassedOK
<1>12. QED
  BY <1>10, <1>11

-----------------------------------------------------------------------------
\* A phase that goes through a list has come to its end.
LEMMA NextPhaseOK ==
  ASSUME files \in FileSystems, NEW F, FrameOK(F), NEW ph \in DOMAIN Following, F.phase = ph,
         F.next > Len(Listed(F, ListOf[ph])),
         NEW G, G = [F EXCEPT !.phase = Following[ph], !.next = 1]
  PROVE  FrameOK(G) /\ G.opened[1] = F.opened[1] /\ G.by_main = F.by_main
<1>1. F.next \in Nat \ {0} /\ DOMAIN F = Fields /\ Shaped(F)
  BY DEF FrameOK, Shaped
<1>2. Len(Es(F)) \in Nat /\ Len(Cs(F)) \in Nat
  BY <1>1, ListsTyped, ListFacts DEF EntriesOK, ConnectionsOK
<1>3. /\ DOMAIN G = Fields /\ G.opened = F.opened /\ G.config = F.config
      /\ G.phase = Following[ph] /\ G.next = 1 /\ G.objects = F.objects /\ G.by_main = F.by_main
      /\ G.modules = F.modules /\ G.pairs = F.pairs /\ G.upstream = F.upstream
      /\ G.downstream = F.downstream
  BY <1>1 DEF Fields
<1>4. SameLists(F, G)
  BY <1>3, SameConfig
<1>5. Es(G) = Es(F) /\ Cs(G) = Cs(F)
  BY <1>4 DEF SameLists
<1>6. \/ ph = "create" /\ G.phase = "groups" /\ F.next > Len(Es(F)) /\ F.next <= Len(Es(F)) + 1
      \/ ph = "internal" /\ G.phase = "ports" /\ F.next > Len(Es(F)) /\ F.next <= Len(Es(F)) + 1
      \/ ph = "connect" /\ G.phase = "end" /\ F.next > Len(Cs(F)) /\ F.next <= Len(Cs(F)) + 1
  BY <1>1, <1>3 DEF Following, ListOf, Es, Cs, Shaped
<1>7. Shaped(G)
  BY <1>1, <1>2, <1>3, <1>5, <1>6 DEF Shaped, Phases
<1>8. MadeTo(G) = MadeTo(F)
  BY <1>1, <1>2, <1>3, <1>5, <1>6 DEF MadeTo
<1>9. SoughtTo(G) = SoughtTo(F)
  BY <1>1, <1>2, <1>3, <1>5, <1>6 DEF SoughtTo
<1>10. JoinedTo(G) = JoinedTo(F)
  BY <1>1, <1>2, <1>3, <1>5, <1>6 DEF JoinedTo
<1>11. ObjectsOK(G)
  BY <1>3, <1>4, <1>8, ObjectsKept DEF FrameOK
<1>12. ModulesOK(G)
  BY <1>3, <1>4, <1>8, <1>9, ModulesKept DEF FrameOK
<1>13. PortsOK(G)
  BY <1>3, <1>4, <1>6, NoPorts, PortsKept DEF FrameOK
<1>14. JoinedOK(G)
  BY <1>3, <1>4, <1>10, JoinedKept DEF FrameOK
<1>15. QED
  BY <1>3, <1>7, <1>11, <1>12, <1>13, <1>14 DEF FrameOK

LEMMA GroupedOK ==
  ASSUME files \in FileSystems, NEW F, FrameOK(F), F.phase = "groups",
         NEW G, G = [F EXCEPT !.phase = "internal"]
  PROVE  FrameOK(G) /\ G.opened[1] = F.opened[1] /\ G.by_main = F.by_main
         /\ G.phase = "internal"
<1>1. F.next = 1 /\ DOMAIN F = Fields /\ Shaped(F)
  BY DEF FrameOK, Shaped
<1>2. Len(Es(F)) \in Nat
  BY <1>1, ListsTyped, ListFacts DEF EntriesOK
<1>3. /\ DOMAIN G = Fields /\ G.opened = F.opened /\ G.config = F.config
      /\ G.phase = "internal" /\ G.next = 1 /\ G.objects = F.objects /\ G.by_main = F.by_main
      /\ G.modules = F.modules /\ G.pairs = F.pairs /\ G.upstream = F.upstream
      /\ G.downstream = F.downstream
  BY <1>1 DEF Fields
<1>4. SameLists(F, G)
  BY <1>3, SameConfig
<1>5. Es(G) = Es(F) /\ Cs(G) = Cs(F)
  BY <1>4 DEF SameLists
<1>6. Shaped(G)
  BY <1>1, <1>2, <1>3, <1>5 DEF Shaped, Phases
<1>7. MadeTo(G) = MadeTo(F) /\ SoughtTo(G) = SoughtTo(F) /\ JoinedTo(G) = JoinedTo(F)
  BY <1>1, <1>2, <1>3, <1>5 DEF MadeTo, SoughtTo, JoinedTo
<1>8. ObjectsOK(G)
  BY <1>3, <1>4, <1>7, ObjectsKept DEF FrameOK
<1>9. ModulesOK(G)
  BY <1>3, <1>4, <1>7, ModulesKept DEF FrameOK
<1>10. PortsOK(G)
  BY <1>3, NoPorts
<1>11. JoinedOK(G)
  BY <1>3, <1>4, <1>7, JoinedKept DEF FrameOK
<1>12. QED
  BY <1>3, <1>6, <1>8, <1>9, <1>10, <1>11 DEF FrameOK

-----------------------------------------------------------------------------
\* Entries with a configuration: one more is looked up among the modules.
LEMMA NoneSoughtMore ==
  ASSUME NEW F, NEW n, NEW k \in Nat, NEW modules, ModulesAt(F, modules, n, k),
         Seeking(F, k + 1) = Seeking(F, k)
  PROVE  ModulesAt(F, modules, n, k + 1)
BY DEF ModulesAt

LEMMA OneSoughtMore ==
  ASSUME NEW F, NEW n, NEW k \in Nat, NEW modules, ModulesAt(F, modules, n, k),
         NEW e, e = Es(F)[k + 1], e.name # None,
         Seeking(F, k + 1) = Seeking(F, k) \cup {k + 1},
         ~ (e.name \in DOMAIN modules /\ modules[e.name] /\ files[e.config].kind = "object"),
         NEW after, after = IF e.name \in DOMAIN modules THEN modules
                            ELSE Put(modules, e.name, FALSE)
  PROVE  ModulesAt(F, after, n, k + 1)
<1>1. PICK M, S, N : M = Names(F, Modular(F, n)) /\ S = Seeking(F, k) /\ N = Names(F, S)
  OBVIOUS
<1>2. Names(F, Seeking(F, k + 1)) = N \cup {e.name}
  BY <1>1 DEF Names
<1>3. /\ DOMAIN modules = M \cup N
      /\ \A x \in DOMAIN modules : modules[x] = (x \in M)
      /\ \A i \in S : /\ Es(F)[i].name # None
                      /\ Es(F)[i].name \in M => files[Es(F)[i].config].kind # "object"
  BY <1>1 DEF ModulesAt
<1>4. DOMAIN after = M \cup N \cup {e.name}
      /\ \A x \in DOMAIN after : after[x] = (x \in M)
  <2>1. CASE e.name \in DOMAIN modules
    BY <1>3, <2>1
  <2>2. CASE e.name \notin DOMAIN modules
    <3>1. DOMAIN after = DOMAIN modules \cup {e.name}
      BY <2>2 DEF Put
    <3>2. \A x \in DOMAIN after : after[x] = IF x = e.name THEN FALSE ELSE modules[x]
      BY <2>2 DEF Put
    <3>3. e.name \notin M
      BY <1>3, <2>2
    <3>4. ASSUME NEW x \in DOMAIN after PROVE after[x] = (x \in M)
      <4>1. CASE x = e.name
        <5>1. after[x] = FALSE
          BY <3>2, <4>1
        <5>2. (x \in M) = FALSE
          BY <3>3, <4>1
        <5>3. QED
          BY <5>1, <5>2, Zenon
      <4>2. CASE x # e.name
        BY <1>3, <3>1, <3>2, <4>2
      <4>3. QED
        BY <4>1, <4>2
    <3>5. QED
      BY <1>3, <3>1, <3>4
  <2>3. QED
    BY <2>1, <2>2
<1>5. e.name \in M => files[e.config].kind # "object"
  BY <1>3
<1>6. \A i \in S \cup {k + 1} :
        /\ Es(F)[i].name # None
        /\ Es(F)[i].name \in M => files[Es(F)[i].config].kind # "object"
  BY <1>3, <1>5
<1>7. QED
  BY <1>1, <1>2, <1>4, <1>6 DEF ModulesAt

LEMMA AdvancedOK ==
  ASSUME files \in FileSystems, NEW F, FrameOK(F), F.phase = "internal", F.next <= Len(Es(F)),
         NEW G, ModulesAt(F, G.modules, MadeTo(F), F.next),
         DOMAIN G = Fields, G.opened = F.opened, G.config = F.config,
         G.phase = "internal", G.next = F.next + 1, G.objects = F.objects, G.pairs = F.pairs
  PROVE  FrameOK(G)
<1>1. F.next \in Nat \ {0} /\ Shaped(F)
  BY DEF FrameOK, Shaped
<1>2. Len(Es(F)) \in Nat
  BY <1>1, ListsTyped, ListFacts DEF EntriesOK
<1>3. SameLists(F, G)
  BY SameConfig
<1>4. Es(G) = Es(F)
  BY <1>3 DEF SameLists
<1>5. Shaped(G)
  BY <1>1, <1>2, <1>4 DEF Shaped
<1>6. /\ MadeTo(G) = MadeTo(F) /\ SoughtTo(G) = F.next
      /\ JoinedTo(G) = 0 /\ JoinedTo(F) = 0
  BY <1>1, <1>4 DEF MadeTo, SoughtTo, JoinedTo
<1>7. ObjectsOK(G)
  BY <1>3, <1>6, ObjectsKept DEF FrameOK
<1>8. ModulesAt(G, G.modules, MadeTo(F), F.next)
  BY <1>3 DEF SameLists, ModulesAt
<1>9. ModulesOK(G)
  BY <1>6, <1>8, ModulesAreAt
<1>10. PortsOK(G) /\ JoinedOK(G)
  BY <1>6, NoPorts, NoPairs, NothingJoined DEF FrameOK
<1>11. QED
  BY <1>5, <1>7, <1>9, <1>10 DEF FrameOK

LEMMA NotSoughtOK ==
  ASSUME files \in FileSystems, NEW F, FrameOK(F), F.phase = "internal", F.next <= Len(Es(F)),
         Es(F)[F.next].config = None,
         NEW G, G = [F EXCEPT !.next = @ + 1]
  PROVE  FrameOK(G) /\ G.opened[1] = F.opened[1] /\ G.by_main = F.by_main
<1>1. F.next \in Nat \ {0} /\ DOMAIN F = Fields
  BY DEF FrameOK, Shaped
<1>2. PICK k : k \in Nat /\ k = F.next - 1 /\ F.next = k + 1
  BY <1>1
<1>3. Seeking(F, k + 1) = Seeking(F, k)
  <2>1. \A i : i \in 1 .. k + 1 <=> i \in 1 .. k \/ i = k + 1
    BY <1>2
  <2>2. QED
    BY <1>2, <2>1 DEF Seeking
<1>4. SoughtTo(F) = k
  BY <1>2 DEF SoughtTo
<1>5. ModulesAt(F, F.modules, MadeTo(F), k)
  BY <1>4, ModulesAreAt DEF FrameOK
<1>6. ModulesAt(F, F.modules, MadeTo(F), F.next)
  BY <1>2, <1>3, <1>5, NoneSoughtMore
<1>7. /\ DOMAIN G = Fields /\ G.opened = F.opened /\ G.config = F.config
      /\ G.phase = "internal" /\ G.next = F.next + 1 /\ G.objects = F.objects
      /\ G.modules = F.modules /\ G.pairs = F.pairs /\ G.by_main = F.by_main
  BY <1>1 DEF Fields
<1>8. FrameOK(G)
  BY <1>6, <1>7, AdvancedOK
<1>9. QED
  BY <1>7, <1>8

Advanced(F, e) == [F EXCEPT !.modules = Sought(e.name), !.next = @ + 1]

LEMMA SoughtOK ==
  ASSUME files \in FileSystems, NEW F, F = Top, FrameOK(F), F.phase = "internal",
         F.next <= Len(Es(F)),
         NEW e, e = Es(F)[F.next], e.config # None, e.name # None,
         ~ (e.name \in DOMAIN F.modules /\ F.modules[e.name] /\ files[e.config].kind = "object"),
         NEW G, G = Advanced(F, e)
  PROVE  FrameOK(G) /\ G.opened[1] = F.opened[1] /\ G.by_main = F.by_main
         /\ G.phase = "internal" /\ Es(G) = Es(F)
<1>1. F.next \in Nat \ {0} /\ DOMAIN F = Fields
  BY DEF FrameOK, Shaped
<1>2. PICK k : k \in Nat /\ k = F.next - 1 /\ F.next = k + 1
  BY <1>1
<1>3. Seeking(F, k + 1) = Seeking(F, k) \cup {k + 1}
  <2>1. \A i : i \in 1 .. k + 1 <=> i \in 1 .. k \/ i = k + 1
    BY <1>2
  <2>2. QED
    BY <1>2, <2>1 DEF Seeking
<1>4. SoughtTo(F) = k
  BY <1>2 DEF SoughtTo
<1>5. ModulesAt(F, F.modules, MadeTo(F), k)
  BY <1>4, ModulesAreAt DEF FrameOK
<1>6. PICK m : m = Sought(e.name)
  OBVIOUS
<1>7. m = IF e.name \in DOMAIN F.modules THEN F.modules ELSE Put(F.modules, e.name, FALSE)
  BY <1>6 DEF Sought
<1>8. ModulesAt(F, m, MadeTo(F), k + 1)
  BY <1>2, <1>3, <1>5, <1>7, OneSoughtMore
<1>9. /\ DOMAIN G = Fields /\ G.opened = F.opened /\ G.config = F.config
      /\ G.phase = "internal" /\ G.next = F.next + 1 /\ G.objects = F.objects
      /\ G.modules = m /\ G.pairs = F.pairs /\ G.by_main = F.by_main
  BY <1>1, <1>6 DEF Fields, Advanced
<1>10. FrameOK(G)
  <2>1. ModulesAt(F, G.modules, MadeTo(F), F.next)
    BY <1>2, <1>8, <1>9
  <2>2. FrameOK(F) /\ F.phase = "internal" /\ F.next <= Len(Es(F))
    OBVIOUS
  <2>3. DOMAIN G = Fields /\ G.opened = F.opened /\ G.config = F.config
    BY <1>9
  <2>4. G.phase = "internal" /\ G.next = F.next + 1 /\ G.objects = F.objects /\ G.pairs = F.pairs
    BY <1>9
  <2>5. QED
    BY <2>1, <2>2, <2>3, <2>4, AdvancedOK
<1>11. Es(G) = Es(F)
  BY <1>9 DEF Es, Listed
<1>12. QED
  BY <1>9, <1>10, <1>11

-----------------------------------------------------------------------------
\* Once all entries have been gone through, the maps are those of the configuration.
Settled(F) == F.phase \in {"ports", "connect", "end"}

LEMMA SettledIs ==
  ASSUME files \in FileSystems, NEW F, FrameOK(F), Settled(F), NEW n
  PROVE  /\ n \in Names(F, Modular(F, MadeTo(F))) <=> IsModule(F, n)
         /\ n \in Names(F, Seeking(F, SoughtTo(F)))
              <=> \E e \in Entries(F) : e.config # None /\ e.name = n
         /\ n \in Names(F, Making(F, MadeTo(F)))
              <=> \E e \in Entries(F) : Complete(e) /\ e.name = n /\ e.type \in Registered
<1>1. Shaped(F) /\ F.phase # "load"
  BY DEF FrameOK, Settled
<1>2. Said(F, "modules") = Es(F)
  BY <1>1, ListedIsSaid DEF Es
<1>3. IsList(Es(F))
  BY <1>1, ListsTyped DEF EntriesOK
<1>4. Entries(F) = {Es(F)[i] : i \in 1 .. Len(Es(F))}
  BY <1>2, <1>3, ListFacts DEF Entries
<1>5. MadeTo(F) = Len(Es(F)) /\ SoughtTo(F) = Len(Es(F))
  BY DEF Settled, MadeTo, SoughtTo
<1>6. n \in Names(F, Modular(F, MadeTo(F))) <=> IsModule(F, n)
  BY <1>4, <1>5 DEF Names, Modular, IsModule
<1>7. n \in Names(F, Seeking(F, SoughtTo(F)))
        <=> \E e \in Entries(F) : e.config # None /\ e.name = n
  BY <1>4, <1>5 DEF Names, Seeking
<1>8. n \in Names(F, Making(F, MadeTo(F)))
        <=> \E e \in Entries(F) : Complete(e) /\ e.name = n /\ e.type \in Registered
  BY <1>4, <1>5 DEF Names, Making
<1>9. QED
  BY <1>6, <1>7, <1>8

\* The null pointers are those of configured entries that are no modules.
LEMMA NullIs ==
  ASSUME files \in FileSystems, NEW F, FrameOK(F), Settled(F), NEW end
  PROVE  ThroughNull(F, end) <=>
           /\ end.port # None
           /\ \E e \in Entries(F) : e.config # None /\ e.name = end.module
           /\ ~ IsModule(F, end.module)
<1>1. PICK n, M, S : n = end.module /\ M = Names(F, Modular(F, MadeTo(F)))
                     /\ S = Names(F, Seeking(F, SoughtTo(F)))
  OBVIOUS
<1>2. DOMAIN F.modules = M \cup S /\ \A x \in DOMAIN F.modules : F.modules[x] = (x \in M)
  BY <1>1 DEF FrameOK, ModulesOK
<1>3. n \in M <=> IsModule(F, n)
  BY <1>1, SettledIs
<1>4. n \in S <=> \E e \in Entries(F) : e.config # None /\ e.name = n
  BY <1>1, SettledIs
<1>5. n \in DOMAIN F.modules /\ ~ F.modules[n] <=> n \in S /\ n \notin M
  <2>1. ASSUME n \in DOMAIN F.modules PROVE F.modules[n] <=> n \in M
    <3>1. F.modules[n] = (n \in M)
      BY <1>2, <2>1
    <3>2. QED
      BY <3>1, Zenon
  <2>2. QED
    BY <1>2, <2>1
<1>6. ThroughNull(F, end) <=> end.port # None /\ n \in DOMAIN F.modules /\ ~ F.modules[n]
  BY <1>1, Zenon DEF ThroughNull
<1>7. QED
  BY <1>1, <1>3, <1>4, <1>5, <1>6

LEMMA ConnectionsAre ==
  ASSUME NEW F, FrameOK(F), Settled(F)
  PROVE  Connections(F) = ToSet(Cs(F))
<1>1. Shaped(F) /\ F.phase # "load"
  BY DEF FrameOK, Settled
<1>2. QED
  BY <1>1, ListedIsSaid DEF Connections, Cs

\* A list over some set is a list.
LEMMA ListOver ==
  ASSUME NEW S, NEW s \in Seq(S)
  PROVE  IsList(s)
<1>1. Len(s) \in Nat /\ DOMAIN s = 1 .. Len(s)
  OBVIOUS
<1>2. \A i \in 1 .. Len(s) : s[i] \in ToSet(s)
  BY <1>1 DEF ToSet
<1>3. QED
  BY <1>1, <1>2 DEF IsList

\* The ports made for the ends of connections, of one side.
LEMMA PortsForIs ==
  ASSUME NEW F, NEW ends, IsList(ends)
  PROVE  /\ IsList(PortsFor(F, ends))
         /\ ToSet(PortsFor(F, ends)) = {x \in ToSet(ends) : MakesPort(F, x)}
<1> DEFINE I == {i \in DOMAIN ends : MakesPort(F, ends[i])}
<1>1. ends \in Seq(ToSet(ends)) /\ I \in SUBSET DOMAIN ends
  BY DEF IsList
<1>2. PICK p : p = Picked(ends, I)
  OBVIOUS
<1>3. p \in Seq(ToSet(ends)) /\ ToSet(p) = {ends[i] : i \in I}
  <2> HIDE DEF I
  <2>1. QED
    BY <1>1, <1>2, PickedIs
<1>4. PortsFor(F, ends) = p
  BY <1>2 DEF PortsFor
<1>5. ToSet(p) = {x \in ToSet(ends) : MakesPort(F, x)}
  BY <1>3 DEF ToSet
<1>6. QED
  BY <1>3, <1>4, <1>5, ListOver

\* The ends of one side of the connections.
LEMMA SidesAre ==
  ASSUME NEW cs, IsList(cs),
         NEW srcs, srcs = [i \in DOMAIN cs |-> cs[i].src],
         NEW dsts, dsts = [i \in DOMAIN cs |-> cs[i].dst]
  PROVE  /\ IsList(srcs) /\ ToSet(srcs) = {c.src : c \in ToSet(cs)}
         /\ IsList(dsts) /\ ToSet(dsts) = {c.dst : c \in ToSet(cs)}
<1>1. Len(cs) \in Nat /\ DOMAIN cs = 1 .. Len(cs) /\ ToSet(cs) = {cs[i] : i \in 1 .. Len(cs)}
  BY ListFacts
<1>2. ToSet(srcs) = {c.src : c \in ToSet(cs)}
  BY <1>1 DEF ToSet
<1>3. ToSet(dsts) = {c.dst : c \in ToSet(cs)}
  BY <1>1 DEF ToSet
<1>4. srcs \in Seq(ToSet(srcs))
  BY <1>1, <1>2
<1>5. dsts \in Seq(ToSet(dsts))
  BY <1>1, <1>3
<1>6. QED
  BY <1>2, <1>3, <1>4, <1>5 DEF IsList

WithPorts(F, srcs, dsts) ==
  [F EXCEPT !.downstream = PortsFor(F, srcs), !.upstream = PortsFor(F, dsts), !.phase = "connect"]

LEMMA PortsMadeOK ==
  ASSUME files \in FileSystems, NEW F, FrameOK(F), F.phase = "ports",
         NEW cs, cs = Cs(F),
         ~ \E i \in DOMAIN cs : ThroughNull(F, cs[i].src) \/ ThroughNull(F, cs[i].dst),
         NEW srcs, srcs = [i \in DOMAIN cs |-> cs[i].src],
         NEW dsts, dsts = [i \in DOMAIN cs |-> cs[i].dst],
         NEW G, G = WithPorts(F, srcs, dsts)
  PROVE  FrameOK(G) /\ G.opened[1] = F.opened[1] /\ G.by_main = F.by_main
<1>1. F.next = 1 /\ DOMAIN F = Fields /\ Shaped(F)
  BY DEF FrameOK, Shaped
<1>2. Len(cs) \in Nat /\ IsList(cs)
  BY <1>1, ListsTyped, ListFacts DEF ConnectionsOK
<1>3. PICK down, up : down = PortsFor(F, srcs) /\ up = PortsFor(F, dsts)
  OBVIOUS
<1>4. /\ DOMAIN G = Fields /\ G.opened = F.opened /\ G.config = F.config
      /\ G.phase = "connect" /\ G.next = 1 /\ G.objects = F.objects /\ G.by_main = F.by_main
      /\ G.modules = F.modules /\ G.pairs = F.pairs /\ G.upstream = up
      /\ G.downstream = down
  BY <1>1, <1>3 DEF Fields, WithPorts
<1>5. SameLists(F, G)
  BY <1>4, SameConfig
<1>6. Es(G) = Es(F) /\ Cs(G) = cs
  BY <1>5 DEF SameLists
<1>7. Shaped(G)
  <2>1. G.next = 1 /\ G.next <= Len(Cs(G)) + 1
    <3>1. PICK l : l = Len(cs) /\ l \in Nat
      BY <1>2
    <3>2. G.next = 1 /\ Len(Cs(G)) = l
      BY ONLY <1>4, <1>6, <3>1
    <3>3. QED
      BY ONLY <3>1, <3>2
  <2>2. DOMAIN G = Fields /\ G.opened = F.opened /\ G.config = F.config /\ G.phase = "connect"
    BY <1>4
  <2>3. QED
    BY <1>1, <2>1, <2>2 DEF Shaped, Phases
<1>8. MadeTo(G) = MadeTo(F) /\ SoughtTo(G) = SoughtTo(F) /\ JoinedTo(G) = 0 /\ JoinedTo(F) = 0
  <2>1. G.phase = "connect" /\ G.next = 1 /\ Es(G) = Es(F)
    BY <1>4, <1>6
  <2>2. F.phase = "ports"
    OBVIOUS
  <2>3. MadeTo(G) = MadeTo(F)
    BY ONLY <2>1, <2>2 DEF MadeTo
  <2>4. SoughtTo(G) = SoughtTo(F)
    BY ONLY <2>1, <2>2 DEF SoughtTo
  <2>5. JoinedTo(G) = 0 /\ JoinedTo(F) = 0
    BY ONLY <2>1, <2>2 DEF JoinedTo
  <2>6. QED
    BY <2>3, <2>4, <2>5
<1>9. ObjectsOK(G)
  BY <1>4, <1>5, <1>8, ObjectsKept DEF FrameOK
<1>10. ModulesOK(G)
  BY <1>4, <1>5, <1>8, ModulesKept DEF FrameOK
<1>11. JoinedOK(G)
  BY <1>4, <1>8, NoPairs, NothingJoined DEF FrameOK
<1>12. /\ IsList(srcs) /\ ToSet(srcs) = {c.src : c \in ToSet(cs)}
       /\ IsList(dsts) /\ ToSet(dsts) = {c.dst : c \in ToSet(cs)}
  BY <1>2, SidesAre
<1>13. \A end : MakesPort(G, end) <=> MakesPort(F, end)
  BY <1>4, SamePorts
<1>14. IsList(down) /\ ToSet(down) = {x \in ToSet(srcs) : MakesPort(F, x)}
  BY <1>3, <1>12, PortsForIs
<1>15. IsList(up) /\ ToSet(up) = {x \in ToSet(dsts) : MakesPort(F, x)}
  BY <1>3, <1>12, PortsForIs
<1>16. ToSet(down) = {c.src : c \in {x \in ToSet(cs) : MakesPort(G, x.src)}}
  <2>1. ToSet(down) = {c.src : c \in {x \in ToSet(cs) : MakesPort(F, x.src)}}
    BY <1>12, <1>14
  <2>2. QED
    BY <1>13, <2>1
<1>17. ToSet(up) = {c.dst : c \in {x \in ToSet(cs) : MakesPort(G, x.dst)}}
  <2>1. ToSet(up) = {c.dst : c \in {x \in ToSet(cs) : MakesPort(F, x.dst)}}
    BY <1>12, <1>15
  <2>2. QED
    BY <1>13, <2>1
<1>18. \A c \in ToSet(cs) : ~ ThroughNull(G, c.src) /\ ~ ThroughNull(G, c.dst)
  <2>1. \A i \in 1 .. Len(cs) : ~ ThroughNull(F, cs[i].src) /\ ~ ThroughNull(F, cs[i].dst)
    BY <1>2, ListFacts
  <2>2. \A c \in ToSet(cs) : ~ ThroughNull(F, c.src) /\ ~ ThroughNull(F, c.dst)
    <3>1. ToSet(cs) = {cs[i] : i \in 1 .. Len(cs)}
      BY <1>2, ListFacts
    <3>2. QED
      BY <2>1, <3>1
  <2>3. \A end : ThroughNull(G, end) <=> ThroughNull(F, end)
    BY <1>4, SameNulls
  <2>4. QED
    BY <2>2, <2>3
<1>19. PortsOK(G)
  BY <1>4, <1>6, <1>14, <1>15, <1>16, <1>17, <1>18 DEF PortsOK
<1>20. QED
  BY <1>4, <1>7, <1>9, <1>10, <1>11, <1>19 DEF FrameOK

-----------------------------------------------------------------------------
\* The objects, by the entries that the configuration has for them.
LEMMA ObjectNames ==
  ASSUME files \in FileSystems, NEW F, FrameOK(F), Settled(F)
  PROVE  /\ IsFiniteSet(DOMAIN F.objects) /\ None \notin DOMAIN F.objects
         /\ DOMAIN F.objects = {e.name : e \in {x \in Entries(F) : Complete(x)
                                  /\ x.type \in object_registry \cup module_registry}}
<1>1. Shaped(F)
  BY DEF FrameOK
<1>2. IsList(Es(F)) /\ Len(Es(F)) \in Nat
  BY <1>1, ListsTyped, ListFacts DEF EntriesOK
<1>3. MadeTo(F) = Len(Es(F))
  BY DEF Settled, MadeTo
<1>4. PICK I : I = Making(F, MadeTo(F))
  OBVIOUS
<1>5. DOMAIN F.objects = Names(F, I)
  BY <1>4 DEF FrameOK, ObjectsOK
<1>6. IsFiniteSet(Names(F, I))
  <2>1. I \in SUBSET (1 .. Len(Es(F)))
    BY <1>3, <1>4 DEF Making
  <2>2. IsFiniteSet(1 .. Len(Es(F)))
    BY <1>2, FS_Interval
  <2>3. IsFiniteSet(I)
    BY <2>1, <2>2, FS_Subset
  <2>4. [i \in I |-> Es(F)[i].name] \in Surjection(I, Names(F, I))
    BY DEF Surjection, Names
  <2>5. QED
    BY <2>3, <2>4, FS_Surjection
<1>7. \A n : n \in DOMAIN F.objects
               <=> \E e \in Entries(F) : Complete(e) /\ e.name = n /\ e.type \in Registered
  BY <1>4, <1>5, SettledIs
<1>8. None \notin DOMAIN F.objects
  BY <1>7 DEF Complete
<1>9. DOMAIN F.objects = {e.name : e \in {x \in Entries(F) : Complete(x)
                            /\ x.type \in object_registry \cup module_registry}}
  BY <1>7 DEF Registered
<1>10. QED
  BY <1>5, <1>6, <1>8, <1>9

LEMMA NoGroupNone ==
  ASSUME GroupsOK, NEW end, end.group = None
  PROVE  Members(end) = {}
BY DEF GroupsOK, Members

\* The ends that end stands for in a connection.
ExpandsTo(F, end, excluded) ==
  IF end.group # None THEN Members(end) \ excluded
  ELSE {Plain(n, None) : n \in {x \in DOMAIN F.objects : Matches(end, x)}} \ excluded

LEMMA FilteredIs ==
  ASSUME NEW xs, IsList(xs), NEW excluded
  PROVE  /\ IsList(FilterExcluded(xs, excluded))
         /\ ToSet(FilterExcluded(xs, excluded)) = ToSet(xs) \ excluded
<1> DEFINE I == {i \in DOMAIN xs : xs[i] \notin excluded}
<1>1. xs \in Seq(ToSet(xs)) /\ I \in SUBSET DOMAIN xs
  BY DEF IsList
<1>2. PICK p : p = Picked(xs, I)
  OBVIOUS
<1>3. p \in Seq(ToSet(xs)) /\ ToSet(p) = {xs[i] : i \in I}
  <2> HIDE DEF I
  <2>1. QED
    BY <1>1, <1>2, PickedIs
<1>4. FilterExcluded(xs, excluded) = p
  BY <1>2 DEF FilterExcluded
<1>5. ToSet(p) = ToSet(xs) \ excluded
  BY <1>3 DEF ToSet
<1>6. QED
  BY <1>3, <1>4, <1>5, ListOver

LEMMA ExpandedIs ==
  ASSUME files \in FileSystems, GroupsOK, NEW F, FrameOK(F), Settled(F),
         NEW end, NEW excluded
  PROVE  /\ IsList(FilterExcluded(Expanded(F, end), excluded))
         /\ ToSet(FilterExcluded(Expanded(F, end), excluded)) = ExpandsTo(F, end, excluded)
<1>1. PICK xs : xs = Expanded(F, end)
  OBVIOUS
<1>2. CASE end.group # None
  <2>1. IsList(xs) /\ ToSet(xs) = Members(end)
    <3>1. CASE end.group \in DOMAIN groups
      BY <1>1, <1>2, <3>1 DEF Expanded, Resolve, GroupsOK, Members
    <3>2. CASE end.group \notin DOMAIN groups
      BY <1>1, <1>2, <3>2, EmptyList DEF Expanded, Resolve, Members
    <3>3. QED
      BY <3>1, <3>2
  <2>2. ExpandsTo(F, end, excluded) = ToSet(xs) \ excluded
    BY <1>2, <2>1 DEF ExpandsTo
  <2>3. QED
    BY <1>1, <2>1, <2>2, FilteredIs
<1>3. CASE end.group = None
  <2> DEFINE Matched == {n \in DOMAIN F.objects : Matches(end, n)}
  <2>1. PICK q : q = SetToSeq(Matched)
    OBVIOUS
  <2>2. q \in Seq(Matched) /\ ToSet(q) = Matched
    <3>1. IsFiniteSet(Matched)
      BY ObjectNames, FS_Subset
    <3> HIDE DEF Matched
    <3>2. QED
      BY <2>1, <3>1, ListOfSet
  <2>3. xs = [i \in DOMAIN q |-> Plain(q[i], None)]
    BY <1>1, <1>3, <2>1 DEF Expanded
  <2> HIDE DEF Matched
  <2>4. Len(q) \in Nat /\ DOMAIN q = 1 .. Len(q)
    BY <2>2
  <2>5. ToSet(xs) = {Plain(n, None) : n \in Matched}
    BY <2>2, <2>3 DEF ToSet
  <2>6. xs \in Seq(ToSet(xs))
    <3>1. \A i \in 1 .. Len(q) : Plain(q[i], None) \in ToSet(xs)
      BY <2>3, <2>4 DEF ToSet
    <3>2. QED
      BY <2>3, <2>4, <3>1
  <2>7. ExpandsTo(F, end, excluded) = ToSet(xs) \ excluded
    BY <1>3, <2>5 DEF ExpandsTo, Matched
  <2>8. QED
    BY <1>1, <2>6, <2>7, FilteredIs DEF IsList
<1>4. QED
  BY <1>2, <1>3

-----------------------------------------------------------------------------
\* What a module exposes is in no configuration that gets this far.
LEMMA NothingExposed ==
  ASSUME files \in FileSystems, NEW F, FrameOK(F), Settled(F),
         NEW end, IsModule(F, end.module)
  PROVE  FindInternalPath(F, end) = {}
<1>1. Shaped(F) /\ ModulesOK(F)
  BY DEF FrameOK
<1>2. IsList(Es(F)) /\ ToSet(Es(F)) = {Es(F)[i] : i \in 1 .. Len(Es(F))}
  BY <1>1, ListsTyped, ListFacts DEF EntriesOK
<1>3. MadeTo(F) = Len(Es(F)) /\ SoughtTo(F) = Len(Es(F))
  BY DEF Settled, MadeTo, SoughtTo
<1>4. end.module \in Names(F, Modular(F, MadeTo(F)))
  BY SettledIs
<1>5. ASSUME NEW e \in ToSet(Es(F)), e.name = end.module, e.config # None
      PROVE  files[e.config].kind # "object"
  <2>1. PICK i \in 1 .. Len(Es(F)) : e = Es(F)[i]
    BY <1>2
  <2>2. i \in Seeking(F, SoughtTo(F))
    BY <1>3, <1>5, <2>1 DEF Seeking
  <2>3. QED
    BY <1>1, <1>4, <1>5, <2>1, <2>2 DEF ModulesOK
<1>6. ASSUME NEW f, files[f].kind # "object" PROVE ParsePortConfigs(f) = {}
  <2>1. DOMAIN OwnKeys(f) = {}
    BY <1>6 DEF OwnKeys, EmptyFunction
  <2>2. QED
    BY <2>1 DEF ParsePortConfigs
<1> DEFINE Configs == {e.config : e \in {x \in ToSet(Es(F)) :
                                          x.name = end.module /\ x.config # None}}
<1>7. \A f \in Configs : ParsePortConfigs(f) = {}
  BY <1>5, <1>6
<1>8. FindInternalPath(F, end)
        = {x.internal : x \in {y \in UNION {ParsePortConfigs(f) : f \in Configs} :
                                 y.external = end.port}}
  BY DEF FindInternalPath, Es
<1> HIDE DEF Configs
<1>9. QED
  BY <1>7, <1>8

LEMMA PortlessEnd ==
  ASSUME NEW F, NEW end, end.port = None
  PROVE  FindInternalPath(F, end) = {}
<1>1. \A f : \A y \in ParsePortConfigs(f) : y.external # None
  BY DEF ParsePortConfigs
<1>2. QED
  BY <1>1 DEF FindInternalPath

\* The port an end means is one made for that very end.
LEMMA PortAtIs ==
  ASSUME files \in FileSystems, NEW F, FrameOK(F), Settled(F),
         NEW ports, IsList(ports), \A x \in ToSet(ports) : MakesPort(F, x),
         NEW end, ~ ThroughNull(F, end),
         NEW k, k = PortAt(F, ports, end)
  PROVE  /\ k \in Nat
         /\ k # 0 => k \in DOMAIN ports /\ ports[k] = end
         /\ k # 0 <=> end \in ToSet(ports)
<1> DEFINE labels == IF end.module \in DOMAIN F.modules THEN FindInternalPath(F, end) ELSE {end}
           at == {i \in DOMAIN ports : ports[i] \in labels}
           I == {0} \cup at
<1>1. Len(ports) \in Nat /\ DOMAIN ports = 1 .. Len(ports)
      /\ ToSet(ports) = {ports[i] : i \in 1 .. Len(ports)}
  BY ListFacts
<1>2. k = Max(I)
  BY DEF PortAt
<1>3. at = {i \in DOMAIN ports : ports[i] = end}
  <2>1. CASE end.module \in DOMAIN F.modules
    <3>1. labels = {}
      <4>1. CASE end.port = None
        BY <2>1, <4>1, PortlessEnd
      <4>2. CASE end.port # None
        <5>1. F.modules[end.module]
          BY <2>1, <4>2 DEF ThroughNull
        <5>2. end.module \in Names(F, Modular(F, MadeTo(F)))
          <6>1. F.modules[end.module] = (end.module \in Names(F, Modular(F, MadeTo(F))))
            BY <2>1 DEF FrameOK, ModulesOK
          <6>2. QED
            BY <5>1, <6>1, Zenon
        <5>3. IsModule(F, end.module)
          BY <5>2, SettledIs
        <5>4. QED
          BY <2>1, <5>3, NothingExposed
      <4>3. QED
        BY <4>1, <4>2
    <3>2. end \notin ToSet(ports)
      BY <2>1 DEF MakesPort
    <3> HIDE DEF labels
    <3>3. QED
      BY <1>1, <3>1, <3>2
  <2>2. CASE end.module \notin DOMAIN F.modules
    BY <2>2
  <2>3. QED
    BY <2>1, <2>2
<1> HIDE DEF at, labels
<1>4. k \in I /\ \A i \in I : i <= k
  <2>1. I \in SUBSET (0 .. Len(ports)) /\ I # {}
    BY <1>1, <1>3
  <2> HIDE DEF I
  <2>2. QED
    BY <1>1, <1>2, <2>1, GreatestNumber
<1>5. k # 0 <=> at # {}
  BY <1>1, <1>3, <1>4
<1>6. QED
  BY <1>1, <1>3, <1>4, <1>5

\* Counting through the pairs of m ends with n ends: the two ends of pair k.
Outer(k, n) == ((k - 1) \div n) + 1
Inner(k, n) == ((k - 1) % n) + 1

LEMMA PairNumber ==
  ASSUME NEW m \in Nat, NEW n \in Nat, NEW k \in 1 .. m * n
  PROVE  Outer(k, n) \in 1 .. m /\ Inner(k, n) \in 1 .. n
<1>1. n > 0
  <2>1. n = 0 => m * n = 0
    OBVIOUS
  <2>2. m * n >= 1
    <3>1. PICK x : x = m * n
      OBVIOUS
    <3>2. x \in Nat /\ k \in 1 .. x
      BY <3>1
    <3>3. x >= 1
      BY <3>2
    <3>4. QED
      BY <3>1, <3>3
  <2>3. QED
    BY <2>1, <2>2
<1>2. PICK a, q, r : a = k - 1 /\ q = a \div n /\ r = a % n
  OBVIOUS
<1>3. PICK x : x = m * n /\ x \in Nat
  OBVIOUS
<1>4. a \in Nat /\ a < x
  BY <1>2, <1>3
<1>5. q \in Nat /\ r \in 0 .. n - 1 /\ a = n * q + r
  BY <1>1, <1>2, <1>4
<1>6. q < m
  <2>1. SUFFICES ASSUME q >= m PROVE FALSE
    BY <1>5
  <2>2. n * q >= n * m
    BY <1>1, <1>5, <2>1
  <2>3. n * m = x
    BY <1>3
  <2>4. PICK y : y = n * q /\ y \in Nat
    BY <1>5
  <2>5. QED
    BY <1>3, <1>4, <1>5, <2>2, <2>3, <2>4
<1>7. q + 1 \in 1 .. m /\ r + 1 \in 1 .. n
  BY <1>5, <1>6
<1>8. QED
  BY <1>2, <1>7 DEF Outer, Inner

LEMMA NumberOfPair ==
  ASSUME NEW m \in Nat, NEW n \in Nat, NEW i \in 1 .. m, NEW j \in 1 .. n
  PROVE  \E k \in 1 .. m * n : Outer(k, n) = i /\ Inner(k, n) = j
<1>1. PICK q, r : q = i - 1 /\ r = j - 1 /\ q \in 0 .. m - 1 /\ r \in 0 .. n - 1
  OBVIOUS
<1>2. PICK x, y : x = m * n /\ y = q * n /\ x \in Nat /\ y \in Nat
  BY <1>1
<1>3. y + n <= x
  <2>1. (q + 1) * n <= m * n
    BY <1>1
  <2>2. (q + 1) * n = y + n
    BY <1>1, <1>2
  <2>3. QED
    BY <1>2, <2>1, <2>2
<1>4. PICK k : k = y + r + 1
  OBVIOUS
<1>5. k \in 1 .. x
  BY <1>1, <1>2, <1>3, <1>4
<1>6. (y + r) \div n = q /\ (y + r) % n = r
  <2>1. y = n * q
    BY <1>1, <1>2
  <2>2. QED
    BY <1>1, <2>1
<1>7. k - 1 = y + r /\ q + 1 = i /\ r + 1 = j
  BY <1>1, <1>2, <1>4
<1>8. Outer(k, n) = i /\ Inner(k, n) = j
  BY <1>6, <1>7, Zenon DEF Outer, Inner
<1>9. QED
  BY <1>2, <1>5, <1>8

\* The pairs of two lists of ends: those that mean ports, as source and destination.
\* The pairs ps are between all ports of F that ss and ds mean.
PairedOK(F, ss, ds, ps) ==
  /\ IsList(ps)
  /\ \A p \in ToSet(ps) : p.src \in DOMAIN F.downstream /\ p.dst \in DOMAIN F.upstream
  /\ {<<F.downstream[p.src], F.upstream[p.dst]>> : p \in ToSet(ps)}
       = {x \in ToSet(ss) \X ToSet(ds) :
            x[1] \in ToSet(F.downstream) /\ x[2] \in ToSet(F.upstream)}

LEMMA PairsAre ==
  ASSUME files \in FileSystems, NEW F, FrameOK(F), F.phase = "connect",
         NEW ss, NEW ds, IsList(ss), IsList(ds),
         \A s \in ToSet(ss) : ~ ThroughNull(F, s),
         ss # <<>> => \A d \in ToSet(ds) : ~ ThroughNull(F, d),
         NEW ps, ps = Pairs(F, ss, ds)
  PROVE  PairedOK(F, ss, ds, ps)
<1> DEFINE S(k) == ss[Outer(k, Len(ds))]
           D(k) == ds[Inner(k, Len(ds))]
           Pair(k) == [src |-> PortAt(F, F.downstream, S(k)), dst |-> PortAt(F, F.upstream, D(k))]
           all == [k \in 1 .. Len(ss) * Len(ds) |-> Pair(k)]
           I == {k \in DOMAIN all : Bound(all[k])}
<1>0. Len(ss) \in Nat /\ Len(ds) \in Nat
  BY ListFacts
<1>1. PICK m, n, x : m = Len(ss) /\ n = Len(ds) /\ m \in Nat /\ n \in Nat /\ x = m * n /\ x \in Nat
  <2>1. Len(ss) * Len(ds) \in Nat
    BY <1>0
  <2>2. QED
    BY <1>0, <2>1, Zenon
<1>2. /\ ToSet(ss) = {ss[i] : i \in 1 .. m} /\ \A i \in 1 .. m : ss[i] \in ToSet(ss)
      /\ ToSet(ds) = {ds[i] : i \in 1 .. n} /\ \A i \in 1 .. n : ds[i] \in ToSet(ds)
  BY <1>1, ListFacts
<1>3. ASSUME NEW k \in 1 .. x PROVE S(k) \in ToSet(ss) /\ D(k) \in ToSet(ds)
  <2>1. Outer(k, n) \in 1 .. m /\ Inner(k, n) \in 1 .. n
    BY <1>1, PairNumber
  <2>2. QED
    BY <1>1, <1>2, <2>1
<1>4. ASSUME NEW s \in ToSet(ss), NEW d \in ToSet(ds)
      PROVE  \E k \in 1 .. x : S(k) = s /\ D(k) = d
  <2>1. PICK i \in 1 .. m, j \in 1 .. n : s = ss[i] /\ d = ds[j]
    BY <1>2
  <2>2. PICK k \in 1 .. x : Outer(k, n) = i /\ Inner(k, n) = j
    <3>1. m \in Nat /\ n \in Nat /\ x = m * n
      BY <1>1
    <3>2. \E k \in 1 .. m * n : Outer(k, n) = i /\ Inner(k, n) = j
      BY <3>1, NumberOfPair
    <3>3. QED
      BY <3>1, <3>2, Zenon
  <2>3. QED
    BY <1>1, <2>1, <2>2
<1> HIDE DEF S, D
<1>5. /\ IsList(F.downstream) /\ \A y \in ToSet(F.downstream) : MakesPort(F, y)
      /\ IsList(F.upstream) /\ \A y \in ToSet(F.upstream) : MakesPort(F, y)
  BY DEF FrameOK, PortsOK
<1>6. Settled(F)
  BY DEF Settled
<1>7. ASSUME NEW k \in 1 .. x
      PROVE  ~ ThroughNull(F, S(k)) /\ ~ ThroughNull(F, D(k))
  <2>1. ss # <<>>
    BY <1>3, <1>7, EmptyList
  <2>2. QED
    BY <1>3, <1>7, <2>1
<1>8. ASSUME NEW k \in 1 .. x, NEW p, p = PortAt(F, F.downstream, S(k))
      PROVE  /\ p \in Nat
             /\ p # 0 => p \in DOMAIN F.downstream /\ F.downstream[p] = S(k)
             /\ p # 0 <=> S(k) \in ToSet(F.downstream)
  BY <1>5, <1>6, <1>7, <1>8, PortAtIs
<1>9. ASSUME NEW k \in 1 .. x, NEW p, p = PortAt(F, F.upstream, D(k))
      PROVE  /\ p \in Nat
             /\ p # 0 => p \in DOMAIN F.upstream /\ F.upstream[p] = D(k)
             /\ p # 0 <=> D(k) \in ToSet(F.upstream)
  BY <1>5, <1>6, <1>7, <1>9, PortAtIs
<1>10. ASSUME NEW k \in 1 .. x
       PROVE  /\ Bound(Pair(k)) <=> S(k) \in ToSet(F.downstream) /\ D(k) \in ToSet(F.upstream)
              /\ Bound(Pair(k)) =>
                   /\ Pair(k).src \in DOMAIN F.downstream /\ Pair(k).dst \in DOMAIN F.upstream
                   /\ F.downstream[Pair(k).src] = S(k) /\ F.upstream[Pair(k).dst] = D(k)
  <2>1. PICK p, q : p = PortAt(F, F.downstream, S(k)) /\ q = PortAt(F, F.upstream, D(k))
    OBVIOUS
  <2>2. Pair(k).src = p /\ Pair(k).dst = q
    BY <2>1
  <2>3. Bound(Pair(k)) <=> p # 0 /\ q # 0
    BY <2>2 DEF Bound
  <2> HIDE DEF Pair
  <2>4. /\ p # 0 => p \in DOMAIN F.downstream /\ F.downstream[p] = S(k)
        /\ p # 0 <=> S(k) \in ToSet(F.downstream)
    BY <1>8, <2>1
  <2>5. /\ q # 0 => q \in DOMAIN F.upstream /\ F.upstream[q] = D(k)
        /\ q # 0 <=> D(k) \in ToSet(F.upstream)
    BY <1>9, <2>1
  <2>6. QED
    BY <2>2, <2>3, <2>4, <2>5
<1>11. ps = Picked(all, I)
  BY <1>1 DEF Pairs, S, D, Outer, Inner
<1>12. DOMAIN all = 1 .. x /\ (\A k \in 1 .. x : all[k] = Pair(k)) /\ all \in Seq({Pair(k) : k \in 1 .. x})
  <2> HIDE DEF Pair
  <2>1. QED
    BY <1>1
<1> HIDE DEF Pair, all
<1>13. /\ ps \in Seq({Pair(k) : k \in 1 .. x})
       /\ ToSet(ps) = {all[k] : k \in I}
  <2>1. I \in SUBSET DOMAIN all
    OBVIOUS
  <2>2. PICK A : A = {Pair(k) : k \in 1 .. x}
    OBVIOUS
  <2>3. all \in Seq(A)
    BY <1>12, <2>2
  <2> HIDE DEF I
  <2>4. Picked(all, I) \in Seq(A) /\ ToSet(Picked(all, I)) = {all[k] : k \in I}
    BY <2>1, <2>3, PickedIs
  <2>5. QED
    BY <1>11, <2>2, <2>4
<1>14. ToSet(ps) = {Pair(k) : k \in {j \in 1 .. x : Bound(Pair(j))}}
  BY <1>12, <1>13
<1>15. IsList(ps)
  BY <1>13, ListOver
<1>16. \A p \in ToSet(ps) : p.src \in DOMAIN F.downstream /\ p.dst \in DOMAIN F.upstream
  BY <1>10, <1>14
<1>17. ASSUME NEW p \in ToSet(ps)
       PROVE  /\ F.downstream[p.src] \in ToSet(ss) /\ F.upstream[p.dst] \in ToSet(ds)
              /\ F.downstream[p.src] \in ToSet(F.downstream)
              /\ F.upstream[p.dst] \in ToSet(F.upstream)
  BY <1>3, <1>10, <1>14
<1>18. ASSUME NEW s \in ToSet(ss), NEW d \in ToSet(ds),
              s \in ToSet(F.downstream), d \in ToSet(F.upstream)
       PROVE  \E p \in ToSet(ps) : F.downstream[p.src] = s /\ F.upstream[p.dst] = d
  <2>1. PICK k \in 1 .. x : S(k) = s /\ D(k) = d
    BY <1>4
  <2>2. QED
    BY <1>10, <1>14, <1>18, <2>1
<1>19. {<<F.downstream[p.src], F.upstream[p.dst]>> : p \in ToSet(ps)}
         = {y \in ToSet(ss) \X ToSet(ds) :
              y[1] \in ToSet(F.downstream) /\ y[2] \in ToSet(F.upstream)}
  <2> DEFINE L == {<<F.downstream[p.src], F.upstream[p.dst]>> : p \in ToSet(ps)}
             R == {y \in ToSet(ss) \X ToSet(ds) :
                     y[1] \in ToSet(F.downstream) /\ y[2] \in ToSet(F.upstream)}
  <2>1. ASSUME NEW y \in L PROVE y \in R
    BY <1>17
  <2>2. ASSUME NEW y \in R PROVE y \in L
    <3>1. PICK s \in ToSet(ss), d \in ToSet(ds) :
            y = <<s, d>> /\ s \in ToSet(F.downstream) /\ d \in ToSet(F.upstream)
      OBVIOUS
    <3>2. QED
      BY <1>18, <3>1
  <2>3. QED
    BY <2>1, <2>2
<1>20. QED
  BY <1>15, <1>16, <1>19 DEF PairedOK

-----------------------------------------------------------------------------
\* The ends of a connection, once groups and patterns have been resolved.
Sources(F, c) == ExpandsTo(F, c.src, c.exclude)
Targets(F, c) == ExpandsTo(F, c.dst, c.exclude)

LEMMA MatchedIsNull ==
  ASSUME NEW F, NEW end, NEW excluded, end.group = None, NEW x \in ExpandsTo(F, end, excluded)
  PROVE  x.port = None /\ ~ ThroughNull(F, x)
BY DEF ExpandsTo, Plain, ThroughNull

\* Null pointers are found at members of groups only.
LEMMA NullsOf ==
  ASSUME GroupsOK, NEW F, NEW end, NEW excluded, NEW x, ThroughNull(F, x)
  PROVE  x \in ExpandsTo(F, end, excluded) <=> x \in Members(end) \ excluded
<1>1. CASE end.group # None
  BY <1>1 DEF ExpandsTo
<1>2. CASE end.group = None
  BY <1>2, NoGroupNone, MatchedIsNull
<1>3. QED
  BY <1>1, <1>2

LEMMA HasSourceIs ==
  ASSUME files \in FileSystems, GroupsOK, NEW F, FrameOK(F), Settled(F),
         NEW c \in ToSet(Cs(F))
  PROVE  HasSource(F, c) <=> Sources(F, c) # {}
<1>1. IsEnd(c.src)
  <2>1. Shaped(F)
    BY DEF FrameOK
  <2>2. QED
    BY <2>1, ListsTyped DEF ConnectionsOK
<1>2. CASE c.src.group # None
  <2>1. \A n \in DOMAIN F.objects : ~ Matches(c.src, n)
    <3>1. None \notin DOMAIN F.objects
      BY ObjectNames
    <3>2. QED
      BY <1>1, <1>2, <3>1 DEF IsEnd, Matches, WildcardMatch
  <2>2. QED
    BY <1>2, <2>1 DEF HasSource, Sources, ExpandsTo, SrcEnds
<1>3. CASE c.src.group = None
  <2>1. SrcEnds(c) = {}
    BY <1>3, NoGroupNone DEF SrcEnds
  <2>2. QED
    BY <1>3, <2>1 DEF HasSource, Sources, ExpandsTo
<1>4. QED
  BY <1>2, <1>3

\* Resolving a connection uses no null pointer if and only if NoNull says so.
LEMMA NoNullIs ==
  ASSUME files \in FileSystems, GroupsOK, NEW F, FrameOK(F), Settled(F),
         NEW c \in ToSet(Cs(F))
  PROVE  NoNull(F, c) <=>
           /\ \A s \in Sources(F, c) : ~ ThroughNull(F, s)
           /\ Sources(F, c) # {} => \A d \in Targets(F, c) : ~ ThroughNull(F, d)
<1>1. \A s : ThroughNull(F, s) => (s \in Sources(F, c) <=> s \in SrcEnds(c))
  BY NullsOf DEF Sources, SrcEnds
<1>2. \A d : ThroughNull(F, d) => (d \in Targets(F, c) <=> d \in DstEnds(c))
  BY NullsOf DEF Targets, DstEnds
<1>3. HasSource(F, c) <=> Sources(F, c) # {}
  BY HasSourceIs
<1>4. QED
  BY <1>1, <1>2, <1>3 DEF NoNull

LEMMA LinkedIs ==
  ASSUME GroupsOK, NEW F, NEW c,
         \A x \in ToSet(F.downstream) \cup ToSet(F.upstream) : x.port # None
  PROVE  Linked(F, c) = {p \in Sources(F, c) \X Targets(F, c) :
                            p[1] \in ToSet(F.downstream) /\ p[2] \in ToSet(F.upstream)}
<1>1. \A s \in ToSet(F.downstream) : s \in Sources(F, c) <=> s \in SrcEnds(c)
  <2>1. CASE c.src.group # None
    BY <2>1 DEF Sources, ExpandsTo, SrcEnds
  <2>2. CASE c.src.group = None
    BY <2>2, NoGroupNone, MatchedIsNull DEF Sources, SrcEnds
  <2>3. QED
    BY <2>1, <2>2
<1>2. \A d \in ToSet(F.upstream) : d \in Targets(F, c) <=> d \in DstEnds(c)
  <2>1. CASE c.dst.group # None
    BY <2>1 DEF Targets, ExpandsTo, DstEnds
  <2>2. CASE c.dst.group = None
    BY <2>2, NoGroupNone, MatchedIsNull DEF Targets, DstEnds
  <2>3. QED
    BY <2>1, <2>2
<1>3. QED
  BY <1>1, <1>2 DEF Linked

\* The mistake, that a port of a configured entry is named, is the use of a null pointer.
LEMMA NamedIsNull ==
  ASSUME files \in FileSystems, GroupsOK, NEW F, FrameOK(F), Settled(F)
  PROVE  PortOfConfigured(F) <=>
           \E c \in ToSet(Cs(F)) :
             ThroughNull(F, c.src) \/ ThroughNull(F, c.dst) \/ ~ NoNull(F, c)
<1> DEFINE Patterned(c) ==
             \E n \in DOMAIN F.objects : Matches(c.src, n) /\ Plain(n, None) \notin c.exclude
           Ends(c) == {c.src, c.dst} \cup SrcEnds(c)
                      \cup (IF SrcEnds(c) = {} THEN {} ELSE DstEnds(c))
                      \cup (IF Patterned(c) THEN DstEnds(c) ELSE {})
           Bad(end) == /\ end.port # None
                       /\ \E e \in Entries(F) : e.config # None /\ e.name = end.module
                       /\ ~ IsModule(F, end.module)
<1>1. DOMAIN F.objects = {e.name : e \in {x \in Entries(F) : Complete(x)
                            /\ x.type \in object_registry \cup module_registry}}
  BY ObjectNames
<1>2. PortOfConfigured(F) <=> \E c \in Connections(F) : \E end \in Ends(c) : Bad(end)
  BY <1>1 DEF PortOfConfigured, SrcEnds, DstEnds
<1>3. \A end : ThroughNull(F, end) <=> Bad(end)
  BY NullIs
<1> HIDE DEF Bad
<1>4. ASSUME NEW c
      PROVE  (\E end \in Ends(c) : ThroughNull(F, end))
               <=> ThroughNull(F, c.src) \/ ThroughNull(F, c.dst) \/ ~ NoNull(F, c)
  <2>1. HasSource(F, c) <=> SrcEnds(c) # {} \/ Patterned(c)
    BY DEF HasSource
  <2> HIDE DEF Patterned
  <2>2. QED
    BY <2>1 DEF NoNull
<1>5. Connections(F) = ToSet(Cs(F))
  BY ConnectionsAre
<1> HIDE DEF Ends
<1>6. QED
  BY <1>2, <1>3, <1>4, <1>5

\* One connection more.
LEMMA JoinedMore ==
  ASSUME NEW F, JoinedOK(F), F.phase = "connect", F.next \in Nat \ {0},
         NEW c, c = Cs(F)[F.next],
         NEW ps, IsList(ps),
         \A p \in ToSet(ps) : p.src \in DOMAIN F.downstream /\ p.dst \in DOMAIN F.upstream,
         {<<F.downstream[p.src], F.upstream[p.dst]>> : p \in ToSet(ps)} = Linked(F, c),
         NoNull(F, c),
         NEW G, Cs(G) = Cs(F), G.modules = F.modules, G.objects = F.objects,
         G.downstream = F.downstream, G.upstream = F.upstream,
         G.pairs = F.pairs \o ps, JoinedTo(G) = F.next
  PROVE  JoinedOK(G)
<1>0. JoinedTo(F) = F.next - 1
  BY DEF JoinedTo
<1>1. PICK k : k \in Nat /\ k = F.next - 1 /\ F.next = k + 1 /\ JoinedTo(F) = k
  <2>1. F.next - 1 \in Nat /\ F.next = (F.next - 1) + 1
    OBVIOUS
  <2>2. QED
    BY <1>0, <2>1, Zenon
<1>2. PICK J, J1 : J = {Cs(F)[i] : i \in 1 .. JoinedTo(F)} /\ J1 = {Cs(G)[i] : i \in 1 .. JoinedTo(G)}
  OBVIOUS
<1>3. J1 = J \cup {c}
  <2>1. \A i : i \in 1 .. F.next <=> i \in 1 .. k \/ i = F.next
    BY <1>1
  <2>2. J = {Cs(F)[i] : i \in 1 .. k} /\ J1 = {Cs(F)[i] : i \in 1 .. F.next}
    BY <1>1, <1>2
  <2>3. QED
    BY <2>1, <2>2
<1>4. /\ IsList(F.pairs)
      /\ \A p \in ToSet(F.pairs) : p.src \in DOMAIN F.downstream /\ p.dst \in DOMAIN F.upstream
      /\ Links(F) = UNION {Linked(F, x) : x \in J}
      /\ \A x \in J : NoNull(F, x)
  BY <1>2 DEF JoinedOK
<1>5. PICK q : q = F.pairs \o ps
  OBVIOUS
<1>6. IsList(q) /\ ToSet(q) = ToSet(F.pairs) \cup ToSet(ps)
  <2>1. PICK A, B : A = ToSet(F.pairs) /\ B = ToSet(ps)
    OBVIOUS
  <2>2. F.pairs \in Seq(A) /\ ps \in Seq(B)
    BY <1>4, <2>1 DEF IsList
  <2>3. F.pairs \in Seq(A \cup B) /\ ps \in Seq(A \cup B)
    BY <2>2
  <2>4. PICK m, n : m = Len(F.pairs) /\ n = Len(ps) /\ m \in Nat /\ n \in Nat
    <3>1. Len(F.pairs) \in Nat /\ Len(ps) \in Nat
      BY <2>2
    <3>2. QED
      BY <3>1, Zenon
  <2>5. q \in Seq(A \cup B) /\ Len(q) = m + n
    BY <1>5, <2>3, <2>4
  <2>6. /\ \A i \in 1 .. m : q[i] = F.pairs[i]
        /\ \A i \in 1 .. n : q[m + i] = ps[i]
    BY <1>5, <2>3, <2>4
  <2>7. A = {F.pairs[i] : i \in 1 .. m} /\ B = {ps[i] : i \in 1 .. n}
    BY <1>4, <2>1, <2>4, ListFacts
  <2>8. ToSet(q) = {q[i] : i \in 1 .. m + n}
    BY <2>4, <2>5 DEF ToSet
  <2>9. ToSet(q) = A \cup B
    <3>1. \A i \in 1 .. m + n : i \in 1 .. m \/ \E j \in 1 .. n : i = m + j
      <4>1. SUFFICES ASSUME NEW i \in 1 .. m + n, i \notin 1 .. m
                     PROVE  \E j \in 1 .. n : i = m + j
        OBVIOUS
      <4>2. i - m \in 1 .. n /\ i = m + (i - m)
        BY <2>4, <4>1
      <4>3. QED
        BY <4>2
    <3>2. \A i \in 1 .. m + n : q[i] \in A \cup B
      BY <2>5
    <3>3. \A i \in 1 .. m : i \in 1 .. m + n
      BY <2>4
    <3>4. \A j \in 1 .. n : m + j \in 1 .. m + n
      BY <2>4
    <3>5. A \subseteq ToSet(q)
      BY <2>6, <2>7, <2>8, <3>3
    <3>6. B \subseteq ToSet(q)
      BY <2>6, <2>7, <2>8, <3>4
    <3>7. ToSet(q) \subseteq A \cup B
      BY <2>8, <3>2
    <3>8. QED
      BY <3>5, <3>6, <3>7
  <2>10. QED
    BY <2>1, <2>5, <2>9, ListOver
<1>7. \A x : Linked(G, x) = Linked(F, x) /\ (NoNull(G, x) <=> NoNull(F, x))
  BY SameEnds
<1>8. G.pairs = q
  BY <1>5
<1>9. Links(G) = Links(F) \cup Linked(F, c)
  <2>1. Links(G) = {<<F.downstream[p.src], F.upstream[p.dst]>> : p \in ToSet(F.pairs) \cup ToSet(ps)}
    BY <1>6, <1>8 DEF Links
  <2>2. QED
    BY <2>1 DEF Links
<1>10. Links(G) = UNION {Linked(G, x) : x \in J1}
  <2>1. UNION {Linked(G, x) : x \in J1} = UNION {Linked(F, x) : x \in J1}
    BY <1>7
  <2>2. UNION {Linked(F, x) : x \in J1} = (UNION {Linked(F, x) : x \in J}) \cup Linked(F, c)
    BY <1>3
  <2>3. QED
    BY <1>4, <1>9, <2>1, <2>2
<1>11. \A x \in J1 : NoNull(G, x)
  BY <1>3, <1>4, <1>7
<1>12. \A p \in ToSet(q) : p.src \in DOMAIN G.downstream /\ p.dst \in DOMAIN G.upstream
  BY <1>4, <1>6
<1>13. QED
  BY <1>2, <1>6, <1>8, <1>10, <1>11, <1>12 DEF JoinedOK

LEMMA PortsHavePorts ==
  ASSUME NEW F, PortsOK(F), F.phase \in {"connect", "end"}
  PROVE  \A x \in ToSet(F.downstream) \cup ToSet(F.upstream) : x.port # None
BY DEF PortsOK, MakesPort

WithPairs(F, ss, ds) == [F EXCEPT !.pairs = @ \o Pairs(F, ss, ds), !.next = @ + 1]

LEMMA ConnectedOK ==
  ASSUME files \in FileSystems, GroupsOK, NEW F, FrameOK(F), F.phase = "connect",
         F.next <= Len(Cs(F)),
         NEW c, c = Cs(F)[F.next],
         NEW ss, ss = FilterExcluded(Expanded(F, c.src), c.exclude),
         NEW ds, ds = FilterExcluded(Expanded(F, c.dst), c.exclude),
         ~ \E s \in ToSet(ss) : ThroughNull(F, s),
         ~ (ss # <<>> /\ \E d \in ToSet(ds) : ThroughNull(F, d)),
         NEW G, G = WithPairs(F, ss, ds)
  PROVE  FrameOK(G) /\ G.opened[1] = F.opened[1] /\ G.by_main = F.by_main
<1>1. F.next \in Nat \ {0} /\ DOMAIN F = Fields /\ Shaped(F)
  BY DEF FrameOK, Shaped
<1>2. Len(Cs(F)) \in Nat /\ IsList(Cs(F)) /\ c \in ToSet(Cs(F))
  <2>1. IsList(Cs(F))
    BY <1>1, ListsTyped DEF ConnectionsOK
  <2>2. QED
    BY <1>1, <2>1, ListFacts
<1>3. PICK ps : ps = Pairs(F, ss, ds)
  OBVIOUS
<1>4. Settled(F)
  BY DEF Settled
<1>5. IsList(ss) /\ ToSet(ss) = Sources(F, c) /\ IsList(ds) /\ ToSet(ds) = Targets(F, c)
  BY <1>4, ExpandedIs DEF Sources, Targets
<1>6. ss = <<>> <=> ToSet(ss) = {}
  BY <1>5, ListFacts
<1>7. /\ IsList(ps)
      /\ \A p \in ToSet(ps) : p.src \in DOMAIN F.downstream /\ p.dst \in DOMAIN F.upstream
      /\ {<<F.downstream[p.src], F.upstream[p.dst]>> : p \in ToSet(ps)}
           = {x \in ToSet(ss) \X ToSet(ds) :
                x[1] \in ToSet(F.downstream) /\ x[2] \in ToSet(F.upstream)}
  <2>1. \A s \in ToSet(ss) : ~ ThroughNull(F, s)
    OBVIOUS
  <2>2. ss # <<>> => \A d \in ToSet(ds) : ~ ThroughNull(F, d)
    OBVIOUS
  <2>3. IsList(ss) /\ IsList(ds)
    BY <1>5
  <2>4. PairedOK(F, ss, ds, ps)
    BY <1>3, <2>1, <2>2, <2>3, PairsAre
  <2>5. QED
    BY <2>4 DEF PairedOK
<1>8. {<<F.downstream[p.src], F.upstream[p.dst]>> : p \in ToSet(ps)} = Linked(F, c)
  <2>1. \A x \in ToSet(F.downstream) \cup ToSet(F.upstream) : x.port # None
    BY PortsHavePorts DEF FrameOK
  <2>2. Linked(F, c) = {p \in Sources(F, c) \X Targets(F, c) :
                          p[1] \in ToSet(F.downstream) /\ p[2] \in ToSet(F.upstream)}
    BY <2>1, LinkedIs
  <2>3. QED
    BY <1>5, <1>7, <2>2
<1>9. NoNull(F, c)
  <2>1. /\ \A s \in Sources(F, c) : ~ ThroughNull(F, s)
        /\ Sources(F, c) # {} => \A d \in Targets(F, c) : ~ ThroughNull(F, d)
    BY <1>5, <1>6
  <2>2. QED
    BY <1>2, <1>4, <2>1, NoNullIs
<1>10. PICK q : q = F.pairs \o ps
  OBVIOUS
<1>11. /\ DOMAIN G = Fields /\ G.opened = F.opened /\ G.config = F.config
       /\ G.phase = "connect" /\ G.next = F.next + 1 /\ G.objects = F.objects
       /\ G.by_main = F.by_main /\ G.modules = F.modules /\ G.upstream = F.upstream
       /\ G.downstream = F.downstream /\ G.pairs = q
  BY <1>1, <1>3, <1>10 DEF Fields, WithPairs
<1>12. SameLists(F, G)
  BY <1>11, SameConfig
<1>13. Es(G) = Es(F) /\ Cs(G) = Cs(F)
  BY <1>12 DEF SameLists
<1>14. Shaped(G)
  <2>1. PICK n, l : n = F.next /\ l = Len(Cs(F)) /\ n \in Nat \ {0} /\ l \in Nat /\ n <= l
    BY <1>1, <1>2
  <2>2. G.next = n + 1 /\ n + 1 \in Nat \ {0} /\ n + 1 <= l + 1
    <3>1. G.next = n + 1
      BY ONLY <1>11, <2>1
    <3>2. n + 1 \in Nat \ {0} /\ n + 1 <= l + 1
      BY ONLY <2>1
    <3>3. QED
      BY ONLY <3>1, <3>2
  <2>3. G.next \in Nat \ {0} /\ G.next <= Len(Cs(G)) + 1
    BY <1>13, <2>1, <2>2
  <2>4. DOMAIN G = Fields /\ G.opened = F.opened /\ G.config = F.config /\ G.phase = "connect"
    BY <1>11
  <2>5. QED
    BY <1>1, <2>3, <2>4 DEF Shaped
<1>15. MadeTo(G) = MadeTo(F) /\ SoughtTo(G) = SoughtTo(F) /\ JoinedTo(G) = F.next
  <2>1. G.phase = "connect" /\ G.next = F.next + 1 /\ Es(G) = Es(F)
    BY <1>11, <1>13
  <2>2. MadeTo(G) = MadeTo(F) /\ SoughtTo(G) = SoughtTo(F)
    BY <2>1 DEF MadeTo, SoughtTo
  <2>3. JoinedTo(G) = G.next - 1
    BY <2>1 DEF JoinedTo
  <2>4. QED
    BY <1>1, <2>1, <2>2, <2>3
<1>16. ObjectsOK(G)
  BY <1>11, <1>12, <1>15, ObjectsKept DEF FrameOK
<1>17. ModulesOK(G)
  BY <1>11, <1>12, <1>15, ModulesKept DEF FrameOK
<1>18. PortsOK(G)
  <2>1. PortsOK(F)
    BY DEF FrameOK
  <2>2. QED
    BY <1>11, <1>12, <2>1, PortsKept
<1>19. JoinedOK(G)
  <2>1. JoinedOK(F) /\ F.next \in Nat \ {0}
    BY <1>1 DEF FrameOK
  <2>2. G.modules = F.modules /\ G.objects = F.objects /\ G.downstream = F.downstream
        /\ G.upstream = F.upstream
    BY <1>11
  <2>3. G.pairs = F.pairs \o ps /\ JoinedTo(G) = F.next /\ Cs(G) = Cs(F)
    BY <1>10, <1>11, <1>13, <1>15
  <2>4. QED
    BY <1>7, <1>8, <1>9, <2>1, <2>2, <2>3, JoinedMore
<1>20. QED
  BY <1>11, <1>14, <1>16, <1>17, <1>18, <1>19 DEF FrameOK

\* Connections use a null pointer for a port of a configured entry only.
LEMMA ConnectCrash ==
  ASSUME files \in FileSystems, GroupsOK, NEW F, FrameOK(F), F.phase = "connect",
         F.next <= Len(Cs(F)),
         NEW c, c = Cs(F)[F.next],
         NEW ss, ss = FilterExcluded(Expanded(F, c.src), c.exclude),
         NEW ds, ds = FilterExcluded(Expanded(F, c.dst), c.exclude),
         \/ \E s \in ToSet(ss) : ThroughNull(F, s)
         \/ ss # <<>> /\ \E d \in ToSet(ds) : ThroughNull(F, d)
  PROVE  PortOfConfigured(F)
<1>1. c \in ToSet(Cs(F))
  <2>1. F.next \in Nat \ {0} /\ Shaped(F)
    BY DEF FrameOK, Shaped
  <2>2. IsList(Cs(F))
    BY <2>1, ListsTyped DEF ConnectionsOK
  <2>3. QED
    BY <2>1, <2>2, ListFacts
<1>2. Settled(F)
  BY DEF Settled
<1>3. IsList(ss) /\ ToSet(ss) = Sources(F, c) /\ IsList(ds) /\ ToSet(ds) = Targets(F, c)
  BY <1>2, ExpandedIs DEF Sources, Targets
<1>4. ss = <<>> <=> ToSet(ss) = {}
  BY <1>3, ListFacts
<1>5. ~ (/\ \A s \in Sources(F, c) : ~ ThroughNull(F, s)
         /\ Sources(F, c) # {} => \A d \in Targets(F, c) : ~ ThroughNull(F, d))
  BY <1>3, <1>4
<1>6. ~ NoNull(F, c)
  BY <1>1, <1>2, <1>5, NoNullIs
<1>7. QED
  BY <1>1, <1>2, <1>6, NamedIsNull

LEMMA PortsCrash ==
  ASSUME files \in FileSystems, GroupsOK, NEW F, FrameOK(F), F.phase = "ports",
         NEW cs, cs = Cs(F),
         \E i \in DOMAIN cs : ThroughNull(F, cs[i].src) \/ ThroughNull(F, cs[i].dst)
  PROVE  PortOfConfigured(F)
<1>1. PICK i \in DOMAIN cs : ThroughNull(F, cs[i].src) \/ ThroughNull(F, cs[i].dst)
  OBVIOUS
<1>2. cs[i] \in ToSet(Cs(F))
  BY DEF ToSet
<1>3. Settled(F)
  BY DEF Settled
<1>4. QED
  BY <1>1, <1>2, <1>3, NamedIsNull

-----------------------------------------------------------------------------
\* The other null pointer: a layout for an object of an unknown type.
LEMMA CreateCrash ==
  ASSUME files \in FileSystems, NEW F, F = Top, FrameOK(F), F.phase = "create",
         F.next <= Len(Es(F)),
         NEW e, e = Es(F)[F.next], e.name # None, e.type # None,
         e.layout /\ e.name \notin DOMAIN Created(e)
  PROVE  UnknownLaidOut(F)
<1>1. F.next \in Nat \ {0} /\ Shaped(F)
  BY DEF FrameOK, Shaped
<1>2. IsList(Es(F)) /\ Len(Es(F)) \in Nat
  BY <1>1, ListsTyped, ListFacts DEF EntriesOK
<1>3. Said(F, "modules") = Es(F)
  BY <1>1, ListedIsSaid DEF Es
<1>4. F.next \in DOMAIN Es(F)
  BY <1>1, <1>2, ListFacts
<1>5. MadeTo(F) = F.next - 1
  BY DEF MadeTo
<1>6. DOMAIN F.objects = Names(F, Making(F, F.next - 1))
  BY <1>5 DEF FrameOK, ObjectsOK
<1>7. e.type \notin Registered /\ DOMAIN Created(e) = DOMAIN F.objects
  BY DEF Created, Registered, Put
<1>8. ASSUME NEW j \in 1 .. F.next, Complete(Es(F)[j]), Es(F)[j].name = e.name
      PROVE  Es(F)[j].type \notin Registered
  <2>1. CASE j = F.next
    BY <1>7, <2>1
  <2>2. CASE j # F.next
    <3>1. j \in 1 .. F.next - 1
      BY <1>1, <2>2
    <3>2. e.name \notin Names(F, Making(F, F.next - 1))
      BY <1>6, <1>7
    <3>3. QED
      BY <1>8, <3>1, <3>2 DEF Names, Making
  <2>3. QED
    BY <2>1, <2>2
<1>9. Complete(e)
  BY DEF Complete
<1>10. QED
  BY <1>3, <1>4, <1>8, <1>9 DEF UnknownLaidOut, Registered

LEMMA AllLaidOut ==
  ASSUME files \in FileSystems, NEW F, FrameOK(F), F.phase = "end"
  PROVE  ~ UnknownLaidOut(F)
<1>1. Shaped(F) /\ ObjectsOK(F)
  BY DEF FrameOK
<1>2. IsList(Es(F))
  BY <1>1, ListsTyped DEF EntriesOK
<1>3. Said(F, "modules") = Es(F)
  BY <1>1, ListedIsSaid DEF Es
<1>4. DOMAIN Es(F) = 1 .. MadeTo(F)
  BY <1>2, ListFacts DEF MadeTo
<1>5. ASSUME NEW i \in DOMAIN Es(F), Es(F)[i].layout, Complete(Es(F)[i])
      PROVE  \E j \in 1 .. i : Complete(Es(F)[j]) /\ Es(F)[j].name = Es(F)[i].name
                               /\ Es(F)[j].type \in Registered
  <2>1. Es(F)[i].name \in Names(F, Making(F, i))
    BY <1>1, <1>4, <1>5 DEF ObjectsOK
  <2>2. QED
    BY <2>1 DEF Names, Making
<1>6. QED
  BY <1>3, <1>5 DEF UnknownLaidOut, Registered

-----------------------------------------------------------------------------
\* A frame stays as it is while others go on.
LEMMA FrameKept ==
  ASSUME NEW F, FrameOK(F), UNCHANGED <<files, object_registry, module_registry>>,
         groups' = groups \/ JoinedTo(F) = 0
  PROVE  FrameOK(F)'
<1>1. Shaped(F)'
  <2>1. Shaped(F)
    BY DEF FrameOK
  <2>2. Chained(F.opened)' <=> Chained(F.opened)
    BY DEF Chained
  <2>3. KeysOf(F.opened)' = KeysOf(F.opened)
    BY DEF KeysOf, OwnKeys
  <2>7. Loading(F.loading, F.opened)' <=> Loading(F.loading, F.opened)
    <3>1. \A f : Uses(f)' = Uses(f)
      BY DEF Uses
    <3>2. QED
      BY <3>1 DEF Loading
  <2>4. Es(F)' = Es(F) /\ Cs(F)' = Cs(F)
    BY DEF Es, Cs, Listed
  <2>5. Combined(KeysOf(F.opened), DOMAIN F.opened)' = Combined(KeysOf(F.opened), DOMAIN F.opened)
    BY <2>3 DEF Combined
  <2>6. QED
    BY <2>1, <2>2, <2>4, <2>5, <2>7 DEF Shaped
<1>2. /\ Es(F)' = Es(F) /\ Cs(F)' = Cs(F)
      /\ MadeTo(F)' = MadeTo(F) /\ SoughtTo(F)' = SoughtTo(F) /\ JoinedTo(F)' = JoinedTo(F)
  BY DEF Es, Cs, Listed, MadeTo, SoughtTo, JoinedTo
<1>3. \A k : Making(F, k)' = Making(F, k) /\ Modular(F, k)' = Modular(F, k)
             /\ Seeking(F, k)' = Seeking(F, k)
  BY DEF Making, Modular, Seeking, Registered, Complete, Es, Listed
<1>4. /\ \A I : Names(F, I)' = Names(F, I)
      /\ \A I, n : Called(F, I, n)' = Called(F, I, n)
  BY DEF Names, Called, Es, Listed
<1>5. ObjectsOK(F)'
  BY <1>2, <1>3, <1>4 DEF FrameOK, ObjectsOK, Complete
<1>6. ModulesOK(F)'
  BY <1>2, <1>3, <1>4 DEF FrameOK, ModulesOK
<1>7. PortsOK(F)'
  BY DEF FrameOK, PortsOK, MakesPort, ThroughNull, Cs, Listed
<1>8. JoinedOK(F)'
  <2>1. CASE JoinedTo(F) = 0
    <3>1. IsList(F.pairs) /\ ToSet(F.pairs) = {}
      BY <2>1, NoPairs DEF FrameOK
    <3>2. ({Cs(F)[i] : i \in 1 .. JoinedTo(F)})' = {}
      BY <1>2, <2>1
    <3>3. Links(F)' = {}
      BY <3>1 DEF Links
    <3>4. QED
      BY <3>1, <3>2, <3>3 DEF JoinedOK
  <2>2. CASE groups' = groups
    <3>1. \A c : Linked(F, c)' = Linked(F, c) /\ (NoNull(F, c)' <=> NoNull(F, c))
      BY <2>2 DEF Linked, NoNull, SrcEnds, DstEnds, HasSource, Members, Matches,
                  WildcardMatch, Plain, ThroughNull
    <3>2. ({Cs(F)[i] : i \in 1 .. JoinedTo(F)})' = {Cs(F)[i] : i \in 1 .. JoinedTo(F)}
      BY <1>2
    <3>3. Links(F)' = Links(F)
      BY DEF Links
    <3>4. JoinedOK(F)
      BY DEF FrameOK
    <3>5. QED
      BY <3>1, <3>2, <3>3, <3>4 DEF JoinedOK
  <2>3. QED
    BY <2>1, <2>2
<1>9. QED
  BY <1>1, <1>5, <1>6, <1>7, <1>8 DEF FrameOK

-----------------------------------------------------------------------------
\* The stack of calls.
LEMMA StackIs ==
  ASSUME NEW s, IsList(s), s # <<>>
  PROVE  /\ Len(s) \in Nat \ {0}
         /\ Last(s) = s[Len(s)] /\ Last(s) \in ToSet(s)
         /\ Front(s) \in Seq(ToSet(s)) /\ Len(Front(s)) = Len(s) - 1
         /\ \A i \in 1 .. Len(s) - 1 : Front(s)[i] = s[i] /\ s[i] \in ToSet(s)
<1>1. s \in Seq(ToSet(s))
  BY DEF IsList
<1>2. Len(s) \in Nat \ {0}
  BY <1>1
<1>3. Last(s) = s[Len(s)] /\ Last(s) \in ToSet(s)
  BY <1>1, <1>2 DEF Last
<1>4. PICK S, n : S = ToSet(s) /\ n = Len(s) - 1
  OBVIOUS
<1>5. n \in Nat /\ 1 \in Int /\ \A i \in 1 .. n : s[i] \in S
  BY <1>1, <1>2, <1>4
<1>6. /\ SubSeq(s, 1, n) \in Seq(S)
      /\ Len(SubSeq(s, 1, n)) = IF 1 <= n THEN n - 1 + 1 ELSE 0
      /\ \A i \in 1 .. n - 1 + 1 : SubSeq(s, 1, n)[i] = s[1 + i - 1]
  BY <1>5, SubSeqProperties
<1>7. Front(s) = SubSeq(s, 1, n)
  BY <1>4 DEF Front
<1>8. Front(s) \in Seq(S) /\ Len(Front(s)) = n /\ \A i \in 1 .. n : Front(s)[i] = s[i]
  BY <1>5, <1>6, <1>7
<1>9. QED
  BY <1>2, <1>3, <1>4, <1>5, <1>8

\* The last of the calls has another state.
OtherLast(t, s, G) ==
  /\ IsList(t) /\ t # <<>> /\ Len(t) = Len(s) /\ t[Len(s)] = G /\ Last(t) = G
  /\ \A i \in 1 .. Len(s) - 1 : t[i] = s[i]
  /\ ToSet(t) \subseteq ToSet(s) \cup {G}

LEMMA WithLast ==
  ASSUME NEW s, IsList(s), s # <<>>, NEW G
  PROVE  OtherLast(Append(Front(s), G), s, G)
<1>0. PICK t : t = Append(Front(s), G)
  OBVIOUS
<1>1. PICK A, f, n : A = ToSet(s) \cup {G} /\ f = Front(s) /\ n = Len(s)
  OBVIOUS
<1>2. n \in Nat \ {0} /\ f \in Seq(A) /\ Len(f) = n - 1 /\ \A i \in 1 .. n - 1 : f[i] = s[i]
  BY <1>1, StackIs
<1>3. G \in A
  BY <1>1
<1>4. /\ t \in Seq(A) /\ t # <<>> /\ Len(t) = n /\ t[n] = G
      /\ \A i \in 1 .. n - 1 : t[i] = f[i]
  BY <1>0, <1>1, <1>2, <1>3
<1>5. Last(t) = G
  BY <1>4 DEF Last
<1>6. ToSet(t) \subseteq A
  BY <1>4 DEF ToSet
<1>7. IsList(t) /\ t # <<>> /\ Len(t) = Len(s) /\ t[Len(s)] = G
  BY <1>1, <1>4, ListOver
<1>8. OtherLast(t, s, G)
  BY <1>1, <1>2, <1>4, <1>5, <1>6, <1>7 DEF OtherLast
<1>9. QED
  BY <1>0, <1>8

LEMMA StillInTurn ==
  ASSUME NEW s, CalledInTurn(s), s # <<>>, NEW G,
         Len(s) = 1 \/ (G.opened[1] = Last(s).opened[1] /\ G.by_main = Last(s).by_main),
         NEW t, t = Append(Front(s), G)
  PROVE  CalledInTurn(t)
<1>1. PICK n : n = Len(s)
  OBVIOUS
<1>2. IsList(s) /\ n \in Nat \ {0} /\ Last(s) = s[n]
  BY <1>1, StackIs DEF CalledInTurn
<1>3. /\ IsList(t) /\ Len(t) = n /\ t[n] = G
      /\ \A i \in 1 .. n - 1 : t[i] = s[i]
  <2>1. /\ IsList(t) /\ Len(t) = Len(s) /\ t[Len(s)] = G
        /\ \A i \in 1 .. Len(s) - 1 : t[i] = s[i]
    <3>1. OtherLast(t, s, G)
      BY <1>2, WithLast
    <3>2. QED
      BY <3>1 DEF OtherLast
  <2>2. QED
    BY <1>1, <2>1
<1>4. ASSUME NEW i \in 1 .. n - 1
      PROVE  /\ t[i].phase = "internal"
             /\ CallsFor(t[i], t[i + 1].opened[1])
             /\ ~ t[i + 1].by_main
  <2>1. t[i] = s[i] /\ s[i].phase = "internal" /\ CallsFor(s[i], s[i + 1].opened[1])
        /\ ~ s[i + 1].by_main
    BY <1>1, <1>3 DEF CalledInTurn
  <2>2. t[i + 1].opened[1] = s[i + 1].opened[1] /\ t[i + 1].by_main = s[i + 1].by_main
    <3>1. CASE i = n - 1
      <4>1. i + 1 = n /\ n # 1
        BY <1>2, <3>1
      <4>2. QED
        BY <1>1, <1>2, <1>3, <4>1
    <3>2. CASE i # n - 1
      <4>1. i + 1 \in 1 .. n - 1
        BY <1>2, <3>2
      <4>2. QED
        BY <1>3, <4>1
    <3>3. QED
      BY <3>1, <3>2
  <2>3. QED
    BY <2>1, <2>2
<1>5. QED
  BY <1>3, <1>4 DEF CalledInTurn

\* A call more, by the last one.
LEMMA OneCallMore ==
  ASSUME NEW s, CalledInTurn(s), s # <<>>, Last(s).phase = "internal",
         NEW G, ~ G.by_main, CallsFor(Last(s), G.opened[1]),
         NEW t, t = Append(s, G)
  PROVE  CalledInTurn(t) /\ ToSet(t) \subseteq ToSet(s) \cup {G} /\ t # <<>>
<1>1. PICK A, n : A = ToSet(s) \cup {G} /\ n = Len(s)
  OBVIOUS
<1>2. IsList(s) /\ n \in Nat \ {0} /\ Last(s) = s[n]
  BY <1>1, StackIs DEF CalledInTurn
<1>3. s \in Seq(A) /\ G \in A
  BY <1>1, <1>2 DEF IsList
<1>4. /\ t \in Seq(A) /\ t # <<>> /\ Len(t) = n + 1 /\ t[n + 1] = G
      /\ \A i \in 1 .. n : t[i] = s[i]
  BY <1>1, <1>2, <1>3
<1>5. ToSet(t) \subseteq A
  BY <1>4 DEF ToSet
<1>6. ASSUME NEW i \in 1 .. n
      PROVE  /\ t[i].phase = "internal"
             /\ CallsFor(t[i], t[i + 1].opened[1])
             /\ ~ t[i + 1].by_main
  <2>1. CASE i = n
    BY <1>2, <1>4, <2>1
  <2>2. CASE i # n
    <3>1. i \in 1 .. n - 1 /\ i + 1 \in 1 .. n
      BY <1>2, <2>2
    <3>2. s[i].phase = "internal" /\ CallsFor(s[i], s[i + 1].opened[1]) /\ ~ s[i + 1].by_main
      BY <1>1, <3>1 DEF CalledInTurn
    <3>3. QED
      BY <1>4, <3>1, <3>2
  <2>3. QED
    BY <2>1, <2>2
<1>7. Len(t) - 1 = n
  BY <1>2, <1>4
<1>8. QED
  BY <1>1, <1>4, <1>5, <1>6, <1>7, ListOver DEF CalledInTurn

\* The last call returns.
LEMMA OneCallLess ==
  ASSUME NEW s, CalledInTurn(s), s # <<>>, NEW t, t = Front(s)
  PROVE  /\ CalledInTurn(t) /\ ToSet(t) \subseteq ToSet(s)
         /\ Len(s) # 1 => t # <<>>
<1>1. PICK A, n : A = ToSet(s) /\ n = Len(s)
  OBVIOUS
<1>2. /\ IsList(s) /\ n \in Nat \ {0} /\ t \in Seq(A) /\ Len(t) = n - 1
      /\ \A i \in 1 .. n - 1 : t[i] = s[i]
  BY <1>1, StackIs DEF CalledInTurn
<1>3. ToSet(t) \subseteq A
  BY <1>2 DEF ToSet
<1>4. n # 1 => t # <<>>
  BY <1>2
<1>5. ASSUME NEW i \in 1 .. Len(t) - 1
      PROVE  /\ t[i].phase = "internal"
             /\ CallsFor(t[i], t[i + 1].opened[1])
             /\ ~ t[i + 1].by_main
  <2>1. i \in 1 .. n - 1 /\ i + 1 \in 1 .. n - 1
    BY <1>2
  <2>2. s[i].phase = "internal" /\ CallsFor(s[i], s[i + 1].opened[1]) /\ ~ s[i + 1].by_main
    BY <1>1, <2>1 DEF CalledInTurn
  <2>3. QED
    BY <1>2, <2>1, <2>2
<1>6. QED
  BY <1>1, <1>2, <1>3, <1>4, <1>5, ListOver DEF CalledInTurn

-----------------------------------------------------------------------------
\* More files in a row than there are: one of them comes twice.
LEMMA TwiceTheSame ==
  ASSUME NEW n \in Nat, n >= MaxDepth, NEW h \in [1 .. n -> Files]
  PROVE  \E i, j \in 1 .. n : i < j /\ h[i] = h[j]
<1>1. IsFiniteSet(1 .. n) /\ Cardinality(1 .. n) = n
  BY FS_Interval
<1>2. IsFiniteSet(Files) /\ Cardinality(Files) \in Nat
  BY FinitelyMany, FS_CardinalityType
<1>3. Cardinality(Files) < Cardinality(1 .. n)
  BY <1>1, <1>2, DeepEnough
<1>4. \E x, y \in 1 .. n : x # y /\ h[x] = h[y]
  BY <1>1, <1>2, <1>3, FS_PigeonHole
<1>5. PICK x, y \in 1 .. n : x # y /\ h[x] = h[y]
  BY <1>4
<1>6. x < y \/ y < x
  BY <1>5
<1>7. QED
  BY <1>5, <1>6

LEMMA UsesIncluded ==
  ASSUME NEW f, files[f].kind = "object"
  PROVE  files[f].include \in Uses(f)
BY DEF Uses

\* So many includes are open that some file includes itself, through others.
LEMMA IncludesInCircle ==
  ASSUME NEW l, NEW q, Loading(l, q), Len(l) >= MaxDepth
  PROVE  Circular
<1>1. PICK n, o : n = Len(l) /\ o = [i \in 1 .. n |-> l[i].file]
  OBVIOUS
<1>2. l \in Seq(Openings) /\ n \in Nat /\ n >= MaxDepth
  BY <1>1 DEF Loading
<1>3. o \in [1 .. n -> Files]
  <2>1. \A i \in 1 .. n : l[i] \in Openings
    BY <1>1, <1>2
  <2>2. \A i \in 1 .. n : l[i].file \in Files
    BY <2>1 DEF Openings
  <2>3. QED
    BY <1>1, <2>2
<1>4. PICK i, j \in 1 .. n : i < j /\ o[i] = o[j]
  BY <1>2, <1>3, TwiceTheSame
<1>5. PICK C : C = {o[k] : k \in i .. j - 1}
  OBVIOUS
<1>6. C \in SUBSET Files
  BY <1>2, <1>3, <1>4, <1>5
<1>7. o[i] \in C
  <2>1. i \in i .. j - 1
    BY <1>4
  <2>2. QED
    BY <1>5, <2>1
<1>8. ASSUME NEW f \in C PROVE Uses(f) \cap C # {}
  <2>1. PICK k \in i .. j - 1 : f = o[k]
    BY <1>5
  <2>2. k \in 1 .. n - 1
    BY <1>2, <1>4
  <2>3. k \in 1 .. n /\ k + 1 \in 1 .. n
    BY <1>2, <2>2
  <2>4. o[k + 1] \in Uses(f)
    BY <1>1, <2>1, <2>2, <2>3 DEF Loading
  <2>5. o[k + 1] \in C
    <3>1. CASE k = j - 1
      <4>1. k + 1 = j
        BY <1>4, <3>1
      <4>2. QED
        BY <1>4, <1>7, <4>1
    <3>2. CASE k # j - 1
      <4>1. k + 1 \in i .. j - 1
        BY <1>4, <3>2
      <4>2. QED
        BY <1>5, <4>1
    <3>3. QED
      BY <3>1, <3>2
  <2>6. QED
    BY <2>4, <2>5
<1>9. QED
  BY <1>6, <1>7, <1>8 DEF Circular

\* The file with the entries of a frame uses the file that the frame calls for.
LEMMA UsedByEntries ==
  ASSUME files \in FileSystems, NEW F, FrameOK(F), NEW f, CallsFor(F, f)
  PROVE  \E m \in 1 .. Len(F.opened) : f \in Uses(F.opened[m])
<1>1. Shaped(F) /\ F.opened \in Seq(Files)
  BY DEF FrameOK, Shaped, Chained
<1>2. PICK e \in ToSet(Es(F)) :
        e.config # None /\ files[e.config].kind = "string" /\ files[e.config].file = f
  BY DEF CallsFor
<1>3. "modules" \in DOMAIN F.config
  <2>1. SUFFICES ASSUME "modules" \notin DOMAIN F.config PROVE FALSE
    OBVIOUS
  <2>2. Es(F) = <<>>
    BY <2>1 DEF Es, Listed
  <2>3. QED
    BY <1>2, <2>2, EmptyList
<1>4. PICK m \in DOMAIN F.opened : /\ "modules" \in DOMAIN OwnKeys(F.opened[m])
                                   /\ F.config["modules"] = OwnKeys(F.opened[m])["modules"]
  BY <1>1, <1>3, HeldByFile
<1>5. PICK g : g = F.opened[m]
  OBVIOUS
<1>6. Es(F) = OwnKeys(g)["modules"]
  BY <1>3, <1>4, <1>5 DEF Es, Listed
<1>7. files[g].kind = "object" /\ OwnKeys(g) = files[g].keys
  BY <1>4, <1>5 DEF OwnKeys, EmptyFunction
<1>8. f \in Uses(g)
  BY <1>2, <1>4, <1>5, <1>6, <1>7 DEF Uses
<1>9. m \in 1 .. Len(F.opened)
  BY <1>1, <1>4
<1>10. QED
  BY <1>5, <1>8, <1>9

\* So many calls are open that some module configures itself, through others.
LEMMA CallsInCircle ==
  ASSUME files \in FileSystems, NEW s, CalledInTurn(s), \A F \in ToSet(s) : FrameOK(F),
         Len(s) >= MaxDepth
  PROVE  Circular
<1>1. PICK n, h : n = Len(s) /\ h = [k \in 1 .. n |-> s[k].opened[1]]
  OBVIOUS
<1>2. n \in Nat /\ n >= MaxDepth /\ \A k \in 1 .. n : s[k] \in ToSet(s)
  BY <1>1, ListFacts DEF CalledInTurn
<1>3. \A k \in 1 .. n : FrameOK(s[k])
  BY <1>2
<1>4. \A k \in 1 .. n : Chained(s[k].opened) /\ s[k].opened \in Seq(Files)
                        /\ Len(s[k].opened) \in Nat \ {0} /\ s[k].opened[1] \in Files
  <2>1. ASSUME NEW o, Chained(o)
        PROVE  o \in Seq(Files) /\ Len(o) \in Nat \ {0} /\ o[1] \in Files
    BY <2>1 DEF Chained
  <2>2. QED
    BY <1>3, <2>1 DEF FrameOK, Shaped
<1>5. h \in [1 .. n -> Files]
  BY <1>1, <1>4
<1>6. PICK i, j \in 1 .. n : i < j /\ h[i] = h[j]
  BY <1>2, <1>5, TwiceTheSame
\* Up to the file m, those that call k has opened lead to the file of call k + 1.
<1> DEFINE Leads(k, m) == m \in 1 .. Len(s[k].opened) /\ h[k + 1] \in Uses(s[k].opened[m])
           OnTheWay(k, p) == /\ k \in i .. j - 1
                             /\ \E m \in 1 .. Len(s[k].opened) : p \in 1 .. m /\ Leads(k, m)
           C == {f \in Files : \E k \in 1 .. n : \E p \in 1 .. Len(s[k].opened) :
                                  OnTheWay(k, p) /\ f = s[k].opened[p]}
<1>7. ASSUME NEW k \in i .. j - 1
      PROVE  k \in 1 .. n /\ k + 1 \in 1 .. n /\ \E m \in 1 .. Len(s[k].opened) : Leads(k, m)
  <2>1. k \in 1 .. n /\ k \in 1 .. n - 1 /\ k + 1 \in 1 .. n
    BY <1>2, <1>6
  <2>2. CallsFor(s[k], h[k + 1])
    BY <1>1, <2>1 DEF CalledInTurn
  <2>3. FrameOK(s[k])
    BY <1>3, <2>1
  <2>4. \E m \in 1 .. Len(s[k].opened) : h[k + 1] \in Uses(s[k].opened[m])
    BY <2>2, <2>3, UsedByEntries
  <2>5. QED
    BY <2>1, <2>4
<1> HIDE DEF Leads
<1>8. ASSUME NEW k \in i .. j - 1 PROVE h[k] \in C
  <2>1. PICK m \in 1 .. Len(s[k].opened) : Leads(k, m)
    BY <1>7
  <2>2. k \in 1 .. n /\ 1 \in 1 .. m /\ 1 \in 1 .. Len(s[k].opened)
    <3>1. k \in 1 .. n
      BY <1>7
    <3>2. PICK l : l = Len(s[k].opened) /\ l \in Nat \ {0}
      BY <1>4, <3>1
    <3>3. 1 \in 1 .. m /\ 1 \in 1 .. l
      BY <2>1, <3>2
    <3>4. QED
      BY <3>1, <3>2, <3>3
  <2>3. OnTheWay(k, 1)
    BY <2>1, <2>2
  <2>4. h[k] = s[k].opened[1] /\ h[k] \in Files
    BY <1>1, <1>5, <2>2
  <2>5. QED
    BY <2>2, <2>3, <2>4
<1>9. ASSUME NEW f \in C PROVE Uses(f) \cap C # {}
  <2>1. PICK k \in 1 .. n : \E p \in 1 .. Len(s[k].opened) : OnTheWay(k, p) /\ f = s[k].opened[p]
    OBVIOUS
  <2>2. PICK p \in 1 .. Len(s[k].opened) : OnTheWay(k, p) /\ f = s[k].opened[p]
    BY <2>1
  <2>3. PICK m \in 1 .. Len(s[k].opened) : p \in 1 .. m /\ Leads(k, m)
    BY <2>2
  <2>4. k \in i .. j - 1
    BY <2>2
  <2>5. CASE p = m
    <3>1. h[k + 1] \in Uses(f)
      BY <2>2, <2>3, <2>5 DEF Leads
    <3>2. h[k + 1] \in C
      <4>1. CASE k = j - 1
        <5>1. k + 1 = j /\ i \in i .. j - 1
          BY <1>6, <4>1
        <5>2. QED
          BY <1>6, <1>8, <5>1
      <4>2. CASE k # j - 1
        <5>1. k + 1 \in i .. j - 1
          BY <1>6, <2>4, <4>2
        <5>2. QED
          BY <1>8, <5>1
      <4>3. QED
        BY <4>1, <4>2
    <3>3. QED
      BY <3>1, <3>2
  <2>6. CASE p # m
    <3>1. PICK o, l : o = s[k].opened /\ l = Len(o) /\ l \in Nat
      BY <1>4
    <3>2. p \in 1 .. l - 1 /\ p + 1 \in 1 .. m /\ p + 1 \in 1 .. l
      BY <2>3, <2>6, <3>1
    <3>3. files[f].kind = "object" /\ o[p + 1] = files[f].include
      BY <1>4, <2>2, <3>1, <3>2 DEF Chained
    <3>4. o[p + 1] \in Uses(f)
      BY <3>3, UsesIncluded
    <3>5. o[p + 1] \in Files
      <4>1. o \in Seq(Files)
        BY <1>4, <3>1
      <4>2. QED
        BY ONLY <3>1, <3>2, <4>1
    <3>6. OnTheWay(k, p + 1)
      BY <2>3, <2>4, <3>2
    <3>7. o[p + 1] \in C
      BY <3>1, <3>2, <3>5, <3>6
    <3>8. QED
      BY <3>4, <3>7
  <2>7. QED
    BY <2>5, <2>6
<1>10. C \in SUBSET Files /\ C # {}
  <2>1. i \in i .. j - 1
    BY <1>6
  <2>2. QED
    BY <1>8, <2>1
<1> HIDE DEF C
<1>11. QED
  BY <1>9, <1>10 DEF Circular

-----------------------------------------------------------------------------
\* The last call, on which the steps work.
LEMMA TopIs ==
  ASSUME IInv, outcome = "running", NEW F, F = Top
  PROVE  /\ stack # <<>> /\ IsList(stack) /\ CalledInTurn(stack)
         /\ F = Last(stack) /\ F \in ToSet(stack) /\ FrameOK(F)
         /\ files \in FileSystems /\ GroupsOK
<1>1. /\ stack # <<>> /\ StackOK /\ files \in FileSystems /\ GroupsOK
      /\ \A X \in ToSet(stack) : FrameOK(X)
  BY DEF IInv
<1>2. IsList(stack) /\ CalledInTurn(stack)
  BY <1>1 DEF StackOK, CalledInTurn
<1>3. F = Last(stack)
  BY DEF Top
<1>4. F \in ToSet(stack)
  BY <1>1, <1>2, <1>3, StackIs
<1>5. QED
  BY <1>1, <1>2, <1>3, <1>4

\* The other calls wait, so that the groups may change.
LEMMA OthersWait ==
  ASSUME NEW s, CalledInTurn(s), s # <<>>, NEW F \in ToSet(s), F # Last(s)
  PROVE  JoinedTo(F) = 0
<1>1. PICK n : n = Len(s) /\ n \in Nat \ {0} /\ Last(s) = s[n]
  BY StackIs DEF CalledInTurn
<1>2. ToSet(s) = {s[i] : i \in 1 .. n}
  BY <1>1, ListFacts DEF CalledInTurn
<1>3. PICK i \in 1 .. n : F = s[i]
  BY <1>2
<1>4. i \in 1 .. n - 1
  BY <1>1, <1>3
<1>5. F.phase = "internal"
  BY <1>1, <1>3, <1>4 DEF CalledInTurn
<1>6. QED
  BY <1>5 DEF JoinedTo

LEMMA StackKept ==
  ASSUME NEW s, CalledInTurn(s), files' = files, stack' = s
  PROVE  StackOK'
BY DEF StackOK, CalledInTurn, CallsFor, Es, Listed

\* The last call goes on as G.
LEMMA GoKeeps ==
  ASSUME IInv, outcome = "running", outcome' = "running",
         UNCHANGED <<files, object_registry, module_registry>>,
         NEW F, F = Top, NEW G, FrameOK(G), stack' = Replaced(G),
         Len(stack) = 1 \/ (G.opened[1] = F.opened[1] /\ G.by_main = F.by_main),
         GroupsOK', groups' = groups \/ JoinedTo(G) = 0
  PROVE  IInv'
<1>1. stack # <<>> /\ IsList(stack) /\ CalledInTurn(stack) /\ F = Last(stack)
  BY TopIs
<1>2. PICK s, t : s = stack /\ t = Append(Front(s), G)
  OBVIOUS
<1>3. stack' = t
  BY <1>2 DEF Replaced
<1>4. CalledInTurn(t)
  <2>1. Len(s) = 1 \/ (G.opened[1] = Last(s).opened[1] /\ G.by_main = Last(s).by_main)
    BY <1>1, <1>2
  <2>2. CalledInTurn(s) /\ s # <<>>
    BY <1>1, <1>2
  <2>3. QED
    BY <1>2, <2>1, <2>2, StillInTurn
<1>5. OtherLast(t, s, G)
  BY <1>1, <1>2, WithLast
<1>6. StackOK'
  BY <1>3, <1>4, StackKept
<1>7. \A X \in ToSet(t) : FrameOK(X) /\ (groups' = groups \/ JoinedTo(X) = 0)
  <2> SUFFICES ASSUME NEW X \in ToSet(t)
               PROVE  FrameOK(X) /\ (groups' = groups \/ JoinedTo(X) = 0)
    OBVIOUS
  <2>1. FrameOK(X)
    BY <1>2, <1>5 DEF OtherLast, IInv
  <2>2. JoinedTo(X) = 0 \/ X = G
    BY <1>4, <1>5, OthersWait DEF OtherLast
  <2>3. QED
    BY <2>1, <2>2
<1>8. \A X \in ToSet(t) : FrameOK(X)'
  BY <1>7, FrameKept
<1>9. (\A X \in ToSet(stack) : FrameOK(X))'
  BY <1>3, <1>8
<1>10. stack' # <<>>
  BY <1>3, <1>5 DEF OtherLast
<1>11. QED
  BY <1>6, <1>9, <1>10 DEF IInv, Outcomes

\* Nothing but the outcome changes.
LEMMA FramesKept ==
  ASSUME IInv, UNCHANGED <<files, object_registry, module_registry, groups, stack>>
  PROVE  /\ StackOK' /\ GroupsOK'
         /\ (\A F \in ToSet(stack) : FrameOK(F))'
<1>1. StackOK'
  <2>1. CalledInTurn(stack)
    BY DEF IInv, StackOK
  <2>2. PICK s : s = stack
    OBVIOUS
  <2>3. QED
    BY <2>1, <2>2, StackKept
<1>2. GroupsOK'
  BY DEF IInv, GroupsOK
<1>3. \A F \in ToSet(stack) : FrameOK(F)'
  BY FrameKept DEF IInv
<1>4. QED
  BY <1>1, <1>2, <1>3

LEMMA SameMistakes ==
  ASSUME NEW F, UNCHANGED <<files, object_registry, module_registry, groups>>
  PROVE  /\ UnknownLaidOut(F)' <=> UnknownLaidOut(F)
         /\ PortOfConfigured(F)' <=> PortOfConfigured(F)
<1>1. \A key : Said(F, key)' = Said(F, key)
  BY DEF Said, OwnKeys
<1>2. UnknownLaidOut(F)' <=> UnknownLaidOut(F)
  BY <1>1 DEF UnknownLaidOut, Complete
<1>3. Entries(F)' = Entries(F) /\ Connections(F)' = Connections(F)
  BY <1>1 DEF Entries, Connections
<1>4. \A n : IsModule(F, n)' <=> IsModule(F, n)
  BY <1>3 DEF IsModule, Complete
<1>5. \A end : Members(end)' = Members(end)
  BY DEF Members
<1> DEFINE Named == {e.name : e \in {x \in Entries(F) : Complete(x)
                              /\ x.type \in object_registry \cup module_registry}}
           Ends(c) ==
             LET ss == Members(c.src) \ c.exclude
                 ds == IF ss = {} THEN {} ELSE Members(c.dst) \ c.exclude
                 patterned == IF \E n \in Named : /\ Matches(c.src, n)
                                                 /\ Plain(n, None) \notin c.exclude
                              THEN Members(c.dst) \ c.exclude ELSE {}
             IN  {c.src, c.dst} \cup ss \cup ds \cup patterned
           Bad(end) == /\ end.port # None
                       /\ \E e \in Entries(F) : e.config # None /\ e.name = end.module
                       /\ ~ IsModule(F, end.module)
<1>6. Named' = Named
  BY <1>3 DEF Complete
<1>7. \A c : Ends(c)' = Ends(c)
  <2> HIDE DEF Named
  <2>1. QED
    BY <1>5, <1>6 DEF Matches, WildcardMatch, Plain
<1>8. \A end : Bad(end)' <=> Bad(end)
  BY <1>3, <1>4
<1>9. PortOfConfigured(F) <=> \E c \in Connections(F) : \E end \in Ends(c) : Bad(end)
  BY Zenon DEF PortOfConfigured
<1>10. PortOfConfigured(F)' <=> \E c \in Connections(F)' : \E end \in Ends(c)' : Bad(end)'
  BY Zenon DEF PortOfConfigured
<1> HIDE DEF Named, Ends, Bad
<1>11. PortOfConfigured(F)' <=> PortOfConfigured(F)
  BY <1>3, <1>7, <1>8, <1>9, <1>10
<1>12. QED
  BY <1>2, <1>11

\* instantiateAll() throws.
LEMMA ThrowKeeps ==
  ASSUME IInv, UNCHANGED <<files, object_registry, module_registry>>, Stop("threw")
  PROVE  IInv'
<1>1. UNCHANGED <<groups, stack>> /\ outcome' = "threw"
  BY DEF Stop
<1>2. StackOK' /\ GroupsOK' /\ (\A F \in ToSet(stack) : FrameOK(F))'
  BY <1>1, FramesKept
<1>3. QED
  BY <1>1, <1>2 DEF IInv, Outcomes

LEMMA CrashKeeps ==
  ASSUME IInv, outcome = "running",
         UNCHANGED <<files, object_registry, module_registry>>, Stop("crashed"),
         NEW F, F = Top, UnknownLaidOut(F) \/ PortOfConfigured(F)
  PROVE  IInv'
<1>1. UNCHANGED <<groups, stack>> /\ outcome' = "crashed"
  BY DEF Stop
<1>2. StackOK' /\ GroupsOK' /\ (\A X \in ToSet(stack) : FrameOK(X))'
  BY <1>1, FramesKept
<1>3. F \in ToSet(stack') /\ F = Last(stack')
  BY <1>1, TopIs
<1>4. UnknownLaidOut(F)' \/ PortOfConfigured(F)'
  BY <1>1, SameMistakes
<1>5. QED
  BY <1>1, <1>2, <1>3, <1>4 DEF IInv, Outcomes

LEMMA OverflowKeeps ==
  ASSUME IInv, UNCHANGED <<files, object_registry, module_registry>>, Stop("overflow"),
         Circular
  PROVE  IInv'
<1>1. UNCHANGED <<groups, stack>> /\ outcome' = "overflow"
  BY DEF Stop
<1>2. StackOK' /\ GroupsOK' /\ (\A F \in ToSet(stack) : FrameOK(F))'
  BY <1>1, FramesKept
<1>3. Circular'
  <2>1. \A f : Uses(f)' = Uses(f)
    BY DEF Uses
  <2>2. QED
    BY <2>1 DEF Circular
<1>4. QED
  BY <1>1, <1>2, <1>3 DEF IInv, Outcomes

\* The last call goes on, and the groups are as before.
LEMMA GoesOn ==
  ASSUME IInv, outcome = "running", UNCHANGED <<files, object_registry, module_registry>>,
         NEW F, F = Top, NEW G, FrameOK(G), Go(G),
         Len(stack) = 1 \/ (G.opened[1] = F.opened[1] /\ G.by_main = F.by_main)
  PROVE  IInv'
<1>1. stack' = Replaced(G) /\ groups' = groups /\ outcome' = "running"
  BY DEF Go
<1>2. GroupsOK'
  BY <1>1 DEF GroupsOK, IInv
<1>3. QED
  BY <1>1, <1>2, GoKeeps

-----------------------------------------------------------------------------
\* The steps keep the invariant.
LEMMA StepLoadInclude ==
  ASSUME IInv, LoadInclude, UNCHANGED <<files, object_registry, module_registry>>
  PROVE  IInv'
<1>1. PICK F : F = Top
  OBVIOUS
<1>2. PICK e, f : e = Last(F.loading) /\ f = Includes(e.file)[e.next]
  OBVIOUS
<1>3. PICK top : top = (e.top /\ e.next = 1 /\ Included(e.file) # None)
  OBVIOUS
<1>4. PICK l, q : /\ l = Append(Append(Front(F.loading), OneOn(e)), Opening(f, top))
                  /\ q = IF top THEN Append(F.opened, f) ELSE F.opened
  OBVIOUS
<1>5. /\ outcome = "running" /\ F.phase = "load" /\ e.next <= Len(Includes(e.file))
  BY <1>1, <1>2 DEF LoadInclude, Running
<1>6. FrameOK(F) /\ files \in FileSystems
  BY <1>1, <1>5, TopIs
<1>7. Loading(F.loading, F.opened) /\ Chained(F.opened)
  BY <1>5, <1>6 DEF FrameOK, Shaped
<1>8. IF Len(F.loading) < MaxDepth THEN Go([F EXCEPT !.loading = l, !.opened = q])
      ELSE Stop("overflow")
  <2>1. IF Len(F.loading) < MaxDepth
        THEN Go([F EXCEPT !.loading = Append(Append(Front(@), [e EXCEPT !.next = @ + 1]),
                                             Opening(f, top)),
                          !.opened = IF top THEN Append(@, f) ELSE @])
        ELSE Stop("overflow")
    BY <1>1, <1>2, <1>3, Zenon DEF LoadInclude
  <2>2. QED
    BY <1>4, <2>1 DEF OneOn
<1>9. CASE Len(F.loading) < MaxDepth
  <2>1. PICK G : G = LoadsTo(F, l, q)
    OBVIOUS
  <2>2. Loading(l, q) /\ Chained(q) /\ q[1] = F.opened[1]
    <3>1. PICK u, o : u = F.loading /\ o = F.opened
      OBVIOUS
    <3>2. l = Entered(u, e, f, top)
      BY <1>2, <1>4, <3>1, Zenon DEF Entered
    <3>3. Enters(u, o, e, f, top, q)
      BY <1>2, <1>3, <1>4, <1>5, <1>7, <3>1, Zenon DEF Enters
    <3>4. /\ Loading(Entered(u, e, f, top), q)
          /\ Chained(q) /\ q[1] = o[1]
      <4>1. files \in FileSystems
        BY <1>6
      <4>2. Loading(Entered(u, e, f, top), q)
        BY ONLY <4>1, <3>3, NextInclude, Zenon
      <4>3. Chained(q) /\ q[1] = o[1]
        BY ONLY <4>1, <3>3, NextInclude
      <4>4. QED
        BY <4>2, <4>3, Zenon
    <3>5. QED
      BY <3>1, <3>2, <3>4, Zenon
  <2>3. FrameOK(G) /\ G.opened[1] = F.opened[1] /\ G.by_main = F.by_main
    BY <1>5, <1>6, <2>1, <2>2, LoadsOn
  <2>4. Go(G)
    BY <1>8, <1>9, <2>1 DEF LoadsTo
  <2>5. QED
    BY <1>1, <1>5, <2>3, <2>4, GoesOn
<1>10. CASE ~ (Len(F.loading) < MaxDepth)
  <2>1. Len(F.loading) >= MaxDepth
    <3>1. Len(F.loading) \in Nat
      BY <1>7 DEF Loading
    <3>2. QED
      BY <1>10, <3>1, DeepEnough
  <2>2. Circular
    BY <1>7, <2>1, IncludesInCircle
  <2>3. Stop("overflow")
    BY <1>8, <1>10
  <2>4. QED
    BY <2>2, <2>3, OverflowKeeps
<1>11. QED
  BY <1>9, <1>10

LEMMA StepLoadReturn ==
  ASSUME IInv, LoadReturn, UNCHANGED <<files, object_registry, module_registry>>
  PROVE  IInv'
<1>1. PICK F, l : F = Top /\ l = Front(F.loading)
  OBVIOUS
<1>2. PICK G : G = [F EXCEPT !.loading = l]
  OBVIOUS
<1>3. outcome = "running" /\ F.phase = "load" /\ Len(F.loading) > 1 /\ Go(G)
  BY <1>1, <1>2 DEF LoadReturn, Running
<1>4. FrameOK(F)
  BY <1>1, <1>3, TopIs
<1>5. Loading(F.loading, F.opened) /\ Chained(F.opened) /\ DOMAIN F = Fields
  BY <1>3, <1>4 DEF FrameOK, Shaped
<1>6. Loading(l, F.opened)
  BY <1>1, <1>3, <1>5, NoMoreIncludes
<1>7. G = LoadsTo(F, l, F.opened)
  BY <1>2, <1>5 DEF Fields, LoadsTo
<1>8. FrameOK(G) /\ G.opened[1] = F.opened[1] /\ G.by_main = F.by_main
  BY <1>3, <1>4, <1>5, <1>6, <1>7, LoadsOn
<1>9. QED
  BY <1>1, <1>3, <1>8, GoesOn

LEMMA StepLoaded ==
  ASSUME IInv, Loaded, UNCHANGED <<files, object_registry, module_registry>>
  PROVE  IInv'
<1>1. PICK F : F = Top
  OBVIOUS
<1>2. PICK first : first = files[Head(F.opened)]
  OBVIOUS
<1>3. /\ outcome = "running" /\ F.phase = "load"
      /\ IF F.by_main # (first.kind = "string") THEN Stop("threw")
         ELSE IF F.by_main THEN Go(Call(first.file))
         ELSE Go([F EXCEPT !.config = Merged(F.opened), !.loading = <<>>, !.phase = "create"])
  BY <1>1, <1>2 DEF Loaded, Running
<1>4. FrameOK(F) /\ files \in FileSystems /\ stack # <<>> /\ CalledInTurn(stack)
      /\ F = Last(stack)
  BY <1>1, <1>3, TopIs
<1>5. CASE F.by_main # (first.kind = "string")
  BY <1>3, <1>5, ThrowKeeps
<1>6. CASE F.by_main = (first.kind = "string") /\ F.by_main
  <2>1. PICK f : f = Head(F.opened)
    OBVIOUS
  <2>2. f \in Files
    <3>1. Chained(F.opened)
      BY <1>4 DEF FrameOK, Shaped
    <3>2. QED
      BY <2>1, <3>1 DEF Chained
  <2>3. first.kind = "string"
    BY <1>6
  <2>4. first.file \in Files
    BY <1>2, <1>4, <2>1, <2>2, <2>3, Format
  <2>5. PICK G : G = Call(first.file)
    OBVIOUS
  <2>6. FrameOK(G)
    BY <2>4, <2>5, CallOK
  <2>7. Go(G)
    BY <1>3, <1>6, <2>5
  <2>8. Len(stack) = 1
    <3>1. PICK s, n : s = stack /\ n = Len(s)
      OBVIOUS
    <3>2. n \in Nat \ {0} /\ F = s[n]
      BY <1>4, <3>1, StackIs DEF CalledInTurn
    <3>3. SUFFICES ASSUME n # 1 PROVE FALSE
      BY <3>1
    <3>4. n - 1 \in 1 .. n - 1 /\ (n - 1) + 1 = n
      BY <3>2, <3>3
    <3>5. ~ s[n].by_main
      BY <1>4, <3>1, <3>4 DEF CalledInTurn
    <3>6. QED
      BY <1>6, <3>2, <3>5
  <2>9. QED
    BY <1>1, <1>3, <2>6, <2>7, <2>8, GoesOn
<1>7. CASE F.by_main = (first.kind = "string") /\ ~ F.by_main
  <2>1. PICK G : G = [F EXCEPT !.config = Merged(F.opened), !.loading = <<>>, !.phase = "create"]
    OBVIOUS
  <2>2. FrameOK(G) /\ G.opened[1] = F.opened[1] /\ G.by_main = F.by_main
    BY <1>3, <1>4, <2>1, LoadedOK
  <2>3. Go(G)
    BY <1>3, <1>7, <2>1
  <2>4. QED
    BY <1>1, <1>3, <2>2, <2>3, GoesOn
<1>8. QED
  BY <1>5, <1>6, <1>7

LEMMA StepCreate ==
  ASSUME IInv, Create, UNCHANGED <<files, object_registry, module_registry>>
  PROVE  IInv'
<1>1. PICK F : F = Top
  OBVIOUS
<1>2. outcome = "running" /\ F.phase = "create" /\ F.next <= Len(Es(F))
  BY <1>1 DEF Create, Running, Es
<1>3. FrameOK(F) /\ files \in FileSystems
  BY <1>1, <1>2, TopIs
<1>4. PICK e : e = Es(F)[F.next]
  OBVIOUS
<1>5. e = Top.config["modules"][Top.next]
  <2>1. F.next \in Nat \ {0}
    BY <1>3 DEF FrameOK, Shaped
  <2>2. "modules" \in DOMAIN F.config
    <3>1. SUFFICES ASSUME "modules" \notin DOMAIN F.config PROVE FALSE
      OBVIOUS
    <3>2. Len(Es(F)) = 0
      BY <3>1 DEF Es, Listed
    <3>3. QED
      BY <1>2, <2>1, <3>2
  <2>3. QED
    BY <1>1, <1>4, <2>2 DEF Es, Listed
<1>6. IF e.name = None \/ e.type = None THEN Go([F EXCEPT !.next = @ + 1])
      ELSE IF e.layout /\ e.name \notin DOMAIN Created(e) THEN Stop("crashed")
      ELSE Go(AfterCreating(F, e))
  BY <1>1, <1>5 DEF Create, AfterCreating
<1>7. CASE e.name = None \/ e.type = None
  <2>1. PICK G : G = [F EXCEPT !.next = @ + 1]
    OBVIOUS
  <2>2. FrameOK(G) /\ G.opened[1] = F.opened[1] /\ G.by_main = F.by_main
    BY <1>2, <1>3, <1>4, <1>7, <2>1, SkippedOK
  <2>3. Go(G)
    BY <1>6, <1>7, <2>1
  <2>4. QED
    BY <1>1, <1>2, <2>2, <2>3, GoesOn
<1>8. CASE e.name # None /\ e.type # None /\ e.layout /\ e.name \notin DOMAIN Created(e)
  <2>1. UnknownLaidOut(F)
    BY <1>1, <1>2, <1>3, <1>4, <1>8, CreateCrash
  <2>2. Stop("crashed")
    BY <1>6, <1>8
  <2>3. QED
    BY <1>1, <1>2, <2>1, <2>2, CrashKeeps
<1>9. CASE e.name # None /\ e.type # None /\ ~ (e.layout /\ e.name \notin DOMAIN Created(e))
  <2>1. PICK G : G = AfterCreating(F, e)
    OBVIOUS
  <2>2. FrameOK(G) /\ G.opened[1] = F.opened[1] /\ G.by_main = F.by_main
    <3>1. F = Top /\ FrameOK(F) /\ F.phase = "create" /\ F.next <= Len(Es(F))
          /\ files \in FileSystems
      BY <1>1, <1>2, <1>3
    <3>2. e = Es(F)[F.next] /\ e.name # None /\ e.type # None
      BY <1>4, <1>9
    <3>3. ~ (e.layout /\ e.name \notin DOMAIN Created(e))
      BY <1>9
    <3>4. QED
      BY <2>1, <3>1, <3>2, <3>3, CreatedOK
  <2>3. Go(G)
    BY <1>6, <1>9, <2>1
  <2>4. QED
    BY <1>1, <1>2, <2>2, <2>3, GoesOn
<1>10. QED
  BY <1>7, <1>8, <1>9

LEMMA StepNextPhase ==
  ASSUME IInv, NextPhase, UNCHANGED <<files, object_registry, module_registry>>
  PROVE  IInv'
<1>1. PICK F : F = Top
  OBVIOUS
<1>2. PICK ph \in DOMAIN Following :
        /\ outcome = "running" /\ F.phase = ph
        /\ F.next > Len(Listed(F, ListOf[ph]))
        /\ Go([F EXCEPT !.phase = Following[ph], !.next = 1])
  BY <1>1 DEF NextPhase, Running
<1>3. FrameOK(F) /\ files \in FileSystems
  BY <1>1, <1>2, TopIs
<1>4. PICK G : G = [F EXCEPT !.phase = Following[ph], !.next = 1]
  OBVIOUS
<1>5. FrameOK(G) /\ G.opened[1] = F.opened[1] /\ G.by_main = F.by_main
  BY <1>2, <1>3, <1>4, NextPhaseOK
<1>6. Go(G)
  BY <1>2, <1>4
<1>7. QED
  BY <1>1, <1>2, <1>5, <1>6, GoesOn

LEMMA StepDefineGroups ==
  ASSUME IInv, DefineGroups, UNCHANGED <<files, object_registry, module_registry>>
  PROVE  IInv'
<1>1. PICK F : F = Top
  OBVIOUS
<1>2. PICK G : G = [F EXCEPT !.phase = "internal"]
  OBVIOUS
<1>3. /\ outcome = "running" /\ outcome' = "running" /\ F.phase = "groups"
      /\ groups' = IF "groups" \in DOMAIN F.config THEN Define(F.config["groups"]) ELSE groups
      /\ stack' = Replaced(G)
  BY <1>1, <1>2 DEF DefineGroups, Running
<1>4. FrameOK(F) /\ files \in FileSystems /\ GroupsOK
  BY <1>1, <1>3, TopIs
<1>5. FrameOK(G) /\ G.opened[1] = F.opened[1] /\ G.by_main = F.by_main /\ G.phase = "internal"
  BY <1>2, <1>3, <1>4, GroupedOK
<1>6. JoinedTo(G) = 0
  BY <1>5 DEF JoinedTo
<1>7. GroupsOK'
  <2>1. Definitions(F)
    <3>1. Shaped(F)
      BY <1>4 DEF FrameOK
    <3>2. QED
      BY <1>4, <3>1, ListsTyped
  <2>2. CASE "groups" \in DOMAIN F.config
    <3>1. PICK d : d = F.config["groups"]
      OBVIOUS
    <3>2. \A g \in DOMAIN d : g # None /\ IsList(d[g])
      BY <2>1, <2>2, <3>1 DEF Definitions
    <3>3. groups' = Overlay(d, groups)
      BY <1>3, <2>2, <3>1 DEF Define
    <3>4. QED
      BY <1>4, <3>2, <3>3 DEF GroupsOK, Overlay
  <2>3. CASE "groups" \notin DOMAIN F.config
    BY <1>3, <1>4, <2>3 DEF GroupsOK
  <2>4. QED
    BY <2>2, <2>3
<1>8. QED
  BY <1>1, <1>3, <1>5, <1>6, <1>7, GoKeeps

LEMMA StepMakePorts ==
  ASSUME IInv, MakePorts, UNCHANGED <<files, object_registry, module_registry>>
  PROVE  IInv'
<1>1. PICK F : F = Top
  OBVIOUS
<1>2. PICK cs : cs = Cs(F)
  OBVIOUS
<1>3. PICK srcs, dsts : /\ srcs = [i \in DOMAIN cs |-> cs[i].src]
                        /\ dsts = [i \in DOMAIN cs |-> cs[i].dst]
  OBVIOUS
<1>4. PICK G : G = WithPorts(F, srcs, dsts)
  OBVIOUS
<1>5. /\ outcome = "running" /\ F.phase = "ports"
      /\ IF \E i \in DOMAIN cs : ThroughNull(F, cs[i].src) \/ ThroughNull(F, cs[i].dst)
         THEN Stop("crashed") ELSE Go(G)
  BY <1>1, <1>2, <1>3, <1>4 DEF MakePorts, Running, Cs, WithPorts
<1>6. FrameOK(F) /\ files \in FileSystems /\ GroupsOK
  BY <1>1, <1>5, TopIs
<1>7. CASE \E i \in DOMAIN cs : ThroughNull(F, cs[i].src) \/ ThroughNull(F, cs[i].dst)
  <2>1. PortOfConfigured(F)
    BY <1>2, <1>5, <1>6, <1>7, PortsCrash
  <2>2. Stop("crashed")
    BY <1>5, <1>7
  <2>3. QED
    BY <1>1, <1>5, <2>1, <2>2, CrashKeeps
<1>8. CASE ~ \E i \in DOMAIN cs : ThroughNull(F, cs[i].src) \/ ThroughNull(F, cs[i].dst)
  <2>1. FrameOK(G) /\ G.opened[1] = F.opened[1] /\ G.by_main = F.by_main
    <3>1. files \in FileSystems /\ FrameOK(F) /\ F.phase = "ports" /\ cs = Cs(F)
      BY <1>2, <1>5, <1>6
    <3>2. srcs = [i \in DOMAIN cs |-> cs[i].src] /\ dsts = [i \in DOMAIN cs |-> cs[i].dst]
      BY <1>3
    <3>3. QED
      BY <1>4, <1>8, <3>1, <3>2, PortsMadeOK
  <2>2. Go(G)
    BY <1>5, <1>8
  <2>3. QED
    BY <1>1, <1>5, <2>1, <2>2, GoesOn
<1>9. QED
  BY <1>7, <1>8

LEMMA StepConnect ==
  ASSUME IInv, Connect, UNCHANGED <<files, object_registry, module_registry>>
  PROVE  IInv'
<1>1. PICK F : F = Top
  OBVIOUS
<1>2. outcome = "running" /\ F.phase = "connect" /\ F.next <= Len(Cs(F))
  BY <1>1 DEF Connect, Running, Cs
<1>3. FrameOK(F) /\ files \in FileSystems /\ GroupsOK
  BY <1>1, <1>2, TopIs
<1>4. PICK c : c = Cs(F)[F.next]
  OBVIOUS
<1>5. c = Top.config["connections"][Top.next]
  <2>1. F.next \in Nat \ {0}
    BY <1>3 DEF FrameOK, Shaped
  <2>2. "connections" \in DOMAIN F.config
    <3>1. SUFFICES ASSUME "connections" \notin DOMAIN F.config PROVE FALSE
      OBVIOUS
    <3>2. Len(Cs(F)) = 0
      BY <3>1 DEF Cs, Listed
    <3>3. QED
      BY <1>2, <2>1, <3>2
  <2>3. QED
    BY <1>1, <1>4, <2>2 DEF Cs, Listed
<1>6. PICK ss, ds : /\ ss = FilterExcluded(Expanded(F, c.src), c.exclude)
                    /\ ds = FilterExcluded(Expanded(F, c.dst), c.exclude)
  OBVIOUS
<1>7. PICK G : G = WithPairs(F, ss, ds)
  OBVIOUS
<1> DEFINE Null == \/ \E s \in ToSet(ss) : ThroughNull(F, s)
                   \/ ss # <<>> /\ \E d \in ToSet(ds) : ThroughNull(F, d)
<1>8. IF Null THEN Stop("crashed") ELSE Go(G)
  BY <1>1, <1>5, <1>6, <1>7 DEF Connect, WithPairs
<1>9. CASE Null
  <2>1. PortOfConfigured(F)
    BY <1>2, <1>3, <1>4, <1>6, <1>9, ConnectCrash
  <2>2. Stop("crashed")
    BY <1>8, <1>9
  <2>3. QED
    BY <1>1, <1>2, <2>1, <2>2, CrashKeeps
<1>10. CASE ~ Null
  <2>1. FrameOK(G) /\ G.opened[1] = F.opened[1] /\ G.by_main = F.by_main
    <3>1. files \in FileSystems /\ GroupsOK /\ FrameOK(F) /\ F.phase = "connect"
          /\ F.next <= Len(Cs(F))
      BY <1>2, <1>3
    <3>2. ~ (\E s \in ToSet(ss) : ThroughNull(F, s))
          /\ ~ (ss # <<>> /\ \E d \in ToSet(ds) : ThroughNull(F, d))
      BY <1>10
    <3>3. QED
      BY <1>4, <1>6, <1>7, <3>1, <3>2, ConnectedOK
  <2>2. Go(G)
    BY <1>8, <1>10
  <2>3. QED
    BY <1>1, <1>2, <2>1, <2>2, GoesOn
<1>11. QED
  BY <1>9, <1>10

\* A module has its factory call instantiateAll() for the file f.
LEMMA PushKeeps ==
  ASSUME IInv, outcome = "running", UNCHANGED <<files, object_registry, module_registry>>,
         UNCHANGED <<groups, outcome>>,
         NEW F, F = Top, NEW G, FrameOK(G), G.opened[1] = F.opened[1], G.by_main = F.by_main,
         G.phase = "internal", NEW f \in Files, CallsFor(G, f),
         stack' = Append(Replaced(G), Call(f))
  PROVE  IInv'
<1>1. stack # <<>> /\ IsList(stack) /\ CalledInTurn(stack) /\ F = Last(stack)
  BY TopIs
<1>2. PICK s, t, H, u : /\ s = stack /\ t = Append(Front(s), G)
                        /\ H = Call(f) /\ u = Append(t, H)
  OBVIOUS
<1>3. stack' = u
  BY <1>2 DEF Replaced
<1>4. CalledInTurn(t)
  <2>1. G.opened[1] = Last(s).opened[1] /\ G.by_main = Last(s).by_main
    BY <1>1, <1>2
  <2>2. CalledInTurn(s) /\ s # <<>>
    BY <1>1, <1>2
  <2>3. QED
    BY <1>2, <2>1, <2>2, StillInTurn
<1>5. OtherLast(t, s, G)
  BY <1>1, <1>2, WithLast
<1>6. FrameOK(H) /\ H.opened[1] = f /\ ~ H.by_main
  BY <1>2, CallOK
<1>7. CalledInTurn(u) /\ ToSet(u) \subseteq ToSet(t) \cup {H} /\ u # <<>>
  <2>1. Last(t) = G /\ t # <<>>
    BY <1>5 DEF OtherLast
  <2>2. Last(t).phase = "internal" /\ CallsFor(Last(t), H.opened[1])
    BY <1>6, <2>1
  <2>3. QED
    BY <1>2, <1>4, <1>6, <2>1, <2>2, OneCallMore
<1>8. StackOK'
  BY <1>3, <1>7, StackKept
<1>9. \A X \in ToSet(u) : FrameOK(X)
  BY <1>2, <1>5, <1>6, <1>7 DEF OtherLast, IInv
<1>10. \A X \in ToSet(u) : FrameOK(X)'
  BY <1>9, FrameKept
<1>11. (\A X \in ToSet(stack) : FrameOK(X))'
  BY <1>3, <1>10
<1>12. GroupsOK' /\ stack' # <<>>
  BY <1>3, <1>7 DEF GroupsOK, IInv
<1>13. QED
  BY <1>8, <1>11, <1>12 DEF IInv, Outcomes

LEMMA StepInternal ==
  ASSUME IInv, Internal, UNCHANGED <<files, object_registry, module_registry>>
  PROVE  IInv'
<1>1. PICK F : F = Top
  OBVIOUS
<1>2. outcome = "running" /\ F.phase = "internal" /\ F.next <= Len(Es(F))
  BY <1>1 DEF Internal, Running, Es
<1>3. FrameOK(F) /\ files \in FileSystems /\ CalledInTurn(stack)
  BY <1>1, <1>2, TopIs
<1>4. PICK e : e = Es(F)[F.next]
  OBVIOUS
<1>5. F.next \in Nat \ {0} /\ Shaped(F)
  BY <1>3 DEF FrameOK, Shaped
<1>6. e = Top.config["modules"][Top.next]
  <2>1. "modules" \in DOMAIN F.config
    <3>1. SUFFICES ASSUME "modules" \notin DOMAIN F.config PROVE FALSE
      OBVIOUS
    <3>2. Len(Es(F)) = 0
      BY <3>1 DEF Es, Listed
    <3>3. QED
      BY <1>2, <1>5, <3>2
  <2>2. QED
    BY <1>1, <1>4, <2>1 DEF Es, Listed
<1>7. e \in ToSet(Es(F)) /\ e.config \in Files \cup {None}
  <2>1. EntriesOK(F)
    BY <1>3, <1>5, ListsTyped
  <2>2. e \in ToSet(Es(F))
    BY <1>2, <1>4, <1>5, <2>1, ListFacts DEF EntriesOK
  <2>3. QED
    BY <2>1, <2>2 DEF EntriesOK
<1>8. PICK G, file : G = Advanced(F, e) /\ file = files[e.config]
  OBVIOUS
<1> DEFINE IsMod == e.name \in DOMAIN F.modules /\ F.modules[e.name]
<1>9. IF e.config = None THEN Go([F EXCEPT !.next = @ + 1])
      ELSE IF e.name = None THEN Stop("threw")
      ELSE IF ~ IsMod \/ file.kind = "missing" THEN Go(G)
      ELSE IF file.kind = "object" THEN Stop("threw")
      ELSE IF Len(stack) >= MaxDepth THEN Stop("overflow")
      ELSE /\ stack' = Append(Replaced(G), Call(file.file))
           /\ UNCHANGED <<groups, outcome>>
  BY <1>1, <1>6, <1>8 DEF Internal, Advanced
<1>10. CASE e.config = None
  <2>1. PICK H : H = [F EXCEPT !.next = @ + 1]
    OBVIOUS
  <2>2. FrameOK(H) /\ H.opened[1] = F.opened[1] /\ H.by_main = F.by_main
    BY <1>2, <1>3, <1>4, <1>10, <2>1, NotSoughtOK
  <2>3. Go(H)
    BY <1>9, <1>10, <2>1
  <2>4. QED
    BY <1>1, <1>2, <2>2, <2>3, GoesOn
<1>11. ASSUME e.config # None, e.name # None, ~ (IsMod /\ file.kind = "object")
       PROVE  FrameOK(G) /\ G.opened[1] = F.opened[1] /\ G.by_main = F.by_main
              /\ G.phase = "internal" /\ Es(G) = Es(F)
  <2>1. F = Top /\ FrameOK(F) /\ F.phase = "internal" /\ F.next <= Len(Es(F))
        /\ files \in FileSystems
    BY <1>1, <1>2, <1>3
  <2>2. e = Es(F)[F.next] /\ e.config # None /\ e.name # None
    BY <1>4, <1>11
  <2>3. ~ (e.name \in DOMAIN F.modules /\ F.modules[e.name] /\ files[e.config].kind = "object")
    BY <1>8, <1>11
  <2>4. G = Advanced(F, e)
    BY <1>8
  <2>5. QED
    BY <2>1, <2>2, <2>3, <2>4, SoughtOK
<1> HIDE DEF IsMod
<1>12. CASE e.config # None /\ e.name = None
  BY <1>9, <1>12, ThrowKeeps
<1>13. CASE e.config # None /\ e.name # None /\ (~ IsMod \/ file.kind = "missing")
  <2>1. FrameOK(G) /\ G.opened[1] = F.opened[1] /\ G.by_main = F.by_main
    BY <1>11, <1>13
  <2>2. Go(G)
    BY <1>9, <1>13
  <2>3. QED
    BY <1>1, <1>2, <2>1, <2>2, GoesOn
<1>14. CASE e.config # None /\ e.name # None /\ IsMod /\ file.kind = "object"
  BY <1>9, <1>14, ThrowKeeps
<1>15. CASE /\ e.config # None /\ e.name # None /\ IsMod
            /\ file.kind \notin {"missing", "object"} /\ Len(stack) >= MaxDepth
  <2>1. Stop("overflow")
    BY <1>9, <1>15
  <2>2. PICK s : s = stack
    OBVIOUS
  <2>3. CalledInTurn(s) /\ (\A X \in ToSet(s) : FrameOK(X)) /\ Len(s) >= MaxDepth
    BY <1>3, <1>15, <2>2 DEF IInv
  <2>4. Circular
    BY <1>3, <2>3, CallsInCircle
  <2>5. QED
    BY <2>1, <2>4, OverflowKeeps
<1>16. CASE /\ e.config # None /\ e.name # None /\ IsMod
            /\ file.kind \notin {"missing", "object"} /\ ~ (Len(stack) >= MaxDepth)
  <2>1. stack' = Append(Replaced(G), Call(file.file)) /\ UNCHANGED <<groups, outcome>>
    BY <1>9, <1>16
  <2>2. FrameOK(G) /\ G.opened[1] = F.opened[1] /\ G.by_main = F.by_main
        /\ G.phase = "internal" /\ Es(G) = Es(F)
    BY <1>11, <1>16
  <2>3. file.kind = "string" /\ file.file \in Files
    BY <1>3, <1>7, <1>8, <1>16, Format
  <2>4. PICK f \in Files : f = file.file
    BY <2>3
  <2>5. CallsFor(G, f)
    BY <1>7, <1>8, <1>16, <2>2, <2>3, <2>4 DEF CallsFor
  <2>6. stack' = Append(Replaced(G), Call(f))
    BY <2>1, <2>4
  <2>7. QED
    BY <1>1, <1>2, <2>1, <2>2, <2>5, <2>6, PushKeeps
<1>17. QED
  BY <1>10, <1>12, <1>13, <1>14, <1>15, <1>16

LEMMA StepReturn ==
  ASSUME IInv, Return, UNCHANGED <<files, object_registry, module_registry>>
  PROVE  IInv'
<1>1. /\ outcome = "running" /\ stack' = Front(stack) /\ groups' = groups
      /\ outcome' = IF Len(stack) = 1 THEN "done" ELSE "running"
  BY DEF Return, Running
<1>2. stack # <<>> /\ CalledInTurn(stack)
  BY <1>1, TopIs
<1>3. PICK s, t : s = stack /\ t = Front(s)
  OBVIOUS
<1>4. CalledInTurn(t) /\ ToSet(t) \subseteq ToSet(s) /\ (Len(s) # 1 => t # <<>>)
  BY <1>2, <1>3, OneCallLess
<1>5. StackOK'
  BY <1>1, <1>3, <1>4, StackKept
<1>6. \A X \in ToSet(t) : FrameOK(X)'
  BY <1>1, <1>3, <1>4, FrameKept DEF IInv
<1>7. (\A X \in ToSet(stack) : FrameOK(X))'
  BY <1>1, <1>3, <1>6
<1>8. GroupsOK'
  BY <1>1 DEF GroupsOK, IInv
<1>9. outcome' \in {"done", "running"} /\ (outcome' = "running" => stack' # <<>>)
  BY <1>1, <1>3, <1>4
<1>10. QED
  BY <1>5, <1>7, <1>8, <1>9 DEF IInv, Outcomes

-----------------------------------------------------------------------------
\* The first call, made by a caller of the factory or by main().
LEMMA FirstCalls ==
  \A f \in Files : FrameOK(Call(f)) /\ FrameOK([Call(f) EXCEPT !.by_main = TRUE])
<1> SUFFICES ASSUME NEW f \in Files
             PROVE  FrameOK(Call(f)) /\ FrameOK([Call(f) EXCEPT !.by_main = TRUE])
  OBVIOUS
<1>1. PICK F, G : F = Call(f) /\ G = [F EXCEPT !.by_main = TRUE]
  OBVIOUS
<1>2. FrameOK(F) /\ F.phase = "load"
  BY <1>1, CallOK
<1>3. DOMAIN F = Fields /\ Shaped(F)
  BY <1>2 DEF FrameOK, Shaped
<1>4. /\ DOMAIN G = Fields /\ G.opened = F.opened /\ G.config = F.config /\ G.phase = "load"
      /\ G.loading = F.loading /\ G.next = F.next /\ G.objects = F.objects /\ G.modules = F.modules /\ G.pairs = F.pairs
  BY <1>1, <1>2, <1>3 DEF Fields
<1>5. Shaped(G)
  BY <1>2, <1>3, <1>4 DEF Shaped
<1>6. Fresh(G)
  BY <1>2, <1>4, LoadingIsFresh DEF Fresh
<1>7. FrameOK(G)
  BY <1>4, <1>5, <1>6, FreshOK DEF MadeTo, SoughtTo, JoinedTo
<1>8. QED
  BY <1>1, <1>2, <1>7

LEMMA FirstCallsNext ==
  (\A f \in Files : FrameOK(Call(f)) /\ FrameOK([Call(f) EXCEPT !.by_main = TRUE]))'
BY FirstCalls, PTL

LEMMA NoCalls == CalledInTurn(<<>>)
BY EmptyList DEF CalledInTurn

LEMMA OneCall ==
  ASSUME NEW G, NEW s, s = <<G>>
  PROVE  CalledInTurn(s) /\ s # <<>> /\ ToSet(s) = {G}
<1>1. s \in Seq({G}) /\ Len(s) = 1 /\ s[1] = G
  OBVIOUS
<1>2. ToSet(s) = {G}
  BY <1>1 DEF ToSet
<1>3. IsList(s)
  BY <1>1, ListOver
<1>4. QED
  BY <1>1, <1>2, <1>3 DEF CalledInTurn

LEMMA InvInit == Init => IInv
<1> SUFFICES ASSUME Init PROVE IInv
  OBVIOUS
<1>1. StackOK /\ ToSet(stack) = {}
  BY NoCalls, EmptyList DEF Init, StackOK
<1>2. GroupsOK
  BY DEF Init, GroupsOK, EmptyFunction
<1>3. QED
  BY <1>1, <1>2 DEF Init, IInv, Outcomes

\* Nothing runs: the types may change.
LEMMA IdleKeeps ==
  ASSUME IInv, outcome = "idle", UNCHANGED <<files, groups, stack, outcome>>,
         object_registry' \subseteq ObjectTypes, module_registry' \subseteq ModuleTypes
  PROVE  IInv'
<1>1. stack = <<>>
  BY DEF IInv
<1>2. CalledInTurn(<<>>)' /\ ToSet(stack') = {}
  BY <1>1, EmptyList DEF CalledInTurn
<1>3. StackOK'
  BY <1>1, <1>2 DEF StackOK, CalledInTurn
<1>4. GroupsOK'
  BY DEF IInv, GroupsOK
<1>5. QED
  BY <1>2, <1>3, <1>4 DEF IInv

LEMMA StartKeeps ==
  ASSUME IInv, UNCHANGED <<files, groups>>, outcome' = "running",
         object_registry' \subseteq ObjectTypes, module_registry' \subseteq ModuleTypes,
         NEW G, FrameOK(G)', stack' = <<G>>
  PROVE  IInv'
<1>1. PICK s : s = <<G>>
  OBVIOUS
<1>2. CalledInTurn(s) /\ s # <<>> /\ ToSet(s) = {G}
  BY <1>1, OneCall
<1>3. StackOK'
  BY <1>1, <1>2, StackKept
<1>4. GroupsOK'
  BY DEF IInv, GroupsOK
<1>5. (\A F \in ToSet(stack) : FrameOK(F))'
  BY <1>1, <1>2
<1>6. QED
  BY <1>1, <1>2, <1>3, <1>4, <1>5 DEF IInv, Outcomes

LEMMA InvNext == IInv /\ [Next]_vars => IInv'
<1> SUFFICES ASSUME IInv, [Next]_vars PROVE IInv'
  OBVIOUS
<1>1. ASSUME NEW t \in ObjectTypes \cup ModuleTypes, Register(t) \/ Unregister(t) PROVE IInv'
  <2>1. outcome = "idle" /\ UNCHANGED <<files, groups, stack, outcome>>
    BY <1>1 DEF Register, Unregister
  <2>2. object_registry' \subseteq ObjectTypes /\ module_registry' \subseteq ModuleTypes
    BY <1>1 DEF Register, Unregister, IInv
  <2>3. QED
    BY <2>1, <2>2, IdleKeeps
<1>2. ASSUME ClearAllTypes PROVE IInv'
  BY <1>2, IdleKeeps DEF ClearAllTypes
<1>3. ASSUME NEW f \in Files, Instantiate(f) PROVE IInv'
  <2>1. PICK G : G = Call(f)
    OBVIOUS
  <2>2. FrameOK(G)'
    BY <2>1, FirstCallsNext
  <2>3. object_registry' \subseteq ObjectTypes /\ module_registry' \subseteq ModuleTypes
    BY <1>3 DEF Instantiate, IInv
  <2>4. QED
    BY <1>3, <2>1, <2>2, <2>3, StartKeeps DEF Instantiate
<1>4. ASSUME NEW f \in Files, Main(f) PROVE IInv'
  <2>1. PICK G : G = [Call(f) EXCEPT !.by_main = TRUE]
    OBVIOUS
  <2>2. FrameOK(G)'
    BY <2>1, FirstCallsNext
  <2>3. object_registry' \subseteq ObjectTypes /\ module_registry' \subseteq ModuleTypes
    BY <1>4 DEF Main, RegisterAll
  <2>4. QED
    BY <1>4, <2>1, <2>2, <2>3, StartKeeps DEF Main
<1>5. ASSUME InstantiateStep PROVE IInv'
  <2>1. UNCHANGED <<files, object_registry, module_registry>>
    BY <1>5 DEF InstantiateStep
  <2>2. CASE Load
    <3>1. CASE LoadInclude
      BY <2>1, <3>1, StepLoadInclude
    <3>2. CASE LoadReturn
      BY <2>1, <3>2, StepLoadReturn
    <3>3. CASE Loaded
      BY <2>1, <3>3, StepLoaded
    <3>4. CASE LoadMissing
      BY <2>1, <3>4, ThrowKeeps DEF LoadMissing
    <3>5. QED
      BY <2>2, <3>1, <3>2, <3>3, <3>4 DEF Load
  <2>3. CASE Create
    BY <2>1, <2>3, StepCreate
  <2>4. CASE DefineGroups
    BY <2>1, <2>4, StepDefineGroups
  <2>5. CASE Internal
    BY <2>1, <2>5, StepInternal
  <2>6. CASE MakePorts
    BY <2>1, <2>6, StepMakePorts
  <2>7. CASE Connect
    BY <2>1, <2>7, StepConnect
  <2>8. CASE NextPhase
    BY <2>1, <2>8, StepNextPhase
  <2>9. CASE Return
    BY <2>1, <2>9, StepReturn
  <2>10. QED
    BY <1>5, <2>2, <2>3, <2>4, <2>5, <2>6, <2>7, <2>8, <2>9 DEF InstantiateStep
<1>6. CASE UNCHANGED vars
  <2>1. UNCHANGED <<files, object_registry, module_registry, groups, stack, outcome>>
    BY <1>6 DEF vars
  <2>2. StackOK' /\ GroupsOK' /\ (\A F \in ToSet(stack) : FrameOK(F))'
    BY <2>1, FramesKept
  <2>3. ASSUME outcome = "crashed"
        PROVE  (\E F \in ToSet(stack) : F = Last(stack)
                                       /\ (UnknownLaidOut(F) \/ PortOfConfigured(F)))'
    <3>1. PICK F \in ToSet(stack) : F = Last(stack) /\ (UnknownLaidOut(F) \/ PortOfConfigured(F))
      BY <2>3 DEF IInv
    <3>2. UnknownLaidOut(F)' \/ PortOfConfigured(F)'
      BY <2>1, <3>1, SameMistakes
    <3>3. QED
      BY <2>1, <3>1, <3>2
  <2>4. Circular => Circular'
    <3>1. \A f : Uses(f)' = Uses(f)
      BY <2>1 DEF Uses
    <3>2. QED
      BY <3>1 DEF Circular
  <2>5. QED
    BY <2>1, <2>2, <2>3, <2>4 DEF IInv
<1>7. QED
  BY <1>1, <1>2, <1>3, <1>4, <1>5, <1>6 DEF Next

THEOREM Invariance == Spec => []IInv
BY InvInit, InvNext, PTL DEF Spec

-----------------------------------------------------------------------------
\* What the invariant says when a call has come to its end.
LEMMA PortsOfEntries ==
  ASSUME files \in FileSystems, NEW F, FrameOK(F), Settled(F), NEW n
  PROVE  HasPorts(F, n) <=> n \in DOMAIN F.objects /\ F.objects[n] \in PortTypes
<1>1. Shaped(F) /\ F.phase # "load" /\ ObjectsOK(F)
  BY DEF FrameOK, Settled
<1>2. Said(F, "modules") = Es(F)
  BY <1>1, ListedIsSaid DEF Es
<1>3. IsList(Es(F)) /\ DOMAIN Es(F) = 1 .. Len(Es(F))
  BY <1>1, ListsTyped, ListFacts DEF EntriesOK
<1>4. MadeTo(F) = Len(Es(F))
  BY DEF Settled, MadeTo
<1>5. PICK M, C : M = Making(F, MadeTo(F)) /\ C = Called(F, M, n)
  OBVIOUS
<1>6. {i \in DOMAIN Es(F) : /\ Complete(Es(F)[i]) /\ Es(F)[i].name = n
                            /\ Es(F)[i].type \in object_registry \cup module_registry} = C
  BY <1>3, <1>4, <1>5 DEF Called, Making, Registered
<1>7. HasPorts(F, n) <=> C # {} /\ Es(F)[Max(C)].type \in PortTypes
  BY <1>2, <1>6 DEF HasPorts
<1>8. n \in DOMAIN F.objects <=> C # {}
  BY <1>1, <1>5 DEF ObjectsOK, Names, Called
<1>9. n \in DOMAIN F.objects => F.objects[n] = Es(F)[Max(C)].type
  BY <1>1, <1>5 DEF ObjectsOK
<1>10. QED
  BY <1>7, <1>8, <1>9

LEMMA ReachableIs ==
  ASSUME files \in FileSystems, NEW F, FrameOK(F), F.phase = "end",
         NEW ends, NEW end, end \in ends => ~ ThroughNull(F, end)
  PROVE  Reachable(F, end, ends) <=> end \in ends /\ MakesPort(F, end)
<1>1. Settled(F)
  BY DEF Settled
<1>2. HasPorts(F, end.module)
        <=> end.module \in DOMAIN F.objects /\ F.objects[end.module] \in PortTypes
  BY <1>1, PortsOfEntries
<1>3. PICK n, M : n = end.module /\ M = Names(F, Modular(F, MadeTo(F)))
  OBVIOUS
<1>4. /\ \A x \in DOMAIN F.modules : F.modules[x] = (x \in M)
      /\ M \subseteq DOMAIN F.modules
  BY <1>3 DEF FrameOK, ModulesOK
<1>5. IsModule(F, n) <=> n \in M
  BY <1>1, <1>3, SettledIs
<1>6. ASSUME end \in ends, end.port # None
      PROVE  n \in DOMAIN F.modules <=> n \in M
  <2>1. ASSUME n \in DOMAIN F.modules PROVE n \in M
    <3>1. F.modules[n]
      BY <1>3, <1>6, <2>1 DEF ThroughNull
    <3>2. F.modules[n] = (n \in M)
      BY <1>4, <2>1
    <3>3. QED
      BY <3>1, <3>2, Zenon
  <2>2. QED
    BY <1>4, <2>1
<1>7. QED
  BY <1>2, <1>3, <1>5, <1>6 DEF Reachable, MakesPort

\* What the reference says of a call F at its end, between these ends.
JoinsThese(F, sources, targets) ==
  {<<F.downstream[p.src], F.upstream[p.dst]>> : p \in ToSet(F.pairs)}
    = UNION {{p \in (Members(c.src) \ c.exclude) \X (Members(c.dst) \ c.exclude) :
                Reachable(F, p[1], sources) /\ Reachable(F, p[2], targets)} :
             c \in Connections(F)}

LEMMA ConnectedAtTheEnd ==
  ASSUME files \in FileSystems, NEW F, FrameOK(F), F.phase = "end",
         NEW sources, sources = {c.src : c \in Connections(F)},
         NEW targets, targets = {c.dst : c \in Connections(F)}
  PROVE  JoinsThese(F, sources, targets)
<1>1. Settled(F) /\ JoinedOK(F) /\ PortsOK(F) /\ Shaped(F)
  BY DEF Settled, FrameOK
<1>2. PICK Cn : Cn = ToSet(Cs(F))
  OBVIOUS
<1>3. Connections(F) = Cn
  BY <1>1, <1>2, ConnectionsAre
<1>4. {Cs(F)[i] : i \in 1 .. JoinedTo(F)} = Cn
  <2>1. IsList(Cs(F)) /\ JoinedTo(F) = Len(Cs(F))
    BY <1>1, ListsTyped DEF ConnectionsOK, JoinedTo
  <2>2. QED
    BY <1>2, <2>1, ListFacts
<1>5. Links(F) = UNION {Linked(F, c) : c \in Cn}
  BY <1>1, <1>4 DEF JoinedOK
<1>6. /\ ToSet(F.downstream) = {c.src : c \in {x \in Cn : MakesPort(F, x.src)}}
      /\ ToSet(F.upstream) = {c.dst : c \in {x \in Cn : MakesPort(F, x.dst)}}
      /\ \A c \in Cn : ~ ThroughNull(F, c.src) /\ ~ ThroughNull(F, c.dst)
  BY <1>1, <1>2 DEF PortsOK
<1>7. \A s : Reachable(F, s, sources) <=> s \in ToSet(F.downstream)
  <2>1. ASSUME NEW s PROVE Reachable(F, s, sources) <=> s \in sources /\ MakesPort(F, s)
    <3>1. s \in sources => ~ ThroughNull(F, s)
      BY <1>3, <1>6
    <3>2. QED
      BY <3>1, ReachableIs
  <2>2. \A s : s \in sources /\ MakesPort(F, s) <=> s \in ToSet(F.downstream)
    BY <1>3, <1>6
  <2>3. QED
    BY <2>1, <2>2
<1>8. \A d : Reachable(F, d, targets) <=> d \in ToSet(F.upstream)
  <2>1. ASSUME NEW d PROVE Reachable(F, d, targets) <=> d \in targets /\ MakesPort(F, d)
    <3>1. d \in targets => ~ ThroughNull(F, d)
      BY <1>3, <1>6
    <3>2. QED
      BY <3>1, ReachableIs
  <2>2. \A d : d \in targets /\ MakesPort(F, d) <=> d \in ToSet(F.upstream)
    BY <1>3, <1>6
  <2>3. QED
    BY <2>1, <2>2
<1>9. \A c : Linked(F, c)
               = {p \in (Members(c.src) \ c.exclude) \X (Members(c.dst) \ c.exclude) :
                    Reachable(F, p[1], sources) /\ Reachable(F, p[2], targets)}
  BY <1>7, <1>8 DEF Linked, SrcEnds, DstEnds
<1>10. QED
  BY <1>3, <1>5, <1>9 DEF Links, JoinsThese

\* The same, as the property says it.
AsSpecified(F, sources, targets) ==
  /\ \A p \in ConnectedPorts(F) : \E c \in Connections(F) : IsFor(c, p)
  /\ \A c \in Connections(F) :
       \A p \in (Members(c.src) \ c.exclude) \X (Members(c.dst) \ c.exclude) :
         Reachable(F, p[1], sources) /\ Reachable(F, p[2], targets)
           => p \in ConnectedPorts(F)

LEMMA MembersMeant ==
  ASSUME GroupsOK, NEW end, NEW port \in Members(end)
  PROVE  StandsFor(end, port)
<1>1. end.group \in DOMAIN groups
  BY DEF Members
<1>2. end.group # None
  BY <1>1 DEF GroupsOK
<1>3. QED
  BY <1>2 DEF StandsFor

LEMMA JoinsAsSpecified ==
  ASSUME GroupsOK, NEW F, NEW sources, NEW targets, JoinsThese(F, sources, targets)
  PROVE  AsSpecified(F, sources, targets)
<1> DEFINE Of(c) == {p \in (Members(c.src) \ c.exclude) \X (Members(c.dst) \ c.exclude) :
                       Reachable(F, p[1], sources) /\ Reachable(F, p[2], targets)}
<1>1. ConnectedPorts(F) = UNION {Of(c) : c \in Connections(F)}
  BY Zenon DEF ConnectedPorts, JoinsThese
<1>2. ASSUME NEW c, NEW p \in Of(c) PROVE IsFor(c, p)
  <2>1. p[1] \in Members(c.src) \ c.exclude /\ p[2] \in Members(c.dst) \ c.exclude
    OBVIOUS
  <2>2. QED
    BY <2>1, MembersMeant DEF IsFor
<1>3. ASSUME NEW c \in Connections(F),
             NEW p \in (Members(c.src) \ c.exclude) \X (Members(c.dst) \ c.exclude),
             Reachable(F, p[1], sources), Reachable(F, p[2], targets)
      PROVE  p \in Of(c)
  BY <1>3
<1> HIDE DEF Of
<1>4. \A p : p \in ConnectedPorts(F) <=> \E c \in Connections(F) : p \in Of(c)
  BY <1>1
<1>5. QED
  BY <1>2, <1>3, <1>4 DEF AsSpecified

-----------------------------------------------------------------------------
LEMMA InvTypeOK == IInv => TypeOK
<1> SUFFICES ASSUME IInv PROVE TypeOK
  OBVIOUS
<1>1. IsList(stack)
  BY DEF IInv, StackOK, CalledInTurn
<1>2. ASSUME NEW i \in DOMAIN stack
      PROVE  /\ stack[i].opened \in Seq(Files)
             /\ stack[i].phase = "load" => stack[i].loading \in Seq(Openings)
             /\ \A n \in DOMAIN stack[i].objects :
                  stack[i].objects[n] \in object_registry \cup module_registry
             /\ \A k \in DOMAIN stack[i].pairs :
                  /\ stack[i].pairs[k].src \in DOMAIN stack[i].downstream
                  /\ stack[i].pairs[k].dst \in DOMAIN stack[i].upstream
  <2>1. PICK F : F = stack[i]
    OBVIOUS
  <2>2. FrameOK(F)
    BY <2>1 DEF IInv, ToSet
  <2>3. F.opened \in Seq(Files)
    BY <2>2 DEF FrameOK, Shaped, Chained
  <2>7. F.phase = "load" => F.loading \in Seq(Openings)
    BY <2>2 DEF FrameOK, Shaped, Loading
  <2>4. ASSUME NEW n \in DOMAIN F.objects PROVE F.objects[n] \in Registered
    <3>1. PICK M, C : M = Making(F, MadeTo(F)) /\ C = Called(F, M, n)
      OBVIOUS
    <3>2. n \in Names(F, M) /\ F.objects[n] = Es(F)[Max(C)].type
      BY <2>2, <2>4, <3>1 DEF FrameOK, ObjectsOK
    <3>3. C # {} /\ C \in SUBSET M
      BY <3>1, <3>2 DEF Names, Called
    <3>4. Len(Es(F)) \in Nat
      BY <2>2, ListsTyped, ListFacts DEF FrameOK, EntriesOK, IInv
    <3>5. PICK m : m = MadeTo(F) /\ m \in Nat
      BY <2>2, <3>4 DEF FrameOK, Shaped, MadeTo
    <3>6. C \in SUBSET (0 .. m)
      <4>1. M \in SUBSET (1 .. m)
        BY <3>1, <3>5 DEF Making
      <4>2. \A x \in 1 .. m : x \in 0 .. m
        BY <3>5
      <4>3. QED
        BY <3>3, <4>1, <4>2
    <3>7. Max(C) \in C
      BY <3>3, <3>5, <3>6, GreatestNumber
    <3>8. Es(F)[Max(C)].type \in Registered
      BY <3>1, <3>3, <3>7 DEF Making
    <3>9. QED
      BY <3>2, <3>8
  <2>5. \A k \in DOMAIN F.pairs :
          /\ F.pairs[k].src \in DOMAIN F.downstream
          /\ F.pairs[k].dst \in DOMAIN F.upstream
    BY <2>2 DEF FrameOK, JoinedOK, ToSet
  <2>6. QED
    BY <2>1, <2>3, <2>4, <2>5, <2>7 DEF Registered
<1>3. QED
  BY <1>2 DEF TypeOK, IInv, Openings

LEMMA InvConnected == IInv => ConnectedAsSpecified
<1> SUFFICES ASSUME IInv, Running("end")
             PROVE  AsSpecified(Top, {c.src : c \in Connections(Top)},
                                     {c.dst : c \in Connections(Top)})
  BY Zenon DEF ConnectedAsSpecified, AsSpecified
<1>1. PICK F : F = Top
  OBVIOUS
<1>2. outcome = "running" /\ F.phase = "end"
  BY <1>1 DEF Running
<1>3. FrameOK(F) /\ files \in FileSystems
  BY <1>1, <1>2, TopIs
<1>4. PICK sources : sources = {c.src : c \in Connections(F)}
  OBVIOUS
<1>5. PICK targets : targets = {c.dst : c \in Connections(F)}
  OBVIOUS
<1>6. AsSpecified(F, sources, targets)
  <2>1. JoinsThese(F, sources, targets)
    BY <1>2, <1>3, <1>4, <1>5, ConnectedAtTheEnd
  <2>2. GroupsOK
    BY DEF IInv
  <2>3. QED
    BY <2>1, <2>2, JoinsAsSpecified
<1>7. QED
  BY <1>1, <1>4, <1>5, <1>6, Zenon

LEMMA InvCrashes == IInv => CrashesExplained
<1> SUFFICES ASSUME IInv PROVE CrashesExplained
  OBVIOUS
<1>1. outcome = "crashed" => UnknownLaidOut(Top) \/ PortOfConfigured(Top)
  BY DEF IInv, Top
<1>2. ASSUME Running("end") PROVE ~ UnknownLaidOut(Top) /\ ~ PortOfConfigured(Top)
  <2>1. PICK F : F = Top
    OBVIOUS
  <2>2. outcome = "running" /\ F.phase = "end"
    BY <1>2, <2>1 DEF Running
  <2>3. FrameOK(F) /\ files \in FileSystems /\ GroupsOK
    BY <2>1, <2>2, TopIs
  <2>4. ~ UnknownLaidOut(F)
    BY <2>2, <2>3, AllLaidOut
  <2>5. ~ PortOfConfigured(F)
    <3>1. Settled(F)
      BY <2>2 DEF Settled
    <3>2. \A c \in ToSet(Cs(F)) : ~ ThroughNull(F, c.src) /\ ~ ThroughNull(F, c.dst)
      BY <2>2, <2>3 DEF FrameOK, PortsOK
    <3>3. \A c \in ToSet(Cs(F)) : NoNull(F, c)
      <4>1. Shaped(F)
        BY <2>3 DEF FrameOK
      <4>2. IsList(Cs(F)) /\ JoinedTo(F) = Len(Cs(F))
        BY <2>2, <2>3, <4>1, ListsTyped DEF ConnectionsOK, JoinedTo
      <4>3. ToSet(Cs(F)) = {Cs(F)[i] : i \in 1 .. JoinedTo(F)}
        BY <4>2, ListFacts
      <4>4. QED
        BY <2>3, <4>3 DEF FrameOK, JoinedOK
    <3>4. QED
      BY <2>3, <3>1, <3>2, <3>3, NamedIsNull
  <2>6. QED
    BY <2>1, <2>4, <2>5
<1>3. QED
  BY <1>1, <1>2 DEF CrashesExplained

(***************************************************************************)
(* In every state, the objects a call of instantiateAll() has made are of  *)
(* registered types, and its PortPairs are between ports it has made.      *)
(***************************************************************************)
THEOREM FactoryTypeOK == Spec => []TypeOK
BY Invariance, InvTypeOK, PTL

(***************************************************************************)
(* Whatever the files say: when a call comes to its end, any ports it has  *)
(* connected are those that a connection is for, and it has connected all  *)
(* members of groups, not excluded, whose ports exist.                     *)
(***************************************************************************)
THEOREM ConnectsAsSpecified == Spec => []ConnectedAsSpecified
BY Invariance, InvConnected, PTL

(***************************************************************************)
(* A null pointer is used only for the two mistakes in a configuration     *)
(* that CrashesExplained names, and a configuration with one of them never *)
(* comes to its end.                                                       *)
(***************************************************************************)
THEOREM CrashesAreExplained == Spec => []CrashesExplained
BY Invariance, InvCrashes, PTL

(***************************************************************************)
(* However deep the C stack, includes and modules that configure           *)
(* themselves overflow it only if files use each other in a circle.        *)
(***************************************************************************)
THEOREM RecursionComesToEnd == Spec => []RecursionEnds
<1>1. IInv => RecursionEnds
  BY DEF IInv, RecursionEnds, Circular
<1>2. QED
  BY <1>1, Invariance, PTL
===============================================================================
