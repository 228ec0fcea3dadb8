--------------------------- MODULE InducedDEG_proofs ---------------------------
(***************************************************************************)
(* What the algorithms of InducedDEG compute, for every graph whose edges  *)
(* lead forward: the sorts, the virtual edges, the distances and the       *)
(* searches.  Recursive definitions and folds are unfolded by Recursion.   *)
(***************************************************************************)
EXTENDS InducedDEG, DEG_proofs, FiniteSetTheorems

(* L orders S totally *)
IsTotalOrder(S, L) ==
  /\ \A x \in S : <<x, x>> \notin L
  /\ \A x, y \in S : x # y => <<x, y>> \in L \/ <<y, x>> \in L
  /\ \A x, y, z \in S : <<x, y>> \in L /\ <<y, z>> \in L => <<x, z>> \in L

Below(S, L, x) == {y \in S : <<y, x>> \in L}

(* s lists the elements of S in the order L *)
IsSorting(s, S, L) ==
  /\ s \in [1 .. Cardinality(S) -> S]
  /\ \A i, j \in DOMAIN s : i < j => <<s[i], s[j]>> \in L
  /\ \A i, j \in DOMAIN s : s[i] = s[j] => i = j
  /\ \A x \in S : \E i \in DOMAIN s : s[i] = x

(***************************************************************************)
(* The numbers of smaller elements are the positions of a finite total     *)
(* order.                                                                  *)
(***************************************************************************)
LEMMA PositionsInOrder ==
  ASSUME NEW S, IsFiniteSet(S), NEW L, IsTotalOrder(S, L)
  PROVE  /\ Cardinality(S) \in Nat
         /\ \A x \in S : Cardinality(Below(S, L, x)) \in 0 .. Cardinality(S) - 1
         /\ \A x, y \in S : <<x, y>> \in L
              => Cardinality(Below(S, L, x)) < Cardinality(Below(S, L, y))
         /\ \A i \in 1 .. Cardinality(S) : \E x \in S : Cardinality(Below(S, L, x)) = i - 1
PROOF
  <1> DEFINE n == Cardinality(S)
             B(x) == Below(S, L, x)
             f == [x \in S |-> Cardinality(B(x)) + 1]
  <1>1. n \in Nat
    BY FS_CardinalityType
  <1>2. ASSUME NEW x \in S PROVE /\ IsFiniteSet(B(x)) /\ Cardinality(B(x)) \in Nat
                                 /\ Cardinality(B(x)) < n
    <2>1. B(x) \in SUBSET S /\ x \notin B(x)
      BY DEF Below, IsTotalOrder
    <2> HIDE DEF B
    <2>2. IsFiniteSet(B(x)) /\ Cardinality(B(x)) <= n /\ (n = Cardinality(B(x)) => S = B(x))
      BY <2>1, FS_Subset
    <2>3. Cardinality(B(x)) \in Nat
      BY <2>2, FS_CardinalityType
    <2> QED BY <1>1, <2>1, <2>2, <2>3
  <1>3. ASSUME NEW x \in S, NEW y \in S, <<x, y>> \in L
        PROVE  Cardinality(B(x)) < Cardinality(B(y))
    <2>1. B(x) \in SUBSET B(y) /\ x \in B(y) /\ x \notin B(x)
      BY <1>3 DEF Below, IsTotalOrder
    <2> HIDE DEF B
    <2>2. Cardinality(B(x)) <= Cardinality(B(y)) /\ (Cardinality(B(y)) = Cardinality(B(x)) => B(y) = B(x))
      BY <1>2, <2>1, FS_Subset
    <2> QED BY <1>2, <2>1, <2>2
  <1>4. f \in [S -> 1 .. n]
    BY <1>1, <1>2
  <1>5. f \in Injection(S, 1 .. n)
    <2>1. ASSUME NEW x \in S, NEW y \in S, x # y PROVE f[x] # f[y]
      <3>1. <<x, y>> \in L \/ <<y, x>> \in L
        BY <2>1 DEF IsTotalOrder
      <3> HIDE DEF B
      <3> QED BY <1>2, <1>3, <3>1
    <2> HIDE DEF f
    <2> QED BY <1>4, <2>1 DEF Injection, IsInjective
  <1>6. IsFiniteSet(1 .. n) /\ Cardinality(1 .. n) = n
    <2>1. Cardinality(1 .. n) = IF 1 > n THEN 0 ELSE n - 1 + 1
      BY <1>1, FS_Interval
    <2> QED BY <1>1, <2>1, FS_Interval
  <1>7. f \in Surjection(S, 1 .. n)
    <2> HIDE DEF f
    <2> QED BY <1>5, <1>6, FS_Injection
  <1>8. ASSUME NEW i \in 1 .. n PROVE \E x \in S : Cardinality(B(x)) = i - 1
    <2>1. PICK x \in S : f[x] = i
      <3> HIDE DEF f
      <3> QED BY <1>7 DEF Surjection
    <2> HIDE DEF B
    <2>2. Cardinality(B(x)) \in Nat
      BY <1>2
    <2> QED BY <2>1, <2>2
  <1>9. \A x \in S : Cardinality(B(x)) \in 0 .. n - 1
    BY <1>1, <1>2
  <1> QED BY <1>1, <1>3, <1>8, <1>9

(***************************************************************************)
(* A sequence of elements of which each has i - 1 smaller ones at place i  *)
(* is the sorting.                                                         *)
(***************************************************************************)
LEMMA PlacedIsSorted ==
  ASSUME NEW S, IsFiniteSet(S), NEW L, IsTotalOrder(S, L),
         NEW s \in [1 .. Cardinality(S) -> S],
         \A i \in 1 .. Cardinality(S) : Cardinality(Below(S, L, s[i])) = i - 1
  PROVE  IsSorting(s, S, L) /\ Cardinality(S) \in Nat
PROOF
  <1> DEFINE n == Cardinality(S)
             C(x) == Cardinality(Below(S, L, x))
  <1>1. /\ n \in Nat /\ \A x \in S : C(x) \in 0 .. n - 1
        /\ \A x, y \in S : <<x, y>> \in L => C(x) < C(y)
    BY PositionsInOrder
  <1>2. \A i \in 1 .. n : s[i] \in S /\ C(s[i]) = i - 1
    OBVIOUS
  <1>3. DOMAIN s = 1 .. n
    OBVIOUS
  <1> HIDE DEF C, n
  <1>4. ASSUME NEW i \in 1 .. n, NEW j \in 1 .. n, i < j PROVE <<s[i], s[j]>> \in L
    <2>1. s[i] # s[j] /\ ~(C(s[j]) < C(s[i]))
      BY <1>1, <1>2, <1>4
    <2>2. ~(<<s[j], s[i]>> \in L)
      BY <1>1, <1>2, <2>1
    <2> QED BY <1>2, <2>1, <2>2 DEF IsTotalOrder
  <1>5. \A i, j \in 1 .. n : s[i] = s[j] => i = j
    BY <1>1, <1>2
  <1>6. ASSUME NEW x \in S PROVE \E i \in 1 .. n : s[i] = x
    <2> DEFINE i == C(x) + 1
    <2>1. i \in 1 .. n /\ C(s[i]) = C(x)
      BY <1>1, <1>2
    <2>2. s[i] = x
      <3>1. ~(<<s[i], x>> \in L) /\ ~(<<x, s[i]>> \in L)
        BY <1>1, <1>2, <2>1
      <3> HIDE DEF i
      <3> QED BY <1>2, <2>1, <3>1 DEF IsTotalOrder
    <2> QED BY <2>1, <2>2
  <1> QED BY <1>1, <1>3, <1>4, <1>5, <1>6 DEF IsSorting, n

ByVertex(S) == {p \in S \X S : VertexCompare(p[1], p[2])}
ByNumber(S) == {p \in S \X S : p[1] < p[2]}

(***************************************************************************)
(* The stages have different ranks, so VertexCompare is a total order.     *)
(***************************************************************************)
LEMMA RanksDiffer ==
  /\ \A s \in Stages : Rank[s] \in 0 .. 12
  /\ \A s, t \in Stages : Rank[s] = Rank[t] => s = t
PROOF
  BY DEF Stages, Rank

LEMMA VerticesAreOrdered ==
  ASSUME NEW S \in SUBSET Vertex
  PROVE  IsTotalOrder(S, ByVertex(S))
PROOF
  <1>1. \A x \in S : x[1] \in Nat /\ x[2] \in Stages /\ x = <<x[1], x[2]>> /\ Rank[x[2]] \in Int
    BY RanksDiffer DEF Vertex
  <1>2. ASSUME NEW x \in S, NEW y \in S, x # y
        PROVE  VertexCompare(x, y) \/ VertexCompare(y, x)
    BY <1>1, <1>2, RanksDiffer DEF VertexCompare
  <1>3. ASSUME NEW x \in S PROVE ~VertexCompare(x, x)
    BY <1>1 DEF VertexCompare
  <1>4. ASSUME NEW x \in S, NEW y \in S, NEW z \in S, VertexCompare(x, y), VertexCompare(y, z)
        PROVE  VertexCompare(x, z)
    BY <1>1, <1>4 DEF VertexCompare
  <1>5. \A x, y \in S : <<x, y>> \in ByVertex(S) <=> VertexCompare(x, y)
    BY DEF ByVertex
  <1> QED BY <1>2, <1>3, <1>4, <1>5 DEF IsTotalOrder

LEMMA NumbersAreOrdered ==
  ASSUME NEW S \in SUBSET Int
  PROVE  IsTotalOrder(S, ByNumber(S))
PROOF
  <1>1. \A x, y \in S : <<x, y>> \in ByNumber(S) <=> x < y
    BY DEF ByNumber
  <1> QED BY <1>1 DEF IsTotalOrder

(***************************************************************************)
(* SortBy sorts, by VertexCompare and by number.                           *)
(***************************************************************************)
LEMMA SortByVertex ==
  ASSUME NEW S \in SUBSET Vertex, IsFiniteSet(S)
  PROVE  IsSorting(SortBy(S, VertexCompare), S, ByVertex(S)) /\ Cardinality(S) \in Nat
PROOF
  <1> DEFINE n == Cardinality(S)
             s == [i \in 1 .. n |->
                     CHOOSE x \in S : Cardinality({y \in S : VertexCompare(y, x)}) = i - 1]
  <1>1. IsTotalOrder(S, ByVertex(S))
    BY VerticesAreOrdered
  <1>2. ASSUME NEW x \in S PROVE {y \in S : VertexCompare(y, x)} = Below(S, ByVertex(S), x)
    BY DEF Below, ByVertex
  <1>3. ASSUME NEW i \in 1 .. n
        PROVE  s[i] \in S /\ Cardinality({y \in S : VertexCompare(y, s[i])}) = i - 1
    <2>1. PICK x \in S : Cardinality(Below(S, ByVertex(S), x)) = i - 1
      BY <1>1, PositionsInOrder
    <2> QED BY <1>2, <2>1
  <1>4. s \in [1 .. n -> S]
    BY <1>3
  <1> HIDE DEF s
  <1>5. \A i \in 1 .. n : Cardinality(Below(S, ByVertex(S), s[i])) = i - 1
    BY <1>2, <1>3
  <1>6. IsSorting(s, S, ByVertex(S)) /\ Cardinality(S) \in Nat
    BY <1>1, <1>4, <1>5, PlacedIsSorted
  <1> QED BY <1>6 DEF s, SortBy

LEMMA SortByNumber ==
  ASSUME NEW S \in SUBSET Int, IsFiniteSet(S)
  PROVE  /\ IsSorting(SortBy(S, LAMBDA i, j : i < j), S, ByNumber(S))
         /\ Cardinality(S) \in Nat
PROOF
  <1> DEFINE n == Cardinality(S)
             s == [i \in 1 .. n |-> CHOOSE x \in S : Cardinality({y \in S : y < x}) = i - 1]
  <1>1. IsTotalOrder(S, ByNumber(S))
    BY NumbersAreOrdered
  <1>2. ASSUME NEW x \in S PROVE {y \in S : y < x} = Below(S, ByNumber(S), x)
    BY DEF Below, ByNumber
  <1>3. ASSUME NEW i \in 1 .. n
        PROVE  s[i] \in S /\ Cardinality({y \in S : y < s[i]}) = i - 1
    <2>1. PICK x \in S : Cardinality(Below(S, ByNumber(S), x)) = i - 1
      BY <1>1, PositionsInOrder
    <2> QED BY <1>2, <2>1
  <1>4. s \in [1 .. n -> S]
    BY <1>3
  <1> HIDE DEF s
  <1>5. \A i \in 1 .. n : Cardinality(Below(S, ByNumber(S), s[i])) = i - 1
    BY <1>2, <1>3
  <1>6. IsSorting(s, S, ByNumber(S)) /\ Cardinality(S) \in Nat
    BY <1>1, <1>4, <1>5, PlacedIsSorted
  <1> QED BY <1>6 DEF s, SortBy

(* at lists the places P in their order *)
Selects(s, P, at) ==
  /\ at \in [1 .. Cardinality(P) -> P]
  /\ Select(s, P) = [k \in 1 .. Cardinality(P) |-> s[at[k]]]
  /\ \A i, j \in 1 .. Cardinality(P) : i < j => at[i] < at[j]
  /\ \A x \in P : \E i \in 1 .. Cardinality(P) : at[i] = x

(***************************************************************************)
(* Select keeps the elements at the given places, and their order.         *)
(***************************************************************************)
LEMMA SelectIs ==
  ASSUME NEW n \in Nat, NEW P \in SUBSET (1 .. n), NEW s
  PROVE  /\ IsFiniteSet(P) /\ Cardinality(P) \in Nat
         /\ \E at : Selects(s, P, at)
PROOF
  <1> DEFINE at == SortBy(P, LAMBDA i, j : i < j)
  <1>1. IsFiniteSet(P) /\ P \in SUBSET Int
    <2>1. IsFiniteSet(1 .. n)
      BY FS_Interval
    <2>2. IsFiniteSet(P)
      BY <2>1, FS_Subset
    <2>3. P \in SUBSET Int
      OBVIOUS
    <2> QED BY <2>2, <2>3
  <1>2. IsSorting(at, P, ByNumber(P)) /\ Cardinality(P) \in Nat
    BY <1>1, SortByNumber
  <1>3. Select(s, P) = [k \in DOMAIN at |-> s[at[k]]]
    BY DEF Select
  <1> HIDE DEF at
  <1>4. at \in [1 .. Cardinality(P) -> P] /\ DOMAIN at = 1 .. Cardinality(P)
    BY <1>2 DEF IsSorting
  <1>5. \A i, j \in 1 .. Cardinality(P) : i < j => at[i] < at[j]
    BY <1>2, <1>4 DEF IsSorting, ByNumber
  <1>6. Selects(s, P, at)
    BY <1>2, <1>3, <1>4, <1>5 DEF Selects, IsSorting
  <1> QED BY <1>1, <1>2, <1>6

-----------------------------------------------------------------------------
(* the edges of e lead forward and cost nothing or more *)
IsDag(e) == e \in Seq(Edge) /\ \A k \in DOMAIN e : IsForward(e[k]) /\ e[k].cost >= 0

(* edges lead to larger depths *)
Depth(x) == 13 * x[1] + Rank[x[2]]

SortDef(e, h, k) == IF k = 0 THEN <<>>
                    ELSE LET order == h[k - 1]
                         IN  order \o SortBy(Generation(e, ToSet(order)), VertexCompare)
SortOp(e, order, k) == order \o SortBy(Generation(e, ToSet(order)), VertexCompare)

Sorts == INSTANCE Recursion WITH Def <- SortDef, Op <- SortOp

LEMMA DepthIsNat ==
  ASSUME NEW x \in Vertex
  PROVE  Depth(x) \in Nat
PROOF
  BY RanksDiffer DEF Vertex, Depth

LEMMA DepthGrows ==
  ASSUME NEW d \in Edge, IsForward(d)
  PROVE  Depth(d.u) < Depth(d.v)
PROOF
  <1>1. d.u[1] \in Nat /\ d.v[1] \in Nat /\ d.u[2] \in Stages /\ d.v[2] \in Stages
    BY DEF Edge, Vertex
  <1>2. Rank[d.u[2]] \in 0 .. 12 /\ Rank[d.v[2]] \in 0 .. 12
    BY <1>1, RanksDiffer
  <1> QED BY <1>1, <1>2 DEF Depth, IsForward

(***************************************************************************)
(* A graph has finitely many vertices, the ends of its edges among them.   *)
(***************************************************************************)
LEMMA VerticesAre ==
  ASSUME NEW e \in Seq(Edge)
  PROVE  /\ IsFiniteSet(VerticesOf(e)) /\ Cardinality(VerticesOf(e)) \in Nat
         /\ VerticesOf(e) \in SUBSET Vertex
         /\ \A k \in DOMAIN e : e[k] \in Edge /\ e[k].u \in VerticesOf(e) /\ e[k].v \in VerticesOf(e)
PROOF
  <1> DEFINE n == Len(e)
             f == [k \in 1 .. n |-> e[k].u]
             g == [k \in 1 .. n |-> e[k].v]
             U == {e[k].u : k \in DOMAIN e}
             V == {e[k].v : k \in DOMAIN e}
  <1>1. n \in Nat /\ DOMAIN e = 1 .. n /\ \A k \in DOMAIN e : e[k] \in Edge
    OBVIOUS
  <1>2. IsFiniteSet(1 .. n)
    BY <1>1, FS_Interval
  <1>3. f \in Surjection(1 .. n, U) /\ g \in Surjection(1 .. n, V)
    BY <1>1 DEF Surjection
  <1> HIDE DEF f, g, n, U, V
  <1>4. IsFiniteSet(U) /\ IsFiniteSet(V)
    BY <1>2, <1>3, FS_Surjection
  <1>5. IsFiniteSet(U \cup V)
    BY <1>4, FS_Union
  <1>6. VerticesOf(e) = U \cup V
    BY DEF VerticesOf, U, V
  <1>7. \A k \in DOMAIN e : e[k].u \in U /\ e[k].v \in V /\ e[k].u \in Vertex /\ e[k].v \in Vertex
    BY <1>1 DEF U, V, Edge
  <1>8. U \subseteq Vertex /\ V \subseteq Vertex
    BY <1>7 DEF U, V
  <1> QED BY <1>1, <1>5, <1>6, <1>7, <1>8, FS_CardinalityType

(* every vertex of s comes after its predecessors *)
IsTopological(e, s) ==
  /\ s \in Seq(VerticesOf(e))
  /\ \A i, j \in DOMAIN s : s[i] = s[j] => i = j
  /\ \A i \in DOMAIN s : \A k \in Ingoing(e, s[i]) : \E j \in 1 .. i - 1 : s[j] = e[k].u

(***************************************************************************)
(* As long as a vertex is missing there is one to place next.              *)
(***************************************************************************)
LEMMA GenerationIsNotEmpty ==
  ASSUME NEW e, IsDag(e), NEW placed, VerticesOf(e) \ placed # {}
  PROVE  Generation(e, placed) # {}
PROOF
  <1> DEFINE M == VerticesOf(e) \ placed
             D == {Depth(x) : x \in M}
  <1>1. M \subseteq Vertex /\ e \in Seq(Edge)
    BY VerticesAre DEF IsDag
  <1>2. D \in SUBSET Nat /\ D # {}
    BY <1>1, DepthIsNat
  <1>3. PICK m \in D : \A y \in D : m <= y
    BY <1>2, Sorts!SmallestMember
  <1>4. PICK x \in M : m = Depth(x)
    BY <1>3
  <1>5. ASSUME NEW k \in Ingoing(e, x) PROVE e[k].u \in placed
    <2>1. k \in DOMAIN e /\ e[k].v = x
      BY DEF Ingoing
    <2>2. e[k] \in Edge /\ IsForward(e[k]) /\ e[k].u \in VerticesOf(e) /\ e[k].u \in Vertex
      BY <1>1, <2>1, VerticesAre DEF IsDag
    <2>3. Depth(e[k].u) < m /\ Depth(e[k].u) \in Nat /\ m \in Nat
      BY <1>1, <1>4, <2>1, <2>2, DepthGrows, DepthIsNat
    <2> QED BY <1>3, <2>2, <2>3
  <1> QED BY <1>4, <1>5 DEF Generation

(***************************************************************************)
(* A generation keeps the order topological.                               *)
(***************************************************************************)
LEMMA GenerationIsSorted ==
  ASSUME NEW e, IsDag(e), NEW s, IsTopological(e, s)
  PROVE  LET t == SortBy(Generation(e, ToSet(s)), VertexCompare)
         IN  /\ IsTopological(e, s \o t)
             /\ t \in Seq(VerticesOf(e))
             /\ ToSet(s) # VerticesOf(e) => Len(t) > 0
PROOF
  <1> DEFINE G == Generation(e, ToSet(s))
             t == SortBy(G, VertexCompare)
             n == Len(s)
             V == VerticesOf(e)
  <1>1. G \in SUBSET V /\ IsFiniteSet(G) /\ G \in SUBSET Vertex /\ e \in Seq(Edge)
    <2>1. e \in Seq(Edge) /\ G \in SUBSET V
      BY DEF IsDag, Generation
    <2> HIDE DEF G
    <2> QED BY <2>1, VerticesAre, FS_Subset
  <1>2. IsSorting(t, G, ByVertex(G)) /\ Cardinality(G) \in Nat
    <2> HIDE DEF G
    <2> QED BY <1>1, SortByVertex
  <1> DEFINE m == Cardinality(G)
  <1>3. /\ t \in [1 .. m -> G] /\ m \in Nat /\ t \in Seq(V) /\ Len(t) = m /\ DOMAIN t = 1 .. m
        /\ \A i, j \in 1 .. m : t[i] = t[j] => i = j
        /\ \A i \in 1 .. m : t[i] \in G
    <2> HIDE DEF t, G
    <2> QED BY <1>1, <1>2 DEF IsSorting
  <1>4. s \in Seq(V) /\ n \in Nat /\ DOMAIN s = 1 .. n
    BY DEF IsTopological
  <1>5. \A x \in G : x \notin ToSet(s) /\ \A k \in Ingoing(e, x) : e[k].u \in ToSet(s)
    BY DEF Generation
  <1>6. ToSet(s) # V => G # {}
    <2>1. ToSet(s) \subseteq V
      BY <1>4 DEF ToSet
    <2> QED BY <2>1, GenerationIsNotEmpty
  <1> HIDE DEF t, G, m, V
  <1>7. ToSet(s) # V => Len(t) > 0
    <2>1. ASSUME m = 0 PROVE G = {}
      BY <1>1, <2>1, FS_EmptySet DEF m
    <2> QED BY <1>3, <1>6, <2>1
  <1> DEFINE r == s \o t
  <1>8. /\ r \in Seq(V) /\ DOMAIN r = 1 .. n + m
        /\ \A i \in 1 .. n : r[i] = s[i]
        /\ \A i \in n + 1 .. n + m : r[i] = t[i - n] /\ i - n \in 1 .. m
    BY <1>3, <1>4
  <1> HIDE DEF r
  <1>9. \A i \in 1 .. n : r[i] \in ToSet(s)
    BY <1>4, <1>8 DEF ToSet
  <1>10. \A i \in n + 1 .. n + m : r[i] \in G
    BY <1>3, <1>8
  <1>11. ASSUME NEW i \in DOMAIN r, NEW j \in DOMAIN r, r[i] = r[j] PROVE i = j
    <2>1. i \in 1 .. n \/ i \in n + 1 .. n + m
      BY <1>3, <1>4, <1>8
    <2>2. j \in 1 .. n \/ j \in n + 1 .. n + m
      BY <1>3, <1>4, <1>8
    <2>3. CASE i \in 1 .. n /\ j \in 1 .. n
      BY <1>4, <1>8, <1>11, <2>3 DEF IsTopological
    <2>4. CASE i \in n + 1 .. n + m /\ j \in n + 1 .. n + m
      <3>1. t[i - n] = t[j - n] /\ i - n \in 1 .. m /\ j - n \in 1 .. m
        BY <1>8, <1>11, <2>4
      <3>2. i - n = j - n
        BY <1>3, <3>1
      <3> QED BY <1>4, <2>4, <3>2
    <2>5. ~(i \in 1 .. n /\ j \in n + 1 .. n + m) /\ ~(j \in 1 .. n /\ i \in n + 1 .. n + m)
      BY <1>5, <1>9, <1>10, <1>11
    <2> QED BY <2>1, <2>2, <2>3, <2>4, <2>5
  <1>12. ASSUME NEW i \in DOMAIN r, NEW k \in Ingoing(e, r[i])
         PROVE  \E j \in 1 .. i - 1 : r[j] = e[k].u
    <2>1. CASE i \in 1 .. n
      <3>1. PICK j \in 1 .. i - 1 : s[j] = e[k].u
        BY <1>4, <1>8, <2>1 DEF IsTopological
      <3>2. j \in 1 .. n
        BY <1>4, <2>1, <3>1
      <3> QED BY <1>8, <3>1, <3>2
    <2>2. CASE i \in n + 1 .. n + m
      <3>1. e[k].u \in ToSet(s)
        BY <1>5, <1>10, <2>2
      <3>2. PICK j \in 1 .. n : s[j] = e[k].u
        BY <1>4, <3>1 DEF ToSet
      <3>3. j \in 1 .. i - 1
        BY <1>4, <2>2
      <3> QED BY <1>8, <3>2, <3>3
    <2> QED BY <1>3, <1>4, <1>8, <2>1, <2>2
  <1>13. IsTopological(e, r)
    BY <1>8, <1>11, <1>12 DEF IsTopological, V
  <1> QED BY <1>3, <1>7, <1>13 DEF r, t, G, V

(***************************************************************************)
(* topological_sort places every vertex once, after its predecessors.      *)
(***************************************************************************)
LEMMA TopologicalSortIs ==
  ASSUME NEW e, IsDag(e)
  PROVE  /\ IsTopological(e, topological_sort(e))
         /\ Len(topological_sort(e)) = Cardinality(VerticesOf(e))
         /\ ToSet(topological_sort(e)) = VerticesOf(e)
PROOF
  <1> DEFINE V == VerticesOf(e)
             n == Cardinality(V)
             P(k) == Sorts!Fix(e, 0 .. n)[k]
  <1>1. n \in Nat /\ IsFiniteSet(V)
    BY VerticesAre DEF IsDag
  <1>2. topological_sort(e) = P(n)
    BY DEF topological_sort, Sorts!Fix, SortDef
  <1>3. Sorts!IsIteration(e, 0, n, <<>>)
    BY DEF Sorts!IsIteration, SortDef, SortOp
  <1> HIDE DEF n
  <1>4. Sorts!Iterates(e, 0, n, <<>>)
    BY <1>1, <1>3, Sorts!IterationSteps
  <1>5. P(0) = <<>> /\ \A k \in 1 .. n : P(k) = SortOp(e, P(k - 1), k)
    BY <1>1, <1>4 DEF Sorts!Iterates
  <1> HIDE DEF P
  <1> DEFINE Good(k) == /\ IsTopological(e, P(k))
                        /\ Len(P(k)) >= k \/ ToSet(P(k)) = V
             S == {k \in 0 .. n : Good(k)}
  <1>6. 0 \in S
    <2>1. IsTopological(e, <<>>)
      BY DEF IsTopological
    <2> QED BY <1>1, <1>5, <2>1
  <1>7. ASSUME NEW k \in 1 .. n, k - 1 \in S PROVE k \in S
    <2> DEFINE s == P(k - 1)
               t == SortBy(Generation(e, ToSet(s)), VertexCompare)
    <2>1. IsTopological(e, s) /\ (Len(s) >= k - 1 \/ ToSet(s) = V)
      BY <1>7
    <2>2. P(k) = s \o t
      BY <1>5 DEF SortOp
    <2>3. IsTopological(e, s \o t) /\ t \in Seq(V) /\ (ToSet(s) # V => Len(t) > 0)
      <3> HIDE DEF s
      <3> QED BY <2>1, GenerationIsSorted
    <2> HIDE DEF s, t
    <2>4. s \in Seq(V)
      BY <2>1 DEF IsTopological
    <2>5. ASSUME ToSet(s) = V PROVE ToSet(P(k)) = V
      <3>1. ToSet(s) \subseteq ToSet(s \o t)
        BY <2>3, <2>4 DEF ToSet
      <3>2. ToSet(s \o t) \subseteq V
        BY <2>3 DEF IsTopological, ToSet
      <3>3. ToSet(P(k)) = ToSet(s \o t)
        BY <2>2
      <3> HIDE DEF V
      <3> QED BY <2>5, <3>1, <3>2, <3>3
    <2>6. ASSUME ToSet(s) # V PROVE Len(P(k)) >= k
      <3>1. Len(s) >= k - 1 /\ Len(t) > 0 /\ Len(s \o t) = Len(s) + Len(t)
            /\ Len(s) \in Nat /\ Len(t) \in Nat
        BY <2>1, <2>3, <2>4, <2>6
      <3>2. Len(s \o t) >= k
        BY <3>1
      <3> QED BY <2>2, <3>2
    <2>7. IsTopological(e, P(k)) /\ k \in 0 .. n
      BY <1>1, <2>2, <2>3
    <2> QED BY <2>5, <2>6, <2>7
  <1>8. n \in S
    <2> HIDE DEF S
    <2>1. \A k \in 0 .. n : k \in S
      BY <1>1, <1>6, <1>7, Sorts!IntervalInduction
    <2> QED BY <1>1, <2>1
  <1> DEFINE s == P(n)
             l == Len(s)
  <1>9. IsTopological(e, s) /\ (l >= n \/ ToSet(s) = V)
    BY <1>8
  <1> HIDE DEF s, V
  <1>10. s \in Seq(V) /\ l \in Nat /\ DOMAIN s = 1 .. l /\ s \in [1 .. l -> V]
    BY <1>9 DEF IsTopological, V
  <1>11. s \in Injection(1 .. l, V)
    BY <1>9, <1>10 DEF IsTopological, Injection, IsInjective
  <1>12. Cardinality(1 .. l) = l
    <2>1. Cardinality(1 .. l) = IF 1 > l THEN 0 ELSE l - 1 + 1
      BY <1>10, FS_Interval
    <2> QED BY <1>10, <2>1
  <1> HIDE DEF l
  <1>13. l <= n /\ (l = n <=> s \in Surjection(1 .. l, V))
    BY <1>1, <1>11, <1>12, FS_Injection DEF n
  <1>14. ToSet(s) = V <=> s \in Surjection(1 .. l, V)
    BY <1>10 DEF ToSet, Surjection
  <1>15. l = n /\ ToSet(s) = V
    BY <1>1, <1>9, <1>10, <1>13, <1>14
  <1> QED BY <1>2, <1>9, <1>15 DEF s, l, n, V

-----------------------------------------------------------------------------
(***************************************************************************)
(* A finite total order has a greatest element.                            *)
(***************************************************************************)
LEMMA GreatestExists ==
  ASSUME NEW S, IsFiniteSet(S), S # {}, NEW L, IsTotalOrder(S, L)
  PROVE  \E x \in S : \A y \in S : y = x \/ <<y, x>> \in L
PROOF
  <1> DEFINE n == Cardinality(S)
             C(x) == Cardinality(Below(S, L, x))
  <1>1. /\ n \in Nat /\ \A x \in S : C(x) \in 0 .. n - 1
        /\ \A x, y \in S : <<x, y>> \in L => C(x) < C(y)
        /\ \A i \in 1 .. n : \E x \in S : C(x) = i - 1
    BY PositionsInOrder
  <1>2. n # 0
    BY FS_EmptySet
  <1> HIDE DEF C, n
  <1>3. n \in 1 .. n
    BY <1>1, <1>2
  <1>4. PICK x \in S : C(x) = n - 1
    BY <1>1, <1>3
  <1>5. ASSUME NEW y \in S PROVE ~(<<x, y>> \in L)
    BY <1>1, <1>4
  <1> QED BY <1>5 DEF IsTotalOrder

(***************************************************************************)
(* get_outgoing_edge returns an edge of the graph, the first of its kind.  *)
(***************************************************************************)
LEMMA OutgoingEdgeIs ==
  ASSUME NEW e \in Seq(Edge), NEW x, NEW y, if_exist_edge(e, x, y)
  PROVE  \E k \in DOMAIN e :
            /\ get_outgoing_edge(e, x, y) = e[k] /\ e[k].u = x /\ e[k].v = y
            /\ \A j \in 1 .. k - 1 : ~(e[j].u = x /\ e[j].v = y)
PROOF
  <1> DEFINE P == {k \in DOMAIN e : e[k].u = x /\ e[k].v = y}
  <1>1. P \in SUBSET Nat /\ P # {} /\ DOMAIN e = 1 .. Len(e) /\ Len(e) \in Nat
    BY DEF if_exist_edge
  <1>2. PICK m \in P : \A j \in P : m <= j
    <2> HIDE DEF P
    <2> QED BY <1>1, Sorts!SmallestMember
  <1>3. \A j \in 1 .. m - 1 : ~(e[j].u = x /\ e[j].v = y)
    BY <1>1, <1>2
  <1>4. \E k \in DOMAIN e : /\ e[k].u = x /\ e[k].v = y
                            /\ \A j \in 1 .. k - 1 : ~(e[j].u = x /\ e[j].v = y)
    BY <1>2, <1>3
  <1> DEFINE c == CHOOSE k \in DOMAIN e : /\ e[k].u = x /\ e[k].v = y
                                          /\ \A j \in 1 .. k - 1 : ~(e[j].u = x /\ e[j].v = y)
  <1>5. /\ c \in DOMAIN e /\ e[c].u = x /\ e[c].v = y
        /\ \A j \in 1 .. c - 1 : ~(e[j].u = x /\ e[j].v = y)
    BY <1>4
  <1>6. get_outgoing_edge(e, x, y) = e[c]
    BY DEF get_outgoing_edge
  <1> HIDE DEF c
  <1> QED BY <1>5, <1>6

(* the cost of the step along the edge that get_outgoing_edge finds *)
StepCost(e, x, y) == get_outgoing_edge(e, x, y).cost

LEMMA StepCostIs ==
  ASSUME NEW e, IsDag(e), NEW x, NEW y, if_exist_edge(e, x, y)
  PROVE  StepCost(e, x, y) \in Nat
PROOF
  <1>1. PICK k \in DOMAIN e : get_outgoing_edge(e, x, y) = e[k]
    BY OutgoingEdgeIs DEF IsDag
  <1>2. e[k] \in Edge /\ e[k].cost >= 0
    BY DEF IsDag
  <1> QED BY <1>1, <1>2 DEF StepCost, Edge

(* a distance and the vertex it came from, for every vertex *)
Table(e) == [VerticesOf(e) -> [cost : Nat, from : VerticesOf(e)]]

(* the distance of x is that of its best predecessor and the step from it *)
Settled(e, dist, x) ==
  /\ \A k \in Ingoing(e, x) : dist[e[k].u].cost + StepCost(e, e[k].u, x) <= dist[x].cost
  /\ \/ Ingoing(e, x) = {} /\ dist[x].cost = 0
     \/ \E k \in Ingoing(e, x) : /\ dist[x].from = e[k].u
                                 /\ dist[x].cost = dist[e[k].u].cost + StepCost(e, e[k].u, x)

(***************************************************************************)
(* update_dist takes the best predecessor.                                 *)
(***************************************************************************)
LEMMA UpdateDistIs ==
  ASSUME NEW e, IsDag(e), NEW x \in VerticesOf(e), NEW dist \in Table(e)
  PROVE  LET r == update_dist(e, dist, x)
         IN  /\ r \in [cost : Nat, from : VerticesOf(e)]
             /\ \A k \in Ingoing(e, x) : dist[e[k].u].cost + StepCost(e, e[k].u, x) <= r.cost
             /\ \/ Ingoing(e, x) = {} /\ r.cost = 0
                \/ \E k \in Ingoing(e, x) : /\ r.from = e[k].u
                                            /\ r.cost = dist[e[k].u].cost + StepCost(e, e[k].u, x)
PROOF
  <1> DEFINE In == Ingoing(e, x)
             Through(k) == dist[e[k].u].cost + get_outgoing_edge(e, e[k].u, x).cost
             Best(k) == \A j \in In : Through(j) <= Through(k) /\ (j < k => Through(j) < Through(k))
             best == CHOOSE k \in In : Best(k)
             r == update_dist(e, dist, x)
  <1>1. e \in Seq(Edge) /\ DOMAIN e = 1 .. Len(e) /\ Len(e) \in Nat
    BY DEF IsDag
  <1>2. ASSUME NEW k \in In
        PROVE  /\ k \in 1 .. Len(e) /\ e[k].u \in VerticesOf(e)
               /\ Through(k) \in Nat /\ Through(k) = dist[e[k].u].cost + StepCost(e, e[k].u, x)
    <2>1. k \in DOMAIN e /\ e[k].v = x /\ e[k].u \in VerticesOf(e)
      BY <1>1, VerticesAre DEF Ingoing
    <2>2. if_exist_edge(e, e[k].u, x)
      BY <2>1 DEF if_exist_edge
    <2>3. StepCost(e, e[k].u, x) \in Nat
      BY <2>2, StepCostIs
    <2>4. dist[e[k].u].cost \in Nat
      BY <2>1 DEF Table
    <2> QED BY <1>1, <2>1, <2>3, <2>4 DEF StepCost
  <1> HIDE DEF Through
  <1>3. r = IF In = {} THEN [cost |-> 0, from |-> x] ELSE [cost |-> Through(best), from |-> e[best].u]
    BY DEF update_dist, Through
  <1> HIDE DEF r, In
  <1>4. CASE In = {}
    BY <1>3, <1>4 DEF In, r
  <1>5. CASE In # {}
    <2> DEFINE L == {p \in In \X In : \/ Through(p[1]) < Through(p[2])
                                      \/ Through(p[1]) = Through(p[2]) /\ p[1] > p[2]}
    <2>1. IsFiniteSet(In)
      <3>1. In \in SUBSET (1 .. Len(e)) /\ IsFiniteSet(1 .. Len(e))
        BY <1>1, <1>2, FS_Interval
      <3> QED BY <3>1, FS_Subset
    <2>2. IsTotalOrder(In, L)
      <3>1. \A j, k \in In : <<j, k>> \in L <=> (\/ Through(j) < Through(k)
                                                 \/ Through(j) = Through(k) /\ j > k)
        OBVIOUS
      <3>2. \A k \in In : Through(k) \in Nat /\ k \in Int
        BY <1>1, <1>2
      <3> HIDE DEF L
      <3> QED BY <3>1, <3>2 DEF IsTotalOrder
    <2>3. PICK b \in In : \A j \in In : j = b \/ <<j, b>> \in L
      <3> HIDE DEF L
      <3> QED BY <1>5, <2>1, <2>2, GreatestExists
    <2>4. Best(b)
      <3> SUFFICES ASSUME NEW j \in In
                   PROVE  Through(j) <= Through(b) /\ (j < b => Through(j) < Through(b))
        OBVIOUS
      <3>1. Through(j) \in Nat /\ Through(b) \in Nat /\ j \in Int /\ b \in Int
        BY <1>1, <1>2
      <3>2. CASE j = b
        BY <3>1, <3>2
      <3>3. CASE Through(j) < Through(b) \/ (Through(j) = Through(b) /\ j > b)
        BY <3>1, <3>3
      <3> QED BY <2>3, <3>2, <3>3
    <2> HIDE DEF Best
    <2>5. best \in In /\ Best(best)
      BY <2>4
    <2> HIDE DEF best
    <2>6. r = [cost |-> Through(best), from |-> e[best].u]
      BY <1>3, <1>5
    <2>7. \A j \in In : Through(j) <= Through(best)
      BY <2>5 DEF Best
    <2>8. r \in [cost : Nat, from : VerticesOf(e)] /\ r.cost = Through(best) /\ r.from = e[best].u
      BY <1>2, <2>5, <2>6
    <2>9. \A k \in In : dist[e[k].u].cost + StepCost(e, e[k].u, x) <= r.cost
      BY <1>2, <2>7, <2>8
    <2>10. \E k \in In : r.from = e[k].u /\ r.cost = dist[e[k].u].cost + StepCost(e, e[k].u, x)
      BY <1>2, <2>5, <2>8
    <2> QED BY <2>8, <2>9, <2>10 DEF In, r
  <1> QED BY <1>4, <1>5

DistDef(e, h, s) ==
  IF s = {} THEN [x \in VerticesOf(e) |-> [cost |-> 0, from |-> x]]
  ELSE LET k == Max(s)
       IN  [h[s \ {k}] EXCEPT ![topological_sort(e)[k]]
              = update_dist(e, h[s \ {k}], topological_sort(e)[k])]
DistOp(e, dist, k) ==
  [dist EXCEPT ![topological_sort(e)[k]] = update_dist(e, dist, topological_sort(e)[k])]

Dists == INSTANCE Recursion WITH Def <- DistDef, Op <- DistOp

(***************************************************************************)
(* The distances of longest_path_core settle every vertex.                 *)
(***************************************************************************)
LEMMA DistancesAre ==
  ASSUME NEW e, IsDag(e)
  PROVE  Distances(e) \in Table(e) /\ \A x \in VerticesOf(e) : Settled(e, Distances(e), x)
PROOF
  <1> DEFINE V == VerticesOf(e)
             order == topological_sort(e)
             n == Len(order)
             base == [x \in V |-> [cost |-> 0, from |-> x]]
             P(k) == Dists!Partial(e, n, k)
  <1>1. /\ IsTopological(e, order) /\ ToSet(order) = V
        /\ n \in Nat /\ DOMAIN order = 1 .. n /\ \A k \in 1 .. n : order[k] \in V
    <2>1. IsTopological(e, order) /\ ToSet(order) = V
      BY TopologicalSortIs
    <2>2. order \in Seq(V)
      BY <2>1 DEF IsTopological
    <2> HIDE DEF order, V
    <2> QED BY <2>1, <2>2
  <1>2. Distances(e) = Dists!Folded(e, n)
    <2>1. Distances(e) = Dists!Fix(e, SUBSET (DOMAIN order))[DOMAIN order]
      BY DEF Distances, FoldLeft, MapThenFoldSet, Dists!Fix, DistDef, Max
    <2> HIDE DEF order
    <2> QED BY <1>1, <2>1 DEF Dists!Folded
  <1>3. Dists!IsFold(e, n, base)
    BY DEF Dists!IsFold, DistDef, DistOp, Max, Dists!Max
  <1> HIDE DEF base, n
  <1>4. /\ P(0) = base /\ \A k \in 1 .. n : P(k) = DistOp(e, P(k - 1), k)
        /\ Dists!Folded(e, n) = P(n)
    BY <1>1, <1>3, Dists!FoldSteps
  <1> HIDE DEF P
  <1> DEFINE Good(k) == P(k) \in Table(e) /\ \A i \in 1 .. k : Settled(e, P(k), order[i])
             S == {k \in 0 .. n : Good(k)}
  <1>5. 0 \in S
    <2>1. base \in Table(e)
      BY DEF base, Table
    <2> QED BY <1>1, <1>4, <2>1
  <1>6. ASSUME NEW k \in 1 .. n, k - 1 \in S PROVE k \in S
    <2> DEFINE x == order[k]
               old == P(k - 1)
               new == P(k)
               r == update_dist(e, old, x)
    <2>1. old \in Table(e) /\ \A i \in 1 .. k - 1 : Settled(e, old, order[i])
      BY <1>6
    <2>2. new = [old EXCEPT ![x] = r] /\ x \in V
      BY <1>1, <1>4 DEF DistOp
    <2>3. /\ r \in [cost : Nat, from : V]
          /\ \A j \in Ingoing(e, x) : old[e[j].u].cost + StepCost(e, e[j].u, x) <= r.cost
          /\ \/ Ingoing(e, x) = {} /\ r.cost = 0
             \/ \E j \in Ingoing(e, x) : /\ r.from = e[j].u
                                         /\ r.cost = old[e[j].u].cost + StepCost(e, e[j].u, x)
      <3> HIDE DEF old, x
      <3> QED BY <2>1, <2>2, UpdateDistIs
    <2>4. \A i \in 1 .. k - 1 : order[i] # x /\ order[i] \in V
      <3>1. \A i, j \in 1 .. n : order[i] = order[j] => i = j
        BY <1>1 DEF IsTopological
      <3> HIDE DEF order
      <3>2. \A i \in 1 .. k - 1 : i \in 1 .. n /\ i # k
        BY <1>1
      <3> QED BY <1>1, <3>1, <3>2
    <2>5. ASSUME NEW i \in 1 .. k, NEW j \in Ingoing(e, order[i])
          PROVE  \E m \in 1 .. k - 1 : order[m] = e[j].u
      <3>1. i \in DOMAIN order
        BY <1>1
      <3>2. PICK m \in 1 .. i - 1 : order[m] = e[j].u
        BY <1>1, <3>1 DEF IsTopological
      <3>3. m \in 1 .. k - 1
        OBVIOUS
      <3> QED BY <3>2, <3>3
    <2>6. ASSUME NEW i \in 1 .. k, NEW j \in Ingoing(e, order[i])
          PROVE  e[j].u # x /\ e[j].u \in V
      BY <2>4, <2>5
    <2> HIDE DEF old, new, r, x, order, V
    <2>7. new \in Table(e)
      BY <2>1, <2>2, <2>3 DEF Table, V
    <2>8. new[x] = r /\ \A y \in V : y # x => new[y] = old[y]
      BY <2>1, <2>2 DEF Table, V
    <2>9. Settled(e, new, x)
      <3>1. k \in 1 .. k /\ order[k] = x
        BY DEF x
      <3>2. \A j \in Ingoing(e, x) : new[e[j].u] = old[e[j].u]
        BY <2>6, <2>8, <3>1
      <3> QED BY <2>3, <2>8, <3>2 DEF Settled
    <2>10. ASSUME NEW i \in 1 .. k - 1 PROVE Settled(e, new, order[i])
      <3>1. new[order[i]] = old[order[i]]
        BY <2>4, <2>8
      <3>2. \A j \in Ingoing(e, order[i]) : new[e[j].u] = old[e[j].u]
        BY <2>6, <2>8
      <3> QED BY <2>1, <3>1, <3>2 DEF Settled
    <2>11. \A i \in 1 .. k : Settled(e, new, order[i])
      BY <2>9, <2>10 DEF x
    <2> QED BY <1>1, <2>7, <2>11 DEF new
  <1>7. n \in S
    <2> HIDE DEF S
    <2>1. \A k \in 0 .. n : k \in S
      BY <1>1, <1>5, <1>6, Dists!IntervalInduction
    <2> QED BY <1>1, <2>1
  <1>8. P(n) \in Table(e) /\ \A i \in 1 .. n : Settled(e, P(n), order[i])
    BY <1>7
  <1>9. \A x \in V : \E i \in 1 .. n : order[i] = x
    BY <1>1 DEF ToSet
  <1> HIDE DEF order, V
  <1>10. \A x \in V : Settled(e, P(n), x)
    BY <1>8, <1>9
  <1> QED BY <1>2, <1>4, <1>8, <1>10 DEF V

-----------------------------------------------------------------------------
(* p follows edges of e *)
IsWalk(e, p) ==
  /\ p \in Seq(VerticesOf(e)) /\ Len(p) > 0
  /\ \A k \in 1 .. Len(p) - 1 : if_exist_edge(e, p[k], p[k + 1])

(***************************************************************************)
(* What grows from each place to the next grows from each to all later.    *)
(***************************************************************************)
LEMMA GrowsEverywhere ==
  ASSUME NEW n \in Nat, NEW f \in [1 .. n -> Int], \A k \in 1 .. n - 1 : f[k] < f[k + 1]
  PROVE  \A i, j \in 1 .. n : i < j => f[i] < f[j]
PROOF
  <1> DEFINE S == {k \in 0 .. n : \A i \in 1 .. n : i + k \in 1 .. n /\ k > 0 => f[i] < f[i + k]}
  <1>1. 0 \in S
    OBVIOUS
  <1>2. ASSUME NEW k \in 1 .. n, k - 1 \in S PROVE k \in S
    <2> SUFFICES ASSUME NEW i \in 1 .. n, i + k \in 1 .. n PROVE f[i] < f[i + k]
      OBVIOUS
    <2> DEFINE j == i + (k - 1)
    <2>1. j \in 1 .. n - 1 /\ j \in 1 .. n /\ j + 1 = i + k
      OBVIOUS
    <2>2. f[j] < f[j + 1] /\ f[j] \in Int /\ f[j + 1] \in Int /\ f[i] \in Int
      BY <2>1
    <2>3. CASE k = 1
      BY <2>1, <2>2, <2>3
    <2>4. CASE k > 1
      <3>1. f[i] < f[j]
        BY <1>2, <2>1, <2>4
      <3> HIDE DEF j
      <3> QED BY <2>1, <2>2, <3>1
    <2> QED BY <2>3, <2>4
  <1>3. \A k \in 0 .. n : k \in S
    <2> HIDE DEF S
    <2> QED BY <1>1, <1>2, Sorts!IntervalInduction
  <1>4. ASSUME NEW i \in 1 .. n, NEW j \in 1 .. n, i < j PROVE f[i] < f[j]
    <2> DEFINE k == j - i
    <2>1. k \in 0 .. n /\ k > 0 /\ i + k = j
      BY <1>4
    <2> HIDE DEF k
    <2>2. k \in S
      BY <1>3, <2>1
    <2> QED BY <2>1, <2>2
  <1> QED BY <1>4

(***************************************************************************)
(* A walk never comes back: it is no longer than the graph has vertices.   *)
(***************************************************************************)
LEMMA WalkIsForward ==
  ASSUME NEW e, IsDag(e), NEW p, IsWalk(e, p)
  PROVE  /\ \A i, j \in DOMAIN p : i < j => Depth(p[i]) < Depth(p[j])
         /\ Len(p) <= Cardinality(VerticesOf(e))
PROOF
  <1> DEFINE n == Len(p)
             V == VerticesOf(e)
             f == [k \in 1 .. n |-> Depth(p[k])]
  <1>1. n \in Nat /\ DOMAIN p = 1 .. n /\ \A k \in 1 .. n : p[k] \in V /\ p[k] \in Vertex
    BY VerticesAre DEF IsWalk, IsDag
  <1>2. ASSUME NEW k \in 1 .. n - 1 PROVE f[k] < f[k + 1]
    <2>1. PICK m \in DOMAIN e : e[m].u = p[k] /\ e[m].v = p[k + 1]
      BY DEF IsWalk, if_exist_edge
    <2>2. e[m] \in Edge /\ IsForward(e[m])
      BY DEF IsDag
    <2>3. Depth(p[k]) < Depth(p[k + 1])
      BY <2>1, <2>2, DepthGrows
    <2> QED BY <1>1, <2>3
  <1>3. f \in [1 .. n -> Int]
    BY <1>1, DepthIsNat
  <1>4. \A i, j \in 1 .. n : i < j => f[i] < f[j]
    <2> HIDE DEF f, n
    <2> QED BY <1>1, <1>2, <1>3, GrowsEverywhere
  <1>5. \A i, j \in 1 .. n : i < j => Depth(p[i]) < Depth(p[j])
    BY <1>4
  <1>6. \A i \in 1 .. n : Depth(p[i]) \in Nat
    BY <1>1, DepthIsNat
  <1>7. p \in Injection(1 .. n, V)
    <2>1. \A i, j \in 1 .. n : p[i] = p[j] => i = j
      BY <1>1, <1>5, <1>6
    <2>2. p \in [1 .. n -> V]
      BY <1>1 DEF IsWalk
    <2> HIDE DEF n, V
    <2> QED BY <2>1, <2>2 DEF Injection, IsInjective
  <1>8. Cardinality(1 .. n) = n
    <2>1. Cardinality(1 .. n) = IF 1 > n THEN 0 ELSE n - 1 + 1
      BY <1>1, FS_Interval
    <2> QED BY <1>1, <2>1
  <1>9. IsFiniteSet(V)
    BY VerticesAre DEF IsDag
  <1>10. n <= Cardinality(V)
    BY <1>7, <1>8, <1>9, FS_Injection
  <1> QED BY <1>1, <1>5, <1>10

(* the vertex of the largest distance, the first in the order of the map *)
LastOf(e) ==
  CHOOSE x \in DOMAIN Distances(e) :
    \A y \in DOMAIN Distances(e) :
      \/ Distances(e)[y].cost < Distances(e)[x].cost
      \/ Distances(e)[y].cost = Distances(e)[x].cost /\ ~VertexCompare(y, x)

BackDef(e, h, n) ==
  IF n = 1 THEN <<LastOf(e)>>
  ELSE LET p == h[n - 1] IN
       IF Distances(e)[p[1]].cost = 0 THEN p ELSE <<Distances(e)[p[1]].from>> \o p
BackOp(e, p, n) ==
  IF Distances(e)[p[1]].cost = 0 THEN p ELSE <<Distances(e)[p[1]].from>> \o p

Backs == INSTANCE Recursion WITH Def <- BackDef, Op <- BackOp

LEMMA LastIs ==
  ASSUME NEW e, IsDag(e), e # <<>>
  PROVE  /\ LastOf(e) \in VerticesOf(e)
         /\ \A y \in VerticesOf(e) :
              \/ Distances(e)[y].cost < Distances(e)[LastOf(e)].cost
              \/ Distances(e)[y].cost = Distances(e)[LastOf(e)].cost /\ ~VertexCompare(y, LastOf(e))
PROOF
  <1> DEFINE V == VerticesOf(e)
             C(x) == Distances(e)[x].cost
             L == {p \in V \X V : C(p[1]) < C(p[2]) \/ (C(p[1]) = C(p[2]) /\ VertexCompare(p[2], p[1]))}
  <1>1. /\ V \in SUBSET Vertex /\ IsFiniteSet(V) /\ V # {} /\ DOMAIN Distances(e) = V
        /\ \A x \in V : C(x) \in Nat
    <2>1. e \in Seq(Edge) /\ 1 \in DOMAIN e
      BY DEF IsDag
    <2>2. V \in SUBSET Vertex /\ IsFiniteSet(V) /\ V # {}
      BY <2>1, VerticesAre
    <2>3. DOMAIN Distances(e) = V /\ \A x \in V : C(x) \in Nat
      BY DistancesAre DEF Table
    <2> QED BY <2>2, <2>3
  <1> HIDE DEF C, V
  <1>2. IsTotalOrder(V, L)
    <2>1. IsTotalOrder(V, ByVertex(V))
      BY <1>1, VerticesAreOrdered
    <2>2. /\ \A x \in V : ~VertexCompare(x, x)
          /\ \A x, y \in V : x # y => VertexCompare(x, y) \/ VertexCompare(y, x)
          /\ \A x, y, z \in V : VertexCompare(x, y) /\ VertexCompare(y, z) => VertexCompare(x, z)
      BY <2>1 DEF IsTotalOrder, ByVertex
    <2>3. \A x, y \in V : <<x, y>> \in L <=> (C(x) < C(y) \/ (C(x) = C(y) /\ VertexCompare(y, x)))
      OBVIOUS
    <2> HIDE DEF L
    <2> QED BY <1>1, <2>2, <2>3 DEF IsTotalOrder
  <1>3. PICK x \in V : \A y \in V : y = x \/ <<y, x>> \in L
    <2> HIDE DEF L
    <2> QED BY <1>1, <1>2, GreatestExists
  <1>4. ASSUME NEW y \in V PROVE C(y) < C(x) \/ (C(y) = C(x) /\ ~VertexCompare(y, x))
    <2>1. IsTotalOrder(V, ByVertex(V))
      BY <1>1, VerticesAreOrdered
    <2>2. ~VertexCompare(x, x) /\ ~(VertexCompare(x, y) /\ VertexCompare(y, x))
      BY <2>1 DEF IsTotalOrder, ByVertex
    <2> QED BY <1>1, <1>3, <2>2
  <1>5. \E z \in DOMAIN Distances(e) : \A y \in DOMAIN Distances(e) :
          C(y) < C(z) \/ (C(y) = C(z) /\ ~VertexCompare(y, z))
    BY <1>1, <1>3, <1>4
  <1>6. LastOf(e) = CHOOSE z \in DOMAIN Distances(e) : \A y \in DOMAIN Distances(e) :
                      C(y) < C(z) \/ (C(y) = C(z) /\ ~VertexCompare(y, z))
    BY DEF LastOf, C
  <1>7. LastOf(e) \in V /\ \A y \in V :
          C(y) < C(LastOf(e)) \/ (C(y) = C(LastOf(e)) /\ ~VertexCompare(y, LastOf(e)))
    BY <1>1, <1>5, <1>6
  <1> QED BY <1>7 DEF C, V

(* going back from the last vertex along the predecessors *)
IsTrail(e, p) ==
  /\ IsWalk(e, p) /\ p[Len(p)] = LastOf(e)
  /\ \A k \in 1 .. Len(p) - 1 :
       /\ Distances(e)[p[k + 1]].cost = Distances(e)[p[k]].cost + StepCost(e, p[k], p[k + 1])
       /\ Distances(e)[p[k + 1]].cost > 0

LEMMA TrailGrows ==
  ASSUME NEW e, IsDag(e), NEW p, IsTrail(e, p), Distances(e)[p[1]].cost # 0
  PROVE  LET q == <<Distances(e)[p[1]].from>> \o p
         IN  IsTrail(e, q) /\ Len(q) = Len(p) + 1
PROOF
  <1> DEFINE V == VerticesOf(e)
             C(x) == Distances(e)[x].cost
             x == Distances(e)[p[1]].from
             q == <<x>> \o p
             n == Len(p)
  <1>1. p \in Seq(V) /\ n \in Nat /\ n > 0 /\ DOMAIN p = 1 .. n /\ p[1] \in V
    BY DEF IsTrail, IsWalk
  <1>2. Distances(e) \in Table(e) /\ Settled(e, Distances(e), p[1])
    BY <1>1, DistancesAre
  <1>3. PICK k \in Ingoing(e, p[1]) : x = e[k].u /\ C(p[1]) = C(x) + StepCost(e, x, p[1])
    BY <1>2 DEF Settled
  <1>4. k \in DOMAIN e /\ e[k].v = p[1] /\ x \in V
    BY <1>3, VerticesAre DEF Ingoing, IsDag
  <1>5. if_exist_edge(e, x, p[1])
    BY <1>3, <1>4 DEF if_exist_edge
  <1>6. C(p[1]) \in Nat /\ C(p[1]) # 0
    BY <1>1, <1>2 DEF Table
  <1> HIDE DEF x, C, V
  <1>7. /\ q \in Seq(V) /\ Len(q) = n + 1 /\ q[1] = x /\ q[n + 1] = p[n]
        /\ \A j \in 1 .. n : q[j + 1] = p[j]
    BY <1>1, <1>4
  <1> HIDE DEF q
  <1>8. ASSUME NEW j \in 1 .. n
        PROVE  /\ if_exist_edge(e, q[j], q[j + 1])
               /\ C(q[j + 1]) = C(q[j]) + StepCost(e, q[j], q[j + 1]) /\ C(q[j + 1]) > 0
    <2>1. CASE j = 1
      <3>1. q[j] = x /\ q[j + 1] = p[1]
        BY <1>1, <1>7, <2>1
      <3> QED BY <1>3, <1>5, <1>6, <3>1
    <2>2. CASE j # 1
      <3> DEFINE i == j - 1
      <3>1. i \in 1 .. n - 1 /\ i + 1 = j /\ i \in 1 .. n
        BY <1>1, <2>2
      <3> HIDE DEF i
      <3>2. q[j] = p[i] /\ q[j + 1] = p[i + 1]
        BY <1>7, <3>1
      <3>3. /\ if_exist_edge(e, p[i], p[i + 1])
            /\ C(p[i + 1]) = C(p[i]) + StepCost(e, p[i], p[i + 1]) /\ C(p[i + 1]) > 0
        BY <3>1 DEF IsTrail, IsWalk, C
      <3> QED BY <3>2, <3>3
    <2> QED BY <2>1, <2>2
  <1>9. p[n] = LastOf(e)
    BY DEF IsTrail
  <1>10. Len(q) > 0 /\ Len(q) - 1 = n
    BY <1>1, <1>7
  <1>11. IsWalk(e, q)
    BY <1>7, <1>8, <1>10 DEF IsWalk, V
  <1>12. IsTrail(e, q)
    BY <1>7, <1>8, <1>9, <1>10, <1>11 DEF IsTrail, C
  <1> QED BY <1>7, <1>12 DEF q, x

(***************************************************************************)
(* longest_path_core: the trail to the vertex of the largest distance,     *)
(* from where it begins to cost; nothing when no vertex costs anything.    *)
(***************************************************************************)
LEMMA CoreIs ==
  ASSUME NEW e, IsDag(e), e # <<>>
  PROVE  IF Distances(e)[LastOf(e)].cost = 0 THEN longest_path_core(e) = <<>>
         ELSE /\ IsTrail(e, longest_path_core(e)) /\ Len(longest_path_core(e)) > 1
              /\ Distances(e)[longest_path_core(e)[1]].cost = 0
PROOF
  <1> DEFINE V == VerticesOf(e)
             n == Cardinality(V)
             last == LastOf(e)
             C(x) == Distances(e)[x].cost
             P(k) == Backs!Fix(e, 1 .. n)[k]
  <1>1. /\ DOMAIN Distances(e) = V /\ last \in V /\ n \in Nat /\ IsFiniteSet(V)
        /\ \A x \in V : C(x) \in Nat
    BY DistancesAre, LastIs, VerticesAre DEF Table, IsDag
  <1>2. n > 0
    BY <1>1, FS_EmptySet
  <1>3. longest_path_core(e) = IF C(last) = 0 THEN <<>> ELSE P(n)
    <2>1. longest_path_core(e)
            = IF C(last) = 0 THEN <<>>
              ELSE Backs!Fix(e, 1 .. Cardinality(DOMAIN Distances(e)))[Cardinality(DOMAIN Distances(e))]
      BY DEF longest_path_core, Backs!Fix, BackDef, LastOf
    <2> HIDE DEF C, last
    <2> QED BY <1>1, <2>1
  <1>4. Backs!IsIteration(e, 1, n, <<last>>)
    BY DEF Backs!IsIteration, BackDef, BackOp
  <1> HIDE DEF n, last
  <1>5. Backs!Iterates(e, 1, n, <<last>>)
    BY <1>1, <1>2, <1>4, Backs!IterationSteps
  <1>6. P(1) = <<last>> /\ \A k \in 2 .. n : P(k) = BackOp(e, P(k - 1), k)
    BY <1>1, <1>5 DEF Backs!Iterates
  <1> HIDE DEF P
  <1> DEFINE Good(p, k) == IsTrail(e, p) /\ (C(p[1]) = 0 \/ Len(p) = k)
             S == {k \in 0 .. n - 1 : Good(P(k + 1), k + 1)}
  <1>7. 0 \in S
    <2>1. IsWalk(e, <<last>>)
      BY <1>1 DEF IsWalk
    <2>2. IsTrail(e, <<last>>) /\ Len(<<last>>) = 1
      BY <2>1 DEF IsTrail, last
    <2>3. Good(P(1), 1)
      BY <1>6, <2>2
    <2> HIDE DEF Good
    <2> QED BY <1>1, <1>2, <2>3
  <1>8. ASSUME NEW k \in 1 .. n - 1, k - 1 \in S PROVE k \in S
    <2> DEFINE p == P(k)
    <2>1. Good(p, k) /\ k + 1 \in 2 .. n /\ (k + 1) - 1 = k
      <3> HIDE DEF Good
      <3> QED BY <1>1, <1>8
    <2>2. P(k + 1) = BackOp(e, p, k + 1)
      BY <1>6, <2>1
    <2> HIDE DEF p
    <2>3. CASE C(p[1]) = 0
      <3>1. P(k + 1) = p
        BY <2>2, <2>3 DEF BackOp
      <3>2. Good(P(k + 1), k + 1)
        BY <2>1, <2>3, <3>1
      <3> HIDE DEF Good
      <3> QED BY <1>1, <3>2
    <2>4. CASE C(p[1]) # 0
      <3> DEFINE q == <<Distances(e)[p[1]].from>> \o p
      <3>1. P(k + 1) = q
        BY <2>2, <2>4 DEF BackOp
      <3>2. IsTrail(e, q) /\ Len(q) = Len(p) + 1
        BY <2>1, <2>4, TrailGrows
      <3> HIDE DEF q
      <3>3. Good(q, k + 1)
        BY <2>1, <2>4, <3>2
      <3> HIDE DEF Good
      <3> QED BY <1>1, <3>1, <3>3
    <2> QED BY <2>3, <2>4
  <1>9. n - 1 \in S
    <2> HIDE DEF S
    <2>1. n - 1 \in Nat
      BY <1>1, <1>2
    <2>2. \A k \in 0 .. n - 1 : k \in S
      BY <1>7, <1>8, <2>1, Backs!IntervalInduction
    <2> QED BY <2>1, <2>2
  <1> DEFINE p == P(n)
  <1>10. Good(p, n)
    <2>1. (n - 1) + 1 = n
      BY <1>1
    <2> HIDE DEF Good
    <2> QED BY <1>9, <2>1
  <1> HIDE DEF p
  <1>11. C(p[1]) = 0
    <2> SUFFICES ASSUME C(p[1]) # 0 PROVE FALSE
      OBVIOUS
    <2> DEFINE q == <<Distances(e)[p[1]].from>> \o p
    <2>1. IsTrail(e, q) /\ Len(q) = n + 1
      BY <1>10, TrailGrows
    <2> HIDE DEF q
    <2>2. Len(q) <= n
      BY <2>1, WalkIsForward DEF IsTrail, n
    <2> QED BY <1>1, <2>1, <2>2
  <1>12. CASE C(last) = 0
    BY <1>3, <1>12 DEF last
  <1>13. CASE C(last) # 0
    <2>1. longest_path_core(e) = p
      BY <1>3, <1>13 DEF p
    <2>2. Len(p) > 1
      <3>1. Len(p) \in Nat /\ Len(p) > 0 /\ p[Len(p)] = last
        BY <1>10 DEF IsTrail, IsWalk, last
      <3>2. ASSUME Len(p) = 1 PROVE FALSE
        <4>1. p[1] = last
          BY <3>1, <3>2
        <4> QED BY <1>11, <1>13, <4>1
      <3> DEFINE l == Len(p)
      <3>3. l \in Nat /\ l > 0 /\ l # 1
        BY <3>1, <3>2
      <3> HIDE DEF l
      <3>4. l > 1
        BY <3>3
      <3> QED BY <3>4 DEF l
    <2> QED BY <1>10, <1>11, <1>13, <2>1, <2>2 DEF last
  <1> QED BY <1>12, <1>13


-----------------------------------------------------------------------------
(***************************************************************************)
(* Element i of a sorting has i - 1 smaller ones: there is one sorting.    *)
(***************************************************************************)
LEMMA SortingIsUnique ==
  ASSUME NEW S, IsFiniteSet(S), NEW L, IsTotalOrder(S, L),
         NEW s, IsSorting(s, S, L), NEW t, IsSorting(t, S, L)
  PROVE  s = t
PROOF
  <1> DEFINE n == Cardinality(S)
             B(x) == Cardinality(Below(S, L, x))
  <1>1. n \in Nat
    BY FS_CardinalityType
  <1>2. ASSUME NEW r, IsSorting(r, S, L), NEW i \in 1 .. n
        PROVE  B(r[i]) = i - 1
    <2> DEFINE f == [j \in 1 .. i - 1 |-> r[j]]
               T == Below(S, L, r[i])
    <2>1. /\ r \in [1 .. n -> S] /\ DOMAIN r = 1 .. n
          /\ \A j, k \in 1 .. n : j < k => <<r[j], r[k]>> \in L
          /\ \A j, k \in 1 .. n : r[j] = r[k] => j = k
          /\ \A x \in S : \E j \in 1 .. n : r[j] = x
      BY <1>2 DEF IsSorting
    <2>2. \A j \in 1 .. i - 1 : j \in 1 .. n /\ j < i
      BY <1>1
    <2>3. \A j \in 1 .. i - 1 : r[j] \in T
      BY <2>1, <2>2 DEF Below
    <2>4. ASSUME NEW x \in T PROVE \E j \in 1 .. i - 1 : f[j] = x
      <3>1. x \in S /\ <<x, r[i]>> \in L
        BY DEF Below
      <3>2. PICK j \in 1 .. n : r[j] = x
        BY <2>1, <3>1
      <3>3. ~(i < j)
        <4> SUFFICES ASSUME i < j PROVE FALSE
          OBVIOUS
        <4>1. <<r[i], x>> \in L /\ r[i] \in S
          BY <2>1, <3>2
        <4> QED BY <3>1, <4>1 DEF IsTotalOrder
      <3>4. i # j
        <4> SUFFICES ASSUME i = j PROVE FALSE
          OBVIOUS
        <4> QED BY <3>1, <3>2 DEF IsTotalOrder
      <3>5. j \in 1 .. i - 1
        BY <1>1, <3>3, <3>4
      <3> QED BY <3>2, <3>5
    <2>5. f \in [1 .. i - 1 -> T]
      BY <2>3
    <2>6. \A j, k \in 1 .. i - 1 : f[j] = f[k] => j = k
      BY <2>1, <2>2
    <2>7. f \in Bijection(1 .. i - 1, T)
      <3> HIDE DEF f, T
      <3>1. f \in Injection(1 .. i - 1, T)
        BY <2>5, <2>6 DEF Injection, IsInjective
      <3>2. f \in Surjection(1 .. i - 1, T)
        BY <2>4, <2>5 DEF Surjection
      <3> QED BY <3>1, <3>2 DEF Bijection
    <2>8. IsFiniteSet(1 .. i - 1) /\ Cardinality(1 .. i - 1) = i - 1
      <3>1. 1 \in Int /\ i - 1 \in Int
        BY <1>1
      <3>2. /\ IsFiniteSet(1 .. i - 1)
            /\ Cardinality(1 .. i - 1) = IF 1 > i - 1 THEN 0 ELSE (i - 1) - 1 + 1
        BY <3>1, FS_Interval
      <3> QED BY <1>1, <3>2
    <2>9. Cardinality(T) = Cardinality(1 .. i - 1)
      <3> HIDE DEF f, T
      <3>1. ExistsBijection(1 .. i - 1, T)
        BY <2>7 DEF ExistsBijection
      <3> QED BY <2>8, <3>1, FS_Bijection
    <2> QED BY <2>8, <2>9
  <1>3. \A x, y \in S : B(x) = B(y) => x = y
    <2>1. /\ \A x \in S : B(x) \in 0 .. n - 1
          /\ \A x, y \in S : <<x, y>> \in L => B(x) < B(y)
      BY PositionsInOrder
    <2> HIDE DEF B
    <2> SUFFICES ASSUME NEW x \in S, NEW y \in S, B(x) = B(y), x # y PROVE FALSE
      OBVIOUS
    <2>2. <<x, y>> \in L \/ <<y, x>> \in L
      BY DEF IsTotalOrder
    <2>3. B(x) \in Int /\ B(y) \in Int
      BY <1>1, <2>1
    <2> QED BY <2>1, <2>2, <2>3
  <1>4. s \in [1 .. n -> S] /\ t \in [1 .. n -> S]
    BY DEF IsSorting
  <1>5. ASSUME NEW i \in 1 .. n PROVE s[i] = t[i]
    <2>1. B(s[i]) = i - 1 /\ B(t[i]) = i - 1
      BY <1>2
    <2> HIDE DEF B
    <2> QED BY <1>3, <1>4, <2>1
  <1>6. s = [i \in 1 .. n |-> s[i]] /\ t = [i \in 1 .. n |-> t[i]]
    BY <1>4
  <1> HIDE DEF n
  <1> QED BY <1>5, <1>6

(***************************************************************************)
(* A sequence in the order of VertexCompare is the chain of its elements.  *)
(***************************************************************************)
LEMMA OrderedIsSorted ==
  ASSUME NEW p \in Seq(Vertex),
         \A i, j \in DOMAIN p : i < j => VertexCompare(p[i], p[j])
  PROVE  /\ p = SortBy(ToSet(p), VertexCompare)
         /\ IsFiniteSet(ToSet(p)) /\ Cardinality(ToSet(p)) = Len(p)
PROOF
  <1> DEFINE S == ToSet(p)
             n == Len(p)
  <1>1. n \in Nat /\ DOMAIN p = 1 .. n /\ S \in SUBSET Vertex /\ p \in [1 .. n -> S]
    BY DEF ToSet
  <1>2. /\ \A x \in Vertex : ~VertexCompare(x, x)
        /\ \A x \in S : \E i \in 1 .. n : p[i] = x
    <2>1. ASSUME NEW x \in Vertex PROVE ~VertexCompare(x, x)
      <3>1. x[1] \in Int /\ Rank[x[2]] \in Int
        BY RanksDiffer DEF Vertex
      <3> QED BY <3>1 DEF VertexCompare
    <2> QED BY <1>1, <2>1 DEF ToSet
  <1>3. ASSUME NEW i \in 1 .. n, NEW j \in 1 .. n, p[i] = p[j] PROVE i = j
    <2>1. p[i] \in Vertex
      BY <1>1
    <2>2. ~(i < j) /\ ~(j < i)
      BY <1>1, <1>2, <1>3, <2>1
    <2> QED BY <1>1, <2>2
  <1> HIDE DEF S
  <1>4. IsFiniteSet(S) /\ Cardinality(S) = n
    <2>1. p \in Bijection(1 .. n, S)
      <3>1. p \in Injection(1 .. n, S)
        BY <1>1, <1>3 DEF Injection, IsInjective
      <3>2. p \in Surjection(1 .. n, S)
        BY <1>1, <1>2 DEF Surjection
      <3> QED BY <3>1, <3>2 DEF Bijection
    <2>2. IsFiniteSet(1 .. n) /\ Cardinality(1 .. n) = n
      <3>1. /\ IsFiniteSet(1 .. n)
            /\ Cardinality(1 .. n) = IF 1 > n THEN 0 ELSE n - 1 + 1
        BY <1>1, FS_Interval
      <3> QED BY <1>1, <3>1
    <2>3. ExistsBijection(1 .. n, S)
      BY <2>1 DEF ExistsBijection
    <2> QED BY <2>2, <2>3, FS_Bijection
  <1>5. \A i, j \in 1 .. n : i < j => <<p[i], p[j]>> \in ByVertex(S)
    BY <1>1 DEF ByVertex
  <1>6. IsSorting(p, S, ByVertex(S))
    BY <1>1, <1>2, <1>3, <1>4, <1>5 DEF IsSorting
  <1>7. IsSorting(SortBy(S, VertexCompare), S, ByVertex(S))
    BY <1>1, <1>4, SortByVertex
  <1>8. IsTotalOrder(S, ByVertex(S))
    BY <1>1, VerticesAreOrdered
  <1>9. p = SortBy(S, VertexCompare)
    BY <1>4, <1>6, <1>7, <1>8, SortingIsUnique
  <1> QED BY <1>4, <1>9 DEF S

-----------------------------------------------------------------------------
(* c is the graph and the target *)
FindDef(c, h, x) ==
  IF if_exist_edge(c[1], x, c[2]) THEN <<x>>
  ELSE LET hits == {k \in Outgoing(c[1], x) : h[c[1][k].v] # <<>>}
       IN  IF hits = {} THEN <<>> ELSE <<x>> \o h[c[1][Min(hits)].v]
FindOp(c, a, b) == a

Finds == INSTANCE Recursion WITH Def <- FindDef, Op <- FindOp

(***************************************************************************)
(* Every vertex has a number that falls along the edges.                   *)
(***************************************************************************)
LEMMA HeightExists ==
  ASSUME NEW e, IsDag(e)
  PROVE  \E m \in [VerticesOf(e) -> Nat] : \A k \in DOMAIN e : m[e[k].v] < m[e[k].u]
PROOF
  <1> DEFINE V == VerticesOf(e)
             order == topological_sort(e)
             n == Len(order)
             At(x) == CHOOSE i \in 1 .. n : order[i] = x
             m == [x \in V |-> n - At(x)]
  <1>1. IsTopological(e, order) /\ ToSet(order) = V
    BY TopologicalSortIs
  <1>2. order \in Seq(V)
    BY <1>1 DEF IsTopological
  <1>3. n \in Nat /\ DOMAIN order = 1 .. n
    BY <1>2
  <1>4. \A i, j \in 1 .. n : order[i] = order[j] => i = j
    BY <1>1, <1>3 DEF IsTopological
  <1>5. \A i \in 1 .. n : \A k \in Ingoing(e, order[i]) : \E j \in 1 .. i - 1 : order[j] = e[k].u
    BY <1>1, <1>3 DEF IsTopological
  <1>6. \A x \in V : \E i \in 1 .. n : order[i] = x
    BY <1>1, <1>3 DEF ToSet
  <1> HIDE DEF order, n
  <1>7. \A x \in V : At(x) \in 1 .. n /\ order[At(x)] = x
    BY <1>6
  <1> HIDE DEF At
  <1>8. m \in [V -> Nat]
    BY <1>3, <1>7
  <1>9. ASSUME NEW k \in DOMAIN e PROVE m[e[k].v] < m[e[k].u]
    <2>1. e[k].u \in V /\ e[k].v \in V
      BY VerticesAre DEF IsDag
    <2> DEFINE i == At(e[k].v)
    <2>2. i \in 1 .. n /\ order[i] = e[k].v /\ k \in Ingoing(e, order[i])
      BY <1>7, <2>1 DEF Ingoing
    <2> HIDE DEF i
    <2>3. PICK j \in 1 .. i - 1 : order[j] = e[k].u
      BY <1>5, <2>2
    <2>4. j \in 1 .. n /\ At(e[k].u) \in 1 .. n /\ order[At(e[k].u)] = e[k].u
      BY <1>3, <1>7, <2>1, <2>2
    <2>5. j = At(e[k].u)
      BY <1>4, <2>3, <2>4
    <2>6. m[e[k].v] = n - i /\ m[e[k].u] = n - j
      BY <2>1, <2>5 DEF i
    <2> HIDE DEF m
    <2> QED BY <1>3, <2>2, <2>6
  <1> HIDE DEF m
  <1> QED BY <1>8, <1>9

(* the edges of x from whose heads find_path finds the target *)
Hits(e, x, target) == {k \in Outgoing(e, x) : find_path(e, e[k].v, target) # <<>>}

(***************************************************************************)
(* find_path takes the edge to the target if there is one, else the first  *)
(* edge from whose head it finds a path.                                   *)
(***************************************************************************)
LEMMA FindPathIs ==
  ASSUME NEW e, IsDag(e), NEW target
  PROVE  \A x \in VerticesOf(e) :
           find_path(e, x, target)
             = IF if_exist_edge(e, x, target) THEN <<x>>
               ELSE IF Hits(e, x, target) = {} THEN <<>>
               ELSE <<x>> \o find_path(e, e[Min(Hits(e, x, target))].v, target)
PROOF
  <1> DEFINE V == VerticesOf(e)
             c == <<e, target>>
             f == Finds!Fix(c, V)
  <1>1. ASSUME NEW b, NEW x PROVE find_path(b[1], x, b[2]) = Finds!Fix(b, VerticesOf(b[1]))[x]
    BY DEF find_path, Finds!Fix, FindDef
  <1>2. \A x : find_path(e, x, target) = f[x]
    <2>1. c[1] = e /\ c[2] = target
      OBVIOUS
    <2> HIDE DEF c
    <2>2. \A x : find_path(c[1], x, c[2]) = Finds!Fix(c, VerticesOf(c[1]))[x]
      BY <1>1
    <2> QED BY <2>1, <2>2
  <1>3. PICK m \in [V -> Nat] : \A k \in DOMAIN e : m[e[k].v] < m[e[k].u]
    BY HeightExists
  <1>4. ASSUME NEW g, NEW h, NEW x \in V, \A y \in V : m[y] < m[x] => g[y] = h[y]
        PROVE  FindDef(c, g, x) = FindDef(c, h, x)
    <2>1. \A k \in Outgoing(e, x) : g[e[k].v] = h[e[k].v]
      <3> TAKE k \in Outgoing(e, x)
      <3>1. k \in DOMAIN e /\ e[k].u = x /\ e[k].v \in V
        BY VerticesAre DEF Outgoing, IsDag
      <3> QED BY <1>3, <1>4, <3>1
    <2> DEFINE H == {k \in Outgoing(e, x) : g[e[k].v] # <<>>}
               K == {k \in Outgoing(e, x) : h[e[k].v] # <<>>}
    <2>2. H = K
      BY <2>1
    <2>3. /\ FindDef(c, g, x) = IF if_exist_edge(e, x, target) THEN <<x>>
                                ELSE IF H = {} THEN <<>> ELSE <<x>> \o g[e[Min(H)].v]
          /\ FindDef(c, h, x) = IF if_exist_edge(e, x, target) THEN <<x>>
                                ELSE IF K = {} THEN <<>> ELSE <<x>> \o h[e[Min(K)].v]
      BY DEF FindDef
    <2>4. H # {} => Min(H) \in Outgoing(e, x)
      <3> SUFFICES ASSUME H # {} PROVE Min(H) \in H
        OBVIOUS
      <3>1. H \in SUBSET Nat
        BY DEF Outgoing, IsDag
      <3> HIDE DEF H
      <3>2. \E y \in H : \A z \in H : y <= z
        BY <3>1, Finds!SmallestMember
      <3> QED BY <3>2 DEF Min
    <2> HIDE DEF H, K, c
    <2>5. H # {} => g[e[Min(H)].v] = h[e[Min(K)].v]
      BY <2>1, <2>2, <2>4
    <2>6. CASE if_exist_edge(e, x, target) \/ H = {}
      BY <2>2, <2>3, <2>6
    <2>7. CASE ~if_exist_edge(e, x, target) /\ H # {}
      <3>1. FindDef(c, g, x) = <<x>> \o g[e[Min(H)].v]
        BY <2>3, <2>7
      <3>2. FindDef(c, h, x) = <<x>> \o h[e[Min(K)].v]
        BY <2>2, <2>3, <2>7
      <3> QED BY <2>5, <2>7, <3>1, <3>2
    <2> QED BY <2>6, <2>7
  <1>5. f = [x \in V |-> FindDef(c, f, x)]
    <2>1. \A g, h : \A x \in V :
            (\A y \in V : m[y] < m[x] => g[y] = h[y]) => FindDef(c, g, x) = FindDef(c, h, x)
      BY <1>4
    <2> HIDE DEF c, V
    <2> QED BY <2>1, Finds!RecursionDefines
  <1> HIDE DEF f
  <1> QED
    <2> TAKE x \in V
    <2>1. f[x] = FindDef(c, f, x)
      <3> HIDE DEF c
      <3> QED BY <1>5
    <2> DEFINE H == {k \in Outgoing(e, x) : f[e[k].v] # <<>>}
    <2>2. f[x] = IF if_exist_edge(e, x, target) THEN <<x>>
                 ELSE IF H = {} THEN <<>> ELSE <<x>> \o f[e[Min(H)].v]
      BY <2>1 DEF FindDef
    <2>3. Hits(e, x, target) = H
      BY <1>2 DEF Hits
    <2> HIDE DEF H, c
    <2>4. CASE if_exist_edge(e, x, target) \/ H = {}
      BY <1>2, <2>2, <2>3, <2>4
    <2>5. CASE ~if_exist_edge(e, x, target) /\ H # {}
      <3>1. find_path(e, x, target) = <<x>> \o f[e[Min(H)].v]
        BY <1>2, <2>2, <2>5
      <3>2. f[e[Min(H)].v] = find_path(e, e[Min(Hits(e, x, target))].v, target)
        BY <1>2, <2>3
      <3> QED BY <2>3, <2>5, <3>1, <3>2
    <2> QED BY <2>4, <2>5

(***************************************************************************)
(* An edge to the first or from the last vertex of a walk makes it longer. *)
(***************************************************************************)
LEMMA WalkFrom ==
  ASSUME NEW e, NEW p, IsWalk(e, p), NEW x \in VerticesOf(e), if_exist_edge(e, x, p[1])
  PROVE  LET q == <<x>> \o p
         IN  /\ IsWalk(e, q) /\ Len(q) = Len(p) + 1 /\ q[1] = x /\ q[Len(q)] = p[Len(p)]
             /\ q # <<>>
PROOF
  <1> DEFINE V == VerticesOf(e)
             q == <<x>> \o p
             n == Len(p)
  <1>1. p \in Seq(V) /\ n \in Nat /\ n > 0
    BY DEF IsWalk
  <1> HIDE DEF V
  <1>2. /\ q \in Seq(V) /\ Len(q) = n + 1 /\ q[1] = x /\ q[n + 1] = p[n]
        /\ \A j \in 1 .. n : q[j + 1] = p[j]
    BY <1>1 DEF V
  <1> HIDE DEF q
  <1>3. ASSUME NEW j \in 1 .. n PROVE if_exist_edge(e, q[j], q[j + 1])
    <2>1. CASE j = 1
      BY <1>1, <1>2, <2>1
    <2>2. CASE j # 1
      <3> DEFINE i == j - 1
      <3>1. i \in 1 .. n - 1 /\ i \in 1 .. n /\ i + 1 = j
        BY <1>1, <2>2
      <3> HIDE DEF i
      <3>2. if_exist_edge(e, p[i], p[i + 1])
        BY <3>1 DEF IsWalk
      <3> QED BY <1>2, <3>1, <3>2
    <2> QED BY <2>1, <2>2
  <1>4. Len(q) - 1 = n /\ Len(q) > 0
    BY <1>1, <1>2
  <1>5. IsWalk(e, q) /\ q # <<>>
    BY <1>1, <1>2, <1>3, <1>4 DEF IsWalk, V
  <1> QED BY <1>2, <1>5 DEF q

LEMMA WalkTo ==
  ASSUME NEW e, NEW p, IsWalk(e, p), NEW y \in VerticesOf(e), if_exist_edge(e, p[Len(p)], y)
  PROVE  LET q == Append(p, y)
         IN  /\ IsWalk(e, q) /\ Len(q) = Len(p) + 1 /\ q[1] = p[1] /\ q[Len(q)] = y
             /\ q = p \o <<y>>
PROOF
  <1> DEFINE V == VerticesOf(e)
             q == Append(p, y)
             n == Len(p)
  <1>1. p \in Seq(V) /\ n \in Nat /\ n > 0
    BY DEF IsWalk
  <1> HIDE DEF V
  <1>2. /\ q \in Seq(V) /\ Len(q) = n + 1 /\ q[n + 1] = y
        /\ \A j \in 1 .. n : q[j] = p[j]
    BY <1>1 DEF V
  <1>3. q = p \o <<y>>
    BY <1>1
  <1> HIDE DEF q
  <1>4. ASSUME NEW j \in 1 .. n PROVE if_exist_edge(e, q[j], q[j + 1])
    <2>1. CASE j = n
      BY <1>1, <1>2, <2>1
    <2>2. CASE j # n
      <3>1. j \in 1 .. n - 1 /\ j + 1 \in 1 .. n
        BY <1>1, <2>2
      <3>2. if_exist_edge(e, p[j], p[j + 1])
        BY <3>1 DEF IsWalk
      <3> QED BY <1>2, <3>1, <3>2
    <2> QED BY <2>1, <2>2
  <1>5. Len(q) - 1 = n /\ Len(q) > 0 /\ 1 \in 1 .. n
    BY <1>1, <1>2
  <1>6. IsWalk(e, q)
    BY <1>1, <1>2, <1>4, <1>5 DEF IsWalk, V
  <1> QED BY <1>2, <1>3, <1>5, <1>6 DEF q

(***************************************************************************)
(* What find_path finds is a walk from the source to a vertex from which   *)
(* an edge leads to the target.                                            *)
(***************************************************************************)
LEMMA FindPathFinds ==
  ASSUME NEW e, IsDag(e), NEW target, NEW source \in VerticesOf(e),
         find_path(e, source, target) # <<>>
  PROVE  LET p == find_path(e, source, target)
         IN  IsWalk(e, p) /\ p[1] = source /\ if_exist_edge(e, p[Len(p)], target)
PROOF
  <1> DEFINE V == VerticesOf(e)
             P(x) == find_path(e, x, target)
             Found(x) == /\ IsWalk(e, P(x)) /\ P(x)[1] = x
                         /\ if_exist_edge(e, P(x)[Len(P(x))], target)
  <1>1. PICK m \in [V -> Nat] : \A k \in DOMAIN e : m[e[k].v] < m[e[k].u]
    BY HeightExists
  <1> DEFINE S == {n \in Nat : \A x \in V : m[x] = n /\ P(x) # <<>> => Found(x)}
  <1>2. ASSUME NEW n \in Nat, \A k \in Nat : k < n => k \in S PROVE n \in S
    <2> SUFFICES ASSUME NEW x \in V, m[x] = n, P(x) # <<>> PROVE Found(x)
      OBVIOUS
    <2>1. CASE if_exist_edge(e, x, target)
      <3>1. P(x) = <<x>>
        BY <2>1, FindPathIs
      <3>2. IsWalk(e, <<x>>) /\ Len(<<x>>) = 1
        BY DEF IsWalk
      <3> HIDE DEF P
      <3> QED BY <2>1, <3>1, <3>2
    <2>2. CASE ~if_exist_edge(e, x, target)
      <3> DEFINE H == Hits(e, x, target)
                 y == e[Min(H)].v
      <3>1. H # {} /\ P(x) = <<x>> \o P(y)
        BY <2>2, FindPathIs
      <3>2. Min(H) \in H
        <4>1. H \in SUBSET Nat
          BY DEF Hits, Outgoing, IsDag
        <4> HIDE DEF H
        <4>2. \E a \in H : \A z \in H : a <= z
          BY <3>1, <4>1, Finds!SmallestMember
        <4> QED BY <4>2 DEF Min
      <3>3. /\ Min(H) \in DOMAIN e /\ e[Min(H)].u = x /\ P(y) # <<>> /\ y \in V
            /\ if_exist_edge(e, x, y)
        BY <3>2, VerticesAre DEF Hits, Outgoing, IsDag, if_exist_edge
      <3> HIDE DEF H, P
      <3>4. m[y] \in Nat /\ m[y] < n
        BY <1>1, <3>3
      <3>5. Found(y)
        BY <1>2, <3>3, <3>4
      <3> HIDE DEF y
      <3> DEFINE q == <<x>> \o P(y)
      <3>6. /\ IsWalk(e, q) /\ q[1] = x /\ q[Len(q)] = P(y)[Len(P(y))]
        BY <3>3, <3>5, WalkFrom
      <3>7. P(x) = q
        BY <3>1 DEF y
      <3> HIDE DEF q
      <3> QED BY <3>5, <3>6, <3>7
    <2> QED BY <2>1, <2>2
  <1>3. \A n \in Nat : n \in S
    <2> HIDE DEF S
    <2> QED BY <1>2, Finds!NatSetInduction
  <1>4. m[source] \in Nat
    BY <1>1
  <1> HIDE DEF P
  <1>5. P(source) # <<>>
    BY DEF P
  <1>6. Found(source)
    BY <1>3, <1>4, <1>5
  <1> QED BY <1>6 DEF P

(***************************************************************************)
(* find_path finds a path when a walk leads to the target.                 *)
(***************************************************************************)
LEMMA FindPathMisses ==
  ASSUME NEW e, IsDag(e), NEW p, IsWalk(e, p), Len(p) > 1
  PROVE  find_path(e, p[1], p[Len(p)]) # <<>>
PROOF
  <1> DEFINE V == VerticesOf(e)
             n == Len(p)
             target == p[n]
             P(x) == find_path(e, x, target)
  <1>1. n \in Nat /\ n > 1 /\ DOMAIN p = 1 .. n /\ \A k \in 1 .. n : p[k] \in V
    BY DEF IsWalk
  <1>2. \A k \in 1 .. n - 1 : if_exist_edge(e, p[k], p[k + 1])
    BY DEF IsWalk
  <1> HIDE DEF n
  <1> DEFINE S == {k \in 0 .. n - 2 : P(p[n - 1 - k]) # <<>>}
  <1>3. 0 \in S
    <2>1. n - 1 \in 1 .. n - 1 /\ n - 1 \in 1 .. n /\ (n - 1) + 1 = n /\ n - 1 - 0 = n - 1
      BY <1>1
    <2>2. if_exist_edge(e, p[n - 1], target)
      BY <1>2, <2>1
    <2> HIDE DEF target
    <2>3. P(p[n - 1]) = <<p[n - 1]>>
      BY <1>1, <2>1, <2>2, FindPathIs
    <2>4. 0 \in 0 .. n - 2
      BY <1>1
    <2> HIDE DEF P
    <2>5. P(p[n - 1]) # <<>>
      BY <2>3
    <2>6. P(p[n - 1 - 0]) # <<>>
      BY <2>1, <2>5
    <2> QED BY <2>4, <2>6
  <1>4. ASSUME NEW k \in 1 .. n - 2, k - 1 \in S PROVE k \in S
    <2> DEFINE j == n - 1 - k
    <2>1. j \in 1 .. n - 1 /\ j \in 1 .. n /\ j + 1 \in 1 .. n /\ n - 1 - (k - 1) = j + 1 /\ k \in 0 .. n - 2
      BY <1>1
    <2>2. P(p[j + 1]) # <<>>
      BY <1>4, <2>1
    <2>3. PICK i \in DOMAIN e : e[i].u = p[j] /\ e[i].v = p[j + 1]
      BY <1>2, <2>1 DEF if_exist_edge
    <2> HIDE DEF j, target
    <2>4. i \in Hits(e, p[j], target)
      BY <2>2, <2>3 DEF Hits, Outgoing
    <2>5. P(p[j]) = <<p[j]>> \/ \E y : P(p[j]) = <<p[j]>> \o P(y) /\ (y \in V /\ P(y) # <<>>)
      <3> DEFINE H == Hits(e, p[j], target)
                 y == e[Min(H)].v
      <3>1. Min(H) \in H
        <4>1. H \in SUBSET Nat
          BY DEF Hits, Outgoing, IsDag
        <4> HIDE DEF H
        <4>2. \E a \in H : \A z \in H : a <= z
          BY <2>4, <4>1, Finds!SmallestMember DEF H
        <4> QED BY <4>2 DEF Min
      <3>2. y \in V /\ P(y) # <<>>
        BY <3>1, VerticesAre DEF Hits, Outgoing, IsDag
      <3>3. P(p[j]) = <<p[j]>> \/ P(p[j]) = <<p[j]>> \o P(y)
        BY <1>1, <2>1, <2>4, FindPathIs
      <3> HIDE DEF y, P
      <3> QED BY <3>2, <3>3
    <2>6. P(p[j]) # <<>>
      <3>1. CASE P(p[j]) = <<p[j]>>
        BY <3>1
      <3>2. CASE \E y : P(p[j]) = <<p[j]>> \o P(y) /\ (y \in V /\ P(y) # <<>>)
        <4>1. PICK y : P(p[j]) = <<p[j]>> \o P(y) /\ (y \in V /\ P(y) # <<>>)
          BY <3>2
        <4>2. P(y) \in Seq(V)
          BY <4>1, FindPathFinds DEF IsWalk
        <4> HIDE DEF P
        <4>3. Len(<<p[j]>> \o P(y)) > 0
          BY <4>2
        <4> QED BY <4>1, <4>3
      <3> QED BY <2>5, <3>1, <3>2
    <2> HIDE DEF P
    <2> QED BY <2>1, <2>6 DEF j
  <1>5. n - 2 \in S
    <2> HIDE DEF S
    <2>1. n - 2 \in Nat
      BY <1>1
    <2>2. \A k \in 0 .. n - 2 : k \in S
      BY <1>3, <1>4, <2>1, Finds!IntervalInduction
    <2> QED BY <2>1, <2>2
  <1>6. n - 1 - (n - 2) = 1
    BY <1>1
  <1> HIDE DEF P
  <1> QED BY <1>5, <1>6 DEF P, n

-----------------------------------------------------------------------------
FlattenDef(s, h, k) == IF k = 1 THEN s[k] ELSE h[k - 1] \o s[k]
FlattenOp(s, t, k)  == t \o s[k]

Flats == INSTANCE Recursion WITH Def <- FlattenDef, Op <- FlattenOp

(***************************************************************************)
(* FlattenSeq holds the elements of its sequences and no others.           *)
(***************************************************************************)
LEMMA FlattenIs ==
  ASSUME NEW A, NEW s \in Seq(Seq(A))
  PROVE  /\ FlattenSeq(s) \in Seq(A)
         /\ \A i \in DOMAIN FlattenSeq(s) :
              \E k \in DOMAIN s : \E j \in DOMAIN s[k] : FlattenSeq(s)[i] = s[k][j]
PROOF
  <1> DEFINE n == Len(s)
             P(k) == Flats!Fix(s, 1 .. n)[k]
             Good(t) == /\ t \in Seq(A)
                        /\ \A i \in DOMAIN t :
                             \E k \in DOMAIN s : \E j \in DOMAIN s[k] : t[i] = s[k][j]
  <1>1. n \in Nat /\ DOMAIN s = 1 .. n /\ \A k \in 1 .. n : s[k] \in Seq(A)
    OBVIOUS
  <1>2. CASE n = 0
    <2>1. FlattenSeq(s) = <<>> /\ <<>> \in Seq(A)
      BY <1>2 DEF FlattenSeq
    <2> QED BY <2>1
  <1>3. CASE n > 0
    <2>1. FlattenSeq(s) = P(n)
      BY <1>1, <1>3 DEF FlattenSeq, Flats!Fix, FlattenDef
    <2>2. Flats!IsIteration(s, 1, n, s[1])
      BY DEF Flats!IsIteration, FlattenDef, FlattenOp
    <2> HIDE DEF n
    <2>3. Flats!Iterates(s, 1, n, s[1])
      BY <1>1, <1>3, <2>2, Flats!IterationSteps
    <2>4. P(1) = s[1] /\ \A k \in 2 .. n : P(k) = P(k - 1) \o s[k]
      <3>1. P(1) = s[1] /\ \A k \in 2 .. n : P(k) = FlattenOp(s, P(k - 1), k)
        BY <1>1, <2>3 DEF Flats!Iterates
      <3> HIDE DEF P
      <3> QED BY <3>1 DEF FlattenOp
    <2> HIDE DEF P
    <2> DEFINE S == {k \in 0 .. n - 1 : Good(P(k + 1))}
    <2>5. 0 \in S
      <3>1. 1 \in 1 .. n /\ 0 \in 0 .. n - 1 /\ 0 + 1 = 1
        BY <1>1, <1>3
      <3>2. Good(s[1])
        BY <1>1, <3>1
      <3> HIDE DEF Good
      <3> QED BY <2>4, <3>1, <3>2
    <2>6. ASSUME NEW k \in 1 .. n - 1, k - 1 \in S PROVE k \in S
      <3> DEFINE t == P(k)
                 r == s[k + 1]
      <3>1. k + 1 \in 2 .. n /\ k + 1 \in 1 .. n /\ (k + 1) - 1 = k /\ (k - 1) + 1 = k /\ k \in 0 .. n - 1
        BY <1>1
      <3>2. P(k + 1) = t \o r
        BY <2>4, <3>1
      <3>3. Good(t)
        <4> HIDE DEF Good, t
        <4> QED BY <2>6, <3>1 DEF t
      <3>4. r \in Seq(A)
        BY <1>1, <3>1
      <3> HIDE DEF t
      <3>5. t \o r \in Seq(A)
        BY <3>3, <3>4
      <3>6. ASSUME NEW i \in DOMAIN (t \o r)
            PROVE  \E m \in DOMAIN s : \E j \in DOMAIN s[m] : (t \o r)[i] = s[m][j]
        <4>1. Len(t) \in Nat /\ Len(r) \in Nat /\ i \in 1 .. Len(t) + Len(r)
          BY <3>3, <3>4
        <4>2. CASE i <= Len(t)
          <5>1. i \in DOMAIN t /\ (t \o r)[i] = t[i]
            BY <3>3, <3>4, <4>1, <4>2
          <5> QED BY <3>3, <5>1
        <4>3. CASE i > Len(t)
          <5>1. i - Len(t) \in DOMAIN r /\ (t \o r)[i] = r[i - Len(t)]
            BY <3>3, <3>4, <4>1, <4>3
          <5> QED BY <1>1, <3>1, <5>1
        <4> QED BY <4>1, <4>2, <4>3
      <3>7. Good(t \o r)
        BY <3>5, <3>6
      <3> HIDE DEF Good
      <3> QED BY <3>1, <3>2, <3>7
    <2>7. n - 1 \in S
      <3> HIDE DEF S
      <3>1. n - 1 \in Nat
        BY <1>1, <1>3
      <3>2. \A k \in 0 .. n - 1 : k \in S
        BY <2>5, <2>6, <3>1, Flats!IntervalInduction
      <3> QED BY <3>1, <3>2
    <2>8. Good(P(n))
      <3>1. (n - 1) + 1 = n
        BY <1>1
      <3> HIDE DEF Good
      <3> QED BY <2>7, <3>1
    <2> QED BY <2>1, <2>8
  <1> QED BY <1>1, <1>2, <1>3

(***************************************************************************)
(* Heads lists the heads of the edges at the given places.                 *)
(***************************************************************************)
LEMMA HeadsAre ==
  ASSUME NEW e \in Seq(Edge), NEW P \in SUBSET DOMAIN e
  PROVE  /\ Heads(e, P) \in Seq(VerticesOf(e))
         /\ \A i \in DOMAIN Heads(e, P) : \E k \in P : Heads(e, P)[i] = e[k].v
         /\ \A k \in P : \E i \in DOMAIN Heads(e, P) : Heads(e, P)[i] = e[k].v
PROOF
  <1>1. Len(e) \in Nat /\ P \in SUBSET (1 .. Len(e))
    OBVIOUS
  <1> DEFINE n == Cardinality(P)
  <1>2. n \in Nat
    BY <1>1, SelectIs
  <1>3. PICK at : Selects(e, P, at)
    BY <1>1, SelectIs
  <1> DEFINE h == [k \in 1 .. n |-> e[at[k]].v]
  <1>4. Heads(e, P) = h
    BY <1>3 DEF Heads, Selects
  <1>5. \A k \in P : e[k].v \in VerticesOf(e)
    BY VerticesAre
  <1>6. DOMAIN h = 1 .. n /\ \A i \in 1 .. n : at[i] \in P /\ h[i] = e[at[i]].v
    BY <1>3 DEF Selects
  <1>7. h \in Seq(VerticesOf(e))
    <2>1. h \in [1 .. n -> VerticesOf(e)]
      BY <1>5, <1>6
    <2> HIDE DEF h, n
    <2> QED BY <1>2, <2>1
  <1>8. \A x \in P : \E i \in 1 .. n : at[i] = x
    BY <1>3 DEF Selects
  <1> HIDE DEF h, n
  <1> QED BY <1>4, <1>6, <1>7, <1>8

-----------------------------------------------------------------------------
(* what if_exist_path does with the next vertex y it meets *)
LookAt(e, target, s, y) ==
  IF s.result # "searching" THEN s
  ELSE IF y[1] > target[1] THEN [s EXCEPT !.result = "no"]
  ELSE IF if_exist_edge(e, y, target) THEN [s EXCEPT !.result = "yes"]
  ELSE IF y \in s.seen THEN [s EXCEPT !.result = "no"]
  ELSE [s EXCEPT !.seen = @ \cup {y}, !.next = Append(@, y)]

(* the heads of all the edges of the vertices of s.next *)
NextOf(e, s) == FlattenSeq([j \in DOMAIN s.next |-> Heads(e, Outgoing(e, s.next[j]))])

Scan(e, target, base, ys) == FoldLeft(LAMBDA s, y : LookAt(e, target, s, y), base, ys)

(* c is the graph, the target, the first state and the vertices *)
LookDef(c, h, s) == IF s = {} THEN c[3]
                    ELSE LET k == Max(s) IN LookAt(c[1], c[2], h[s \ {k}], c[4][k])
LookOp(c, s, k)  == LookAt(c[1], c[2], s, c[4][k])

Looks == INSTANCE Recursion WITH Def <- LookDef, Op <- LookOp

(* s are the states a scan passes through *)
IsScan(e, target, base, ys, s) ==
  /\ s[0] = base
  /\ \A k \in 1 .. Len(ys) : s[k] = LookAt(e, target, s[k - 1], ys[k])
  /\ Scan(e, target, base, ys) = s[Len(ys)]

LEMMA ScanSteps ==
  ASSUME NEW e, NEW target, NEW base, NEW A, NEW ys \in Seq(A)
  PROVE  \E s : IsScan(e, target, base, ys, s)
PROOF
  <1> DEFINE c == <<e, target, base, ys>>
             n == Len(ys)
             s == [k \in 0 .. n |-> Looks!Partial(c, n, k)]
  <1>1. n \in Nat /\ DOMAIN ys = 1 .. n
    OBVIOUS
  <1>2. c[1] = e /\ c[2] = target /\ c[3] = base /\ c[4] = ys
    OBVIOUS
  <1>3. ASSUME NEW b
        PROVE  Scan(b[1], b[2], b[3], b[4]) = Looks!Fix(b, SUBSET (DOMAIN b[4]))[DOMAIN b[4]]
    BY DEF Scan, FoldLeft, MapThenFoldSet, Looks!Fix, LookDef, Max
  <1>4. ASSUME NEW b PROVE Looks!IsFold(b, n, b[3])
    BY DEF Looks!IsFold, LookDef, LookOp, Max, Looks!Max
  <1>5. Looks!IsFold(c, n, base)
    <2> HIDE DEF c
    <2> QED BY <1>2, <1>4
  <1>6. Scan(e, target, base, ys) = Looks!Folded(c, n)
    <2> HIDE DEF c
    <2>1. Scan(c[1], c[2], c[3], c[4]) = Looks!Fix(c, SUBSET (DOMAIN c[4]))[DOMAIN c[4]]
      BY <1>3
    <2> HIDE DEF n
    <2> QED BY <1>1, <1>2, <2>1 DEF Looks!Folded
  <1> HIDE DEF c, n
  <1>7. /\ Looks!Partial(c, n, 0) = base
        /\ \A k \in 1 .. n : Looks!Partial(c, n, k) = LookOp(c, Looks!Partial(c, n, k - 1), k)
        /\ Looks!Folded(c, n) = Looks!Partial(c, n, n)
    BY <1>1, <1>5, Looks!FoldSteps
  <1>8. s[0] = base /\ s[n] = Looks!Folded(c, n)
    BY <1>1, <1>7
  <1>9. ASSUME NEW k \in 1 .. n PROVE s[k] = LookAt(e, target, s[k - 1], ys[k])
    <2>1. k \in 0 .. n /\ k - 1 \in 0 .. n
      BY <1>1
    <2>2. s[k] = Looks!Partial(c, n, k) /\ s[k - 1] = Looks!Partial(c, n, k - 1)
      BY <2>1
    <2> HIDE DEF s
    <2>3. s[k] = LookOp(c, s[k - 1], k)
      BY <1>7, <2>2
    <2> QED BY <1>2, <2>3 DEF LookOp
  <1> HIDE DEF s
  <1>10. IsScan(e, target, base, ys, s)
    BY <1>6, <1>8, <1>9 DEF IsScan, n
  <1> QED BY <1>10

FirstSearch(source) == [result |-> "searching", seen |-> {}, next |-> <<source>>]

SearchStep(e, target, s) == Scan(e, target, [s EXCEPT !.next = <<>>], NextOf(e, s))

(* c is the graph, the source and the target *)
SearchDef(c, h, k) ==
  IF k = 0 THEN FirstSearch(c[2]) ELSE SearchStep(c[1], c[3], h[k - 1])
SearchOp(c, s, k) == SearchStep(c[1], c[3], s)

Searches == INSTANCE Recursion WITH Def <- SearchDef, Op <- SearchOp

(* s are the states of the search after each generation *)
IsSearch(e, source, target, s) ==
  /\ s[0] = FirstSearch(source)
  /\ \A k \in 1 .. Cardinality(VerticesOf(e)) : s[k] = SearchStep(e, target, s[k - 1])
  /\ if_exist_path(e, source, target)
       <=> source[1] <= target[1] /\ s[Cardinality(VerticesOf(e))].result = "yes"

(***************************************************************************)
(* if_exist_path searches generation by generation.                        *)
(***************************************************************************)
LEMMA SearchSteps ==
  ASSUME NEW e \in Seq(Edge), NEW source, NEW target
  PROVE  \E s : IsSearch(e, source, target, s)
PROOF
  <1> DEFINE c == <<e, source, target>>
             n == Cardinality(VerticesOf(e))
             f == Searches!Fix(c, 0 .. n)
  <1>1. n \in Nat
    BY VerticesAre
  <1>2. c[1] = e /\ c[2] = source /\ c[3] = target
    OBVIOUS
  <1>3. ASSUME NEW b
        PROVE  LET m == Cardinality(VerticesOf(b[1]))
               IN  if_exist_path(b[1], b[2], b[3])
                     <=> b[2][1] <= b[3][1] /\ Searches!Fix(b, 0 .. m)[m].result = "yes"
    BY DEF if_exist_path, Searches!Fix, SearchDef, SearchStep, FirstSearch, Scan, FoldLeft, MapThenFoldSet,
           NextOf, LookAt
  <1>4. if_exist_path(e, source, target) <=> source[1] <= target[1] /\ f[n].result = "yes"
    <2> HIDE DEF c
    <2> QED BY <1>2, <1>3
  <1>5. ASSUME NEW b PROVE Searches!IsIteration(b, 0, n, FirstSearch(b[2]))
    BY DEF Searches!IsIteration, SearchDef, SearchOp
  <1> HIDE DEF c, n
  <1>6. Searches!IsIteration(c, 0, n, FirstSearch(source))
    BY <1>2, <1>5
  <1>7. Searches!Iterates(c, 0, n, FirstSearch(source))
    BY <1>1, <1>6, Searches!IterationSteps
  <1>8. f[0] = FirstSearch(source) /\ \A k \in 1 .. n : f[k] = SearchOp(c, f[k - 1], k)
    BY <1>1, <1>7 DEF Searches!Iterates
  <1> HIDE DEF f
  <1>9. \A k \in 1 .. n : f[k] = SearchStep(e, target, f[k - 1])
    BY <1>2, <1>8 DEF SearchOp
  <1>10. IsSearch(e, source, target, f)
    BY <1>4, <1>8, <1>9 DEF IsSearch, n
  <1> QED BY <1>10

(* a state of the search of if_exist_path *)
SearchState(e) == [result : {"searching", "yes", "no"}, seen : SUBSET VerticesOf(e),
                   next : Seq(VerticesOf(e))]

(* a walk of at least n vertices leads from x to y *)
Reaches(e, x, y, n) == \E p : IsWalk(e, p) /\ p[1] = x /\ p[Len(p)] = y /\ Len(p) >= n

(***************************************************************************)
(* The vertices NextOf returns are one edge away from those of s.next.     *)
(***************************************************************************)
LEMMA NextOfIs ==
  ASSUME NEW e \in Seq(Edge), NEW s \in SearchState(e)
  PROVE  /\ NextOf(e, s) \in Seq(VerticesOf(e))
         /\ \A i \in DOMAIN NextOf(e, s) :
              \E j \in DOMAIN s.next : if_exist_edge(e, s.next[j], NextOf(e, s)[i])
PROOF
  <1> DEFINE V == VerticesOf(e)
             H(x) == Heads(e, Outgoing(e, x))
             hs == [j \in DOMAIN s.next |-> H(s.next[j])]
  <1>1. s.next \in Seq(V) /\ Len(s.next) \in Nat /\ DOMAIN s.next = 1 .. Len(s.next)
    BY DEF SearchState
  <1>2. ASSUME NEW x
        PROVE  H(x) \in Seq(V) /\ \A i \in DOMAIN H(x) : \E k \in Outgoing(e, x) : H(x)[i] = e[k].v
    <2>1. Outgoing(e, x) \in SUBSET DOMAIN e
      BY DEF Outgoing
    <2> QED BY <2>1, HeadsAre
  <1> HIDE DEF H, V
  <1>3. hs \in Seq(Seq(V)) /\ DOMAIN hs = DOMAIN s.next /\ \A j \in DOMAIN hs : hs[j] = H(s.next[j])
    BY <1>1, <1>2
  <1>4. NextOf(e, s) = FlattenSeq(hs)
    BY DEF NextOf, H
  <1> HIDE DEF hs
  <1>5. NextOf(e, s) \in Seq(V)
    BY <1>3, <1>4, FlattenIs
  <1>6. ASSUME NEW i \in DOMAIN NextOf(e, s)
        PROVE  \E j \in DOMAIN s.next : if_exist_edge(e, s.next[j], NextOf(e, s)[i])
    <2>1. PICK j \in DOMAIN hs : \E m \in DOMAIN hs[j] : NextOf(e, s)[i] = hs[j][m]
      BY <1>3, <1>4, FlattenIs
    <2>2. PICK m \in DOMAIN hs[j] : NextOf(e, s)[i] = hs[j][m]
      BY <2>1
    <2>3. PICK k \in Outgoing(e, s.next[j]) : hs[j][m] = e[k].v
      BY <1>2, <1>3
    <2>4. if_exist_edge(e, s.next[j], e[k].v)
      BY DEF Outgoing, if_exist_edge
    <2> QED BY <1>3, <2>2, <2>3, <2>4
  <1> QED BY <1>5, <1>6 DEF V

(***************************************************************************)
(* When if_exist_path answers yes, a walk of more than one edge leads from *)
(* the source to the target.                                               *)
(***************************************************************************)
LEMMA ExistingPathIsWalk ==
  ASSUME NEW e, IsDag(e), NEW source \in VerticesOf(e), NEW target \in VerticesOf(e),
         if_exist_path(e, source, target)
  PROVE  Reaches(e, source, target, 3)
PROOF
  <1> DEFINE V == VerticesOf(e)
             n == Cardinality(V)
             Near(x, m) == Reaches(e, source, x, m)
             Good(s) == /\ s \in SearchState(e)
                        /\ \A j \in DOMAIN s.next : Near(s.next[j], 1)
                        /\ s.result = "yes" => Near(target, 3)
  <1>1. e \in Seq(Edge) /\ n \in Nat
    BY VerticesAre DEF IsDag
  <1>2. PICK s : IsSearch(e, source, target, s)
    BY <1>1, SearchSteps
  <1>3. Good(s[0])
    <2>1. IsWalk(e, <<source>>) /\ Len(<<source>>) = 1
      BY DEF IsWalk
    <2>2. Near(source, 1)
      BY <2>1 DEF Reaches
    <2>3. FirstSearch(source) \in SearchState(e)
      BY DEF FirstSearch, SearchState
    <2>4. s[0] = FirstSearch(source)
      BY <1>2 DEF IsSearch
    <2> HIDE DEF Near
    <2>5. FirstSearch(source).result = "searching" /\ FirstSearch(source).next = <<source>>
      BY DEF FirstSearch
    <2> QED BY <2>2, <2>3, <2>4, <2>5
  <1>4. ASSUME NEW a, Good(a), NEW y \in V, Near(y, 2) PROVE Good(LookAt(e, target, a, y))
    <2> DEFINE b == LookAt(e, target, a, y)
    <2> SUFFICES Good(b)
      OBVIOUS
    <2>1. Near(y, 1)
      <3>1. PICK p : IsWalk(e, p) /\ p[1] = source /\ p[Len(p)] = y /\ Len(p) >= 2
        BY <1>4 DEF Reaches
      <3>2. Len(p) \in Nat
        BY <3>1 DEF IsWalk
      <3>3. Len(p) >= 1
        BY <3>1, <3>2
      <3> QED BY <3>1, <3>3 DEF Reaches
    <2>2. ASSUME if_exist_edge(e, y, target) PROVE Near(target, 3)
      <3>1. PICK p : IsWalk(e, p) /\ p[1] = source /\ p[Len(p)] = y /\ Len(p) >= 2
        BY <1>4 DEF Reaches
      <3> DEFINE q == Append(p, target)
      <3>2. /\ IsWalk(e, q) /\ Len(q) = Len(p) + 1 /\ q[1] = source /\ q[Len(q)] = target
            /\ Len(p) \in Nat
        BY <2>2, <3>1, WalkTo DEF IsWalk
      <3> HIDE DEF q
      <3>3. Len(q) >= 3
        BY <3>1, <3>2
      <3> QED BY <3>2, <3>3 DEF Reaches
    <2> HIDE DEF Near
    <2>3. /\ a.result \in {"searching", "yes", "no"} /\ a.seen \in SUBSET V /\ a.next \in Seq(V)
          /\ a \in SearchState(e)
      BY <1>4 DEF SearchState
    <2>4. CASE a.result # "searching"
      <3>1. b = a
        BY <2>4 DEF LookAt
      <3> QED BY <1>4, <3>1
    <2>5. CASE a.result = "searching" /\ y[1] > target[1]
      <3>1. b = [a EXCEPT !.result = "no"]
        BY <2>5 DEF LookAt
      <3>2. b \in SearchState(e) /\ b.next = a.next /\ b.result = "no"
        BY <2>3, <3>1 DEF SearchState
      <3> HIDE DEF b
      <3> QED BY <1>4, <3>2
    <2>6. CASE a.result = "searching" /\ ~(y[1] > target[1]) /\ if_exist_edge(e, y, target)
      <3>1. b = [a EXCEPT !.result = "yes"]
        BY <2>6 DEF LookAt
      <3>2. b \in SearchState(e) /\ b.next = a.next
        BY <2>3, <3>1 DEF SearchState
      <3> HIDE DEF b
      <3> QED BY <1>4, <2>2, <2>6, <3>2
    <2>7. CASE /\ a.result = "searching" /\ ~(y[1] > target[1]) /\ ~if_exist_edge(e, y, target)
               /\ y \in a.seen
      <3>1. b = [a EXCEPT !.result = "no"]
        BY <2>7 DEF LookAt
      <3>2. b \in SearchState(e) /\ b.next = a.next /\ b.result = "no"
        BY <2>3, <3>1 DEF SearchState
      <3> HIDE DEF b
      <3> QED BY <1>4, <3>2
    <2>8. CASE /\ a.result = "searching" /\ ~(y[1] > target[1]) /\ ~if_exist_edge(e, y, target)
               /\ y \notin a.seen
      <3>1. b = [a EXCEPT !.seen = a.seen \cup {y}, !.next = Append(a.next, y)]
        BY <2>8 DEF LookAt
      <3>2. Append(a.next, y) \in Seq(V) /\ a.seen \cup {y} \in SUBSET V
        BY <2>3
      <3>3. b \in SearchState(e) /\ b.next = Append(a.next, y) /\ b.result = "searching"
        BY <2>3, <2>8, <3>1, <3>2 DEF SearchState
      <3> HIDE DEF b
      <3>4. ASSUME NEW j \in DOMAIN Append(a.next, y) PROVE Near(Append(a.next, y)[j], 1)
        <4>1. Len(a.next) \in Nat /\ j \in 1 .. Len(a.next) + 1
          BY <2>3
        <4>2. CASE j = Len(a.next) + 1
          BY <2>1, <2>3, <4>2
        <4>3. CASE j # Len(a.next) + 1
          <5>1. j \in DOMAIN a.next /\ Append(a.next, y)[j] = a.next[j]
            BY <2>3, <4>1, <4>3
          <5> QED BY <1>4, <5>1
        <4> QED BY <4>2, <4>3
      <3> QED BY <3>3, <3>4
    <2> QED BY <2>4, <2>5, <2>6, <2>7, <2>8
  <1>5. ASSUME NEW a, Good(a) PROVE Good(SearchStep(e, target, a))
    <2> DEFINE base == [a EXCEPT !.next = <<>>]
               ys == NextOf(e, a)
    <2>1. a \in SearchState(e) /\ a.next \in Seq(V)
      BY <1>5 DEF SearchState
    <2>2. Good(base)
      <3> DEFINE none == <<>>
      <3>0. none \in Seq(V)
        OBVIOUS
      <3> HIDE DEF none
      <3>1. base \in SearchState(e) /\ base.next = none /\ base.result = a.result
        BY <2>1, <3>0 DEF SearchState, none
      <3>2. DOMAIN none = {}
        BY DEF none
      <3> HIDE DEF base, Near
      <3> QED BY <1>5, <3>1, <3>2
    <2>3. ys \in Seq(V)
      BY <1>1, <2>1, NextOfIs
    <2>4. ASSUME NEW i \in DOMAIN ys PROVE Near(ys[i], 2) /\ ys[i] \in V
      <3>1. PICK j \in DOMAIN a.next : if_exist_edge(e, a.next[j], ys[i])
        BY <1>1, <2>1, NextOfIs
      <3>2. PICK p : IsWalk(e, p) /\ p[1] = source /\ p[Len(p)] = a.next[j] /\ Len(p) >= 1
        BY <1>5 DEF Reaches
      <3>3. ys[i] \in V
        BY <2>3
      <3> HIDE DEF ys
      <3> DEFINE q == Append(p, ys[i])
      <3>4. /\ IsWalk(e, q) /\ Len(q) = Len(p) + 1 /\ q[1] = source /\ q[Len(q)] = ys[i]
            /\ Len(p) \in Nat
        BY <3>1, <3>2, <3>3, WalkTo DEF IsWalk
      <3> HIDE DEF q
      <3>5. Len(q) >= 2
        BY <3>2, <3>4
      <3> QED BY <3>3, <3>4, <3>5 DEF Reaches
    <2> HIDE DEF base, ys, Near
    <2>5. PICK t : IsScan(e, target, base, ys, t)
      BY <2>3, ScanSteps
    <2> DEFINE m == Len(ys)
               S == {k \in 0 .. m : Good(t[k])}
    <2>6. m \in Nat /\ DOMAIN ys = 1 .. m
      BY <2>3
    <2> HIDE DEF Good
    <2>7. 0 \in S
      BY <2>2, <2>5, <2>6 DEF IsScan
    <2>8. ASSUME NEW k \in 1 .. m, k - 1 \in S PROVE k \in S
      <3>1. t[k] = LookAt(e, target, t[k - 1], ys[k])
        BY <2>5 DEF IsScan
      <3>2. Near(ys[k], 2) /\ ys[k] \in V
        BY <2>4, <2>6
      <3>3. Good(t[k])
        BY <1>4, <2>8, <3>1, <3>2
      <3> QED BY <3>3
    <2>9. m \in S
      <3> HIDE DEF S, m
      <3>1. \A k \in 0 .. m : k \in S
        BY <2>6, <2>7, <2>8, Looks!IntervalInduction
      <3> QED BY <2>6, <3>1
    <2>10. SearchStep(e, target, a) = t[m]
      BY <2>5 DEF IsScan, SearchStep, base, ys
    <2> QED BY <2>9, <2>10
  <1> HIDE DEF Good, n
  <1> DEFINE S == {k \in 0 .. n : Good(s[k])}
  <1>6. 0 \in S
    BY <1>1, <1>3
  <1>7. ASSUME NEW k \in 1 .. n, k - 1 \in S PROVE k \in S
    <2>1. s[k] = SearchStep(e, target, s[k - 1])
      BY <1>2 DEF IsSearch, n
    <2> QED BY <1>5, <1>7, <2>1
  <1>8. n \in S
    <2> HIDE DEF S
    <2>1. \A k \in 0 .. n : k \in S
      BY <1>1, <1>6, <1>7, Searches!IntervalInduction
    <2> QED BY <1>1, <2>1
  <1>9. s[n].result = "yes"
    BY <1>2 DEF IsSearch, n
  <1> QED BY <1>8, <1>9 DEF Good
=============================================================================
