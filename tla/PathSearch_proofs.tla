--------------------------- MODULE PathSearch_proofs ---------------------------
(***************************************************************************)
(* The path algorithms of O3Graph agree with their reference definitions   *)
(* on every graph of PathSearch, whatever its size and costs.              *)
(***************************************************************************)
EXTENDS PathSearch, InducedDEG_proofs

(* edges lead to a younger instruction, and parallel ones cost the same *)
GraphOK ==
  /\ g \in Seq(Edge)
  /\ \A k \in DOMAIN g : /\ g[k].u[2] = "R" /\ g[k].v[2] = "R"
                         /\ g[k].u[1] < g[k].v[1] /\ g[k].cost >= 0
  /\ \A j, k \in DOMAIN g : g[j].u = g[k].u /\ g[j].v = g[k].v => g[j].cost = g[k].cost

(***************************************************************************)
(* Every edge that is added keeps the graph free of cycles.                *)
(***************************************************************************)
THEOREM GraphIsDag == Spec => []GraphOK
PROOF
  <1>1. Init => GraphOK
    <2> SUFFICES ASSUME Init PROVE GraphOK
      OBVIOUS
    <2>1. g = <<>>
      BY DEF Init
    <2> QED BY <2>1 DEF GraphOK
  <1>2. GraphOK /\ [Next]_g => GraphOK'
    <2> SUFFICES ASSUME GraphOK, [Next]_g PROVE GraphOK'
      OBVIOUS
    <2>1. CASE UNCHANGED g
      BY <2>1 DEF GraphOK
    <2>2. CASE g' # g
      <3>1. PICK x \in 1 .. Insts, y \in 1 .. Insts, c \in Costs :
              /\ x < y
              /\ \A k \in DOMAIN g : g[k].u = Node(x) /\ g[k].v = Node(y) => g[k].cost = c
              /\ add_edge(Node(x), Node(y), c)
        BY <2>2 DEF Next
      <3> DEFINE d == [u |-> Node(x), v |-> Node(y), weight |-> c, cost |-> c, bottleneck |-> "Base"]
                 n == Len(g)
      <3>2. g' = Append(g, d) /\ c \in Nat /\ x \in Nat \ {0} /\ y \in Nat \ {0}
        BY <3>1, PathSearchAssumption DEF add_edge
      <3>3. d \in Edge
        BY <3>2 DEF Edge, Vertex, Node, Stages, Bottlenecks
      <3>4. /\ d.u = Node(x) /\ d.v = Node(y) /\ d.cost = c
            /\ d.u[2] = "R" /\ d.v[2] = "R" /\ d.u[1] < d.v[1] /\ d.cost >= 0
        BY <3>1, <3>2 DEF Node
      <3> HIDE DEF d
      <3>5. /\ g \in Seq(Edge) /\ n \in Nat /\ DOMAIN g = 1 .. n /\ g' \in Seq(Edge)
            /\ DOMAIN g' = 1 .. n + 1 /\ g'[n + 1] = d /\ \A k \in 1 .. n : g'[k] = g[k]
        BY <3>2, <3>3 DEF GraphOK
      <3>6. \A k \in 1 .. n + 1 : k = n + 1 \/ k \in 1 .. n
        BY <3>5
      <3> HIDE DEF n
      <3>7. ASSUME NEW k \in DOMAIN g'
            PROVE  /\ g'[k].u[2] = "R" /\ g'[k].v[2] = "R"
                   /\ g'[k].u[1] < g'[k].v[1] /\ g'[k].cost >= 0
        <4>1. CASE k = n + 1
          BY <3>4, <3>5, <4>1
        <4>2. CASE k \in 1 .. n
          BY <3>5, <4>2 DEF GraphOK
        <4> QED BY <3>5, <3>6, <4>1, <4>2
      <3>8. ASSUME NEW j \in DOMAIN g', NEW k \in DOMAIN g', g'[j].u = g'[k].u, g'[j].v = g'[k].v
            PROVE  g'[j].cost = g'[k].cost
        <4>1. \A i \in 1 .. n : g[i].u = d.u /\ g[i].v = d.v => g[i].cost = d.cost
          BY <3>1, <3>4, <3>5
        <4>2. \A i \in 1 .. n + 1 : g'[i] = d \/ (i \in 1 .. n /\ g'[i] = g[i])
          BY <3>5, <3>6
        <4>3. \A i, m \in 1 .. n : g[i].u = g[m].u /\ g[i].v = g[m].v => g[i].cost = g[m].cost
          BY <3>5 DEF GraphOK
        <4> QED BY <3>5, <3>8, <4>1, <4>2, <4>3
      <3> QED BY <3>5, <3>7, <3>8 DEF GraphOK
    <2> QED BY <2>1, <2>2
  <1> QED BY <1>1, <1>2, PTL DEF Spec

LEMMA GraphOKIsDag ==
  ASSUME GraphOK
  PROVE  IsDag(g)
BY DEF GraphOK, IsDag, IsForward

(***************************************************************************)
(* topological_sort places every vertex of the graph once, and after all   *)
(* its predecessors.                                                       *)
(***************************************************************************)
THEOREM SortIsTopological == Spec => []TopologicalOrder
PROOF
  <1>1. ASSUME GraphOK PROVE TopologicalOrder
    <2> DEFINE order == topological_sort(g)
    <2>1. IsDag(g)
      BY <1>1, GraphOKIsDag
    <2>2. /\ IsTopological(g, order) /\ Len(order) = Cardinality(Vertices)
          /\ ToSet(order) = Vertices
      BY <2>1, TopologicalSortIs DEF Vertices
    <2>3. order \in Seq(VerticesOf(g)) /\ Len(order) \in Nat /\ DOMAIN order = 1 .. Len(order)
      BY <2>2 DEF IsTopological
    <2> HIDE DEF order
    <2>4. ASSUME NEW i \in DOMAIN order, NEW j \in DOMAIN order, if_exist_edge(g, order[i], order[j])
          PROVE  i < j
      <3>1. PICK k \in DOMAIN g : g[k].u = order[i] /\ g[k].v = order[j]
        BY <2>4 DEF if_exist_edge
      <3>2. k \in Ingoing(g, order[j])
        BY <3>1 DEF Ingoing
      <3>3. PICK m \in 1 .. j - 1 : order[m] = order[i]
        BY <2>2, <3>1, <3>2 DEF IsTopological
      <3>4. m \in DOMAIN order
        BY <2>3
      <3>5. m = i
        BY <2>2, <3>3, <3>4 DEF IsTopological
      <3> QED BY <2>3, <3>5
    <2> QED BY <2>2, <2>4 DEF TopologicalOrder, order
  <1> QED BY <1>1, GraphIsDag, PTL

-----------------------------------------------------------------------------
(***************************************************************************)
(* The paths of the reference are the walks along the edges.               *)
(***************************************************************************)
LEMMA PathsAreWalks ==
  ASSUME GraphOK
  PROVE  \A p : p \in Paths <=> IsWalk(g, p)
PROOF
  <1>1. IsDag(g) /\ g \in Seq(Edge)
    BY GraphOKIsDag DEF GraphOK
  <1>2. /\ IsFiniteSet(Vertices) /\ Vertices \in SUBSET Vertex
        /\ \A x \in Vertices : x[2] = "R" /\ x[1] \in Int
    <2>1. IsFiniteSet(Vertices) /\ Vertices \in SUBSET Vertex
      BY <1>1, VerticesAre DEF Vertices
    <2>2. \A x \in Vertices : x[2] = "R"
      BY DEF Vertices, VerticesOf, GraphOK
    <2> QED BY <2>1, <2>2 DEF Vertex
  <1>3. ASSUME NEW p \in Paths PROVE IsWalk(g, p)
    <2>1. PICK S \in (SUBSET Vertices) \ {{}} : p = Chain(S) /\ IsPath(p)
      BY DEF Paths
    <2>2. IsFiniteSet(S) /\ S \in SUBSET Vertex
      BY <1>2, <2>1, FS_Subset
    <2>3. IsSorting(p, S, ByVertex(S)) /\ Cardinality(S) \in Nat
      BY <2>1, <2>2, SortByVertex DEF Chain
    <2>4. Cardinality(S) > 0
      BY <2>2, <2>3, FS_EmptySet
    <2>5. p \in [1 .. Cardinality(S) -> Vertices]
      BY <2>3 DEF IsSorting
    <2>6. p \in Seq(Vertices) /\ Len(p) = Cardinality(S)
      BY <2>3, <2>5
    <2> QED BY <2>1, <2>3, <2>4, <2>6 DEF IsWalk, IsPath, Vertices
  <1>4. ASSUME NEW p, IsWalk(g, p) PROVE p \in Paths
    <2>1. p \in Seq(Vertices) /\ Len(p) \in Nat /\ Len(p) > 0 /\ DOMAIN p = 1 .. Len(p) /\ IsPath(p)
      BY <1>4 DEF IsWalk, IsPath, Vertices
    <2>2. ASSUME NEW i \in DOMAIN p, NEW j \in DOMAIN p, i < j PROVE VertexCompare(p[i], p[j])
      <3>1. Depth(p[i]) < Depth(p[j])
        BY <1>1, <1>4, <2>2, WalkIsForward
      <3>2. p[i] \in Vertices /\ p[j] \in Vertices
        BY <2>1
      <3>3. p[i][2] = p[j][2] /\ p[i][1] \in Int /\ p[j][1] \in Int /\ Rank[p[i][2]] \in Int
        BY <1>2, <3>2, RanksDiffer DEF Stages
      <3>4. p[i][1] < p[j][1]
        BY <3>1, <3>3 DEF Depth
      <3> QED BY <3>3, <3>4 DEF VertexCompare
    <2>3. p \in Seq(Vertex)
      BY <1>2, <2>1
    <2>4. p = Chain(ToSet(p))
      BY <2>2, <2>3, OrderedIsSorted DEF Chain
    <2>5. ToSet(p) \in (SUBSET Vertices) \ {{}}
      <3>1. p[1] \in ToSet(p)
        BY <2>1 DEF ToSet
      <3>2. ToSet(p) \subseteq Vertices
        BY <2>1 DEF ToSet
      <3> QED BY <3>1, <3>2
    <2> QED BY <2>1, <2>4, <2>5 DEF Paths
  <1> QED BY <1>3, <1>4

(***************************************************************************)
(* find_path finds a path exactly when there is one: the path begins with  *)
(* the source and an edge leads from its last vertex to the target.        *)
(***************************************************************************)
THEOREM FindPathFindsAll == Spec => []FindPathIsExact
PROOF
  <1>1. ASSUME GraphOK, NEW x \in Vertices, NEW y \in Vertices
        PROVE  LET p == find_path(g, x, y)
               IN  IF From(x, y) = {} THEN p = <<>>
                   ELSE p # <<>> /\ p \o <<y>> \in From(x, y)
    <2> DEFINE p == find_path(g, x, y)
               q == p \o <<y>>
    <2>1. IsDag(g) /\ \A r : r \in Paths <=> IsWalk(g, r)
      BY <1>1, GraphOKIsDag, PathsAreWalks
    <2>2. x \in VerticesOf(g) /\ y \in VerticesOf(g)
      BY DEF Vertices
    <2>3. ASSUME p # <<>> PROVE q \in From(x, y)
      <3>1. IsWalk(g, p) /\ p[1] = x /\ if_exist_edge(g, p[Len(p)], y)
        BY <2>1, <2>2, <2>3, FindPathFinds
      <3> HIDE DEF p
      <3> DEFINE r == Append(p, y)
      <3>2. IsWalk(g, r) /\ Len(r) = Len(p) + 1 /\ r[1] = p[1] /\ r[Len(r)] = y /\ r = q
        BY <2>2, <3>1, WalkTo
      <3>3. Len(p) \in Nat /\ Len(p) > 0
        BY <3>1 DEF IsWalk
      <3> HIDE DEF r, q
      <3>4. Len(r) > 1
        BY <3>2, <3>3
      <3> QED BY <2>1, <3>1, <3>2, <3>4 DEF From
    <2>4. ASSUME NEW r \in From(x, y) PROVE p # <<>>
      <3>1. IsWalk(g, r) /\ Len(r) > 1 /\ r[1] = x /\ r[Len(r)] = y
        BY <2>1 DEF From
      <3> QED BY <2>1, <3>1, FindPathMisses
    <2> HIDE DEF p, q
    <2> QED BY <2>3, <2>4 DEF p, q
  <1>2. GraphOK => FindPathIsExact
    BY <1>1 DEF FindPathIsExact
  <1> QED BY <1>2, GraphIsDag, PTL

(***************************************************************************)
(* When if_exist_path answers yes, find_path, which longest_path_impl then *)
(* calls, does find a path of more than one edge.                          *)
(***************************************************************************)
THEOREM ExistingPathsAreFound == Spec => []ExistingPathIsFound
PROOF
  <1>1. ASSUME GraphOK, NEW x \in Vertices, NEW y \in Vertices, if_exist_path(g, x, y)
        PROVE  \E p \in From(x, y) : Len(p) > 2
    <2>1. IsDag(g) /\ \A r : r \in Paths <=> IsWalk(g, r)
      BY <1>1, GraphOKIsDag, PathsAreWalks
    <2>2. Reaches(g, x, y, 3)
      BY <1>1, <2>1, ExistingPathIsWalk DEF Vertices
    <2>3. PICK p : IsWalk(g, p) /\ p[1] = x /\ p[Len(p)] = y /\ Len(p) >= 3
      BY <2>2 DEF Reaches
    <2>4. Len(p) \in Nat
      BY <2>3 DEF IsWalk
    <2>5. Len(p) > 1 /\ Len(p) > 2
      BY <2>3, <2>4
    <2>6. p \in From(x, y)
      BY <2>1, <2>3, <2>5 DEF From
    <2> QED BY <2>5, <2>6
  <1>2. GraphOK => ExistingPathIsFound
    BY <1>1 DEF ExistingPathIsFound
  <1> QED BY <1>2, GraphIsDag, PTL

-----------------------------------------------------------------------------
CostDef(es, h, s) == IF s = {} THEN 0 ELSE LET k == Max(s) IN h[s \ {k}] + es[k].cost
CostOp(es, sum, k) == sum + es[k].cost

Costing == INSTANCE Recursion WITH Def <- CostDef, Op <- CostOp

(***************************************************************************)
(* CostOf adds up the steps of a walk.                                     *)
(***************************************************************************)
LEMMA CostSteps ==
  ASSUME GraphOK, NEW p, IsWalk(g, p)
  PROVE  \E t : /\ t[1] = 0 /\ CostOf(p) = t[Len(p)]
                /\ \A k \in 1 .. Len(p) - 1 : t[k + 1] = t[k] + StepCost(g, p[k], p[k + 1])
PROOF
  <1> DEFINE es == PathEdges(g, p)
             n == Len(es)
             P(k) == Costing!Partial(es, n, k)
             t == [k \in 1 .. n + 1 |-> P(k - 1)]
  <1>1. Len(p) \in Nat /\ Len(p) > 0
    BY DEF IsWalk
  <1>2. /\ DOMAIN es = 1 .. Len(p) - 1
        /\ \A k \in 1 .. Len(p) - 1 : es[k] = get_outgoing_edge(g, p[k], p[k + 1])
    BY DEF PathEdges
  <1>3. n = Len(p) - 1 /\ n \in Nat
    <2>1. es = [k \in 1 .. Len(p) - 1 |-> get_outgoing_edge(g, p[k], p[k + 1])]
      BY DEF PathEdges
    <2> QED BY <1>1, <2>1
  <1>4. CostOf(p) = Costing!Folded(es, n)
    <2>1. CostOf(p) = Costing!Fix(es, SUBSET (DOMAIN es))[DOMAIN es]
      BY DEF CostOf, FoldLeft, MapThenFoldSet, Costing!Fix, CostDef, Max
    <2> HIDE DEF es, n
    <2> QED BY <1>2, <1>3, <2>1 DEF Costing!Folded
  <1>5. Costing!IsFold(es, n, 0)
    BY DEF Costing!IsFold, CostDef, CostOp, Max, Costing!Max
  <1> HIDE DEF es, n
  <1>6. /\ P(0) = 0 /\ \A k \in 1 .. n : P(k) = CostOp(es, P(k - 1), k)
        /\ Costing!Folded(es, n) = P(n)
    BY <1>3, <1>5, Costing!FoldSteps
  <1> HIDE DEF P
  <1>7. t[1] = 0 /\ t[n + 1] = P(n)
    BY <1>3, <1>6
  <1>8. ASSUME NEW k \in 1 .. n PROVE t[k + 1] = t[k] + StepCost(g, p[k], p[k + 1])
    <2>1. k \in 1 .. n + 1 /\ k + 1 \in 1 .. n + 1 /\ (k + 1) - 1 = k
      BY <1>3
    <2>2. t[k + 1] = P(k) /\ t[k] = P(k - 1)
      BY <2>1
    <2> HIDE DEF t
    <2>3. t[k + 1] = t[k] + es[k].cost
      BY <1>6, <2>2 DEF CostOp
    <2>4. es[k] = get_outgoing_edge(g, p[k], p[k + 1])
      BY <1>2, <1>3
    <2> QED BY <2>3, <2>4 DEF StepCost
  <1> HIDE DEF t
  <1>9. n + 1 = Len(p)
    BY <1>1, <1>3
  <1> QED BY <1>3, <1>4, <1>6, <1>7, <1>8, <1>9

(***************************************************************************)
(* A walk costs at most the distance of its last vertex, and a trail that  *)
(* begins at distance 0 exactly that.                                      *)
(***************************************************************************)
LEMMA CostIsBounded ==
  ASSUME GraphOK, NEW p, IsWalk(g, p)
  PROVE  /\ CostOf(p) \in Int /\ CostOf(p) <= Distances(g)[p[Len(p)]].cost
         /\ IsTrail(g, p) /\ Distances(g)[p[1]].cost = 0
              => CostOf(p) = Distances(g)[p[Len(p)]].cost
PROOF
  <1> DEFINE C(x) == Distances(g)[x].cost
             n == Len(p)
             St(k) == StepCost(g, p[k], p[k + 1])
  <1>1. IsDag(g)
    BY GraphOKIsDag
  <1>2. n \in Nat /\ n > 0 /\ \A k \in 1 .. n : p[k] \in VerticesOf(g) /\ C(p[k]) \in Nat
    BY <1>1, DistancesAre DEF IsWalk, Table
  <1>3. PICK t : /\ t[1] = 0 /\ CostOf(p) = t[n]
                 /\ \A k \in 1 .. n - 1 : t[k + 1] = t[k] + St(k)
    BY CostSteps
  <1>4. ASSUME NEW k \in 1 .. n - 1
        PROVE  St(k) \in Nat /\ C(p[k]) + St(k) <= C(p[k + 1])
    <2>1. if_exist_edge(g, p[k], p[k + 1])
      BY DEF IsWalk
    <2>2. PICK j \in DOMAIN g : g[j].u = p[k] /\ g[j].v = p[k + 1]
      BY <2>1 DEF if_exist_edge
    <2>3. k + 1 \in 1 .. n
      BY <1>2
    <2>4. Settled(g, Distances(g), p[k + 1])
      BY <1>1, <1>2, <2>3, DistancesAre
    <2>5. j \in Ingoing(g, p[k + 1])
      BY <2>2 DEF Ingoing
    <2>6. C(p[k]) + St(k) <= C(p[k + 1])
      BY <2>2, <2>4, <2>5 DEF Settled
    <2> QED BY <1>1, <2>1, <2>6, StepCostIs
  <1>5. IsTrail(g, p) => \A k \in 1 .. n - 1 : C(p[k + 1]) = C(p[k]) + St(k)
    BY DEF IsTrail
  <1> HIDE DEF n, St, C
  <1> DEFINE Good(k) == /\ t[k] \in Int /\ t[k] <= C(p[k])
                        /\ IsTrail(g, p) /\ C(p[1]) = 0 => t[k] = C(p[k])
             S == {k \in 0 .. n - 1 : Good(k + 1)}
  <1>6. 0 \in S
    BY <1>2, <1>3
  <1>7. ASSUME NEW k \in 1 .. n - 1, k - 1 \in S PROVE k \in S
    <2>1. k \in 1 .. n /\ k + 1 \in 1 .. n /\ (k - 1) + 1 = k /\ k \in 0 .. n - 1
      BY <1>2
    <2>2. Good(k)
      <3> HIDE DEF Good
      <3> QED BY <1>7, <2>1
    <2>3. t[k + 1] = t[k] + St(k) /\ C(p[k]) \in Nat /\ C(p[k + 1]) \in Nat
      BY <1>2, <1>3, <2>1
    <2>4. Good(k + 1)
      BY <1>4, <1>5, <2>2, <2>3
    <2> HIDE DEF Good
    <2> QED BY <2>1, <2>4
  <1>8. n - 1 \in S
    <2> HIDE DEF S
    <2>1. n - 1 \in Nat
      BY <1>2
    <2>2. \A k \in 0 .. n - 1 : k \in S
      BY <1>6, <1>7, <2>1, Costing!IntervalInduction
    <2> QED BY <2>1, <2>2
  <1>9. Good(n)
    <2>1. (n - 1) + 1 = n
      BY <1>2
    <2> HIDE DEF Good
    <2> QED BY <1>8, <2>1
  <1> QED BY <1>3, <1>9 DEF n, C

(***************************************************************************)
(* longest_path_core returns a path that no other path of the graph        *)
(* exceeds in cost, and that starts with a costly edge; it is empty only   *)
(* when nothing in the graph costs anything.                               *)
(***************************************************************************)
THEOREM CoreIsLongest == Spec => []LongestPathIsLongest
PROOF
  <1>1. ASSUME GraphOK PROVE LongestPathIsLongest
    <2> SUFFICES ASSUME g # <<>>
                 PROVE  LET core == longest_path_core(g)
                        IN  IF core = <<>> THEN \A k \in DOMAIN g : g[k].cost = 0
                            ELSE /\ Len(core) > 1 /\ IsPath(core)
                                 /\ get_outgoing_edge(g, core[1], core[2]).cost > 0
                                 /\ \A p \in Paths : CostOf(p) <= CostOf(core)
      BY DEF LongestPathIsLongest
    <2> DEFINE core == longest_path_core(g)
               last == LastOf(g)
               C(x) == Distances(g)[x].cost
    <2>1. IsDag(g) /\ g \in Seq(Edge) /\ \A p : p \in Paths <=> IsWalk(g, p)
      BY <1>1, GraphOKIsDag, PathsAreWalks DEF GraphOK
    <2>2. /\ last \in VerticesOf(g)
          /\ \A y \in VerticesOf(g) : C(y) \in Nat /\ C(y) <= C(last)
      <3>1. /\ last \in VerticesOf(g)
            /\ \A y \in VerticesOf(g) : C(y) < C(last) \/ C(y) = C(last)
        BY <2>1, LastIs
      <3>2. \A y \in VerticesOf(g) : C(y) \in Nat
        BY <2>1, DistancesAre DEF Table
      <3> HIDE DEF C, last
      <3> QED BY <3>1, <3>2
    <2>3. CASE C(last) = 0
      <3>1. core = <<>>
        BY <2>1, <2>3, CoreIs
      <3>2. ASSUME NEW k \in DOMAIN g PROVE g[k].cost = 0
        <4> DEFINE x == g[k].u
                   y == g[k].v
        <4>1. x \in VerticesOf(g) /\ y \in VerticesOf(g)
          BY <2>1, VerticesAre
        <4>2. if_exist_edge(g, x, y) /\ k \in Ingoing(g, y)
          BY DEF if_exist_edge, Ingoing
        <4>3. C(x) + StepCost(g, x, y) <= C(y) /\ StepCost(g, x, y) \in Nat
          <5>1. Settled(g, Distances(g), y)
            BY <2>1, <4>1, DistancesAre
          <5> QED BY <2>1, <4>2, <5>1, StepCostIs DEF Settled
        <4>4. PICK j \in DOMAIN g : get_outgoing_edge(g, x, y) = g[j] /\ g[j].u = x /\ g[j].v = y
          BY <2>1, <4>2, OutgoingEdgeIs
        <4>5. g[j].cost = g[k].cost
          BY <1>1, <4>4 DEF GraphOK
        <4>6. StepCost(g, x, y) = g[k].cost
          BY <4>4, <4>5 DEF StepCost
        <4>7. C(x) \in Nat /\ C(y) \in Nat /\ C(y) <= 0
          BY <2>2, <2>3, <4>1
        <4> HIDE DEF C, x, y
        <4> QED BY <4>3, <4>6, <4>7
      <3> QED BY <3>1, <3>2
    <2>4. CASE C(last) # 0
      <3>1. IsTrail(g, core) /\ Len(core) > 1 /\ C(core[1]) = 0
        BY <2>1, <2>4, CoreIs
      <3> HIDE DEF core
      <3>2. IsWalk(g, core) /\ core[Len(core)] = last /\ Len(core) \in Nat
        BY <3>1 DEF IsTrail, IsWalk
      <3>3. IsPath(core)
        BY <3>2 DEF IsWalk, IsPath
      <3>4. StepCost(g, core[1], core[2]) > 0
        <4>1. 1 \in 1 .. Len(core) - 1 /\ 1 + 1 = 2
          BY <3>1, <3>2
        <4>2. /\ C(core[2]) = C(core[1]) + StepCost(g, core[1], core[2]) /\ C(core[2]) > 0
              /\ if_exist_edge(g, core[1], core[2])
          BY <3>1, <3>2, <4>1 DEF IsTrail, IsWalk
        <4>3. StepCost(g, core[1], core[2]) \in Nat
          BY <2>1, <4>2, StepCostIs
        <4> HIDE DEF C
        <4> QED BY <3>1, <4>2, <4>3
      <3>5. CostOf(core) = C(last)
        BY <1>1, <3>1, <3>2, CostIsBounded
      <3>6. ASSUME NEW p \in Paths PROVE CostOf(p) <= CostOf(core)
        <4>1. IsWalk(g, p)
          BY <2>1
        <4> DEFINE y == p[Len(p)]
        <4>2. y \in VerticesOf(g)
          BY <4>1 DEF IsWalk
        <4>3. CostOf(p) \in Int
          BY <1>1, <4>1, CostIsBounded
        <4>4. CostOf(p) <= C(y)
          BY <1>1, <4>1, CostIsBounded
        <4>5. C(y) \in Nat /\ C(y) <= C(last) /\ C(last) \in Nat
          BY <2>2, <4>2
        <4> HIDE DEF C, y
        <4> QED BY <3>5, <4>3, <4>4, <4>5
      <3>7. core # <<>>
        BY <3>1
      <3> QED BY <3>1, <3>3, <3>4, <3>6, <3>7 DEF StepCost, core
    <2> QED BY <2>3, <2>4
  <1> QED BY <1>1, GraphIsDag, PTL
=============================================================================
