------------------------------ MODULE PathSearch ------------------------------
(***************************************************************************)
(* The path algorithms of O3Graph on every small graph it could be given:  *)
(* edges are added in any order, from an older to a younger instruction,   *)
(* with the cost of a dependence (its delay) or none; parallel edges cost  *)
(* the same, as in a graph whose costs are delays.  The algorithms are     *)
(* compared with reference definitions over all the paths of the graph.    *)
(***************************************************************************)
EXTENDS InducedDEG

CONSTANTS
  Insts,        \* the graph has one vertex for each of 1 .. Insts
  Costs,        \* the costs of an edge
  MaxEdges      \* bound of the model: the edges of a graph

ASSUME PathSearchAssumption ==
  Insts \in Nat \ {0} /\ Costs \subseteq Nat /\ MaxEdges \in Nat

VARIABLE g      \* the edges of the graph in the order they were added

Node(n) == <<n, "R">>

Init == g = <<>>

(* add_edge, for both directions of the edge *)
add_edge(x, y, c) ==
  g' = Append(g, [u |-> x, v |-> y, weight |-> c, cost |-> c, bottleneck |-> "Base"])

Next ==
  \/ \E x, y \in 1 .. Insts, c \in Costs :
       /\ Len(g) < MaxEdges
       /\ x < y
       /\ \A k \in DOMAIN g : g[k].u = Node(x) /\ g[k].v = Node(y) => g[k].cost = c
       /\ add_edge(Node(x), Node(y), c)
  \/ Len(g) = MaxEdges /\ UNCHANGED g

Spec == Init /\ [][Next]_g
-----------------------------------------------------------------------------
(* the paths of the graph, without its order: sets of vertices in which    *)
(* every two neighbours by age are joined by an edge                       *)
Vertices == VerticesOf(g)

Chain(S) == SortBy(S, VertexCompare)

IsPath(p) == \A k \in 1 .. Len(p) - 1 : if_exist_edge(g, p[k], p[k + 1])

Paths == {p \in {Chain(S) : S \in (SUBSET Vertices) \ {{}}} : IsPath(p)}

CostOf(p) ==
  FoldLeft(LAMBDA sum, d : sum + d.cost, 0, PathEdges(g, p))

From(x, y) == {p \in Paths : Len(p) > 1 /\ p[1] = x /\ p[Len(p)] = y}

(***************************************************************************)
(* topological_sort places every vertex of the graph once, and after all   *)
(* its predecessors.                                                       *)
(***************************************************************************)
TopologicalOrder ==
  LET order == topological_sort(g)
  IN  /\ ToSet(order) = Vertices /\ Len(order) = Cardinality(Vertices)
      /\ \A i, j \in DOMAIN order : if_exist_edge(g, order[i], order[j]) => i < j

(***************************************************************************)
(* longest_path_core returns a path that no other path of the graph        *)
(* exceeds in cost, and that starts with a costly edge (longest_path_impl  *)
(* joins its first vertex to the source); it is empty only when nothing in *)
(* the graph costs anything.                                               *)
(***************************************************************************)
LongestPathIsLongest ==
  g # <<>> =>
    LET core == longest_path_core(g)
    IN  IF core = <<>> THEN \A k \in DOMAIN g : g[k].cost = 0
        ELSE /\ Len(core) > 1 /\ IsPath(core)
             /\ get_outgoing_edge(g, core[1], core[2]).cost > 0
             /\ \A p \in Paths : CostOf(p) <= CostOf(core)

(***************************************************************************)
(* find_path finds a path exactly when there is one: the path begins with  *)
(* the source and an edge leads from its last vertex to the target.        *)
(***************************************************************************)
FindPathIsExact ==
  \A x, y \in Vertices :
     LET p == find_path(g, x, y)
     IN  IF From(x, y) = {} THEN p = <<>>
         ELSE p # <<>> /\ p \o <<y>> \in From(x, y)

(***************************************************************************)
(* When if_exist_path answers yes, find_path, which longest_path_impl then *)
(* calls, does find a path of more than one edge.                          *)
(***************************************************************************)
ExistingPathIsFound ==
  \A x, y \in Vertices :
     if_exist_path(g, x, y) => \E p \in From(x, y) : Len(p) > 2
=============================================================================
