------------------------------ MODULE InducedDEG ------------------------------
(***************************************************************************)
(* The analysis of a graph (O3Graph::analyze_window): the virtual edges    *)
(* that turn the graph into the induced one, the longest path through it,  *)
(* and the critical path from the first fetch to the last commit.          *)
(* Everywhere w is the sequence of the instructions read, oldest first,    *)
(* and e the sequence of the edges of the graph.                           *)
(***************************************************************************)
EXTENDS DEG, SequencesExt, FiniteSetsExt

(* the elements of S in the order less *)
SortBy(S, less(_, _)) ==
  [i \in 1 .. Cardinality(S) |->
     CHOOSE x \in S : Cardinality({y \in S : less(y, x)}) = i - 1]

(* the elements of s at the positions P, in their order *)
Select(s, P) ==
  LET at == SortBy(P, LAMBDA i, j : i < j) IN [k \in DOMAIN at |-> s[at[k]]]

VerticesOf(e) == {e[k].u : k \in DOMAIN e} \cup {e[k].v : k \in DOMAIN e}

(* struct VertexCompare, the order of the maps graph and pred *)
VertexCompare(x, y) == \/ Rank[x[2]] < Rank[y[2]]
                       \/ x[2] = y[2] /\ x[1] < y[1]

(* graph[x], pred[x]: the places of the edges that leave, and that enter, a vertex *)
Outgoing(e, x) == {k \in DOMAIN e : e[k].u = x}
Ingoing(e, x)  == {k \in DOMAIN e : e[k].v = x}

if_exist_edge(e, x, y) == \E k \in DOMAIN e : e[k].u = x /\ e[k].v = y

(* get_outgoing_edge: of parallel edges, the one that was added first *)
get_outgoing_edge(e, x, y) ==
  e[CHOOSE k \in DOMAIN e : /\ e[k].u = x /\ e[k].v = y
                            /\ \A j \in 1 .. k - 1 : ~(e[j].u = x /\ e[j].v = y)]

(* variant: an edge that exists already is added again *)
add_virtual_edge_Always(w, e, x, y) ==
  IF x = y THEN e
  ELSE Append(e, [u |-> x, v |-> y, weight |-> timing(w, y) - timing(w, x),
                  cost |-> 0, bottleneck |-> "Virtual"])

add_virtual_edge(w, e, x, y) ==
  IF x = y \/ if_exist_edge(e, x, y) THEN e
  ELSE Append(e, [u |-> x, v |-> y, weight |-> timing(w, y) - timing(w, x),
                  cost |-> 0, bottleneck |-> "Virtual"])

-----------------------------------------------------------------------------
(***************************************************************************)
(* construct_induced_graph.  The skewed edges are grouped by their tail in *)
(* an ordered map whose key is (timing, inst_seq): tails of one            *)
(* instruction with the same timing share an entry, under the vertex of    *)
(* lowest rank.  The entry's vertices are its key and its edges' heads.    *)
(***************************************************************************)
SkewedTails(e) == {d.u : d \in {e[k] : k \in {j \in DOMAIN e : e[j].u[1] # e[j].v[1]}}}

SameEntry(w, x, y) == x[1] = y[1] /\ timing(w, x) = timing(w, y)

SkewedKeys(w, e) ==
  {x \in SkewedTails(e) :
     \A y \in SkewedTails(e) : SameEntry(w, x, y) => Rank[x[2]] <= Rank[y[2]]}

(* struct EdgeTimingCompare, struct EdgeInstSeqCompare *)
EdgeTimingCompare(w, x, y) == \/ timing(w, x) < timing(w, y)
                              \/ timing(w, x) = timing(w, y) /\ x[1] < y[1]
EdgeInstSeqCompare(w, x, y) == \/ x[1] < y[1]
                               \/ x[1] = y[1] /\ timing(w, x) < timing(w, y)

(* the heads of the edges of e at the places P *)
Heads(e, P) == LET out == Select(e, P) IN [k \in DOMAIN out |-> out[k].v]

EntryVertices(w, e, key) ==
  LET tails == SortBy({x \in SkewedTails(e) : SameEntry(w, x, key)}, VertexCompare)
      SkewedOf(x) == {k \in Outgoing(e, x) : e[k].v[1] # x[1]}
  IN  <<key>> \o FlattenSeq([k \in DOMAIN tails |-> Heads(e, SkewedOf(tails[k]))])

(* an entry a virtual edge of x may lead to *)
After(w, x, key) == timing(w, key) >= timing(w, x) /\ key[1] > x[1]

(* the targets of x, searched in keys from position p on: the first entry  *)
(* after x and the entries that follow it directly at the same tick        *)
TimingTargets(w, keys, p, x) ==
  LET first == SelectInSubSeq(keys, p, Len(keys), LAMBDA y : After(w, x, y))
      Joins(j) == keys[j][1] > x[1] /\ timing(w, keys[j]) = timing(w, keys[first])
      last == Max({n \in first .. Len(keys) : \A j \in first + 1 .. n : Joins(j)})
  IN  IF first = 0 THEN <<>> ELSE SubSeq(keys, first, last)

InstSeqTargets(w, keys, p, x) ==
  LET first == SelectInSubSeq(keys, p, Len(keys), LAMBDA y : After(w, x, y))
  IN  IF first = 0 THEN <<>> ELSE <<keys[first]>>

(* the virtual edges a sorted map of entries asks for, in their order: the *)
(* entries were collected from the graph e before the first addition       *)
VirtualLinks(by, w, e, keys) ==
  LET Targets(p, x) == IF by = "timing" THEN TimingTargets(w, keys, p, x)
                       ELSE InstSeqTargets(w, keys, p, x)
      From(p, x) == LET to == Targets(p, x) IN [k \in DOMAIN to |-> <<x, to[k]>>]
      OfEntry(p) == LET xs == EntryVertices(w, e, keys[p])
                    IN  FlattenSeq([k \in DOMAIN xs |-> From(p, xs[k])])
  IN  FlattenSeq([p \in DOMAIN keys |-> OfEntry(p)])

Connect(w, e, links) == FoldLeft(LAMBDA g, l : add_virtual_edge(w, g, l[1], l[2]), e, links)

add_virtual_edge_via_timing(w, e) ==
  LET keys == SortBy(SkewedKeys(w, e), LAMBDA x, y : EdgeTimingCompare(w, x, y))
  IN  Connect(w, e, VirtualLinks("timing", w, e, keys))

add_virtual_edge_via_inst_seq(w, e) ==
  LET keys == SortBy(SkewedKeys(w, e), LAMBDA x, y : EdgeInstSeqCompare(w, x, y))
  IN  Connect(w, e, VirtualLinks("inst_seq", w, e, keys))

construct_induced_graph(w, e) ==
  add_virtual_edge_via_inst_seq(w, add_virtual_edge_via_timing(w, e))

-----------------------------------------------------------------------------
(* variant: a vertex is placed as soon as one of its predecessors is *)
Generation_Eager(e, placed) ==
  {x \in VerticesOf(e) \ placed :
     Ingoing(e, x) = {} \/ \E k \in Ingoing(e, x) : e[k].u \in placed}

(* the vertices whose last predecessor has just been placed *)
Generation(e, placed) ==
  {x \in VerticesOf(e) \ placed : \A k \in Ingoing(e, x) : e[k].u \in placed}

(***************************************************************************)
(* topological_sort, by generations: the vertices no edge enters, then     *)
(* over and over the ones whose last predecessor has just been placed.     *)
(***************************************************************************)
topological_sort(e) ==
  LET n == Cardinality(VerticesOf(e))
      ret[k \in 0 .. n] ==
        IF k = 0 THEN <<>>
        ELSE LET order == ret[k - 1]
             IN  order \o SortBy(Generation(e, ToSet(order)), VertexCompare)
  IN  ret[n]

(* variant: only the first predecessor is looked at *)
update_dist_First(e, dist, x) ==
  LET In == Ingoing(e, x)
      d  == e[Min(In)]
  IN  IF In = {} THEN [cost |-> 0, from |-> x]
      ELSE [cost |-> dist[d.u].cost + d.cost, from |-> d.u]

(***************************************************************************)
(* _update_dist: the largest cost of a path that ends in x, and the first  *)
(* predecessor in pred[x] on such a path.                                  *)
(***************************************************************************)
update_dist(e, dist, x) ==
  LET In == Ingoing(e, x)
      Through(k) == dist[e[k].u].cost + get_outgoing_edge(e, e[k].u, x).cost
      best == CHOOSE k \in In :
                \A j \in In : Through(j) <= Through(k) /\ (j < k => Through(j) < Through(k))
  IN  IF In = {} THEN [cost |-> 0, from |-> x]
      ELSE [cost |-> Through(best), from |-> e[best].u]

(* dist, computed in the order of the sort; what is not there reads as 0 *)
Distances(e) ==
  FoldLeft(LAMBDA dist, x : [dist EXCEPT ![x] = update_dist(e, dist, x)],
           [x \in VerticesOf(e) |-> [cost |-> 0, from |-> x]],
           topological_sort(e))

(* longest_path_core: the costly part of the longest path, empty when no   *)
(* edge of the graph costs anything                                        *)
longest_path_core(e) ==
  LET dist == Distances(e)
      V    == DOMAIN dist
      last == CHOOSE x \in V :
                \A y \in V : \/ dist[y].cost < dist[x].cost
                             \/ dist[y].cost = dist[x].cost /\ ~VertexCompare(y, x)
      Back[n \in 1 .. Cardinality(V)] ==        \* the last n vertices of the path
        IF n = 1 THEN <<last>>
        ELSE LET p == Back[n - 1] IN
             IF dist[p[1]].cost = 0 THEN p ELSE <<dist[p[1]].from>> \o p
  IN  IF dist[last].cost = 0 THEN <<>> ELSE Back[Cardinality(V)]

-----------------------------------------------------------------------------
(* variant: an edge from the source counts as a path *)
if_exist_path_Edge(e, source, target) == if_exist_edge(e, source, target)

(***************************************************************************)
(* if_exist_path: a breadth-first search that gives up as soon as it meets *)
(* a vertex twice or an instruction younger than the target.               *)
(***************************************************************************)
if_exist_path(e, source, target) ==
  LET Look(s, y) ==
        IF s.result # "searching" THEN s
        ELSE IF y[1] > target[1] THEN [s EXCEPT !.result = "no"]
        ELSE IF if_exist_edge(e, y, target) THEN [s EXCEPT !.result = "yes"]
        ELSE IF y \in s.seen THEN [s EXCEPT !.result = "no"]
        ELSE [s EXCEPT !.seen = @ \cup {y}, !.next = Append(@, y)]
      n == Cardinality(VerticesOf(e))
      search[k \in 0 .. n] ==      \* after k generations
        IF k = 0 THEN [result |-> "searching", seen |-> {}, next |-> <<source>>]
        ELSE LET s == search[k - 1]
             IN  FoldLeft(Look, [s EXCEPT !.next = <<>>],
                          FlattenSeq([j \in DOMAIN s.next |->
                                        Heads(e, Outgoing(e, s.next[j]))]))
  IN  source[1] <= target[1] /\ search[n].result = "yes"

(* variant: only the first edge of a vertex is followed *)
find_path_FirstEdge(e, source, target) ==
  LET Find[x \in VerticesOf(e)] ==
        LET out  == Outgoing(e, x)
            rest == IF out = {} THEN <<>> ELSE Find[e[Min(out)].v]
        IN  IF if_exist_edge(e, x, target) THEN <<x>>
            ELSE IF rest = <<>> THEN <<>> ELSE <<x>> \o rest
  IN  Find[source]

(* find_path: depth first, the path from source up to but without target *)
find_path(e, source, target) ==
  LET Find[x \in VerticesOf(e)] ==
        IF if_exist_edge(e, x, target) THEN <<x>>
        ELSE LET hits == {k \in Outgoing(e, x) : Find[e[k].v] # <<>>}
             IN  IF hits = {} THEN <<>> ELSE <<x>> \o Find[e[Min(hits)].v]
  IN  Find[source]

(* variant: the walk to the commit leaves out its first vertex *)
PipelineTo_C_Skips(w, x) ==
  LET p == Pipeline(w[x[1]])
      at == CHOOSE k \in DOMAIN p : p[k] = x[2]
  IN  [k \in 1 .. Len(p) - at |-> <<x[1], p[at + k]>>]

(* from_c_to_sink: along the instruction of x to its commit *)
PipelineTo_C(w, x) ==
  LET p == Pipeline(w[x[1]])
      at == CHOOSE k \in DOMAIN p : p[k] = x[2]
  IN  [k \in 1 .. Len(p) + 1 - at |-> <<x[1], p[at + k - 1]>>]

(***************************************************************************)
(* longest_path_impl, for a graph with a costly edge: the costly part,     *)
(* core, is joined to the source by a path of the graph or by a virtual edge, and   *)
(* to the sink by a path of the graph or by its instruction's commit and a *)
(* virtual edge.  The result is the path and the graph it runs in.         *)
(***************************************************************************)
longest_path(w, e, core, source, sink) ==
  LET first == core[1]
      last  == core[Len(core)]
      head  == if_exist_path(e, source, first)
      e1    == IF head THEN e ELSE add_virtual_edge(w, e, source, first)
      tail  == if_exist_path(e1, last, sink)
      toC   == PipelineTo_C(w, last)
      e2    == IF tail THEN e1 ELSE add_virtual_edge(w, e1, toC[Len(toC)], sink)
  IN  [path  |-> (IF head THEN find_path(e, source, first) ELSE <<source>>)
                   \o core
                   \o Tail(IF tail THEN find_path(e1, last, sink) ELSE toC)
                   \o <<sink>>,
       edges |-> e2]

(***************************************************************************)
(* profiling_critical_path: the length of the path and what each           *)
(* bottleneck contributes to it.                                           *)
(***************************************************************************)
PathEdges(e, path) ==
  [k \in 1 .. Len(path) - 1 |-> get_outgoing_edge(e, path[k], path[k + 1])]

TotalWeight(es) == FoldLeft(LAMBDA sum, d : sum + d.weight, 0, es)

(* variant: the virtual edges have no line in the report *)
BottleneckReport_NoVirtual(e, path) ==
  [b \in Bottlenecks |->
     FoldLeft(LAMBDA sum, d : sum + IF d.bottleneck = b /\ b # "Virtual" THEN d.weight ELSE 0,
              0, PathEdges(e, path))]

BottleneckReport(e, path) ==
  [b \in Bottlenecks |->
     FoldLeft(LAMBDA sum, d : sum + IF d.bottleneck = b THEN d.weight ELSE 0,
              0, PathEdges(e, path))]
=============================================================================
