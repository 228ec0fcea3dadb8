------------------------------- MODULE PyGraph -------------------------------
(***************************************************************************)
(* The graph of the Python analysis (class Graph of algo/core/model.py).   *)
(* It has the vertices of the C++ graph (DEG) but is an nx.DiGraph: a      *)
(* function from the pairs of vertices that are joined to the label of     *)
(* their edge, so that a second edge between two vertices replaces the     *)
(* first.  Everywhere w is the sequence of the instructions read, oldest   *)
(* first, and g the graph.                                                 *)
(***************************************************************************)
EXTENDS DEG, SequencesExt, FiniteSetsExt

Label == [delay : Int, cost : Int, bottleneck : Bottlenecks, virtual : BOOLEAN]

(* Graph.add_edge *)
add_edge(g, u, v, label) ==
  [p \in DOMAIN g \cup {<<u, v>>} |-> IF p = <<u, v>> THEN label ELSE g[p]]

Nodes(g)   == {p[1] : p \in DOMAIN g} \cup {p[2] : p \in DOMAIN g}
succ(g, x) == {p[2] : p \in {q \in DOMAIN g : q[1] = x}}
pred(g, x) == {p[1] : p \in {q \in DOMAIN g : q[2] = x}}

-----------------------------------------------------------------------------
(***************************************************************************)
(* Graph.model.  The vertices and most of the delays are those of the C++  *)
(* graph; the edges into M/P and into C differ.                            *)
(***************************************************************************)
Delay(i, a, b) ==
  CASE b = "MP" -> IF a = "DI" THEN (IF is_store(i) THEN i.memory ELSE i.complete) - i.dispatch
                   ELSE (IF is_store(i) THEN i.complete ELSE i.complete_memory) - i.issue
    [] b = "C" -> i.commit - IF a = "P" /\ is_load(i) THEN i.complete_memory ELSE i.complete
    [] OTHER -> HorizontalWeight(i, a, b)

(* variant: the cause of an edge that is not a hit is left unset *)
Cause_Unset(i, a, b, delay) == IF delay = CacheHitLatency THEN "Base" ELSE ""

(* Base for a cache hit and for every edge that is no memory access *)
Cause(i, a, b, delay) ==
  IF is_load(i) /\ a = "DI" /\ b = "MP" /\ delay # CacheHitLatency THEN "DcacheMiss"
  ELSE HorizontalBottleneck(a, b, delay)

(* the graph g with the pipeline of the newest instruction of w *)
model(g, w) ==
  LET seq == Len(w)
      i   == w[seq]
      p   == Pipeline(i)
      At  == [k \in 1 .. Len(p) - 1 |-> <<<<seq, p[k]>>, <<seq, p[k + 1]>>>>]
      Step(q) == LET d == Delay(i, q[1][2], q[2][2])
                 IN  [delay |-> d, cost |-> 0, bottleneck |-> Cause(i, q[1][2], q[2][2], d),
                      virtual |-> FALSE]
      New == {At[k] : k \in DOMAIN At}
  IN  [q \in DOMAIN g \cup New |-> IF q \in New THEN Step(q) ELSE g[q]]

(* RiscvInstructionType.__FP_RF__: unlike the C++ code it has the classes  *)
(* of the multiplier and divider                                           *)
UseFpRf(i) == i.inst_type \in FpAluTypes \cup FpMulTypes

RfInteraction(w) ==
  LET inst == w[Len(w)]
  IN  RenameEdge(w, {k \in Older(w) : "rf" \in inst.block
                                        /\ (use_int_rf(inst) \/ UseFpRf(inst))
                                        /\ (war_dep(inst, w[k]) \/ wrw_dep(inst, w[k]))},
                 IF use_int_rf(inst) THEN "IntRF" ELSE "FpRF")

(***************************************************************************)
(* The eight model_*_interaction methods, in the order of                  *)
(* model_interaction_impl.  All but model_rf_interaction make the searches *)
(* of the C++ methods of the same names.                                   *)
(***************************************************************************)
Interactions(w) ==
  IF Len(w) <= 1 THEN <<>>
  ELSE model_miss_bp_interaction(w) \o model_rob_interaction(w)
         \o model_lq_interaction(w) \o model_sq_interaction(w)
         \o RfInteraction(w) \o model_iq_interaction(w)
         \o model_fu_interaction(w) \o model_raw_interaction(w)

(* the label of a dependence, which costs its delay *)
DependenceLabel(d) ==
  [delay |-> d.weight, cost |-> d.cost, bottleneck |-> d.bottleneck, virtual |-> FALSE]

(* model_interaction: of several dependences between the same two vertices *)
(* the last one stays                                                      *)
model_interaction(g, w) ==
  LET es == Interactions(w)
      At(p) == {k \in DOMAIN es : <<es[k].u, es[k].v>> = p}
      New == {<<es[k].u, es[k].v>> : k \in DOMAIN es}
  IN  [p \in DOMAIN g \cup New |-> IF p \in New THEN DependenceLabel(es[Nearest(At(p))])
                                   ELSE g[p]]

-----------------------------------------------------------------------------
(***************************************************************************)
(* construct_induced_graph.  A skewed edge <<u, v>> joins two instructions.*)
(* self.edges runs over the vertices in the order they were added, so the  *)
(* list is ordered by u; the edges of one u end in different instructions  *)
(* and were added in the order of v.  Both sorts are stable.               *)
(***************************************************************************)
SkewEdges(g) == {p \in DOMAIN g : p[1][1] # p[2][1]}

ByNode(p, q) == \/ p[1][1] < q[1][1]
                \/ p[1][1] = q[1][1] /\ Rank[p[1][2]] < Rank[q[1][2]]
                \/ p[1] = q[1] /\ p[2][1] < q[2][1]

ByTimestamp(w, p, q) == \/ timing(w, p[1]) < timing(w, q[1])
                        \/ timing(w, p[1]) = timing(w, q[1]) /\ ByNode(p, q)

Kinds == {"timestamp", "seq"}

(* the list of the edges S that skew_edges.sort leaves: there is just one *)
Orders(kind, w, S) ==
  {sk \in [1 .. Cardinality(S) -> S] :
     \A i, j \in DOMAIN sk :
       i < j => IF kind = "timestamp" THEN ByTimestamp(w, sk[i], sk[j]) ELSE ByNode(sk[i], sk[j])}

source_node == <<1, "F1">>
sink_node(w) == <<Len(w), "C">>

(* Node.__eq__ *)
SameNode(w, x, y) == x[1] = y[1] /\ timing(w, x) = timing(w, y)

(* variant: the timestamps are not compared *)
Follower_AnyTime(w, x, e) == e[1][1] > x[1]

(* a virtual edge may lead from x to the tail of the skewed edge e *)
Follower(w, x, e) == timing(w, e[1]) >= timing(w, x) /\ e[1][1] > x[1]

(* variant: only the first of the tails of the closest timestamp is joined *)
TimestampTargets_First(w, sk, idx, x) ==
  LET first == SelectInSubSeq(sk, idx + 1, Len(sk), LAMBDA e : Follower(w, x, e))
  IN  IF first = 0 THEN <<>> ELSE <<sk[first][1]>>

(***************************************************************************)
(* _add_virtual_edge_via_timestamp_impl(x) of the worker of entry idx: the *)
(* first later entry that may follow x, and the entries behind it that     *)
(* start at the same time.  (Without a first one the second loop looks for *)
(* entries the first loop would have taken, and finds none.)               *)
(***************************************************************************)
TimestampTargets(w, sk, idx, x) ==
  LET first == SelectInSubSeq(sk, idx + 1, Len(sk), LAMBDA e : Follower(w, x, e))
      Joins(j) == sk[j][1][1] > x[1] /\ timing(w, sk[j][1]) = timing(w, sk[first][1])
      last == Max({n \in first .. Len(sk) : \A j \in first + 1 .. n : Joins(j)})
  IN  IF first = 0 THEN <<>> ELSE [k \in 1 .. last - first + 1 |-> sk[first + k - 1][1]]

(* _add_virtual_edge_via_seq_v2_impl(x): the first later entry only *)
SeqTargets(w, sk, idx, x) ==
  LET first == SelectInSubSeq(sk, idx + 1, Len(sk), LAMBDA e : Follower(w, x, e))
  IN  IF first = 0 THEN <<>> ELSE <<sk[first][1]>>

Targets(kind, w, sk, idx, x) ==
  IF kind = "timestamp" THEN TimestampTargets(w, sk, idx, x) ELSE SeqTargets(w, sk, idx, x)

From(x, targets) == [k \in DOMAIN targets |-> <<x, targets[k]>>]

(* add_virtual_edge_via_*_impl: the links the worker of entry idx adds,    *)
(* those of edge.u before those of edge.v                                  *)
WorkerLinks(kind, w, sk, idx) ==
  LET Of(x) == From(x, Targets(kind, w, sk, idx, x))
  IN  Of(sk[idx][1]) \o Of(sk[idx][2])

(* the last entries whose heads end together, in an instruction or in time *)
TailEntries(kind, w, sk) ==
  LET n == Len(sk)
      Key(i) == IF kind = "timestamp" THEN timing(w, sk[i][2]) ELSE sk[i][2][1]
  IN  {i \in DOMAIN sk : \A j \in i .. n : Key(j) = Key(n)}

(***************************************************************************)
(* The links add_virtual_edge_via_timestamp and add_virtual_edge_via_seq_v2*)
(* add themselves: from the source to the first tail of another            *)
(* instruction, then from the heads of the last entries, backwards, to the *)
(* sink.  Without a skewed edge skew_edges[-1] ends the thread.  (The      *)
(* inner loop of the timestamp's head needs a tail at the time of the      *)
(* source: see WellFormed.)                                                *)
(***************************************************************************)
HelperLinks(kind, w, sk) ==
  IF sk = <<>> THEN <<>>
  ELSE LET first == SelectInSeq(sk, LAMBDA e : e[1][1] > 1)
           n == Len(sk)
           tails == TailEntries(kind, w, sk)
       IN  (IF first = 0 THEN <<>> ELSE <<<<source_node, sk[first][1]>>>>)
             \o [k \in 1 .. Cardinality(tails) |-> <<sk[n + 1 - k][2], sink_node(w)>>]

(* thread <<kind, 0>> starts the workers <<kind, 1>>, ... <<kind, n>> *)
Threads(S) == Kinds \X (0 .. Cardinality(S))

(* the links of a thread whose sorted list is sk *)
Links(w, sk, t) ==
  IF t[2] = 0 THEN HelperLinks(t[1], w, sk) ELSE WorkerLinks(t[1], w, sk, t[2])

(* variant: the delay is taken for the cost, which is 0 *)
VirtualLabel_NoDelay(w, x, y) ==
  [delay |-> 0, cost |-> 0, bottleneck |-> "Virtual", virtual |-> TRUE]

VirtualLabel(w, x, y) ==
  [delay |-> timing(w, y) - timing(w, x), cost |-> 0, bottleneck |-> "Virtual",
   virtual |-> TRUE]

-----------------------------------------------------------------------------
(***************************************************************************)
(* longest_path_impl.  A distance is a pair of a length and the            *)
(* predecessor it came from; Python compares predecessors by their names,  *)
(* the strings "seq-stage": first by the decimal digits of seq, where "-"  *)
(* comes before every digit, then by the stage.                            *)
(***************************************************************************)
Digits[n \in Nat] == IF n < 10 THEN <<n>> ELSE Append(Digits[n \div 10], n % 10)

(* the order of strings: the first difference decides *)
StringBefore(s, t) ==
  \E k \in DOMAIN t : /\ \A j \in 1 .. k - 1 : j \in DOMAIN s /\ s[j] = t[j]
                      /\ k \in DOMAIN s => s[k] < t[k]

NameRank == [C |-> 0, D |-> 1, DI |-> 2, DS |-> 3, F |-> 4, F1 |-> 5, F2 |-> 6,
             F2F |-> 7, I |-> 8, M |-> 9, MP |-> 10, P |-> 11, R |-> 12]

NameBefore(x, y) ==
  \/ StringBefore(Digits[x[1]], Digits[y[1]])
  \/ x[1] = y[1] /\ NameRank[x[2]] < NameRank[y[2]]

Less(a, b) == a[1] < b[1] \/ (a[1] = b[1] /\ NameBefore(a[2], b[2]))

Greatest(S) == {a \in S : \A b \in S : ~Less(a, b)}

(* variant: the smallest pair is taken *)
Distance_Min(g, dist, x) ==
  LET pairs == {<<dist[y][1] + g[<<y, x>>].cost, y>> : y \in pred(g, x)}
  IN  IF pairs = {} THEN <<0, x>> ELSE CHOOSE a \in pairs : \A b \in pairs : ~Less(b, a)

(* dist[x], once the predecessors of x have theirs *)
Distance(g, dist, x) ==
  LET pairs == {<<dist[y][1] + g[<<y, x>>].cost, y>> : y \in pred(g, x)}
  IN  IF pairs = {} THEN <<0, x>> ELSE CHOOSE a \in Greatest(pairs) : TRUE

(* the vertices max(dist.items()) may return: of equal pairs it takes the  *)
(* first in the order of the sort, which is left open                      *)
Ends(dist) == {x \in DOMAIN dist : dist[x] \in Greatest({dist[y] : y \in DOMAIN dist})}

(* the path to x, from the last vertex before it that costs nothing to reach *)
PathTo(dist, x) ==
  LET P[y \in DOMAIN dist] ==
        IF dist[y][1] = 0 THEN <<y>> ELSE Append(P[dist[y][2]], y)
  IN  P[x]

(* nx.shortest_path (external): any path from x to y with the fewest edges *)
ShortestPaths(g, x, y) ==
  LET Bound == 0 .. Cardinality(Nodes(g))
      Seen[n \in Bound] == IF n = 0 THEN {x} ELSE UNION {succ(g, z) : z \in Seen[n - 1]}
      Paths[n \in Bound] == IF n = 0 THEN {<<x>>}
                            ELSE UNION {{Append(p, z) : z \in succ(g, p[n])} : p \in Paths[n - 1]}
  IN  IF \A n \in Bound : y \notin Seen[n] THEN {}
      ELSE LET n == CHOOSE k \in Bound : y \in Seen[k] /\ \A j \in 0 .. k - 1 : y \notin Seen[j]
           IN  {p \in Paths[n] : p[n + 1] = y}

(* the sum of the delays along a path *)
Length(g, path) ==
  FoldLeft(LAMBDA sum, k : sum + g[<<path[k], path[k + 1]>>].delay, 0,
           [k \in 1 .. Len(path) - 1 |-> k])

(***************************************************************************)
(* What the Python analysis is given (external: gem5 writes the trace).    *)
(* No instruction is renamed in the cycle the first one is fetched in.     *)
(***************************************************************************)
WellFormed(w) ==
  /\ w \in Seq(Instruction) /\ Len(w) >= 1
  /\ \A k \in DOMAIN w : /\ Executed(w[k])
                         /\ Follows(SubSeq(w, 1, k - 1), w[k])
                         /\ w[1].fetch_cache_line < w[k].rename
=============================================================================
