----------------------------- MODULE PyInducedDEG -----------------------------
(***************************************************************************)
(* The Python analysis of one trace (construct_new_graph_formulation of    *)
(* algo/core/deg.py), with its threads.  The main thread reads the trace   *)
(* and starts two threads, which start a worker for each skewed edge and   *)
(* then add links of their own.  The main thread waits for the two         *)
(* threads and nobody waits for the workers: they may still add edges      *)
(* while the main thread sorts the graph and looks for the longest path.   *)
(***************************************************************************)
EXTENDS PyGraph

CONSTANT Traces       \* the traces that may be analysed

ASSUME TracesAssumption == \A w \in Traces : WellFormed(w)

VARIABLES
  trace,     \* the trace, a sequence of instructions
  pc,        \* the main thread: "read", "join", "sort", "path", "done", "failed"
  insts,     \* Graph.insts, oldest first
  graph,     \* Graph.graph: joined pair of vertices -> label
  skew,      \* skew_edges, as a set of pairs
  started,   \* the helper threads that have started their workers
  links,     \* links[t]: the links thread t has to add
  done,      \* done[t]: how many of them it has dealt with
  adding,    \* the threads between if_exist_edge and add_edge
  sort,      \* nx.topological_sort: indegree_map and the generations
  dist,      \* the distances of longest_path_impl
  critical,  \* Graph.critical_path
  changed    \* history: the graph was changed after the sort had begun

vars == <<trace, pc, insts, graph, skew, started, links, done, adding, sort, dist,
          critical, changed>>

threads == <<skew, started, links, done, adding>>
search  == <<sort, dist, critical>>

NoSort == [indegree |-> [x \in {} |-> 0], release |-> {}, relax |-> {}, ready |-> {}]

Init ==
  /\ trace \in Traces
  /\ pc = "read" /\ insts = <<>> /\ graph = [p \in {} |-> p]
  /\ skew = {} /\ started = {}
  /\ links = [t \in Threads({}) |-> <<>>] /\ done = [t \in Threads({}) |-> 0]
  /\ adding = {}
  /\ sort = NoSort /\ dist = [x \in {} |-> x] /\ critical = <<>> /\ changed = FALSE

-----------------------------------------------------------------------------
(* graph.model(inst); graph.model_interaction(inst) *)
Read ==
  /\ pc = "read" /\ Len(insts) < Len(trace)
  /\ LET w == Append(insts, trace[Len(insts) + 1])
     IN  insts' = w /\ graph' = model_interaction(model(graph, w), w)
  /\ UNCHANGED <<trace, pc, threads, search, changed>>

(* construct_induced_graph, up to the two thread.start() *)
Construct ==
  /\ pc = "read" /\ Len(insts) = Len(trace)
  /\ pc' = "join"
  /\ skew' = SkewEdges(graph)
  /\ \E time \in Orders("timestamp", insts, skew'), seq \in Orders("seq", insts, skew') :
       links' = [t \in Threads(skew') |->
                   Links(insts, IF t[1] = "timestamp" THEN time ELSE seq, t)]
  /\ done' = [t \in Threads(skew') |-> 0]
  /\ UNCHANGED <<trace, insts, graph, started, adding, search, changed>>

(* the loop of thread.start(): a worker that has been started and has not  *)
(* run is like one that has not been started, so one step starts them all  *)
StartWorkers(kind) ==
  /\ pc # "read" /\ kind \notin started
  /\ started' = started \cup {kind}
  /\ UNCHANGED <<trace, pc, insts, graph, skew, links, done, adding, search, changed>>

(* a helper thread goes on when it has started its workers *)
Busy(t) == t[1] \in started /\ done[t] + 1 \in DOMAIN links[t]

Ended(t) == done[t] + 1 \notin DOMAIN links[t]

(* the link thread t works on, and the step to the next one *)
Link(t) == links[t][done[t] + 1]
Proceed(t) == done' = [done EXCEPT ![t] = @ + 1]

(* variant: an existing edge is not looked for *)
CheckEdge_Blind(t) ==
  /\ Busy(t) /\ t \notin adding
  /\ LET p == Link(t)
     IN  IF SameNode(insts, p[1], p[2])
         THEN Proceed(t) /\ UNCHANGED adding
         ELSE adding' = adding \cup {t} /\ UNCHANGED done
  /\ UNCHANGED <<trace, pc, insts, graph, skew, started, links, search, changed>>

(* variant: the loop does not go on after an edge that exists *)
CheckEdge_Retry(t) ==
  /\ Busy(t) /\ t \notin adding
  /\ LET p == Link(t)
     IN  IF SameNode(insts, p[1], p[2]) \/ p \in DOMAIN graph
         THEN UNCHANGED adding ELSE adding' = adding \cup {t}
  /\ UNCHANGED <<trace, pc, insts, graph, skew, started, links, done, search, changed>>

(* add_virtual_edge: if u == v or self.if_exist_edge(u, v): return *)
CheckEdge(t) ==
  /\ Busy(t) /\ t \notin adding
  /\ LET p == Link(t)
     IN  IF SameNode(insts, p[1], p[2]) \/ p \in DOMAIN graph
         THEN Proceed(t) /\ UNCHANGED adding
         ELSE adding' = adding \cup {t} /\ UNCHANGED done
  /\ UNCHANGED <<trace, pc, insts, graph, skew, started, links, search, changed>>

(* add_virtual_edge: self.add_edge(edge); edge.mask_virtual() *)
PutEdge(t) ==
  /\ t \in adding /\ adding' = adding \ {t}
  /\ Proceed(t)
  /\ LET p == Link(t)
     IN  graph' = add_edge(graph, p[1], p[2], VirtualLabel(insts, p[1], p[2]))
  /\ changed' = (changed \/ (pc \in {"sort", "path"} /\ DOMAIN graph' # DOMAIN graph))
  /\ UNCHANGED <<trace, insts, skew, started, links, search>>

AddEdge(t) == PutEdge(t) /\ UNCHANGED pc

(* the main thread is in a loop over the neighbours of a vertex *)
Iterates(p) ==
  \/ pc = "sort" /\ sort.release # {} /\ p[1] \in sort.release /\ succ(graph, p[1]) # {}
  \/ pc = "sort" /\ sort.release = {} /\ p[2] \in sort.relax /\ pred(graph, p[2]) # {}
  \/ pc = "path"

(* RuntimeError: dictionary changed size during iteration *)
InterruptSort(t) ==
  /\ t \in adding /\ Iterates(Link(t)) /\ Link(t) \notin DOMAIN graph
  /\ PutEdge(t) /\ pc' = "failed"

-----------------------------------------------------------------------------
(***************************************************************************)
(* nx.topological_sort of networkx 2.8 (external), by generations: the     *)
(* in-degrees are counted once, a generation releases its successors       *)
(* before any of its vertices is returned.  The order within a generation  *)
(* is left open.  An edge added between the counts of two vertices is like *)
(* one added after both: the sort cannot finish with it.                   *)
(***************************************************************************)
Joined == started = Kinds /\ \A kind \in Kinds : Ended(<<kind, 0>>)

StartSort ==
  LET V == Nodes(graph)
      First == {x \in V : pred(graph, x) = {}}
  IN  /\ pc' = "sort"
      /\ sort' = [indegree |-> [x \in V \ First |-> Cardinality(pred(graph, x))],
                  release |-> First, relax |-> First, ready |-> {}]
      /\ UNCHANGED <<trace, insts, graph, threads, dist, critical, changed>>

(* the two thread.join(), and the count of the in-degrees *)
Join == pc = "join" /\ Joined /\ StartSort

Fail == pc' = "failed" /\ UNCHANGED <<trace, insts, graph, threads, search, changed>>

(* the successors of a generation, one count for each edge that leads there *)
ReleaseGeneration ==
  LET Released == UNION {succ(graph, x) : x \in sort.release}
      Counts(y) == Cardinality(pred(graph, y) \cap sort.release)
      Free == {y \in Released : sort.indegree[y] = Counts(y)}
  IN  /\ pc = "sort" /\ sort.release # {}
      /\ IF /\ Released \subseteq DOMAIN sort.indegree
            /\ \A y \in Released : Counts(y) <= sort.indegree[y]
         THEN /\ sort' = [sort EXCEPT
                   !.indegree = [y \in DOMAIN sort.indegree \ Free |-> @[y] - Counts(y)],
                   !.release = {}, !.ready = Free]
              /\ UNCHANGED <<trace, pc, insts, graph, threads, dist, critical, changed>>
         ELSE Fail    \* RuntimeError: graph changed during iteration

(* the body of the loop of dag_longest_path *)
Relax(x) ==
  /\ pc = "sort" /\ sort.release = {} /\ x \in sort.relax
  /\ IF pred(graph, x) \subseteq DOMAIN dist
     THEN /\ dist' = [y \in DOMAIN dist \cup {x} |->
                        IF y = x THEN Distance(graph, dist, x) ELSE dist[y]]
          /\ sort' = [sort EXCEPT !.relax = @ \ {x}]
          /\ UNCHANGED <<trace, pc, insts, graph, threads, critical, changed>>
     ELSE Fail        \* KeyError of dist[v]

NextGeneration ==
  /\ pc = "sort" /\ sort.release = {} /\ sort.relax = {} /\ sort.ready # {}
  /\ sort' = [sort EXCEPT !.release = sort.ready, !.relax = sort.ready, !.ready = {}]
  /\ UNCHANGED <<trace, pc, insts, graph, threads, dist, critical, changed>>

EndSort ==
  /\ pc = "sort" /\ sort.release = {} /\ sort.relax = {} /\ sort.ready = {}
  /\ IF DOMAIN sort.indegree = {}
     THEN pc' = "path" /\ UNCHANGED <<trace, insts, graph, threads, search, changed>>
     ELSE Fail        \* NetworkXUnfeasible

-----------------------------------------------------------------------------
(* the shortest paths from x to y, or the two ends when there is none *)
Connections(paths, x, y) == IF paths = {} THEN {<<x, y>>} ELSE paths

(* add_virtual_edge of the main thread, when there is no path from x to y *)
Bridge(g, paths, x, y) ==
  IF paths # {} \/ SameNode(insts, x, y) \/ <<x, y>> \in DOMAIN g THEN g
  ELSE add_edge(g, x, y, VirtualLabel(insts, x, y))

IsWalk(g, path) == \A k \in 1 .. Len(path) - 1 : <<path[k], path[k + 1]>> \in DOMAIN g

(***************************************************************************)
(* The rest of longest_path_impl, longest_path and generate_report: the    *)
(* path is extended to the source and to the sink, and its delays must add *)
(* up to golden_length.  (The edge to the first vertex of the path opens   *)
(* no way from the last, so both searches are made on the same graph.)     *)
(***************************************************************************)
Report ==
  /\ pc = "path"
  /\ \E end \in Ends(dist) :
       LET path == IF dist[end][1] = 0 THEN <<>> ELSE PathTo(dist, end)
           first == path[1]
           sink == sink_node(insts)
           heads == ShortestPaths(graph, source_node, first)
           tails == ShortestPaths(graph, end, sink)
       IN  IF path = <<>> \/ first \notin Nodes(graph)
           THEN Fail       \* IndexError of path[0], or no such node
           ELSE \E head \in Connections(heads, source_node, first),
                   tail \in Connections(tails, end, sink) :
                  /\ graph' = Bridge(Bridge(graph, heads, source_node, first), tails, end, sink)
                  /\ critical' = Front(head) \o path \o Tail(tail)
                  /\ pc' = IF /\ IsWalk(graph', critical')
                              /\ Length(graph', critical')
                                   = timing(insts, sink) - timing(insts, source_node)
                           THEN "done" ELSE "failed"
                  /\ UNCHANGED <<trace, insts, threads, sort, dist, changed>>

Finished == /\ pc \in {"done", "failed"}
            /\ started = Kinds
            /\ \A t \in DOMAIN links : Ended(t)

(* the program has ended *)
Terminated == Finished /\ UNCHANGED vars

Main == \/ Read \/ Construct \/ Join \/ ReleaseGeneration \/ NextGeneration \/ EndSort \/ Report
        \/ \E x \in sort.relax : Relax(x)

Step(t) == CheckEdge(t) \/ AddEdge(t) \/ InterruptSort(t)

Next == \/ Main
        \/ \E kind \in Kinds : StartWorkers(kind)
        \/ \E t \in DOMAIN links : Step(t)
        \/ Terminated

Spec == Init /\ [][Next]_vars

(* the program is not suspended for ever: as long as some thread can take  *)
(* a step, some thread does                                                *)
FairSpec == Spec /\ WF_vars(Next)

-----------------------------------------------------------------------------
TypeOK ==
  /\ trace \in Traces /\ insts \in Seq(Instruction)
  /\ pc \in {"read", "join", "sort", "path", "done", "failed"}
  /\ DOMAIN graph \subseteq Vertex \X Vertex
  /\ \A p \in DOMAIN graph : graph[p] \in Label
  /\ skew \subseteq DOMAIN graph
  /\ started \subseteq Kinds
  /\ DOMAIN links = Threads(skew) /\ adding \subseteq Threads(skew)
  /\ \A t \in Threads(skew) : /\ \A k \in DOMAIN links[t] : links[t][k] \in Vertex \X Vertex
                              /\ done[t] \in Nat
  /\ DOMAIN dist \subseteq Vertex
  /\ changed \in BOOLEAN

VirtualPairs == {p \in DOMAIN graph : graph[p].virtual}
Dependences  == DOMAIN graph \ VirtualPairs

(***************************************************************************)
(* The virtual edges keep the graph acyclic and never lead back in time,   *)
(* whichever thread added them: they join a vertex to a younger            *)
(* instruction, the first fetch to a vertex, or a vertex to the last       *)
(* commit, and their delay is the time between their ends                  *)
(* (add_virtual_edge).                                                     *)
(***************************************************************************)
VirtualEdgesLeadForward ==
  \A p \in VirtualPairs :
     /\ p[1][1] < p[2][1] \/ p[1] = source_node \/ p[2] = sink_node(insts)
     /\ p[1] # p[2]
     /\ graph[p].delay = timing(insts, p[2]) - timing(insts, p[1])
     /\ graph[p].delay >= 0

(* the tails that may follow x, and those the workers' searches are to     *)
(* stop at: all that are closest in time, and the first stage of the       *)
(* closest instruction                                                     *)
Tails(x) == {e[1] : e \in {d \in skew : Follower(insts, x, d)}}
ClosestTails(x) ==
  {y \in Tails(x) :
     \/ \A z \in Tails(x) : timing(insts, y) <= timing(insts, z)
     \/ \A z \in Tails(x) : y[1] < z[1] \/ (y[1] = z[1] /\ Rank[y[2]] <= Rank[z[2]])}

(***************************************************************************)
(* When every thread has ended the virtual edges between the skewed edges  *)
(* are the same, whatever the order the threads ran in and however two     *)
(* equal entries were sorted: from both ends of a skewed edge to all the   *)
(* tails closest in time and to the first tail of the closest instruction, *)
(* unless a dependence joins the two already.  This is what the searches   *)
(* of add_virtual_edge_via_timestamp and add_virtual_edge_via_seq_v2       *)
(* amount to; the docstring of construct_induced_graph has another rule,   *)
(* from v only and to all the tails of the closest instruction.            *)
(***************************************************************************)
InducedGraphIsDetermined ==
  pc # "read" /\ (\A t \in DOMAIN links : Ended(t)) =>
    {p \in VirtualPairs : p[1] # source_node /\ p[2] # sink_node(insts)}
      = (UNION {UNION {{<<x, y>> : y \in ClosestTails(x)} : x \in {e[1], e[2]}} : e \in skew})
          \ Dependences

(***************************************************************************)
(* The analysis fails only when nothing in the graph costs anything, or    *)
(* when a worker that nobody waited for changed the graph under the sort;  *)
(* in particular the assertion of generate_report never fails: the delays  *)
(* of the path add up to the time of the trace.                            *)
(***************************************************************************)
FailuresExplained ==
  pc = "failed" => changed \/ \A p \in DOMAIN graph : graph[p].cost = 0

(* the cost of a path, and of the most expensive path of the graph g *)
CostOf(g, path) ==
  FoldLeft(LAMBDA sum, k : sum + g[<<path[k], path[k + 1]>>].cost, 0,
           [k \in 1 .. Len(path) - 1 |-> k])

LongestCost(g) ==
  LET L[x \in Nodes(g)] == Max({0} \cup {L[y] + g[<<y, x>>].cost : y \in pred(g, x)})
  IN  Max({0} \cup {L[x] : x \in Nodes(g)})

(***************************************************************************)
(* When no worker changed the graph under the sort, the critical path is a *)
(* most expensive path of the graph (longest_path_impl).                   *)
(***************************************************************************)
StillGraphGivesLongest ==
  [][pc = "path" /\ pc' = "done" /\ ~changed => CostOf(graph', critical') = LongestCost(graph')]_vars

(***************************************************************************)
(* Step 2 of construct_critical_path_v2 applies the longest path algorithm *)
(* to the graph that step 1 has completed.                                 *)
(***************************************************************************)
CriticalPathIsLongest ==
  pc = "done" /\ Finished => CostOf(graph, critical) = LongestCost(graph)

(***************************************************************************)
(* A program that is not suspended ends, however its threads are           *)
(* scheduled: the main thread with a report or an error, every worker with *)
(* nothing left to add.                                                    *)
(***************************************************************************)
AnalysisEnds == <>Finished

-----------------------------------------------------------------------------
(***************************************************************************)
(* The threads implement the sequential account of InducedGraph: with      *)
(* check and addition apart and nobody waiting for the workers, the edges  *)
(* asked for follow from the instructions and the dependences, every step  *)
(* adds at most one of them, and the race between two threads that add the *)
(* same edge leaves no trace.                                              *)
(***************************************************************************)
Wanted == UNION {{links[t][k] : k \in DOMAIN links[t]} : t \in DOMAIN links}

State == [read |-> "reading", join |-> "connecting", sort |-> "connecting",
          path |-> "connecting", done |-> "reported", failed |-> "failed"][pc]

(* what the threads ask for when the skewed edges are sorted so *)
AsksWith(w, skewed, time, seq) ==
  LET Asks(l) == {l[k] : k \in DOMAIN l}
  IN  UNION {Asks(Links(w, IF t[1] = "timestamp" THEN time ELSE seq, t)) : t \in Threads(skewed)}

(* what may be asked for when the dependences join the pairs S *)
AskedFor(w, S) ==
  LET skewed == {p \in S : p[1][1] # p[2][1]}
  IN  {AsksWith(w, skewed, time, seq) :
         time \in Orders("timestamp", w, skewed), seq \in Orders("seq", w, skewed)}

Abstract == INSTANCE InducedGraph WITH
  Rules <- AskedFor,
  insts <- insts,
  deps <- [p \in Dependences |-> graph[p]],
  wanted <- Wanted,
  virtual <- VirtualPairs,
  state <- State

ImplementsInducedGraph == Abstract!Spec
=============================================================================
