------------------------------- MODULE O3Graph -------------------------------
(***************************************************************************)
(* O3Graph::run (infras/deg/src/graph/o3.cc): the instructions of a trace  *)
(* are read one by one; each adds its horizontal and its skewed edges to   *)
(* the graph; the graph is analysed whenever the number of instructions    *)
(* read is a multiple of WINDOW, and at the end of the trace.              *)
(***************************************************************************)
EXTENDS InducedDEG

CONSTANTS
  Trace,        \* the trace lines gem5 can write
  WINDOW,       \* instructions between two analyses (10000000 in the code)
  MaxInsts      \* bound of the model: the longest trace

NoInst == [end |-> TRUE]        \* what next() returns at the end of the trace
NoReport == [length |-> -1]     \* no report has been written

ASSUME TraceAssumption ==
  /\ Trace \subseteq Instruction
  /\ \A i \in Trace : Executed(i)
ASSUME WindowAssumption == WINDOW \in Nat \ {0} /\ MaxInsts \in Nat

VARIABLES
  inst_seq,     \* instructions read by inst_stream
  inst,         \* the instruction read last
  inst_window,  \* the instructions already modelled (the code keeps them newest first)
  edges,        \* the horizontal and skewed edges of the graph, see DEG
  virtual,      \* the virtual edges of the graph, added after them
  pc,           \* where run() is
  status,       \* "ok", or why the program stopped
  report        \* the report file

vars == <<inst_seq, inst, inst_window, edges, virtual, pc, status, report>>

(***************************************************************************)
(* The graph.  An analysis only appends virtual edges, and none that ends  *)
(* well is followed by another instruction, so they come last.             *)
(***************************************************************************)
Graph == edges \o virtual

Failures == {"crash", "no_sink", "no_edge", "assert"}

TypeOK ==
  /\ inst_seq \in Nat
  /\ inst \in Trace \cup {NoInst}
  /\ inst_window \in Seq(Trace)
  /\ edges \in Seq(Edge)
  /\ pc \in {"next", "model", "interact", "analyze", "done", "stopped"}
  /\ status \in {"ok"} \cup Failures

Init ==
  /\ inst_seq = 0
  /\ inst = NoInst
  /\ inst_window = <<>>
  /\ edges = <<>>
  /\ virtual = <<>>
  /\ pc = "next"
  /\ status = "ok"
  /\ report = NoReport

(***************************************************************************)
(* inst_stream->next() finds a line: inst_seq is advanced and, on a window *)
(* boundary, the graph is analysed before the new instruction is in it.    *)
(***************************************************************************)
NextInst ==
  /\ pc = "next"
  /\ inst_seq < MaxInsts
  /\ inst' \in Trace
  /\ Follows(inst_window, inst')
  /\ inst_seq' = inst_seq + 1
  /\ pc' = IF inst_seq' % WINDOW = 0 THEN "analyze" ELSE "model"
  /\ UNCHANGED <<inst_window, edges, virtual, status, report>>

(* next() finds no line: one last analysis, unless the trace is empty *)
EndOfTrace ==
  /\ pc = "next"
  /\ inst' = NoInst
  /\ pc' = IF inst_seq = 0 THEN "done" ELSE "analyze"
  /\ UNCHANGED <<inst_seq, inst_window, edges, virtual, status, report>>

Model ==
  /\ pc = "model"
  /\ edges' = edges \o Horizontal(inst, inst_seq)
  /\ pc' = "interact"
  /\ UNCHANGED <<inst_seq, inst, inst_window, virtual, status, report>>

ModelInteraction ==
  /\ pc = "interact"
  /\ inst_window' = Append(inst_window, inst)
  /\ edges' = edges \o Interaction(inst_window')
  /\ pc' = "next"
  /\ UNCHANGED <<inst_seq, inst, virtual, status, report>>

-----------------------------------------------------------------------------
Source == <<1, "F1">>                   \* get_source_vertex
Sink   == <<inst_seq, "C">>             \* get_sink_vertex, when it is in the graph

Connected(e, path) ==
  \A k \in 1 .. Len(path) - 1 : if_exist_edge(e, path[k], path[k + 1])

GoldenLength == timing(inst_window, Sink) - timing(inst_window, Source)

Stop(why) == /\ status' = why
             /\ pc' = "stopped"
             /\ UNCHANGED report

(* the edges of g behind the ones of the instructions *)
Added(g) == virtual' = SubSeq(g, Len(edges) + 1, Len(g))

(* profiling_critical_path, of a path through g *)
Profile(g, path) ==
  LET length == TotalWeight(PathEdges(g, path))
  IN  IF ~Connected(g, path) THEN Stop("no_edge")
      ELSE IF length # GoldenLength THEN Stop("assert")
      ELSE /\ report' = [length |-> length, path |-> path, by |-> BottleneckReport(g, path)]
           /\ pc' = IF inst = NoInst THEN "done" ELSE "model"
           /\ UNCHANGED status

(***************************************************************************)
(* analyze_window.  An empty longest path is read as path[0]; a missing    *)
(* sink or edge ends the program (ERROR), and so does a path that is not   *)
(* as long as the trace (PPK_ASSERT).                                      *)
(***************************************************************************)
AnalyzeWindow ==
  /\ pc = "analyze"
  /\ \E induced \in {construct_induced_graph(inst_window, Graph)} :
     \E core \in {longest_path_core(induced)} :
        \/ core = <<>> /\ Added(induced) /\ Stop("crash")
        \/ /\ core # <<>> /\ Sink \notin VerticesOf(induced)
           /\ Added(induced) /\ Stop("no_sink")
        \/ /\ core # <<>> /\ Sink \in VerticesOf(induced)
           /\ \E longest \in {longest_path(inst_window, induced, core, Source, Sink)} :
                Added(longest.edges) /\ Profile(longest.edges, longest.path)
  /\ UNCHANGED <<inst_seq, inst, inst_window, edges>>

Finished == pc \in {"done", "stopped"} /\ UNCHANGED vars

Next == \/ NextInst \/ EndOfTrace \/ Model \/ ModelInteraction \/ AnalyzeWindow
        \/ Finished

Spec == Init /\ [][Next]_vars
-----------------------------------------------------------------------------
(* the instructions whose edges are in the graph *)
Modelled == IF pc = "interact" THEN Append(inst_window, inst) ELSE inst_window

(***************************************************************************)
(* Every edge model() and model_interaction() add leads to a younger       *)
(* instruction or to a later stage of the same one: the graph has no       *)
(* cycle, which topological_sort asserts ("new DEG contains a cycle").     *)
(***************************************************************************)
Forward == \A k \in DOMAIN edges : IsForward(edges[k])

(***************************************************************************)
(* Both ends of every edge are vertices of the pipeline of a modelled      *)
(* instruction: no interaction is attached to an event that was merged     *)
(* into another vertex (get_vertex_from_inst resolves it).                 *)
(***************************************************************************)
Attached == \A k \in DOMAIN edges : IsAttached(Modelled, edges[k])

(***************************************************************************)
(* The weight of an edge is the time between its two events, so that the   *)
(* weights along any path add up to the time between its ends.  The one    *)
(* exception is from_p_to_c of a load: the vertex P has the tick           *)
(* complete_memory, the weight is counted from complete.                   *)
(***************************************************************************)
WeightsMeasureTime == \A k \in DOMAIN edges : MeasuresTime(Modelled, edges[k])

(***************************************************************************)
(* No weight and no cost is negative: ticks are unsigned in the code, a    *)
(* negative difference would wrap around, and the search for the longest   *)
(* path starts from -1.                                                    *)
(***************************************************************************)
NoTickUnderflow == \A k \in DOMAIN edges : IsNonNegative(edges[k])

(***************************************************************************)
(* A virtual edge keeps the graph free of cycles, measures time, costs     *)
(* nothing, and joins two vertices of the graph that no other edge joins:  *)
(* get_outgoing_edge, which returns the first edge between two vertices,   *)
(* never returns a virtual edge in place of a dependence.                  *)
(***************************************************************************)
VirtualEdgesAreSound ==
  \A k \in DOMAIN virtual :
     LET d == virtual[k]
     IN  /\ d \in Edge /\ IsForward(d) /\ d.cost = 0
         /\ {d.u, d.v} \subseteq VerticesOf(edges)
         /\ d.weight = timing(inst_window, d.v) - timing(inst_window, d.u)
         /\ d.weight >= 0
         /\ \A j \in DOMAIN Graph \ {Len(edges) + k} : <<Graph[j].u, Graph[j].v>> # <<d.u, d.v>>

(* the sum of the lines of a report *)
ReportSum(by) == MapThenSumSet(LAMBDA b : by[b], Bottlenecks)

(***************************************************************************)
(* The critical path of a report runs from the first fetch to the commit   *)
(* of the last instruction, never back in time, and the contributions of   *)
(* the bottlenecks add up to the time the trace took.                      *)
(***************************************************************************)
ReportAccountsForTheTrace ==
  report # NoReport =>
    LET path == report.path
    IN  /\ pc = "done"
        /\ path[1] = Source /\ path[Len(path)] = Sink
        /\ \A k \in 1 .. Len(path) - 1 :
              timing(inst_window, path[k]) <= timing(inst_window, path[k + 1])
        /\ ReportSum(report.by) = GoldenLength

(***************************************************************************)
(* The only ways an analysis ends the program: no interaction of the trace *)
(* costs anything (the longest path is empty), the window is full and its  *)
(* last instruction not yet modelled, or the trace holds a load that       *)
(* waited for its data.  It never misses an edge of its own critical path. *)
(***************************************************************************)
FailuresExplained ==
  /\ status = "crash" => \A k \in DOMAIN edges : edges[k].cost = 0
  /\ status = "no_sink" => inst_seq % WINDOW = 0 /\ Len(inst_window) = inst_seq - 1
  /\ status = "assert" => \E k \in DOMAIN edges : IsLoadCommit(inst_window, edges[k])
  /\ status # "no_edge"

(***************************************************************************)
(* The length of the critical path is the time of the whole trace: what    *)
(* profiling_critical_path asserts of every analysis (golden_length ==     *)
(* length).                                                                *)
(***************************************************************************)
GoldenLengthHolds == status # "assert"

(***************************************************************************)
(* An analysis finds the commit of the last instruction read: what         *)
(* get_sink_vertex requires of the graph it is called on.                  *)
(***************************************************************************)
SinkIsFound == status # "no_sink"
=============================================================================
