--------------------------------- MODULE DEG ---------------------------------
(***************************************************************************)
(* The dynamic event-dependence graph of a trace (infras/deg/src/graph):   *)
(* the vertices of an instruction, the horizontal edges O3Graph::model     *)
(* adds along its pipeline, and the skewed edges model_interaction adds    *)
(* from older instructions to it.                                          *)
(*                                                                         *)
(* A vertex is <<inst_seq, stage>>.  The graph is the sequence of its      *)
(* edges in the order add_edge was called: graph[u] is the subsequence of  *)
(* the edges that leave u, pred[v] that of the edges that enter v (every   *)
(* outgoing add_edge is followed by its ingoing one), inst_to_vertex the   *)
(* vertices that some edge leaves.                                         *)
(***************************************************************************)
EXTENDS RiscvInstruction, Sequences

Stages == {"F1", "F2", "F", "F2F", "D", "R", "DS", "I", "DI", "M", "P", "MP", "C"}

(* enum VertexType *)
Rank == [F1 |-> 0, F2 |-> 1, F |-> 2, F2F |-> 3, D |-> 4, R |-> 5, DS |-> 6,
         I |-> 7, DI |-> 8, M |-> 9, P |-> 10, MP |-> 11, C |-> 12]

CacheHitLatency == 2            \* icache_hit_latency, dcache_int_latency

Bottlenecks == {"Base", "IcacheMiss", "DcacheMiss", "BPMiss", "ROB", "LQ", "SQ",
                "IntRF", "FpRF", "IQ", "IntALU", "IntMultDiv", "FpAlu",
                "FpMultDiv", "RdWrPort", "RAW", "Virtual"}

Vertex == (Nat \ {0}) \X Stages
Edge   == [u : Vertex, v : Vertex, weight : Int, cost : Int, bottleneck : Bottlenecks]

(* VERTEX::set_timing *)
Timing(i, stage) ==
  CASE stage = "F1" -> i.fetch_cache_line
    [] stage = "F2" -> i.process_cache_completion
    [] stage \in {"F", "F2F"} -> i.fetch
    [] stage = "D" -> i.decode
    [] stage = "R" -> i.rename
    [] stage = "DS" -> i.dispatch
    [] stage \in {"I", "DI"} -> i.issue
    [] stage \in {"M", "MP"} -> i.memory
    [] stage = "P" -> IF is_load(i) THEN i.complete_memory ELSE i.complete
    [] stage = "C" -> i.commit

-----------------------------------------------------------------------------
(***************************************************************************)
(* O3Graph::model.  Two events of the same tick are one merged vertex:     *)
(* F2 and F, dispatch and issue, and the access and completion of a load.  *)
(* A store always merges them.                                             *)
(***************************************************************************)
FrontEnd(i) == IF i.process_cache_completion = i.fetch
               THEN <<"F1", "F2F", "D", "R">>
               ELSE <<"F1", "F2", "F", "D", "R">>
Window(i)   == IF i.dispatch = i.issue THEN <<"DI">> ELSE <<"DS", "I">>
BackEnd(i)  == IF is_store(i) \/ (is_load(i) /\ i.memory = i.complete_memory)
               THEN <<"MP", "C">>
               ELSE IF is_load(i) THEN <<"M", "P", "C">> ELSE <<"P", "C">>

Pipeline(i) == FrontEnd(i) \o Window(i) \o BackEnd(i)

(* the weight from_<a>_to_<b> gives a horizontal edge *)
HorizontalWeight(i, a, b) ==
  CASE b \in {"F2", "F2F"} -> i.process_cache_completion - i.fetch_cache_line
    [] b = "F" -> i.fetch - i.process_cache_completion
    [] b = "D" -> i.decode - i.fetch
    [] b = "R" -> i.rename - i.decode
    [] b = "DI" -> i.issue - i.rename
    [] b = "DS" -> i.dispatch - i.rename
    [] b = "I" -> i.issue - i.dispatch
    [] b = "M" -> i.memory - i.issue
    [] b = "MP" -> IF a = "DI" THEN i.memory - i.dispatch ELSE i.complete - i.issue
    [] b = "P" -> IF a = "M" THEN i.complete_memory - i.memory
                             ELSE i.complete - i.issue
    [] b = "C" -> i.commit - i.complete

(* variant: the cause of most edges is left unset *)
HorizontalBottleneck_Unset(a, b, weight) ==
  IF b \in {"F2", "F2F"} THEN "IcacheMiss" ELSE IF a = "M" THEN "DcacheMiss" ELSE ""

(* the bottleneck from_<a>_to_<b> gives a horizontal edge *)
HorizontalBottleneck(a, b, weight) ==
  IF weight = CacheHitLatency THEN "Base"
  ELSE IF b \in {"F2", "F2F"} THEN "IcacheMiss"
  ELSE IF a = "M" THEN "DcacheMiss"
  ELSE "Base"

(* O3Graph::model(inst): the chain of horizontal edges, which cost nothing *)
Horizontal(i, seq) ==
  LET p == Pipeline(i)
  IN  [k \in 1 .. Len(p) - 1 |->
         LET w == HorizontalWeight(i, p[k], p[k+1])
         IN  [u |-> <<seq, p[k]>>, v |-> <<seq, p[k+1]>>, weight |-> w, cost |-> 0,
              bottleneck |-> HorizontalBottleneck(p[k], p[k+1], w)]]

-----------------------------------------------------------------------------
(***************************************************************************)
(* O3Graph::get_vertex_from_inst: the vertex of an event of instruction    *)
(* seq, or the vertex it was merged into.  w is the sequence of the        *)
(* instructions read so far, oldest first.                                 *)
(***************************************************************************)
Merged(stage) ==
  CASE stage \in {"F2", "F"} -> "F2F"
    [] stage \in {"DS", "I"} -> "DI"
    [] stage \in {"M", "P"} -> "MP"
    [] OTHER -> stage

PipelineStages(i) == {Pipeline(i)[k] : k \in DOMAIN Pipeline(i)}

(* variant: the merged vertices are not looked up *)
get_vertex_from_inst_Unmerged(w, seq, stage) == <<seq, stage>>

get_vertex_from_inst(w, seq, stage) ==
  <<seq, IF stage \in PipelineStages(w[seq]) THEN stage ELSE Merged(stage)>>

(***************************************************************************)
(* The younger end of every interaction is the newest instruction,         *)
(* seq = Len(w).  inst_window is searched from the newest instruction      *)
(* backwards and the search stops at the first match.                      *)
(***************************************************************************)
Nearest(S) == CHOOSE k \in S : \A j \in S : j <= k

Skewed(u, v, weight, bottleneck) ==
  <<[u |-> u, v |-> v, weight |-> weight, cost |-> weight, bottleneck |-> bottleneck]>>

(* variant: the weight is counted from the dispatch of the older instruction *)
RenameEdge_FromDispatch(w, S, bottleneck) ==
  IF S = {} THEN <<>>
  ELSE LET seq == Len(w)
           k   == Nearest(S)
       IN  Skewed(get_vertex_from_inst(w, k, "R"), get_vertex_from_inst(w, seq, "R"),
                  w[seq].rename - w[k].dispatch, bottleneck)

(* the edge R -> R from the nearest instruction of S, if there is one *)
RenameEdge(w, S, bottleneck) ==
  IF S = {} THEN <<>>
  ELSE LET seq == Len(w)
           k   == Nearest(S)
       IN  Skewed(get_vertex_from_inst(w, k, "R"), get_vertex_from_inst(w, seq, "R"),
                  w[seq].rename - w[k].rename, bottleneck)

(* the edge I -> I from the nearest instruction of S, if there is one *)
IssueEdge(w, S, Bottleneck(_, _)) ==
  IF S = {} THEN <<>>
  ELSE LET seq == Len(w)
           k   == Nearest(S)
           d   == w[seq].issue - w[k].issue
       IN  Skewed(get_vertex_from_inst(w, k, "I"), get_vertex_from_inst(w, seq, "I"),
                  d, Bottleneck(k, d))

(* variant: the instruction enters inst_window before it is compared with it *)
Older_AndItself(w) == 1 .. Len(w)

Older(w) == 1 .. Len(w) - 1

model_miss_bp_interaction(w) ==
  LET seq == Len(w)  prev == w[seq - 1]
  IN  IF prev.control /\ prev.complete < w[seq].fetch_cache_line
      THEN Skewed(get_vertex_from_inst(w, seq - 1, "P"),
                  get_vertex_from_inst(w, seq, "F1"),
                  w[seq].fetch_cache_line - prev.complete, "BPMiss")
      ELSE <<>>

model_rob_interaction(w) ==
  LET inst == w[Len(w)]
  IN  RenameEdge(w, {k \in Older(w) : "rob" \in inst.block /\ w[k].rob = inst.rob}, "ROB")

model_lq_interaction(w) ==
  LET inst == w[Len(w)]
  IN  RenameEdge(w, {k \in Older(w) : "lq" \in inst.block /\ is_load(inst)
                                        /\ w[k].lq = inst.lq}, "LQ")

model_sq_interaction(w) ==
  LET inst == w[Len(w)]
  IN  RenameEdge(w, {k \in Older(w) : "sq" \in inst.block /\ is_store(inst)
                                        /\ w[k].sq = inst.sq}, "SQ")

(* the register file of an instruction that uses neither is not modelled *)
model_rf_interaction(w) ==
  LET inst == w[Len(w)]
  IN  RenameEdge(w, {k \in Older(w) : "rf" \in inst.block
                                        /\ (use_int_rf(inst) \/ use_fp_rf(inst))
                                        /\ (war_dep(inst, w[k]) \/ wrw_dep(inst, w[k]))},
                 IF use_int_rf(inst) THEN "IntRF" ELSE "FpRF")

model_iq_interaction(w) ==
  LET inst == w[Len(w)]
  IN  RenameEdge(w, {k \in Older(w) : "iq" \in inst.block /\ w[k].iq = inst.iq}, "IQ")

(* use_int_alu, use_int_mult_div, use_fp_alu, use_fp_mult_div, use_rd_wr_port *)
FunctionalUnit(i) ==
  CASE i.inst_type = "IntAlu" -> "IntALU"
    [] i.inst_type \in {"IntMult", "IntDiv"} -> "IntMultDiv"
    [] i.inst_type \in FpAluTypes -> "FpAlu"
    [] i.inst_type \in FpMulTypes -> "FpMultDiv"
    [] OTHER -> "RdWrPort"

(* variant: the older instruction may issue after the younger one *)
HoldsUnit_AnyOrder(old, inst) ==
  /\ old.fu = inst.fu
  /\ \/ is_load(inst) /\ old.complete_memory >= inst.issue
     \/ old.complete >= inst.issue

(* the older instruction still holds the functional unit when inst issues *)
HoldsUnit(old, inst) ==
  /\ old.fu = inst.fu
  /\ old.issue < inst.issue
  /\ \/ is_load(inst) /\ old.complete_memory >= inst.issue
     \/ old.complete >= inst.issue

model_fu_interaction(w) ==
  LET inst == w[Len(w)]
      Unit(k, d) == FunctionalUnit(inst)
  IN  IssueEdge(w, {k \in Older(w) : /\ inst.issue > inst.insert_ready_list
                                     /\ inst.inst_type # "NoOpClass"
                                     /\ HoldsUnit(w[k], inst)},
                Unit)

(***************************************************************************)
(* The search for the producer.  The inner loop tests the same prev on     *)
(* each of its CONST turns, so the first producer found is the dependence; *)
(* its completion tick is positive for every executed instruction.         *)
(***************************************************************************)
RawProducers(w) ==
  LET inst == w[Len(w)]
  IN  {k \in Older(w) : inst.insert_ready_list > inst.dispatch /\ raw_dep(inst, w[k])}

model_raw_interaction(w) ==
  LET Cause(k, d) == IF ~is_load(w[k]) THEN "RAW"
                     ELSE IF d = CacheHitLatency THEN "Base" ELSE "DcacheMiss"
  IN  IssueEdge(w, RawProducers(w), Cause)

(* O3Graph::model_interaction_impl on the newest instruction of w *)
Interaction(w) ==
  IF Len(w) <= 1 THEN <<>>
  ELSE model_miss_bp_interaction(w) \o model_rob_interaction(w)
         \o model_lq_interaction(w) \o model_sq_interaction(w)
         \o model_rf_interaction(w) \o model_iq_interaction(w)
         \o model_fu_interaction(w) \o model_raw_interaction(w)

-----------------------------------------------------------------------------
(***************************************************************************)
(* What an edge of the graph of the instructions w should be.              *)
(***************************************************************************)
timing(w, x) == Timing(w[x[1]], x[2])

(* it leads to a younger instruction, or to a later stage of the same one *)
IsForward(d) == \/ d.u[1] < d.v[1]
                \/ d.u[1] = d.v[1] /\ Rank[d.u[2]] < Rank[d.v[2]]

(* its ends are in the pipelines of instructions of w *)
IsAttached(w, d) == \A x \in {d.u, d.v} : x[1] \in DOMAIN w /\ x[2] \in PipelineStages(w[x[1]])

(* the edge of from_p_to_c for a load that waited for its data *)
IsLoadCommit(w, d) == d.u[2] = "P" /\ d.v[2] = "C" /\ is_load(w[d.u[1]])

(* its weight is the time between its ends *)
MeasuresTime(w, d) == IsLoadCommit(w, d) \/ d.weight = timing(w, d.v) - timing(w, d.u)

IsNonNegative(d) == d.weight >= 0 /\ d.cost >= 0
=============================================================================
