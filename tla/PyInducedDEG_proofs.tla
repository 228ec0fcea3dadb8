------------------------- MODULE PyInducedDEG_proofs -------------------------
(***************************************************************************)
(* The threads of the Python analysis implement InducedGraph, for every    *)
(* set of traces, and the virtual edges they add lead forward and are      *)
(* those of the rules, whatever the schedule.  As long as no thread        *)
(* changes the graph under the main thread the analysis fails only when    *)
(* nothing costs anything, and its path is a most expensive one.           *)
(***************************************************************************)
EXTENDS PyInducedDEG, DEG_proofs, FiniteSetTheorems

(* the skewed edges that end in the newest instruction of w *)
NewestEdges(w) == {d \in SkewedEdges(w) : d.v[1] = Len(w) /\ d.v[2] # "C"}

(* w is the part of the trace t that has been read *)
ReadFrom(w, t) ==
  /\ w \in Seq(Instruction) /\ Len(w) <= Len(t)
  /\ \A k \in DOMAIN w : w[k] = t[k]

(* a trace whose instructions are fetched and committed in order *)
IsInOrder(w) ==
  /\ IsTrace(w)
  /\ \A k, j \in DOMAIN w : k < j => /\ w[k].fetch_cache_line <= w[j].fetch_cache_line
                                     /\ w[k].commit <= w[j].commit

(***************************************************************************)
(* What has been read of a well-formed trace could be a trace.             *)
(***************************************************************************)
LEMMA PrefixIsTrace ==
  ASSUME NEW t, WellFormed(t), NEW w, ReadFrom(w, t)
  PROVE  IsInOrder(w)
PROOF
  <1>1. w \in Seq(Instruction) /\ t \in Seq(Instruction) /\ Len(w) \in Nat /\ Len(t) \in Nat
    BY DEF WellFormed, ReadFrom
  <1>2. ASSUME NEW j \in DOMAIN w, NEW k \in DOMAIN w, k < j
        PROVE  /\ Executed(w[j])
               /\ w[k].rename <= w[j].rename
               /\ w[k].fetch_cache_line <= w[j].fetch_cache_line
               /\ w[k].commit <= w[j].commit
               /\ raw_dep(w[j], w[k]) => w[k].issue <= w[j].issue
    <2> DEFINE s == SubSeq(t, 1, j - 1)
    <2>1. j \in DOMAIN t /\ k \in 1 .. j - 1 /\ j \in Nat
      BY <1>1, <1>2 DEF ReadFrom
    <2>2. Executed(t[j]) /\ Follows(s, t[j])
      BY <2>1 DEF WellFormed
    <2>3. k \in DOMAIN s /\ s[k] = t[k]
      BY <1>1, <2>1
    <2> HIDE DEF s
    <2>4. t[k] = w[k] /\ t[j] = w[j]
      BY DEF ReadFrom
    <2> QED BY <2>2, <2>3, <2>4 DEF Follows
  <1>3. \A j \in DOMAIN w : Executed(w[j])
    BY <1>1 DEF WellFormed, ReadFrom
  <1> QED BY <1>1, <1>2, <1>3 DEF IsTrace, IsInOrder

(***************************************************************************)
(* The searches of the interactions end in the newest instruction.         *)
(***************************************************************************)
LEMMA SkewedIsNewest ==
  ASSUME NEW w, NEW u, NEW s \in {"F1", "R", "I"}, NEW weight, NEW cause,
         Skewed(u, get_vertex_from_inst(w, Len(w), s), weight, cause) \in Seq(SkewedEdges(w))
  PROVE  Skewed(u, get_vertex_from_inst(w, Len(w), s), weight, cause) \in Seq(NewestEdges(w))
PROOF
  <1> DEFINE v == get_vertex_from_inst(w, Len(w), s)
             d == [u |-> u, v |-> v, weight |-> weight, cost |-> weight, bottleneck |-> cause]
  <1>1. v[1] = Len(w) /\ v[2] # "C"
    BY DEF get_vertex_from_inst, Merged
  <1>2. Skewed(u, v, weight, cause) = <<d>> /\ d.v = v
    BY DEF Skewed
  <1> HIDE DEF v, d
  <1>3. d \in SkewedEdges(w)
    <2>1. <<d>> \in Seq(SkewedEdges(w))
      BY <1>2 DEF v
    <2> QED BY <2>1
  <1>4. d \in NewestEdges(w)
    BY <1>1, <1>2, <1>3 DEF NewestEdges
  <1>5. <<d>> \in Seq(NewestEdges(w))
    BY <1>4
  <1> QED BY <1>2, <1>5 DEF v

LEMMA RenameIsNewest ==
  ASSUME NEW w, IsTrace(w), NEW S \in SUBSET Older(w), NEW cause \in Bottlenecks
  PROVE  RenameEdge(w, S, cause) \in Seq(NewestEdges(w))
PROOF
  <1>1. RenameEdge(w, S, cause) \in Seq(SkewedEdges(w))
    BY RenameEdgeIsSound
  <1>2. CASE S = {}
    BY <1>2, EmptySeq DEF RenameEdge
  <1>3. CASE S # {}
    BY <1>1, <1>3, SkewedIsNewest DEF RenameEdge
  <1> QED BY <1>2, <1>3

LEMMA InteractionsAreNewest ==
  ASSUME NEW w, IsTrace(w)
  PROVE  Interactions(w) \in Seq(NewestEdges(w))
PROOF
  <1> DEFINE E == Seq(NewestEdges(w))
  <1>1. CASE Len(w) <= 1
    BY <1>1, EmptySeq DEF Interactions
  <1>2. CASE Len(w) > 1
    <2>1. {"ROB", "LQ", "SQ", "IntRF", "FpRF", "IQ"} \subseteq Bottlenecks
      BY DEF Bottlenecks
    <2>2. model_rob_interaction(w) \in E
      BY <2>1, RenameIsNewest DEF model_rob_interaction
    <2>3. model_lq_interaction(w) \in E
      BY <2>1, RenameIsNewest DEF model_lq_interaction
    <2>4. model_sq_interaction(w) \in E
      BY <2>1, RenameIsNewest DEF model_sq_interaction
    <2>5. RfInteraction(w) \in E
      BY <2>1, RenameIsNewest DEF RfInteraction
    <2>6. model_iq_interaction(w) \in E
      BY <2>1, RenameIsNewest DEF model_iq_interaction
    <2>7. model_miss_bp_interaction(w) \in E
      <3>1. model_miss_bp_interaction(w) \in Seq(SkewedEdges(w))
        BY <1>2, MissBpIsSound
      <3> QED BY <3>1, SkewedIsNewest, EmptySeq DEF model_miss_bp_interaction
    <2>8. model_fu_interaction(w) \in E
      <3>1. model_fu_interaction(w) \in Seq(SkewedEdges(w))
        BY <1>2, FuIsSound
      <3> QED BY <3>1, SkewedIsNewest, EmptySeq DEF model_fu_interaction, IssueEdge
    <2>9. model_raw_interaction(w) \in E
      <3>1. model_raw_interaction(w) \in Seq(SkewedEdges(w))
        BY <1>2, RawIsSound
      <3> QED BY <3>1, SkewedIsNewest, EmptySeq DEF model_raw_interaction, IssueEdge
    <2>10. \A s, t \in E : s \o t \in E
      BY ConcatProperties
    <2>11. ~(Len(w) <= 1)
      BY <1>2 DEF IsTrace
    <2>12. Interactions(w) = model_miss_bp_interaction(w) \o model_rob_interaction(w)
             \o model_lq_interaction(w) \o model_sq_interaction(w)
             \o RfInteraction(w) \o model_iq_interaction(w)
             \o model_fu_interaction(w) \o model_raw_interaction(w)
      BY <2>11, Zenon DEF Interactions
    <2> HIDE DEF E
    <2>13. Interactions(w) \in E
      <3> DEFINE e1 == model_miss_bp_interaction(w) \o model_rob_interaction(w)
                 e2 == e1 \o model_lq_interaction(w)
                 e3 == e2 \o model_sq_interaction(w)
                 e4 == e3 \o RfInteraction(w)
                 e5 == e4 \o model_iq_interaction(w)
                 e6 == e5 \o model_fu_interaction(w)
                 e7 == e6 \o model_raw_interaction(w)
      <3>1. e1 \in E   BY <2>2, <2>7, <2>10
      <3> HIDE DEF e1
      <3>2. e2 \in E   BY <2>3, <2>10, <3>1
      <3> HIDE DEF e2
      <3>3. e3 \in E   BY <2>4, <2>10, <3>2
      <3> HIDE DEF e3
      <3>4. e4 \in E   BY <2>5, <2>10, <3>3
      <3> HIDE DEF e4
      <3>5. e5 \in E   BY <2>6, <2>10, <3>4
      <3> HIDE DEF e5
      <3>6. e6 \in E   BY <2>8, <2>10, <3>5
      <3> HIDE DEF e6
      <3>7. e7 \in E   BY <2>9, <2>10, <3>6
      <3> QED BY <2>12, <3>7, Zenon DEF e1, e2, e3, e4, e5, e6
    <2> QED BY <2>13 DEF E
  <1>3. Len(w) <= 1 \/ Len(w) > 1
    BY DEF IsTrace
  <1> QED BY <1>1, <1>2, <1>3

-----------------------------------------------------------------------------
(* the vertices of the instructions w *)
Events(w) == {x \in Vertex : x[1] \in DOMAIN w /\ x[2] \in PipelineStages(w[x[1]])}

(***************************************************************************)
(* The events of an instruction happen between its fetch and its commit,   *)
(* and both are vertices of its pipeline.                                  *)
(***************************************************************************)
LEMMA StageTime ==
  ASSUME NEW i \in Instruction, Executed(i), NEW s \in PipelineStages(i)
  PROVE  /\ Timing(i, s) \in Nat
         /\ i.fetch_cache_line <= Timing(i, s) /\ Timing(i, s) <= i.commit
PROOF
  <1> DEFINE p == Pipeline(i)
  <1>1. /\ p \in Seq(Stages) /\ Len(p) \in 7 .. 10
        /\ \A k \in 1 .. Len(p) - 1 : IsStep(i, p[k], p[k+1])
    BY PipelineIs
  <1>2. PICK k \in DOMAIN p : s = p[k]
    BY DEF PipelineStages
  <1>3. s \in Stages
    <2> HIDE DEF p
    <2> QED BY <1>1, <1>2
  <1>4. (\E b : IsStep(i, s, b)) \/ (\E a : IsStep(i, a, s))
    <2> HIDE DEF p
    <2>0. PICK m \in 7 .. 10 : Len(p) = m
      BY <1>1
    <2>1. k \in 1 .. Len(p) - 1 \/ (k - 1 \in 1 .. Len(p) - 1 /\ k = (k - 1) + 1)
      <3>1. k \in 1 .. m
        BY <1>1, <1>2, <2>0
      <3>2. k \in 1 .. m - 1 \/ (k - 1 \in 1 .. m - 1 /\ k = (k - 1) + 1)
        BY <3>1
      <3> QED BY <2>0, <3>2
    <2> QED BY <1>1, <1>2, <2>1
  <1>5. s \in {"M", "MP"} => is_mem(i)
    BY <1>4, BackEndIs DEF IsStep, is_mem
  <1>6. /\ i.fetch_cache_line \in Nat /\ i.process_cache_completion \in Nat
        /\ i.fetch \in Nat /\ i.decode \in Nat /\ i.rename \in Nat /\ i.dispatch \in Nat
        /\ i.issue \in Nat /\ i.complete \in Nat /\ i.commit \in Nat /\ i.memory \in Nat
        /\ i.complete_memory \in Nat /\ i.insert_ready_list \in Nat
    BY DEF Instruction
  <1>7. /\ i.fetch_cache_line <= i.process_cache_completion
        /\ i.process_cache_completion <= i.fetch
        /\ i.fetch <= i.decode /\ i.decode <= i.rename
        /\ i.rename <= i.dispatch /\ i.dispatch <= i.issue
        /\ i.issue <= i.complete /\ i.complete <= i.commit
        /\ is_mem(i) => i.memory = i.complete
        /\ is_load(i) => /\ i.memory <= i.complete_memory
                         /\ i.complete_memory <= i.commit
                         /\ is_mem(i)
    BY <1>6 DEF Executed, is_mem
  <1>8. CASE s \in {"F1", "F2", "F", "F2F", "D", "R"}
    <2>1. \/ s = "F1" /\ Timing(i, s) = i.fetch_cache_line
          \/ s = "F2" /\ Timing(i, s) = i.process_cache_completion
          \/ s \in {"F", "F2F"} /\ Timing(i, s) = i.fetch
          \/ s = "D" /\ Timing(i, s) = i.decode
          \/ s = "R" /\ Timing(i, s) = i.rename
      BY <1>8 DEF Timing
    <2> QED BY <1>6, <1>7, <2>1
  <1>9. CASE s \in {"DS", "I", "DI", "C"}
    <2>1. \/ s = "DS" /\ Timing(i, s) = i.dispatch
          \/ s \in {"I", "DI"} /\ Timing(i, s) = i.issue
          \/ s = "C" /\ Timing(i, s) = i.commit
      BY <1>9 DEF Timing
    <2> QED BY <1>6, <1>7, <2>1
  <1>10. CASE s \in {"M", "MP"}
    <2>1. Timing(i, s) = i.memory
      BY <1>10 DEF Timing
    <2> QED BY <1>5, <1>6, <1>7, <1>10, <2>1
  <1>11. CASE s = "P"
    <2>1. Timing(i, s) = IF is_load(i) THEN i.complete_memory ELSE i.complete
      BY <1>11 DEF Timing
    <2> QED BY <1>6, <1>7, <2>1
  <1> QED BY <1>3, <1>8, <1>9, <1>10, <1>11 DEF Stages

(* an event of a trace has a time *)
LEMMA EventIsTimed ==
  ASSUME NEW w, IsTrace(w), NEW x \in Events(w)
  PROVE  timing(w, x) \in Nat
PROOF
  <1>1. x[1] \in DOMAIN w /\ x[2] \in PipelineStages(w[x[1]])
    BY DEF Events
  <1>2. w[x[1]] \in Instruction /\ Executed(w[x[1]])
    BY <1>1 DEF IsTrace
  <1> QED BY <1>1, <1>2, StageTime DEF timing

(* what the graph of the instructions w may hold *)
IsGraph(g, w) == /\ DOMAIN g \subseteq Events(w) \X Events(w)
                 /\ \A p \in DOMAIN g : g[p] \in Label

(* a pair that an interaction may join *)
IsDependence(w, p) ==
  /\ p[1][1] < p[2][1] /\ timing(w, p[1]) <= timing(w, p[2])
  /\ p[1][2] \in TailStages /\ p[2][2] \in HeadStages

(* y is of a younger instruction than x, or of a later stage of the same one *)
Lower(x, y) == x[1] < y[1] \/ (x[1] = y[1] /\ Rank[x[2]] < Rank[y[2]])

(* the edge p of g leads forward, its delay is the time between its ends, and *)
(* its cost is not negative                                                *)
IsTimed(g, w, p) ==
  /\ g[p].delay = timing(w, p[2]) - timing(w, p[1])
  /\ g[p].cost >= 0 /\ Lower(p[1], p[2])
  /\ g[p].virtual => g[p].cost = 0

(* the pipeline of the instruction i, which is the n-th, is a path of g *)
HasPipeline(g, i, n) ==
  \A k \in 1 .. Len(Pipeline(i)) - 1 :
     <<<<n, Pipeline(i)[k]>>, <<n, Pipeline(i)[k + 1]>>>> \in DOMAIN g

(* an edge that the newest instruction of w brings *)
IsNew(h, w, p) == /\ p \in Events(w) \X Events(w) /\ p[2][1] = Len(w)
                  /\ h[p] \in Label /\ ~h[p].virtual /\ IsTimed(h, w, p)
                  /\ p[1][1] # p[2][1] => IsDependence(w, p)

(***************************************************************************)
(* The delay of a horizontal edge is the time between its two events, also *)
(* for the edges into M/P and into C that differ from the C++ graph.       *)
(***************************************************************************)
LEMMA DelayIsTime ==
  ASSUME NEW i \in Instruction, Executed(i), NEW a, NEW b, IsStep(i, a, b), SoundStep(i, a, b)
  PROVE  Delay(i, a, b) \in Int /\ Delay(i, a, b) = Timing(i, b) - Timing(i, a)
PROOF
  <1>1. /\ i.memory \in Nat /\ i.complete \in Nat /\ i.dispatch \in Nat /\ i.issue \in Nat
        /\ i.complete_memory \in Nat /\ i.commit \in Nat
        /\ is_mem(i) => i.memory = i.complete
    BY DEF Instruction, Executed
  <1>2. a \in Stages /\ b \in Stages
    BY DEF SoundStep
  <1>3. CASE b = "MP"
    <2>1. Delay(i, a, b) =
            IF a = "DI" THEN (IF is_store(i) THEN i.memory ELSE i.complete) - i.dispatch
            ELSE (IF is_store(i) THEN i.complete ELSE i.complete_memory) - i.issue
      BY <1>3, Zenon DEF Delay
    <2>2. Timing(i, b) = i.memory
      BY <1>3 DEF Timing
    <2>3. BackEnd(i)[1] = "MP" /\ (a = "I" \/ (a = "DI" /\ i.dispatch = i.issue))
      BY <1>3 DEF IsStep
    <2>4. is_store(i) \/ (is_load(i) /\ i.memory = i.complete_memory)
      BY <2>3 DEF BackEnd
    <2>5. is_mem(i)
      BY <2>4 DEF is_mem
    <2>6. Timing(i, a) = i.issue
      BY <2>3 DEF Timing
    <2> QED BY <1>1, <2>1, <2>2, <2>3, <2>4, <2>5, <2>6
  <1>4. CASE b = "C"
    <2>1. Delay(i, a, b) =
            i.commit - IF a = "P" /\ is_load(i) THEN i.complete_memory ELSE i.complete
      BY <1>4, Zenon DEF Delay
    <2>2. Timing(i, b) = i.commit
      BY <1>4 DEF Timing
    <2>3. (a = "MP" /\ is_mem(i)) \/ a = "P"
      BY <1>4, BackEndIs DEF IsStep
    <2>4. a = "MP" => Timing(i, a) = i.memory
      BY DEF Timing
    <2>5. a = "P" => Timing(i, a) = IF is_load(i) THEN i.complete_memory ELSE i.complete
      BY DEF Timing
    <2> QED BY <1>1, <2>1, <2>2, <2>3, <2>4, <2>5
  <1>5. CASE b # "MP" /\ b # "C"
    <2>1. Delay(i, a, b) = HorizontalWeight(i, a, b)
      BY <1>5, Zenon DEF Delay
    <2> QED BY <1>5, <2>1 DEF SoundStep
  <1> QED BY <1>3, <1>4, <1>5

(***************************************************************************)
(* Graph.model adds edges of the newest instruction and keeps the others.  *)
(***************************************************************************)
LEMMA ModelAddsNewest ==
  ASSUME NEW w, IsTrace(w), Len(w) \in DOMAIN w, NEW g
  PROVE  LET h == model(g, w)
         IN  /\ DOMAIN g \subseteq DOMAIN h
             /\ \A p \in DOMAIN h : (p \in DOMAIN g /\ h[p] = g[p]) \/ IsNew(h, w, p)
             /\ HasPipeline(h, w[Len(w)], Len(w))
PROOF
  <1> DEFINE n == Len(w)
             i == w[n]
             p == Pipeline(i)
             At == [k \in 1 .. Len(p) - 1 |-> <<<<n, p[k]>>, <<n, p[k + 1]>>>>]
             D(q) == Delay(i, q[1][2], q[2][2])
             StepLabel(q) == [delay |-> D(q), cost |-> 0,
                         bottleneck |-> Cause(i, q[1][2], q[2][2], D(q)), virtual |-> FALSE]
             New == {At[k] : k \in DOMAIN At}
             h == model(g, w)
  <1>1. i \in Instruction /\ Executed(i) /\ n \in Nat \ {0}
    BY DEF IsTrace
  <1>2. /\ p \in Seq(Stages) /\ Len(p) \in 7 .. 10
        /\ \A k \in 1 .. Len(p) - 1 : IsStep(i, p[k], p[k+1])
    <2> HIDE DEF i
    <2> QED BY <1>1, PipelineIs
  <1>3. h = [q \in DOMAIN g \cup New |-> IF q \in New THEN StepLabel(q) ELSE g[q]]
    BY DEF model
  <1>4. ASSUME NEW q \in New
        PROVE  /\ q \in Events(w) \X Events(w) /\ q[2][1] = n /\ q[1][1] = n
               /\ StepLabel(q) \in Label /\ ~StepLabel(q).virtual
               /\ StepLabel(q).delay = timing(w, q[2]) - timing(w, q[1])
               /\ StepLabel(q).cost = 0 /\ Lower(q[1], q[2])
    <2>1. PICK k \in 1 .. Len(p) - 1 : q = <<<<n, p[k]>>, <<n, p[k + 1]>>>>
      OBVIOUS
    <2> DEFINE a == p[k]
               b == p[k + 1]
    <2>2. k \in DOMAIN p /\ k + 1 \in DOMAIN p /\ a \in Stages /\ b \in Stages
      <3> HIDE DEF p
      <3> QED BY <1>2
    <2>3. a \in PipelineStages(i) /\ b \in PipelineStages(i)
      BY <2>2 DEF PipelineStages
    <2>4. IsStep(i, a, b) /\ SoundStep(i, a, b)
      <3> HIDE DEF i, p
      <3> QED BY <1>1, <1>2, StepIsSound
    <2> HIDE DEF i, p, a, b
    <2>5. q = <<<<n, a>>, <<n, b>>>>
      BY <2>1 DEF a, b
    <2>6. <<n, a>> \in Events(w) /\ <<n, b>> \in Events(w)
      BY <1>1, <2>2, <2>3 DEF Events, Vertex, i
    <2>7. Delay(i, a, b) \in Int /\ Delay(i, a, b) = Timing(i, b) - Timing(i, a)
      <3> HIDE DEF a, b
      <3> QED BY <1>1, <2>4, DelayIsTime
    <2>8. Cause(i, a, b, Delay(i, a, b)) \in Bottlenecks
      BY DEF Cause, HorizontalBottleneck, Bottlenecks
    <2>9. D(q) = Delay(i, a, b) /\ Cause(i, q[1][2], q[2][2], D(q)) \in Bottlenecks
      BY <2>5, <2>8
    <2> HIDE DEF D
    <2>10. StepLabel(q) \in Label
      BY <2>7, <2>9 DEF Label
    <2>11. ~StepLabel(q).virtual /\ StepLabel(q).cost = 0 /\ StepLabel(q).delay = D(q)
      OBVIOUS
    <2>12. timing(w, q[2]) = Timing(i, b) /\ timing(w, q[1]) = Timing(i, a)
      BY <2>5 DEF timing, i
    <2>13. Lower(q[1], q[2])
      BY <2>4, <2>5 DEF SoundStep, Lower
    <2> HIDE DEF StepLabel
    <2> QED BY <2>5, <2>6, <2>7, <2>9, <2>10, <2>11, <2>12, <2>13
  <1>8. \A k \in 1 .. Len(p) - 1 : <<<<n, p[k]>>, <<n, p[k + 1]>>>> \in New
    <2> HIDE DEF p, n
    <2> QED OBVIOUS
  <1> HIDE DEF New, StepLabel, h, i, p
  <1>5. ASSUME NEW q \in New PROVE IsNew(h, w, q)
    <2>1. h[q] = StepLabel(q)
      BY <1>3, <1>5
    <2> QED BY <1>4, <1>5, <2>1 DEF IsNew, IsTimed
  <1>6. DOMAIN h = DOMAIN g \cup New
    BY <1>3
  <1>7. ASSUME NEW q \in DOMAIN g, q \notin New PROVE h[q] = g[q]
    BY <1>3, <1>7
  <1>9. HasPipeline(h, i, n)
    BY <1>6, <1>8 DEF HasPipeline, p
  <1> QED BY <1>5, <1>6, <1>7, <1>9 DEF h, i

(***************************************************************************)
(* Graph.model_interaction adds edges that end in the newest instruction,  *)
(* and keeps the others.                                                   *)
(***************************************************************************)
LEMMA InteractionAddsNewest ==
  ASSUME NEW w, IsTrace(w), Len(w) \in DOMAIN w, NEW g
  PROVE  LET h == model_interaction(g, w)
         IN  /\ DOMAIN g \subseteq DOMAIN h
             /\ \A p \in DOMAIN h : (p \in DOMAIN g /\ h[p] = g[p]) \/ IsNew(h, w, p)
PROOF
  <1> DEFINE es == Interactions(w)
             At(p) == {k \in DOMAIN es : <<es[k].u, es[k].v>> = p}
             New == {<<es[k].u, es[k].v>> : k \in DOMAIN es}
             L(p) == DependenceLabel(es[Nearest(At(p))])
             h == model_interaction(g, w)
  <1>1. h = [p \in DOMAIN g \cup New |-> IF p \in New THEN L(p) ELSE g[p]]
    BY DEF model_interaction
  <1>2. es \in Seq(NewestEdges(w))
    BY InteractionsAreNewest
  <1>3. ASSUME NEW p \in New
        PROVE  /\ p \in Events(w) \X Events(w) /\ p[2][1] = Len(w) /\ IsDependence(w, p)
               /\ L(p) \in Label /\ ~L(p).virtual
               /\ L(p).delay = timing(w, p[2]) - timing(w, p[1]) /\ L(p).cost >= 0
    <2> DEFINE k == Nearest(At(p))
               d == es[k]
    <2>1. At(p) # {} /\ At(p) \subseteq 1 .. Len(es) /\ Len(es) \in Nat
      BY <1>2
    <2>2. k \in At(p)
      <3> HIDE DEF At
      <3> QED BY <2>1, NearestIsMember
    <2>3. k \in DOMAIN es /\ p = <<d.u, d.v>>
      <3> HIDE DEF k
      <3> QED BY <2>2
    <2>4. d \in NewestEdges(w)
      <3> HIDE DEF k
      <3> QED BY <1>2, <2>3
    <2> HIDE DEF d
    <2>5. /\ d \in Edge /\ IsAttached(w, d) /\ d.v[1] = Len(w)
      BY <2>4 DEF NewestEdges, SkewedEdges, SoundEdges
    <2>6. d.u \in Events(w) /\ d.v \in Events(w)
      BY <2>5 DEF IsAttached, Events, Edge
    <2>7. DependenceLabel(d) \in Label
      BY <2>5 DEF DependenceLabel, Label, Edge
    <2>8. ~DependenceLabel(d).virtual
      BY DEF DependenceLabel
    <2>9. L(p) = DependenceLabel(d)
      BY DEF d
    <2>10. /\ IsDependence(w, <<d.u, d.v>>)
           /\ d.weight = timing(w, d.v) - timing(w, d.u) /\ d.cost >= 0
      <3>1. IsSkewed(d) /\ MeasuresTime(w, d) /\ IsNonNegative(d) /\ d.v[2] # "C"
        BY <2>4 DEF NewestEdges, SkewedEdges, SoundEdges
      <3>2. d.weight = timing(w, d.v) - timing(w, d.u) /\ d.weight >= 0
        BY <3>1 DEF MeasuresTime, IsLoadCommit, IsNonNegative
      <3>3. timing(w, d.v) \in Nat /\ timing(w, d.u) \in Nat
        BY <2>6, EventIsTimed
      <3>4. timing(w, d.u) <= timing(w, d.v)
        BY <3>2, <3>3
      <3> QED BY <3>1, <3>2, <3>4 DEF IsSkewed, IsDependence, IsNonNegative
    <2>11. DependenceLabel(d).delay = d.weight /\ DependenceLabel(d).cost = d.cost
      BY DEF DependenceLabel
    <2> HIDE DEF L, k
    <2> QED BY <2>3, <2>5, <2>6, <2>7, <2>8, <2>9, <2>10, <2>11
  <1> HIDE DEF New, L, h, es
  <1>4. ASSUME NEW p \in New PROVE IsNew(h, w, p)
    <2>1. h[p] = L(p)
      BY <1>1, <1>4
    <2>2. Lower(p[1], p[2])
      BY <1>3, <1>4 DEF IsDependence, Lower
    <2> QED BY <1>3, <1>4, <2>1, <2>2 DEF IsNew, IsTimed
  <1>5. DOMAIN h = DOMAIN g \cup New
    BY <1>1
  <1>6. ASSUME NEW p \in DOMAIN g, p \notin New PROVE h[p] = g[p]
    BY <1>1, <1>6
  <1> QED BY <1>4, <1>5, <1>6 DEF h

(* both together *)
LEMMA ReadAddsNewest ==
  ASSUME NEW w, IsTrace(w), Len(w) \in DOMAIN w, NEW g
  PROVE  LET h == model_interaction(model(g, w), w)
         IN  /\ DOMAIN g \subseteq DOMAIN h
             /\ \A p \in DOMAIN h : (p \in DOMAIN g /\ h[p] = g[p]) \/ IsNew(h, w, p)
             /\ HasPipeline(h, w[Len(w)], Len(w))
PROOF
  <1> DEFINE m == model(g, w)
             h == model_interaction(m, w)
  <1>1. /\ DOMAIN g \subseteq DOMAIN m
        /\ \A p \in DOMAIN m : (p \in DOMAIN g /\ m[p] = g[p]) \/ IsNew(m, w, p)
        /\ HasPipeline(m, w[Len(w)], Len(w))
    BY ModelAddsNewest
  <1> HIDE DEF m
  <1>2. /\ DOMAIN m \subseteq DOMAIN h
        /\ \A p \in DOMAIN h : (p \in DOMAIN m /\ h[p] = m[p]) \/ IsNew(h, w, p)
    BY InteractionAddsNewest
  <1> HIDE DEF h
  <1>3. ASSUME NEW p \in DOMAIN m, h[p] = m[p], IsNew(m, w, p) PROVE IsNew(h, w, p)
    BY <1>3 DEF IsNew, IsTimed
  <1>4. \A p \in DOMAIN h : (p \in DOMAIN g /\ h[p] = g[p]) \/ IsNew(h, w, p)
    BY <1>1, <1>2, <1>3
  <1>5. HasPipeline(h, w[Len(w)], Len(w))
    BY <1>1, <1>2 DEF HasPipeline
  <1> QED BY <1>1, <1>2, <1>4, <1>5 DEF h, m

-----------------------------------------------------------------------------
LEMMA CommitIsLast ==
  ASSUME NEW i \in Instruction
  PROVE  "C" \in PipelineStages(i)
PROOF
  <1> DEFINE q == FrontEnd(i) \o Window(i)
             b == BackEnd(i)
             p == Pipeline(i)
  <1>1. FrontEnd(i) \in Seq(Stages) /\ Window(i) \in Seq(Stages)
    BY FrontEndIs, WindowIs
  <1>2. b \in Seq(Stages) /\ Len(b) \in {2, 3} /\ b[Len(b)] = "C"
    BY BackEndIs
  <1>3. q \in Seq(Stages) /\ p = q \o b
    BY <1>1, ConcatProperties DEF Pipeline
  <1> HIDE DEF q, b, p
  <1>4. /\ p \in Seq(Stages) /\ Len(p) = Len(q) + Len(b) /\ Len(q) \in Nat
        /\ \A k \in 1 .. Len(q) + Len(b) : p[k] = IF k <= Len(q) THEN q[k] ELSE b[k - Len(q)]
    BY <1>2, <1>3, ConcatProperties
  <1>5. PICK n \in {2, 3} : Len(b) = n
    BY <1>2
  <1>6. Len(p) \in DOMAIN p /\ p[Len(p)] = "C"
    BY <1>2, <1>4, <1>5
  <1> QED BY <1>6 DEF PipelineStages, p

(***************************************************************************)
(* The first fetch and the last commit are vertices, and everything        *)
(* happens between them.                                                   *)
(***************************************************************************)
LEMMA EventTime ==
  ASSUME NEW w, IsInOrder(w), Len(w) \in DOMAIN w
  PROVE  /\ source_node \in Events(w) /\ sink_node(w) \in Events(w)
         /\ \A x \in Events(w) : /\ timing(w, x) \in Nat
                                 /\ timing(w, source_node) <= timing(w, x)
                                 /\ timing(w, x) <= timing(w, sink_node(w))
PROOF
  <1> DEFINE n == Len(w)
  <1>1. /\ w \in Seq(Instruction) /\ n \in Nat \ {0} /\ DOMAIN w = 1 .. n
        /\ \A k \in DOMAIN w : w[k] \in Instruction /\ Executed(w[k])
    BY DEF IsInOrder, IsTrace
  <1>2. 1 \in DOMAIN w /\ n \in DOMAIN w
    BY <1>1
  <1>3. source_node \in Events(w)
    <2>1. "F1" \in PipelineStages(w[1])
      BY <1>1, <1>2, PipelineIs
    <2> QED BY <1>2, <2>1 DEF source_node, Events, Vertex, Stages
  <1>4. sink_node(w) \in Events(w)
    <2>1. "C" \in PipelineStages(w[n])
      BY <1>1, <1>2, CommitIsLast
    <2> QED BY <1>1, <1>2, <2>1 DEF sink_node, Events, Vertex, Stages
  <1>5. /\ timing(w, source_node) = w[1].fetch_cache_line
        /\ timing(w, sink_node(w)) = w[n].commit
    BY DEF timing, Timing, source_node, sink_node
  <1>6. ASSUME NEW x \in Events(w)
        PROVE  /\ timing(w, x) \in Nat
               /\ timing(w, source_node) <= timing(w, x)
               /\ timing(w, x) <= timing(w, sink_node(w))
    <2> DEFINE k == x[1]
    <2>1. k \in DOMAIN w /\ x[2] \in PipelineStages(w[k])
      BY DEF Events
    <2>2. /\ timing(w, x) \in Nat /\ w[k].fetch_cache_line <= timing(w, x)
          /\ timing(w, x) <= w[k].commit
      <3> HIDE DEF k
      <3>1. w[k] \in Instruction /\ Executed(w[k])
        BY <1>1, <2>1
      <3> QED BY <2>1, <3>1, StageTime DEF timing, k
    <2> HIDE DEF k
    <2>3. w[1].fetch_cache_line <= w[k].fetch_cache_line /\ w[k].commit <= w[n].commit
      <3>1. w[1].fetch_cache_line \in Nat /\ w[k].commit \in Nat
        BY <1>1, <1>2, <2>1 DEF Instruction
      <3>2. 1 < k \/ k = 1
        BY <1>1, <2>1
      <3>3. k < n \/ k = n
        BY <1>1, <2>1
      <3> QED BY <1>2, <2>1, <3>1, <3>2, <3>3 DEF IsInOrder
    <2>4. /\ w[1].fetch_cache_line \in Nat /\ w[k].fetch_cache_line \in Nat
          /\ w[k].commit \in Nat /\ w[n].commit \in Nat
      BY <1>1, <1>2, <2>1 DEF Instruction
    <2> QED BY <1>5, <2>2, <2>3, <2>4
  <1> QED BY <1>3, <1>4, <1>6

-----------------------------------------------------------------------------
(* the pairs that a virtual edge may join *)
MayLink(w) ==
  {p \in Events(w) \X Events(w) :
     /\ p[1][1] < p[2][1] \/ p[1] = source_node \/ p[2] = sink_node(w)
     /\ timing(w, p[1]) <= timing(w, p[2])}

(* those that leave the source or reach the sink *)
OuterLinks(w) == {p \in MayLink(w) : p[1] = source_node \/ p[2] = sink_node(w)}

(***************************************************************************)
(* The tails that _add_virtual_edge_via_*_impl finds for x belong to       *)
(* younger instructions and are not earlier.                               *)
(***************************************************************************)
LEMMA TargetsFollow ==
  ASSUME NEW w, IsInOrder(w), Len(w) \in DOMAIN w,
         NEW sk \in Seq(Events(w) \X Events(w)), NEW idx \in DOMAIN sk,
         NEW x \in Events(w), NEW kind \in Kinds
  PROVE  From(x, Targets(kind, w, sk, idx, x)) \in Seq(MayLink(w))
PROOF
  <1> DEFINE n == Len(sk)
             I == {j \in idx + 1 .. n : Follower(w, x, sk[j])}
             first == Min(I)
  <1>1. n \in Nat /\ DOMAIN sk = 1 .. n /\ idx \in Nat /\ I \subseteq 1 .. n
    OBVIOUS
  <1>2. SelectInSubSeq(sk, idx + 1, Len(sk), LAMBDA e : Follower(w, x, e))
          = IF I # {} THEN first ELSE 0
    BY DEF SelectInSubSeq
  <1>3. ASSUME NEW y \in Events(w), y[1] > x[1], timing(w, y) >= timing(w, x)
        PROVE  <<x, y>> \in MayLink(w)
    <2>1. x[1] \in Nat /\ y[1] \in Nat
      BY DEF Events, Vertex
    <2>2. timing(w, x) \in Nat /\ timing(w, y) \in Nat
      BY EventTime
    <2> QED BY <1>3, <2>1, <2>2 DEF MayLink
  <1>4. CASE I = {}
    <2>1. Targets(kind, w, sk, idx, x) = <<>>
      BY <1>2, <1>4 DEF Targets, TimestampTargets, SeqTargets
    <2> QED BY <2>1 DEF From
  <1>5. CASE I # {}
    <2>1. first \in I
      <3> HIDE DEF I
      <3> QED BY <1>1, <1>5, SmallestExists DEF Min
    <2> HIDE DEF first
    <2>2. first \in 1 .. n /\ first # 0 /\ Follower(w, x, sk[first])
      BY <1>1, <2>1
    <2>3. /\ sk[first][1] \in Events(w) /\ sk[first][1][1] > x[1]
          /\ timing(w, sk[first][1]) >= timing(w, x)
      BY <1>1, <2>2 DEF Follower
    <2>4. CASE kind = "seq"
      <3>1. Targets(kind, w, sk, idx, x) = <<sk[first][1]>>
        BY <1>2, <1>5, <2>2, <2>4 DEF Targets, SeqTargets
      <3>2. From(x, Targets(kind, w, sk, idx, x)) = <<<<x, sk[first][1]>>>>
        BY <3>1 DEF From
      <3> QED BY <1>3, <2>3, <3>2
    <2>5. CASE kind = "timestamp"
      <3> DEFINE Joins(j) == /\ sk[j][1][1] > x[1]
                             /\ timing(w, sk[j][1]) = timing(w, sk[first][1])
                 L == {m \in first .. n : \A j \in first + 1 .. m : Joins(j)}
                 last == Max(L)
                 ts == [k \in 1 .. last - first + 1 |-> sk[first + k - 1][1]]
      <3>1. Targets(kind, w, sk, idx, x) = ts
        BY <1>2, <1>5, <2>2, <2>5 DEF Targets, TimestampTargets
      <3>2. last \in L
        <4>1. first \in L /\ L \subseteq 1 .. n
          BY <1>1, <2>2
        <4>2. \E m \in L : \A j \in L : j <= m
          <5> HIDE DEF L
          <5> QED BY <1>1, <4>1, LargestExists
        <4>3. \E m \in L : \A j \in L : m >= j
          BY <1>1, <4>1, <4>2
        <4> HIDE DEF L
        <4> QED BY <4>3 DEF Max
      <3> HIDE DEF last
      <3>3. last \in first .. n /\ \A j \in first + 1 .. last : Joins(j)
        BY <3>2
      <3>4. ASSUME NEW k \in 1 .. last - first + 1
            PROVE  <<x, ts[k]>> \in MayLink(w)
        <4> DEFINE j == first + k - 1
        <4>1. j \in 1 .. n /\ (j = first \/ j \in first + 1 .. last)
          BY <1>1, <2>2, <3>3
        <4>2. ts[k] = sk[j][1]
          OBVIOUS
        <4> HIDE DEF j
        <4>3. sk[j][1] \in Events(w)
          BY <1>1, <4>1
        <4>4. sk[j][1][1] > x[1] /\ timing(w, sk[j][1]) >= timing(w, x)
          BY <2>3, <3>3, <4>1
        <4> QED BY <1>3, <4>2, <4>3, <4>4
      <3>5. last - first + 1 \in Nat
        BY <1>1, <2>2, <3>3
      <3> DEFINE m == last - first + 1
      <3>6. DOMAIN ts = 1 .. m
        OBVIOUS
      <3> HIDE DEF ts, m
      <3>7. From(x, ts) = [k \in 1 .. m |-> <<x, ts[k]>>]
        BY <3>6 DEF From
      <3>8. [k \in 1 .. m |-> <<x, ts[k]>>] \in Seq(MayLink(w))
        BY <3>4, <3>5 DEF m
      <3> QED BY <3>1, <3>7, <3>8
    <2> QED BY <2>4, <2>5 DEF Kinds
  <1> QED BY <1>4, <1>5

(***************************************************************************)
(* add_virtual_edge_via_timestamp_impl and add_virtual_edge_via_seq_v2_impl*)
(***************************************************************************)
LEMMA WorkerLinksLeadForward ==
  ASSUME NEW w, IsInOrder(w), Len(w) \in DOMAIN w,
         NEW sk \in Seq(Events(w) \X Events(w)), NEW idx \in DOMAIN sk, NEW kind \in Kinds
  PROVE  WorkerLinks(kind, w, sk, idx) \in Seq(MayLink(w))
PROOF
  <1> DEFINE Of(x) == From(x, Targets(kind, w, sk, idx, x))
  <1>1. sk[idx][1] \in Events(w) /\ sk[idx][2] \in Events(w)
    OBVIOUS
  <1>2. Of(sk[idx][1]) \in Seq(MayLink(w)) /\ Of(sk[idx][2]) \in Seq(MayLink(w))
    BY <1>1, TargetsFollow
  <1>3. WorkerLinks(kind, w, sk, idx) = Of(sk[idx][1]) \o Of(sk[idx][2])
    BY DEF WorkerLinks
  <1> HIDE DEF Of
  <1> QED BY <1>2, <1>3, ConcatProperties

(***************************************************************************)
(* add_virtual_edge_via_timestamp and add_virtual_edge_via_seq_v2: their   *)
(* own links leave the source or reach the sink.                           *)
(***************************************************************************)
LEMMA HelperLinksLeadForward ==
  ASSUME NEW w, IsInOrder(w), Len(w) \in DOMAIN w,
         NEW sk \in Seq(Events(w) \X Events(w)), NEW kind \in Kinds
  PROVE  HelperLinks(kind, w, sk) \in Seq(OuterLinks(w))
PROOF
  <1>1. CASE sk = <<>>
    BY <1>1, EmptySeq DEF HelperLinks
  <1>2. CASE sk # <<>>
    <2> DEFINE n == Len(sk)
               I == {j \in 1 .. n : sk[j][1][1] > 1}
               first == IF I # {} THEN Min(I) ELSE 0
               tails == TailEntries(kind, w, sk)
               c == Cardinality(tails)
               head == IF first = 0 THEN <<>> ELSE <<<<source_node, sk[first][1]>>>>
               T == [k \in 1 .. c |-> <<sk[n + 1 - k][2], sink_node(w)>>]
    <2>1. HelperLinks(kind, w, sk) = head \o T
      BY <1>2 DEF HelperLinks, SelectInSeq
    <2>2. n \in Nat /\ DOMAIN sk = 1 .. n
      OBVIOUS
    <2>3. ASSUME NEW x \in Events(w)
          PROVE  <<source_node, x>> \in OuterLinks(w) /\ <<x, sink_node(w)>> \in OuterLinks(w)
      BY EventTime DEF MayLink, OuterLinks
    <2>4. head \in Seq(OuterLinks(w))
      <3>1. CASE I = {}
        BY <3>1, EmptySeq
      <3>2. CASE I # {}
        <4>1. Min(I) \in I
          <5>1. I \subseteq 1 .. n
            OBVIOUS
          <5> HIDE DEF I
          <5> QED BY <2>2, <3>2, <5>1, SmallestExists DEF Min
        <4>2. first \in 1 .. n /\ first # 0
          BY <2>2, <3>2, <4>1
        <4> HIDE DEF first
        <4>3. sk[first][1] \in Events(w)
          BY <2>2, <4>2
        <4>4. head = <<<<source_node, sk[first][1]>>>>
          BY <4>2
        <4>5. <<source_node, sk[first][1]>> \in OuterLinks(w)
          BY <2>3, <4>3
        <4> QED BY <4>4, <4>5
      <3> QED BY <3>1, <3>2
    <2>5. c \in Nat /\ c <= n
      <3>1. tails \in SUBSET (1 .. n)
        BY <2>2 DEF TailEntries
      <3>2. IsFiniteSet(1 .. n) /\ Cardinality(1 .. n) = n
        <4> HIDE DEF n
        <4>1. 1 \in Int /\ n \in Int /\ ~(1 > n) => n - 1 + 1 = n
          BY <2>2
        <4>2. n \in Nat /\ (1 > n => n = 0)
          BY <2>2
        <4> QED BY <4>1, <4>2, FS_Interval
      <3> HIDE DEF tails
      <3> QED BY <3>1, <3>2, FS_Subset, FS_CardinalityType
    <2>6. T \in Seq(OuterLinks(w))
      <3> HIDE DEF c
      <3>1. ASSUME NEW k \in 1 .. c
            PROVE  <<sk[n + 1 - k][2], sink_node(w)>> \in OuterLinks(w)
        <4>1. n + 1 - k \in DOMAIN sk
          BY <2>2, <2>5
        <4>2. sk[n + 1 - k][2] \in Events(w)
          BY <4>1
        <4> QED BY <2>3, <4>2
      <3> DEFINE link(k) == <<sk[n + 1 - k][2], sink_node(w)>>
      <3>2. T = [k \in 1 .. c |-> link(k)]
        OBVIOUS
      <3>3. \A k \in 1 .. c : link(k) \in OuterLinks(w)
        BY <3>1
      <3> HIDE DEF link, T
      <3> QED BY <2>5, <3>2, <3>3
    <2> HIDE DEF head, T
    <2> QED BY <2>1, <2>4, <2>6, ConcatProperties
  <1> QED BY <1>1, <1>2

(* the pairs of events of a trace are finitely many *)
LEMMA PairsAreFinite ==
  ASSUME NEW w, IsTrace(w), NEW S \in SUBSET (Events(w) \X Events(w))
  PROVE  IsFiniteSet(S)
PROOF
  <1> DEFINE n == Len(w)
             V == (1 .. n) \X Stages
  <1>1. n \in Nat /\ DOMAIN w = 1 .. n
    BY DEF IsTrace
  <1>2. IsFiniteSet(Stages)
    <2>1. Stages = {"F1", "F2", "F", "F2F", "D", "R", "DS", "I"} \cup
                     {"DI", "M", "P", "MP", "C"}
      BY DEF Stages
    <2> HIDE DEF Stages
    <2>2. ASSUME NEW T, IsFiniteSet(T), NEW e PROVE IsFiniteSet(T \cup {e})
      BY <2>2, FS_AddElement
    <2>3. IsFiniteSet({}) BY FS_EmptySet
    <2>4. IsFiniteSet({} \cup {"F1"} \cup {"F2"} \cup {"F"} \cup {"F2F"} \cup {"D"} \cup {"R"}
                        \cup {"DS"} \cup {"I"} \cup {"DI"} \cup {"M"} \cup {"P"} \cup {"MP"}
                        \cup {"C"})
      BY <2>2, <2>3
    <2>5. Stages = {} \cup {"F1"} \cup {"F2"} \cup {"F"} \cup {"F2F"} \cup {"D"} \cup {"R"}
                        \cup {"DS"} \cup {"I"} \cup {"DI"} \cup {"M"} \cup {"P"} \cup {"MP"}
                        \cup {"C"}
      BY <2>1
    <2> QED BY <2>4, <2>5
  <1>3. IsFiniteSet(V)
    <2> HIDE DEF n
    <2>1. IsFiniteSet(1 .. n)
      <3>1. 1 \in Int /\ n \in Int
        BY <1>1
      <3> QED BY <3>1, FS_Interval
    <2> QED BY <1>2, <2>1, FS_Product
  <1>4. IsFiniteSet(V \X V)
    <2> HIDE DEF V
    <2> QED BY <1>3, FS_Product
  <1>5. Events(w) \subseteq V
    BY <1>1 DEF Events, Vertex
  <1>6. S \in SUBSET (V \X V)
    <2> HIDE DEF V
    <2> QED BY <1>5
  <1> HIDE DEF V
  <1> QED BY <1>4, <1>6, FS_Subset

(* the links of every thread *)
LEMMA LinksLeadForward ==
  ASSUME NEW w, IsInOrder(w), Len(w) \in DOMAIN w,
         NEW S \in SUBSET (Events(w) \X Events(w)),
         NEW kind \in Kinds, NEW sk \in Orders(kind, w, S), NEW m \in 0 .. Cardinality(S)
  PROVE  Links(w, sk, <<kind, m>>) \in Seq(MayLink(w))
PROOF
  <1>1. IsFiniteSet(S)
    BY PairsAreFinite DEF IsInOrder
  <1>2. Cardinality(S) \in Nat
    BY <1>1, FS_CardinalityType
  <1>3. sk \in [1 .. Cardinality(S) -> S]
    BY DEF Orders
  <1>4. sk \in Seq(Events(w) \X Events(w)) /\ Len(sk) = Cardinality(S)
    BY <1>2, <1>3
  <1>5. CASE m = 0
    <2>1. OuterLinks(w) \subseteq MayLink(w)
      BY DEF OuterLinks
    <2> QED BY <1>4, <1>5, <2>1, HelperLinksLeadForward, SeqMonotonic DEF Links
  <1>6. CASE m # 0
    <2>1. m \in DOMAIN sk
      BY <1>2, <1>3, <1>6
    <2> QED BY <1>4, <1>6, <2>1, WorkerLinksLeadForward DEF Links
  <1> QED BY <1>5, <1>6

-----------------------------------------------------------------------------
(* the virtual edges and the dependences of a graph *)
VirtualOf(g) == {p \in DOMAIN g : g[p].virtual}
DependencesOf(g) == DOMAIN g \ VirtualOf(g)

(* VirtualEdgesLeadForward, of any graph *)
LeadForward(g, w) ==
  \A p \in VirtualOf(g) :
     /\ p[1][1] < p[2][1] \/ p[1] = source_node \/ p[2] = sink_node(w)
     /\ p[1] # p[2]
     /\ g[p].delay = timing(w, p[2]) - timing(w, p[1])
     /\ g[p].delay >= 0

(* the edges between two instructions are dependences *)
JoinsInOrder(g, w) == \A p \in DOMAIN g : p[1][1] # p[2][1] => IsDependence(w, p)

(* add_virtual_edge, once it has found that it must add the edge p *)
WithVirtual(g, w, p) == add_edge(g, p[1], p[2], VirtualLabel(w, p[1], p[2]))

(* an edge p that add_virtual_edge may add to g *)
MayAdd(g, w, p) ==
  /\ IsInOrder(w) /\ Len(w) \in DOMAIN w
  /\ IsGraph(g, w) /\ LeadForward(g, w)
  /\ p \in MayLink(w) /\ p \notin DependencesOf(g) /\ ~SameNode(w, p[1], p[2])

(* h is g with the virtual edges P *)
Extends(h, g, P) ==
  /\ VirtualOf(h) = VirtualOf(g) \cup P
  /\ DependencesOf(h) = DependencesOf(g)
  /\ \A q \in DependencesOf(g) : h[q] = g[q]

(* h is g with the virtual edge p, and sound *)
IsAdded(h, g, w, p) ==
  /\ IsGraph(h, w) /\ LeadForward(h, w) /\ Extends(h, g, {p})
  /\ DOMAIN h = DOMAIN g \cup {p}

(***************************************************************************)
(* add_virtual_edge on a pair that no dependence joins leaves the          *)
(* dependences alone and keeps the virtual edges forward.                  *)
(***************************************************************************)
LEMMA AddVirtualEdge ==
  ASSUME NEW w, NEW g, NEW p, MayAdd(g, w, p)
  PROVE  IsAdded(WithVirtual(g, w, p), g, w, p)
PROOF
  <1> DEFINE l == VirtualLabel(w, p[1], p[2])
             h == WithVirtual(g, w, p)
  <1> USE DEF MayAdd
  <1>1. /\ p = <<p[1], p[2]>> /\ p \in Events(w) \X Events(w)
        /\ p[1] \in Events(w) /\ p[2] \in Events(w)
        /\ p[1][1] < p[2][1] \/ p[1] = source_node \/ p[2] = sink_node(w)
        /\ timing(w, p[1]) <= timing(w, p[2])
    BY DEF MayLink
  <1>2. timing(w, p[1]) \in Nat /\ timing(w, p[2]) \in Nat
    BY <1>1, EventTime
  <1>3. /\ l \in Label /\ l.virtual /\ l.delay >= 0
        /\ l.delay = timing(w, p[2]) - timing(w, p[1])
    BY <1>1, <1>2 DEF VirtualLabel, Label, Bottlenecks
  <1>4. p[1] # p[2]
    BY DEF SameNode
  <1>5. h = [q \in DOMAIN g \cup {p} |-> IF q = p THEN l ELSE g[q]]
    <2> HIDE DEF l
    <2> QED BY <1>1 DEF add_edge, WithVirtual, l
  <1> HIDE DEF l, h
  <1>6. DOMAIN h = DOMAIN g \cup {p} /\ h[p] = l /\ \A q \in DOMAIN g : q # p => h[q] = g[q]
    BY <1>5
  <1>7. IsGraph(h, w)
    BY <1>1, <1>3, <1>6 DEF IsGraph
  <1>8. VirtualOf(h) = VirtualOf(g) \cup {p}
    BY <1>3, <1>6 DEF VirtualOf
  <1>9. DependencesOf(h) = DependencesOf(g)
    BY <1>6, <1>8 DEF DependencesOf
  <1>10. \A q \in DependencesOf(g) : h[q] = g[q]
    BY <1>6 DEF DependencesOf
  <1>11. LeadForward(h, w)
    <2> SUFFICES ASSUME NEW q \in VirtualOf(h)
                 PROVE  /\ q[1][1] < q[2][1] \/ q[1] = source_node \/ q[2] = sink_node(w)
                        /\ q[1] # q[2]
                        /\ h[q].delay = timing(w, q[2]) - timing(w, q[1])
                        /\ h[q].delay >= 0
      BY DEF LeadForward
    <2>1. CASE q = p
      BY <1>1, <1>3, <1>4, <1>6, <2>1
    <2>2. CASE q # p
      <3>1. q \in VirtualOf(g) /\ h[q] = g[q]
        BY <1>6, <1>8, <2>2 DEF VirtualOf
      <3> QED BY <3>1 DEF LeadForward
    <2> QED BY <2>1, <2>2
  <1> QED BY <1>6, <1>7, <1>8, <1>9, <1>10, <1>11 DEF h, Extends, IsAdded

-----------------------------------------------------------------------------
(* what the main thread and the others have at every moment *)
TracePart ==
  /\ trace \in Traces /\ ReadFrom(insts, trace)
  /\ pc \in {"read", "join", "sort", "path", "done", "failed"}
  /\ pc # "read" => Len(insts) = Len(trace)
  /\ changed \in BOOLEAN

GraphPart ==
  /\ IsGraph(graph, insts)
  /\ LeadForward(graph, insts)
  /\ pc = "read" => VirtualOf(graph) = {} /\ JoinsInOrder(graph, insts)
  /\ skew \subseteq DOMAIN graph

(* a thread that is about to add an edge has found no dependence there, and *)
(* none can have come since                                                *)
ThreadPart ==
  /\ started \subseteq Kinds
  /\ DOMAIN links = Threads(skew) /\ done \in [Threads(skew) -> Nat]
  /\ adding \subseteq Threads(skew)
  /\ pc = "read" => adding = {} /\ \A t \in DOMAIN links : links[t] = <<>>
  /\ \A t \in Threads(skew) : \A k \in DOMAIN links[t] : links[t][k] \in MayLink(insts)
  /\ \A t \in adding : /\ done[t] + 1 \in DOMAIN links[t]
                       /\ Link(t) \notin DependencesOf(graph)
                       /\ ~SameNode(insts, Link(t)[1], Link(t)[2])

SearchPart ==
  /\ sort \in [indegree : {sort.indegree}, release : SUBSET Events(insts),
               relax : SUBSET Events(insts), ready : SUBSET Events(insts)]
  /\ DOMAIN dist \subseteq Events(insts)

IInv == TracePart /\ GraphPart /\ ThreadPart /\ SearchPart

(* the trace that is being read, and the whole trace, are in order *)
LEMMA InstsInOrder ==
  ASSUME TracePart
  PROVE  /\ IsInOrder(insts)
         /\ pc # "read" => Len(insts) \in DOMAIN insts
PROOF
  <1>1. WellFormed(trace) /\ ReadFrom(insts, trace)
    BY TracesAssumption DEF TracePart
  <1>2. IsInOrder(insts)
    BY <1>1, PrefixIsTrace
  <1>3. pc # "read" => Len(insts) \in DOMAIN insts
    BY <1>1 DEF TracePart, WellFormed, ReadFrom
  <1> QED BY <1>2, <1>3

LEMMA InitIInv ==
  Init => IInv
PROOF
  <1> SUFFICES ASSUME Init PROVE IInv
    OBVIOUS
  <1> USE DEF Init
  <1>1. TracePart
    <2>1. WellFormed(trace)
      BY TracesAssumption
    <2>2. Len(trace) \in Nat
      BY <2>1 DEF WellFormed
    <2>3. ReadFrom(insts, trace)
      BY <2>2, EmptySeq DEF ReadFrom
    <2> QED BY <2>3, Zenon DEF TracePart
  <1>2. GraphPart
    BY DEF GraphPart, IsGraph, LeadForward, VirtualOf, JoinsInOrder
  <1>3. ThreadPart
    BY DEF ThreadPart
  <1>4. SearchPart
    BY DEF SearchPart, NoSort
  <1> QED BY <1>1, <1>2, <1>3, <1>4 DEF IInv

-----------------------------------------------------------------------------
(***************************************************************************)
(* Read: the dependences that were there stay as they are.                 *)
(***************************************************************************)
LEMMA ReadKeeps ==
  ASSUME IInv, Read
  PROVE  /\ IInv'
         /\ DOMAIN graph \subseteq DOMAIN graph'
         /\ \A p \in DOMAIN graph : graph'[p] = graph[p]
         /\ VirtualOf(graph) = {} /\ VirtualOf(graph') = {}
         /\ pc' = "read" /\ dist' = dist /\ Len(insts) \in Nat /\ DOMAIN insts = 1 .. Len(insts)
         /\ Len(insts') = Len(insts) + 1 /\ DOMAIN insts' = 1 .. Len(insts')
         /\ \A k \in DOMAIN insts : insts'[k] = insts[k]
         /\ \A p \in DOMAIN graph' : p \in DOMAIN graph \/ IsNew(graph', insts', p)
         /\ HasPipeline(graph', insts'[Len(insts')], Len(insts'))
PROOF
  <1> DEFINE n == Len(insts)
             w == Append(insts, trace[n + 1])
             h == model_interaction(model(graph, w), w)
  <1>1. /\ pc = "read" /\ pc' = pc /\ n < Len(trace) /\ insts' = w /\ graph' = h
        /\ UNCHANGED <<trace, skew, started, links, done, adding, sort, dist, changed>>
    BY DEF Read, threads, search
  <1>2. /\ WellFormed(trace) /\ ReadFrom(insts, trace) /\ trace \in Seq(Instruction)
        /\ insts \in Seq(Instruction) /\ n \in Nat /\ DOMAIN insts = 1 .. n
        /\ Len(trace) \in Nat /\ DOMAIN trace = 1 .. Len(trace)
    BY TracesAssumption DEF IInv, TracePart, WellFormed, ReadFrom
  <1>3. trace[n + 1] \in Instruction
    BY <1>1, <1>2
  <1>4. /\ w \in Seq(Instruction) /\ Len(w) = n + 1 /\ DOMAIN w = 1 .. n + 1
        /\ \A k \in 1 .. n : w[k] = insts[k]
        /\ w[n + 1] = trace[n + 1]
    <2> HIDE DEF n
    <2> QED BY <1>2, <1>3 DEF n
  <1> HIDE DEF w, h
  <1>5. ReadFrom(w, trace)
    <2>1. Len(w) <= Len(trace)
      BY <1>1, <1>2, <1>4
    <2>2. ASSUME NEW k \in DOMAIN w PROVE w[k] = trace[k]
      <3>1. k \in 1 .. n \/ k = n + 1
        BY <1>2, <1>4
      <3> QED BY <1>2, <1>4, <3>1 DEF ReadFrom
    <2> QED BY <1>4, <2>1, <2>2 DEF ReadFrom
  <1>6. IsInOrder(w) /\ IsTrace(w) /\ Len(w) \in DOMAIN w
    BY <1>2, <1>4, <1>5, PrefixIsTrace DEF IsInOrder
  <1>7. /\ DOMAIN graph \subseteq DOMAIN h
        /\ \A p \in DOMAIN h : (p \in DOMAIN graph /\ h[p] = graph[p]) \/ IsNew(h, w, p)
        /\ HasPipeline(h, w[Len(w)], Len(w))
    BY <1>6, ReadAddsNewest DEF h
  <1>8. Events(insts) \subseteq Events(w)
    BY <1>2, <1>4 DEF Events
  <1>9. ASSUME NEW p \in DOMAIN graph PROVE h[p] = graph[p]
    <2>1. p[2] \in Events(insts)
      BY <1>9 DEF IInv, GraphPart, IsGraph
    <2>2. p[2][1] # Len(w)
      BY <1>2, <1>4, <2>1 DEF Events
    <2> QED BY <1>7, <1>9, <2>2 DEF IsNew
  <1>10. VirtualOf(graph) = {} /\ VirtualOf(h) = {}
    <2>1. VirtualOf(graph) = {}
      BY <1>1 DEF IInv, GraphPart
    <2> QED BY <1>7, <2>1 DEF VirtualOf, IsNew
  <1>11. IsGraph(h, w)
    <2>1. ASSUME NEW p \in DOMAIN h
          PROVE  p \in Events(w) \X Events(w) /\ h[p] \in Label
      <3>1. CASE p \in DOMAIN graph /\ h[p] = graph[p]
        BY <1>8, <3>1 DEF IInv, GraphPart, IsGraph
      <3>2. CASE IsNew(h, w, p)
        BY <3>2 DEF IsNew
      <3> QED BY <1>7, <3>1, <3>2
    <2> QED BY <2>1 DEF IsGraph
  <1>12. TracePart'
    <2>1. pc' = "read" /\ trace' \in Traces /\ changed' \in BOOLEAN /\ ReadFrom(insts', trace')
      BY <1>1, <1>5 DEF IInv, TracePart
    <2> QED BY <2>1, Zenon DEF TracePart
  <1>13. GraphPart'
    <2>1. ASSUME NEW p \in DOMAIN h, p[1][1] # p[2][1] PROVE IsDependence(w, p)
      <3>1. CASE p \in DOMAIN graph
        <4>1. IsDependence(insts, p) /\ p[1] \in Events(insts) /\ p[2] \in Events(insts)
          BY <1>1, <2>1, <3>1 DEF IInv, GraphPart, JoinsInOrder, IsGraph
        <4>2. timing(w, p[1]) = timing(insts, p[1]) /\ timing(w, p[2]) = timing(insts, p[2])
          BY <1>2, <1>4, <4>1 DEF Events, timing
        <4> QED BY <4>1, <4>2 DEF IsDependence
      <3>2. CASE IsNew(h, w, p)
        BY <2>1, <3>2 DEF IsNew
      <3> QED BY <1>7, <3>1, <3>2
    <2>2. JoinsInOrder(h, w)
      BY <2>1 DEF JoinsInOrder
    <2> QED BY <1>1, <1>7, <1>10, <1>11, <2>2 DEF IInv, GraphPart, LeadForward
  <1>14. ThreadPart'
    <2>1. adding = {} /\ \A t \in DOMAIN links : links[t] = <<>>
      BY <1>1 DEF IInv, ThreadPart
    <2> QED BY <1>1, <2>1 DEF IInv, ThreadPart
  <1>15. SearchPart'
    BY <1>1, <1>8 DEF IInv, SearchPart
  <1> QED BY <1>1, <1>2, <1>4, <1>7, <1>9, <1>10, <1>12, <1>13, <1>14, <1>15 DEF IInv

(***************************************************************************)
(* Construct: every link the threads will add may be added.                *)
(***************************************************************************)
LEMMA ConstructKeeps ==
  ASSUME IInv, Construct
  PROVE  IInv'
PROOF
  <1>1. /\ pc = "read" /\ pc' = "join" /\ skew' = SkewEdges(graph) /\ Len(insts) = Len(trace)
        /\ done' = [t \in Threads(skew') |-> 0]
        /\ UNCHANGED <<trace, insts, graph, started, adding, sort, dist, changed>>
    BY DEF Construct, search
  <1>2. PICK time \in Orders("timestamp", insts, skew'), seq \in Orders("seq", insts, skew') :
          links' = [t \in Threads(skew') |->
                      Links(insts, IF t[1] = "timestamp" THEN time ELSE seq, t)]
    BY DEF Construct
  <1>3. TracePart'
    <2>1. pc' = "join" /\ trace' \in Traces /\ changed' \in BOOLEAN
          /\ ReadFrom(insts', trace') /\ Len(insts') = Len(trace')
      BY <1>1 DEF IInv, TracePart
    <2> QED BY <2>1, Zenon DEF TracePart
  <1>4. skew' \subseteq DOMAIN graph /\ skew' \in SUBSET (Events(insts) \X Events(insts))
    BY <1>1 DEF SkewEdges, IInv, GraphPart, IsGraph
  <1>5. GraphPart'
    BY <1>1, <1>4 DEF IInv, GraphPart, LeadForward, VirtualOf
  <1>6. IsInOrder(insts) /\ Len(insts) \in DOMAIN insts
    <2>1. IsInOrder(insts') /\ Len(insts') \in DOMAIN insts'
      <3>1. WellFormed(trace') /\ ReadFrom(insts', trace') /\ Len(insts') = Len(trace')
        BY <1>1, <1>3, TracesAssumption DEF TracePart
      <3>2. Len(insts') \in DOMAIN insts'
        BY <3>1 DEF WellFormed, ReadFrom
      <3> QED BY <3>1, <3>2, PrefixIsTrace
    <2> QED BY <1>1, <2>1
  <1>7. ASSUME NEW t \in Threads(skew'), NEW k \in DOMAIN links'[t]
        PROVE  links'[t][k] \in MayLink(insts)
    <2> DEFINE sk == IF t[1] = "timestamp" THEN time ELSE seq
    <2>1. t = <<t[1], t[2]>> /\ t[1] \in Kinds /\ t[2] \in 0 .. Cardinality(skew')
      BY DEF Threads
    <2>2. sk \in Orders(t[1], insts, skew')
      BY <2>1 DEF Kinds
    <2>3. links'[t] = Links(insts, sk, t)
      BY <1>2
    <2> HIDE DEF sk
    <2>4. Links(insts, sk, <<t[1], t[2]>>) \in Seq(MayLink(insts))
      BY <1>4, <1>6, <2>1, <2>2, LinksLeadForward
    <2> QED BY <1>7, <2>1, <2>3, <2>4
  <1>8. ThreadPart'
    <2>1. adding = {} /\ started \subseteq Kinds
      BY <1>1 DEF IInv, ThreadPart
    <2>2. DOMAIN links' = Threads(skew')
      BY <1>2
    <2> QED BY <1>1, <1>7, <2>1, <2>2 DEF ThreadPart
  <1>9. SearchPart'
    BY <1>1 DEF IInv, SearchPart
  <1> QED BY <1>3, <1>5, <1>8, <1>9 DEF IInv

-----------------------------------------------------------------------------
(* the states of the main thread once the trace has been read *)
Later == {"join", "sort", "path", "done", "failed"}

(***************************************************************************)
(* A step that leaves the graph and the work of the threads alone.         *)
(***************************************************************************)
LEMMA QuietKeeps ==
  ASSUME IInv, pc \in Later, pc' \in Later, started' \subseteq Kinds, SearchPart',
         UNCHANGED <<trace, insts, graph, skew, links, done, adding, changed>>
  PROVE  IInv'
PROOF
  <1>1. pc # "read" /\ pc' # "read"
    BY DEF Later
  <1>2. TracePart'
    <2>1. /\ trace' \in Traces /\ changed' \in BOOLEAN
          /\ ReadFrom(insts', trace') /\ Len(insts') = Len(trace')
      BY <1>1 DEF IInv, TracePart
    <2>2. pc' \in {"read", "join", "sort", "path", "done", "failed"}
      BY DEF Later
    <2> QED BY <2>1, <2>2, Zenon DEF TracePart
  <1>3. GraphPart'
    BY <1>1 DEF IInv, GraphPart
  <1>4. ThreadPart'
    BY <1>1 DEF IInv, ThreadPart, Link
  <1> QED BY <1>2, <1>3, <1>4 DEF IInv

LEMMA StartWorkersKeeps ==
  ASSUME IInv, NEW kind \in Kinds, StartWorkers(kind)
  PROVE  IInv' /\ UNCHANGED <<pc, graph, links>>
PROOF
  <1>1. /\ pc \in Later /\ pc' = pc /\ started' \subseteq Kinds
        /\ UNCHANGED <<trace, insts, graph, skew, links, done, adding, changed, sort, dist>>
    BY DEF StartWorkers, search, IInv, TracePart, ThreadPart, Later
  <1>2. SearchPart'
    BY <1>1 DEF IInv, SearchPart
  <1> QED BY <1>1, <1>2, QuietKeeps

(* the vertices of the graph, and those that edges lead to, are events *)
LEMMA NodesAreEvents ==
  ASSUME GraphPart
  PROVE  Nodes(graph) \subseteq Events(insts) /\ \A x : succ(graph, x) \subseteq Events(insts)
PROOF
  <1>1. \A p \in DOMAIN graph : p[1] \in Events(insts) /\ p[2] \in Events(insts)
    BY DEF GraphPart, IsGraph
  <1> QED BY <1>1 DEF Nodes, succ

(***************************************************************************)
(* The sort and the longest path algorithm visit vertices of the graph     *)
(* only, also when the graph changes under them.                           *)
(***************************************************************************)
LEMMA FailKeeps ==
  ASSUME IInv, pc \in Later, Fail
  PROVE  IInv' /\ UNCHANGED <<graph, links>> /\ pc' = "failed"
PROOF
  <1>1. /\ pc' = "failed" /\ started' \subseteq Kinds
        /\ UNCHANGED <<trace, insts, graph, skew, links, done, adding, changed, sort, dist>>
    BY DEF Fail, threads, search, IInv, ThreadPart
  <1>2. SearchPart'
    BY <1>1 DEF IInv, SearchPart
  <1>3. pc' \in Later
    BY <1>1 DEF Later
  <1> QED BY <1>1, <1>2, <1>3, QuietKeeps

LEMMA JoinKeeps ==
  ASSUME IInv, Join
  PROVE  IInv' /\ UNCHANGED <<graph, links>> /\ pc = "join" /\ pc' = "sort"
PROOF
  <1> DEFINE V == Nodes(graph)
             First == {x \in V : pred(graph, x) = {}}
             d == [x \in V \ First |-> Cardinality(pred(graph, x))]
  <1>1. /\ pc = "join" /\ pc' = "sort" /\ started' \subseteq Kinds
        /\ sort' = [indegree |-> d, release |-> First, relax |-> First, ready |-> {}]
        /\ UNCHANGED <<trace, insts, graph, skew, links, done, adding, changed, dist>>
    BY DEF Join, StartSort, threads, IInv, ThreadPart
  <1>2. First \subseteq Events(insts)
    BY NodesAreEvents DEF IInv
  <1> HIDE DEF d, First
  <1>3. SearchPart'
    BY <1>1, <1>2 DEF IInv, SearchPart
  <1>4. pc \in Later /\ pc' \in Later
    BY <1>1 DEF Later
  <1> QED BY <1>1, <1>3, <1>4, QuietKeeps

LEMMA ReleaseKeeps ==
  ASSUME IInv, ReleaseGeneration
  PROVE  IInv' /\ UNCHANGED <<graph, links>> /\ pc = "sort" /\ pc' \in {"sort", "failed"}
PROOF
  <1> DEFINE Released == UNION {succ(graph, x) : x \in sort.release}
             Counts(y) == Cardinality(pred(graph, y) \cap sort.release)
             Free == {y \in Released : sort.indegree[y] = Counts(y)}
             d == [y \in DOMAIN sort.indegree \ Free |-> sort.indegree[y] - Counts(y)]
  <1>1. pc = "sort" /\ pc \in Later
    BY DEF ReleaseGeneration, Later
  <1>2. CASE Fail
    BY <1>1, <1>2, FailKeeps
  <1>3. CASE ~Fail
    <2>1. /\ sort' = [sort EXCEPT !.indegree = d, !.release = {}, !.ready = Free]
          /\ UNCHANGED <<trace, pc, insts, graph, threads, dist, critical, changed>>
      BY <1>3 DEF ReleaseGeneration
    <2>2. Free \subseteq Events(insts)
      <3>1. \A x : succ(graph, x) \subseteq Events(insts)
        BY NodesAreEvents DEF IInv
      <3> QED BY <3>1
    <2> HIDE DEF Free, d
    <2>3. /\ started' \subseteq Kinds
          /\ UNCHANGED <<trace, pc, insts, graph, skew, links, done, adding, changed, dist>>
      BY <2>1 DEF threads, IInv, ThreadPart
    <2>4. SearchPart'
      <3>1. sort' = [indegree |-> d, release |-> {}, relax |-> sort.relax, ready |-> Free]
        BY <2>1 DEF IInv, SearchPart
      <3> QED BY <2>2, <2>3, <3>1 DEF IInv, SearchPart
    <2> QED BY <1>1, <2>3, <2>4, QuietKeeps
  <1> QED BY <1>2, <1>3

LEMMA RelaxKeeps ==
  ASSUME IInv, NEW x \in sort.relax, Relax(x)
  PROVE  IInv' /\ UNCHANGED <<graph, links>> /\ pc = "sort" /\ pc' \in {"sort", "failed"}
PROOF
  <1>1. pc = "sort" /\ pc \in Later
    BY DEF Relax, Later
  <1>2. CASE Fail
    BY <1>1, <1>2, FailKeeps
  <1>3. CASE ~Fail
    <2>1. /\ dist' = [y \in DOMAIN dist \cup {x} |->
                        IF y = x THEN Distance(graph, dist, x) ELSE dist[y]]
          /\ sort' = [sort EXCEPT !.relax = @ \ {x}]
          /\ UNCHANGED <<trace, pc, insts, graph, threads, critical, changed>>
      BY <1>3 DEF Relax
    <2>2. /\ started' \subseteq Kinds
          /\ UNCHANGED <<trace, pc, insts, graph, skew, links, done, adding, changed>>
      BY <2>1 DEF threads, IInv, ThreadPart
    <2>3. SearchPart'
      <3>1. sort' = [indegree |-> sort.indegree, release |-> sort.release,
                     relax |-> sort.relax \ {x}, ready |-> sort.ready]
        BY <2>1 DEF IInv, SearchPart
      <3>2. DOMAIN dist' \subseteq Events(insts')
        BY <2>1, <2>2 DEF IInv, SearchPart
      <3> QED BY <2>2, <3>1, <3>2 DEF IInv, SearchPart
    <2> QED BY <1>1, <2>2, <2>3, QuietKeeps
  <1> QED BY <1>2, <1>3

LEMMA NextGenerationKeeps ==
  ASSUME IInv, NextGeneration
  PROVE  IInv' /\ UNCHANGED <<graph, links>> /\ pc = "sort" /\ pc' = "sort"
PROOF
  <1>1. /\ pc = "sort" /\ pc' = "sort" /\ started' \subseteq Kinds
        /\ sort' = [sort EXCEPT !.release = sort.ready, !.relax = sort.ready, !.ready = {}]
        /\ UNCHANGED <<trace, insts, graph, skew, links, done, adding, changed, dist>>
    BY DEF NextGeneration, threads, IInv, ThreadPart
  <1>2. sort' = [indegree |-> sort.indegree, release |-> sort.ready, relax |-> sort.ready,
                 ready |-> {}]
    BY <1>1 DEF IInv, SearchPart
  <1>3. SearchPart'
    BY <1>1, <1>2 DEF IInv, SearchPart
  <1>4. pc \in Later /\ pc' \in Later
    BY <1>1 DEF Later
  <1> QED BY <1>1, <1>3, <1>4, QuietKeeps

LEMMA EndSortKeeps ==
  ASSUME IInv, EndSort
  PROVE  IInv' /\ UNCHANGED <<graph, links>> /\ pc = "sort" /\ pc' \in {"path", "failed"}
PROOF
  <1>1. pc = "sort" /\ pc \in Later
    BY DEF EndSort, Later
  <1>2. CASE Fail
    BY <1>1, <1>2, FailKeeps
  <1>3. CASE ~Fail
    <2>1. /\ pc' = "path" /\ started' \subseteq Kinds
          /\ UNCHANGED <<trace, insts, graph, skew, links, done, adding, changed, sort, dist>>
      BY <1>3 DEF EndSort, threads, search, IInv, ThreadPart
    <2>2. SearchPart'
      BY <2>1 DEF IInv, SearchPart
    <2>3. pc' \in Later
      BY <2>1 DEF Later
    <2> QED BY <1>1, <2>1, <2>2, <2>3, QuietKeeps
  <1> QED BY <1>2, <1>3

-----------------------------------------------------------------------------
(***************************************************************************)
(* if_exist_edge: the thread goes on, or has found no edge where it is     *)
(* about to add one.                                                       *)
(***************************************************************************)
LEMMA CheckEdgeKeeps ==
  ASSUME IInv, NEW t \in DOMAIN links, CheckEdge(t)
  PROVE  IInv' /\ UNCHANGED <<pc, graph, links>>
PROOF
  <1>1. /\ t \in Threads(skew) /\ done \in [Threads(skew) -> Nat] /\ t \notin adding
        /\ done[t] + 1 \in DOMAIN links[t]
        /\ UNCHANGED <<trace, pc, insts, graph, skew, started, links, sort, dist, changed>>
    BY DEF CheckEdge, Busy, search, IInv, ThreadPart
  <1>2. pc # "read"
    BY <1>1 DEF IInv, ThreadPart
  <1>3. \/ adding' = adding /\ done' = [done EXCEPT ![t] = @ + 1]
        \/ /\ adding' = adding \cup {t} /\ done' = done
           /\ ~SameNode(insts, Link(t)[1], Link(t)[2]) /\ Link(t) \notin DOMAIN graph
    BY DEF CheckEdge, Proceed
  <1>4. done' \in [Threads(skew) -> Nat]
    BY <1>1, <1>3
  <1>5. ASSUME NEW s \in adding'
        PROVE  /\ done'[s] + 1 \in DOMAIN links[s]
               /\ links[s][done'[s] + 1] \notin DependencesOf(graph)
               /\ ~SameNode(insts, links[s][done'[s] + 1][1], links[s][done'[s] + 1][2])
    <2>1. CASE s = t
      BY <1>1, <1>3, <2>1 DEF DependencesOf, Link
    <2>2. CASE s # t
      <3>1. s \in adding /\ s \in Threads(skew)
        BY <1>3, <1>5, <2>2 DEF IInv, ThreadPart
      <3>2. done'[s] = done[s]
        BY <1>1, <1>3, <2>2, <3>1
      <3> QED BY <3>1, <3>2 DEF IInv, ThreadPart, Link
    <2> QED BY <2>1, <2>2
  <1>6. adding' \subseteq Threads(skew)
    BY <1>1, <1>3 DEF IInv, ThreadPart
  <1>7. ThreadPart'
    BY <1>1, <1>2, <1>4, <1>5, <1>6 DEF IInv, ThreadPart, Link
  <1>8. TracePart'
    BY <1>1 DEF IInv, TracePart
  <1>9. GraphPart'
    BY <1>1 DEF IInv, GraphPart
  <1>10. SearchPart'
    BY <1>1 DEF IInv, SearchPart
  <1> QED BY <1>1, <1>7, <1>8, <1>9, <1>10 DEF IInv

(***************************************************************************)
(* add_edge: whatever happened since the check, no dependence is replaced. *)
(***************************************************************************)
LEMMA PutEdgeKeeps ==
  ASSUME IInv, NEW t \in DOMAIN links, PutEdge(t), pc' \in {pc, "failed"}
  PROVE  /\ IInv'
         /\ pc # "read" /\ links' = links
         /\ Link(t) \in Wanted \ DependencesOf(graph)
         /\ Extends(graph', graph, {Link(t)})
PROOF
  <1> DEFINE p == Link(t)
             h == WithVirtual(graph, insts, p)
  <1>1. /\ t \in adding /\ adding' = adding \ {t} /\ done' = [done EXCEPT ![t] = @ + 1]
        /\ graph' = h
        /\ UNCHANGED <<trace, insts, skew, started, links, sort, dist>>
    BY DEF PutEdge, Proceed, search, WithVirtual
  <1>2. pc # "read" /\ pc' # "read"
    BY <1>1 DEF IInv, ThreadPart
  <1>3. /\ t \in Threads(skew) /\ done[t] + 1 \in DOMAIN links[t] /\ p \in MayLink(insts)
        /\ p \notin DependencesOf(graph) /\ ~SameNode(insts, p[1], p[2])
    BY <1>1 DEF IInv, ThreadPart, Link
  <1>4. p \in Wanted
    BY <1>3 DEF Wanted, Link
  <1>5. IsInOrder(insts) /\ Len(insts) \in DOMAIN insts
    BY <1>2, InstsInOrder DEF IInv
  <1>6. /\ IsGraph(h, insts) /\ LeadForward(h, insts) /\ Extends(h, graph, {p})
        /\ DOMAIN h = DOMAIN graph \cup {p}
    <2>1. IsGraph(graph, insts) /\ LeadForward(graph, insts)
      BY DEF IInv, GraphPart
    <2> HIDE DEF p
    <2>2. MayAdd(graph, insts, p)
      BY <1>3, <1>5, <2>1 DEF MayAdd
    <2>3. IsAdded(h, graph, insts, p)
      BY <2>2, AddVirtualEdge
    <2> QED BY <2>3 DEF IsAdded
  <1> HIDE DEF p, h
  <1>7. TracePart'
    <2>1. changed' \in BOOLEAN
      <3>1. changed' = (changed \/ (pc \in {"sort", "path"} /\ DOMAIN graph' # DOMAIN graph))
        BY DEF PutEdge
      <3> QED BY <3>1, Zenon
    <2>2. /\ trace' \in Traces /\ ReadFrom(insts', trace') /\ Len(insts') = Len(trace')
          /\ pc' \in {"read", "join", "sort", "path", "done", "failed"}
      BY <1>1, <1>2 DEF IInv, TracePart
    <2> QED BY <2>1, <2>2, Zenon DEF TracePart
  <1>8. GraphPart'
    BY <1>1, <1>2, <1>6 DEF IInv, GraphPart
  <1>9. ThreadPart'
    <2>1. done \in [Threads(skew) -> Nat]
      BY DEF IInv, ThreadPart
    <2>2. done' \in [Threads(skew) -> Nat]
      BY <1>1, <1>3, <2>1
    <2>3. ASSUME NEW s \in adding'
          PROVE  /\ done'[s] + 1 \in DOMAIN links[s]
                 /\ links[s][done'[s] + 1] \notin DependencesOf(graph')
                 /\ ~SameNode(insts, links[s][done'[s] + 1][1], links[s][done'[s] + 1][2])
      <3>1. s \in adding /\ s # t /\ s \in Threads(skew)
        BY <1>1 DEF IInv, ThreadPart
      <3>2. done'[s] = done[s]
        BY <1>1, <2>1, <3>1
      <3>3. DependencesOf(graph') = DependencesOf(graph)
        BY <1>1, <1>6 DEF Extends
      <3> QED BY <3>1, <3>2, <3>3 DEF IInv, ThreadPart, Link
    <2> QED BY <1>1, <1>2, <2>2, <2>3 DEF IInv, ThreadPart, Link
  <1>10. SearchPart'
    BY <1>1 DEF IInv, SearchPart
  <1> QED BY <1>1, <1>2, <1>3, <1>4, <1>6, <1>7, <1>8, <1>9, <1>10 DEF IInv, p

-----------------------------------------------------------------------------
(***************************************************************************)
(* The edge the main thread adds where nothing leads from x to y.          *)
(***************************************************************************)
LEMMA BridgeKeeps ==
  ASSUME TracePart, pc # "read", NEW g, IsGraph(g, insts), LeadForward(g, insts), NEW paths,
         NEW x \in Events(insts), NEW y \in Events(insts),
         x = source_node \/ y = sink_node(insts)
  PROVE  LET h == Bridge(g, paths, x, y)
         IN  /\ IsGraph(h, insts) /\ LeadForward(h, insts) /\ DOMAIN g \subseteq DOMAIN h
             /\ \E P \in SUBSET {<<x, y>>} : Extends(h, g, P)
PROOF
  <1> DEFINE h == Bridge(g, paths, x, y)
             p == <<x, y>>
  <1>1. IsInOrder(insts) /\ Len(insts) \in DOMAIN insts
    BY InstsInOrder
  <1>2. CASE paths # {} \/ SameNode(insts, x, y) \/ <<x, y>> \in DOMAIN g
    <2>1. h = g
      BY <1>2 DEF Bridge
    <2>2. Extends(g, g, {})
      BY DEF Extends
    <2> QED BY <2>1, <2>2
  <1>3. CASE ~(paths # {} \/ SameNode(insts, x, y) \/ <<x, y>> \in DOMAIN g)
    <2>1. h = WithVirtual(g, insts, p)
      BY <1>3 DEF Bridge, WithVirtual
    <2>2. p \in MayLink(insts)
      BY <1>1, EventTime DEF MayLink
    <2>3. p \notin DependencesOf(g) /\ ~SameNode(insts, p[1], p[2])
      BY <1>3 DEF DependencesOf
    <2> HIDE DEF h
    <2> DEFINE a == WithVirtual(g, insts, p)
    <2>4. /\ IsGraph(a, insts) /\ LeadForward(a, insts) /\ Extends(a, g, {p})
          /\ DOMAIN a = DOMAIN g \cup {p}
      <3> HIDE DEF p
      <3>1. MayAdd(g, insts, p)
        BY <1>1, <2>2, <2>3 DEF MayAdd
      <3>2. IsAdded(a, g, insts, p)
        BY <3>1, AddVirtualEdge
      <3> QED BY <3>2 DEF IsAdded
    <2> HIDE DEF a
    <2> QED BY <2>1, <2>4 DEF h, a
  <1> QED BY <1>2, <1>3

(***************************************************************************)
(* Report adds at most the two links that complete the path.               *)
(***************************************************************************)
LEMMA ReportKeeps ==
  ASSUME IInv, Report
  PROVE  /\ IInv' /\ links' = links
         /\ pc = "path" /\ pc' \in {"done", "failed"}
         /\ \E p, q : /\ p[1] = source_node /\ q[2] = sink_node(insts)
                      /\ \E P \in SUBSET {p, q} : Extends(graph', graph, P)
PROOF
  <1>1. pc = "path" /\ pc \in Later /\ pc # "read"
    BY DEF Report, Later
  <1>2. CASE Fail
    <2>1. IInv' /\ UNCHANGED <<graph, links>> /\ pc' = "failed"
      BY <1>1, <1>2, FailKeeps
    <2>2. Extends(graph', graph, {})
      BY <2>1 DEF Extends
    <2> DEFINE p == <<source_node, source_node>>
               q == <<source_node, sink_node(insts)>>
    <2>3. p[1] = source_node /\ q[2] = sink_node(insts) /\ {} \in SUBSET {p, q}
      OBVIOUS
    <2> HIDE DEF p, q
    <2> QED BY <1>1, <2>1, <2>2, <2>3
  <1>3. CASE ~Fail
    <2>1. PICK end \in Ends(dist) :
            LET path == IF dist[end][1] = 0 THEN <<>> ELSE PathTo(dist, end)
                first == path[1]
                sink == sink_node(insts)
                heads == ShortestPaths(graph, source_node, first)
                tails == ShortestPaths(graph, end, sink)
            IN  IF path = <<>> \/ first \notin Nodes(graph) THEN Fail
                ELSE \E head \in Connections(heads, source_node, first),
                        tail \in Connections(tails, end, sink) :
                       /\ graph' = Bridge(Bridge(graph, heads, source_node, first), tails,
                                          end, sink)
                       /\ critical' = Front(head) \o path \o Tail(tail)
                       /\ pc' = IF /\ IsWalk(graph', critical')
                                   /\ Length(graph', critical')
                                        = timing(insts, sink) - timing(insts, source_node)
                                THEN "done" ELSE "failed"
                       /\ UNCHANGED <<trace, insts, threads, sort, dist, changed>>
      BY Zenon DEF Report
    <2> DEFINE first == (IF dist[end][1] = 0 THEN <<>> ELSE PathTo(dist, end))[1]
               sink == sink_node(insts)
               heads == ShortestPaths(graph, source_node, first)
               tails == ShortestPaths(graph, end, sink)
               g == Bridge(graph, heads, source_node, first)
    <2>2. /\ first \in Nodes(graph) /\ graph' = Bridge(g, tails, end, sink)
          /\ pc' \in {"done", "failed"}
          /\ UNCHANGED <<trace, insts, threads, sort, dist, changed>>
      BY <1>3, <2>1
    <2> HIDE DEF first, heads, tails
    <2>3. /\ first \in Events(insts) /\ end \in Events(insts)
          /\ source_node \in Events(insts) /\ sink \in Events(insts)
      <3>1. first \in Events(insts)
        BY <2>2, NodesAreEvents DEF IInv
      <3>2. end \in Events(insts)
        BY <2>1 DEF Ends, IInv, SearchPart
      <3> QED BY <1>1, <3>1, <3>2, InstsInOrder, EventTime DEF IInv
    <2>4. TracePart /\ IsGraph(graph, insts) /\ LeadForward(graph, insts)
      BY DEF IInv, GraphPart
    <2>5. /\ IsGraph(g, insts) /\ LeadForward(g, insts) /\ DOMAIN graph \subseteq DOMAIN g
          /\ \E P \in SUBSET {<<source_node, first>>} : Extends(g, graph, P)
      BY <1>1, <2>3, <2>4, BridgeKeeps
    <2> HIDE DEF g
    <2>6. /\ IsGraph(graph', insts) /\ LeadForward(graph', insts)
          /\ DOMAIN g \subseteq DOMAIN graph'
          /\ \E P \in SUBSET {<<end, sink>>} : Extends(graph', g, P)
      <3> DEFINE h == Bridge(g, tails, end, sink)
      <3>1. /\ IsGraph(h, insts) /\ LeadForward(h, insts) /\ DOMAIN g \subseteq DOMAIN h
            /\ \E P \in SUBSET {<<end, sink>>} : Extends(h, g, P)
        BY <1>1, <2>3, <2>4, <2>5, BridgeKeeps
      <3> HIDE DEF h
      <3> QED BY <2>2, <3>1 DEF h
    <2>7. PICK P \in SUBSET {<<source_node, first>>} : Extends(g, graph, P)
      BY <2>5
    <2>8. PICK Q \in SUBSET {<<end, sink>>} : Extends(graph', g, Q)
      BY <2>6
    <2>9. Extends(graph', graph, P \cup Q)
      BY <2>7, <2>8 DEF Extends
    <2>10. P \cup Q \in SUBSET {<<source_node, first>>, <<end, sink>>}
      OBVIOUS
    <2>11. UNCHANGED <<trace, insts, skew, started, links, done, adding, sort, dist, changed>>
      BY <2>2 DEF threads
    <2>12. pc' # "read"
      BY <2>2
    <2>13. TracePart'
      <3>1. /\ trace' \in Traces /\ changed' \in BOOLEAN
            /\ ReadFrom(insts', trace') /\ Len(insts') = Len(trace')
        BY <1>1, <2>11 DEF IInv, TracePart
      <3>2. pc' \in {"read", "join", "sort", "path", "done", "failed"}
        BY <2>2
      <3> QED BY <3>1, <3>2, Zenon DEF TracePart
    <2>14. GraphPart'
      BY <2>5, <2>6, <2>11, <2>12 DEF IInv, GraphPart
    <2>15. ThreadPart'
      <3>1. DependencesOf(graph') = DependencesOf(graph)
        BY <2>9 DEF Extends
      <3> QED BY <2>11, <2>12, <3>1 DEF IInv, ThreadPart, Link
    <2>16. SearchPart'
      BY <2>11 DEF IInv, SearchPart
    <2> DEFINE p == <<source_node, first>>
               q == <<end, sink>>
    <2>17. p[1] = source_node /\ q[2] = sink_node(insts) /\ P \cup Q \in SUBSET {p, q}
      BY <2>10
    <2> HIDE DEF p, q
    <2> QED BY <1>1, <2>2, <2>9, <2>11, <2>13, <2>14, <2>15, <2>16, <2>17 DEF IInv
  <1> QED BY <1>2, <1>3

-----------------------------------------------------------------------------
LEMMA NextKeeps ==
  ASSUME IInv, [Next]_vars
  PROVE  IInv'
PROOF
  <1>1. CASE Read
    BY <1>1, ReadKeeps
  <1>2. CASE Construct
    BY <1>2, ConstructKeeps
  <1>3. CASE Join
    BY <1>3, JoinKeeps
  <1>4. CASE ReleaseGeneration
    BY <1>4, ReleaseKeeps
  <1>5. CASE NextGeneration
    BY <1>5, NextGenerationKeeps
  <1>6. CASE EndSort
    BY <1>6, EndSortKeeps
  <1>7. CASE Report
    BY <1>7, ReportKeeps
  <1>8. ASSUME NEW x \in sort.relax, Relax(x) PROVE IInv'
    BY <1>8, RelaxKeeps
  <1>9. ASSUME NEW kind \in Kinds, StartWorkers(kind) PROVE IInv'
    BY <1>9, StartWorkersKeeps
  <1>10. ASSUME NEW t \in DOMAIN links, Step(t) PROVE IInv'
    <2>1. CASE CheckEdge(t)
      BY <2>1, CheckEdgeKeeps
    <2>2. CASE AddEdge(t)
      <3>1. PutEdge(t) /\ pc' \in {pc, "failed"}
        BY <2>2 DEF AddEdge
      <3> QED BY <3>1, PutEdgeKeeps
    <2>3. CASE InterruptSort(t)
      <3>1. PutEdge(t) /\ pc' \in {pc, "failed"}
        BY <2>3 DEF InterruptSort
      <3> QED BY <3>1, PutEdgeKeeps
    <2> QED BY <1>10, <2>1, <2>2, <2>3 DEF Step
  <1>11. CASE UNCHANGED vars
    <2>1. UNCHANGED <<trace, pc, insts, graph, skew, started, links, done, adding, sort, dist,
                      changed>>
      BY <1>11 DEF vars
    <2>2. TracePart' /\ GraphPart' /\ SearchPart'
      BY <2>1 DEF IInv, TracePart, GraphPart, SearchPart
    <2>3. ThreadPart'
      BY <2>1 DEF IInv, ThreadPart, Link
    <2> QED BY <2>2, <2>3 DEF IInv
  <1> QED
    BY <1>1, <1>2, <1>3, <1>4, <1>5, <1>6, <1>7, <1>8, <1>9, <1>10, <1>11
    DEF Next, Main, Terminated

(***************************************************************************)
(* The inductive invariant: between its check and its addition a thread    *)
(* can rely on what it found, because only virtual edges are added then.   *)
(***************************************************************************)
THEOREM IInvHolds == Spec => []IInv
PROOF
  <1>1. IInv /\ [Next]_vars => IInv'
    BY NextKeeps
  <1> QED BY InitIInv, <1>1, PTL DEF Spec

(***************************************************************************)
(* The virtual edges of the Python graph never lead back in time and never *)
(* make a cycle with the dependences, for every set of well-formed traces  *)
(* and every interleaving of the threads (add_virtual_edge).               *)
(***************************************************************************)
THEOREM VirtualForward == Spec => []VirtualEdgesLeadForward
PROOF
  <1>1. IInv => VirtualEdgesLeadForward
    BY DEF IInv, GraphPart, LeadForward, VirtualOf, VirtualEdgesLeadForward, VirtualPairs
  <1> QED BY <1>1, IInvHolds, PTL

(***************************************************************************)
(* The state of the analysis is well typed: the threads add edges between  *)
(* vertices of the trace only.                                             *)
(***************************************************************************)
THEOREM Typed == Spec => []TypeOK
PROOF
  <1>1. ASSUME IInv PROVE TypeOK
    <2>1. Events(insts) \subseteq Vertex
      BY DEF Events
    <2>2. /\ trace \in Traces /\ insts \in Seq(Instruction) /\ changed \in BOOLEAN
          /\ pc \in {"read", "join", "sort", "path", "done", "failed"}
      BY <1>1 DEF IInv, TracePart, ReadFrom
    <2>3. /\ DOMAIN graph \subseteq Vertex \X Vertex
          /\ \A p \in DOMAIN graph : graph[p] \in Label
          /\ skew \subseteq DOMAIN graph
      BY <1>1, <2>1 DEF IInv, GraphPart, IsGraph
    <2>4. /\ started \subseteq Kinds
          /\ DOMAIN links = Threads(skew) /\ adding \subseteq Threads(skew)
      BY <1>1 DEF IInv, ThreadPart
    <2>5. ASSUME NEW t \in Threads(skew)
          PROVE  /\ \A k \in DOMAIN links[t] : links[t][k] \in Vertex \X Vertex
                 /\ done[t] \in Nat
      <3>1. MayLink(insts) \subseteq Vertex \X Vertex
        BY <2>1 DEF MayLink
      <3> QED BY <1>1, <3>1 DEF IInv, ThreadPart
    <2>6. DOMAIN dist \subseteq Vertex
      BY <1>1, <2>1 DEF IInv, SearchPart
    <2> QED BY <2>2, <2>3, <2>4, <2>5, <2>6, Zenon DEF TypeOK
  <1> QED BY <1>1, IInvHolds, PTL

-----------------------------------------------------------------------------
(* a step that leaves the graph, the links and the state as they are *)
LEMMA QuietIsStutter ==
  ASSUME UNCHANGED <<insts, graph, links>>, State' = State
  PROVE  UNCHANGED Abstract!vars
PROOF
  BY DEF Abstract!vars, Dependences, VirtualPairs, Wanted

(* only Read adds an instruction *)
LEMMA InstsStay ==
  ASSUME [Next]_vars, ~Read
  PROVE  insts' = insts
PROOF
  <1>1. Fail => insts' = insts
    BY DEF Fail
  <1>2. Construct \/ Join \/ NextGeneration => insts' = insts
    BY DEF Construct, Join, StartSort, NextGeneration
  <1>3. ReleaseGeneration => insts' = insts
    BY <1>1, Zenon DEF ReleaseGeneration
  <1>4. EndSort => insts' = insts
    BY <1>1, Zenon DEF EndSort
  <1>5. Report => insts' = insts
    BY <1>1, Zenon DEF Report
  <1>6. ASSUME NEW x, Relax(x) PROVE insts' = insts
    BY <1>1, <1>6, Zenon DEF Relax
  <1>7. ASSUME NEW kind, StartWorkers(kind) PROVE insts' = insts
    BY <1>7 DEF StartWorkers
  <1>8. ASSUME NEW t, Step(t) PROVE insts' = insts
    BY <1>8, Zenon DEF Step, CheckEdge, AddEdge, InterruptSort, PutEdge
  <1>9. UNCHANGED vars => insts' = insts
    BY DEF vars
  <1> QED BY <1>2, <1>3, <1>4, <1>5, <1>6, <1>7, <1>8, <1>9, Zenon DEF Next, Main, Terminated

(* a step that adds virtual edges leaves the dependences as they are *)
LEMMA ExtendsKeepsDependences ==
  ASSUME NEW P, Extends(graph', graph, P)
  PROVE  /\ [p \in Dependences |-> graph[p]]' = [p \in Dependences |-> graph[p]]
         /\ VirtualPairs' = VirtualPairs \cup P
         /\ Dependences' = Dependences
         /\ DOMAIN [p \in Dependences |-> graph[p]] = DependencesOf(graph)
PROOF
  <1>1. Dependences = DependencesOf(graph) /\ Dependences' = DependencesOf(graph')
    BY DEF Dependences, VirtualPairs, DependencesOf, VirtualOf
  <1>2. VirtualPairs = VirtualOf(graph) /\ VirtualPairs' = VirtualOf(graph')
    BY DEF VirtualPairs, VirtualOf
  <1> QED BY <1>1, <1>2 DEF Extends

(* the three ways a step may map to a step of InducedGraph *)
LEMMA StepMaps ==
  ASSUME IInv, [Next]_vars
  PROVE  [Abstract!Next]_(Abstract!vars)
PROOF
  <1> USE DEF State
  <1> DEFINE deps == [p \in Dependences |-> graph[p]]
  <1>1. CASE Read
    <2>1. /\ pc = "read" /\ pc' = "read" /\ links' = links
      BY <1>1 DEF Read, threads
    <2>2. /\ DOMAIN graph \subseteq DOMAIN graph'
          /\ \A p \in DOMAIN graph : graph'[p] = graph[p]
          /\ VirtualPairs = {} /\ VirtualPairs' = {}
      BY <1>1, ReadKeeps DEF VirtualOf, VirtualPairs
    <2>3. Dependences = DOMAIN graph /\ Dependences' = DOMAIN graph'
      BY <2>2 DEF Dependences
    <2>4. \A p \in DOMAIN deps : p \in DOMAIN deps' /\ deps'[p] = deps[p]
      BY <2>2, <2>3
    <2>5. State = "reading" /\ State' = "reading" /\ Wanted' = Wanted
      BY <2>1 DEF Wanted
    <2>6. Len(insts') = Len(insts) + 1 /\ \A k \in 1 .. Len(insts) : insts'[k] = insts[k]
      BY <1>1, ReadKeeps
    <2>7. Abstract!Read
      BY <2>2, <2>4, <2>5, <2>6 DEF Abstract!Read
    <2> QED BY <2>7 DEF Abstract!Next
  <1>2. CASE Construct
    <2>1. State = "reading" /\ State' = "connecting" /\ graph' = graph
      BY <1>2 DEF Construct
    <2>2. skew' = SkewEdges(graph) /\ insts' = insts /\ pc = "read"
      BY <1>2 DEF Construct
    <2>3. PICK time \in Orders("timestamp", insts, skew'), seq \in Orders("seq", insts, skew') :
            links' = [t \in Threads(skew') |->
                        Links(insts, IF t[1] = "timestamp" THEN time ELSE seq, t)]
      BY <1>2 DEF Construct
    <2>4. Dependences = DOMAIN graph /\ DOMAIN deps = Dependences
      BY <2>2 DEF IInv, GraphPart, VirtualOf, Dependences, VirtualPairs
    <2> DEFINE Asked(t) == LET l == Links(insts, IF t[1] = "timestamp" THEN time ELSE seq, t)
                           IN  {l[k] : k \in DOMAIN l}
    <2>5. Wanted' = UNION {Asked(t) : t \in Threads(skew')}
      <3>1. DOMAIN links' = Threads(skew')
        BY <2>3
      <3>2. \A t \in Threads(skew') : {links'[t][k] : k \in DOMAIN links'[t]} = Asked(t)
        BY <2>3
      <3>3. Wanted' = UNION {{links'[t][k] : k \in DOMAIN links'[t]} : t \in Threads(skew')}
        BY <3>1 DEF Wanted
      <3> HIDE DEF Asked
      <3> QED BY <3>2, <3>3
    <2>6. skew' = {p \in DOMAIN deps : p[1][1] # p[2][1]}
      BY <2>2, <2>4 DEF SkewEdges
    <2> HIDE DEF deps
    <2>7. Wanted' \in AskedFor(insts, DOMAIN deps)
      <3>1. Wanted' = AsksWith(insts, skew', time, seq)
        BY <2>5 DEF AsksWith
      <3> DEFINE S == {p \in DOMAIN deps : p[1][1] # p[2][1]}
      <3>2. Wanted' = AsksWith(insts, S, time, seq)
        BY <2>6, <3>1
      <3>3. time \in Orders("timestamp", insts, S) /\ seq \in Orders("seq", insts, S)
        BY <2>3, <2>6
      <3>4. AskedFor(insts, DOMAIN deps)
              = {AsksWith(insts, S, u, v) : u \in Orders("timestamp", insts, S),
                                            v \in Orders("seq", insts, S)}
        BY DEF AskedFor
      <3> HIDE DEF S
      <3> QED BY <3>2, <3>3, <3>4
    <2>8. UNCHANGED <<deps, VirtualPairs>>
      BY <2>1 DEF deps, Dependences, VirtualPairs
    <2>9. Abstract!Seal
      BY <2>1, <2>2, <2>7, <2>8 DEF Abstract!Seal, deps
    <2> QED BY <2>9 DEF Abstract!Next
  <1>3. CASE /\ insts' = insts
             /\ \/ UNCHANGED <<graph, links>> /\ pc \in {"join", "sort"} /\ pc' \in {"sort", "path"}
                \/ UNCHANGED <<pc, graph, links>>
    <2>1. UNCHANGED Abstract!vars
      BY <1>3, QuietIsStutter
    <2> QED BY <2>1
  <1>4. CASE UNCHANGED <<insts, graph, links>> /\ pc = "sort" /\ pc' = "failed"
    <2>1. UNCHANGED <<insts, deps, Wanted, VirtualPairs>> /\ State = "connecting" /\ State' = "failed"
      BY <1>4 DEF Dependences, VirtualPairs, Wanted
    <2>2. VirtualPairs' \cap DOMAIN deps = {}
      BY <2>1 DEF Dependences
    <2>3. Abstract!End
      <3>1. <<>> \in VirtualPairs' \cup {<<>>} /\ VirtualPairs' \ VirtualPairs \subseteq {<<>>, <<>>}
        BY <2>1
      <3> QED BY <2>1, <2>2, <3>1 DEF Abstract!End
    <2> QED BY <2>3 DEF Abstract!Next
  <1>5. CASE Report
    <2>1. /\ links' = links /\ pc = "path" /\ pc' \in {"done", "failed"} /\ insts' = insts
      BY <1>5, ReportKeeps, InstsStay DEF Read
    <2>2. PICK p, q, P : P \in SUBSET {p, q} /\ Extends(graph', graph, P)
      BY <1>5, ReportKeeps
    <2>3. /\ deps' = deps /\ VirtualPairs' = VirtualPairs \cup P /\ Dependences' = Dependences
      BY <2>2, ExtendsKeepsDependences
    <2>4. /\ State = "connecting" /\ State' \in {"reported", "failed"} /\ Wanted' = Wanted
          /\ insts' = insts
      BY <2>1 DEF Wanted
    <2>5. VirtualPairs' \cap DOMAIN deps = {}
      <3>1. VirtualPairs' \cap Dependences' = {}
        BY DEF Dependences
      <3> QED BY <2>3, <3>1
    <2> DEFINE a == IF p \in P THEN p ELSE <<>>
               b == IF q \in P THEN q ELSE <<>>
    <2>6. /\ a \in VirtualPairs' \cup {<<>>} /\ b \in VirtualPairs' \cup {<<>>}
          /\ VirtualPairs' \ VirtualPairs \subseteq {a, b}
      BY <2>2, <2>3
    <2> HIDE DEF a, b, deps
    <2>7. Abstract!End
      BY <2>3, <2>4, <2>5, <2>6 DEF Abstract!End, deps
    <2> QED BY <2>7 DEF Abstract!Next
  <1>6. ASSUME NEW t \in DOMAIN links, PutEdge(t), pc' \in {pc, "failed"},
               pc' # pc => pc \in {"sort", "path"}
        PROVE  Abstract!Next
    <2>1. /\ pc # "read" /\ links' = links
          /\ Link(t) \in Wanted \ DependencesOf(graph)
          /\ Extends(graph', graph, {Link(t)})
      BY <1>6, PutEdgeKeeps
    <2>2. /\ deps' = deps /\ VirtualPairs' = VirtualPairs \cup {Link(t)}
          /\ DOMAIN deps = DependencesOf(graph)
      BY <2>1, ExtendsKeepsDependences
    <2>3. Wanted' = Wanted /\ insts' = insts
      BY <1>6, <2>1 DEF Wanted, PutEdge
    <2>4. pc \in {"join", "sort", "path", "done", "failed"}
      BY <2>1 DEF IInv, TracePart
    <2> HIDE DEF deps
    <2>5. CASE pc' = pc
      <3>1. State # "reading" /\ State' = State
        BY <2>4, <2>5
      <3>2. Abstract!Connect
        BY <2>1, <2>2, <2>3, <3>1 DEF Abstract!Connect, deps
      <3> QED BY <3>2 DEF Abstract!Next
    <2>6. CASE pc' # pc
      <3>1. State = "connecting" /\ State' = "failed"
        BY <1>6, <2>6
      <3>2. Abstract!Break
        BY <2>1, <2>2, <2>3, <3>1 DEF Abstract!Break, deps
      <3> QED BY <3>2 DEF Abstract!Next
    <2> QED BY <2>5, <2>6
  <1>7. ASSUME NEW t \in DOMAIN links, Step(t) PROVE [Abstract!Next]_(Abstract!vars)
    <2>1. CASE CheckEdge(t)
      BY <1>3, <2>1, CheckEdgeKeeps DEF CheckEdge
    <2>2. CASE AddEdge(t)
      BY <1>6, <2>2 DEF AddEdge
    <2>3. CASE InterruptSort(t)
      BY <1>6, <2>3 DEF InterruptSort, Iterates
    <2> QED BY <1>7, <2>1, <2>2, <2>3 DEF Step
  <1>8. CASE Join
    BY <1>3, <1>8, JoinKeeps, InstsStay DEF Read
  <1>9. CASE ReleaseGeneration
    BY <1>3, <1>4, <1>9, ReleaseKeeps, InstsStay DEF Read
  <1>10. CASE NextGeneration
    BY <1>3, <1>10, NextGenerationKeeps, InstsStay DEF Read
  <1>11. CASE EndSort
    BY <1>3, <1>4, <1>11, EndSortKeeps, InstsStay DEF Read
  <1>12. ASSUME NEW x \in sort.relax, Relax(x) PROVE [Abstract!Next]_(Abstract!vars)
    BY <1>3, <1>4, <1>12, RelaxKeeps, InstsStay DEF Read
  <1>13. ASSUME NEW kind \in Kinds, StartWorkers(kind) PROVE [Abstract!Next]_(Abstract!vars)
    BY <1>3, <1>13, StartWorkersKeeps DEF StartWorkers
  <1>14. CASE UNCHANGED vars
    BY <1>3, <1>14 DEF vars
  <1> QED
    BY <1>1, <1>2, <1>5, <1>7, <1>8, <1>9, <1>10, <1>11, <1>12, <1>13, <1>14
    DEF Next, Main, Terminated

(***************************************************************************)
(* The threads implement the sequential account of the induced graph, for  *)
(* every set of well-formed traces: the edges asked for follow from the    *)
(* instructions and the dependences, no dependence is ever replaced, every *)
(* virtual edge is one of those, and the analysis ends once.               *)
(***************************************************************************)
THEOREM Implements == Spec => ImplementsInducedGraph
PROOF
  <1>1. Init => Abstract!Init
    <2> SUFFICES ASSUME Init PROVE Abstract!Init
      OBVIOUS
    <2>1. /\ pc = "read" /\ graph = [p \in {} |-> p] /\ links = [t \in Threads({}) |-> <<>>]
          /\ insts = <<>>
      BY DEF Init
    <2>2. Dependences = {} /\ VirtualPairs = {} /\ Wanted = {}
      BY <2>1 DEF Dependences, VirtualPairs, Wanted
    <2>3. [p \in Dependences |-> graph[p]] = [p \in {} |-> p]
      BY <2>2
    <2> QED BY <2>1, <2>2, <2>3 DEF Abstract!Init, State
  <1>2. IInv /\ [Next]_vars => [Abstract!Next]_(Abstract!vars)
    BY StepMaps
  <1> QED BY <1>1, <1>2, IInvHolds, PTL DEF Spec, ImplementsInducedGraph, Abstract!Spec
-----------------------------------------------------------------------------
(***************************************************************************)
(* What InducedGraphIsDetermined needs of the sorted list of the skewed    *)
(* edges S: it has every edge once, in the order of the sort, and the      *)
(* tails that may follow an end of an entry come after that entry.         *)
(***************************************************************************)
IsSkew(w, S) == /\ S \subseteq Events(w) \X Events(w) /\ IsFiniteSet(S)
                /\ \A p \in S : IsDependence(w, p)

(* the entry p is before the entry q in the list of the kind *)
Before(kind, w, p, q) == IF kind = "timestamp" THEN ByTimestamp(w, p, q) ELSE ByNode(p, q)

(* the parts of an edge of S that the sorts compare *)
LEMMA SkewEdgeIs ==
  ASSUME NEW w, IsTrace(w), NEW S, IsSkew(w, S), NEW p \in S
  PROVE  /\ p = <<p[1], p[2]>>
         /\ p[1] = <<p[1][1], p[1][2]>>
         /\ p[1] \in Events(w) /\ p[2] \in Events(w)
         /\ p[1][1] \in Nat \ {0} /\ p[2][1] \in Nat \ {0} /\ p[1][1] < p[2][1]
         /\ p[1][2] \in TailStages /\ p[2][2] \in HeadStages /\ Rank[p[1][2]] \in Nat
         /\ timing(w, p[1]) \in Nat /\ timing(w, p[2]) \in Nat
         /\ timing(w, p[1]) <= timing(w, p[2])
PROOF
  <1>1. p \in Events(w) \X Events(w) /\ IsDependence(w, p)
    BY DEF IsSkew
  <1>2. p = <<p[1], p[2]>> /\ p[1] \in Events(w) /\ p[2] \in Events(w)
    BY <1>1
  <1>3. p[1] \in Vertex /\ p[2] \in Vertex
    BY <1>2 DEF Events
  <1>4. p[1] = <<p[1][1], p[1][2]>> /\ p[1][1] \in Nat \ {0} /\ p[2][1] \in Nat \ {0}
    BY <1>3 DEF Vertex
  <1>5. timing(w, p[1]) \in Nat /\ timing(w, p[2]) \in Nat
    BY <1>2, EventIsTimed
  <1>6. p[1][2] \in TailStages
    BY <1>1 DEF IsDependence
  <1>7. Rank[p[1][2]] \in Nat
    BY <1>6 DEF TailStages, Rank
  <1> QED BY <1>1, <1>2, <1>4, <1>5, <1>7 DEF IsDependence

(* a stage that a skewed edge leaves is known by its rank *)
LEMMA RankTells ==
  ASSUME NEW a \in TailStages, NEW b \in TailStages, Rank[a] = Rank[b]
  PROVE  a = b
PROOF
  BY DEF TailStages, Rank

LEMMA OrderHasAll ==
  ASSUME NEW w, IsTrace(w), NEW S, IsSkew(w, S), NEW kind \in Kinds, NEW sk \in Orders(kind, w, S)
  PROVE  /\ Len(sk) = Cardinality(S) /\ Len(sk) \in Nat /\ DOMAIN sk = 1 .. Len(sk)
         /\ sk \in Seq(S)
         /\ \A i, j \in DOMAIN sk : i < j => Before(kind, w, sk[i], sk[j])
         /\ \A p \in S : \E i \in DOMAIN sk : sk[i] = p
PROOF
  <1> DEFINE n == Cardinality(S)
  <1>1. n \in Nat /\ IsFiniteSet(S)
    BY FS_CardinalityType DEF IsSkew
  <1>2. /\ sk \in [1 .. n -> S]
        /\ \A i, j \in DOMAIN sk : i < j => Before(kind, w, sk[i], sk[j])
    BY DEF Orders, Before
  <1> HIDE DEF n
  <1>3. sk \in Seq(S) /\ Len(sk) = n /\ DOMAIN sk = 1 .. n
    BY <1>1, <1>2
  <1>4. ASSUME NEW i \in 1 .. n, NEW j \in 1 .. n, i < j PROVE sk[i] # sk[j]
    <2>1. Before(kind, w, sk[i], sk[j]) /\ sk[j] \in S
      BY <1>2, <1>3, <1>4
    <2> DEFINE p == sk[j]
    <2>2. /\ p[1][1] \in Nat /\ p[2][1] \in Nat /\ Rank[p[1][2]] \in Nat
          /\ timing(w, p[1]) \in Nat
      BY <2>1, SkewEdgeIs
    <2> HIDE DEF p
    <2>3. ~Before(kind, w, p, p)
      BY <2>2 DEF Before, ByTimestamp, ByNode
    <2> QED BY <2>1, <2>3 DEF p
  <1>5. \A i, j \in 1 .. n : sk[i] = sk[j] => i = j
    <2> SUFFICES ASSUME NEW i \in 1 .. n, NEW j \in 1 .. n, sk[i] = sk[j] PROVE i = j
      OBVIOUS
    <2>1. i < j \/ j < i \/ i = j
      BY <1>1
    <2> QED BY <1>4, <2>1
  <1>6. sk \in Injection(1 .. n, S)
    BY <1>2, <1>5 DEF Injection, IsInjective
  <1>7. Cardinality(1 .. n) = n
    <2>1. 1 > n => n = 0
      BY <1>1
    <2>2. n - 1 + 1 = n
      BY <1>1
    <2> QED BY <1>1, <2>1, <2>2, FS_Interval
  <1>8. sk \in Surjection(1 .. n, S)
    BY <1>1, <1>6, <1>7, FS_Injection DEF n
  <1>9. \A p \in S : \E i \in DOMAIN sk : sk[i] = p
    BY <1>3, <1>8 DEF Surjection
  <1> QED BY <1>1, <1>2, <1>3, <1>9 DEF n

(* the positions of the list that may follow x *)
FollowersOf(w, sk, x) == {j \in DOMAIN sk : Follower(w, x, sk[j])}

LEMMA FollowersAreLater ==
  ASSUME NEW w, IsTrace(w), NEW S, IsSkew(w, S), NEW kind \in Kinds, NEW sk \in Orders(kind, w, S),
         NEW i \in DOMAIN sk, NEW x \in {sk[i][1], sk[i][2]}, NEW j \in FollowersOf(w, sk, x)
  PROVE  j \in i + 1 .. Len(sk)
PROOF
  <1> DEFINE p == sk[i]
             q == sk[j]
  <1>1. /\ Len(sk) \in Nat /\ DOMAIN sk = 1 .. Len(sk) /\ p \in S /\ q \in S
        /\ j \in DOMAIN sk /\ Follower(w, x, q)
        /\ j < i => Before(kind, w, q, p)
    BY OrderHasAll DEF FollowersOf
  <1> HIDE DEF p, q
  <1>2. /\ p[1][1] \in Nat /\ p[2][1] \in Nat /\ p[1][1] < p[2][1]
        /\ timing(w, p[1]) \in Nat /\ timing(w, p[2]) \in Nat
        /\ timing(w, p[1]) <= timing(w, p[2])
    BY <1>1, SkewEdgeIs
  <1>3. q[1][1] \in Nat /\ q[2][1] \in Nat /\ timing(w, q[1]) \in Nat
    BY <1>1, SkewEdgeIs
  <1>4. x = p[1] \/ x = p[2]
    BY DEF p
  <1>5. q[1][1] > p[1][1] /\ timing(w, q[1]) >= timing(w, p[1])
    BY <1>1, <1>2, <1>3, <1>4 DEF Follower
  <1>6. ~Before(kind, w, q, p)
    BY <1>2, <1>3, <1>5 DEF Before, ByTimestamp, ByNode
  <1>7. i # j
    BY <1>2, <1>5 DEF p, q
  <1> QED BY <1>1, <1>6, <1>7
(* Tails and ClosestTails, of any set of skewed edges *)
TailsOf(w, S, x) == {e[1] : e \in {d \in S : Follower(w, x, d)}}

ClosestInTime(w, S, x) ==
  {y \in TailsOf(w, S, x) : \A z \in TailsOf(w, S, x) : timing(w, y) <= timing(w, z)}

ClosestInOrder(w, S, x) ==
  {y \in TailsOf(w, S, x) :
     \A z \in TailsOf(w, S, x) : y[1] < z[1] \/ (y[1] = z[1] /\ Rank[y[2]] <= Rank[z[2]])}

Closest(kind, w, S, x) ==
  IF kind = "timestamp" THEN ClosestInTime(w, S, x) ELSE ClosestInOrder(w, S, x)

(* the tails of x are those of the positions that may follow it *)
LEMMA TailsAreFollowers ==
  ASSUME NEW w, IsTrace(w), NEW S, IsSkew(w, S), NEW kind \in Kinds, NEW sk \in Orders(kind, w, S),
         NEW x
  PROVE  TailsOf(w, S, x) = {sk[j][1] : j \in FollowersOf(w, sk, x)}
PROOF
  <1>1. /\ sk \in Seq(S) /\ DOMAIN sk = 1 .. Len(sk)
        /\ \A p \in S : \E i \in DOMAIN sk : sk[i] = p
    BY OrderHasAll
  <1>2. \A i \in DOMAIN sk : sk[i] \in S
    BY <1>1
  <1> QED BY <1>1, <1>2, Zenon DEF TailsOf, FollowersOf

(***************************************************************************)
(* The first position that may follow x: the search from behind the entry  *)
(* of x finds the first of the whole list.                                 *)
(***************************************************************************)
IsFirst(w, sk, x, f) ==
  /\ f \in FollowersOf(w, sk, x)
  /\ \A j \in FollowersOf(w, sk, x) : f <= j

FoundFirst(w, sk, i, x) == SelectInSubSeq(sk, i + 1, Len(sk), LAMBDA e : Follower(w, x, e))

LEMMA FirstIsFound ==
  ASSUME NEW w, IsTrace(w), NEW S, IsSkew(w, S), NEW kind \in Kinds, NEW sk \in Orders(kind, w, S),
         NEW i \in DOMAIN sk, NEW x \in {sk[i][1], sk[i][2]}
  PROVE  LET f == FoundFirst(w, sk, i, x)
         IN  IF FollowersOf(w, sk, x) = {} THEN f = 0 ELSE f # 0 /\ IsFirst(w, sk, x, f)
PROOF
  <1> DEFINE n == Len(sk)
             I == {j \in i + 1 .. n : Follower(w, x, sk[j])}
             F == FollowersOf(w, sk, x)
  <1>1. n \in Nat /\ DOMAIN sk = 1 .. n /\ i \in Nat
    BY OrderHasAll
  <1>2. I = F
    <2>1. I \subseteq F
      BY <1>1 DEF FollowersOf
    <2>2. \A j \in F : j \in i + 1 .. n
      BY FollowersAreLater
    <2>3. \A j \in F : Follower(w, x, sk[j])
      BY DEF FollowersOf
    <2> QED BY <2>1, <2>2, <2>3
  <1>3. FoundFirst(w, sk, i, x) = IF I # {} THEN Min(I) ELSE 0
    BY DEF FoundFirst, SelectInSubSeq
  <1>4. I \subseteq 1 .. n
    BY <1>1
  <1> HIDE DEF I, n
  <1>5. ASSUME I # {} PROVE Min(I) \in I /\ \A j \in I : Min(I) <= j
    BY <1>1, <1>4, <1>5, SmallestExists DEF Min
  <1>6. I # {} => Min(I) # 0
    BY <1>1, <1>4, <1>5
  <1> QED BY <1>2, <1>3, <1>5, <1>6 DEF IsFirst
(* the tail of a position that may follow x comes with the parts compared *)
LEMMA FollowerIs ==
  ASSUME NEW w, IsTrace(w), NEW S, IsSkew(w, S), NEW kind \in Kinds, NEW sk \in Orders(kind, w, S),
         NEW x, NEW f, IsFirst(w, sk, x, f), NEW j \in DOMAIN sk, f <= j
  PROVE  LET y == sk[j][1]
             z == sk[f][1]
         IN  /\ f \in DOMAIN sk /\ f \in Nat /\ j \in Nat
             /\ y = <<y[1], y[2]>> /\ z = <<z[1], z[2]>>
             /\ y[1] \in Nat /\ z[1] \in Nat /\ y[2] \in TailStages /\ z[2] \in TailStages
             /\ Rank[y[2]] \in Nat /\ Rank[z[2]] \in Nat
             /\ timing(w, y) \in Nat /\ timing(w, z) \in Nat
             /\ timing(w, z) >= timing(w, x) /\ z[1] > x[1]
             /\ kind = "timestamp" => /\ timing(w, z) <= timing(w, y)
                                      /\ timing(w, z) = timing(w, y) => z[1] <= y[1]
             /\ kind # "timestamp" => z[1] < y[1] \/ (z[1] = y[1] /\ Rank[z[2]] <= Rank[y[2]])
PROOF
  <1> DEFINE p == sk[f]
             q == sk[j]
  <1>1. /\ f \in DOMAIN sk /\ Follower(w, x, p) /\ sk \in Seq(S)
        /\ DOMAIN sk = 1 .. Len(sk) /\ Len(sk) \in Nat
        /\ f < j => Before(kind, w, p, q)
    BY OrderHasAll DEF IsFirst, FollowersOf
  <1>2. p \in S /\ q \in S /\ f \in Nat /\ j \in Nat /\ (f < j \/ f = j)
    BY <1>1
  <1>3. Before(kind, w, p, q) \/ p = q
    BY <1>1, <1>2
  <1> HIDE DEF p, q
  <1>4. /\ q[1] = <<q[1][1], q[1][2]>> /\ q[1][1] \in Nat /\ q[1][2] \in TailStages
        /\ Rank[q[1][2]] \in Nat /\ timing(w, q[1]) \in Nat
    BY <1>2, SkewEdgeIs
  <1>5. /\ p[1] = <<p[1][1], p[1][2]>> /\ p[1][1] \in Nat /\ p[1][2] \in TailStages
        /\ Rank[p[1][2]] \in Nat /\ timing(w, p[1]) \in Nat
    BY <1>2, SkewEdgeIs
  <1>6. timing(w, p[1]) >= timing(w, x) /\ p[1][1] > x[1]
    BY <1>1 DEF Follower
  <1>7. kind = "timestamp" => /\ timing(w, p[1]) <= timing(w, q[1])
                              /\ timing(w, p[1]) = timing(w, q[1]) => p[1][1] <= q[1][1]
    BY <1>3, <1>4, <1>5 DEF Before, ByTimestamp, ByNode
  <1>8. kind # "timestamp" => \/ p[1][1] < q[1][1]
                              \/ p[1][1] = q[1][1] /\ Rank[p[1][2]] <= Rank[q[1][2]]
    BY <1>3, <1>4, <1>5 DEF Before, ByNode
  <1> QED BY <1>1, <1>2, <1>4, <1>5, <1>6, <1>7, <1>8 DEF p, q

(***************************************************************************)
(* _add_virtual_edge_via_seq_v2_impl finds the first tail of the closest   *)
(* instruction.                                                            *)
(***************************************************************************)
LEMMA SeqTargetsAreClosest ==
  ASSUME NEW w, IsTrace(w), NEW S, IsSkew(w, S), NEW sk \in Orders("seq", w, S),
         NEW i \in DOMAIN sk, NEW x \in {sk[i][1], sk[i][2]}
  PROVE  Range(SeqTargets(w, sk, i, x)) = ClosestInOrder(w, S, x)
PROOF
  <1> DEFINE f == FoundFirst(w, sk, i, x)
             F == FollowersOf(w, sk, x)
             T == TailsOf(w, S, x)
             ts == SeqTargets(w, sk, i, x)
  <1>0. "seq" \in Kinds /\ "seq" # "timestamp"
    BY DEF Kinds
  <1>1. IF F = {} THEN f = 0 ELSE f # 0 /\ IsFirst(w, sk, x, f)
    BY <1>0, FirstIsFound
  <1>2. T = {sk[j][1] : j \in F}
    BY <1>0, TailsAreFollowers
  <1>3. ts = IF f = 0 THEN <<>> ELSE <<sk[f][1]>>
    BY DEF SeqTargets, FoundFirst
  <1> HIDE DEF f, ts, T
  <1>4. CASE F = {}
    <2>1. ts = <<>> /\ T = {}
      BY <1>1, <1>2, <1>3, <1>4
    <2>2. Range(ts) = {}
      BY <2>1 DEF Range
    <2>3. ClosestInOrder(w, S, x) = {}
      BY <2>1 DEF ClosestInOrder, T
    <2> QED BY <2>2, <2>3 DEF ts
  <1>5. CASE F # {}
    <2>1. f # 0 /\ IsFirst(w, sk, x, f)
      BY <1>1, <1>5
    <2> DEFINE z == sk[f][1]
    <2>2. Range(ts) = {z}
      <3>1. ts = <<z>>
        BY <1>3, <2>1
      <3> HIDE DEF z
      <3> QED BY <3>1 DEF Range
    <2>3. z \in T
      BY <1>2, <2>1 DEF IsFirst
    <2>4. ASSUME NEW y \in T
          PROVE  /\ z[1] < y[1] \/ (z[1] = y[1] /\ Rank[z[2]] <= Rank[y[2]])
                 /\ y[1] < z[1] \/ (y[1] = z[1] /\ Rank[y[2]] <= Rank[z[2]]) => y = z
      <3>1. PICK j \in F : y = sk[j][1]
        BY <1>2, <2>4
      <3>2. j \in DOMAIN sk /\ f <= j
        BY <2>1, <3>1 DEF IsFirst, FollowersOf
      <3>3. /\ y = <<y[1], y[2]>> /\ z = <<z[1], z[2]>>
            /\ y[1] \in Nat /\ z[1] \in Nat /\ y[2] \in TailStages /\ z[2] \in TailStages
            /\ Rank[y[2]] \in Nat /\ Rank[z[2]] \in Nat
            /\ z[1] < y[1] \/ (z[1] = y[1] /\ Rank[z[2]] <= Rank[y[2]])
        BY <1>0, <2>1, <3>1, <3>2, FollowerIs
      <3> HIDE DEF z
      <3>4. ASSUME y[1] < z[1] \/ (y[1] = z[1] /\ Rank[y[2]] <= Rank[z[2]]) PROVE y = z
        <4>1. y[1] = z[1] /\ Rank[y[2]] = Rank[z[2]]
          BY <3>3, <3>4
        <4>2. y[2] = z[2]
          BY <3>3, <4>1, RankTells
        <4> QED BY <3>3, <4>1, <4>2
      <3> QED BY <3>3, <3>4
    <2> HIDE DEF z
    <2>5. ClosestInOrder(w, S, x) = {z}
      BY <2>3, <2>4 DEF ClosestInOrder, T
    <2> QED BY <2>2, <2>5 DEF ts
  <1> QED BY <1>4, <1>5
(***************************************************************************)
(* _add_virtual_edge_via_timestamp_impl finds all the tails that are       *)
(* closest in time: in the list they follow each other.                    *)
(***************************************************************************)
LEMMA TimestampTargetsAreClosest ==
  ASSUME NEW w, IsTrace(w), NEW S, IsSkew(w, S), NEW sk \in Orders("timestamp", w, S),
         NEW i \in DOMAIN sk, NEW x \in {sk[i][1], sk[i][2]}
  PROVE  Range(TimestampTargets(w, sk, i, x)) = ClosestInTime(w, S, x)
PROOF
  <1> DEFINE f == FoundFirst(w, sk, i, x)
             n == Len(sk)
             F == FollowersOf(w, sk, x)
             T == TailsOf(w, S, x)
             Joins(j) == sk[j][1][1] > x[1] /\ timing(w, sk[j][1]) = timing(w, sk[f][1])
             L == {m \in f .. n : \A j \in f + 1 .. m : Joins(j)}
             last == Max(L)
             ts == TimestampTargets(w, sk, i, x)
  <1>0. "timestamp" \in Kinds
    BY DEF Kinds
  <1>1. IF F = {} THEN f = 0 ELSE f # 0 /\ IsFirst(w, sk, x, f)
    BY <1>0, FirstIsFound
  <1>2. T = {sk[j][1] : j \in F}
    BY <1>0, TailsAreFollowers
  <1>3. ts = IF f = 0 THEN <<>> ELSE [k \in 1 .. last - f + 1 |-> sk[f + k - 1][1]]
    BY DEF TimestampTargets, FoundFirst
  <1>4. n \in Nat /\ DOMAIN sk = 1 .. n /\ sk \in Seq(S)
    BY <1>0, OrderHasAll
  <1> HIDE DEF f, ts, T, n, L
  <1>5. CASE F = {}
    <2>1. ts = <<>> /\ T = {}
      BY <1>1, <1>2, <1>3, <1>5
    <2>2. Range(ts) = {}
      BY <2>1 DEF Range
    <2>3. ClosestInTime(w, S, x) = {}
      BY <2>1 DEF ClosestInTime, T
    <2> QED BY <2>2, <2>3 DEF ts
  <1>6. CASE F # {}
    <2>1. f # 0 /\ IsFirst(w, sk, x, f)
      BY <1>1, <1>6
    <2>2. f \in 1 .. n
      BY <1>4, <2>1 DEF IsFirst, FollowersOf
    <2>3. last \in L /\ \A m \in L : m <= last
      <3>1. f \in L /\ L \subseteq 1 .. n
        BY <1>4, <2>2 DEF L
      <3>2. \E m \in L : \A j \in L : j <= m
        BY <1>4, <3>1, LargestExists
      <3>3. \E m \in L : \A j \in L : m >= j
        BY <1>4, <3>1, <3>2
      <3>4. last \in L /\ \A j \in L : last >= j
        BY <3>3 DEF Max
      <3> HIDE DEF last
      <3> QED BY <1>4, <3>1, <3>4
    <2> HIDE DEF last
    <2>4. last \in f .. n /\ \A j \in f + 1 .. last : Joins(j)
      BY <2>3 DEF L
    <2> DEFINE z == sk[f][1]
    <2>5. ASSUME NEW j \in DOMAIN sk, f <= j
          PROVE  /\ sk[j][1][1] \in Nat /\ z[1] \in Nat
                 /\ timing(w, sk[j][1]) \in Nat /\ timing(w, z) \in Nat
                 /\ timing(w, z) >= timing(w, x) /\ z[1] > x[1]
                 /\ timing(w, z) <= timing(w, sk[j][1])
                 /\ timing(w, z) = timing(w, sk[j][1]) => z[1] <= sk[j][1][1]
      BY <1>0, <2>1, <2>5, FollowerIs
    <2>6. x[1] \in Nat
      <3>1. sk[i] \in S
        BY <1>4
      <3> QED BY <3>1, SkewEdgeIs
    <2>7. ASSUME NEW y \in T
          PROVE  timing(w, z) <= timing(w, y)
      <3>1. PICK j \in F : y = sk[j][1]
        BY <1>2, <2>7
      <3>2. j \in DOMAIN sk /\ f <= j
        BY <2>1, <3>1 DEF IsFirst, FollowersOf
      <3> QED BY <2>5, <3>1, <3>2
    <2>8. Range(ts) = {sk[j][1] : j \in f .. last}
      <3>1. ts = [k \in 1 .. last - f + 1 |-> sk[f + k - 1][1]]
        BY <1>3, <2>1
      <3>2. \A k \in 1 .. last - f + 1 : f + k - 1 \in f .. last
        BY <2>2, <2>4, <1>4
      <3>3. \A j \in f .. last : j - f + 1 \in 1 .. last - f + 1 /\ f + (j - f + 1) - 1 = j
        BY <2>2, <2>4, <1>4
      <3>4. Range(ts) \subseteq {sk[j][1] : j \in f .. last}
        BY <3>1, <3>2 DEF Range
      <3>5. ASSUME NEW j \in f .. last PROVE sk[j][1] \in Range(ts)
        <4> DEFINE k == j - f + 1
        <4>1. k \in 1 .. last - f + 1 /\ f + k - 1 = j
          BY <3>3
        <4> HIDE DEF k
        <4>2. k \in DOMAIN ts /\ ts[k] = sk[j][1]
          BY <3>1, <4>1
        <4> QED BY <4>2 DEF Range
      <3> QED BY <3>4, <3>5
    <2>9. ASSUME NEW j \in f .. last
          PROVE  sk[j][1] \in ClosestInTime(w, S, x)
      <3>1. j \in DOMAIN sk /\ f <= j /\ (j = f \/ j \in f + 1 .. last)
        BY <1>4, <2>2, <2>4
      <3>2. sk[j][1][1] > x[1] /\ timing(w, sk[j][1]) = timing(w, z)
        BY <2>4, <2>5, <3>1
      <3>3. j \in F
        <4>1. timing(w, sk[j][1]) >= timing(w, x)
          BY <2>5, <3>1, <3>2
        <4> QED BY <3>1, <3>2, <4>1 DEF FollowersOf, Follower
      <3>4. sk[j][1] \in T
        BY <1>2, <3>3
      <3> QED BY <2>7, <3>2, <3>4 DEF ClosestInTime, T
    <2>10. ASSUME NEW y \in ClosestInTime(w, S, x)
           PROVE  \E j \in f .. last : y = sk[j][1]
      <3>1. y \in T /\ \A u \in T : timing(w, y) <= timing(w, u)
        BY <2>10 DEF ClosestInTime, T
      <3>2. PICK j \in F : y = sk[j][1]
        BY <1>2, <3>1
      <3>3. j \in DOMAIN sk /\ f <= j /\ j \in f .. n
        BY <1>4, <2>1, <2>2, <3>2 DEF IsFirst, FollowersOf
      <3>4. z \in T
        BY <1>2, <2>1 DEF IsFirst
      <3>5. timing(w, y) <= timing(w, z)
        BY <3>1, <3>4
      <3>6. ASSUME NEW k \in f + 1 .. j PROVE Joins(k)
        <4>1. k \in DOMAIN sk /\ f <= k /\ (k < j \/ k = j)
          BY <1>4, <2>2, <3>3
        <4>2. timing(w, sk[k][1]) <= timing(w, sk[j][1])
          <5>1. CASE k = j
            BY <2>5, <3>3, <5>1
          <5>2. CASE k < j
            <6>1. ByTimestamp(w, sk[k], sk[j])
              BY <1>0, <3>3, <4>1, <5>2, OrderHasAll DEF Before
            <6> QED BY <2>5, <3>3, <4>1, <6>1 DEF ByTimestamp
          <5> QED BY <4>1, <5>1, <5>2
        <4>3. timing(w, sk[k][1]) = timing(w, z)
          BY <2>5, <3>2, <3>3, <3>5, <4>1, <4>2
        <4>4. sk[k][1][1] > x[1]
          BY <2>5, <2>6, <4>1, <4>3
        <4> QED BY <4>3, <4>4
      <3>7. j \in L
        BY <3>3, <3>6 DEF L
      <3>8. j <= last
        BY <2>3, <3>7
      <3>9. j \in f .. last
        BY <1>4, <2>2, <2>4, <3>3, <3>8
      <3> QED BY <3>2, <3>9
    <2> QED BY <2>8, <2>9, <2>10 DEF ts
  <1> QED BY <1>5, <1>6
LEMMA TargetsAreClosest ==
  ASSUME NEW w, IsTrace(w), NEW S, IsSkew(w, S), NEW kind \in Kinds, NEW sk \in Orders(kind, w, S),
         NEW i \in DOMAIN sk, NEW x \in {sk[i][1], sk[i][2]}
  PROVE  Range(Targets(kind, w, sk, i, x)) = Closest(kind, w, S, x)
PROOF
  <1>1. CASE kind = "timestamp"
    BY <1>1, TimestampTargetsAreClosest DEF Targets, Closest
  <1>2. CASE kind = "seq"
    BY <1>2, SeqTargetsAreClosest DEF Targets, Closest
  <1> QED BY <1>1, <1>2 DEF Kinds

(* the pairs from x to the members of Y *)
Pairs(x, Y) == {<<x, y>> : y \in Y}

(* the elements of two lists, one behind the other *)
LEMMA RangeOfConcat ==
  ASSUME NEW E, NEW s \in Seq(E), NEW t \in Seq(E)
  PROVE  Range(s \o t) = Range(s) \cup Range(t)
PROOF
  <1> DEFINE c == s \o t
  <1>1. /\ DOMAIN s = 1 .. Len(s) /\ DOMAIN t = 1 .. Len(t) /\ Len(s) \in Nat /\ Len(t) \in Nat
        /\ DOMAIN c = 1 .. Len(s) + Len(t)
        /\ \A k \in 1 .. Len(s) + Len(t) : c[k] = IF k <= Len(s) THEN s[k] ELSE t[k - Len(s)]
    BY ConcatProperties
  <1> HIDE DEF c
  <1>2. Range(c) \subseteq Range(s) \cup Range(t)
    <2> SUFFICES ASSUME NEW k \in DOMAIN c PROVE c[k] \in Range(s) \cup Range(t)
      BY DEF Range
    <2>1. CASE k <= Len(s)
      <3>1. k \in DOMAIN s /\ c[k] = s[k]
        BY <1>1, <2>1
      <3> QED BY <3>1 DEF Range
    <2>2. CASE ~(k <= Len(s))
      <3>1. k - Len(s) \in DOMAIN t /\ c[k] = t[k - Len(s)]
        BY <1>1, <2>2
      <3> QED BY <3>1 DEF Range
    <2> QED BY <2>1, <2>2
  <1>3. ASSUME NEW k \in DOMAIN s PROVE s[k] \in Range(c)
    <2>1. k \in DOMAIN c /\ c[k] = s[k]
      BY <1>1
    <2> QED BY <2>1 DEF Range
  <1>4. ASSUME NEW k \in DOMAIN t PROVE t[k] \in Range(c)
    <2>1. /\ Len(s) + k \in 1 .. Len(s) + Len(t) /\ ~(Len(s) + k <= Len(s))
          /\ Len(s) + k - Len(s) = k
      BY <1>1
    <2>2. Len(s) + k \in DOMAIN c /\ c[Len(s) + k] = t[k]
      BY <1>1, <2>1
    <2> QED BY <2>2 DEF Range
  <1>5. Range(s) \subseteq Range(c) /\ Range(t) \subseteq Range(c)
    BY <1>3, <1>4 DEF Range
  <1> QED BY <1>2, <1>5 DEF c

(***************************************************************************)
(* The links of a worker lead from both ends of its entry to their closest *)
(* tails, and to nothing else.                                             *)
(***************************************************************************)
LEMMA WorkerLinksAreClosest ==
  ASSUME NEW w, IsInOrder(w), Len(w) \in DOMAIN w, NEW S, IsSkew(w, S),
         NEW kind \in Kinds, NEW sk \in Orders(kind, w, S), NEW i \in DOMAIN sk
  PROVE  Range(WorkerLinks(kind, w, sk, i)) =
           Pairs(sk[i][1], Closest(kind, w, S, sk[i][1]))
             \cup Pairs(sk[i][2], Closest(kind, w, S, sk[i][2]))
PROOF
  <1> DEFINE Ts(x) == Targets(kind, w, sk, i, x)
             E == MayLink(w)
             u == sk[i][1]
             v == sk[i][2]
  <1>1. IsTrace(w)
    BY DEF IsInOrder
  <1>2. sk \in Seq(S) /\ sk[i] \in S
    BY <1>1, OrderHasAll
  <1>3. sk \in Seq(Events(w) \X Events(w)) /\ u \in Events(w) /\ v \in Events(w)
    BY <1>2, SeqMonotonic DEF IsSkew
  <1>4. ASSUME NEW x \in {u, v}
        PROVE  /\ From(x, Ts(x)) \in Seq(E)
               /\ Range(From(x, Ts(x))) = Pairs(x, Closest(kind, w, S, x))
    <2>1. From(x, Ts(x)) \in Seq(E)
      BY <1>3, TargetsFollow
    <2>2. Range(Ts(x)) = Closest(kind, w, S, x)
      BY <1>1, TargetsAreClosest
    <2> HIDE DEF Ts
    <2>3. Range(From(x, Ts(x))) = Pairs(x, Range(Ts(x)))
      BY DEF From, Range, Pairs
    <2> QED BY <2>1, <2>2, <2>3
  <1>5. WorkerLinks(kind, w, sk, i) = From(u, Ts(u)) \o From(v, Ts(v))
    BY DEF WorkerLinks
  <1> HIDE DEF Ts, E, u, v
  <1>6. Range(WorkerLinks(kind, w, sk, i)) = Range(From(u, Ts(u))) \cup Range(From(v, Ts(v)))
    BY <1>4, <1>5, RangeOfConcat
  <1> QED BY <1>4, <1>6 DEF u, v

-----------------------------------------------------------------------------
(***************************************************************************)
(* What the threads have done and what they have left to do.               *)
(***************************************************************************)
LinksOf(w, S, time, seq) ==
  [t \in Threads(S) |-> Links(w, IF t[1] = "timestamp" THEN time ELSE seq, t)]

SkewPart ==
  pc # "read" =>
    /\ IsSkew(insts, skew)
    /\ \E time \in Orders("timestamp", insts, skew), seq \in Orders("seq", insts, skew) :
         links = LinksOf(insts, skew, time, seq)

(* a link that a thread has dealt with is an edge, or joins one node to itself *)
IsDealt(g, w, p) == p \in DOMAIN g \/ SameNode(w, p[1], p[2])

DealtPart ==
  \A t \in DOMAIN links : \A k \in DOMAIN links[t] :
     k <= done[t] => IsDealt(graph, insts, links[t][k])

(* a virtual edge comes from a thread, or completes the path *)
IsAsked(p) == p \in Wanted \/ p[1] = source_node \/ p[2] = sink_node(insts)

AskedPart == \A p \in VirtualOf(graph) : IsAsked(p)

Connected == SkewPart /\ DealtPart /\ AskedPart

(***************************************************************************)
(* A step of a thread or of the main thread that only adds edges.          *)
(***************************************************************************)
LEMMA GrowKeeps ==
  ASSUME Connected, pc # "read", UNCHANGED <<insts, skew, links>>,
         DOMAIN graph \subseteq DOMAIN graph',
         \A t \in DOMAIN links : \A k \in DOMAIN links[t] :
            k <= done'[t] => k <= done[t] \/ IsDealt(graph', insts, links[t][k]),
         \A p \in VirtualOf(graph') : p \in VirtualOf(graph) \/ IsAsked(p)
  PROVE  Connected'
PROOF
  <1>1. SkewPart'
    BY DEF Connected, SkewPart
  <1>2. DealtPart'
    BY DEF Connected, DealtPart, IsDealt
  <1>3. Wanted' = Wanted
    BY DEF Wanted
  <1>4. AskedPart'
    BY <1>3 DEF Connected, AskedPart, IsAsked
  <1> QED BY <1>1, <1>2, <1>4 DEF Connected

LEMMA StillKeeps ==
  ASSUME Connected, pc # "read", UNCHANGED <<insts, skew, links, graph, done>>
  PROVE  Connected'
PROOF
  BY GrowKeeps

LEMMA InitConnected ==
  Init => Connected
PROOF
  <1> SUFFICES ASSUME Init PROVE Connected
    OBVIOUS
  <1>1. SkewPart
    BY DEF Init, SkewPart
  <1>2. DealtPart
    BY DEF Init, DealtPart
  <1>3. AskedPart
    BY DEF Init, AskedPart, VirtualOf
  <1> QED BY <1>1, <1>2, <1>3 DEF Connected

LEMMA ReadConnected ==
  ASSUME IInv, Read
  PROVE  Connected'
PROOF
  <1>1. pc' = "read" /\ UNCHANGED <<skew, links, done>>
    BY DEF Read, threads
  <1>2. \A t \in DOMAIN links : links[t] = <<>>
    BY DEF IInv, ThreadPart, Read
  <1>3. VirtualOf(graph') = {}
    BY ReadKeeps
  <1>4. SkewPart'
    BY <1>1 DEF SkewPart
  <1>5. DealtPart'
    BY <1>1, <1>2 DEF DealtPart
  <1>6. AskedPart'
    BY <1>3 DEF AskedPart
  <1> QED BY <1>4, <1>5, <1>6 DEF Connected

LEMMA ConstructConnected ==
  ASSUME IInv, Construct
  PROVE  Connected'
PROOF
  <1>1. /\ pc = "read" /\ skew' = SkewEdges(graph) /\ UNCHANGED <<graph, insts>>
        /\ done' = [t \in Threads(skew') |-> 0]
    BY DEF Construct
  <1>2. PICK time \in Orders("timestamp", insts, skew'), seq \in Orders("seq", insts, skew') :
          links' = [t \in Threads(skew') |->
                      Links(insts, IF t[1] = "timestamp" THEN time ELSE seq, t)]
    BY DEF Construct
  <1>3. IsSkew(insts, skew')
    <2>1. skew' \subseteq Events(insts) \X Events(insts)
      BY <1>1 DEF SkewEdges, IInv, GraphPart, IsGraph
    <2>2. IsTrace(insts)
      BY InstsInOrder DEF IInv, IsInOrder
    <2>3. IsFiniteSet(skew')
      BY <2>1, <2>2, PairsAreFinite
    <2>4. \A p \in skew' : IsDependence(insts, p)
      BY <1>1 DEF SkewEdges, IInv, GraphPart, JoinsInOrder
    <2> QED BY <2>1, <2>3, <2>4 DEF IsSkew
  <1>4. links' = LinksOf(insts, skew', time, seq)
    BY <1>2 DEF LinksOf
  <1>5. SkewPart'
    BY <1>1, <1>3, <1>4 DEF SkewPart
  <1>6. DealtPart'
    <2> SUFFICES ASSUME NEW t \in DOMAIN links', NEW k \in DOMAIN links'[t], k <= done'[t]
                 PROVE  FALSE
      BY DEF DealtPart
    <2>1. t \in Threads(skew') /\ done'[t] = 0
      BY <1>1, <1>2
    <2>2. k \in Nat \ {0}
      <3> DEFINE sk == IF t[1] = "timestamp" THEN time ELSE seq
      <3>1. t = <<t[1], t[2]>> /\ t[1] \in Kinds /\ t[2] \in 0 .. Cardinality(skew')
        BY <2>1 DEF Threads
      <3>2. sk \in Orders(t[1], insts, skew')
        BY <3>1 DEF Kinds
      <3>3. links'[t] = Links(insts, sk, <<t[1], t[2]>>)
        BY <1>2, <2>1, <3>1
      <3>4. WellFormed(trace) /\ ReadFrom(insts, trace) /\ Len(insts) = Len(trace)
        BY TracesAssumption DEF Construct, IInv, TracePart
      <3>5. IsInOrder(insts) /\ Len(insts) \in DOMAIN insts
        <4>1. Len(insts) \in DOMAIN insts
          BY <3>4 DEF WellFormed, ReadFrom
        <4> QED BY <3>4, <4>1, PrefixIsTrace
      <3>6. skew' \in SUBSET (Events(insts) \X Events(insts))
        BY <1>3 DEF IsSkew
      <3> HIDE DEF sk
      <3>7. links'[t] \in Seq(MayLink(insts))
        BY <3>1, <3>2, <3>3, <3>5, <3>6, LinksLeadForward
      <3> QED BY <3>7
    <2> QED BY <2>1, <2>2
  <1>7. AskedPart'
    BY <1>1 DEF AskedPart, IInv, GraphPart
  <1> QED BY <1>5, <1>6, <1>7 DEF Connected
(* the links of thread t, once the threads have been made *)
LEMMA LinksAre ==
  ASSUME IInv, pc # "read", NEW S, S = skew, NEW time \in Orders("timestamp", insts, S),
         NEW seq \in Orders("seq", insts, S), links = LinksOf(insts, S, time, seq),
         NEW t \in DOMAIN links
  PROVE  LET sk == IF t[1] = "timestamp" THEN time ELSE seq
         IN  /\ t = <<t[1], t[2]>> /\ t[1] \in Kinds /\ t[2] \in 0 .. Cardinality(S)
             /\ sk \in Orders(t[1], insts, S)
             /\ links[t] = Links(insts, sk, <<t[1], t[2]>>)
             /\ links[t] \in Seq(MayLink(insts))
PROOF
  <1> DEFINE sk == IF t[1] = "timestamp" THEN time ELSE seq
  <1>1. t \in Threads(S)
    BY DEF LinksOf
  <1>2. t = <<t[1], t[2]>> /\ t[1] \in Kinds /\ t[2] \in 0 .. Cardinality(S)
    BY <1>1 DEF Threads
  <1>3. sk \in Orders(t[1], insts, S)
    BY <1>2 DEF Kinds
  <1>4. links[t] = Links(insts, sk, <<t[1], t[2]>>)
    BY <1>1, <1>2 DEF LinksOf
  <1>5. S \in SUBSET (Events(insts) \X Events(insts))
    BY DEF IInv, GraphPart, IsGraph
  <1>6. IsInOrder(insts) /\ Len(insts) \in DOMAIN insts
    BY InstsInOrder DEF IInv
  <1> HIDE DEF sk
  <1>7. links[t] \in Seq(MayLink(insts))
    BY <1>2, <1>3, <1>4, <1>5, <1>6, LinksLeadForward
  <1> QED BY <1>2, <1>3, <1>4, <1>7 DEF sk

LEMMA LinksAreSequences ==
  ASSUME IInv, Connected, pc # "read", NEW t \in DOMAIN links
  PROVE  /\ links[t] \in Seq(MayLink(insts))
         /\ \A k \in DOMAIN links[t] : k \in Nat
PROOF
  <1>1. PICK time \in Orders("timestamp", insts, skew), seq \in Orders("seq", insts, skew) :
          links = LinksOf(insts, skew, time, seq)
    BY DEF Connected, SkewPart
  <1> DEFINE S == skew
  <1>2. /\ time \in Orders("timestamp", insts, S) /\ seq \in Orders("seq", insts, S)
        /\ links = LinksOf(insts, S, time, seq) /\ S = skew
    BY <1>1
  <1> HIDE DEF S
  <1>3. links[t] \in Seq(MayLink(insts))
    BY <1>2, LinksAre
  <1> QED BY <1>3
(* if_exist_edge: a thread goes on when there is nothing to add *)
LEMMA CheckEdgeConnected ==
  ASSUME IInv, Connected, NEW t \in DOMAIN links, CheckEdge(t)
  PROVE  Connected'
PROOF
  <1> DEFINE p == Link(t)
  <1>1. /\ t \in Threads(skew) /\ done \in [Threads(skew) -> Nat]
        /\ done[t] + 1 \in DOMAIN links[t] /\ DOMAIN links = Threads(skew)
        /\ UNCHANGED <<insts, graph, skew, links>>
    BY DEF CheckEdge, Busy, IInv, ThreadPart
  <1>2. pc # "read"
    BY <1>1 DEF IInv, ThreadPart
  <1>3. \/ done' = [done EXCEPT ![t] = @ + 1] /\ IsDealt(graph, insts, p)
        \/ done' = done
    BY DEF CheckEdge, Proceed, IsDealt
  <1> HIDE DEF p
  <1>4. ASSUME NEW s \in DOMAIN links, NEW k \in DOMAIN links[s], k <= done'[s], ~(k <= done[s])
        PROVE  IsDealt(graph', insts, links[s][k])
    <2>1. done[s] \in Nat /\ done[t] \in Nat /\ s \in Threads(skew)
      BY <1>1
    <2>2. s = t /\ done'[t] = done[t] + 1 /\ IsDealt(graph, insts, p)
      BY <1>1, <1>3, <1>4, <2>1
    <2>3. k \in Nat
      BY <1>1, <1>2, <2>1, LinksAreSequences
    <2>4. k = done[t] + 1
      BY <1>4, <2>1, <2>2, <2>3
    <2> QED BY <1>1, <2>2, <2>4 DEF p, Link
  <1> QED BY <1>1, <1>2, <1>4, GrowKeeps

(* add_edge: the link is an edge now *)
LEMMA PutEdgeConnected ==
  ASSUME IInv, Connected, NEW t \in DOMAIN links, PutEdge(t), pc' \in {pc, "failed"}
  PROVE  Connected'
PROOF
  <1> DEFINE p == Link(t)
  <1>1. /\ t \in Threads(skew) /\ done \in [Threads(skew) -> Nat] /\ DOMAIN links = Threads(skew)
        /\ done' = [done EXCEPT ![t] = @ + 1]
        /\ UNCHANGED <<insts, skew, links>>
    BY DEF PutEdge, Proceed, IInv, ThreadPart
  <1>2. /\ pc # "read" /\ p \in Wanted
        /\ Extends(graph', graph, {p})
    BY PutEdgeKeeps
  <1> HIDE DEF p
  <1>3. /\ DOMAIN graph \subseteq DOMAIN graph' /\ p \in DOMAIN graph'
        /\ \A q \in VirtualOf(graph') : q \in VirtualOf(graph) \/ IsAsked(q)
    BY <1>2 DEF Extends, VirtualOf, DependencesOf, IsAsked
  <1>4. ASSUME NEW s \in DOMAIN links, NEW k \in DOMAIN links[s], k <= done'[s], ~(k <= done[s])
        PROVE  IsDealt(graph', insts, links[s][k])
    <2>1. done[s] \in Nat /\ done[t] \in Nat /\ s \in Threads(skew)
      BY <1>1
    <2>2. s = t /\ done'[t] = done[t] + 1
      BY <1>1, <1>4, <2>1
    <2>3. k \in Nat
      BY <1>1, <1>2, <2>1, LinksAreSequences
    <2>4. k = done[t] + 1
      BY <1>4, <2>1, <2>2, <2>3
    <2> QED BY <1>3, <2>2, <2>4 DEF p, Link, IsDealt
  <1> QED BY <1>1, <1>2, <1>3, <1>4, GrowKeeps

(* the edges that complete the path leave the source or reach the sink *)
LEMMA ReportConnected ==
  ASSUME IInv, Connected, Report
  PROVE  Connected'
PROOF
  <1>1. pc # "read" /\ UNCHANGED <<insts, skew, links, done>>
    BY DEF Report, Fail, threads
  <1>2. PICK p, q : /\ p[1] = source_node /\ q[2] = sink_node(insts)
                    /\ \E P \in SUBSET {p, q} : Extends(graph', graph, P)
    BY ReportKeeps
  <1>3. PICK P \in SUBSET {p, q} : Extends(graph', graph, P)
    BY <1>2
  <1>4. /\ DOMAIN graph \subseteq DOMAIN graph'
        /\ \A r \in VirtualOf(graph') : r \in VirtualOf(graph) \/ r \in P
    BY <1>3 DEF Extends, VirtualOf, DependencesOf
  <1>5. \A r \in P : IsAsked(r)
    BY <1>2 DEF IsAsked
  <1> QED BY <1>1, <1>4, <1>5, GrowKeeps

LEMMA NextConnected ==
  ASSUME IInv, Connected, [Next]_vars
  PROVE  Connected'
PROOF
  <1>1. CASE Read
    BY <1>1, ReadConnected
  <1>2. CASE Construct
    BY <1>2, ConstructConnected
  <1>3. CASE Join
    BY <1>3, StillKeeps DEF Join, StartSort, threads
  <1>4. CASE ReleaseGeneration
    BY <1>4, StillKeeps DEF ReleaseGeneration, Fail, threads
  <1>5. CASE NextGeneration
    BY <1>5, StillKeeps DEF NextGeneration, threads
  <1>6. CASE EndSort
    BY <1>6, StillKeeps DEF EndSort, Fail, threads
  <1>7. CASE Report
    BY <1>7, ReportConnected
  <1>8. ASSUME NEW x \in sort.relax, Relax(x) PROVE Connected'
    BY <1>8, StillKeeps DEF Relax, Fail, threads
  <1>9. ASSUME NEW kind \in Kinds, StartWorkers(kind) PROVE Connected'
    BY <1>9, StillKeeps DEF StartWorkers
  <1>10. ASSUME NEW t \in DOMAIN links, Step(t) PROVE Connected'
    <2>1. CASE CheckEdge(t)
      BY <2>1, CheckEdgeConnected
    <2>2. CASE AddEdge(t)
      BY <2>2, PutEdgeConnected DEF AddEdge
    <2>3. CASE InterruptSort(t)
      BY <2>3, PutEdgeConnected DEF InterruptSort
    <2> QED BY <1>10, <2>1, <2>2, <2>3 DEF Step
  <1>11. CASE UNCHANGED vars
    <2>1. UNCHANGED <<pc, insts, graph, skew, links, done>>
      BY <1>11 DEF vars
    <2>2. SkewPart' /\ DealtPart'
      BY <2>1 DEF Connected, SkewPart, DealtPart
    <2>3. AskedPart'
      BY <2>1 DEF Connected, AskedPart, IsAsked, Wanted
    <2> QED BY <2>2, <2>3 DEF Connected
  <1> QED
    BY <1>1, <1>2, <1>3, <1>4, <1>5, <1>6, <1>7, <1>8, <1>9, <1>10, <1>11
    DEF Next, Main, Terminated
(* the edge of S that has x at one end *)
IsEnd(S, x) == \E e \in S : x \in {e[1], e[2]}

(* an end of a skewed edge is not the source, and a tail is not the sink *)
LEMMA EndsAreInner ==
  ASSUME NEW w, IsTrace(w), NEW S, IsSkew(w, S), NEW x, IsEnd(S, x), NEW y \in TailsOf(w, S, x)
  PROVE  x # source_node /\ y # sink_node(w) /\ ~SameNode(w, x, y)
PROOF
  <1>1. PICK e \in S : x \in {e[1], e[2]}
    BY DEF IsEnd
  <1>2. /\ e[1][1] \in Nat \ {0} /\ e[2][1] \in Nat \ {0} /\ e[1][1] < e[2][1]
        /\ e[1][2] \in TailStages
    BY <1>1, SkewEdgeIs
  <1>3. x # source_node
    BY <1>1, <1>2 DEF source_node, TailStages
  <1>4. PICK d \in S : y = d[1] /\ Follower(w, x, d)
    BY DEF TailsOf
  <1>5. y[2] \in TailStages /\ y[1] \in Nat
    BY <1>4, SkewEdgeIs
  <1>6. y # sink_node(w)
    BY <1>5 DEF sink_node, TailStages
  <1>7. x[1] \in Nat /\ y[1] > x[1]
    BY <1>1, <1>2, <1>4 DEF Follower
  <1>8. x[1] # y[1]
    BY <1>5, <1>7
  <1> QED BY <1>3, <1>6, <1>8 DEF SameNode

(* ClosestTails is what the two kinds of threads look for *)
LEMMA ClosestTailsAre ==
  ASSUME NEW x, NEW y
  PROVE  y \in ClosestTails(x) <=> \E kind \in Kinds : y \in Closest(kind, insts, skew, x)
PROOF
  <1>1. Tails(x) = TailsOf(insts, skew, x)
    BY DEF Tails, TailsOf
  <1>2. y \in ClosestTails(x) <=> y \in ClosestInTime(insts, skew, x)
                                    \/ y \in ClosestInOrder(insts, skew, x)
    BY <1>1, Zenon DEF ClosestTails, ClosestInTime, ClosestInOrder
  <1>3. /\ Closest("timestamp", insts, skew, x) = ClosestInTime(insts, skew, x)
        /\ Closest("seq", insts, skew, x) = ClosestInOrder(insts, skew, x)
    BY DEF Closest
  <1> QED BY <1>2, <1>3 DEF Kinds

(* what the threads have to join is what the rules say *)
LEMMA LinksAreClosest ==
  ASSUME IInv, Connected, pc # "read"
  PROVE  /\ \A t \in DOMAIN links : \A k \in DOMAIN links[t] :
              \/ links[t][k] \in OuterLinks(insts)
              \/ \E e \in skew : \E x \in {e[1], e[2]} :
                   \E y \in Closest(t[1], insts, skew, x) : links[t][k] = <<x, y>>
         /\ \A kind \in Kinds : \A e \in skew : \A x \in {e[1], e[2]} :
              \A y \in Closest(kind, insts, skew, x) :
                 \E t \in DOMAIN links : \E k \in DOMAIN links[t] : links[t][k] = <<x, y>>
PROOF
  <1> DEFINE S == skew
             w == insts
  <1>1. PICK time \in Orders("timestamp", w, S), seq \in Orders("seq", w, S) :
          links = LinksOf(w, S, time, seq)
    BY DEF Connected, SkewPart
  <1>2. IsSkew(w, S) /\ S = skew
    BY DEF Connected, SkewPart
  <1>3. IsInOrder(w) /\ Len(w) \in DOMAIN w /\ IsTrace(w)
    BY InstsInOrder DEF IInv, IsInOrder
  <1> HIDE DEF S
  <1>4. ASSUME NEW kind \in Kinds, NEW sk \in Orders(kind, w, S), NEW m \in DOMAIN sk
        PROVE  Range(Links(w, sk, <<kind, m>>)) =
                 Pairs(sk[m][1], Closest(kind, w, S, sk[m][1]))
                   \cup Pairs(sk[m][2], Closest(kind, w, S, sk[m][2]))
    <2>1. m # 0
      BY <1>2, <1>3, OrderHasAll
    <2>2. Links(w, sk, <<kind, m>>) = WorkerLinks(kind, w, sk, m)
      BY <2>1 DEF Links
    <2> QED BY <1>2, <1>3, <2>2, WorkerLinksAreClosest
  <1>5. ASSUME NEW t \in DOMAIN links, NEW k \in DOMAIN links[t]
        PROVE  \/ links[t][k] \in OuterLinks(w)
               \/ \E e \in S : \E x \in {e[1], e[2]} :
                    \E y \in Closest(t[1], w, S, x) : links[t][k] = <<x, y>>
    <2> DEFINE sk == IF t[1] = "timestamp" THEN time ELSE seq
               kind == t[1]
               m == t[2]
    <2>1. /\ kind \in Kinds /\ m \in 0 .. Cardinality(S)
          /\ sk \in Orders(kind, w, S)
          /\ links[t] = Links(w, sk, <<kind, m>>)
      BY <1>1, <1>2, LinksAre
    <2> HIDE DEF sk, kind, m
    <2>2. /\ sk \in Seq(S) /\ Len(sk) = Cardinality(S) /\ DOMAIN sk = 1 .. Len(sk)
          /\ Len(sk) \in Nat
      BY <1>2, <1>3, <2>1, OrderHasAll
    <2>3. CASE m = 0
      <3>1. sk \in Seq(Events(w) \X Events(w))
        BY <1>2, <2>2, SeqMonotonic DEF IsSkew
      <3>2. links[t] = HelperLinks(kind, w, sk)
        BY <2>1, <2>3 DEF Links
      <3>3. links[t] \in Seq(OuterLinks(w))
        BY <1>3, <2>1, <3>1, <3>2, HelperLinksLeadForward
      <3> QED BY <3>3
    <2>4. CASE m # 0
      <3>1. m \in DOMAIN sk
        BY <2>1, <2>2, <2>4
      <3>2. links[t][k] \in Range(Links(w, sk, <<kind, m>>))
        BY <2>1 DEF Range
      <3>3. links[t][k] \in Pairs(sk[m][1], Closest(kind, w, S, sk[m][1]))
                              \cup Pairs(sk[m][2], Closest(kind, w, S, sk[m][2]))
        BY <1>4, <2>1, <3>1, <3>2
      <3>4. PICK x \in {sk[m][1], sk[m][2]} : links[t][k] \in Pairs(x, Closest(kind, w, S, x))
        BY <3>3
      <3>5. PICK y \in Closest(kind, w, S, x) : links[t][k] = <<x, y>>
        BY <3>4 DEF Pairs
      <3>6. sk[m] \in S
        BY <2>2, <3>1
      <3> QED BY <3>4, <3>5, <3>6 DEF kind
    <2> QED BY <2>3, <2>4
  <1>6. ASSUME NEW kind \in Kinds, NEW e \in S, NEW x \in {e[1], e[2]},
               NEW y \in Closest(kind, w, S, x)
        PROVE  \E t \in DOMAIN links : \E k \in DOMAIN links[t] : links[t][k] = <<x, y>>
    <2> DEFINE sk == IF kind = "timestamp" THEN time ELSE seq
    <2>1. sk \in Orders(kind, w, S)
      BY DEF Kinds
    <2> HIDE DEF sk
    <2>2. /\ DOMAIN sk = 1 .. Cardinality(S) /\ Cardinality(S) \in Nat
          /\ \A p \in S : \E i \in DOMAIN sk : sk[i] = p
      BY <1>2, <1>3, <2>1, OrderHasAll
    <2>3. PICK m \in DOMAIN sk : sk[m] = e
      BY <2>2
    <2> DEFINE t == <<kind, m>>
    <2>4. t \in Threads(S) /\ t[1] = kind
      BY <2>2 DEF Threads
    <2>5. t \in DOMAIN links /\ links[t] = Links(w, sk, t)
      BY <1>1, <2>4 DEF LinksOf, sk
    <2>6. <<x, y>> \in Pairs(x, Closest(kind, w, S, x))
      BY DEF Pairs
    <2>7. <<x, y>> \in Range(Links(w, sk, t))
      BY <1>4, <2>1, <2>3, <2>6
    <2> HIDE DEF t
    <2>8. <<x, y>> \in Range(links[t])
      BY <2>5, <2>7
    <2>9. PICK k \in DOMAIN links[t] : links[t][k] = <<x, y>>
      BY <2>8 DEF Range
    <2> QED BY <2>5, <2>9
  <1> QED BY <1>5, <1>6 DEF S

LEMMA GraphIsDetermined ==
  ASSUME IInv, Connected
  PROVE  InducedGraphIsDetermined
PROOF
  <1> SUFFICES ASSUME pc # "read", \A t \in DOMAIN links : Ended(t)
               PROVE  {p \in VirtualPairs : p[1] # source_node /\ p[2] # sink_node(insts)}
                        = (UNION {UNION {{<<x, y>> : y \in ClosestTails(x)} : x \in {e[1], e[2]}}
                                    : e \in skew}) \ Dependences
    BY Zenon DEF InducedGraphIsDetermined
  <1> DEFINE Inner == {p \in VirtualPairs : p[1] # source_node /\ p[2] # sink_node(insts)}
             Rule(e) == UNION {{<<x, y>> : y \in ClosestTails(x)} : x \in {e[1], e[2]}}
             Rules == UNION {Rule(e) : e \in skew}
  <1>1. VirtualPairs = VirtualOf(graph) /\ Dependences = DependencesOf(graph)
    BY DEF VirtualPairs, VirtualOf, Dependences, DependencesOf
  <1>2. IsTrace(insts) /\ IsSkew(insts, skew)
    BY InstsInOrder DEF IInv, IsInOrder, Connected, SkewPart
  <1>3. ASSUME NEW p \in Inner PROVE p \in Rules \ Dependences
    <2>1. p \in VirtualPairs /\ p \notin Dependences
      BY DEF Dependences
    <2>2. p \in Wanted
      BY <1>1, <2>1 DEF Connected, AskedPart, IsAsked
    <2>3. PICK t \in DOMAIN links : \E k \in DOMAIN links[t] : p = links[t][k]
      BY <2>2 DEF Wanted
    <2>4. PICK k \in DOMAIN links[t] : p = links[t][k]
      BY <2>3
    <2>5. p \notin OuterLinks(insts)
      BY DEF OuterLinks
    <2>6. PICK e \in skew : \E x \in {e[1], e[2]} :
                 \E y \in Closest(t[1], insts, skew, x) : p = <<x, y>>
      BY <2>4, <2>5, LinksAreClosest
    <2>7. PICK x \in {e[1], e[2]} : \E y \in Closest(t[1], insts, skew, x) : p = <<x, y>>
      BY <2>6
    <2>8. PICK y \in Closest(t[1], insts, skew, x) : p = <<x, y>>
      BY <2>7
    <2>9. t[1] \in Kinds
      BY DEF IInv, ThreadPart, Threads
    <2>10. y \in ClosestTails(x)
      BY <2>8, <2>9, ClosestTailsAre
    <2>11. p \in Rule(e)
      BY <2>7, <2>8, <2>10
    <2> QED BY <2>1, <2>6, <2>11
  <1>4. ASSUME NEW p \in Rules, p \notin Dependences PROVE p \in Inner
    <2>1. PICK e \in skew : p \in Rule(e)
      OBVIOUS
    <2>2. PICK x \in {e[1], e[2]} : p \in {<<x, y>> : y \in ClosestTails(x)}
      BY <2>1
    <2>3. PICK y \in ClosestTails(x) : p = <<x, y>>
      BY <2>2
    <2>4. PICK kind \in Kinds : y \in Closest(kind, insts, skew, x)
      BY <2>3, ClosestTailsAre
    <2>5. PICK t \in DOMAIN links : \E k \in DOMAIN links[t] : links[t][k] = <<x, y>>
      BY <2>1, <2>2, <2>4, LinksAreClosest
    <2>6. PICK k \in DOMAIN links[t] : links[t][k] = p
      BY <2>3, <2>5
    <2>7. k <= done[t]
      <3>1. links[t] \in Seq(MayLink(insts)) /\ done[t] \in Nat
        BY LinksAreSequences DEF IInv, ThreadPart
      <3>2. done[t] + 1 \notin DOMAIN links[t]
        BY DEF Ended
      <3>3. DOMAIN links[t] = 1 .. Len(links[t]) /\ Len(links[t]) \in Nat
        BY <3>1, LenProperties
      <3> QED BY <2>6, <3>1, <3>2, <3>3
    <2>8. IsDealt(graph, insts, p)
      BY <2>6, <2>7 DEF Connected, DealtPart
    <2>9. y \in TailsOf(insts, skew, x)
      BY <2>4 DEF Closest, ClosestInTime, ClosestInOrder
    <2>10. IsEnd(skew, x)
      BY <2>1, <2>2 DEF IsEnd
    <2>11. x # source_node /\ y # sink_node(insts) /\ ~SameNode(insts, x, y)
      BY <1>2, <2>9, <2>10, EndsAreInner
    <2>12. p \in DOMAIN graph
      BY <2>3, <2>8, <2>11 DEF IsDealt
    <2>13. p \in VirtualPairs
      BY <1>4, <2>12 DEF Dependences
    <2> QED BY <2>3, <2>11, <2>13
  <1> QED
    <2> HIDE DEF Inner, Rules
    <2>1. Inner = Rules \ Dependences
      BY <1>3, <1>4 DEF Inner, Rules
    <2> QED BY <2>1, Zenon DEF Inner, Rules

(***************************************************************************)
(* Whatever the order the threads ran in, the virtual edges between the    *)
(* skewed edges are, when every thread has ended, those that the searches  *)
(* of the workers amount to: from both ends of a skewed edge to all the    *)
(* tails closest in time and to the first tail of the closest instruction, *)
(* for every set of well-formed traces, of any length.                     *)
(***************************************************************************)
THEOREM GraphDetermined == Spec => []InducedGraphIsDetermined
PROOF
  <1>1. IInv /\ Connected /\ [Next]_vars => Connected'
    BY NextConnected
  <1>2. Spec => []Connected
    BY <1>1, InitConnected, IInvHolds, PTL DEF Spec
  <1>3. IInv /\ Connected => InducedGraphIsDetermined
    BY GraphIsDetermined
  <1> QED BY <1>2, <1>3, IInvHolds, PTL

-----------------------------------------------------------------------------
(***************************************************************************)
(* The longest path algorithm on a graph that nobody changes.              *)
(***************************************************************************)
(* the sums over the steps ks of a path; c is the graph, the path and ks *)
LengthOver(g, path, ks) ==
  FoldLeft(LAMBDA sum, k : sum + g[<<path[k], path[k + 1]>>].delay, 0, ks)
CostOver(g, path, ks) ==
  FoldLeft(LAMBDA sum, k : sum + g[<<path[k], path[k + 1]>>].cost, 0, ks)

LengthOp(c, t, k) == t + c[1][<<c[2][c[3][k]], c[2][c[3][k] + 1]>>].delay
LengthDef(c, h, s) ==
  IF s = {} THEN 0
  ELSE LET k == Max(s)
       IN  h[s \ {k}] + c[1][<<c[2][c[3][k]], c[2][c[3][k] + 1]>>].delay
CostOp(c, t, k) == t + c[1][<<c[2][c[3][k]], c[2][c[3][k] + 1]>>].cost
CostDef(c, h, s) ==
  IF s = {} THEN 0
  ELSE LET k == Max(s)
       IN  h[s \ {k}] + c[1][<<c[2][c[3][k]], c[2][c[3][k] + 1]>>].cost

Lengths == INSTANCE Recursion WITH Def <- LengthDef, Op <- LengthOp
Costs == INSTANCE Recursion WITH Def <- CostDef, Op <- CostOp

(* every edge is timed, and every pipeline is there *)
IsSound(g, w) == /\ IsGraph(g, w)
                 /\ \A p \in DOMAIN g : IsTimed(g, w, p)
                 /\ \A n \in DOMAIN w : HasPipeline(g, w[n], n)

(* the distances d are those of longest paths, and name the vertex before  *)
Settled(g, d) ==
  \A x \in DOMAIN d :
     /\ pred(g, x) \subseteq DOMAIN d /\ d[x][1] \in Nat
     /\ \A z \in pred(g, x) : d[z][1] + g[<<z, x>>].cost <= d[x][1]
     /\ d[x][1] # 0 => /\ d[x][2] \in pred(g, x)
                       /\ d[x][1] = d[d[x][2]][1] + g[<<d[x][2], x>>].cost

(* the vertices that have a distance or wait for theirs, and those whose   *)
(* successors have been released                                           *)
Placed(s, d)  == DOMAIN d \cup s.relax
Counted(s, d) == Placed(s, d) \ s.release

(* the sort s is under way and will find every vertex of g *)
IsSort(g, s, d) ==
  /\ Nodes(g) = Placed(s, d) \cup s.ready \cup DOMAIN s.indegree
  /\ DOMAIN s.indegree \cap (Placed(s, d) \cup s.ready) = {}
  /\ s.relax \cap DOMAIN d = {} /\ s.ready \cap Placed(s, d) = {}
  /\ s.release # {} => s.release = s.relax /\ s.ready = {}
  /\ \A y \in DOMAIN s.indegree : /\ s.indegree[y] = Cardinality(pred(g, y) \ Counted(s, d))
                                  /\ s.indegree[y] # 0
  /\ \A y \in Placed(s, d) : pred(g, y) \subseteq DOMAIN d
  /\ \A y \in s.ready : pred(g, y) \subseteq Placed(s, d)

(* the vertices before and after x are the ends of the edges at x *)
LEMMA NeighboursAre ==
  ASSUME NEW g, NEW w, IsGraph(g, w)
  PROVE  /\ \A x, y : y \in pred(g, x) <=> <<y, x>> \in DOMAIN g
         /\ \A x, y : y \in succ(g, x) <=> <<x, y>> \in DOMAIN g
         /\ \A x, y : <<x, y>> \in DOMAIN g => x \in Nodes(g) /\ y \in Nodes(g)
         /\ Nodes(g) \subseteq Events(w)
         /\ \A p \in DOMAIN g : p = <<p[1], p[2]>> /\ g[p] \in Label
PROOF
  <1>1. \A p \in DOMAIN g : p = <<p[1], p[2]>> /\ p[1] \in Events(w) /\ p[2] \in Events(w)
    BY DEF IsGraph
  <1>2. ASSUME NEW x, NEW y, <<y, x>> \in DOMAIN g
        PROVE  y \in pred(g, x) /\ x \in succ(g, y) /\ x \in Nodes(g) /\ y \in Nodes(g)
    <2> DEFINE p == <<y, x>>
    <2>1. p \in DOMAIN g /\ p[1] = y /\ p[2] = x
      BY <1>2
    <2> HIDE DEF p
    <2> QED BY <2>1 DEF pred, succ, Nodes
  <1>3. ASSUME NEW x, NEW y, y \in pred(g, x) PROVE <<y, x>> \in DOMAIN g
    <2>1. PICK p \in DOMAIN g : p[2] = x /\ y = p[1]
      BY <1>3 DEF pred
    <2> QED BY <1>1, <2>1
  <1>4. ASSUME NEW x, NEW y, y \in succ(g, x) PROVE <<x, y>> \in DOMAIN g
    <2>1. PICK p \in DOMAIN g : p[1] = x /\ y = p[2]
      BY <1>4 DEF succ
    <2> QED BY <1>1, <2>1
  <1>5. Nodes(g) \subseteq Events(w)
    BY <1>1 DEF Nodes
  <1> QED BY <1>1, <1>2, <1>3, <1>4, <1>5 DEF IsGraph

(* the events of a trace are finitely many *)
LEMMA EventsAreFinite ==
  ASSUME NEW w, IsTrace(w), NEW S \in SUBSET Events(w)
  PROVE  IsFiniteSet(S) /\ Cardinality(S) \in Nat
PROOF
  <1> DEFINE P == {<<x, x>> : x \in S}
             f == [x \in S |-> <<x, x>>]
  <1>1. P \in SUBSET (Events(w) \X Events(w))
    OBVIOUS
  <1>2. f \in Injection(S, P)
    BY DEF Injection, IsInjective
  <1> HIDE DEF P, f
  <1>3. IsFiniteSet(P)
    BY <1>1, PairsAreFinite
  <1> QED BY <1>2, <1>3, FS_Injection, FS_CardinalityType

(* finitely many vertices come before one *)
LEMMA PredIsFinite ==
  ASSUME NEW g, NEW w, IsTrace(w), IsGraph(g, w), NEW x, NEW T
  PROVE  /\ IsFiniteSet(pred(g, x) \ T) /\ Cardinality(pred(g, x) \ T) \in Nat
         /\ pred(g, x) \subseteq Nodes(g)
         /\ Cardinality(pred(g, x) \ T) = 0 <=> pred(g, x) \subseteq T
PROOF
  <1>1. pred(g, x) \subseteq Nodes(g) /\ Nodes(g) \subseteq Events(w)
    BY NeighboursAre
  <1>2. pred(g, x) \ T \in SUBSET Events(w)
    BY <1>1
  <1>3. IsFiniteSet(pred(g, x) \ T) /\ Cardinality(pred(g, x) \ T) \in Nat
    BY <1>2, EventsAreFinite
  <1>4. Cardinality(pred(g, x) \ T) = 0 <=> pred(g, x) \ T = {}
    BY <1>3, FS_EmptySet
  <1> QED BY <1>1, <1>3, <1>4

(* edges lead to larger depths *)
Depth(x) == 13 * x[1] + Rank[x[2]]

(* Lower is the order of the depths *)
LEMMA DepthGrows ==
  ASSUME NEW x \in Vertex, NEW y \in Vertex
  PROVE  Depth(x) \in Nat /\ (Lower(x, y) <=> Depth(x) < Depth(y))
PROOF
  <1>1. x[1] \in Nat /\ y[1] \in Nat /\ x[2] \in Stages /\ y[2] \in Stages
    BY DEF Vertex
  <1>2. Rank[x[2]] \in 0 .. 12 /\ Rank[y[2]] \in 0 .. 12
    BY <1>1 DEF Rank, Stages
  <1> QED BY <1>1, <1>2 DEF Depth, Lower

(* two graphs with the same edges, at the same costs *)
SameCosts(h, g) == DOMAIN h = DOMAIN g /\ \A p \in DOMAIN g : h[p].cost = g[p].cost

(* the longest path algorithm sees nothing of a graph but its edges and costs *)
LEMMA SameCostsKeep ==
  ASSUME NEW g, NEW w, IsGraph(g, w), NEW h, SameCosts(h, g), NEW d, NEW s
  PROVE  /\ Nodes(h) = Nodes(g)
         /\ Settled(g, d) => Settled(h, d)
         /\ IsSort(g, s, d) => IsSort(h, s, d)
PROOF
  <1>1. Nodes(h) = Nodes(g) /\ \A x : pred(h, x) = pred(g, x)
    BY DEF SameCosts, Nodes, pred
  <1>2. \A x : \A z \in pred(g, x) : h[<<z, x>>].cost = g[<<z, x>>].cost
    BY NeighboursAre DEF SameCosts
  <1>3. Settled(g, d) => Settled(h, d)
    BY <1>1, <1>2 DEF Settled
  <1>4. IsSort(g, s, d) => IsSort(h, s, d)
    BY <1>1 DEF IsSort
  <1> QED BY <1>1, <1>3, <1>4

-----------------------------------------------------------------------------
(* the sort that the main thread starts *)
FirstSort(g) ==
  LET First == {x \in Nodes(g) : pred(g, x) = {}}
  IN  [indegree |-> [x \in Nodes(g) \ First |-> Cardinality(pred(g, x))],
       release |-> First, relax |-> First, ready |-> {}]

(* the first generation are the vertices nothing leads to *)
LEMMA FirstSortIs ==
  ASSUME NEW g, NEW w, IsTrace(w), IsGraph(g, w), NEW d, DOMAIN d = {}
  PROVE  IsSort(g, FirstSort(g), d) /\ Settled(g, d)
PROOF
  <1> DEFINE First == {x \in Nodes(g) : pred(g, x) = {}}
             s == FirstSort(g)
  <1>1. /\ s.release = First /\ s.relax = First /\ s.ready = {}
        /\ s.indegree = [x \in Nodes(g) \ First |-> Cardinality(pred(g, x))]
    BY DEF FirstSort
  <1> HIDE DEF s
  <1>2. Placed(s, d) = First /\ Counted(s, d) = {}
    BY <1>1 DEF Placed, Counted
  <1>3. DOMAIN s.indegree = Nodes(g) \ First
    BY <1>1
  <1>4. ASSUME NEW y \in DOMAIN s.indegree
        PROVE  s.indegree[y] = Cardinality(pred(g, y) \ {}) /\ s.indegree[y] # 0
    <2>1. s.indegree[y] = Cardinality(pred(g, y)) /\ pred(g, y) # {}
      BY <1>1, <1>3
    <2>2. pred(g, y) \ {} = pred(g, y)
      OBVIOUS
    <2>3. Cardinality(pred(g, y) \ {}) # 0
      BY <2>1, PredIsFinite
    <2> QED BY <2>1, <2>2, <2>3
  <1> HIDE DEF First
  <1>5. First \subseteq Nodes(g) /\ \A y \in First : pred(g, y) = {}
    BY DEF First
  <1>6. IsSort(g, s, d)
    BY <1>1, <1>2, <1>3, <1>4, <1>5 DEF IsSort
  <1> QED BY <1>6 DEF s, Settled

(* the vertices a generation leads to, and how many of its edges do *)
ReleasedBy(g, s) == UNION {succ(g, x) : x \in s.release}
CountOf(g, s, y) == Cardinality(pred(g, y) \cap s.release)
FreedBy(g, s) == {y \in ReleasedBy(g, s) : s.indegree[y] = CountOf(g, s, y)}

(* the sort s when its generation has been released *)
IsReleased(g, s, t) ==
  /\ t.indegree = [y \in DOMAIN s.indegree \ FreedBy(g, s) |-> s.indegree[y] - CountOf(g, s, y)]
  /\ t.release = {} /\ t.relax = s.relax /\ t.ready = FreedBy(g, s)

(***************************************************************************)
(* A generation can be released, and its count is right: on a graph that   *)
(* nobody changes, topological_sort never finds it changed.                *)
(***************************************************************************)
LEMMA ReleaseSorts ==
  ASSUME NEW g, NEW w, IsTrace(w), IsGraph(g, w), NEW s, NEW d, IsSort(g, s, d),
         s.release # {}
  PROVE  /\ ReleasedBy(g, s) \subseteq DOMAIN s.indegree
         /\ \A y \in ReleasedBy(g, s) : CountOf(g, s, y) <= s.indegree[y]
         /\ \A t : IsReleased(g, s, t) => IsSort(g, t, d)
PROOF
  <1>1. s.release = s.relax /\ s.ready = {} /\ s.relax \cap DOMAIN d = {}
    BY DEF IsSort
  <1>2. Counted(s, d) = DOMAIN d /\ Placed(s, d) = DOMAIN d \cup s.relax
    BY <1>1 DEF Counted, Placed
  <1>3. ASSUME NEW y
        PROVE  y \in ReleasedBy(g, s) <=> pred(g, y) \cap s.release # {}
    <2>1. \A x : y \in succ(g, x) <=> x \in pred(g, y)
      BY NeighboursAre
    <2>2. y \in ReleasedBy(g, s) <=> \E x \in s.release : y \in succ(g, x)
      BY DEF ReleasedBy
    <2> QED BY <2>1, <2>2
  <1>4. ASSUME NEW y \in ReleasedBy(g, s) PROVE y \in DOMAIN s.indegree
    <2>1. PICK x \in s.relax : x \in pred(g, y)
      BY <1>1, <1>3
    <2>2. y \in Nodes(g)
      BY <2>1, NeighboursAre
    <2>3. y \notin Placed(s, d)
      BY <1>1, <2>1 DEF IsSort
    <2> QED BY <1>1, <2>2, <2>3 DEF IsSort
  <1>5. ASSUME NEW y \in DOMAIN s.indegree
        PROVE  /\ s.indegree[y] \in Nat /\ CountOf(g, s, y) \in Nat
               /\ CountOf(g, s, y) <= s.indegree[y]
               /\ s.indegree[y] - CountOf(g, s, y) = Cardinality(pred(g, y) \ Placed(s, d))
    <2> DEFINE A == pred(g, y) \ DOMAIN d
    <2>1. IsFiniteSet(A) /\ Cardinality(A) \in Nat /\ s.indegree[y] = Cardinality(A)
      BY <1>2, PredIsFinite DEF IsSort
    <2>2. A \cap s.release = pred(g, y) \cap s.release /\ A \ s.release = pred(g, y) \ Placed(s, d)
      BY <1>1, <1>2
    <2> HIDE DEF A
    <2>3. Cardinality(A \ s.release) = Cardinality(A) - Cardinality(A \cap s.release)
      BY <2>1, FS_Difference
    <2>4. A \cap s.release \in SUBSET A
      OBVIOUS
    <2>5. IsFiniteSet(A \cap s.release) /\ Cardinality(A \cap s.release) <= Cardinality(A)
      BY <2>1, <2>4, FS_Subset
    <2>6. Cardinality(A \cap s.release) \in Nat
      BY <2>5, FS_CardinalityType
    <2> QED BY <2>1, <2>2, <2>3, <2>5, <2>6 DEF CountOf
  <1>6. ASSUME NEW t, IsReleased(g, s, t) PROVE IsSort(g, t, d)
    <2> DEFINE F == FreedBy(g, s)
    <2>1. /\ DOMAIN t.indegree = DOMAIN s.indegree \ F /\ t.release = {} /\ t.relax = s.relax
          /\ t.ready = F /\ F \subseteq DOMAIN s.indegree
          /\ \A y \in DOMAIN t.indegree : t.indegree[y] = s.indegree[y] - CountOf(g, s, y)
      BY <1>4, <1>6 DEF IsReleased, FreedBy
    <2>2. Placed(t, d) = Placed(s, d) /\ Counted(t, d) = Placed(s, d)
      BY <2>1 DEF Placed, Counted
    <2>3. ASSUME NEW y \in F PROVE pred(g, y) \subseteq Placed(s, d)
      <3>1. y \in DOMAIN s.indegree /\ s.indegree[y] = CountOf(g, s, y)
        BY <2>1 DEF FreedBy
      <3>2. Cardinality(pred(g, y) \ Placed(s, d)) = 0
        BY <1>5, <3>1
      <3> QED BY <3>2, PredIsFinite
    <2>4. ASSUME NEW y \in DOMAIN t.indegree
          PROVE  t.indegree[y] = Cardinality(pred(g, y) \ Placed(s, d)) /\ t.indegree[y] # 0
      <3>1. y \in DOMAIN s.indegree /\ y \notin F /\ s.indegree[y] # 0
        BY <2>1 DEF IsSort
      <3>2. s.indegree[y] # CountOf(g, s, y)
        <4>1. CASE y \in ReleasedBy(g, s)
          BY <3>1, <4>1 DEF FreedBy
        <4>2. CASE y \notin ReleasedBy(g, s)
          <5>1. pred(g, y) \cap s.release = {}
            BY <1>3, <4>2
          <5> QED BY <3>1, <5>1, FS_EmptySet DEF CountOf
        <4> QED BY <4>1, <4>2
      <3>3. /\ s.indegree[y] \in Nat /\ CountOf(g, s, y) \in Nat
            /\ s.indegree[y] - CountOf(g, s, y) = Cardinality(pred(g, y) \ Placed(s, d))
        BY <1>5, <3>1
      <3>4. t.indegree[y] = s.indegree[y] - CountOf(g, s, y)
        BY <2>1
      <3> QED BY <3>2, <3>3, <3>4
    <2> HIDE DEF F
    <2> QED BY <1>1, <2>1, <2>2, <2>3, <2>4 DEF IsSort
  <1> QED BY <1>4, <1>5, <1>6

(* the next generation starts *)
LEMMA GenerationSorts ==
  ASSUME NEW g, NEW s, NEW d, IsSort(g, s, d), s.release = {}, s.relax = {},
         NEW t, t.indegree = s.indegree, t.release = s.ready, t.relax = s.ready, t.ready = {}
  PROVE  IsSort(g, t, d)
PROOF
  <1>1. Placed(s, d) = DOMAIN d /\ Counted(s, d) = DOMAIN d
    BY DEF Placed, Counted
  <1>2. Placed(t, d) = DOMAIN d \cup s.ready /\ s.ready \cap DOMAIN d = {}
    BY <1>1 DEF Placed, IsSort
  <1>3. Counted(t, d) = DOMAIN d
    BY <1>2 DEF Counted
  <1> QED BY <1>1, <1>2, <1>3 DEF IsSort

(***************************************************************************)
(* The sort finds every vertex: among those left over, one of least depth  *)
(* would have all its predecessors behind it.                              *)
(***************************************************************************)
LEMMA SortIsComplete ==
  ASSUME NEW g, NEW w, IsTrace(w), IsSound(g, w), NEW s, NEW d, IsSort(g, s, d),
         s.release = {}, s.relax = {}, s.ready = {}
  PROVE  DOMAIN s.indegree = {} /\ DOMAIN d = Nodes(g)
PROOF
  <1>1. Placed(s, d) = DOMAIN d /\ Counted(s, d) = DOMAIN d
    BY DEF Placed, Counted
  <1>2. Nodes(g) = DOMAIN d \cup DOMAIN s.indegree /\ DOMAIN d \cap DOMAIN s.indegree = {}
    BY <1>1 DEF IsSort
  <1>3. IsGraph(g, w) /\ Nodes(g) \subseteq Vertex
    BY NeighboursAre DEF IsSound, Events
  <1>4. ASSUME DOMAIN s.indegree # {} PROVE FALSE
    <2> DEFINE W == DOMAIN s.indegree
               D == {Depth(x) : x \in W}
    <2>1. \A x \in W : x \in Vertex /\ Depth(x) \in Nat
      BY <1>2, <1>3, DepthGrows
    <2> HIDE DEF W
    <2>2. D \in SUBSET Nat /\ D # {}
      BY <1>4, <2>1 DEF W
    <2>3. PICK m \in D : \A k \in D : m <= k
      BY <2>2, Costs!SmallestMember
    <2>4. PICK y \in W : m = Depth(y)
      BY <2>3
    <2>5. Cardinality(pred(g, y) \ DOMAIN d) # 0
      BY <1>1, <2>4 DEF IsSort, W
    <2>6. PICK z \in pred(g, y) : z \notin DOMAIN d
      BY <1>3, <2>5, PredIsFinite
    <2>7. <<z, y>> \in DOMAIN g /\ z \in Nodes(g)
      BY <1>3, <2>6, NeighboursAre
    <2>8. z \in W /\ z \in Vertex
      BY <1>2, <1>3, <2>6, <2>7 DEF W
    <2>9. Lower(z, y)
      BY <2>7 DEF IsSound, IsTimed
    <2>10. Depth(z) < Depth(y) /\ Depth(z) \in D
      BY <2>1, <2>4, <2>8, <2>9, DepthGrows
    <2>11. Depth(y) <= Depth(z) /\ Depth(z) \in Nat /\ Depth(y) \in Nat
      BY <2>1, <2>3, <2>4, <2>8, <2>10
    <2> QED BY <2>10, <2>11
  <1> QED BY <1>2, <1>4

-----------------------------------------------------------------------------
(* some member of S has the largest value of f *)
HasLargest(S, f) == \E x \in S : \A y \in S : f[y] <= f[x]

(* a finite set has a member with the largest value *)
LEMMA LargestValue ==
  ASSUME NEW S, IsFiniteSet(S), S # {}, NEW f \in [S -> Nat]
  PROVE  HasLargest(S, f)
PROOF
  <1> DEFINE Bad == {T \in SUBSET S : T # {} /\ ~HasLargest(T, f)}
             C == {Cardinality(T) : T \in Bad}
  <1>1. \A T \in SUBSET S : IsFiniteSet(T) /\ Cardinality(T) \in Nat
    BY FS_Subset, FS_CardinalityType
  <1>2. ASSUME C # {} PROVE FALSE
    <2>1. C \in SUBSET Nat
      BY <1>1
    <2> HIDE DEF C
    <2>2. PICK m \in C : \A k \in C : m <= k
      BY <1>2, <2>1, Costs!SmallestMember
    <2>3. PICK T \in Bad : m = Cardinality(T)
      BY <2>2 DEF C
    <2>4. PICK e \in T : TRUE
      BY <2>3
    <2> DEFINE R == T \ {e}
    <2>5. R \in SUBSET S /\ IsFiniteSet(T)
      BY <1>1, <2>3
    <2>6. CASE R = {}
      <3>1. \A y \in T : y = e
        BY <2>6
      <3>2. \A y \in T : f[y] <= f[e]
        BY <2>3, <2>4, <3>1
      <3> QED BY <2>3, <2>4, <3>2 DEF HasLargest
    <2>7. CASE R # {}
      <3>1. Cardinality(R) = Cardinality(T) - 1 /\ Cardinality(R) \in Nat
        BY <1>1, <2>4, <2>5, FS_RemoveElement
      <3>2. R \notin Bad
        <4>1. R \in Bad => Cardinality(R) \in C
          BY DEF C
        <4> HIDE DEF R
        <4> QED BY <1>1, <2>2, <2>3, <3>1, <4>1
      <3>3. PICK x \in R : \A y \in R : f[y] <= f[x]
        BY <2>5, <2>7, <3>2 DEF HasLargest
      <3>4. x \in T /\ e \in T /\ f[x] \in Nat /\ f[e] \in Nat /\ \A y \in T : f[y] \in Nat
        BY <2>3, <2>4, <3>3
      <3>5. CASE f[e] <= f[x]
        <4>1. \A y \in T : f[y] <= f[x]
          BY <3>3, <3>5
        <4> QED BY <2>3, <3>4, <4>1 DEF HasLargest
      <3>6. CASE f[x] < f[e]
        <4>1. \A y \in T : f[y] <= f[e]
          BY <3>3, <3>4, <3>6
        <4> QED BY <2>3, <3>4, <4>1 DEF HasLargest
      <3> QED BY <3>4, <3>5, <3>6
    <2> QED BY <2>6, <2>7
  <1>3. Bad = {}
    BY <1>2
  <1> QED BY <1>3

(* Max of a finite set of numbers *)
LEMMA MaxIs ==
  ASSUME NEW S \in SUBSET Nat, IsFiniteSet(S), S # {}
  PROVE  Max(S) \in S /\ Max(S) \in Nat /\ \A y \in S : y <= Max(S)
PROOF
  <1> DEFINE f == [x \in S |-> x]
  <1>1. f \in [S -> Nat] /\ \A x \in S : f[x] = x
    OBVIOUS
  <1> HIDE DEF f
  <1>2. PICK x \in S : \A y \in S : f[y] <= f[x]
    BY <1>1, LargestValue DEF HasLargest
  <1>3. \A y \in S : x >= y
    BY <1>1, <1>2
  <1>4. Max(S) \in S /\ \A y \in S : Max(S) >= y
    BY <1>3 DEF Max
  <1> QED BY <1>4

(* the recursion that gives the digits of a number *)
DigitsDef(c, h, n) == IF n < 10 THEN <<n>> ELSE Append(h[n \div 10], n % 10)
DigitsOp(c, a, k)  == a

Decimals == INSTANCE Recursion WITH Def <- DigitsDef, Op <- DigitsOp

(* the digits of a number are numbers *)
LEMMA DigitsAre ==
  \A n \in Nat : Digits[n] \in Seq(Nat)
PROOF
  <1> DEFINE m == [n \in Nat |-> n]
  <1>0. \A n \in Nat : n \div 10 \in Nat /\ n % 10 \in Nat /\ (~(n < 10) => n \div 10 < n)
    BY Z3
  <1>1. m \in [Nat -> Nat] /\ \A n \in Nat : m[n] = n
    OBVIOUS
  <1> HIDE DEF m
  <1>2. ASSUME NEW g, NEW h, NEW n \in Nat, \A k \in Nat : m[k] < m[n] => g[k] = h[k]
        PROVE  DigitsDef(0, g, n) = DigitsDef(0, h, n)
    <2>1. CASE n < 10
      BY <2>1 DEF DigitsDef
    <2>2. CASE ~(n < 10)
      <3>1. g[n \div 10] = h[n \div 10]
        BY <1>0, <1>1, <1>2, <2>2
      <3> QED BY <2>2, <3>1 DEF DigitsDef
    <2> QED BY <2>1, <2>2
  <1>3. Decimals!Fix(0, Nat) = [n \in Nat |-> DigitsDef(0, Decimals!Fix(0, Nat), n)]
    BY <1>1, <1>2, Decimals!RecursionDefines
  <1>4. Digits = Decimals!Fix(0, Nat)
    BY DEF Digits, Decimals!Fix, DigitsDef
  <1>5. \A n \in Nat : Digits[n] = IF n < 10 THEN <<n>> ELSE Append(Digits[n \div 10], n % 10)
    <2>1. \A n \in Nat : Digits[n] = DigitsDef(0, Digits, n)
      BY <1>3, <1>4
    <2> QED BY <2>1 DEF DigitsDef
  <1> DEFINE S == {n \in Nat : Digits[n] \in Seq(Nat)}
  <1>6. ASSUME NEW n \in Nat, \A k \in Nat : k < n => k \in S PROVE n \in S
    <2>1. CASE n < 10
      <3>1. Digits[n] = <<n>>
        BY <1>5, <2>1
      <3>2. <<n>> \in [1 .. 1 -> Nat]
        OBVIOUS
      <3>3. <<n>> \in Seq(Nat)
        BY <3>2, SeqDef
      <3> QED BY <3>1, <3>3, Zenon
    <2>2. CASE ~(n < 10)
      <3>1. Digits[n \div 10] \in Seq(Nat) /\ n % 10 \in Nat
        BY <1>0, <1>6, <2>2
      <3>2. Digits[n] = Append(Digits[n \div 10], n % 10)
        BY <1>5, <2>2
      <3>3. \A q \in Seq(Nat) : \A d \in Nat : Append(q, d) \in Seq(Nat)
        OBVIOUS
      <3>4. Digits[n] \in Seq(Nat)
        BY <3>1, <3>2, <3>3, Zenon
      <3> QED BY <3>4
    <2> QED BY <2>1, <2>2
  <1>7. \A n \in Nat : n \in S
    <2> HIDE DEF S
    <2> QED BY <1>6, Decimals!NatSetInduction
  <1> QED BY <1>7

(* the order of strings is a strict order *)
LEMMA StringOrder ==
  ASSUME NEW s \in Seq(Nat), NEW t \in Seq(Nat), NEW u \in Seq(Nat)
  PROVE  ~StringBefore(s, s) /\ (StringBefore(s, t) /\ StringBefore(t, u) => StringBefore(s, u))
PROOF
  <1>0. /\ DOMAIN s = 1 .. Len(s) /\ DOMAIN t = 1 .. Len(t) /\ DOMAIN u = 1 .. Len(u)
        /\ Len(s) \in Nat /\ Len(t) \in Nat /\ Len(u) \in Nat
        /\ \A k \in DOMAIN s : s[k] \in Nat
        /\ \A k \in DOMAIN t : t[k] \in Nat
        /\ \A k \in DOMAIN u : u[k] \in Nat
    OBVIOUS
  <1>1. ~StringBefore(s, s)
    BY <1>0 DEF StringBefore
  <1>2. ASSUME StringBefore(s, t), StringBefore(t, u) PROVE StringBefore(s, u)
    <2>1. PICK a \in DOMAIN t : /\ \A j \in 1 .. a - 1 : j \in DOMAIN s /\ s[j] = t[j]
                                /\ a \in DOMAIN s => s[a] < t[a]
      BY <1>2 DEF StringBefore
    <2>2. PICK b \in DOMAIN u : /\ \A j \in 1 .. b - 1 : j \in DOMAIN t /\ t[j] = u[j]
                                /\ b \in DOMAIN t => t[b] < u[b]
      BY <1>2 DEF StringBefore
    <2>3. a \in Nat /\ b \in Nat /\ a >= 1 /\ b >= 1 /\ a <= Len(t) /\ b <= Len(u)
      BY <1>0
    <2>4. CASE a < b
      <3>1. a \in DOMAIN u /\ a \in 1 .. b - 1
        BY <1>0, <2>3, <2>4
      <3>2. \A j \in 1 .. a - 1 : j \in 1 .. b - 1
        BY <2>3, <2>4
      <3>3. \A j \in 1 .. a - 1 : j \in DOMAIN s /\ s[j] = u[j]
        BY <2>1, <2>2, <3>2
      <3>4. a \in DOMAIN s => s[a] < u[a]
        BY <2>1, <2>2, <3>1
      <3> QED BY <3>1, <3>3, <3>4 DEF StringBefore
    <2>5. CASE a = b
      <3>1. \A j \in 1 .. b - 1 : j \in DOMAIN s /\ s[j] = u[j]
        BY <2>1, <2>2, <2>5
      <3>2. b \in DOMAIN s => s[b] < u[b]
        BY <1>0, <2>1, <2>2, <2>5
      <3> QED BY <3>1, <3>2 DEF StringBefore
    <2>6. CASE b < a
      <3>1. b \in DOMAIN t /\ b \in 1 .. a - 1
        BY <1>0, <2>3, <2>6
      <3>2. \A j \in 1 .. b - 1 : j \in 1 .. a - 1
        BY <2>3, <2>6
      <3>3. \A j \in 1 .. b - 1 : j \in DOMAIN s /\ s[j] = u[j]
        BY <2>1, <2>2, <3>2
      <3>4. b \in DOMAIN s => s[b] < u[b]
        BY <2>1, <2>2, <3>1
      <3> QED BY <3>3, <3>4 DEF StringBefore
    <2> QED BY <2>3, <2>4, <2>5, <2>6
  <1> QED BY <1>1, <1>2

(* Python's order of distances is a strict order *)
LEMMA LessOrders ==
  ASSUME NEW a \in Nat \X Vertex, NEW b \in Nat \X Vertex, NEW c \in Nat \X Vertex
  PROVE  ~Less(a, a) /\ (Less(a, b) /\ Less(b, c) => Less(a, c))
PROOF
  <1> DEFINE OK(x) == /\ x[1] \in Nat /\ Digits[x[2][1]] \in Seq(Nat)
                      /\ NameRank[x[2][2]] \in 0 .. 12
  <1>1. ASSUME NEW x \in Nat \X Vertex PROVE OK(x)
    <2>1. x[1] \in Nat /\ x[2][1] \in Nat /\ x[2][2] \in Stages
      BY DEF Vertex
    <2>2. NameRank[x[2][2]] \in 0 .. 12
      BY <2>1 DEF NameRank, Stages
    <2> QED BY <2>1, <2>2, DigitsAre
  <1>2. OK(a) /\ OK(b) /\ OK(c)
    BY <1>1
  <1>3. ~NameBefore(a[2], a[2])
    <2>1. ~StringBefore(Digits[a[2][1]], Digits[a[2][1]])
      BY <1>2, StringOrder
    <2> QED BY <1>2, <2>1 DEF NameBefore
  <1>4. NameBefore(a[2], b[2]) /\ NameBefore(b[2], c[2]) => NameBefore(a[2], c[2])
    <2> DEFINE s == Digits[a[2][1]]
               t == Digits[b[2][1]]
               u == Digits[c[2][1]]
    <2>1. StringBefore(s, t) /\ StringBefore(t, u) => StringBefore(s, u)
      BY <1>2, StringOrder
    <2>2. (a[2][1] = b[2][1] => s = t) /\ (b[2][1] = c[2][1] => t = u)
      OBVIOUS
    <2> DEFINE i == NameRank[a[2][2]]
               j == NameRank[b[2][2]]
               k == NameRank[c[2][2]]
    <2>3. i < j /\ j < k => i < k
      <3>1. i \in 0 .. 12 /\ j \in 0 .. 12 /\ k \in 0 .. 12
        BY <1>2, Zenon
      <3> HIDE DEF i, j, k
      <3> QED BY <3>1
    <2>4. /\ NameBefore(a[2], b[2]) <=> StringBefore(s, t) \/ (a[2][1] = b[2][1] /\ i < j)
          /\ NameBefore(b[2], c[2]) <=> StringBefore(t, u) \/ (b[2][1] = c[2][1] /\ j < k)
          /\ NameBefore(a[2], c[2]) <=> StringBefore(s, u) \/ (a[2][1] = c[2][1] /\ i < k)
      BY Zenon DEF NameBefore
    <2> HIDE DEF s, t, u, i, j, k
    <2> QED BY <2>1, <2>2, <2>3, <2>4, Zenon
  <1> QED BY <1>2, <1>3, <1>4 DEF Less

(* Python's max of a finite set of distances finds one, and none is longer *)
LEMMA GreatestIs ==
  ASSUME NEW P \in SUBSET (Nat \X Vertex), IsFiniteSet(P), P # {}
  PROVE  Greatest(P) # {} /\ \A a \in Greatest(P) : a \in P /\ \A b \in P : b[1] <= a[1]
PROOF
  <1> DEFINE Under(a) == {b \in P : Less(b, a)}
             h == [a \in P |-> Cardinality(Under(a))]
  <1>1. ASSUME NEW a \in P PROVE IsFiniteSet(Under(a)) /\ Cardinality(Under(a)) \in Nat
    BY FS_Subset, FS_CardinalityType
  <1>2. h \in [P -> Nat] /\ \A a \in P : h[a] = Cardinality(Under(a))
    BY <1>1
  <1> HIDE DEF h
  <1>3. PICK a \in P : \A b \in P : h[b] <= h[a]
    BY <1>2, LargestValue DEF HasLargest
  <1>4. ASSUME NEW b \in P, Less(a, b) PROVE FALSE
    <2>1. \A c \in Under(a) : c \in Under(b)
      BY <1>4, LessOrders
    <2>2. a \in Under(b) /\ a \notin Under(a)
      BY <1>4, LessOrders
    <2> HIDE DEF Under
    <2>3. Under(a) \cup {a} \in SUBSET Under(b)
      BY <2>1, <2>2
    <2>4. Cardinality(Under(a) \cup {a}) = Cardinality(Under(a)) + 1
      BY <1>1, <2>2, FS_AddElement
    <2>5. Cardinality(Under(a) \cup {a}) <= Cardinality(Under(b))
      BY <1>1, <2>3, FS_Subset
    <2>6. Cardinality(Under(b)) <= Cardinality(Under(a))
      BY <1>2, <1>3
    <2> QED BY <1>1, <2>4, <2>5, <2>6
  <1>5. a \in Greatest(P)
    BY <1>3, <1>4 DEF Greatest
  <1>6. ASSUME NEW c \in Greatest(P), NEW b \in P PROVE b[1] <= c[1]
    <2>1. c \in P /\ ~Less(c, b)
      BY DEF Greatest
    <2>2. c[1] \in Nat /\ b[1] \in Nat /\ ~(c[1] < b[1])
      BY <2>1 DEF Less
    <2> QED BY <2>2
  <1> QED BY <1>5, <1>6 DEF Greatest

(* the distance e of x, from those of the vertices before it *)
IsDistance(g, d, x, e) ==
  /\ e[1] \in Nat
  /\ \A z \in pred(g, x) : d[z][1] + g[<<z, x>>].cost <= e[1]
  /\ e[1] # 0 => e[2] \in pred(g, x) /\ e[1] = d[e[2]][1] + g[<<e[2], x>>].cost

(* Distance is the distance of x *)
LEMMA DistanceIs ==
  ASSUME NEW g, NEW w, IsTrace(w), IsSound(g, w), NEW d, NEW x,
         \A z \in pred(g, x) : d[z][1] \in Nat
  PROVE  IsDistance(g, d, x, Distance(g, d, x))
PROOF
  <1> DEFINE A == pred(g, x)
             F(z) == <<d[z][1] + g[<<z, x>>].cost, z>>
             P == {F(z) : z \in A}
             f == [z \in A |-> F(z)]
             e == Distance(g, d, x)
  <1>1. IsGraph(g, w) /\ A \subseteq Nodes(g) /\ Nodes(g) \subseteq Events(w)
    BY NeighboursAre, PredIsFinite DEF IsSound
  <1>2. ASSUME NEW z \in A PROVE d[z][1] + g[<<z, x>>].cost \in Nat /\ z \in Vertex
    <2>1. <<z, x>> \in DOMAIN g
      BY <1>1, NeighboursAre
    <2>2. g[<<z, x>>].cost >= 0 /\ g[<<z, x>>].cost \in Int
      BY <1>1, <2>1 DEF IsSound, IsTimed, IsGraph, Label
    <2>3. d[z][1] \in Nat
      OBVIOUS
    <2> QED BY <1>1, <2>2, <2>3 DEF Events
  <1>3. P \in SUBSET (Nat \X Vertex)
    <2>1. \A z \in A : F(z) \in Nat \X Vertex
      BY <1>2
    <2> HIDE DEF F, A
    <2> QED BY <2>1
  <1>4. IsFiniteSet(P)
    <2>1. f \in Surjection(A, P)
      BY DEF Surjection
    <2>2. IsFiniteSet(A)
      <3>1. A \in SUBSET Events(w)
        BY <1>1
      <3> QED BY <3>1, EventsAreFinite
    <2> HIDE DEF f, P, A
    <2> QED BY <2>1, <2>2, FS_Surjection
  <1>5. e = IF P = {} THEN <<0, x>> ELSE CHOOSE a \in Greatest(P) : TRUE
    BY Zenon DEF Distance
  <1>6. CASE P = {}
    <2> HIDE DEF e
    <2>1. A = {} /\ e = <<0, x>>
      BY <1>5, <1>6
    <2> QED BY <2>1 DEF IsDistance, e
  <1>7. CASE P # {}
    <2>1. e \in Greatest(P)
      <3> HIDE DEF P
      <3> QED BY <1>3, <1>4, <1>5, <1>7, GreatestIs
    <2>2. e \in P /\ \A b \in P : b[1] <= e[1]
      <3> HIDE DEF P, e
      <3> QED BY <1>3, <1>4, <1>7, <2>1, GreatestIs
    <2> HIDE DEF e
    <2>3. PICK z \in A : e = F(z)
      BY <2>2
    <2>4. e[1] = d[z][1] + g[<<z, x>>].cost /\ e[2] = z
      BY <2>3
    <2>5. ASSUME NEW y \in A PROVE d[y][1] + g[<<y, x>>].cost <= e[1]
      <3>1. F(y) \in P /\ F(y)[1] = d[y][1] + g[<<y, x>>].cost
        OBVIOUS
      <3> HIDE DEF P, F
      <3> QED BY <2>2, <3>1
    <2>6. e[1] \in Nat
      BY <1>2, <2>4
    <2> HIDE DEF P
    <2> QED BY <2>4, <2>5, <2>6 DEF e, IsDistance
  <1> QED BY <1>6, <1>7

(* the vertex x is given its distance *)
LEMMA RelaxSorts ==
  ASSUME NEW g, NEW w, IsTrace(w), IsSound(g, w), NEW s, NEW d, IsSort(g, s, d), Settled(g, d),
         s.release = {}, NEW x \in s.relax
  PROVE  /\ pred(g, x) \subseteq DOMAIN d
         /\ \A t, e : /\ t.indegree = s.indegree /\ t.release = {} /\ t.relax = s.relax \ {x}
                      /\ t.ready = s.ready
                      /\ e = [y \in DOMAIN d \cup {x} |->
                                IF y = x THEN Distance(g, d, x) ELSE d[y]]
                      => IsSort(g, t, e) /\ Settled(g, e)
PROOF
  <1>1. x \in Placed(s, d) /\ x \notin DOMAIN d
    BY DEF Placed, IsSort
  <1>2. pred(g, x) \subseteq DOMAIN d
    BY <1>1 DEF IsSort
  <1>3. \A z \in pred(g, x) : d[z][1] \in Nat
    BY <1>2 DEF Settled
  <1>4. IsDistance(g, d, x, Distance(g, d, x))
    BY <1>3, DistanceIs
  <1>5. ASSUME NEW t, NEW e, t.indegree = s.indegree, t.release = {}, t.relax = s.relax \ {x},
               t.ready = s.ready,
               e = [y \in DOMAIN d \cup {x} |-> IF y = x THEN Distance(g, d, x) ELSE d[y]]
        PROVE  IsSort(g, t, e) /\ Settled(g, e)
    <2>1. /\ DOMAIN e = DOMAIN d \cup {x} /\ e[x] = Distance(g, d, x)
          /\ \A y \in DOMAIN d : e[y] = d[y]
      BY <1>1, <1>5
    <2>2. Placed(t, e) = Placed(s, d)
      BY <1>5, <2>1 DEF Placed
    <2>3. Counted(t, e) = Counted(s, d)
      BY <1>5, <2>2 DEF Counted
    <2>4. IsSort(g, t, e)
      BY <1>1, <1>5, <2>1, <2>2, <2>3 DEF IsSort
    <2>5. ASSUME NEW y \in DOMAIN e
          PROVE  /\ pred(g, y) \subseteq DOMAIN d /\ e[y][1] \in Nat
                 /\ \A z \in pred(g, y) : d[z][1] + g[<<z, y>>].cost <= e[y][1]
                 /\ e[y][1] # 0 => /\ e[y][2] \in pred(g, y)
                                   /\ e[y][1] = d[e[y][2]][1] + g[<<e[y][2], y>>].cost
      <3>1. CASE y = x
        BY <1>2, <1>4, <2>1, <3>1 DEF IsDistance
      <3>2. CASE y # x
        <4>1. y \in DOMAIN d /\ e[y] = d[y]
          BY <2>1, <3>2
        <4> QED BY <4>1 DEF Settled
      <3> QED BY <3>1, <3>2
    <2>6. Settled(g, e)
      BY <2>1, <2>5 DEF Settled
    <2> QED BY <2>4, <2>6
  <1> QED BY <1>2, <1>5

-----------------------------------------------------------------------------
(* t are the partial sums of the delays, and of the costs *)
IsLength(g, path, t) ==
  /\ t[0] = 0
  /\ \A k \in 1 .. Len(path) - 1 : t[k] = t[k - 1] + g[<<path[k], path[k + 1]>>].delay
  /\ Length(g, path) = t[Len(path) - 1]
IsCost(g, path, t) ==
  /\ t[0] = 0
  /\ \A k \in 1 .. Len(path) - 1 : t[k] = t[k - 1] + g[<<path[k], path[k + 1]>>].cost
  /\ CostOf(g, path) = t[Len(path) - 1]

(* Length adds up the delays, step by step *)
LEMMA LengthSteps ==
  ASSUME NEW g, NEW path, Len(path) \in Nat \ {0}
  PROVE  \E t : IsLength(g, path, t)
PROOF
  <1> DEFINE n == Len(path) - 1
             ks == [k \in 1 .. n |-> k]
             c == <<g, path, ks>>
             P(k) == Lengths!Partial(c, n, k)
             t == [k \in 0 .. n |-> P(k)]
  <1>1. n \in Nat /\ DOMAIN ks = 1 .. n /\ \A k \in 1 .. n : ks[k] = k
    OBVIOUS
  <1>2. Length(g, path) = LengthOver(g, path, ks)
    BY DEF Length, LengthOver
  <1> HIDE DEF n, ks
  <1>3. c[1] = g /\ c[2] = path /\ c[3] = ks
    OBVIOUS
  <1>4. ASSUME NEW b
        PROVE  LengthOver(b[1], b[2], b[3]) = Lengths!Fix(b, SUBSET (DOMAIN b[3]))[DOMAIN b[3]]
    BY DEF LengthOver, FoldLeft, MapThenFoldSet, Lengths!Fix, LengthDef, Max
  <1>5. ASSUME NEW b PROVE Lengths!IsFold(b, n, 0)
    BY DEF Lengths!IsFold, LengthDef, LengthOp, Max, Lengths!Max
  <1> HIDE DEF c
  <1>6. LengthOver(g, path, ks) = Lengths!Folded(c, n)
    <2>1. LengthOver(c[1], c[2], c[3]) = Lengths!Fix(c, SUBSET (DOMAIN c[3]))[DOMAIN c[3]]
      BY <1>4
    <2> QED BY <1>1, <1>3, <2>1 DEF Lengths!Folded
  <1>7. /\ P(0) = 0 /\ \A k \in 1 .. n : P(k) = LengthOp(c, P(k - 1), k)
        /\ Lengths!Folded(c, n) = P(n)
    BY <1>1, <1>5, Lengths!FoldSteps
  <1> HIDE DEF P
  <1>8. /\ t[0] = 0 /\ t[n] = P(n)
        /\ \A k \in 1 .. n : t[k] = P(k) /\ t[k - 1] = P(k - 1)
    BY <1>1, <1>7
  <1> HIDE DEF t
  <1>9. \A k \in 1 .. n : t[k] = t[k - 1] + g[<<path[k], path[k + 1]>>].delay
    BY <1>1, <1>3, <1>7, <1>8 DEF LengthOp
  <1>10. IsLength(g, path, t)
    BY <1>2, <1>6, <1>7, <1>8, <1>9 DEF IsLength, n
  <1> QED BY <1>10

(* CostOf adds up the costs, step by step *)
LEMMA CostSteps ==
  ASSUME NEW g, NEW path, Len(path) \in Nat \ {0}
  PROVE  \E t : IsCost(g, path, t)
PROOF
  <1> DEFINE n == Len(path) - 1
             ks == [k \in 1 .. n |-> k]
             c == <<g, path, ks>>
             P(k) == Costs!Partial(c, n, k)
             t == [k \in 0 .. n |-> P(k)]
  <1>1. n \in Nat /\ DOMAIN ks = 1 .. n /\ \A k \in 1 .. n : ks[k] = k
    OBVIOUS
  <1>2. CostOf(g, path) = CostOver(g, path, ks)
    BY DEF CostOf, CostOver
  <1> HIDE DEF n, ks
  <1>3. c[1] = g /\ c[2] = path /\ c[3] = ks
    OBVIOUS
  <1>4. ASSUME NEW b
        PROVE  CostOver(b[1], b[2], b[3]) = Costs!Fix(b, SUBSET (DOMAIN b[3]))[DOMAIN b[3]]
    BY DEF CostOver, FoldLeft, MapThenFoldSet, Costs!Fix, CostDef, Max
  <1>5. ASSUME NEW b PROVE Costs!IsFold(b, n, 0)
    BY DEF Costs!IsFold, CostDef, CostOp, Max, Costs!Max
  <1> HIDE DEF c
  <1>6. CostOver(g, path, ks) = Costs!Folded(c, n)
    <2>1. CostOver(c[1], c[2], c[3]) = Costs!Fix(c, SUBSET (DOMAIN c[3]))[DOMAIN c[3]]
      BY <1>4
    <2> QED BY <1>1, <1>3, <2>1 DEF Costs!Folded
  <1>7. /\ P(0) = 0 /\ \A k \in 1 .. n : P(k) = CostOp(c, P(k - 1), k)
        /\ Costs!Folded(c, n) = P(n)
    BY <1>1, <1>5, Costs!FoldSteps
  <1> HIDE DEF P
  <1>8. /\ t[0] = 0 /\ t[n] = P(n)
        /\ \A k \in 1 .. n : t[k] = P(k) /\ t[k - 1] = P(k - 1)
    BY <1>1, <1>7
  <1> HIDE DEF t
  <1>9. \A k \in 1 .. n : t[k] = t[k - 1] + g[<<path[k], path[k + 1]>>].cost
    BY <1>1, <1>3, <1>7, <1>8 DEF CostOp
  <1>10. IsCost(g, path, t)
    BY <1>2, <1>6, <1>7, <1>8, <1>9 DEF IsCost, n
  <1> QED BY <1>10

(* s is a path of g from x to y *)
IsPath(g, s, x, y) ==
  /\ s \in Seq(Vertex) /\ Len(s) \in Nat \ {0} /\ DOMAIN s = 1 .. Len(s)
  /\ s[1] = x /\ s[Len(s)] = y /\ IsWalk(g, s)

(***************************************************************************)
(* The delays of a path add up to the time between its ends.               *)
(***************************************************************************)
LEMMA LengthIsTime ==
  ASSUME NEW g, NEW w, IsInOrder(w), Len(w) \in DOMAIN w, IsSound(g, w),
         NEW s, NEW x \in Events(w), NEW y, IsPath(g, s, x, y)
  PROVE  Length(g, s) = timing(w, y) - timing(w, x)
PROOF
  <1> DEFINE n == Len(s) - 1
  <1>1. n \in Nat /\ n + 1 = Len(s)
    BY DEF IsPath
  <1>2. PICK t : IsLength(g, s, t)
    BY LengthSteps DEF IsPath
  <1>3. ASSUME NEW k \in 1 .. n
        PROVE  /\ g[<<s[k], s[k + 1]>>].delay = timing(w, s[k + 1]) - timing(w, s[k])
               /\ s[k] \in Events(w) /\ s[k + 1] \in Events(w)
    <2>1. <<s[k], s[k + 1]>> \in DOMAIN g
      BY DEF IsPath, IsWalk
    <2> QED BY <2>1 DEF IsSound, IsTimed, IsGraph
  <1>4. \A e \in Events(w) : timing(w, e) \in Nat
    BY EventTime
  <1> HIDE DEF n
  <1> DEFINE S == {k \in 0 .. n : t[k] = timing(w, s[k + 1]) - timing(w, x)}
  <1>5. 0 \in S
    <2>1. t[0] = 0 /\ s[0 + 1] = x
      BY <1>2 DEF IsLength, IsPath
    <2> QED BY <1>1, <1>4, <2>1
  <1>6. ASSUME NEW k \in 1 .. n, k - 1 \in S PROVE k \in S
    <2>1. t[k] = t[k - 1] + g[<<s[k], s[k + 1]>>].delay
      BY <1>2 DEF IsLength, n
    <2>2. k - 1 + 1 = k /\ k \in 0 .. n
      BY <1>1
    <2>3. t[k - 1] = timing(w, s[k]) - timing(w, x)
      BY <1>6, <2>2
    <2>4. timing(w, s[k]) \in Nat /\ timing(w, s[k + 1]) \in Nat /\ timing(w, x) \in Nat
      BY <1>3, <1>4
    <2>5. t[k] = timing(w, s[k + 1]) - timing(w, x)
      BY <1>3, <2>1, <2>3, <2>4
    <2> QED BY <2>2, <2>5
  <1>7. n \in S
    <2> HIDE DEF S
    <2>1. \A k \in 0 .. n : k \in S
      BY <1>1, <1>5, <1>6, Lengths!IntervalInduction
    <2> QED BY <1>1, <2>1
  <1>8. Length(g, s) = t[n] /\ s[n + 1] = y
    BY <1>1, <1>2 DEF IsLength, IsPath, n
  <1> QED BY <1>7, <1>8

(***************************************************************************)
(* A path costs at least as much as numbers that grow no faster along it,  *)
(* and at most as much as numbers that grow as fast.                       *)
(***************************************************************************)
LEMMA CostIsAbove ==
  ASSUME NEW g, NEW s, Len(s) \in Nat \ {0}, NEW q \in [1 .. Len(s) -> Int], q[1] = 0,
         \A k \in 1 .. Len(s) - 1 : /\ g[<<s[k], s[k + 1]>>].cost \in Int
                                    /\ q[k + 1] - q[k] <= g[<<s[k], s[k + 1]>>].cost
  PROVE  CostOf(g, s) \in Int /\ q[Len(s)] <= CostOf(g, s)
PROOF
  <1> DEFINE n == Len(s) - 1
  <1>1. n \in Nat /\ n + 1 = Len(s)
    OBVIOUS
  <1>2. PICK t : IsCost(g, s, t)
    BY CostSteps
  <1> HIDE DEF n
  <1> DEFINE S == {k \in 0 .. n : t[k] \in Int /\ q[k + 1] <= t[k]}
  <1>3. 0 \in S
    BY <1>1, <1>2 DEF IsCost
  <1>4. ASSUME NEW k \in 1 .. n, k - 1 \in S PROVE k \in S
    <2>1. t[k] = t[k - 1] + g[<<s[k], s[k + 1]>>].cost
      BY <1>2 DEF IsCost, n
    <2>2. k - 1 + 1 = k /\ k \in 0 .. n /\ k \in 1 .. Len(s) /\ k + 1 \in 1 .. Len(s)
      BY <1>1
    <2>3. t[k - 1] \in Int /\ q[k] <= t[k - 1] /\ q[k] \in Int /\ q[k + 1] \in Int
      BY <1>4, <2>2
    <2>4. /\ g[<<s[k], s[k + 1]>>].cost \in Int
          /\ q[k + 1] - q[k] <= g[<<s[k], s[k + 1]>>].cost
      BY DEF n
    <2>5. t[k] \in Int /\ q[k + 1] <= t[k]
      BY <2>1, <2>3, <2>4
    <2> QED BY <2>2, <2>5
  <1>5. n \in S
    <2> HIDE DEF S
    <2>1. \A k \in 0 .. n : k \in S
      BY <1>1, <1>3, <1>4, Costs!IntervalInduction
    <2> QED BY <1>1, <2>1
  <1>6. CostOf(g, s) = t[n]
    BY <1>2 DEF IsCost, n
  <1> QED BY <1>1, <1>5, <1>6

(* a path costs at most as much as numbers that grow as fast along it *)
LEMMA CostIsBelow ==
  ASSUME NEW g, NEW s, Len(s) \in Nat \ {0}, NEW q \in [1 .. Len(s) -> Nat],
         \A k \in 1 .. Len(s) - 1 : /\ g[<<s[k], s[k + 1]>>].cost \in Int
                                    /\ q[k] + g[<<s[k], s[k + 1]>>].cost <= q[k + 1]
  PROVE  CostOf(g, s) \in Int /\ CostOf(g, s) <= q[Len(s)]
PROOF
  <1> DEFINE n == Len(s) - 1
  <1>1. n \in Nat /\ n + 1 = Len(s)
    OBVIOUS
  <1>2. PICK t : IsCost(g, s, t)
    BY CostSteps
  <1> HIDE DEF n
  <1> DEFINE S == {k \in 0 .. n : t[k] \in Int /\ t[k] <= q[k + 1]}
  <1>3. 0 \in S
    <2>1. q[0 + 1] \in Nat /\ t[0] = 0
      BY <1>1, <1>2 DEF IsCost
    <2> QED BY <1>1, <2>1
  <1>4. ASSUME NEW k \in 1 .. n, k - 1 \in S PROVE k \in S
    <2>1. t[k] = t[k - 1] + g[<<s[k], s[k + 1]>>].cost
      BY <1>2 DEF IsCost, n
    <2>2. k - 1 + 1 = k /\ k \in 0 .. n /\ k \in 1 .. Len(s) /\ k + 1 \in 1 .. Len(s)
      BY <1>1
    <2>3. t[k - 1] \in Int /\ t[k - 1] <= q[k] /\ q[k] \in Nat /\ q[k + 1] \in Nat
      BY <1>4, <2>2
    <2>4. /\ g[<<s[k], s[k + 1]>>].cost \in Int
          /\ q[k] + g[<<s[k], s[k + 1]>>].cost <= q[k + 1]
      BY DEF n
    <2>5. t[k] \in Int /\ t[k] <= q[k + 1]
      BY <2>1, <2>3, <2>4
    <2> QED BY <2>2, <2>5
  <1>5. n \in S
    <2> HIDE DEF S
    <2>1. \A k \in 0 .. n : k \in S
      BY <1>1, <1>3, <1>4, Costs!IntervalInduction
    <2> QED BY <1>1, <2>1
  <1>6. CostOf(g, s) = t[n]
    BY <1>2 DEF IsCost, n
  <1> QED BY <1>1, <1>5, <1>6

-----------------------------------------------------------------------------
TrailDef(d, h, y) == IF d[y][1] = 0 THEN <<y>> ELSE Append(h[d[y][2]], y)
TrailOp(d, a, b) == Append(a, b)

Trails == INSTANCE Recursion WITH Def <- TrailDef, Op <- TrailOp

(* s is a path of the distances d to x, from a vertex that costs nothing to reach *)
IsTrail(g, d, s, x) ==
  /\ IsPath(g, s, s[1], x) /\ \A k \in 1 .. Len(s) : s[k] \in DOMAIN d
  /\ d[s[1]][1] = 0
  /\ \A k \in 1 .. Len(s) - 1 :
       d[s[k + 1]][1] = d[s[k]][1] + g[<<s[k], s[k + 1]>>].cost

(* one vertex more *)
LEMMA TrailGrows ==
  ASSUME NEW g, NEW d, NEW s, NEW y, IsTrail(g, d, s, y), NEW x \in Vertex, x \in DOMAIN d,
         <<y, x>> \in DOMAIN g, d[x][1] = d[y][1] + g[<<y, x>>].cost
  PROVE  IsTrail(g, d, Append(s, x), x)
PROOF
  <1> DEFINE t == Append(s, x)
             n == Len(s)
  <1>1. s \in Seq(Vertex) /\ n \in Nat \ {0} /\ s[n] = y
    BY DEF IsTrail, IsPath
  <1>2. /\ t \in Seq(Vertex) /\ Len(t) = n + 1 /\ DOMAIN t = 1 .. n + 1
        /\ t[n + 1] = x /\ \A k \in 1 .. n : t[k] = s[k]
    BY <1>1
  <1> HIDE DEF t
  <1>3. t[1] = s[1] /\ t[n] = y
    BY <1>1, <1>2
  <1>4. ASSUME NEW k \in 1 .. n
        PROVE  /\ <<t[k], t[k + 1]>> \in DOMAIN g
               /\ d[t[k + 1]][1] = d[t[k]][1] + g[<<t[k], t[k + 1]>>].cost
    <2>1. CASE k = n
      BY <1>2, <1>3, <2>1
    <2>2. CASE k # n
      <3>1. k \in 1 .. n - 1 /\ k + 1 \in 1 .. n
        BY <1>1, <2>2
      <3>2. t[k] = s[k] /\ t[k + 1] = s[k + 1]
        BY <1>2, <3>1
      <3> QED BY <3>1, <3>2 DEF IsTrail, IsPath, IsWalk
    <2> QED BY <2>1, <2>2
  <1>5. Len(t) - 1 = n
    BY <1>1, <1>2
  <1>6. IsWalk(g, t)
    BY <1>4, <1>5 DEF IsWalk
  <1>7. ASSUME NEW k \in 1 .. Len(t) PROVE t[k] \in DOMAIN d
    <2>1. k = n + 1 \/ k \in 1 .. n
      BY <1>1, <1>2
    <2> QED BY <1>2, <2>1 DEF IsTrail
  <1>8. IsPath(g, t, t[1], x)
    BY <1>1, <1>2, <1>6 DEF IsPath
  <1>9. d[t[1]][1] = 0
    BY <1>3 DEF IsTrail
  <1> QED BY <1>4, <1>5, <1>7, <1>8, <1>9 DEF IsTrail, t

(***************************************************************************)
(* Going back from a vertex along the vertices its distance came from ends *)
(* at one that costs nothing to reach.                                     *)
(***************************************************************************)
LEMMA PathToIsTrail ==
  ASSUME NEW g, NEW w, IsSound(g, w), NEW d, Settled(g, d), DOMAIN d \subseteq Vertex,
         NEW x \in DOMAIN d
  PROVE  IsTrail(g, d, PathTo(d, x), x)
PROOF
  <1> DEFINE V == DOMAIN d
             m == [y \in V |-> Depth(y)]
             f == Trails!Fix(d, V)
  <1>1. PathTo(d, x) = f[x]
    BY DEF PathTo, Trails!Fix, TrailDef
  <1>2. m \in [V -> Nat] /\ \A y \in V : m[y] = Depth(y) /\ Depth(y) \in Nat
    BY DepthGrows
  <1>3. ASSUME NEW y \in V, d[y][1] # 0
        PROVE  /\ d[y][2] \in V /\ <<d[y][2], y>> \in DOMAIN g /\ m[d[y][2]] < m[y]
               /\ d[y][1] = d[d[y][2]][1] + g[<<d[y][2], y>>].cost
    <2>1. /\ d[y][2] \in pred(g, y) /\ d[y][2] \in V
          /\ d[y][1] = d[d[y][2]][1] + g[<<d[y][2], y>>].cost
      BY <1>3 DEF Settled
    <2>2. <<d[y][2], y>> \in DOMAIN g
      BY <2>1, NeighboursAre DEF IsSound
    <2>3. Lower(d[y][2], y)
      BY <2>2 DEF IsSound, IsTimed
    <2> QED BY <1>2, <2>1, <2>2, <2>3, DepthGrows
  <1> HIDE DEF m, f
  <1>4. \A p, q : \A y \in V : (\A z \in V : m[z] < m[y] => p[z] = q[z])
                                 => TrailDef(d, p, y) = TrailDef(d, q, y)
    BY <1>3 DEF TrailDef
  <1>5. f = [y \in V |-> TrailDef(d, f, y)]
    <2> HIDE DEF V
    <2> QED BY <1>2, <1>4, Trails!RecursionDefines DEF f
  <1> DEFINE S == {k \in Nat : \A y \in V : m[y] = k => IsTrail(g, d, f[y], y)}
  <1>6. ASSUME NEW k \in Nat, \A j \in Nat : j < k => j \in S PROVE k \in S
    <2> SUFFICES ASSUME NEW y \in V, m[y] = k PROVE IsTrail(g, d, f[y], y)
      OBVIOUS
    <2>1. f[y] = IF d[y][1] = 0 THEN <<y>> ELSE Append(f[d[y][2]], y)
      BY <1>5 DEF TrailDef
    <2>2. CASE d[y][1] = 0
      <3> DEFINE s == <<y>>
      <3>1. s \in Seq(Vertex) /\ Len(s) = 1 /\ s[1] = y /\ DOMAIN s = 1 .. 1
        OBVIOUS
      <3> HIDE DEF s
      <3>2. IsTrail(g, d, s, y)
        BY <2>2, <3>1 DEF IsTrail, IsPath, IsWalk
      <3> QED BY <2>1, <2>2, <3>2 DEF s
    <2>3. CASE d[y][1] # 0
      <3> DEFINE z == d[y][2]
      <3>1. /\ z \in V /\ <<z, y>> \in DOMAIN g /\ m[z] < m[y]
            /\ d[y][1] = d[z][1] + g[<<z, y>>].cost
        BY <1>3, <2>3
      <3> HIDE DEF z
      <3>2. m[z] \in Nat
        BY <1>2, <3>1
      <3>3. m[z] \in S
        BY <1>6, <3>1, <3>2
      <3>4. IsTrail(g, d, f[z], z)
        BY <3>1, <3>3
      <3>5. IsTrail(g, d, Append(f[z], y), y)
        BY <3>1, <3>4, TrailGrows
      <3> QED BY <2>1, <2>3, <3>5 DEF z
    <2> QED BY <2>2, <2>3
  <1>7. \A k \in Nat : k \in S
    <2> HIDE DEF S
    <2> QED BY <1>6, Trails!NatSetInduction
  <1>8. m[x] \in S
    BY <1>2, <1>7
  <1> QED BY <1>1, <1>8

-----------------------------------------------------------------------------
(* the two searches of a shortest path; c is the graph and the source *)
SeenOp(c, S, n) == UNION {succ(c[1], z) : z \in S}
SeenDef(c, h, n) == IF n = 0 THEN {c[2]} ELSE UNION {succ(c[1], z) : z \in h[n - 1]}
RouteOp(c, P, n) == UNION {{Append(p, z) : z \in succ(c[1], p[n])} : p \in P}
RouteDef(c, h, n) ==
  IF n = 0 THEN {<<c[2]>>}
  ELSE UNION {{Append(p, z) : z \in succ(c[1], p[n])} : p \in h[n - 1]}

Seens == INSTANCE Recursion WITH Def <- SeenDef, Op <- SeenOp
Routes == INSTANCE Recursion WITH Def <- RouteDef, Op <- RouteOp

(* what the two searches, of up to N steps, have found *)
AreSearches(g, x, N, seen, routes) ==
  /\ seen[0] = {x} /\ \A n \in 1 .. N : seen[n] = UNION {succ(g, z) : z \in seen[n - 1]}
  /\ routes[0] = {<<x>>}
  /\ \A n \in 1 .. N :
       routes[n] = UNION {{Append(p, z) : z \in succ(g, p[n])} : p \in routes[n - 1]}

(* the shortest routes to y among them *)
ShortestOf(N, seen, routes, y) ==
  IF \A n \in 0 .. N : y \notin seen[n] THEN {}
  ELSE LET n == CHOOSE k \in 0 .. N : y \in seen[k] /\ \A j \in 0 .. k - 1 : y \notin seen[j]
       IN  {p \in routes[n] : p[n + 1] = y}

(* ShortestPaths makes the two searches *)
LEMMA SearchSteps ==
  ASSUME NEW g, NEW x, Cardinality(Nodes(g)) \in Nat
  PROVE  \E seen, routes :
           /\ AreSearches(g, x, Cardinality(Nodes(g)), seen, routes)
           /\ \A y : ShortestPaths(g, x, y) = ShortestOf(Cardinality(Nodes(g)), seen, routes, y)
PROOF
  <1> DEFINE c == <<g, x>>
             N == Cardinality(Nodes(g))
             seen == Seens!Fix(c, 0 .. N)
             routes == Routes!Fix(c, 0 .. N)
  <1>1. c[1] = g /\ c[2] = x
    OBVIOUS
  <1>2. ASSUME NEW b, NEW y
        PROVE  ShortestPaths(b[1], b[2], y)
                 = ShortestOf(Cardinality(Nodes(b[1])),
                              Seens!Fix(b, 0 .. Cardinality(Nodes(b[1]))),
                              Routes!Fix(b, 0 .. Cardinality(Nodes(b[1]))), y)
    BY Zenon DEF ShortestPaths, ShortestOf, Seens!Fix, Routes!Fix, SeenDef, RouteDef
  <1>3. ASSUME NEW b, NEW n \in Nat
        PROVE  Seens!IsIteration(b, 0, n, {b[2]}) /\ Routes!IsIteration(b, 0, n, {<<b[2]>>})
    BY DEF Seens!IsIteration, Routes!IsIteration, SeenDef, SeenOp, RouteDef, RouteOp
  <1> HIDE DEF c
  <1>4. \A y : ShortestPaths(g, x, y) = ShortestOf(N, seen, routes, y)
    BY <1>1, <1>2
  <1> HIDE DEF N
  <1>5. N \in Nat
    BY DEF N
  <1>6. Seens!IsIteration(c, 0, N, {x}) /\ Routes!IsIteration(c, 0, N, {<<x>>})
    BY <1>1, <1>3, <1>5
  <1>7. Seens!Iterates(c, 0, N, {x}) /\ Routes!Iterates(c, 0, N, {<<x>>})
    BY <1>5, <1>6, Seens!IterationSteps, Routes!IterationSteps
  <1>8. /\ seen[0] = {x} /\ \A n \in 1 .. N : seen[n] = SeenOp(c, seen[n - 1], n)
        /\ routes[0] = {<<x>>} /\ \A n \in 1 .. N : routes[n] = RouteOp(c, routes[n - 1], n)
    BY <1>5, <1>7 DEF Seens!Iterates, Routes!Iterates
  <1> HIDE DEF seen, routes
  <1>9. AreSearches(g, x, N, seen, routes)
    BY <1>1, <1>8 DEF AreSearches, SeenOp, RouteOp
  <1> QED BY <1>4, <1>9 DEF N

(* p is a path of n steps from x *)
IsRoute(g, x, n, p) ==
  p \in Seq(Vertex) /\ Len(p) = n + 1 /\ p[1] = x /\ IsWalk(g, p)

(* after n steps the two searches have found the same vertices *)
SearchesAgree(g, x, seen, routes, n) ==
  /\ \A p \in routes[n] : IsRoute(g, x, n, p) /\ p[n + 1] \in seen[n]
  /\ \A z \in seen[n] : \E p \in routes[n] : p[n + 1] = z

(* the two searches agree at every step *)
LEMMA SearchesAgreeAlways ==
  ASSUME NEW g, NEW w, IsGraph(g, w), NEW x \in Vertex, NEW N \in Nat, NEW seen, NEW routes,
         AreSearches(g, x, N, seen, routes)
  PROVE  \A n \in 0 .. N : SearchesAgree(g, x, seen, routes, n)
PROOF
  <1> DEFINE S == {n \in 0 .. N : SearchesAgree(g, x, seen, routes, n)}
  <1>1. 0 \in S
    <2> DEFINE s == <<x>>
    <2>1. s \in Seq(Vertex) /\ Len(s) = 0 + 1 /\ s[1] = x /\ s[0 + 1] = x
      OBVIOUS
    <2>2. routes[0] = {s} /\ seen[0] = {x}
      BY DEF AreSearches
    <2> HIDE DEF s
    <2>3. IsWalk(g, s)
      BY <2>1 DEF IsWalk
    <2> QED BY <2>1, <2>2, <2>3 DEF SearchesAgree, IsRoute
  <1>2. ASSUME NEW n \in 1 .. N, n - 1 \in S PROVE n \in S
    <2>1. /\ \A p \in routes[n - 1] : /\ p \in Seq(Vertex) /\ Len(p) = n /\ p[1] = x
                                      /\ IsWalk(g, p) /\ p[n] \in seen[n - 1]
          /\ \A z \in seen[n - 1] : \E p \in routes[n - 1] : p[n] = z
      <3>1. n - 1 + 1 = n /\ SearchesAgree(g, x, seen, routes, n - 1)
        BY <1>2
      <3> QED BY <3>1 DEF SearchesAgree, IsRoute
    <2>2. /\ seen[n] = UNION {succ(g, z) : z \in seen[n - 1]}
          /\ routes[n] = UNION {{Append(p, z) : z \in succ(g, p[n])} : p \in routes[n - 1]}
      BY DEF AreSearches
    <2>3. \A a, z : z \in succ(g, a) => <<a, z>> \in DOMAIN g /\ z \in Vertex
      <3>1. Nodes(g) \subseteq Vertex
        BY NeighboursAre DEF Events
      <3> QED BY <3>1, NeighboursAre
    <2>4. ASSUME NEW p \in routes[n - 1], NEW z \in succ(g, p[n])
          PROVE  IsRoute(g, x, n, Append(p, z)) /\ Append(p, z)[n + 1] = z
      <3> DEFINE q == Append(p, z)
      <3>1. p \in Seq(Vertex) /\ Len(p) = n /\ p[1] = x /\ IsWalk(g, p) /\ n \in Nat \ {0}
        BY <2>1
      <3>2. z \in Vertex /\ <<p[n], z>> \in DOMAIN g
        BY <2>3
      <3>3. /\ q \in Seq(Vertex) /\ Len(q) = n + 1 /\ q[n + 1] = z
            /\ \A k \in 1 .. n : q[k] = p[k]
        BY <3>1, <3>2
      <3> HIDE DEF q
      <3>4. ASSUME NEW k \in 1 .. n PROVE <<q[k], q[k + 1]>> \in DOMAIN g
        <4>1. CASE k = n
          BY <3>1, <3>2, <3>3, <4>1
        <4>2. CASE k # n
          <5>1. k \in 1 .. Len(p) - 1 /\ k + 1 \in 1 .. n
            BY <3>1, <4>2
          <5> QED BY <3>1, <3>3, <5>1 DEF IsWalk
        <4> QED BY <4>1, <4>2
      <3>5. Len(q) - 1 = n /\ 1 \in 1 .. n
        BY <3>1, <3>3
      <3>6. IsWalk(g, q)
        BY <3>4, <3>5 DEF IsWalk
      <3> QED BY <3>1, <3>3, <3>5, <3>6 DEF q, IsRoute
    <2>5. ASSUME NEW q \in routes[n] PROVE IsRoute(g, x, n, q) /\ q[n + 1] \in seen[n]
      <3>1. PICK p \in routes[n - 1] : q \in {Append(p, z) : z \in succ(g, p[n])}
        BY <2>2
      <3>2. PICK z \in succ(g, p[n]) : q = Append(p, z)
        BY <3>1
      <3>3. z \in seen[n]
        BY <2>1, <2>2, <3>1, <3>2
      <3>4. IsRoute(g, x, n, q) /\ q[n + 1] = z
        BY <2>4, <3>1, <3>2
      <3> QED BY <3>3, <3>4
    <2>6. ASSUME NEW z \in seen[n] PROVE \E q \in routes[n] : q[n + 1] = z
      <3>1. PICK a \in seen[n - 1] : z \in succ(g, a)
        BY <2>2
      <3>2. PICK p \in routes[n - 1] : p[n] = a
        BY <2>1
      <3> DEFINE q == Append(p, z)
      <3>3. q \in {Append(p, y) : y \in succ(g, p[n])}
        BY <3>1, <3>2
      <3> HIDE DEF q
      <3>4. q \in routes[n]
        BY <2>2, <3>2, <3>3
      <3>5. q[n + 1] = z
        BY <2>4, <3>1, <3>2 DEF q
      <3> QED BY <3>4, <3>5
    <2>7. SearchesAgree(g, x, seen, routes, n)
      BY <2>5, <2>6 DEF SearchesAgree
    <2>8. n \in 0 .. N
      OBVIOUS
    <2> QED BY <2>7, <2>8
  <1>3. \A n \in 0 .. N : n \in S
    <2> HIDE DEF S
    <2> QED BY <1>1, <1>2, Seens!IntervalInduction
  <1> QED BY <1>3

(***************************************************************************)
(* nx.shortest_path returns paths from x to y, and finds one if there is   *)
(* one that is not too long.                                               *)
(***************************************************************************)
LEMMA ShortestPathsAre ==
  ASSUME NEW g, NEW w, IsTrace(w), IsGraph(g, w), NEW x \in Vertex, NEW y
  PROVE  /\ \A p \in ShortestPaths(g, x, y) : IsPath(g, p, x, y)
         /\ \A s : IsPath(g, s, x, y) /\ Len(s) <= Cardinality(Nodes(g))
                     => ShortestPaths(g, x, y) # {}
PROOF
  <1> DEFINE N == Cardinality(Nodes(g))
  <1>1. N \in Nat
    <2>1. Nodes(g) \in SUBSET Events(w)
      BY NeighboursAre
    <2> QED BY <2>1, EventsAreFinite
  <1>2. PICK seen, routes : /\ AreSearches(g, x, N, seen, routes)
                            /\ \A v : ShortestPaths(g, x, v) = ShortestOf(N, seen, routes, v)
    BY <1>1, SearchSteps
  <1> HIDE DEF N
  <1>3. \A n \in 0 .. N : SearchesAgree(g, x, seen, routes, n)
    BY <1>1, <1>2, SearchesAgreeAlways
  <1> DEFINE K == {k \in 0 .. N : y \in seen[k]}
             First(k) == y \in seen[k] /\ \A j \in 0 .. k - 1 : y \notin seen[j]
             n == CHOOSE k \in 0 .. N : First(k)
             R == {p \in routes[n] : p[n + 1] = y}
  <1>4. ShortestPaths(g, x, y) = IF K = {} THEN {} ELSE R
    <2>1. (\A k \in 0 .. N : y \notin seen[k]) <=> K = {}
      OBVIOUS
    <2>2. ShortestOf(N, seen, routes, y)
            = IF \A k \in 0 .. N : y \notin seen[k] THEN {} ELSE R
      BY Zenon DEF ShortestOf
    <2> HIDE DEF K, R
    <2> QED BY <1>2, <2>1, <2>2
  <1>5. ASSUME K # {} PROVE n \in 0 .. N /\ y \in seen[n]
    <2>1. K \in SUBSET Nat
      OBVIOUS
    <2>2. PICK k \in K : \A j \in K : k <= j
      <3> HIDE DEF K
      <3> QED BY <1>5, <2>1, Seens!SmallestMember
    <2>3. k \in 0 .. N /\ First(k)
      <3>1. ASSUME NEW j \in 0 .. k - 1 PROVE y \notin seen[j]
        <4>1. j \in 0 .. N /\ ~(k <= j)
          BY <1>1, <2>2
        <4> QED BY <2>2, <4>1
      <3> QED BY <2>2, <3>1
    <2>4. n \in 0 .. N /\ First(n)
      <3> HIDE DEF First
      <3> QED BY <2>3
    <2> HIDE DEF n
    <2> QED BY <2>4
  <1> HIDE DEF n
  <1>6. ASSUME K # {} PROVE R # {}
    BY <1>3, <1>5, <1>6 DEF SearchesAgree
  <1>7. ASSUME K # {}, NEW p \in R PROVE IsPath(g, p, x, y)
    <2>1. /\ p \in Seq(Vertex) /\ Len(p) = n + 1 /\ p[1] = x /\ IsWalk(g, p) /\ p[n + 1] = y
          /\ n \in Nat
      BY <1>3, <1>5, <1>7 DEF SearchesAgree, IsRoute
    <2> QED BY <2>1 DEF IsPath
  <1>8. ASSUME NEW s, IsPath(g, s, x, y), Len(s) <= N PROVE K # {}
    <2> DEFINE m == Len(s) - 1
    <2>1. m \in Nat /\ m + 1 = Len(s) /\ m <= N
      BY <1>1, <1>8 DEF IsPath
    <2> HIDE DEF m
    <2> DEFINE S == {k \in 0 .. m : s[k + 1] \in seen[k]}
    <2>2. 0 \in S
      BY <1>2, <1>8, <2>1 DEF IsPath, AreSearches
    <2>3. ASSUME NEW k \in 1 .. m, k - 1 \in S PROVE k \in S
      <3>1. <<s[k], s[k + 1]>> \in DOMAIN g
        BY <1>8 DEF IsPath, IsWalk, m
      <3>2. s[k] \in seen[k - 1] /\ k \in 1 .. N /\ k \in 0 .. m
        <4>1. k - 1 + 1 = k
          OBVIOUS
        <4> QED BY <1>1, <2>1, <2>3, <4>1
      <3>3. s[k + 1] \in succ(g, s[k])
        BY <3>1, NeighboursAre
      <3>4. seen[k] = UNION {succ(g, z) : z \in seen[k - 1]}
        BY <1>2, <3>2 DEF AreSearches
      <3>5. s[k + 1] \in seen[k]
        BY <3>2, <3>3, <3>4
      <3> QED BY <3>2, <3>5
    <2>4. m \in S
      <3> HIDE DEF S
      <3>1. \A k \in 0 .. m : k \in S
        BY <2>1, <2>2, <2>3, Seens!IntervalInduction
      <3> QED BY <2>1, <3>1
    <2>5. y \in seen[m] /\ m \in 0 .. N
      BY <1>1, <1>8, <2>1, <2>4 DEF IsPath
    <2> QED BY <2>5
  <1> HIDE DEF K, R
  <1> QED BY <1>4, <1>6, <1>7, <1>8 DEF N

-----------------------------------------------------------------------------
(* a path visits each vertex once *)
LEMMA PathIsShort ==
  ASSUME NEW g, NEW w, IsTrace(w), IsSound(g, w), NEW s, NEW x \in Nodes(g), NEW y,
         IsPath(g, s, x, y)
  PROVE  Len(s) <= Cardinality(Nodes(g)) /\ \A k \in 1 .. Len(s) : s[k] \in Nodes(g)
PROOF
  <1> DEFINE n == Len(s)
             V == Nodes(g)
  <1>1. n \in Nat \ {0} /\ s[1] = x /\ DOMAIN s = 1 .. n
    BY DEF IsPath
  <1>2. IsGraph(g, w) /\ V \subseteq Events(w) /\ V \subseteq Vertex
    BY NeighboursAre DEF IsSound, Events
  <1>3. \A k \in 1 .. n - 1 : <<s[k], s[k + 1]>> \in DOMAIN g
    BY DEF IsPath, IsWalk
  <1> HIDE DEF n
  <1>4. ASSUME NEW k \in 1 .. n PROVE s[k] \in V
    <2>1. CASE k = 1
      BY <1>1, <2>1
    <2>2. CASE k # 1
      <3>1. k - 1 \in 1 .. n - 1 /\ k - 1 + 1 = k
        BY <1>1, <2>2
      <3>2. <<s[k - 1], s[k - 1 + 1]>> \in DOMAIN g
        BY <1>3, <3>1
      <3>3. <<s[k - 1], s[k]>> \in DOMAIN g
        BY <3>1, <3>2
      <3> QED BY <1>2, <3>3, NeighboursAre
    <2> QED BY <2>1, <2>2
  <1>5. ASSUME NEW k \in 1 .. n - 1
        PROVE  /\ Depth(s[k]) < Depth(s[k + 1])
               /\ Depth(s[k]) \in Nat /\ Depth(s[k + 1]) \in Nat
    <2>1. <<s[k], s[k + 1]>> \in DOMAIN g
      BY <1>3
    <2>2. Lower(s[k], s[k + 1])
      BY <2>1 DEF IsSound, IsTimed
    <2>3. s[k] \in Vertex /\ s[k + 1] \in Vertex
      BY <1>2, <2>1, NeighboursAre
    <2> QED BY <2>2, <2>3, DepthGrows
  <1> DEFINE S == {j \in 0 .. n - 1 : \A i \in 1 .. j : Depth(s[i]) < Depth(s[j + 1])}
  <1>6. 0 \in S
    BY <1>1
  <1>7. ASSUME NEW j \in 1 .. n - 1, j - 1 \in S PROVE j \in S
    <2>1. j \in 0 .. n - 1 /\ j - 1 + 1 = j
      BY <1>1
    <2>2. ASSUME NEW i \in 1 .. j PROVE Depth(s[i]) < Depth(s[j + 1])
      <3>1. CASE i = j
        BY <1>5, <3>1
      <3>2. CASE i # j
        <4>1. i \in 1 .. j - 1 /\ i \in 1 .. n - 1
          BY <1>1, <3>2
        <4>2. Depth(s[i]) < Depth(s[j])
          BY <1>7, <2>1, <4>1
        <4>3. Depth(s[j]) < Depth(s[j + 1]) /\ Depth(s[j]) \in Nat /\ Depth(s[j + 1]) \in Nat
          BY <1>5
        <4>4. Depth(s[i]) \in Nat
          BY <1>5, <4>1
        <4> QED BY <4>2, <4>3, <4>4
      <3> QED BY <3>1, <3>2
    <2> QED BY <2>1, <2>2
  <1>8. \A j \in 0 .. n - 1 : j \in S
    <2> HIDE DEF S
    <2>1. n - 1 \in Nat
      BY <1>1
    <2> QED BY <1>6, <1>7, <2>1, Costs!IntervalInduction
  <1>9. ASSUME NEW i \in 1 .. n, NEW j \in 1 .. n, i < j PROVE s[i] # s[j]
    <2>1. j - 1 \in 0 .. n - 1 /\ i \in 1 .. j - 1 /\ j - 1 + 1 = j
      BY <1>1, <1>9
    <2>2. j - 1 \in S
      BY <1>8, <2>1
    <2>3. Depth(s[i]) < Depth(s[j])
      BY <2>1, <2>2
    <2>4. Depth(s[i]) \in Nat /\ Depth(s[j]) \in Nat
      BY <1>2, <1>4, DepthGrows
    <2> QED BY <2>3, <2>4
  <1> DEFINE f == [k \in 1 .. n |-> s[k]]
  <1>10. f \in Injection(1 .. n, V)
    <2>1. f \in [1 .. n -> V]
      BY <1>4
    <2>2. ASSUME NEW i \in 1 .. n, NEW j \in 1 .. n, f[i] = f[j] PROVE i = j
      <3>1. s[i] = s[j]
        BY <2>2
      <3>2. ~(i < j) /\ ~(j < i)
        BY <1>9, <3>1
      <3> QED BY <1>1, <3>2
    <2> HIDE DEF f
    <2> QED BY <2>1, <2>2 DEF Injection, IsInjective
  <1>11. IsFiniteSet(V)
    <2>1. V \in SUBSET Events(w)
      BY <1>2
    <2> HIDE DEF V
    <2> QED BY <2>1, EventsAreFinite
  <1> HIDE DEF f
  <1>12. Cardinality(1 .. n) <= Cardinality(V)
    <2> HIDE DEF V
    <2> QED BY <1>10, <1>11, FS_Injection
  <1>13. Cardinality(1 .. n) = n
    <2>1. n \in Int /\ 1 \in Int /\ n - 1 + 1 = n /\ n >= 1
      BY <1>1
    <2> QED BY <2>1, FS_Interval
  <1> QED BY <1>4, <1>12, <1>13 DEF n

(* the pipeline leads from the fetch to every event, and from there to the commit *)
LEMMA PipelineLeads ==
  ASSUME NEW g, NEW w, IsTrace(w), IsSound(g, w), NEW x \in Events(w)
  PROVE  /\ x \in Nodes(g)
         /\ \E s : IsPath(g, s, <<x[1], "F1">>, x)
         /\ \E s : IsPath(g, s, x, <<x[1], "C">>)
PROOF
  <1> DEFINE n == x[1]
             i == w[n]
             p == Pipeline(i)
             l == Len(p)
  <1>1. n \in DOMAIN w /\ x \in Vertex /\ x = <<x[1], x[2]>> /\ n \in Nat \ {0}
    BY DEF Events, Vertex
  <1>2. i \in Instruction
    BY <1>1 DEF IsTrace
  <1>3. PICK k \in DOMAIN p : x[2] = p[k]
    BY DEF Events, PipelineStages
  <1>4. p \in Seq(Stages) /\ l \in 7 .. 10 /\ p[1] = "F1" /\ p[l] = "C"
    BY <1>2, PipelineIs
  <1>5. HasPipeline(g, i, n)
    BY <1>1 DEF IsSound
  <1> HIDE DEF p, n
  <1>6. l \in Nat /\ DOMAIN p = 1 .. l /\ 7 <= l
    <2>1. PICK m \in 7 .. 10 : Len(p) = m
      BY <1>4
    <2>2. m \in Nat /\ 7 <= m /\ DOMAIN p = 1 .. Len(p)
      BY <1>4
    <2> QED BY <2>1, <2>2
  <1>7. \A j \in 1 .. l - 1 : <<<<n, p[j]>>, <<n, p[j + 1]>>>> \in DOMAIN g
    BY <1>5 DEF HasPipeline, p
  <1>8. \A j \in 1 .. l : <<n, p[j]>> \in Vertex
    BY <1>1, <1>4, <1>6 DEF Vertex
  <1>9. x = <<n, p[k]>>
    BY <1>1, <1>3 DEF n
  <1> HIDE DEF l
  <1>10. x \in Nodes(g)
    <2>1. CASE k = l
      <3>1. k - 1 \in 1 .. l - 1 /\ k - 1 + 1 = k
        BY <1>6, <2>1
      <3>2. <<<<n, p[k - 1]>>, <<n, p[k - 1 + 1]>>>> \in DOMAIN g
        BY <1>7, <3>1
      <3>3. <<<<n, p[k - 1]>>, <<n, p[k]>>>> \in DOMAIN g
        BY <3>1, <3>2
      <3> QED BY <1>9, <3>3, NeighboursAre DEF IsSound
    <2>2. CASE k # l
      <3>1. k \in 1 .. l - 1
        BY <1>3, <1>6, <2>2
      <3> QED BY <1>7, <1>9, <3>1, NeighboursAre DEF IsSound
    <2> QED BY <2>1, <2>2
  <1>11. IsPath(g, [j \in 1 .. k |-> <<n, p[j]>>], <<n, "F1">>, x)
    <2> DEFINE s == [j \in 1 .. k |-> <<n, p[j]>>]
    <2>1. k \in 1 .. l
      BY <1>3, <1>6
    <2>2. s \in Seq(Vertex) /\ Len(s) = k /\ DOMAIN s = 1 .. k
      BY <1>6, <1>8, <2>1
    <2>3. s[1] = <<n, "F1">> /\ s[k] = x
      BY <1>4, <1>6, <1>9, <2>1
    <2>4. ASSUME NEW j \in 1 .. k - 1 PROVE <<s[j], s[j + 1]>> \in DOMAIN g
      <3>1. j \in 1 .. l - 1 /\ j \in 1 .. k /\ j + 1 \in 1 .. k
        BY <1>6, <2>1
      <3>2. s[j] = <<n, p[j]>> /\ s[j + 1] = <<n, p[j + 1]>>
        BY <3>1
      <3> HIDE DEF s
      <3> QED BY <1>7, <3>1, <3>2
    <2> HIDE DEF s
    <2>5. IsWalk(g, s)
      BY <2>2, <2>4 DEF IsWalk
    <2> QED BY <1>6, <2>1, <2>2, <2>3, <2>5 DEF IsPath, s
  <1>12. IsPath(g, [j \in 1 .. l - k + 1 |-> <<n, p[k + j - 1]>>], x, <<n, "C">>)
    <2> DEFINE m == l - k + 1
               s == [j \in 1 .. m |-> <<n, p[k + j - 1]>>]
    <2>1. k \in 1 .. l /\ m \in Nat \ {0}
      BY <1>3, <1>6
    <2>2. \A j \in 1 .. m : k + j - 1 \in 1 .. l
      BY <1>6, <2>1
    <2>3. s \in Seq(Vertex) /\ Len(s) = m /\ DOMAIN s = 1 .. m
      BY <1>8, <2>1, <2>2
    <2>4. s[1] = x /\ s[m] = <<n, "C">>
      <3>1. 1 \in 1 .. m /\ m \in 1 .. m /\ k + 1 - 1 = k /\ k + m - 1 = l
        BY <1>6, <2>1
      <3>2. s[1] = <<n, p[k + 1 - 1]>> /\ s[m] = <<n, p[k + m - 1]>>
        BY <3>1
      <3> QED BY <1>4, <1>9, <3>1, <3>2 DEF l
    <2>5. ASSUME NEW j \in 1 .. m - 1 PROVE <<s[j], s[j + 1]>> \in DOMAIN g
      <3>1. /\ k + j - 1 \in 1 .. l - 1 /\ j \in 1 .. m /\ j + 1 \in 1 .. m
            /\ k + (j + 1) - 1 = (k + j - 1) + 1
        BY <1>6, <2>1
      <3>2. s[j] = <<n, p[k + j - 1]>> /\ s[j + 1] = <<n, p[(k + j - 1) + 1]>>
        BY <3>1
      <3> HIDE DEF s
      <3> QED BY <1>7, <3>1, <3>2
    <2> HIDE DEF s, m
    <2>6. IsWalk(g, s)
      BY <2>3, <2>5 DEF IsWalk
    <2>7. IsPath(g, s, x, <<n, "C">>)
      BY <2>1, <2>3, <2>4, <2>6 DEF IsPath
    <2> QED BY <2>7 DEF s, m
  <1> QED BY <1>10, <1>11, <1>12 DEF n

-----------------------------------------------------------------------------
(* c is the sequence of a, s and b, joined where one ends and the next starts *)
IsJoined(a, s, b, c) ==
  /\ Len(c) = Len(a) + Len(s) + Len(b) - 2
  /\ \A k \in 1 .. Len(a) : c[k] = a[k]
  /\ \A k \in 1 .. Len(s) : c[Len(a) - 1 + k] = s[k]
  /\ \A k \in 1 .. Len(b) : c[Len(a) + Len(s) - 2 + k] = b[k]

(* critical joins the path to its two extensions *)
LEMMA PathsJoin ==
  ASSUME NEW g, NEW a, NEW s, NEW b, NEW u, NEW x, NEW y, NEW v,
         IsPath(g, a, u, x), IsPath(g, s, x, y), IsPath(g, b, y, v)
  PROVE  LET c == Front(a) \o s \o Tail(b)
         IN  c \in Seq(Vertex) /\ IsJoined(a, s, b, c)
PROOF
  <1> DEFINE f == Front(a)
             t == Tail(b)
             r == f \o s
             c == r \o t
  <1>1. /\ a \in Seq(Vertex) /\ s \in Seq(Vertex) /\ b \in Seq(Vertex)
        /\ Len(a) \in Nat \ {0} /\ Len(s) \in Nat \ {0} /\ Len(b) \in Nat \ {0}
        /\ a[Len(a)] = x /\ s[1] = x /\ s[Len(s)] = y /\ b[1] = y
    BY DEF IsPath
  <1>2. f \in Seq(Vertex) /\ Len(f) = Len(a) - 1 /\ \A k \in 1 .. Len(a) - 1 : f[k] = a[k]
    <2> DEFINE n == Len(a) - 1
    <2>1. f = SubSeq(a, 1, n)
      BY DEF Front
    <2>2. n \in Nat /\ 1 <= n + 1 /\ n <= Len(a) /\ n + 1 = Len(a)
      BY <1>1
    <2>3. \A k \in 1 .. n : a[k] \in Vertex
      BY <1>1, <2>2
    <2> HIDE DEF f, n
    <2>4. f = [k \in 1 .. n |-> a[1 + k - 1]]
      BY <1>1, <2>1, <2>2
    <2>5. \A k \in 1 .. n : 1 + k - 1 = k
      BY <2>2
    <2>6. f = [k \in 1 .. n |-> a[k]]
      BY <2>4, <2>5
    <2>7. f \in Seq(Vertex) /\ Len(f) = n
      BY <2>2, <2>3, <2>6
    <2>8. \A k \in 1 .. n : f[k] = a[k]
      BY <2>6
    <2> QED BY <2>7, <2>8 DEF n
  <1>3. t \in Seq(Vertex) /\ Len(t) = Len(b) - 1 /\ \A k \in 1 .. Len(b) - 1 : t[k] = b[k + 1]
    <2>1. b # <<>>
      BY <1>1
    <2>2. t \in Seq(Vertex) /\ Len(t) = Len(b) - 1
      BY <1>1, <2>1, HeadTailProperties
    <2>3. \A k \in 1 .. Len(b) - 1 : t[k] = b[k + 1]
      BY <1>1, <2>1, HeadTailProperties
    <2> QED BY <2>2, <2>3
  <1> HIDE DEF f, t
  <1>4. /\ r \in Seq(Vertex) /\ Len(r) = Len(f) + Len(s)
        /\ \A k \in 1 .. Len(f) + Len(s) : r[k] = IF k <= Len(f) THEN f[k] ELSE s[k - Len(f)]
    BY <1>1, <1>2, ConcatProperties
  <1> HIDE DEF r
  <1>5. /\ c \in Seq(Vertex) /\ Len(c) = Len(r) + Len(t)
        /\ \A k \in 1 .. Len(r) + Len(t) : c[k] = IF k <= Len(r) THEN r[k] ELSE t[k - Len(r)]
    BY <1>3, <1>4, ConcatProperties
  <1> HIDE DEF c
  <1> DEFINE A == Len(a)
             N == Len(s)
             B == Len(b)
  <1>6. A \in Nat \ {0} /\ N \in Nat \ {0} /\ B \in Nat \ {0}
    BY <1>1
  <1>7. Len(f) = A - 1 /\ Len(t) = B - 1 /\ Len(r) = A - 1 + N /\ Len(c) = A + N + B - 2
    BY <1>2, <1>3, <1>4, <1>5, <1>6
  <1> HIDE DEF A, N, B
  <1>8. ASSUME NEW k \in 1 .. N PROVE c[A - 1 + k] = s[k]
    <2>1. /\ A - 1 + k \in 1 .. Len(r) + Len(t) /\ A - 1 + k <= Len(r)
          /\ A - 1 + k \in 1 .. Len(f) + N /\ ~(A - 1 + k <= Len(f))
          /\ (A - 1 + k) - Len(f) = k
      BY <1>6, <1>7
    <2>2. c[A - 1 + k] = r[A - 1 + k]
      BY <1>5, <2>1
    <2>3. r[A - 1 + k] = s[(A - 1 + k) - Len(f)]
      <3>1. PICK i \in 1 .. Len(f) + Len(s) : i = A - 1 + k
        BY <2>1 DEF N
      <3>2. r[i] = s[i - Len(f)]
        BY <1>4, <2>1, <3>1
      <3> QED BY <3>1, <3>2
    <2> QED BY <2>1, <2>2, <2>3
  <1>9. ASSUME NEW k \in 1 .. A PROVE c[k] = a[k]
    <2>1. CASE k = A
      <3>1. c[A - 1 + 1] = s[1] /\ A - 1 + 1 = A
        BY <1>6, <1>8
      <3> QED BY <1>1, <2>1, <3>1 DEF A
    <2>2. CASE k # A
      <3>1. /\ k \in 1 .. Len(r) + Len(t) /\ k <= Len(r) /\ k \in 1 .. Len(f) + N
            /\ k <= Len(f) /\ k \in 1 .. A - 1
        BY <1>6, <1>7, <2>2
      <3>2. c[k] = r[k]
        BY <1>5, <3>1
      <3>3. r[k] = f[k]
        BY <1>4, <3>1 DEF N
      <3>4. f[k] = a[k]
        BY <1>2, <3>1 DEF A
      <3> QED BY <3>2, <3>3, <3>4
    <2> QED BY <2>1, <2>2
  <1>10. ASSUME NEW k \in 1 .. B PROVE c[A + N - 2 + k] = b[k]
    <2>1. CASE k = 1
      <3>1. c[A - 1 + N] = s[N] /\ A + N - 2 + 1 = A - 1 + N
        BY <1>6, <1>8
      <3> QED BY <1>1, <2>1, <3>1 DEF N
    <2>2. CASE k # 1
      <3>1. /\ A + N - 2 + k \in 1 .. Len(r) + Len(t) /\ ~(A + N - 2 + k <= Len(r))
            /\ (A + N - 2 + k) - Len(r) = k - 1 /\ k - 1 \in 1 .. B - 1 /\ k - 1 + 1 = k
        BY <1>6, <1>7, <2>2
      <3>2. c[A + N - 2 + k] = t[(A + N - 2 + k) - Len(r)]
        <4>1. PICK i \in 1 .. Len(r) + Len(t) : i = A + N - 2 + k
          BY <3>1
        <4>2. c[i] = t[i - Len(r)]
          BY <1>5, <3>1, <4>1
        <4> QED BY <4>1, <4>2
      <3>3. t[k - 1] = b[k - 1 + 1]
        BY <1>3, <3>1 DEF B
      <3> QED BY <3>1, <3>2, <3>3
    <2> QED BY <2>1, <2>2
  <1>11. IsJoined(a, s, b, c)
    BY <1>7, <1>8, <1>9, <1>10 DEF IsJoined, A, N, B
  <1> QED BY <1>5, <1>11 DEF c, r, f, t

(* every step of c is a step of a, of s or of b *)
LEMMA JoinedSteps ==
  ASSUME NEW a, NEW s, NEW b, NEW c, IsJoined(a, s, b, c),
         Len(a) \in Nat \ {0}, Len(s) \in Nat \ {0}, Len(b) \in Nat \ {0},
         NEW k \in 1 .. Len(c) - 1
  PROVE  \/ k \in 1 .. Len(a) - 1 /\ c[k] = a[k] /\ c[k + 1] = a[k + 1]
         \/ LET j == k - Len(a) + 1
            IN  j \in 1 .. Len(s) - 1 /\ c[k] = s[j] /\ c[k + 1] = s[j + 1]
         \/ LET j == k - Len(a) - Len(s) + 2
            IN  j \in 1 .. Len(b) - 1 /\ c[k] = b[j] /\ c[k + 1] = b[j + 1]
PROOF
  <1> DEFINE A == Len(a)
             N == Len(s)
             B == Len(b)
  <1>1. /\ \A i \in 1 .. A : c[i] = a[i]
        /\ \A i \in 1 .. N : c[A - 1 + i] = s[i]
        /\ \A i \in 1 .. B : c[A + N - 2 + i] = b[i]
    BY DEF IsJoined
  <1>2. /\ Len(c) = A + N + B - 2 /\ A \in Nat \ {0} /\ N \in Nat \ {0} /\ B \in Nat \ {0}
        /\ k \in Int /\ 1 <= k /\ k <= A + N + B - 3
    BY DEF IsJoined
  <1> HIDE DEF A, N, B
  <1>3. CASE k < A
    <2>1. k \in 1 .. A /\ k + 1 \in 1 .. A /\ k \in 1 .. A - 1
      BY <1>2, <1>3
    <2> QED BY <1>1, <2>1 DEF A
  <1>4. CASE k >= A /\ k < A + N - 1
    <2> DEFINE j == k - A + 1
    <2>1. /\ j \in 1 .. N /\ j + 1 \in 1 .. N /\ j \in 1 .. N - 1
          /\ A - 1 + j = k /\ A - 1 + (j + 1) = k + 1
      BY <1>2, <1>4
    <2>2. c[A - 1 + j] = s[j] /\ c[A - 1 + (j + 1)] = s[j + 1]
      BY <1>1, <2>1
    <2> QED BY <2>1, <2>2 DEF A, N
  <1>5. CASE k >= A + N - 1
    <2> DEFINE j == k - A - N + 2
    <2>1. /\ j \in 1 .. B /\ j + 1 \in 1 .. B /\ j \in 1 .. B - 1
          /\ A + N - 2 + j = k /\ A + N - 2 + (j + 1) = k + 1
      BY <1>2, <1>5
    <2>2. c[A + N - 2 + j] = b[j] /\ c[A + N - 2 + (j + 1)] = b[j + 1]
      BY <1>1, <2>1
    <2> QED BY <2>1, <2>2 DEF A, N, B
  <1> QED BY <1>2, <1>3, <1>4, <1>5

(* three paths that meet are joined to a path *)
LEMMA JoinedIsPath ==
  ASSUME NEW g, NEW a, NEW s, NEW b, NEW u, NEW x, NEW y, NEW v,
         IsPath(g, a, u, x), IsPath(g, s, x, y), IsPath(g, b, y, v),
         NEW c \in Seq(Vertex), IsJoined(a, s, b, c)
  PROVE  IsPath(g, c, u, v)
PROOF
  <1>1. /\ Len(a) \in Nat \ {0} /\ Len(s) \in Nat \ {0} /\ Len(b) \in Nat \ {0}
        /\ a[1] = u /\ b[Len(b)] = v
    BY DEF IsPath
  <1>2. Len(c) \in Nat \ {0} /\ Len(c) = Len(a) + Len(s) - 2 + Len(b) /\ DOMAIN c = 1 .. Len(c)
    BY <1>1 DEF IsJoined
  <1>3. 1 \in 1 .. Len(a) /\ Len(b) \in 1 .. Len(b)
    BY <1>1
  <1>4. c[1] = u /\ c[Len(c)] = v
    BY <1>1, <1>2, <1>3 DEF IsJoined
  <1>5. IsWalk(g, c)
    <2> SUFFICES ASSUME NEW k \in 1 .. Len(c) - 1 PROVE <<c[k], c[k + 1]>> \in DOMAIN g
      BY DEF IsWalk
    <2> DEFINE i == k - Len(a) + 1
               j == k - Len(a) - Len(s) + 2
    <2>1. \/ k \in 1 .. Len(a) - 1 /\ c[k] = a[k] /\ c[k + 1] = a[k + 1]
          \/ i \in 1 .. Len(s) - 1 /\ c[k] = s[i] /\ c[k + 1] = s[i + 1]
          \/ j \in 1 .. Len(b) - 1 /\ c[k] = b[j] /\ c[k + 1] = b[j + 1]
      BY <1>1, JoinedSteps
    <2> HIDE DEF i, j
    <2> QED BY <2>1 DEF IsPath, IsWalk
  <1> QED BY <1>2, <1>4, <1>5 DEF IsPath

-----------------------------------------------------------------------------
(* m is 0 or the largest value of f, whichever is larger *)
IsMaxOf(m, f, S) == /\ m \in Nat /\ \A x \in S : f[x] <= m
                    /\ m = 0 \/ \E x \in S : m = f[x]

(* Max finds it *)
LEMMA MaxOf ==
  ASSUME NEW S, IsFiniteSet(S), NEW f \in [S -> Nat]
  PROVE  IsMaxOf(Max({0} \cup {f[x] : x \in S}), f, S)
PROOF
  <1> DEFINE P == {f[x] : x \in S}
             Q == {0} \cup P
  <1>1. Q \in SUBSET Nat /\ Q # {} /\ \A x \in S : f[x] \in Q
    OBVIOUS
  <1>2. \A q \in Q : q = 0 \/ \E x \in S : q = f[x]
    OBVIOUS
  <1>3. IsFiniteSet(P)
    <2>1. f \in Surjection(S, P)
      BY DEF Surjection
    <2> HIDE DEF P
    <2> QED BY <2>1, FS_Surjection
  <1>4. IsFiniteSet(Q)
    <2> HIDE DEF P
    <2> QED BY <1>3, FS_Singleton, FS_Union
  <1> HIDE DEF Q
  <1>5. Max(Q) \in Q /\ Max(Q) \in Nat /\ \A q \in Q : q <= Max(Q)
    BY <1>1, <1>4, MaxIs
  <1>6. IsMaxOf(Max(Q), f, S)
    BY <1>1, <1>2, <1>5 DEF IsMaxOf
  <1> QED BY <1>6 DEF Q

(* the cost of a most expensive path to x *)
LongestDef(g, h, x) == Max({0} \cup {h[y] + g[<<y, x>>].cost : y \in pred(g, x)})
Longests == INSTANCE Recursion WITH Def <- LongestDef, Op <- TrailOp

(***************************************************************************)
(* The most expensive path costs at least as much as any other, and at     *)
(* most as much as numbers that grow as fast along every edge.             *)
(***************************************************************************)
LEMMA LongestIs ==
  ASSUME NEW g, NEW w, IsTrace(w), IsSound(g, w),
         NEW m \in Nat, NEW F \in [Nodes(g) -> Nat], \A x \in Nodes(g) : F[x] <= m,
         \A x \in Nodes(g) : \A z \in pred(g, x) : F[z] + g[<<z, x>>].cost <= F[x],
         NEW s, NEW x \in Nodes(g), NEW y, IsPath(g, s, x, y)
  PROVE  /\ LongestCost(g) \in Nat /\ LongestCost(g) <= m
         /\ CostOf(g, s) \in Int /\ CostOf(g, s) <= LongestCost(g)
PROOF
  <1> DEFINE V == Nodes(g)
             D == [v \in V |-> Depth(v)]
             L == Longests!Fix(g, V)
  <1>1. LongestCost(g) = Max({0} \cup {L[v] : v \in V})
    BY DEF LongestCost, Longests!Fix, LongestDef
  <1>2. V \subseteq Events(w) /\ V \subseteq Vertex
    BY NeighboursAre DEF IsSound, Events
  <1>3. D \in [V -> Nat] /\ \A v \in V : D[v] = Depth(v)
    BY <1>2, DepthGrows
  <1>4. ASSUME NEW v \in V, NEW z \in pred(g, v)
        PROVE  g[<<z, v>>].cost \in Nat /\ z \in V /\ D[z] < D[v]
    <2>1. <<z, v>> \in DOMAIN g /\ z \in V
      BY NeighboursAre DEF IsSound
    <2>2. Lower(z, v) /\ g[<<z, v>>].cost >= 0 /\ g[<<z, v>>].cost \in Int
      BY <2>1 DEF IsSound, IsTimed, IsGraph, Label
    <2> QED BY <1>2, <1>3, <2>1, <2>2, DepthGrows
  <1>5. IsFiniteSet(V) /\ \A v : IsFiniteSet(pred(g, v))
    <2>1. \A v : pred(g, v) \subseteq V
      BY PredIsFinite DEF IsSound
    <2>2. V \in SUBSET Events(w) /\ \A v : pred(g, v) \in SUBSET Events(w)
      BY <1>2, <2>1
    <2> HIDE DEF V
    <2> QED BY <2>2, EventsAreFinite
  <1> HIDE DEF L, D
  <1>6. \A p, q : \A v \in V : (\A z \in V : D[z] < D[v] => p[z] = q[z])
                                 => LongestDef(g, p, v) = LongestDef(g, q, v)
    <2> SUFFICES ASSUME NEW p, NEW q, NEW v \in V, \A z \in V : D[z] < D[v] => p[z] = q[z]
                 PROVE  LongestDef(g, p, v) = LongestDef(g, q, v)
      OBVIOUS
    <2>1. \A z \in pred(g, v) : p[z] = q[z]
      BY <1>4
    <2>2. {p[z] + g[<<z, v>>].cost : z \in pred(g, v)}
            = {q[z] + g[<<z, v>>].cost : z \in pred(g, v)}
      BY <2>1
    <2> QED BY <2>2 DEF LongestDef
  <1>7. L = [v \in V |-> LongestDef(g, L, v)]
    <2> HIDE DEF V
    <2> QED BY <1>3, <1>6, Longests!RecursionDefines DEF L
  <1> DEFINE Good(v) == /\ L[v] \in Nat /\ L[v] <= F[v]
                        /\ \A z \in pred(g, v) : L[z] + g[<<z, v>>].cost <= L[v]
             S == {k \in Nat : \A v \in V : D[v] = k => Good(v)}
  <1>8. ASSUME NEW k \in Nat, \A j \in Nat : j < k => j \in S PROVE k \in S
    <2> SUFFICES ASSUME NEW v \in V, D[v] = k PROVE Good(v)
      OBVIOUS
    <2> DEFINE A == pred(g, v)
               f == [z \in A |-> L[z] + g[<<z, v>>].cost]
    <2>1. ASSUME NEW z \in A
          PROVE /\ L[z] \in Nat /\ L[z] <= F[z] /\ g[<<z, v>>].cost \in Nat /\ F[z] \in Nat
                /\ F[z] + g[<<z, v>>].cost <= F[v]
      <3>1. z \in V /\ D[z] < D[v] /\ D[z] \in Nat /\ g[<<z, v>>].cost \in Nat
        BY <1>3, <1>4
      <3>2. D[z] \in S
        BY <1>8, <3>1
      <3>3. Good(z)
        BY <3>1, <3>2
      <3> QED BY <3>1, <3>3
    <2>2. f \in [A -> Nat] /\ \A z \in A : f[z] = L[z] + g[<<z, v>>].cost
      BY <2>1
    <2>3. L[v] = Max({0} \cup {f[z] : z \in A})
      <3>1. L[v] = LongestDef(g, L, v)
        BY <1>7
      <3>2. {f[z] : z \in A} = {L[z] + g[<<z, v>>].cost : z \in A}
        BY <2>2
      <3> QED BY <3>1, <3>2 DEF LongestDef
    <2> HIDE DEF f
    <2>4. IsMaxOf(L[v], f, A)
      <3> HIDE DEF A
      <3>1. IsFiniteSet(A)
        BY <1>5 DEF A
      <3> QED BY <2>2, <2>3, <3>1, MaxOf
    <2>5. F[v] \in Nat
      OBVIOUS
    <2>6. L[v] \in Nat /\ \A z \in A : f[z] <= L[v]
      BY <2>4 DEF IsMaxOf
    <2>7. L[v] <= F[v]
      <3>1. CASE L[v] = 0
        BY <2>5, <3>1
      <3>2. CASE \E z \in A : L[v] = f[z]
        <4>1. PICK z \in A : L[v] = f[z]
          BY <3>2
        <4>2. L[v] = L[z] + g[<<z, v>>].cost
          BY <2>2, <4>1
        <4> QED BY <2>1, <2>5, <4>2
      <3> QED BY <2>4, <3>1, <3>2 DEF IsMaxOf
    <2> QED BY <2>2, <2>6, <2>7
  <1>9. \A v \in V : Good(v)
    <2>1. \A k \in Nat : k \in S
      <3> HIDE DEF S
      <3> QED BY <1>8, Longests!NatSetInduction
    <2> QED BY <1>3, <2>1
  <1> DEFINE f == [v \in V |-> L[v]]
  <1>10. f \in [V -> Nat] /\ \A v \in V : f[v] = L[v]
    BY <1>9
  <1>11. IsMaxOf(LongestCost(g), f, V)
    <2>1. {f[v] : v \in V} = {L[v] : v \in V}
      BY <1>10
    <2> HIDE DEF f, V
    <2> QED BY <1>1, <1>5, <1>10, <2>1, MaxOf
  <1> HIDE DEF f
  <1>12. LongestCost(g) \in Nat /\ LongestCost(g) <= m
    <2>1. LongestCost(g) \in Nat /\ (LongestCost(g) = 0 \/ \E v \in V : LongestCost(g) = f[v])
      BY <1>11 DEF IsMaxOf
    <2>2. \A v \in V : f[v] \in Nat /\ f[v] <= F[v] /\ F[v] \in Nat /\ F[v] <= m
      BY <1>9, <1>10
    <2> QED BY <2>1, <2>2
  <1> DEFINE q == [k \in 1 .. Len(s) |-> L[s[k]]]
  <1>13. Len(s) \in Nat \ {0} /\ \A k \in 1 .. Len(s) : s[k] \in V
    BY PathIsShort DEF IsPath
  <1>14. q \in [1 .. Len(s) -> Nat] /\ \A k \in 1 .. Len(s) : q[k] = L[s[k]]
    BY <1>9, <1>13
  <1> HIDE DEF q
  <1>15. ASSUME NEW k \in 1 .. Len(s) - 1
         PROVE  /\ g[<<s[k], s[k + 1]>>].cost \in Int
                /\ q[k] + g[<<s[k], s[k + 1]>>].cost <= q[k + 1]
    <2>1. k \in 1 .. Len(s) /\ k + 1 \in 1 .. Len(s)
      BY <1>13
    <2>2. <<s[k], s[k + 1]>> \in DOMAIN g
      BY DEF IsPath, IsWalk
    <2>3. s[k] \in pred(g, s[k + 1]) /\ s[k + 1] \in V
      BY <1>13, <2>1, <2>2, NeighboursAre DEF IsSound
    <2>4. L[s[k]] + g[<<s[k], s[k + 1]>>].cost <= L[s[k + 1]]
      BY <1>9, <2>3
    <2>5. g[<<s[k], s[k + 1]>>].cost \in Nat
      BY <1>4, <2>3
    <2> QED BY <1>14, <2>1, <2>4, <2>5
  <1>16. CostOf(g, s) \in Int /\ CostOf(g, s) <= q[Len(s)]
    BY <1>13, <1>14, <1>15, CostIsBelow
  <1>17. q[Len(s)] <= LongestCost(g) /\ q[Len(s)] \in Nat
    <2>1. Len(s) \in 1 .. Len(s)
      BY <1>13
    <2>2. s[Len(s)] \in V /\ q[Len(s)] = f[s[Len(s)]] /\ q[Len(s)] \in Nat
      BY <1>10, <1>13, <1>14, <2>1
    <2> QED BY <1>11, <2>2 DEF IsMaxOf
  <1> QED BY <1>12, <1>16, <1>17

-----------------------------------------------------------------------------
(* the first fetch is below every other event, and the last commit above *)
LEMMA LinkLeadsUp ==
  ASSUME NEW w, IsInOrder(w), Len(w) \in DOMAIN w
  PROVE  /\ \A x \in Events(w) : ~Lower(x, source_node) /\ ~Lower(sink_node(w), x)
         /\ \A p \in MayLink(w) : p[1] # p[2] => Lower(p[1], p[2])
PROOF
  <1>1. Len(w) \in Nat \ {0} /\ DOMAIN w = 1 .. Len(w)
    BY DEF IsInOrder, IsTrace
  <1>2. ASSUME NEW x \in Events(w)
        PROVE  /\ x = <<x[1], x[2]>> /\ x[1] \in 1 .. Len(w) /\ x[2] \in Stages
               /\ Rank[x[2]] \in 0 .. 12
               /\ Rank[x[2]] = 0 => x[2] = "F1"
               /\ Rank[x[2]] = 12 => x[2] = "C"
    <2>1. x = <<x[1], x[2]>> /\ x[1] \in 1 .. Len(w) /\ x[2] \in Stages
      BY <1>1 DEF Events, Vertex
    <2>2. /\ Rank[x[2]] \in 0 .. 12
          /\ Rank[x[2]] = 0 => x[2] = "F1"
          /\ Rank[x[2]] = 12 => x[2] = "C"
      BY <2>1 DEF Rank, Stages
    <2> QED BY <2>1, <2>2
  <1>3. Rank["F1"] = 0 /\ Rank["C"] = 12
    BY DEF Rank
  <1>4. /\ source_node[1] = 1 /\ source_node[2] = "F1" /\ source_node = <<1, "F1">>
        /\ sink_node(w)[1] = Len(w) /\ sink_node(w)[2] = "C" /\ sink_node(w) = <<Len(w), "C">>
    BY DEF source_node, sink_node
  <1>5. ASSUME NEW x \in Events(w)
        PROVE  /\ ~Lower(x, source_node) /\ ~Lower(sink_node(w), x)
               /\ x # source_node => Lower(source_node, x)
               /\ x # sink_node(w) => Lower(x, sink_node(w))
    <2>1. ~Lower(x, source_node)
      BY <1>1, <1>2, <1>3, <1>4 DEF Lower
    <2>2. ~Lower(sink_node(w), x)
      BY <1>1, <1>2, <1>3, <1>4 DEF Lower
    <2>3. x # source_node => Lower(source_node, x)
      BY <1>1, <1>2, <1>3, <1>4 DEF Lower
    <2>4. x # sink_node(w) => Lower(x, sink_node(w))
      BY <1>1, <1>2, <1>3, <1>4 DEF Lower
    <2> QED BY <2>1, <2>2, <2>3, <2>4
  <1>6. ASSUME NEW p \in MayLink(w), p[1] # p[2] PROVE Lower(p[1], p[2])
    <2>1. /\ p[1] \in Events(w) /\ p[2] \in Events(w)
          /\ p[1][1] < p[2][1] \/ p[1] = source_node \/ p[2] = sink_node(w)
      BY DEF MayLink
    <2>2. CASE p[1][1] < p[2][1]
      BY <2>2 DEF Lower
    <2>3. CASE p[1] = source_node \/ p[2] = sink_node(w)
      BY <1>5, <1>6, <2>1, <2>3
    <2> QED BY <2>1, <2>2, <2>3
  <1> QED BY <1>5, <1>6

(* every event is a vertex of a sound graph *)
LEMMA NodesAreAll ==
  ASSUME NEW g, NEW w, IsTrace(w), IsSound(g, w)
  PROVE  Nodes(g) = Events(w)
PROOF
  <1>1. Nodes(g) \subseteq Events(w)
    BY NeighboursAre DEF IsSound
  <1>2. \A x \in Events(w) : x \in Nodes(g)
    BY PipelineLeads
  <1> QED BY <1>1, <1>2

(* h is g with the edges P, which cost nothing, and sound *)
IsGrown(h, g, w, P) ==
  /\ IsSound(h, w) /\ DOMAIN h = DOMAIN g \cup P
  /\ \A q \in DOMAIN g : h[q].cost = g[q].cost
  /\ \A q \in P : h[q].cost = 0

(* add_virtual_edge keeps the graph sound and adds no cost *)
LEMMA VirtualIsSound ==
  ASSUME NEW w, NEW g, NEW p, MayAdd(g, w, p), IsSound(g, w)
  PROVE  IsGrown(WithVirtual(g, w, p), g, w, {p})
PROOF
  <1> DEFINE l == VirtualLabel(w, p[1], p[2])
             h == WithVirtual(g, w, p)
  <1>1. /\ IsInOrder(w) /\ Len(w) \in DOMAIN w /\ p \in MayLink(w) /\ p = <<p[1], p[2]>>
        /\ p \notin DependencesOf(g) /\ p[1] # p[2]
    BY DEF MayAdd, MayLink, SameNode
  <1>2. l.cost = 0 /\ l.delay = timing(w, p[2]) - timing(w, p[1])
    BY DEF VirtualLabel
  <1>3. h = [q \in DOMAIN g \cup {p} |-> IF q = p THEN l ELSE g[q]]
    <2> HIDE DEF l
    <2> QED BY <1>1 DEF add_edge, WithVirtual, l
  <1>4. IsGraph(h, w)
    BY AddVirtualEdge DEF IsAdded
  <1> HIDE DEF l, h
  <1>5. DOMAIN h = DOMAIN g \cup {p} /\ h[p] = l /\ \A q \in DOMAIN g : q # p => h[q] = g[q]
    BY <1>3
  <1>6. IsTimed(h, w, p)
    <2>1. Lower(p[1], p[2])
      BY <1>1, LinkLeadsUp
    <2> QED BY <1>2, <1>5, <2>1 DEF IsTimed
  <1>7. \A q \in DOMAIN h : IsTimed(h, w, q)
    <2>1. ASSUME NEW q \in DOMAIN g, q # p PROVE IsTimed(h, w, q)
      BY <1>5, <2>1 DEF IsSound, IsTimed
    <2> QED BY <1>5, <1>6, <2>1
  <1>8. \A n \in DOMAIN w : HasPipeline(h, w[n], n)
    BY <1>5 DEF IsSound, HasPipeline
  <1>9. ASSUME NEW q \in DOMAIN g PROVE h[q].cost = g[q].cost
    <2>1. CASE q = p
      <3>1. g[p].virtual
        BY <1>1, <2>1 DEF DependencesOf, VirtualOf
      <3>2. g[p].cost = 0
        BY <2>1, <3>1 DEF IsSound, IsTimed
      <3> QED BY <1>2, <1>5, <2>1, <3>2
    <2>2. CASE q # p
      BY <1>5, <2>2
    <2> QED BY <2>1, <2>2
  <1>10. IsSound(h, w)
    BY <1>4, <1>7, <1>8 DEF IsSound
  <1> QED BY <1>2, <1>5, <1>9, <1>10 DEF IsGrown, h

(* the bridge is an edge, unless it was not needed *)
IsBridged(h, g, w, paths, x, y) ==
  /\ LeadForward(h, w) /\ \E P \in SUBSET {<<x, y>>} : IsGrown(h, g, w, P)
  /\ paths = {} /\ x[1] # y[1] => <<x, y>> \in DOMAIN h

(* so does the bridge, which is an edge unless it was not needed *)
LEMMA BridgeIsSound ==
  ASSUME TracePart, pc # "read", NEW g, IsSound(g, insts), LeadForward(g, insts), NEW paths,
         NEW x \in Events(insts), NEW y \in Events(insts),
         x = source_node \/ y = sink_node(insts)
  PROVE  IsBridged(Bridge(g, paths, x, y), g, insts, paths, x, y)
PROOF
  <1> DEFINE h == Bridge(g, paths, x, y)
             p == <<x, y>>
  <1>1. IsInOrder(insts) /\ Len(insts) \in DOMAIN insts /\ IsGraph(g, insts)
    BY InstsInOrder DEF IsSound
  <1>2. CASE paths # {} \/ SameNode(insts, x, y) \/ <<x, y>> \in DOMAIN g
    <2>1. h = g
      BY <1>2 DEF Bridge
    <2>2. IsGrown(g, g, insts, {})
      BY DEF IsGrown
    <2>3. paths = {} /\ x[1] # y[1] => p \in DOMAIN g
      BY <1>2 DEF SameNode
    <2>4. {} \in SUBSET {<<x, y>>}
      OBVIOUS
    <2>5. \E P \in SUBSET {<<x, y>>} : IsGrown(g, g, insts, P)
      BY <2>2, <2>4
    <2> HIDE DEF h
    <2> QED BY <2>1, <2>3, <2>5 DEF h, IsBridged
  <1>3. CASE ~(paths # {} \/ SameNode(insts, x, y) \/ <<x, y>> \in DOMAIN g)
    <2>1. h = WithVirtual(g, insts, p)
      BY <1>3 DEF Bridge, WithVirtual
    <2>2. p \in MayLink(insts)
      BY <1>1, EventTime DEF MayLink
    <2>3. p \notin DependencesOf(g) /\ ~SameNode(insts, p[1], p[2])
      BY <1>3 DEF DependencesOf
    <2> HIDE DEF h
    <2> DEFINE a == WithVirtual(g, insts, p)
    <2>4. LeadForward(a, insts) /\ IsGrown(a, g, insts, {p})
      <3> HIDE DEF p
      <3>1. MayAdd(g, insts, p)
        BY <1>1, <2>2, <2>3 DEF MayAdd
      <3>2. IsAdded(a, g, insts, p)
        BY <3>1, AddVirtualEdge
      <3>3. IsGrown(a, g, insts, {p})
        BY <3>1, VirtualIsSound
      <3> QED BY <3>2, <3>3 DEF IsAdded
    <2> HIDE DEF a
    <2>5. \E P \in SUBSET {p} : IsGrown(a, g, insts, P)
      BY <2>4
    <2>6. p \in DOMAIN a
      BY <2>4 DEF IsGrown
    <2> QED BY <2>1, <2>4, <2>5, <2>6 DEF h, a, IsBridged
  <1> QED BY <1>2, <1>3

-----------------------------------------------------------------------------
(***************************************************************************)
(* The first instruction's events can be reached from the source, and the  *)
(* last instruction's lead to the sink: a bridge joins two instructions.   *)
(***************************************************************************)
LEMMA ConnectionIs ==
  ASSUME NEW g, NEW w, IsInOrder(w), Len(w) \in DOMAIN w, IsSound(g, w),
         NEW x \in Events(w), NEW y \in Events(w), x = source_node \/ y = sink_node(w)
  PROVE  LET paths == ShortestPaths(g, x, y)
         IN  /\ paths = {} => x[1] # y[1]
             /\ \A h, c : /\ c \in Connections(paths, x, y) /\ DOMAIN g \subseteq DOMAIN h
                          /\ paths = {} => <<x, y>> \in DOMAIN h
                          => IsPath(h, c, x, y)
PROOF
  <1> DEFINE paths == ShortestPaths(g, x, y)
  <1>1. IsTrace(w) /\ IsGraph(g, w) /\ x \in Vertex /\ y \in Vertex
    BY DEF IsInOrder, IsSound, Events
  <1>2. \A p \in paths : IsPath(g, p, x, y)
    BY <1>1, ShortestPathsAre
  <1>3. ASSUME x[1] = y[1] PROVE paths # {}
    <2>1. \E s : IsPath(g, s, x, y)
      <3>1. CASE x = source_node
        <4>1. <<y[1], "F1">> = x
          BY <1>3, <3>1 DEF source_node
        <4> QED BY <1>1, <4>1, PipelineLeads
      <3>2. CASE y = sink_node(w)
        <4>1. <<x[1], "C">> = y
          BY <1>3, <3>2 DEF sink_node
        <4> QED BY <1>1, <4>1, PipelineLeads
      <3> QED BY <3>1, <3>2
    <2>2. PICK s : IsPath(g, s, x, y)
      BY <2>1
    <2>3. x \in Nodes(g)
      BY <1>1, NodesAreAll
    <2>4. Len(s) <= Cardinality(Nodes(g))
      BY <1>1, <2>2, <2>3, PathIsShort
    <2> QED BY <1>1, <2>2, <2>4, ShortestPathsAre
  <1> HIDE DEF paths
  <1>4. ASSUME NEW h, NEW c, c \in Connections(paths, x, y), DOMAIN g \subseteq DOMAIN h,
               paths = {} => <<x, y>> \in DOMAIN h
        PROVE  IsPath(h, c, x, y)
    <2>1. CASE paths # {}
      <3>1. IsPath(g, c, x, y)
        BY <1>2, <1>4, <2>1 DEF Connections
      <3> QED BY <1>4, <3>1 DEF IsPath, IsWalk
    <2>2. CASE paths = {}
      <3>1. c = <<x, y>> /\ <<x, y>> \in DOMAIN h
        BY <1>4, <2>2 DEF Connections
      <3>2. c \in Seq(Vertex) /\ Len(c) = 2 /\ DOMAIN c = 1 .. 2 /\ c[1] = x /\ c[2] = y
        BY <1>1, <3>1
      <3>3. IsWalk(h, c)
        <4>1. \A k \in 1 .. Len(c) - 1 : k = 1
          BY <3>2
        <4> QED BY <3>1, <3>2, <4>1 DEF IsWalk
      <3> QED BY <3>2, <3>3 DEF IsPath
    <2> QED BY <2>1, <2>2
  <1> QED BY <1>3, <1>4 DEF paths

(* no distance is longer than that of a vertex max(dist.items()) may return *)
LEMMA EndsAre ==
  ASSUME NEW g, NEW d, Settled(g, d), NEW e \in Ends(d)
  PROVE  e \in DOMAIN d /\ d[e][1] \in Nat /\ \A x \in DOMAIN d : d[x][1] <= d[e][1]
PROOF
  <1>1. e \in DOMAIN d /\ \A x \in DOMAIN d : ~Less(d[e], d[x])
    BY DEF Ends, Greatest
  <1>2. \A x \in DOMAIN d : d[x][1] \in Nat
    BY DEF Settled
  <1>3. \A x \in DOMAIN d : ~(d[e][1] < d[x][1])
    BY <1>1 DEF Less
  <1> QED BY <1>1, <1>2, <1>3

(* without a distance, nothing costs anything *)
LEMMA NothingCosts ==
  ASSUME NEW g, NEW w, IsSound(g, w), NEW d, Settled(g, d), DOMAIN d = Nodes(g),
         \A x \in DOMAIN d : d[x][1] <= 0
  PROVE  \A p \in DOMAIN g : g[p].cost = 0
PROOF
  <1> SUFFICES ASSUME NEW p \in DOMAIN g PROVE g[p].cost = 0
    OBVIOUS
  <1>1. p = <<p[1], p[2]>> /\ g[p].cost \in Int /\ g[p].cost >= 0
    BY NeighboursAre DEF IsSound, IsTimed, Label
  <1>2. p[1] \in pred(g, p[2]) /\ p[1] \in DOMAIN d /\ p[2] \in DOMAIN d
    BY <1>1, NeighboursAre DEF IsSound
  <1>3. /\ d[p[1]][1] \in Nat /\ d[p[2]][1] \in Nat
        /\ d[p[1]][1] + g[<<p[1], p[2]>>].cost <= d[p[2]][1]
    BY <1>2 DEF Settled
  <1>4. d[p[1]][1] + g[p].cost <= d[p[2]][1]
    BY <1>1, <1>3
  <1>5. d[p[1]][1] = 0 /\ d[p[2]][1] = 0
    BY <1>2, <1>3
  <1> QED BY <1>1, <1>4, <1>5

-----------------------------------------------------------------------------
(* what the longest path algorithm leaves: the distances d, of which none  *)
(* is longer than that of e, and the trail s to e, in h joined to both ends *)
IsFound(h, g, w, d, e, s) ==
  /\ IsInOrder(w) /\ Len(w) \in DOMAIN w /\ IsSound(g, w)
  /\ Settled(g, d) /\ DOMAIN d = Nodes(g)
  /\ e \in DOMAIN d /\ \A x \in DOMAIN d : d[x][1] <= d[e][1]
  /\ IsTrail(g, d, s, e)
  /\ \E P \in SUBSET {<<source_node, s[1]>>, <<e, sink_node(w)>>} : IsGrown(h, g, w, P)

(* the costs of h are not negative, and those of g are the same *)
LEMMA GrownCosts ==
  ASSUME NEW h, NEW g, NEW w, NEW d, NEW e, NEW s, IsFound(h, g, w, d, e, s)
  PROVE  /\ IsTrace(w) /\ IsSound(h, w) /\ Nodes(h) = Nodes(g) /\ Nodes(g) = Events(w)
         /\ source_node \in Events(w) /\ sink_node(w) \in Events(w)
         /\ \A p \in DOMAIN h : h[p].cost \in Nat
         /\ \A p \in DOMAIN g : p \in DOMAIN h /\ h[p].cost = g[p].cost
         /\ \A p \in DOMAIN h : \/ p \in DOMAIN g
                                \/ /\ p = <<source_node, s[1]>> \/ p = <<e, sink_node(w)>>
                                   /\ h[p].cost = 0
PROOF
  <1>1. PICK P \in SUBSET {<<source_node, s[1]>>, <<e, sink_node(w)>>} : IsGrown(h, g, w, P)
    BY DEF IsFound
  <1>2. IsTrace(w) /\ IsSound(h, w) /\ IsSound(g, w)
    BY <1>1 DEF IsFound, IsGrown, IsInOrder
  <1>3. Nodes(h) = Events(w) /\ Nodes(g) = Events(w)
    BY <1>2, NodesAreAll
  <1>4. source_node \in Events(w) /\ sink_node(w) \in Events(w)
    BY EventTime DEF IsFound
  <1>5. ASSUME NEW p \in DOMAIN h PROVE h[p].cost \in Nat
    BY <1>2 DEF IsSound, IsTimed, IsGraph, Label
  <1>6. \A p \in DOMAIN g : p \in DOMAIN h /\ h[p].cost = g[p].cost
    BY <1>1 DEF IsGrown
  <1>7. ASSUME NEW p \in DOMAIN h, p \notin DOMAIN g
        PROVE  (p = <<source_node, s[1]>> \/ p = <<e, sink_node(w)>>) /\ h[p].cost = 0
    <2>1. p \in P
      BY <1>1, <1>7 DEF IsGrown
    <2> QED BY <1>1, <2>1 DEF IsGrown
  <1> QED BY <1>2, <1>3, <1>4, <1>5, <1>6, <1>7

(* the joined path costs as much as the trail, at least *)
LEMMA TrailCosts ==
  ASSUME NEW h, NEW g, NEW w, NEW d, NEW e, NEW s, IsFound(h, g, w, d, e, s),
         NEW a, NEW b, NEW c, IsPath(h, a, source_node, s[1]), IsPath(h, b, e, sink_node(w)),
         IsJoined(a, s, b, c)
  PROVE  CostOf(h, c) \in Int /\ d[e][1] <= CostOf(h, c)
PROOF
  <1> DEFINE A == Len(a)
             N == Len(s)
             B == Len(b)
             m == d[e][1]
             q == [k \in 1 .. Len(c) |-> IF k < A THEN 0
                                         ELSE IF k < A + N - 1 THEN d[s[k - A + 1]][1] ELSE m]
  <1>1. A \in Nat \ {0} /\ N \in Nat \ {0} /\ B \in Nat \ {0} /\ Len(c) = A + N + B - 2
    BY DEF IsFound, IsTrail, IsPath, IsJoined
  <1>2. /\ s[N] = e /\ d[s[1]][1] = 0 /\ m \in Nat
        /\ \A j \in 1 .. N : d[s[j]][1] \in Nat
        /\ \A j \in 1 .. N - 1 : /\ d[s[j + 1]][1] = d[s[j]][1] + g[<<s[j], s[j + 1]>>].cost
                                 /\ <<s[j], s[j + 1]>> \in DOMAIN g
    <2>1. IsTrail(g, d, s, e) /\ IsPath(g, s, s[1], e) /\ Settled(g, d) /\ e \in DOMAIN d
      BY DEF IsFound, IsTrail
    <2>2. \A x \in DOMAIN d : d[x][1] \in Nat
      BY <2>1 DEF Settled
    <2>3. \A j \in 1 .. N : s[j] \in DOMAIN d
      BY <2>1 DEF IsTrail
    <2>4. \A j \in 1 .. N - 1 : <<s[j], s[j + 1]>> \in DOMAIN g
      BY <2>1 DEF IsPath, IsWalk
    <2>5. \A j \in 1 .. N - 1 : d[s[j + 1]][1] = d[s[j]][1] + g[<<s[j], s[j + 1]>>].cost
      BY <2>1 DEF IsTrail
    <2> QED BY <2>1, <2>2, <2>3, <2>4, <2>5 DEF IsTrail, IsPath
  <1>3. /\ \A p \in DOMAIN h : h[p].cost \in Nat
        /\ \A p \in DOMAIN g : p \in DOMAIN h /\ h[p].cost = g[p].cost
    BY GrownCosts
  <1>4. /\ \A k \in 1 .. A - 1 : <<a[k], a[k + 1]>> \in DOMAIN h
        /\ \A k \in 1 .. B - 1 : <<b[k], b[k + 1]>> \in DOMAIN h
    BY DEF IsPath, IsWalk
  <1>5. ASSUME NEW k \in 1 .. Len(c) - 1
        PROVE  \/ k \in 1 .. A - 1 /\ c[k] = a[k] /\ c[k + 1] = a[k + 1]
               \/ LET j == k - A + 1
                  IN  j \in 1 .. N - 1 /\ c[k] = s[j] /\ c[k + 1] = s[j + 1]
               \/ LET j == k - A - N + 2
                  IN  j \in 1 .. B - 1 /\ c[k] = b[j] /\ c[k + 1] = b[j + 1]
    BY <1>1, JoinedSteps
  <1> HIDE DEF A, N, B, m
  <1>6. ASSUME NEW k \in 1 .. A PROVE q[k] = 0
    <2>1. k \in 1 .. Len(c)
      BY <1>1
    <2>2. CASE k < A
      BY <2>1, <2>2
    <2>3. CASE k = A /\ N # 1
      <3>1. ~(k < A) /\ k < A + N - 1 /\ k - A + 1 = 1
        BY <1>1, <2>3
      <3> QED BY <1>2, <2>1, <3>1
    <2>4. CASE k = A /\ N = 1
      <3>1. ~(k < A) /\ ~(k < A + N - 1)
        BY <1>1, <2>4
      <3>2. m = 0
        BY <1>2, <2>4 DEF m
      <3> QED BY <2>1, <3>1, <3>2
    <2> QED BY <1>1, <2>2, <2>3, <2>4
  <1>7. ASSUME NEW j \in 1 .. N PROVE q[A - 1 + j] = d[s[j]][1]
    <2>1. A - 1 + j \in 1 .. Len(c) /\ ~(A - 1 + j < A)
      BY <1>1
    <2>2. CASE j = N
      <3>1. ~(A - 1 + j < A + N - 1)
        BY <1>1, <2>2
      <3>2. q[A - 1 + j] = m
        BY <2>1, <3>1
      <3> QED BY <1>2, <2>2, <3>2 DEF m
    <2>3. CASE j # N
      <3>1. A - 1 + j < A + N - 1 /\ (A - 1 + j) - A + 1 = j
        BY <1>1, <2>3
      <3> QED BY <2>1, <3>1
    <2> QED BY <2>2, <2>3
  <1>8. ASSUME NEW j \in 1 .. B PROVE q[A + N - 2 + j] = m
    <2>1. /\ A + N - 2 + j \in 1 .. Len(c) /\ ~(A + N - 2 + j < A + N - 1)
          /\ ~(A + N - 2 + j < A)
      BY <1>1
    <2> QED BY <2>1
  <1>9. q \in [1 .. Len(c) -> Int]
    <2>1. ASSUME NEW k \in 1 .. Len(c) PROVE q[k] \in Int
      <3>1. CASE k < A
        BY <3>1
      <3>2. CASE ~(k < A) /\ k < A + N - 1
        <4>1. k - A + 1 \in 1 .. N
          BY <1>1, <3>2
        <4>2. q[k] = d[s[k - A + 1]][1]
          BY <3>2
        <4>3. d[s[k - A + 1]][1] \in Nat
          BY <1>2, <4>1
        <4> QED BY <4>2, <4>3
      <3>3. CASE ~(k < A) /\ ~(k < A + N - 1)
        BY <1>2, <3>3
      <3> QED BY <3>1, <3>2, <3>3
    <2> QED BY <2>1
  <1> HIDE DEF q
  <1>10. ASSUME NEW k \in 1 .. Len(c) - 1
         PROVE  /\ h[<<c[k], c[k + 1]>>].cost \in Int
                /\ q[k + 1] - q[k] <= h[<<c[k], c[k + 1]>>].cost
    <2> DEFINE i == k - A + 1
               j == k - A - N + 2
    <2>1. CASE k \in 1 .. A - 1 /\ c[k] = a[k] /\ c[k + 1] = a[k + 1]
      <3>1. k \in 1 .. A /\ k + 1 \in 1 .. A
        BY <1>1, <2>1
      <3>2. q[k] = 0 /\ q[k + 1] = 0
        BY <1>6, <3>1
      <3>3. h[<<c[k], c[k + 1]>>].cost \in Nat
        BY <1>3, <1>4, <2>1
      <3> QED BY <3>2, <3>3
    <2>2. CASE i \in 1 .. N - 1 /\ c[k] = s[i] /\ c[k + 1] = s[i + 1]
      <3>1. i \in 1 .. N /\ i + 1 \in 1 .. N /\ A - 1 + i = k /\ A - 1 + (i + 1) = k + 1
        BY <1>1, <2>2
      <3> HIDE DEF i
      <3>2. q[k] = d[s[i]][1] /\ q[k + 1] = d[s[i + 1]][1]
        <4>1. q[A - 1 + i] = d[s[i]][1] /\ q[A - 1 + (i + 1)] = d[s[i + 1]][1]
          BY <1>7, <3>1
        <4> QED BY <3>1, <4>1
      <3>3. /\ <<s[i], s[i + 1]>> \in DOMAIN g
            /\ d[s[i + 1]][1] = d[s[i]][1] + g[<<s[i], s[i + 1]>>].cost
        BY <1>2, <2>2
      <3>4. /\ h[<<s[i], s[i + 1]>>].cost \in Nat
            /\ h[<<s[i], s[i + 1]>>].cost = g[<<s[i], s[i + 1]>>].cost
        BY <1>3, <3>3
      <3>5. d[s[i]][1] \in Nat
        BY <1>2, <3>1
      <3>6. q[k + 1] = q[k] + h[<<c[k], c[k + 1]>>].cost /\ h[<<c[k], c[k + 1]>>].cost \in Nat
            /\ q[k] \in Nat
        BY <2>2, <3>2, <3>3, <3>4, <3>5
      <3> QED BY <3>6
    <2>3. CASE j \in 1 .. B - 1 /\ c[k] = b[j] /\ c[k + 1] = b[j + 1]
      <3>1. j \in 1 .. B /\ j + 1 \in 1 .. B /\ A + N - 2 + j = k /\ A + N - 2 + (j + 1) = k + 1
        BY <1>1, <2>3
      <3> HIDE DEF j
      <3>2. q[k] = m /\ q[k + 1] = m
        <4>1. q[A + N - 2 + j] = m /\ q[A + N - 2 + (j + 1)] = m
          BY <1>8, <3>1
        <4> QED BY <3>1, <4>1
      <3>3. h[<<c[k], c[k + 1]>>].cost \in Nat
        BY <1>3, <1>4, <2>3
      <3>4. m \in Nat
        BY <1>2 DEF m
      <3> QED BY <3>2, <3>3, <3>4
    <2> QED BY <1>5, <2>1, <2>2, <2>3
  <1>11. q[1] = 0 /\ q[Len(c)] = m
    <2>1. 1 \in 1 .. A /\ B \in 1 .. B /\ A + N - 2 + B = Len(c)
      BY <1>1
    <2>2. q[A + N - 2 + B] = m
      BY <1>8, <2>1
    <2> QED BY <1>6, <2>1, <2>2
  <1>12. Len(c) \in Nat \ {0}
    BY <1>1
  <1>13. CostOf(h, c) \in Int /\ q[Len(c)] <= CostOf(h, c)
    BY <1>9, <1>10, <1>11, <1>12, CostIsAbove
  <1> QED BY <1>11, <1>13 DEF m

(***************************************************************************)
(* No path costs more than the distance of e: the distances, with that of  *)
(* e at the sink, grow as fast as the costs along every edge.              *)
(***************************************************************************)
LEMMA NothingCostsMore ==
  ASSUME NEW h, NEW g, NEW w, NEW d, NEW e, NEW s, IsFound(h, g, w, d, e, s),
         NEW c, IsPath(h, c, source_node, sink_node(w))
  PROVE  /\ LongestCost(h) \in Nat /\ LongestCost(h) <= d[e][1]
         /\ CostOf(h, c) \in Int /\ CostOf(h, c) <= LongestCost(h)
PROOF
  <1> DEFINE m == d[e][1]
             sink == sink_node(w)
             F == [x \in Nodes(h) |-> IF x = sink THEN m ELSE d[x][1]]
  <1>1. /\ IsTrace(w) /\ IsSound(h, w) /\ Nodes(h) = Nodes(g) /\ Nodes(g) = Events(w)
        /\ source_node \in Events(w) /\ sink \in Events(w)
    BY GrownCosts
  <1>2. ASSUME NEW x \in Nodes(h) PROVE d[x][1] \in Nat /\ d[x][1] <= m /\ m \in Nat
    BY <1>1 DEF IsFound, Settled
  <1>3. F \in [Nodes(h) -> Nat] /\ \A x \in Nodes(h) : F[x] <= m /\ F[x] \in Nat
    BY <1>2
  <1>4. \A x \in Nodes(h) : F[x] = IF x = sink THEN m ELSE d[x][1]
    OBVIOUS
  <1> HIDE DEF F, m
  <1>5. d[source_node][1] = 0
    <2>1. ASSUME NEW z \in pred(g, source_node) PROVE FALSE
      <3>1. <<z, source_node>> \in DOMAIN g /\ z \in Events(w)
        BY <1>1, NeighboursAre DEF IsFound, IsSound
      <3>2. Lower(z, source_node)
        BY <3>1 DEF IsFound, IsSound, IsTimed
      <3> QED BY <3>1, <3>2, LinkLeadsUp DEF IsFound
    <2>2. source_node \in DOMAIN d
      BY <1>1 DEF IsFound
    <2> QED BY <2>1, <2>2 DEF IsFound, Settled
  <1>6. ASSUME NEW x \in Nodes(h), NEW z \in pred(h, x)
        PROVE  F[z] + h[<<z, x>>].cost <= F[x]
    <2>1. <<z, x>> \in DOMAIN h /\ z \in Nodes(h)
      BY <1>1, NeighboursAre DEF IsSound
    <2>2. z # sink
      <3>1. Lower(z, x)
        BY <1>1, <2>1 DEF IsSound, IsTimed
      <3> QED BY <1>1, <3>1, LinkLeadsUp DEF IsFound
    <2>3. F[z] = d[z][1] /\ F[z] \in Nat /\ F[x] \in Nat /\ d[x][1] \in Nat /\ d[x][1] <= F[x]
      BY <1>2, <1>3, <1>4, <2>1, <2>2
    <2>4. CASE <<z, x>> \in DOMAIN g
      <3>1. h[<<z, x>>].cost = g[<<z, x>>].cost /\ h[<<z, x>>].cost \in Nat
        BY <2>1, <2>4, GrownCosts
      <3>2. z \in pred(g, x) /\ x \in DOMAIN d
        BY <1>1, <2>4, NeighboursAre DEF IsFound, IsSound
      <3>3. d[z][1] + g[<<z, x>>].cost <= d[x][1]
        BY <3>2 DEF IsFound, Settled
      <3> QED BY <2>3, <3>1, <3>3
    <2>5. CASE <<z, x>> \notin DOMAIN g
      <3>1. /\ <<z, x>> = <<source_node, s[1]>> \/ <<z, x>> = <<e, sink>>
            /\ h[<<z, x>>].cost = 0
        BY <2>1, <2>5, GrownCosts
      <3>2. CASE z = source_node
        BY <1>5, <2>3, <3>1, <3>2
      <3>3. CASE z = e /\ x = sink
        <4>1. F[x] = m /\ F[z] = m
          BY <1>4, <2>3, <3>3 DEF m
        <4> QED BY <2>3, <3>1, <4>1
      <3> QED BY <3>1, <3>2, <3>3
    <2> QED BY <2>4, <2>5
  <1>7. m \in Nat /\ source_node \in Nodes(h)
    BY <1>1, <1>2
  <1> QED BY <1>1, <1>3, <1>6, <1>7, LongestIs DEF m

-----------------------------------------------------------------------------
(* longest_path_impl found nothing, or the report is that of a longest path *)
Reported ==
  \/ pc' = "failed" /\ graph' = graph /\ \A p \in DOMAIN graph : graph[p].cost = 0
  \/ pc' = "done" /\ CostOf(graph', critical') = LongestCost(graph')

(***************************************************************************)
(* Report on the distances of the graph: the path is extended to both ends *)
(* of the trace, so that its delays add up, and the bridges cost nothing.  *)
(***************************************************************************)
LEMMA ReportStill ==
  ASSUME IInv, IsSound(graph, insts), Report
  PROVE  /\ \E P : IsGrown(graph', graph, insts, P)
         /\ Settled(graph, dist) /\ DOMAIN dist = Nodes(graph) => Reported
PROOF
  <1>1. pc = "path" /\ pc # "read" /\ TracePart /\ LeadForward(graph, insts)
    BY DEF Report, IInv, GraphPart
  <1>2. /\ IsInOrder(insts) /\ Len(insts) \in DOMAIN insts /\ IsTrace(insts)
        /\ source_node \in Events(insts) /\ sink_node(insts) \in Events(insts)
    BY <1>1, InstsInOrder, EventTime DEF IsInOrder
  <1>3. PICK end \in Ends(dist) :
          LET path == IF dist[end][1] = 0 THEN <<>> ELSE PathTo(dist, end)
              first == path[1]
              sink == sink_node(insts)
              heads == ShortestPaths(graph, source_node, first)
              tails == ShortestPaths(graph, end, sink)
          IN  IF path = <<>> \/ first \notin Nodes(graph) THEN Fail
              ELSE \E head \in Connections(heads, source_node, first),
                      tail \in Connections(tails, end, sink) :
                     /\ graph' = Bridge(Bridge(graph, heads, source_node, first), tails,
                                        end, sink)
                     /\ critical' = Front(head) \o path \o Tail(tail)
                     /\ pc' = IF /\ IsWalk(graph', critical')
                                 /\ Length(graph', critical')
                                      = timing(insts, sink) - timing(insts, source_node)
                              THEN "done" ELSE "failed"
                     /\ UNCHANGED <<trace, insts, threads, sort, dist, changed>>
    BY Zenon DEF Report
  <1> DEFINE path == IF dist[end][1] = 0 THEN <<>> ELSE PathTo(dist, end)
             first == path[1]
             sink == sink_node(insts)
             heads == ShortestPaths(graph, source_node, first)
             tails == ShortestPaths(graph, end, sink)
             g == Bridge(graph, heads, source_node, first)
  <1>4. end \in DOMAIN dist /\ DOMAIN dist \subseteq Events(insts) /\ DOMAIN dist \subseteq Vertex
    BY DEF Ends, IInv, SearchPart, Events
  <1>5. ASSUME Settled(graph, dist), dist[end][1] # 0
        PROVE  /\ IsTrail(graph, dist, path, end) /\ path # <<>>
               /\ first \in DOMAIN dist
    <2>1. path = PathTo(dist, end)
      BY <1>5
    <2> HIDE DEF path
    <2>2. IsTrail(graph, dist, path, end)
      BY <1>4, <1>5, <2>1, PathToIsTrail
    <2>3. Len(path) \in Nat \ {0} /\ \A k \in 1 .. Len(path) : path[k] \in DOMAIN dist
      BY <2>2 DEF IsTrail, IsPath
    <2>4. 1 \in 1 .. Len(path) /\ path # <<>>
      BY <2>3
    <2> QED BY <2>2, <2>3, <2>4
  <1>6. CASE path = <<>> \/ first \notin Nodes(graph)
    <2>1. pc' = "failed" /\ graph' = graph
      BY <1>3, <1>6 DEF Fail
    <2>2. IsGrown(graph, graph, insts, {})
      BY DEF IsGrown
    <2>3. ASSUME Settled(graph, dist), DOMAIN dist = Nodes(graph) PROVE Reported
      <3>1. dist[end][1] = 0
        BY <1>5, <1>6, <2>3
      <3>2. \A x \in DOMAIN dist : dist[x][1] <= 0
        BY <2>3, <3>1, EndsAre
      <3>3. \A p \in DOMAIN graph : graph[p].cost = 0
        BY <2>3, <3>2, NothingCosts
      <3> QED BY <2>1, <3>3 DEF Reported
    <2> QED BY <2>1, <2>2, <2>3
  <1>7. CASE ~(path = <<>> \/ first \notin Nodes(graph))
    <2>1. PICK head \in Connections(heads, source_node, first),
               tail \in Connections(tails, end, sink) :
            /\ graph' = Bridge(g, tails, end, sink)
            /\ critical' = Front(head) \o path \o Tail(tail)
            /\ pc' = IF /\ IsWalk(graph', critical')
                        /\ Length(graph', critical')
                             = timing(insts, sink) - timing(insts, source_node)
                     THEN "done" ELSE "failed"
      BY <1>3, <1>7, Zenon
    <2>2. first \in Events(insts) /\ end \in Events(insts) /\ dist[end][1] # 0
      <3>1. first \in Nodes(graph) /\ path # <<>>
        BY <1>7
      <3>2. Nodes(graph) \subseteq Events(insts)
        BY NodesAreEvents DEF IInv
      <3> QED BY <1>4, <3>1, <3>2
    <2> HIDE DEF path, first
    <2>3. /\ heads = {} => source_node[1] # first[1]
          /\ \A h, c : /\ c \in Connections(heads, source_node, first)
                       /\ DOMAIN graph \subseteq DOMAIN h
                       /\ heads = {} => <<source_node, first>> \in DOMAIN h
                       => IsPath(h, c, source_node, first)
      BY <1>2, <2>2, ConnectionIs
    <2>4. /\ tails = {} => end[1] # sink[1]
          /\ \A h, c : /\ c \in Connections(tails, end, sink)
                       /\ DOMAIN graph \subseteq DOMAIN h
                       /\ tails = {} => <<end, sink>> \in DOMAIN h
                       => IsPath(h, c, end, sink)
      BY <1>2, <2>2, ConnectionIs
    <2> HIDE DEF heads, tails
    <2>5. IsBridged(g, graph, insts, heads, source_node, first)
      BY <1>1, <1>2, <2>2, BridgeIsSound
    <2> HIDE DEF g
    <2>6. LeadForward(g, insts) /\ IsSound(g, insts)
      BY <2>5 DEF IsBridged, IsGrown
    <2> DEFINE h == Bridge(g, tails, end, sink)
    <2>7. IsBridged(h, g, insts, tails, end, sink)
      BY <1>1, <1>2, <2>2, <2>6, BridgeIsSound
    <2>8. graph' = h
      BY <2>1
    <2> HIDE DEF h, sink
    <2>9. PICK P \in SUBSET {<<source_node, first>>} : IsGrown(g, graph, insts, P)
      BY <2>5 DEF IsBridged
    <2>10. PICK Q \in SUBSET {<<end, sink>>} : IsGrown(h, g, insts, Q)
      BY <2>7 DEF IsBridged
    <2>11. IsGrown(h, graph, insts, P \cup Q)
      <3>1. IsSound(h, insts) /\ DOMAIN h = DOMAIN graph \cup (P \cup Q)
        BY <2>9, <2>10 DEF IsGrown
      <3>2. \A q \in DOMAIN graph : h[q].cost = graph[q].cost
        BY <2>9, <2>10 DEF IsGrown
      <3>3. \A q \in P \cup Q : h[q].cost = 0
        BY <2>9, <2>10 DEF IsGrown
      <3> QED BY <3>1, <3>2, <3>3 DEF IsGrown
    <2>12. /\ DOMAIN graph \subseteq DOMAIN h
           /\ heads = {} => <<source_node, first>> \in DOMAIN h
           /\ tails = {} => <<end, sink>> \in DOMAIN h
      BY <2>3, <2>4, <2>5, <2>7, <2>9, <2>10 DEF IsBridged, IsGrown
    <2>13. IsPath(h, head, source_node, first) /\ IsPath(h, tail, end, sink)
      BY <2>1, <2>3, <2>4, <2>12
    <2>14. ASSUME Settled(graph, dist), DOMAIN dist = Nodes(graph) PROVE Reported
      <3> DEFINE c == Front(head) \o path \o Tail(tail)
      <3>1. IsTrail(graph, dist, path, end) /\ path[1] = first
        BY <1>5, <2>2, <2>14 DEF first
      <3>2. IsPath(h, path, first, end)
        BY <2>12, <3>1 DEF IsTrail, IsPath, IsWalk
      <3>3. c \in Seq(Vertex) /\ IsJoined(head, path, tail, c)
        BY <2>13, <3>2, PathsJoin
      <3>4. critical' = c
        BY <2>1
      <3> HIDE DEF c
      <3>5. IsPath(h, c, source_node, sink)
        BY <2>13, <3>2, <3>3, JoinedIsPath
      <3>6. IsWalk(h, c) /\ Length(h, c) = timing(insts, sink) - timing(insts, source_node)
        BY <1>2, <2>11, <3>5, LengthIsTime DEF IsPath, IsGrown
      <3>7. pc' = "done"
        BY <2>1, <2>8, <3>4, <3>6
      <3>8. IsFound(h, graph, insts, dist, end, path)
        <4>1. P \cup Q \in SUBSET {<<source_node, path[1]>>, <<end, sink>>}
          BY <3>1
        <4>2. \A x \in DOMAIN dist : dist[x][1] <= dist[end][1]
          BY <2>14, EndsAre
        <4> QED BY <1>2, <1>4, <2>11, <2>14, <3>1, <4>1, <4>2 DEF IsFound, sink
      <3>9. IsPath(h, head, source_node, path[1]) /\ IsPath(h, tail, end, sink_node(insts))
        BY <2>13, <3>1 DEF sink
      <3>10. CostOf(h, c) \in Int /\ dist[end][1] <= CostOf(h, c)
        BY <3>3, <3>8, <3>9, TrailCosts
      <3>11. /\ LongestCost(h) \in Nat /\ LongestCost(h) <= dist[end][1]
             /\ CostOf(h, c) <= LongestCost(h)
        BY <3>5, <3>8, NothingCostsMore DEF sink
      <3>12. dist[end][1] \in Nat
        BY <2>14, EndsAre
      <3>13. CostOf(h, c) = LongestCost(h)
        BY <3>10, <3>11, <3>12
      <3> QED BY <2>8, <3>4, <3>7, <3>13 DEF Reported
    <2> QED BY <2>8, <2>11, <2>14
  <1> QED BY <1>6, <1>7

-----------------------------------------------------------------------------
(***************************************************************************)
(* The second inductive invariant: the graph is sound at every moment, and *)
(* as long as nobody has changed it under the sort the sort and the        *)
(* distances are right for it.                                             *)
(***************************************************************************)
StillPart ==
  /\ IsSound(graph, insts)
  /\ pc \in {"read", "join"} => DOMAIN dist = {}
  /\ pc = "sort" /\ ~changed => IsSort(graph, sort, dist) /\ Settled(graph, dist)
  /\ pc = "path" /\ ~changed => Settled(graph, dist) /\ DOMAIN dist = Nodes(graph)
  /\ FailuresExplained

(* the invariant holds at the start *)
LEMMA InitStill ==
  Init => StillPart
PROOF
  <1> SUFFICES ASSUME Init PROVE StillPart
    OBVIOUS
  <1>1. pc = "read" /\ DOMAIN dist = {} /\ DOMAIN graph = {} /\ DOMAIN insts = {}
    BY DEF Init
  <1>2. IsSound(graph, insts)
    BY <1>1 DEF IsSound, IsGraph
  <1> QED BY <1>1, <1>2 DEF StillPart, FailuresExplained

(* a step that concerns neither the graph nor the search *)
LEMMA QuietStill ==
  ASSUME StillPart, UNCHANGED <<pc, insts, graph, sort, dist, changed>>
  PROVE  StillPart'
PROOF
  BY DEF StillPart, FailuresExplained

(* Read: the old edges keep their times *)
LEMMA ReadStill ==
  ASSUME IInv, StillPart, Read
  PROVE  StillPart'
PROOF
  <1>1. /\ IInv' /\ DOMAIN graph \subseteq DOMAIN graph'
        /\ \A p \in DOMAIN graph : graph'[p] = graph[p]
        /\ pc' = "read" /\ dist' = dist /\ Len(insts) \in Nat /\ DOMAIN insts = 1 .. Len(insts)
        /\ Len(insts') = Len(insts) + 1 /\ DOMAIN insts' = 1 .. Len(insts')
        /\ \A k \in DOMAIN insts : insts'[k] = insts[k]
        /\ \A p \in DOMAIN graph' : p \in DOMAIN graph \/ IsNew(graph', insts', p)
        /\ HasPipeline(graph', insts'[Len(insts')], Len(insts'))
    BY ReadKeeps
  <1>2. IsGraph(graph', insts')
    BY <1>1 DEF IInv, GraphPart
  <1>3. ASSUME NEW p \in DOMAIN graph PROVE IsTimed(graph', insts', p)
    <2>1. IsTimed(graph, insts, p) /\ p[1] \in Events(insts) /\ p[2] \in Events(insts)
      BY DEF StillPart, IsSound, IsGraph
    <2>2. timing(insts', p[1]) = timing(insts, p[1]) /\ timing(insts', p[2]) = timing(insts, p[2])
      BY <1>1, <2>1 DEF Events, timing
    <2> QED BY <1>1, <2>1, <2>2 DEF IsTimed
  <1>4. \A p \in DOMAIN graph' : IsTimed(graph', insts', p)
    BY <1>1, <1>3 DEF IsNew
  <1>5. ASSUME NEW n \in DOMAIN insts' PROVE HasPipeline(graph', insts'[n], n)
    <2>1. CASE n = Len(insts')
      BY <1>1, <2>1
    <2>2. CASE n # Len(insts')
      <3>1. n \in DOMAIN insts /\ insts'[n] = insts[n]
        BY <1>1, <2>2
      <3>2. HasPipeline(graph, insts[n], n)
        BY <3>1 DEF StillPart, IsSound
      <3> QED BY <1>1, <3>1, <3>2 DEF HasPipeline
    <2> QED BY <2>1, <2>2
  <1>6. IsSound(graph', insts')
    BY <1>2, <1>4, <1>5 DEF IsSound
  <1>7. DOMAIN dist' = {}
    BY <1>1 DEF StillPart, Read
  <1> QED BY <1>1, <1>6, <1>7 DEF StillPart, FailuresExplained

(* Construct leaves the graph alone *)
LEMMA ConstructStill ==
  ASSUME StillPart, Construct
  PROVE  StillPart'
PROOF
  <1>1. pc = "read" /\ pc' = "join" /\ UNCHANGED <<insts, graph, dist>>
    BY DEF Construct, search
  <1>2. DOMAIN dist = {}
    BY <1>1 DEF StillPart
  <1> QED BY <1>1, <1>2 DEF StillPart, FailuresExplained

(* Join starts the sort on the graph as it is *)
LEMMA JoinStill ==
  ASSUME IInv, StillPart, Join
  PROVE  StillPart'
PROOF
  <1>1. /\ pc = "join" /\ pc' = "sort" /\ sort' = FirstSort(graph)
        /\ UNCHANGED <<insts, graph, dist>>
    BY DEF Join, StartSort, FirstSort
  <1>2. DOMAIN dist = {} /\ IsSound(graph, insts) /\ IsGraph(graph, insts)
    BY <1>1 DEF StillPart, IsSound
  <1>3. IsTrace(insts)
    BY InstsInOrder DEF IInv, IsInOrder
  <1>4. IsSort(graph, FirstSort(graph), dist) /\ Settled(graph, dist)
    BY <1>2, <1>3, FirstSortIs
  <1> QED BY <1>1, <1>2, <1>4 DEF StillPart, FailuresExplained

(* an error is explained when the graph has been changed *)
LEMMA FailStill ==
  ASSUME StillPart, changed, Fail
  PROVE  StillPart'
PROOF
  <1>1. pc' = "failed" /\ UNCHANGED <<insts, graph, dist, changed>>
    BY DEF Fail, search
  <1> QED BY <1>1 DEF StillPart, FailuresExplained

(* topological_sort finds the graph changed only when it was *)
LEMMA ReleaseStill ==
  ASSUME IInv, StillPart, ReleaseGeneration
  PROVE  StillPart'
PROOF
  <1>1. pc = "sort" /\ sort.release # {}
    BY DEF ReleaseGeneration
  <1>2. IsTrace(insts) /\ IsSound(graph, insts) /\ IsGraph(graph, insts)
    BY InstsInOrder DEF IInv, IsInOrder, StillPart, IsSound
  <1> DEFINE d == [y \in DOMAIN sort.indegree \ FreedBy(graph, sort) |->
                     sort.indegree[y] - CountOf(graph, sort, y)]
  <1>3. IF /\ ReleasedBy(graph, sort) \subseteq DOMAIN sort.indegree
           /\ \A y \in ReleasedBy(graph, sort) : CountOf(graph, sort, y) <= sort.indegree[y]
        THEN /\ sort' = [sort EXCEPT !.indegree = d, !.release = {},
                                     !.ready = FreedBy(graph, sort)]
             /\ UNCHANGED <<trace, pc, insts, graph, threads, dist, critical, changed>>
        ELSE Fail
    BY DEF ReleaseGeneration, ReleasedBy, CountOf, FreedBy
  <1> HIDE DEF d
  <1>4. CASE changed
    <2>1. CASE Fail
      BY <1>4, <2>1, FailStill
    <2>2. CASE ~Fail
      <3>1. pc' = "sort" /\ UNCHANGED <<insts, graph, dist, changed>>
        BY <1>1, <1>3, <2>2
      <3> QED BY <1>4, <3>1 DEF StillPart, FailuresExplained
    <2> QED BY <2>1, <2>2
  <1>5. CASE ~changed
    <2>1. IsSort(graph, sort, dist) /\ Settled(graph, dist)
      BY <1>1, <1>5 DEF StillPart
    <2>2. /\ ReleasedBy(graph, sort) \subseteq DOMAIN sort.indegree
          /\ \A y \in ReleasedBy(graph, sort) : CountOf(graph, sort, y) <= sort.indegree[y]
          /\ \A t : IsReleased(graph, sort, t) => IsSort(graph, t, dist)
      BY <1>1, <1>2, <2>1, ReleaseSorts
    <2>3. /\ sort' = [sort EXCEPT !.indegree = d, !.release = {}, !.ready = FreedBy(graph, sort)]
          /\ pc' = "sort" /\ UNCHANGED <<insts, graph, dist, changed>>
      BY <1>1, <1>3, <2>2
    <2>4. sort' = [indegree |-> d, release |-> {}, relax |-> sort.relax,
                   ready |-> FreedBy(graph, sort)]
      BY <2>3 DEF IInv, SearchPart
    <2>5. IsReleased(graph, sort, sort')
      BY <2>4 DEF IsReleased, d
    <2>6. IsSort(graph, sort', dist)
      BY <2>2, <2>5
    <2> QED BY <1>2, <2>1, <2>3, <2>6 DEF StillPart, FailuresExplained
  <1> QED BY <1>4, <1>5

(* the vertices before x have their distances *)
LEMMA RelaxStill ==
  ASSUME IInv, StillPart, NEW x \in sort.relax, Relax(x)
  PROVE  StillPart'
PROOF
  <1>1. pc = "sort" /\ sort.release = {}
    BY DEF Relax
  <1>2. IsTrace(insts) /\ IsSound(graph, insts)
    BY InstsInOrder DEF IInv, IsInOrder, StillPart
  <1> DEFINE e == [y \in DOMAIN dist \cup {x} |->
                     IF y = x THEN Distance(graph, dist, x) ELSE dist[y]]
  <1>3. IF pred(graph, x) \subseteq DOMAIN dist
        THEN /\ dist' = e /\ sort' = [sort EXCEPT !.relax = sort.relax \ {x}]
             /\ UNCHANGED <<trace, pc, insts, graph, threads, critical, changed>>
        ELSE Fail
    BY DEF Relax
  <1> HIDE DEF e
  <1>4. CASE changed
    <2>1. CASE Fail
      BY <1>4, <2>1, FailStill
    <2>2. CASE ~Fail
      <3>1. pc' = "sort" /\ UNCHANGED <<insts, graph, changed>>
        BY <1>1, <1>3, <2>2
      <3> QED BY <1>4, <3>1 DEF StillPart, FailuresExplained
    <2> QED BY <2>1, <2>2
  <1>5. CASE ~changed
    <2>1. IsSort(graph, sort, dist) /\ Settled(graph, dist)
      BY <1>1, <1>5 DEF StillPart
    <2>2. pred(graph, x) \subseteq DOMAIN dist
      BY <1>1, <1>2, <2>1, RelaxSorts
    <2>3. /\ dist' = e /\ sort' = [sort EXCEPT !.relax = sort.relax \ {x}]
          /\ pc' = "sort" /\ UNCHANGED <<insts, graph, changed>>
      BY <1>1, <1>3, <2>2
    <2> DEFINE t == [indegree |-> sort.indegree, release |-> {}, relax |-> sort.relax \ {x},
                     ready |-> sort.ready]
    <2>4. sort' = t
      BY <1>1, <2>3 DEF IInv, SearchPart
    <2>5. /\ t.indegree = sort.indegree /\ t.release = {} /\ t.relax = sort.relax \ {x}
          /\ t.ready = sort.ready
      OBVIOUS
    <2> HIDE DEF t
    <2>6. IsSort(graph, t, e) /\ Settled(graph, e)
      BY <1>1, <1>2, <2>1, <2>5, RelaxSorts DEF e
    <2> QED BY <1>2, <2>3, <2>4, <2>6 DEF StillPart, FailuresExplained
  <1> QED BY <1>4, <1>5

(* NextGeneration goes on with the vertices that were freed *)
LEMMA GenerationStill ==
  ASSUME IInv, StillPart, NextGeneration
  PROVE  StillPart'
PROOF
  <1>1. /\ pc = "sort" /\ pc' = "sort" /\ sort.release = {} /\ sort.relax = {}
        /\ sort' = [sort EXCEPT !.release = sort.ready, !.relax = sort.ready, !.ready = {}]
        /\ UNCHANGED <<insts, graph, changed, dist>>
    BY DEF NextGeneration
  <1> DEFINE t == [indegree |-> sort.indegree, release |-> sort.ready, relax |-> sort.ready,
                   ready |-> {}]
  <1>2. sort' = t
    BY <1>1 DEF IInv, SearchPart
  <1>3. t.indegree = sort.indegree /\ t.release = sort.ready /\ t.relax = sort.ready /\ t.ready = {}
    OBVIOUS
  <1> HIDE DEF t
  <1>4. IsSort(graph, sort, dist) => IsSort(graph, t, dist)
    BY <1>1, <1>3, GenerationSorts
  <1> QED BY <1>1, <1>2, <1>4 DEF StillPart, FailuresExplained

(* the sort of a graph that nobody changed finds every vertex *)
LEMMA EndSortStill ==
  ASSUME IInv, StillPart, EndSort
  PROVE  StillPart'
PROOF
  <1>1. /\ pc = "sort" /\ sort.release = {} /\ sort.relax = {} /\ sort.ready = {}
        /\ IF DOMAIN sort.indegree = {}
           THEN pc' = "path" /\ UNCHANGED <<trace, insts, graph, threads, search, changed>>
           ELSE Fail
    BY DEF EndSort
  <1>2. IsTrace(insts) /\ IsSound(graph, insts)
    BY InstsInOrder DEF IInv, IsInOrder, StillPart
  <1>3. CASE changed
    <2>1. CASE Fail
      BY <1>3, <2>1, FailStill
    <2>2. CASE ~Fail
      <3>1. pc' = "path" /\ UNCHANGED <<insts, graph, changed>>
        BY <1>1, <2>2
      <3> QED BY <1>3, <3>1 DEF StillPart, FailuresExplained
    <2> QED BY <2>1, <2>2
  <1>4. CASE ~changed
    <2>1. IsSort(graph, sort, dist) /\ Settled(graph, dist)
      BY <1>1, <1>4 DEF StillPart
    <2>2. DOMAIN sort.indegree = {} /\ DOMAIN dist = Nodes(graph)
      BY <1>1, <1>2, <2>1, SortIsComplete
    <2>3. pc' = "path" /\ UNCHANGED <<insts, graph, dist, changed>>
      BY <1>1, <2>2 DEF search
    <2> QED BY <1>2, <2>1, <2>2, <2>3 DEF StillPart, FailuresExplained
  <1> QED BY <1>3, <1>4

(***************************************************************************)
(* add_edge of a thread: an edge that was there has the same cost, and one *)
(* that was not changes the graph.                                         *)
(***************************************************************************)
LEMMA PutEdgeStill ==
  ASSUME IInv, StillPart, NEW t \in DOMAIN links, PutEdge(t),
         pc' = pc \/ (pc' = "failed" /\ changed')
  PROVE  StillPart'
PROOF
  <1> DEFINE p == Link(t)
             h == WithVirtual(graph, insts, p)
  <1>1. /\ t \in adding /\ graph' = h /\ UNCHANGED <<insts, sort, dist>>
        /\ changed' = (changed \/ (pc \in {"sort", "path"} /\ DOMAIN graph' # DOMAIN graph))
    BY DEF PutEdge, search, WithVirtual
  <1>2. pc # "read"
    BY <1>1 DEF IInv, ThreadPart
  <1>3. p \in MayLink(insts) /\ p \notin DependencesOf(graph) /\ ~SameNode(insts, p[1], p[2])
    BY <1>1 DEF IInv, ThreadPart, Link
  <1>4. IsInOrder(insts) /\ Len(insts) \in DOMAIN insts
    BY <1>2, InstsInOrder DEF IInv
  <1>5. IsSound(graph, insts) /\ IsGraph(graph, insts) /\ LeadForward(graph, insts)
    BY DEF IInv, GraphPart, StillPart
  <1> HIDE DEF p
  <1>6. MayAdd(graph, insts, p)
    BY <1>3, <1>4, <1>5 DEF MayAdd
  <1>7. IsGrown(h, graph, insts, {p})
    BY <1>5, <1>6, VirtualIsSound
  <1> HIDE DEF h
  <1>8. IsSound(graph', insts')
    BY <1>1, <1>7 DEF IsGrown
  <1>9. pc' \in {"read", "join"} => DOMAIN dist' = {}
    BY <1>1 DEF StillPart
  <1>10. CASE changed'
    BY <1>8, <1>9, <1>10 DEF StillPart, FailuresExplained
  <1>11. CASE ~changed'
    <2>1. pc' = pc /\ ~changed /\ (pc \in {"sort", "path"} => DOMAIN h = DOMAIN graph)
      BY <1>1, <1>11
    <2>2. FailuresExplained'
      <3> SUFFICES ASSUME pc' = "failed" PROVE \A q \in DOMAIN graph' : graph'[q].cost = 0
        BY DEF FailuresExplained
      <3>1. \A q \in DOMAIN graph : graph[q].cost = 0
        BY <2>1 DEF StillPart, FailuresExplained
      <3> QED BY <1>1, <1>7, <3>1 DEF IsGrown
    <2>3. CASE pc \in {"sort", "path"}
      <3>1. SameCosts(h, graph)
        BY <1>7, <2>1, <2>3 DEF SameCosts, IsGrown
      <3>2. /\ Nodes(h) = Nodes(graph)
            /\ Settled(graph, dist) => Settled(h, dist)
            /\ IsSort(graph, sort, dist) => IsSort(h, sort, dist)
        BY <1>5, <3>1, SameCostsKeep
      <3>3. pc = "sort" => IsSort(graph, sort, dist) /\ Settled(graph, dist)
        BY <2>1 DEF StillPart
      <3>4. pc = "path" => Settled(graph, dist) /\ DOMAIN dist = Nodes(graph)
        BY <2>1 DEF StillPart
      <3> QED BY <1>1, <1>8, <1>9, <2>1, <2>2, <3>2, <3>3, <3>4 DEF StillPart
    <2>4. CASE pc \notin {"sort", "path"}
      BY <1>8, <1>9, <2>1, <2>2, <2>4 DEF StillPart
    <2> QED BY <2>3, <2>4
  <1> QED BY <1>10, <1>11

(* the iteration is interrupted only by an edge that was not there *)
LEMMA InterruptStill ==
  ASSUME IInv, StillPart, NEW t \in DOMAIN links, InterruptSort(t)
  PROVE  StillPart'
PROOF
  <1> DEFINE p == Link(t)
  <1>1. /\ PutEdge(t) /\ pc' = "failed" /\ pc \in {"sort", "path"} /\ p \notin DOMAIN graph
    BY DEF InterruptSort, Iterates
  <1>2. Extends(graph', graph, {p})
    BY <1>1, PutEdgeKeeps
  <1> HIDE DEF p
  <1>3. DOMAIN graph' # DOMAIN graph
    BY <1>1, <1>2 DEF Extends, VirtualOf
  <1>4. changed'
    BY <1>1, <1>3 DEF PutEdge
  <1> QED BY <1>1, <1>4, PutEdgeStill

(* Report fails without a change only when nothing costs anything *)
LEMMA ReportKeepsStill ==
  ASSUME IInv, StillPart, Report
  PROVE  StillPart'
PROOF
  <1>1. pc = "path" /\ UNCHANGED <<insts, changed>>
    BY DEF Report, Fail
  <1>2. pc' \in {"done", "failed"}
    BY ReportKeeps
  <1>3. IsSound(graph, insts)
    BY DEF StillPart
  <1>4. PICK P : IsGrown(graph', graph, insts, P)
    BY <1>3, ReportStill
  <1>5. IsSound(graph', insts')
    BY <1>1, <1>4 DEF IsGrown
  <1>6. FailuresExplained'
    <2> SUFFICES ASSUME pc' = "failed", ~changed' PROVE \A p \in DOMAIN graph' : graph'[p].cost = 0
      BY DEF FailuresExplained
    <2>1. Settled(graph, dist) /\ DOMAIN dist = Nodes(graph)
      BY <1>1 DEF StillPart
    <2>2. Reported
      BY <1>3, <2>1, ReportStill
    <2> QED BY <2>2 DEF Reported
  <1> QED BY <1>2, <1>5, <1>6 DEF StillPart

(* every step keeps the invariant *)
LEMMA NextStill ==
  ASSUME IInv, StillPart, [Next]_vars
  PROVE  StillPart'
PROOF
  <1>1. CASE Read
    BY <1>1, ReadStill
  <1>2. CASE Construct
    BY <1>2, ConstructStill
  <1>3. CASE Join
    BY <1>3, JoinStill
  <1>4. CASE ReleaseGeneration
    BY <1>4, ReleaseStill
  <1>5. CASE NextGeneration
    BY <1>5, GenerationStill
  <1>6. CASE EndSort
    BY <1>6, EndSortStill
  <1>7. CASE Report
    BY <1>7, ReportKeepsStill
  <1>8. ASSUME NEW x \in sort.relax, Relax(x) PROVE StillPart'
    BY <1>8, RelaxStill
  <1>9. ASSUME NEW kind \in Kinds, StartWorkers(kind) PROVE StillPart'
    BY <1>9, QuietStill DEF StartWorkers, search
  <1>10. ASSUME NEW t \in DOMAIN links, Step(t) PROVE StillPart'
    <2>1. CASE CheckEdge(t)
      BY <2>1, QuietStill DEF CheckEdge, search
    <2>2. CASE AddEdge(t)
      BY <2>2, PutEdgeStill DEF AddEdge
    <2>3. CASE InterruptSort(t)
      BY <2>3, InterruptStill
    <2> QED BY <1>10, <2>1, <2>2, <2>3 DEF Step
  <1>11. CASE UNCHANGED vars
    BY <1>11, QuietStill DEF vars
  <1> QED
    BY <1>1, <1>2, <1>3, <1>4, <1>5, <1>6, <1>7, <1>8, <1>9, <1>10, <1>11
    DEF Next, Main, Terminated

(***************************************************************************)
(* The graph is sound at every moment, and the sort and the distances are  *)
(* right for it until a worker that nobody waits for changes it.           *)
(***************************************************************************)
THEOREM StillHolds == Spec => []StillPart
PROOF
  <1>1. IInv /\ StillPart /\ [Next]_vars => StillPart'
    BY NextStill
  <1> QED BY InitStill, <1>1, IInvHolds, PTL DEF Spec

(***************************************************************************)
(* The analysis fails only when nothing costs anything or when a worker    *)
(* changed the graph under the sort: the sort never finds a cycle, every   *)
(* distance it needs is there, and the assertion of generate_report on the *)
(* length of the path never fails.                                         *)
(***************************************************************************)
THEOREM Failures == Spec => []FailuresExplained
PROOF
  <1>1. StillPart => FailuresExplained
    BY DEF StillPart
  <1> QED BY <1>1, StillHolds, PTL

(***************************************************************************)
(* longest_path_impl on a graph that no worker changes finds a most        *)
(* expensive path, and neither extending it to the ends of the trace nor   *)
(* the two bridges makes another one more expensive.                       *)
(***************************************************************************)
THEOREM Longest == Spec => StillGraphGivesLongest
PROOF
  <1> DEFINE Found == pc = "path" /\ pc' = "done" /\ ~changed
                        => CostOf(graph', critical') = LongestCost(graph')
  <1>1. IInv /\ StillPart /\ [Next]_vars => [Found]_vars
    <2> SUFFICES ASSUME IInv, StillPart, [Next]_vars, pc = "path", pc' = "done", ~changed
                 PROVE  CostOf(graph', critical') = LongestCost(graph')
      OBVIOUS
    <2>1. Report
      <3>1. Next
        BY DEF vars
      <3>2. ASSUME NEW t \in DOMAIN links, Step(t) PROVE FALSE
        BY <3>2 DEF Step, CheckEdge, AddEdge, InterruptSort
      <3>3. ASSUME NEW kind \in Kinds, StartWorkers(kind) PROVE FALSE
        BY <3>3 DEF StartWorkers
      <3>4. ~Terminated
        BY DEF Terminated, Finished
      <3>5. Main
        BY <3>1, <3>2, <3>3, <3>4 DEF Next
      <3> QED BY <3>5 DEF Main, Read, Construct, Join, ReleaseGeneration, NextGeneration, EndSort,
                          Relax
    <2>2. IsSound(graph, insts) /\ Settled(graph, dist) /\ DOMAIN dist = Nodes(graph)
      BY DEF StillPart
    <2>3. Reported
      BY <2>1, <2>2, ReportStill
    <2> QED BY <2>3 DEF Reported
  <1> QED BY <1>1, IInvHolds, StillHolds, PTL DEF Spec, StillGraphGivesLongest
=============================================================================
