---------------------------- MODULE O3Graph_proofs ----------------------------
(***************************************************************************)
(* The graph O3Graph::run builds is sound for every trace of executed      *)
(* instructions, of any length and for every WINDOW.                       *)
(***************************************************************************)
EXTENDS O3Graph, InducedDEG_proofs

(* inst has been read and is not yet in inst_window *)
Pending == pc \in {"model", "interact"} \/ (pc = "analyze" /\ inst # NoInst)

(* the lines read so far could have been written by the core *)
ReadsATrace ==
  /\ IsTrace(inst_window)
  /\ Pending => inst \in Trace /\ IsTrace(Append(inst_window, inst))

(* inst_seq numbers the instructions in the order of inst_window *)
Numbered ==
  /\ pc = "next" => Len(inst_window) = inst_seq
  /\ Pending => Len(inst_window) + 1 = inst_seq

(* the inductive invariant: every edge is sound for the modelled instructions *)
SoundGraph ==
  /\ TypeOK
  /\ ReadsATrace
  /\ Numbered
  /\ edges \in Seq(SoundEdges(Modelled))

(***************************************************************************)
(* A longer window keeps the edges of a shorter one sound.                 *)
(***************************************************************************)
LEMMA SoundEdgesGrow ==
  ASSUME NEW w \in Seq(Instruction), NEW i \in Instruction
  PROVE  SoundEdges(w) \subseteq SoundEdges(Append(w, i))
PROOF
  <1> DEFINE y == Append(w, i)
  <1>1. DOMAIN w \subseteq DOMAIN y /\ \A k \in DOMAIN w : y[k] = w[k]
    OBVIOUS
  <1> HIDE DEF y
  <1>2. ASSUME NEW d \in SoundEdges(w) PROVE d \in SoundEdges(y)
    <2>1. /\ d \in Edge /\ IsForward(d) /\ IsAttached(w, d) /\ MeasuresTime(w, d) /\ IsNonNegative(d)
          /\ IsHorizontal(w, d) \/ IsSkewed(d)
      BY DEF SoundEdges
    <2>2. d.u[1] \in DOMAIN w /\ d.v[1] \in DOMAIN w
      BY <2>1 DEF IsAttached
    <2>3. y[d.u[1]] = w[d.u[1]] /\ y[d.v[1]] = w[d.v[1]]
      BY <1>1, <2>2
    <2>4. IsAttached(y, d)
      BY <1>1, <2>1, <2>2, <2>3 DEF IsAttached
    <2>5. MeasuresTime(y, d)
      BY <2>1, <2>3 DEF MeasuresTime, IsLoadCommit, timing
    <2>6. IsHorizontal(y, d) \/ IsSkewed(d)
      BY <2>1, <2>3 DEF IsHorizontal
    <2> QED BY <2>1, <2>4, <2>5, <2>6 DEF SoundEdges
  <1> QED BY <1>2 DEF y

(***************************************************************************)
(* A line that follows a trace extends it.                                 *)
(***************************************************************************)
LEMMA TraceGrows ==
  ASSUME NEW w, IsTrace(w), NEW i \in Trace, Follows(w, i)
  PROVE  IsTrace(Append(w, i))
PROOF
  <1> DEFINE y == Append(w, i)
             n == Len(w)
  <1>1. i \in Instruction /\ Executed(i)
    BY TraceAssumption
  <1>2. w \in Seq(Instruction) /\ n \in Nat /\ DOMAIN w = 1 .. n
    BY DEF IsTrace
  <1>3. /\ y \in Seq(Instruction) /\ DOMAIN y = 1 .. n + 1 /\ y[n + 1] = i
        /\ \A k \in 1 .. n : y[k] = w[k]
    BY <1>1, <1>2
  <1> HIDE DEF y, n
  <1>4. \A k \in DOMAIN y : Executed(y[k])
    BY <1>1, <1>2, <1>3 DEF IsTrace
  <1>5. ASSUME NEW k \in DOMAIN y, NEW j \in DOMAIN y, k < j
        PROVE  /\ y[k].rename <= y[j].rename
               /\ y[k].fetch_cache_line <= y[j].fetch_cache_line
               /\ y[k].commit <= y[j].commit
               /\ raw_dep(y[j], y[k]) => y[k].issue <= y[j].issue
    <2>1. k \in DOMAIN w /\ y[k] = w[k]
      BY <1>2, <1>3, <1>5
    <2>2. CASE j \in 1 .. n
      BY <1>2, <1>3, <1>5, <2>1, <2>2 DEF IsTrace
    <2>3. CASE j = n + 1
      BY <1>3, <2>1, <2>3 DEF Follows
    <2> QED BY <1>2, <1>3, <2>2, <2>3
  <1> QED BY <1>3, <1>4, <1>5 DEF IsTrace, y

(***************************************************************************)
(* SoundGraph holds initially and every step of run() preserves it.        *)
(***************************************************************************)
LEMMA SoundGraphInit ==
  Init => SoundGraph
PROOF
  <1> SUFFICES ASSUME Init PROVE SoundGraph
    OBVIOUS
  <1>1. ~Pending /\ Modelled = <<>> /\ edges = <<>> /\ inst_window = <<>>
    BY DEF Init, Pending, Modelled
  <1>2. TypeOK
    BY DEF Init, TypeOK
  <1>3. IsTrace(<<>>)
    BY DEF IsTrace
  <1>4. ReadsATrace /\ Numbered
    BY <1>1, <1>3 DEF ReadsATrace, Numbered, Init
  <1> QED BY <1>1, <1>2, <1>4 DEF SoundGraph

(* every step of run(): NextInst, EndOfTrace, Model, ModelInteraction, analysis *)
LEMMA SoundGraphNext ==
  SoundGraph /\ [Next]_vars => SoundGraph'
PROOF
  <1> SUFFICES ASSUME SoundGraph, [Next]_vars PROVE SoundGraph'
    OBVIOUS
  <1>0. /\ TypeOK /\ ReadsATrace /\ Numbered /\ edges \in Seq(SoundEdges(Modelled))
        /\ WINDOW \in Nat \ {0}
    BY WindowAssumption DEF SoundGraph
  <1>1. CASE NextInst
    <2>1. /\ inst' \in Trace /\ Follows(inst_window, inst') /\ inst_window' = inst_window
          /\ inst_seq' = inst_seq + 1 /\ edges' = edges /\ status' = status
          /\ pc = "next" /\ pc' \in {"analyze", "model"}
      BY <1>1 DEF NextInst
    <2>2. TypeOK'
      BY <1>0, <2>1 DEF TypeOK
    <2>3. ReadsATrace'
      BY <1>0, <2>1, TraceGrows DEF ReadsATrace, Pending
    <2>4. Numbered'
      BY <1>0, <2>1 DEF Numbered, Pending
    <2>5. Modelled = inst_window /\ Modelled' = inst_window
      BY <2>1 DEF Modelled
    <2> QED BY <1>0, <2>1, <2>2, <2>3, <2>4, <2>5 DEF SoundGraph
  <1>2. CASE EndOfTrace
    <2>1. /\ inst' = NoInst /\ pc = "next" /\ pc' \in {"done", "analyze"}
          /\ UNCHANGED <<inst_seq, inst_window, edges, status>>
      BY <1>2 DEF EndOfTrace
    <2>2. ~Pending' /\ Modelled = inst_window /\ Modelled' = inst_window
      BY <2>1 DEF Pending, Modelled
    <2>3. TypeOK'
      BY <1>0, <2>1 DEF TypeOK
    <2> QED BY <1>0, <2>1, <2>2, <2>3 DEF SoundGraph, ReadsATrace, Numbered
  <1>3. CASE Model
    <2>1. /\ pc = "model" /\ pc' = "interact" /\ edges' = edges \o Horizontal(inst, inst_seq)
          /\ UNCHANGED <<inst_seq, inst, inst_window, status>>
      BY <1>3 DEF Model
    <2> DEFINE w == Append(inst_window, inst)
    <2>2. Pending /\ Pending' /\ Modelled = inst_window /\ Modelled' = w
      BY <2>1 DEF Pending, Modelled
    <2>3. inst \in Trace /\ IsTrace(w) /\ IsTrace(inst_window)
      BY <1>0, <2>2 DEF ReadsATrace
    <2>4. inst_seq \in DOMAIN w /\ w[inst_seq] = inst
      BY <1>0, <2>2, <2>3 DEF Numbered, IsTrace
    <2>5. Horizontal(inst, inst_seq) \in Seq(SoundEdges(w))
      <3> HIDE DEF w
      <3> QED BY <2>3, <2>4, HorizontalIsSound
    <2>6. edges \in Seq(SoundEdges(w))
      <3>1. SoundEdges(inst_window) \subseteq SoundEdges(w)
        BY <2>3, TraceAssumption, SoundEdgesGrow DEF IsTrace
      <3> QED BY <1>0, <2>2, <3>1, SeqMonotonic
    <2>7. edges' \in Seq(SoundEdges(w))
      BY <2>1, <2>5, <2>6, ConcatProperties
    <2>8. TypeOK'
      <3>1. edges' \in Seq(Edge)
        BY <2>7, SeqMonotonic DEF SoundEdges
      <3> QED BY <1>0, <2>1, <3>1 DEF TypeOK
    <2>9. ReadsATrace' /\ Numbered'
      BY <1>0, <2>1, <2>2 DEF ReadsATrace, Numbered
    <2> QED BY <2>2, <2>7, <2>8, <2>9 DEF SoundGraph
  <1>4. CASE ModelInteraction
    <2> DEFINE w == Append(inst_window, inst)
    <2>1. /\ pc = "interact" /\ pc' = "next" /\ edges' = edges \o Interaction(w)
          /\ inst_window' = w /\ UNCHANGED <<inst_seq, inst, status>>
      BY <1>4 DEF ModelInteraction
    <2>2. Pending /\ ~Pending' /\ Modelled = w /\ Modelled' = w
      BY <2>1 DEF Pending, Modelled
    <2>3. inst \in Trace /\ IsTrace(w)
      BY <1>0, <2>2 DEF ReadsATrace
    <2>4. edges' \in Seq(SoundEdges(w))
      <3> HIDE DEF w
      <3>1. Interaction(w) \in Seq(SoundEdges(w))
        BY <2>3, InteractionIsSound, SeqMonotonic DEF SkewedEdges
      <3> QED BY <1>0, <2>1, <2>2, <3>1, ConcatProperties
    <2>5. TypeOK'
      <3>1. edges' \in Seq(Edge)
        BY <2>4, SeqMonotonic DEF SoundEdges
      <3>2. inst_window' \in Seq(Trace)
        BY <1>0, <2>1, <2>3 DEF TypeOK
      <3> QED BY <1>0, <2>1, <3>1, <3>2 DEF TypeOK
    <2>6. Len(w) = inst_seq
      BY <1>0, <2>2 DEF Numbered, TypeOK
    <2>7. ReadsATrace' /\ Numbered'
      BY <2>1, <2>2, <2>3, <2>6 DEF ReadsATrace, Numbered
    <2> QED BY <2>2, <2>4, <2>5, <2>7 DEF SoundGraph
  <1>5. CASE AnalyzeWindow
    <2>1. /\ pc = "analyze" /\ UNCHANGED <<inst_seq, inst, inst_window, edges>>
          /\ \/ status' \in Failures /\ pc' = "stopped"
             \/ status' = status /\ pc' = IF inst = NoInst THEN "done" ELSE "model"
      BY <1>5, Zenon DEF AnalyzeWindow, Profile, Stop, Failures
    <2>2. Modelled = inst_window /\ Modelled' = inst_window /\ (Pending' => Pending)
      BY <2>1 DEF Modelled, Pending
    <2>3. TypeOK'
      BY <1>0, <2>1 DEF TypeOK
    <2>4. ReadsATrace' /\ Numbered'
      BY <1>0, <2>1, <2>2 DEF ReadsATrace, Numbered
    <2> QED BY <1>0, <2>1, <2>2, <2>3, <2>4 DEF SoundGraph
  <1>6. CASE UNCHANGED vars
    BY <1>0, <1>6 DEF vars, SoundGraph, TypeOK, ReadsATrace, Numbered, Pending, Modelled
  <1> QED BY <1>1, <1>2, <1>3, <1>4, <1>5, <1>6 DEF Next, Finished

(***************************************************************************)
(* SoundGraph is an invariant of O3Graph::run.                             *)
(***************************************************************************)
LEMMA SoundGraphInvariant ==
  Spec => []SoundGraph
PROOF
  <1> QED BY SoundGraphInit, SoundGraphNext, PTL DEF Spec

(* what the inductive invariant says of the edges run() has added *)
LEMMA SoundGraphImplies ==
  SoundGraph => TypeOK /\ Forward /\ Attached /\ WeightsMeasureTime /\ NoTickUnderflow
PROOF
  <1> SUFFICES ASSUME SoundGraph
               PROVE  TypeOK /\ Forward /\ Attached /\ WeightsMeasureTime /\ NoTickUnderflow
    OBVIOUS
  <1>1. \A k \in DOMAIN edges : edges[k] \in SoundEdges(Modelled)
    BY DEF SoundGraph
  <1>2. \A k \in DOMAIN edges : /\ IsForward(edges[k])
                                /\ IsAttached(Modelled, edges[k])
                                /\ MeasuresTime(Modelled, edges[k])
                                /\ IsNonNegative(edges[k])
    BY <1>1 DEF SoundEdges
  <1> QED BY <1>2 DEF SoundGraph, Forward, Attached, WeightsMeasureTime, NoTickUnderflow

-----------------------------------------------------------------------------
(***************************************************************************)
(* The state of run() is well typed: inst_stream, inst_window and the      *)
(* graph hold trace lines and edges, whatever an analysis does.            *)
(***************************************************************************)
THEOREM TypeCorrect == Spec => []TypeOK
PROOF
  <1> QED BY SoundGraphInvariant, SoundGraphImplies, PTL

(***************************************************************************)
(* The graph model() and model_interaction() build has no cycle: every     *)
(* edge leads to a younger instruction or a later stage, so what           *)
(* topological_sort asserts holds before the virtual edges are added.      *)
(***************************************************************************)
THEOREM GraphIsForward == Spec => []Forward
PROOF
  <1> QED BY SoundGraphInvariant, SoundGraphImplies, PTL

(***************************************************************************)
(* No edge is attached to an event that was merged into another vertex, or *)
(* to an instruction that is not in the graph (get_vertex_from_inst).      *)
(***************************************************************************)
THEOREM EdgesAreAttached == Spec => []Attached
PROOF
  <1> QED BY SoundGraphInvariant, SoundGraphImplies, PTL

(***************************************************************************)
(* Every weight is the time between the two events of its edge, except on  *)
(* the commit of a load that waited for its data (from_p_to_c).            *)
(***************************************************************************)
THEOREM WeightsAreTimes == Spec => []WeightsMeasureTime
PROOF
  <1> QED BY SoundGraphInvariant, SoundGraphImplies, PTL

(***************************************************************************)
(* No difference of two ticks the from_<x>_to_<y> functions compute is     *)
(* negative: the unsigned subtraction never wraps around.                  *)
(***************************************************************************)
THEOREM TicksNeverUnderflow == Spec => []NoTickUnderflow
PROOF
  <1> QED BY SoundGraphInvariant, SoundGraphImplies, PTL

-----------------------------------------------------------------------------
(***************************************************************************)
(* The virtual edges.                                                      *)
(***************************************************************************)
VirtualEdge(w, x, y) ==
  [u |-> x, v |-> y, weight |-> timing(w, y) - timing(w, x), cost |-> 0, bottleneck |-> "Virtual"]

(* h is e with virtual edges between the pairs of links, none of them twice *)
Extension(w, e, h, links) ==
  /\ h \in Seq(Edge) /\ Len(e) <= Len(h) /\ \A k \in 1 .. Len(e) : h[k] = e[k]
  /\ \A k \in Len(e) + 1 .. Len(h) :
       /\ <<h[k].u, h[k].v>> \in links
       /\ h[k] = VirtualEdge(w, h[k].u, h[k].v)
       /\ \A j \in 1 .. Len(h) : j # k => ~(h[j].u = h[k].u /\ h[j].v = h[k].v)

(* the pairs are different and can be joined *)
AreLinks(w, links) ==
  \A l \in links : l = <<l[1], l[2]>> /\ l[1] # l[2] /\ VirtualEdge(w, l[1], l[2]) \in Edge

(* r is such a graph, starts with the edges of h and joins x to y *)
JoinedTo(w, e, h, r, links, x, y) ==
  /\ Extension(w, e, r, links) /\ if_exist_edge(r, x, y)
  /\ Len(h) <= Len(r) /\ \A k \in 1 .. Len(h) : r[k] = h[k]

(***************************************************************************)
(* add_virtual_edge joins its two vertices, unless an edge does.           *)
(***************************************************************************)
LEMMA AddVirtualEdge ==
  ASSUME NEW w, NEW e \in Seq(Edge), NEW links, AreLinks(w, links),
         NEW h, Extension(w, e, h, links), NEW x, NEW y, <<x, y>> \in links
  PROVE  JoinedTo(w, e, h, add_virtual_edge(w, h, x, y), links, x, y)
PROOF
  <1> DEFINE r == add_virtual_edge(w, h, x, y)
             d == VirtualEdge(w, x, y)
             n == Len(h)
  <1>1. x # y /\ d \in Edge
    <2> DEFINE l == <<x, y>>
    <2>1. l \in links /\ l[1] = x /\ l[2] = y
      OBVIOUS
    <2> HIDE DEF l
    <2> QED BY <2>1 DEF AreLinks
  <1>2. /\ h \in Seq(Edge) /\ n \in Nat /\ DOMAIN h = 1 .. n /\ Len(e) \in Nat /\ Len(e) <= n
        /\ \A k \in 1 .. Len(e) : h[k] = e[k]
    BY DEF Extension
  <1>3. CASE if_exist_edge(h, x, y)
    <2>1. r = h
      BY <1>3 DEF add_virtual_edge
    <2> QED BY <1>2, <1>3, <2>1 DEF JoinedTo
  <1>4. CASE ~if_exist_edge(h, x, y)
    <2>1. r = Append(h, d)
      BY <1>1, <1>4 DEF add_virtual_edge, VirtualEdge
    <2>2. d.u = x /\ d.v = y
      BY DEF VirtualEdge
    <2>3. \A k \in 1 .. n : ~(h[k].u = x /\ h[k].v = y)
      BY <1>2, <1>4 DEF if_exist_edge
    <2> HIDE DEF d, r
    <2>4. /\ r \in Seq(Edge) /\ Len(r) = n + 1 /\ DOMAIN r = 1 .. n + 1 /\ r[n + 1] = d
          /\ \A k \in 1 .. n : r[k] = h[k]
      BY <1>1, <1>2, <2>1
    <2>5. if_exist_edge(r, x, y)
      <3>1. n + 1 \in DOMAIN r
        BY <1>2, <2>4
      <3> QED BY <2>2, <2>4, <3>1 DEF if_exist_edge
    <2> HIDE DEF n
    <2>6. ASSUME NEW k \in Len(e) + 1 .. n + 1
          PROVE  /\ <<r[k].u, r[k].v>> \in links
                 /\ r[k] = VirtualEdge(w, r[k].u, r[k].v)
                 /\ \A j \in 1 .. n + 1 : j # k => ~(r[j].u = r[k].u /\ r[j].v = r[k].v)
      <3>1. CASE k = n + 1
        <4>1. r[k] = d
          BY <2>4, <3>1
        <4>2. \A j \in 1 .. n + 1 : j # k => j \in 1 .. n
          BY <1>2, <3>1
        <4> QED BY <2>2, <2>3, <2>4, <4>1, <4>2 DEF d
      <3>2. CASE k # n + 1
        <4>1. k \in Len(e) + 1 .. n /\ k \in 1 .. n
          BY <1>2, <3>2
        <4>2. r[k] = h[k]
          BY <2>4, <4>1
        <4>3. /\ <<h[k].u, h[k].v>> \in links
              /\ h[k] = VirtualEdge(w, h[k].u, h[k].v)
              /\ \A j \in 1 .. n : j # k => ~(h[j].u = h[k].u /\ h[j].v = h[k].v)
          BY <4>1 DEF Extension, n
        <4>4. ASSUME NEW j \in 1 .. n + 1, j # k PROVE ~(r[j].u = r[k].u /\ r[j].v = r[k].v)
          <5>1. CASE j = n + 1
            BY <2>2, <2>3, <2>4, <4>1, <4>2, <5>1
          <5>2. CASE j # n + 1
            <6>1. j \in 1 .. n
              BY <1>2, <5>2
            <6> QED BY <2>4, <4>2, <4>3, <4>4, <6>1
          <5> QED BY <5>1, <5>2
        <4> QED BY <4>2, <4>3, <4>4
      <3> QED BY <3>1, <3>2
    <2>7. \A k \in 1 .. Len(e) : r[k] = e[k]
      BY <1>2, <2>4
    <2>8. Len(e) <= Len(r) /\ n <= Len(r)
      BY <1>2, <2>4
    <2>9. Extension(w, e, r, links)
      BY <2>4, <2>6, <2>7, <2>8 DEF Extension
    <2>10. JoinedTo(w, e, h, r, links, x, y)
      BY <2>4, <2>5, <2>8, <2>9 DEF JoinedTo, n
    <2> QED BY <2>10 DEF r
  <1> QED BY <1>3, <1>4

(* c is the trace, the graph and the pairs *)
ConnectDef(c, h, s) ==
  IF s = {} THEN c[2]
  ELSE LET k == Max(s) IN add_virtual_edge(c[1], h[s \ {k}], c[3][k][1], c[3][k][2])
ConnectOp(c, h, k) == add_virtual_edge(c[1], h, c[3][k][1], c[3][k][2])

Connects == INSTANCE Recursion WITH Def <- ConnectDef, Op <- ConnectOp

(***************************************************************************)
(* Connect adds virtual edges only, and none twice.                        *)
(***************************************************************************)
LEMMA ConnectIs ==
  ASSUME NEW w, NEW e \in Seq(Edge), NEW links, AreLinks(w, links),
         NEW h, Extension(w, e, h, links), NEW ls \in Seq(links)
  PROVE  Extension(w, e, Connect(w, h, ls), links)
PROOF
  <1> DEFINE c == <<w, h, ls>>
             n == Len(ls)
             P(k) == Connects!Partial(c, n, k)
  <1>1. n \in Nat /\ DOMAIN ls = 1 .. n /\ \A k \in 1 .. n : ls[k] \in links
    OBVIOUS
  <1>2. c[1] = w /\ c[2] = h /\ c[3] = ls
    OBVIOUS
  <1>3. ASSUME NEW b PROVE Connect(b[1], b[2], b[3]) = Connects!Fix(b, SUBSET (DOMAIN b[3]))[DOMAIN b[3]]
    BY DEF Connect, FoldLeft, MapThenFoldSet, Connects!Fix, ConnectDef, Max
  <1>4. ASSUME NEW b PROVE Connects!IsFold(b, n, b[2])
    BY DEF Connects!IsFold, ConnectDef, ConnectOp, Max, Connects!Max
  <1> HIDE DEF c
  <1>5. Connects!IsFold(c, n, h)
    BY <1>2, <1>4
  <1>6. Connect(w, h, ls) = Connects!Folded(c, n)
    <2>1. Connect(c[1], c[2], c[3]) = Connects!Fix(c, SUBSET (DOMAIN c[3]))[DOMAIN c[3]]
      BY <1>3
    <2> HIDE DEF n
    <2> QED BY <1>1, <1>2, <2>1 DEF Connects!Folded
  <1> HIDE DEF n
  <1>7. /\ P(0) = h /\ \A k \in 1 .. n : P(k) = ConnectOp(c, P(k - 1), k)
        /\ Connects!Folded(c, n) = P(n)
    BY <1>1, <1>5, Connects!FoldSteps
  <1> HIDE DEF P
  <1> DEFINE S == {k \in 0 .. n : Extension(w, e, P(k), links)}
  <1>8. 0 \in S
    BY <1>1, <1>7
  <1>9. ASSUME NEW k \in 1 .. n, k - 1 \in S PROVE k \in S
    <2>1. P(k) = add_virtual_edge(w, P(k - 1), ls[k][1], ls[k][2])
      BY <1>2, <1>7 DEF ConnectOp
    <2>2. <<ls[k][1], ls[k][2]>> \in links
      BY <1>1 DEF AreLinks
    <2>3. Extension(w, e, P(k - 1), links)
      BY <1>9
    <2> DEFINE x == ls[k][1]
               y == ls[k][2]
               q == P(k - 1)
    <2> HIDE DEF x, y, q
    <2>4. Extension(w, e, add_virtual_edge(w, q, x, y), links)
      BY <2>2, <2>3, AddVirtualEdge DEF x, y, q, JoinedTo
    <2>5. Extension(w, e, P(k), links)
      BY <2>1, <2>4 DEF x, y, q
    <2> QED BY <2>5
  <1>10. n \in S
    <2> HIDE DEF S
    <2>1. \A k \in 0 .. n : k \in S
      BY <1>1, <1>8, <1>9, Connects!IntervalInduction
    <2> QED BY <1>1, <2>1
  <1> QED BY <1>6, <1>7, <1>10

-----------------------------------------------------------------------------
(* the graph of the instructions w: sound edges, and all the horizontal ones once *)
Chained(w, e) ==
  /\ \A n \in DOMAIN w : \A k \in 1 .. Len(Pipeline(w[n])) - 1 :
       if_exist_edge(e, <<n, Pipeline(w[n])[k]>>, <<n, Pipeline(w[n])[k + 1]>>)
  /\ \A j, k \in DOMAIN e :
       /\ e[j].u = e[k].u
       /\ e[j].u[1] = e[j].v[1] /\ e[k].u[1] = e[k].v[1]
       => j = k

IsGraphOf(w, e) == IsTrace(w) /\ e \in Seq(SoundEdges(w)) /\ Chained(w, e)

(***************************************************************************)
(* The vertices of a graph are events of its instructions.                 *)
(***************************************************************************)
LEMMA TimeOfStage ==
  ASSUME NEW i \in Instruction, NEW s \in Stages
  PROVE  Timing(i, s) \in Nat
BY DEF Timing, Stages, Instruction

LEMMA VerticesAreEvents ==
  ASSUME NEW w, NEW e, IsGraphOf(w, e)
  PROVE  /\ e \in Seq(Edge) /\ IsDag(e)
         /\ \A x \in VerticesOf(e) : /\ x \in Vertex /\ x = <<x[1], x[2]>>
                                     /\ x[1] \in DOMAIN w /\ x[1] \in Nat
                                     /\ x[2] \in PipelineStages(w[x[1]]) /\ x[2] \in Stages
                                     /\ timing(w, x) \in Nat
PROOF
  <1>1. \A k \in DOMAIN e : e[k] \in SoundEdges(w)
    BY DEF IsGraphOf
  <1>2. e \in Seq(Edge)
    BY SeqMonotonic DEF IsGraphOf, SoundEdges
  <1>3. IsDag(e)
    BY <1>1, <1>2 DEF IsDag, SoundEdges, IsNonNegative
  <1>4. ASSUME NEW x \in VerticesOf(e)
        PROVE  /\ x \in Vertex /\ x = <<x[1], x[2]>> /\ x[1] \in DOMAIN w /\ x[1] \in Nat
               /\ x[2] \in PipelineStages(w[x[1]]) /\ x[2] \in Stages
               /\ timing(w, x) \in Nat
    <2>1. PICK k \in DOMAIN e : x \in {e[k].u, e[k].v}
      BY DEF VerticesOf
    <2>2. IsAttached(w, e[k])
      BY <1>1 DEF SoundEdges
    <2>3. x[1] \in DOMAIN w /\ x[2] \in PipelineStages(w[x[1]])
      BY <2>1, <2>2 DEF IsAttached
    <2>4. x \in Vertex
      BY <1>2, VerticesAre
    <2>5. x = <<x[1], x[2]>> /\ x[1] \in Nat /\ x[2] \in Stages
      BY <2>4 DEF Vertex
    <2>6. w[x[1]] \in Instruction
      BY <2>3 DEF IsGraphOf, IsTrace
    <2>7. timing(w, x) \in Nat
      BY <2>5, <2>6, TimeOfStage DEF timing
    <2> QED BY <2>3, <2>4, <2>5, <2>7
  <1> QED BY <1>2, <1>3, <1>4

(* the pairs construct_induced_graph may join: the second is an event of a *)
(* younger instruction, no earlier, and not of the youngest                *)
InducedLinks(w, e) ==
  {l \in VerticesOf(e) \X VerticesOf(e) :
     After(w, l[1], l[2]) /\ \E z \in VerticesOf(e) : z[1] > l[2][1]}

(* the pairs a virtual edge may join: it leads forward, in time as well *)
SoundLinks(w, e) ==
  {l \in VerticesOf(e) \X VerticesOf(e) :
     /\ IsForward([u |-> l[1], v |-> l[2]])
     /\ timing(w, l[1]) <= timing(w, l[2])}

LEMMA LinksAre ==
  ASSUME NEW w, NEW e, IsGraphOf(w, e)
  PROVE  /\ InducedLinks(w, e) \in SUBSET SoundLinks(w, e)
         /\ AreLinks(w, SoundLinks(w, e)) /\ AreLinks(w, InducedLinks(w, e))
         /\ \A l \in SoundLinks(w, e) : LET d == VirtualEdge(w, l[1], l[2])
                                        IN  d \in Edge /\ IsForward(d) /\ d.cost >= 0
PROOF
  <1>1. \A x \in VerticesOf(e) : x \in Vertex /\ x[1] \in Nat /\ x[2] \in Stages /\ timing(w, x) \in Nat
    BY VerticesAreEvents
  <1>2. ASSUME NEW l \in InducedLinks(w, e) PROVE l \in SoundLinks(w, e)
    <2>1. l \in VerticesOf(e) \X VerticesOf(e) /\ After(w, l[1], l[2])
      BY DEF InducedLinks
    <2>2. l[1] \in VerticesOf(e) /\ l[2] \in VerticesOf(e)
      BY <2>1
    <2>3. l[1][1] < l[2][1] /\ timing(w, l[1]) <= timing(w, l[2])
      BY <1>1, <2>1, <2>2 DEF After
    <2>4. IsForward([u |-> l[1], v |-> l[2]])
      BY <2>3 DEF IsForward
    <2> QED BY <2>1, <2>3, <2>4 DEF SoundLinks
  <1>3. ASSUME NEW l \in SoundLinks(w, e)
        PROVE  LET d == VirtualEdge(w, l[1], l[2])
               IN  /\ d \in Edge /\ IsForward(d) /\ d.cost >= 0 /\ l = <<l[1], l[2]>> /\ l[1] # l[2]
    <2> DEFINE x == l[1]
               y == l[2]
               d == VirtualEdge(w, x, y)
    <2>1. l = <<x, y>> /\ x \in VerticesOf(e) /\ y \in VerticesOf(e)
      BY DEF SoundLinks
    <2>2. IsForward([u |-> x, v |-> y])
      BY DEF SoundLinks
    <2> HIDE DEF x, y
    <2>3. d.u = x /\ d.v = y /\ d.cost = 0 /\ d.weight = timing(w, y) - timing(w, x)
      BY DEF VirtualEdge
    <2>4. d \in Edge
      <3>1. x \in Vertex /\ y \in Vertex /\ timing(w, y) - timing(w, x) \in Int /\ "Virtual" \in Bottlenecks
        BY <1>1, <2>1 DEF Bottlenecks
      <3> QED BY <3>1 DEF VirtualEdge, Edge
    <2>5. x[1] < y[1] \/ (x[1] = y[1] /\ Rank[x[2]] < Rank[y[2]])
      BY <2>2 DEF IsForward
    <2>6. IsForward(d) /\ d.cost >= 0
      BY <2>3, <2>5 DEF IsForward
    <2>7. x # y
      <3>1. x[1] \in Int /\ Rank[x[2]] \in Int
        BY <1>1, <2>1, RanksDiffer
      <3> QED BY <2>5, <3>1
    <2> QED BY <2>1, <2>4, <2>6, <2>7 DEF x, y
  <1> QED BY <1>2, <1>3 DEF AreLinks

(***************************************************************************)
(* Virtual edges add no vertex and no cycle.                               *)
(***************************************************************************)
LEMMA ExtensionIsDag ==
  ASSUME NEW w, NEW e, IsGraphOf(w, e), NEW h, Extension(w, e, h, SoundLinks(w, e))
  PROVE  IsDag(h) /\ VerticesOf(h) = VerticesOf(e)
PROOF
  <1>1. /\ h \in Seq(Edge) /\ Len(e) \in Nat /\ Len(h) \in Nat /\ Len(e) <= Len(h)
        /\ DOMAIN e = 1 .. Len(e) /\ DOMAIN h = 1 .. Len(h)
        /\ \A k \in 1 .. Len(e) : h[k] = e[k]
    BY VerticesAreEvents DEF Extension
  <1>2. \A k \in 1 .. Len(h) : k \in 1 .. Len(e) \/ k \in Len(e) + 1 .. Len(h)
    BY <1>1
  <1>3. ASSUME NEW k \in Len(e) + 1 .. Len(h)
        PROVE  IsForward(h[k]) /\ h[k].cost >= 0 /\ h[k].u \in VerticesOf(e) /\ h[k].v \in VerticesOf(e)
    <2> DEFINE l == <<h[k].u, h[k].v>>
    <2>1. l \in SoundLinks(w, e) /\ h[k] = VirtualEdge(w, l[1], l[2])
      BY DEF Extension
    <2>2. l[1] = h[k].u /\ l[2] = h[k].v
      OBVIOUS
    <2> HIDE DEF l
    <2>3. IsForward(h[k]) /\ h[k].cost >= 0
      BY <2>1, LinksAre
    <2> QED BY <2>1, <2>2, <2>3 DEF SoundLinks
  <1>4. \A k \in 1 .. Len(e) : IsForward(h[k]) /\ h[k].cost >= 0
    BY <1>1, VerticesAreEvents DEF IsDag
  <1>5. IsDag(h)
    BY <1>1, <1>2, <1>3, <1>4 DEF IsDag
  <1>6. VerticesOf(e) \subseteq VerticesOf(h)
    <2>1. \A k \in DOMAIN e : k \in DOMAIN h /\ h[k] = e[k]
      BY <1>1
    <2> QED BY <2>1 DEF VerticesOf
  <1>7. VerticesOf(h) \subseteq VerticesOf(e)
    <2>1. \A k \in DOMAIN h : h[k].u \in VerticesOf(e) /\ h[k].v \in VerticesOf(e)
      <3>1. \A k \in 1 .. Len(e) : h[k].u \in VerticesOf(e) /\ h[k].v \in VerticesOf(e)
        BY <1>1 DEF VerticesOf
      <3> QED BY <1>1, <1>2, <1>3, <3>1
    <2> QED BY <2>1 DEF VerticesOf
  <1> QED BY <1>5, <1>6, <1>7

-----------------------------------------------------------------------------
ByTiming(w, S)  == {p \in S \X S : EdgeTimingCompare(w, p[1], p[2])}
ByInstSeq(w, S) == {p \in S \X S : EdgeInstSeqCompare(w, p[1], p[2])}

(* the keys of S in the order of the one map and of the other *)
TimingKeys(w, S)  == SortBy(S, LAMBDA x, y : EdgeTimingCompare(w, x, y))
InstSeqKeys(w, S) == SortBy(S, LAMBDA x, y : EdgeInstSeqCompare(w, x, y))

(***************************************************************************)
(* The keys of the skewed map have different (timing, inst_seq), so both   *)
(* its orders are total.                                                   *)
(***************************************************************************)
LEMMA KeysAreOrdered ==
  ASSUME NEW w, NEW h \in Seq(Edge), \A x \in VerticesOf(h) : timing(w, x) \in Nat
  PROVE  LET S == SkewedKeys(w, h)
         IN  /\ S \subseteq SkewedTails(h) /\ SkewedTails(h) \subseteq VerticesOf(h)
             /\ IsFiniteSet(S) /\ S \in SUBSET Vertex
             /\ IsTotalOrder(S, ByTiming(w, S)) /\ IsTotalOrder(S, ByInstSeq(w, S))
PROOF
  <1> DEFINE S == SkewedKeys(w, h)
  <1>1. S \subseteq SkewedTails(h) /\ SkewedTails(h) \subseteq VerticesOf(h)
    BY DEF SkewedKeys, SkewedTails, VerticesOf
  <1>2. IsFiniteSet(VerticesOf(h)) /\ VerticesOf(h) \in SUBSET Vertex
    BY VerticesAre
  <1>3. IsFiniteSet(S) /\ S \in SUBSET Vertex
    BY <1>1, <1>2, FS_Subset
  <1>4. ASSUME NEW x \in S, NEW y \in S, SameEntry(w, x, y) PROVE x = y
    <2>1. SameEntry(w, y, x)
      BY <1>4 DEF SameEntry
    <2>2. Rank[x[2]] <= Rank[y[2]] /\ Rank[y[2]] <= Rank[x[2]]
      BY <1>1, <1>4, <2>1 DEF SkewedKeys
    <2>3. x[2] \in Stages /\ y[2] \in Stages /\ x = <<x[1], x[2]>> /\ y = <<y[1], y[2]>>
      BY <1>3 DEF Vertex
    <2>4. x[2] = y[2]
      <3>1. Rank[x[2]] \in Int /\ Rank[y[2]] \in Int
        BY <2>3, RanksDiffer
      <3>2. Rank[x[2]] = Rank[y[2]]
        BY <2>2, <3>1
      <3> QED BY <2>3, <3>2, RanksDiffer
    <2> QED BY <1>4, <2>3, <2>4 DEF SameEntry
  <1>5. \A x \in S : timing(w, x) \in Int /\ x[1] \in Int
    BY <1>1, <1>3 DEF Vertex
  <1> HIDE DEF S
  <1>6. \A x, y \in S : x # y => x[1] # y[1] \/ timing(w, x) # timing(w, y)
    BY <1>4 DEF SameEntry
  <1>7. IsTotalOrder(S, ByTiming(w, S))
    <2>1. \A x, y \in S : <<x, y>> \in ByTiming(w, S)
            <=> (timing(w, x) < timing(w, y) \/ (timing(w, x) = timing(w, y) /\ x[1] < y[1]))
      BY DEF ByTiming, EdgeTimingCompare
    <2> QED BY <1>5, <1>6, <2>1 DEF IsTotalOrder
  <1>8. IsTotalOrder(S, ByInstSeq(w, S))
    <2>1. \A x, y \in S : <<x, y>> \in ByInstSeq(w, S)
            <=> (x[1] < y[1] \/ (x[1] = y[1] /\ timing(w, x) < timing(w, y)))
      BY DEF ByInstSeq, EdgeInstSeqCompare
    <2> QED BY <1>5, <1>6, <2>1 DEF IsTotalOrder
  <1> QED BY <1>1, <1>3, <1>7, <1>8 DEF S

LEMMA SortByTiming ==
  ASSUME NEW w, NEW S, IsFiniteSet(S), IsTotalOrder(S, ByTiming(w, S))
  PROVE  TimingKeys(w, S) \in Seq(S)
PROOF
  <1> DEFINE n == Cardinality(S)
             s == [i \in 1 .. n |->
                     CHOOSE x \in S : Cardinality({y \in S : EdgeTimingCompare(w, y, x)}) = i - 1]
  <1>1. ASSUME NEW x \in S
        PROVE  {y \in S : EdgeTimingCompare(w, y, x)} = Below(S, ByTiming(w, S), x)
    BY DEF Below, ByTiming
  <1>2. ASSUME NEW i \in 1 .. n PROVE s[i] \in S
    <2>1. PICK x \in S : Cardinality(Below(S, ByTiming(w, S), x)) = i - 1
      BY PositionsInOrder
    <2> QED BY <1>1, <2>1
  <1>3. n \in Nat
    BY FS_CardinalityType
  <1>4. s \in [1 .. n -> S]
    BY <1>2
  <1>5. s \in Seq(S)
    <2> HIDE DEF s, n
    <2> QED BY <1>3, <1>4
  <1> QED BY <1>5 DEF TimingKeys, SortBy

LEMMA SortByInstSeq ==
  ASSUME NEW w, NEW S, IsFiniteSet(S), IsTotalOrder(S, ByInstSeq(w, S))
  PROVE  InstSeqKeys(w, S) \in Seq(S)
PROOF
  <1> DEFINE n == Cardinality(S)
             s == [i \in 1 .. n |->
                     CHOOSE x \in S : Cardinality({y \in S : EdgeInstSeqCompare(w, y, x)}) = i - 1]
  <1>1. ASSUME NEW x \in S
        PROVE  {y \in S : EdgeInstSeqCompare(w, y, x)} = Below(S, ByInstSeq(w, S), x)
    BY DEF Below, ByInstSeq
  <1>2. ASSUME NEW i \in 1 .. n PROVE s[i] \in S
    <2>1. PICK x \in S : Cardinality(Below(S, ByInstSeq(w, S), x)) = i - 1
      BY PositionsInOrder
    <2> QED BY <1>1, <2>1
  <1>3. n \in Nat
    BY FS_CardinalityType
  <1>4. s \in [1 .. n -> S]
    BY <1>2
  <1>5. s \in Seq(S)
    <2> HIDE DEF s, n
    <2> QED BY <1>3, <1>4
  <1> QED BY <1>5 DEF InstSeqKeys, SortBy

(***************************************************************************)
(* The vertices of an entry are vertices of the graph.                     *)
(***************************************************************************)
LEMMA EntryVerticesAre ==
  ASSUME NEW w, NEW h \in Seq(Edge), NEW key \in VerticesOf(h)
  PROVE  EntryVertices(w, h, key) \in Seq(VerticesOf(h))
PROOF
  <1> DEFINE V == VerticesOf(h)
             A == {x \in SkewedTails(h) : SameEntry(w, x, key)}
             tails == SortBy(A, VertexCompare)
             SkewedOf(x) == {k \in Outgoing(h, x) : h[k].v[1] # x[1]}
             hs == [k \in DOMAIN tails |-> Heads(h, SkewedOf(tails[k]))]
  <1>1. A \in SUBSET V /\ IsFiniteSet(V) /\ V \in SUBSET Vertex
    BY VerticesAre DEF SkewedTails, VerticesOf
  <1>2. IsFiniteSet(A) /\ A \in SUBSET Vertex
    BY <1>1, FS_Subset
  <1> DEFINE n == Cardinality(A)
  <1>3. n \in Nat /\ DOMAIN tails = 1 .. n
    <2> HIDE DEF A
    <2>1. IsSorting(tails, A, ByVertex(A)) /\ Cardinality(A) \in Nat
      BY <1>2, SortByVertex
    <2> QED BY <2>1 DEF IsSorting
  <1>4. ASSUME NEW x PROVE Heads(h, SkewedOf(x)) \in Seq(V)
    <2>1. SkewedOf(x) \in SUBSET DOMAIN h
      BY DEF Outgoing
    <2> HIDE DEF SkewedOf
    <2> QED BY <2>1, HeadsAre
  <1>5. EntryVertices(w, h, key) = <<key>> \o FlattenSeq(hs)
    BY DEF EntryVertices
  <1> HIDE DEF SkewedOf, tails, n
  <1>6. hs \in Seq(Seq(V))
    <2> HIDE DEF V
    <2>1. hs = [k \in 1 .. n |-> Heads(h, SkewedOf(tails[k]))]
      BY <1>3
    <2>2. hs \in [1 .. n -> Seq(V)]
      BY <1>4, <2>1
    <2> HIDE DEF hs
    <2> QED BY <1>3, <2>2
  <1> HIDE DEF hs
  <1>7. FlattenSeq(hs) \in Seq(V)
    BY <1>6, FlattenIs
  <1> QED BY <1>5, <1>7

-----------------------------------------------------------------------------
(***************************************************************************)
(* The searches for the entries a vertex is joined to return entries of    *)
(* the map that come after it.                                             *)
(***************************************************************************)
LEMMA TargetsAre ==
  ASSUME NEW w, NEW K, NEW keys \in Seq(K), NEW p \in 1 .. Len(keys), NEW x
  PROVE  /\ TimingTargets(w, keys, p, x) \in Seq({y \in K : After(w, x, y)})
         /\ InstSeqTargets(w, keys, p, x) \in Seq({y \in K : After(w, x, y)})
PROOF
  <1> DEFINE n == Len(keys)
             A == {y \in K : After(w, x, y)}
             I == {i \in p .. n : After(w, x, keys[i])}
             first == IF I # {} THEN Min(I) ELSE 0
             Joins(j) == keys[j][1] > x[1] /\ timing(w, keys[j]) = timing(w, keys[first])
             L == {m \in first .. n : \A j \in first + 1 .. m : Joins(j)}
             last == Max(L)
  <1>1. n \in Nat /\ DOMAIN keys = 1 .. n /\ p \in 1 .. n /\ \A k \in 1 .. n : keys[k] \in K
    OBVIOUS
  <1>2. /\ TimingTargets(w, keys, p, x) = IF first = 0 THEN <<>> ELSE SubSeq(keys, first, last)
        /\ InstSeqTargets(w, keys, p, x) = IF first = 0 THEN <<>> ELSE <<keys[first]>>
    BY DEF TimingTargets, InstSeqTargets, SelectInSubSeq
  <1>3. first = 0 \/ (first \in p .. n /\ After(w, x, keys[first]))
    <2>1. CASE I = {}
      BY <2>1
    <2>2. CASE I # {}
      <3>1. I \in SUBSET (1 .. n)
        BY <1>1
      <3>2. \E i \in I : \A j \in I : i <= j
        <4> HIDE DEF I, n
        <4> QED BY <1>1, <2>2, <3>1, SmallestExists
      <3>3. first \in I
        <4> HIDE DEF I
        <4> QED BY <2>2, <3>2 DEF Min
      <3> QED BY <3>3
    <2> QED BY <2>1, <2>2
  <1> HIDE DEF n, first
  <1>4. CASE first = 0
    <2>1. <<>> \in Seq(A)
      OBVIOUS
    <2> QED BY <1>2, <1>4, <2>1
  <1>5. CASE first # 0
    <2>1. first \in 1 .. n /\ keys[first] \in A /\ After(w, x, keys[first])
      BY <1>1, <1>3, <1>5
    <2>2. InstSeqTargets(w, keys, p, x) \in Seq(A)
      <3> HIDE DEF A
      <3> QED BY <1>2, <1>5, <2>1
    <2>3. L \in SUBSET (1 .. n) /\ first \in L
      BY <1>1, <2>1
    <2>4. last \in L
      <3>1. \E i \in L : \A j \in L : j <= i
        <4> HIDE DEF L
        <4> QED BY <1>1, <2>3, LargestExists
      <3>2. \E i \in L : \A j \in L : i >= j
        BY <1>1, <2>3, <3>1
      <3> HIDE DEF L
      <3> QED BY <3>2 DEF Max
    <2>5. last \in first .. n /\ \A j \in first + 1 .. last : Joins(j)
      BY <2>4
    <2> HIDE DEF L, last
    <2>6. ASSUME NEW j \in first .. last PROVE keys[j] \in A
      <3>1. j \in 1 .. n /\ (j = first \/ j \in first + 1 .. last)
        BY <1>1, <2>1, <2>5
      <3>2. CASE j = first
        BY <2>1, <3>2
      <3>3. CASE j \in first + 1 .. last
        <4>1. keys[j][1] > x[1] /\ timing(w, keys[j]) = timing(w, keys[first])
          BY <2>5, <3>3
        <4>2. After(w, x, keys[j])
          BY <2>1, <4>1 DEF After
        <4> QED BY <1>1, <3>1, <4>2
      <3> QED BY <3>1, <3>2, <3>3
    <2>7. SubSeq(keys, first, last) \in Seq(A)
      <3> DEFINE s == [i \in 1 .. last - first + 1 |-> keys[i + first - 1]]
      <3>1. SubSeq(keys, first, last) = s
        BY <1>1, <2>1, <2>5
      <3>2. last - first + 1 \in Nat
        BY <1>1, <2>1, <2>5
      <3>3. \A i \in 1 .. last - first + 1 : keys[i + first - 1] \in A
        <4>1. \A i \in 1 .. last - first + 1 : i + first - 1 \in first .. last
          BY <1>1, <2>1, <2>5
        <4> QED BY <2>6, <4>1
      <3>4. s \in [1 .. last - first + 1 -> A]
        BY <3>3
      <3> HIDE DEF s, A
      <3> QED BY <3>1, <3>2, <3>4
    <2> QED BY <1>2, <1>5, <2>2, <2>7
  <1> QED BY <1>4, <1>5

(***************************************************************************)
(* The pairs both passes of construct_induced_graph join, in a graph that  *)
(* the first may have extended already.                                    *)
(***************************************************************************)
LEMMA VirtualLinksAre ==
  ASSUME NEW w, NEW e, IsGraphOf(w, e), NEW h, Extension(w, e, h, SoundLinks(w, e)),
         NEW keys \in Seq(SkewedKeys(w, h)), NEW by
  PROVE  VirtualLinks(by, w, h, keys) \in Seq(InducedLinks(w, e))
PROOF
  <1> DEFINE V == VerticesOf(e)
             K == SkewedKeys(w, h)
             n == Len(keys)
             Links == InducedLinks(w, e)
             Targets(p, x) == IF by = "timing" THEN TimingTargets(w, keys, p, x)
                              ELSE InstSeqTargets(w, keys, p, x)
             From(p, x) == LET to == Targets(p, x) IN [k \in DOMAIN to |-> <<x, to[k]>>]
             xs(p) == EntryVertices(w, h, keys[p])
             fs(p) == [k \in DOMAIN xs(p) |-> From(p, xs(p)[k])]
             OfEntry(p) == FlattenSeq(fs(p))
             os == [p \in DOMAIN keys |-> OfEntry(p)]
  <1>1. /\ n \in Nat /\ DOMAIN keys = 1 .. n /\ \A p \in 1 .. n : keys[p] \in K
        /\ IsDag(h) /\ VerticesOf(h) = V /\ h \in Seq(Edge)
    BY ExtensionIsDag DEF IsDag
  <1>2. \A x \in V : x[1] \in Nat /\ timing(w, x) \in Nat
    BY VerticesAreEvents
  <1>3. ASSUME NEW y \in K PROVE y \in V /\ \E z \in V : z[1] > y[1]
    <2>1. PICK k \in DOMAIN h : h[k].u[1] # h[k].v[1] /\ y = h[k].u
      BY DEF SkewedKeys, SkewedTails
    <2>2. h[k].u \in V /\ h[k].v \in V
      BY <1>1, VerticesAre
    <2>3. IsForward(h[k])
      BY <1>1 DEF IsDag
    <2>4. h[k].v[1] > h[k].u[1]
      BY <1>2, <2>1, <2>2, <2>3 DEF IsForward
    <2> QED BY <2>1, <2>2, <2>4
  <1>4. VirtualLinks(by, w, h, keys) = FlattenSeq(os)
    BY DEF VirtualLinks
  <1>5. ASSUME NEW p \in 1 .. n, NEW x \in V PROVE From(p, x) \in Seq(Links)
    <2> DEFINE A == {y \in K : After(w, x, y)}
               to == Targets(p, x)
    <2>1. to \in Seq(A)
      <3>1. keys \in Seq(K) /\ p \in 1 .. Len(keys)
        OBVIOUS
      <3> HIDE DEF K
      <3>2. /\ TimingTargets(w, keys, p, x) \in Seq(A)
            /\ InstSeqTargets(w, keys, p, x) \in Seq(A)
        BY <3>1, TargetsAre
      <3> QED BY <3>2
    <2>2. ASSUME NEW y \in A PROVE <<x, y>> \in Links
      <3>1. y \in V /\ \E z \in V : z[1] > y[1]
        BY <1>3
      <3> QED BY <3>1 DEF InducedLinks
    <2> HIDE DEF A, to, Links
    <2>3. Len(to) \in Nat /\ DOMAIN to = 1 .. Len(to) /\ \A k \in 1 .. Len(to) : to[k] \in A
      BY <2>1
    <2> DEFINE s == [k \in 1 .. Len(to) |-> <<x, to[k]>>]
    <2>4. s \in [1 .. Len(to) -> Links]
      BY <2>2, <2>3
    <2>5. From(p, x) = s
      BY <2>3 DEF to
    <2> HIDE DEF s
    <2>6. s \in Seq(Links)
      BY <2>3, <2>4
    <2> QED BY <2>5, <2>6
  <1> HIDE DEF From, Links, K
  <1>6. ASSUME NEW p \in 1 .. n PROVE OfEntry(p) \in Seq(Links)
    <2>1. keys[p] \in VerticesOf(h)
      BY <1>1, <1>3
    <2>2. xs(p) \in Seq(V)
      <3> DEFINE key == keys[p]
      <3> HIDE DEF key, V
      <3>1. EntryVertices(w, h, key) \in Seq(V)
        BY <1>1, <2>1, EntryVerticesAre DEF key
      <3> QED BY <3>1 DEF key
    <2> DEFINE m == Len(xs(p))
    <2>3. m \in Nat /\ DOMAIN xs(p) = 1 .. m /\ \A k \in 1 .. m : xs(p)[k] \in V
      <3> HIDE DEF xs, V
      <3> QED BY <2>2
    <2> HIDE DEF xs, m
    <2>4. fs(p) = [k \in 1 .. m |-> From(p, xs(p)[k])]
      BY <2>3
    <2>5. fs(p) \in [1 .. m -> Seq(Links)]
      BY <1>5, <2>3, <2>4
    <2> HIDE DEF fs
    <2>6. fs(p) \in Seq(Seq(Links))
      BY <2>3, <2>5
    <2> QED BY <2>6, FlattenIs
  <1> HIDE DEF OfEntry, n
  <1>7. os \in [1 .. n -> Seq(Links)]
    BY <1>1, <1>6
  <1> HIDE DEF os
  <1>8. os \in Seq(Seq(Links))
    BY <1>1, <1>7
  <1>9. FlattenSeq(os) \in Seq(Links)
    BY <1>8, FlattenIs
  <1> QED BY <1>4, <1>9 DEF Links

(* a larger set of pairs *)
LEMMA ExtensionGrows ==
  ASSUME NEW w, NEW e, NEW h, NEW A, NEW B, A \subseteq B, Extension(w, e, h, A)
  PROVE  Extension(w, e, h, B)
PROOF
  BY DEF Extension

(***************************************************************************)
(* construct_induced_graph adds virtual edges to younger instructions, and *)
(* none to the youngest.                                                   *)
(***************************************************************************)
LEMMA InducedGraphIs ==
  ASSUME NEW w, NEW e, IsGraphOf(w, e)
  PROVE  Extension(w, e, construct_induced_graph(w, e), InducedLinks(w, e))
PROOF
  <1> DEFINE Links == InducedLinks(w, e)
             h == add_virtual_edge_via_timing(w, e)
             K1 == TimingKeys(w, SkewedKeys(w, e))
             K2 == InstSeqKeys(w, SkewedKeys(w, h))
  <1>1. /\ AreLinks(w, Links) /\ Links \subseteq SoundLinks(w, e) /\ e \in Seq(Edge)
        /\ \A x \in VerticesOf(e) : timing(w, x) \in Nat
    BY LinksAre, VerticesAreEvents
  <1>2. Extension(w, e, e, Links) /\ Extension(w, e, e, SoundLinks(w, e))
    BY <1>1 DEF Extension
  <1>3. K1 \in Seq(SkewedKeys(w, e))
    <2> DEFINE S == SkewedKeys(w, e)
    <2>1. IsFiniteSet(S) /\ IsTotalOrder(S, ByTiming(w, S))
      BY <1>1, KeysAreOrdered
    <2> HIDE DEF S
    <2>2. TimingKeys(w, S) \in Seq(S)
      BY <2>1, SortByTiming
    <2> QED BY <2>2 DEF S
  <1>4. h = Connect(w, e, VirtualLinks("timing", w, e, K1))
    BY DEF add_virtual_edge_via_timing, TimingKeys
  <1>5. construct_induced_graph(w, e) = Connect(w, h, VirtualLinks("inst_seq", w, h, K2))
    BY DEF construct_induced_graph, add_virtual_edge_via_inst_seq, InstSeqKeys
  <1> HIDE DEF K1, h, Links
  <1>6. VirtualLinks("timing", w, e, K1) \in Seq(Links)
    BY <1>2, <1>3, VirtualLinksAre DEF Links
  <1>7. Extension(w, e, h, Links)
    <2> DEFINE ls == VirtualLinks("timing", w, e, K1)
    <2> HIDE DEF ls
    <2>1. ls \in Seq(Links)
      BY <1>6 DEF ls
    <2>2. Extension(w, e, Connect(w, e, ls), Links)
      BY <1>1, <1>2, <2>1, ConnectIs
    <2> QED BY <1>4, <2>2 DEF ls
  <1>8. Extension(w, e, h, SoundLinks(w, e))
    BY <1>1, <1>7, ExtensionGrows
  <1>9. K2 \in Seq(SkewedKeys(w, h))
    <2> DEFINE S == SkewedKeys(w, h)
    <2>1. h \in Seq(Edge) /\ VerticesOf(h) = VerticesOf(e)
      BY <1>8, ExtensionIsDag DEF IsDag
    <2>2. IsFiniteSet(S) /\ IsTotalOrder(S, ByInstSeq(w, S))
      BY <1>1, <2>1, KeysAreOrdered
    <2> HIDE DEF S
    <2>3. InstSeqKeys(w, S) \in Seq(S)
      BY <2>2, SortByInstSeq
    <2> QED BY <2>3 DEF S
  <1> HIDE DEF K2
  <1> DEFINE ls == VirtualLinks("inst_seq", w, h, K2)
  <1>10. ls \in Seq(Links)
    BY <1>8, <1>9, VirtualLinksAre DEF Links
  <1> HIDE DEF ls
  <1>11. Extension(w, e, Connect(w, h, ls), Links)
    BY <1>1, <1>7, <1>10, ConnectIs
  <1> QED BY <1>5, <1>11 DEF ls, Links

-----------------------------------------------------------------------------
(***************************************************************************)
(* The pipeline of an executed instruction: its stages are different and   *)
(* in the order of their ranks, its events in the order of time, and the   *)
(* commit is at least two steps after a vertex a skewed edge can enter.    *)
(***************************************************************************)
LEMMA StepTakesTime ==
  ASSUME NEW i \in Instruction, Executed(i), NEW a, NEW b, IsStep(i, a, b)
  PROVE  Timing(i, a) <= Timing(i, b)
PROOF
  <1>1. SoundStep(i, a, b)
    BY StepIsSound
  <1>2. Timing(i, a) \in Nat /\ Timing(i, b) \in Nat
    BY <1>1, TimeOfStage DEF SoundStep
  <1>3. CASE a = "P" /\ b = "C" /\ is_load(i)
    BY <1>3 DEF Timing, Executed
  <1>4. CASE HorizontalWeight(i, a, b) \in Nat /\ HorizontalWeight(i, a, b) = Timing(i, b) - Timing(i, a)
    BY <1>2, <1>4
  <1> QED BY <1>1, <1>3, <1>4 DEF SoundStep

(* what never falls from one place to the next never falls *)
LEMMA NeverFalls ==
  ASSUME NEW n \in Nat, NEW f \in [1 .. n -> Int], \A k \in 1 .. n - 1 : f[k] <= f[k + 1]
  PROVE  \A i, j \in 1 .. n : i <= j => f[i] <= f[j]
PROOF
  <1> DEFINE S == {m \in 0 .. n : \A i, j \in 1 .. m : i <= j => f[i] <= f[j]}
  <1>1. 0 \in S
    OBVIOUS
  <1>2. ASSUME NEW m \in 1 .. n, m - 1 \in S PROVE m \in S
    <2>1. ASSUME NEW i \in 1 .. m, NEW j \in 1 .. m, i <= j PROVE f[i] <= f[j]
      <3>1. \A k \in 1 .. n : f[k] \in Int
        OBVIOUS
      <3>2. CASE j < m
        <4>1. i \in 1 .. m - 1 /\ j \in 1 .. m - 1
          BY <2>1, <3>2
        <4> QED BY <1>2, <2>1, <4>1
      <3>3. CASE i = m
        BY <2>1, <3>1, <3>3
      <3>4. CASE j = m /\ i < m
        <4>1. i \in 1 .. m - 1 /\ m - 1 \in 1 .. m - 1 /\ m - 1 \in 1 .. n - 1 /\ i <= m - 1
          BY <2>1, <3>4
        <4>2. f[i] <= f[m - 1] /\ f[m - 1] <= f[(m - 1) + 1]
          BY <1>2, <4>1
        <4>3. (m - 1) + 1 = m /\ i \in 1 .. n /\ m - 1 \in 1 .. n
          BY <4>1
        <4> QED BY <3>1, <3>4, <4>2, <4>3
      <3> QED BY <2>1, <3>2, <3>3, <3>4
    <2> QED BY <2>1
  <1>3. n \in S
    <2> HIDE DEF S
    <2>1. \A m \in 0 .. n : m \in S
      BY <1>1, <1>2, Connects!IntervalInduction
    <2> QED BY <2>1
  <1> QED BY <1>3

LEMMA PipelineOrder ==
  ASSUME NEW i \in Instruction, Executed(i)
  PROVE  LET p == Pipeline(i) IN
         /\ \A j, k \in 1 .. Len(p) : j < k => Rank[p[j]] < Rank[p[k]]
         /\ \A j, k \in 1 .. Len(p) : p[j] = p[k] => j = k
         /\ \A j, k \in 1 .. Len(p) : j <= k => Timing(i, p[j]) <= Timing(i, p[k])
         /\ \A k \in 1 .. Len(p) : p[k] \in HeadStages => k + 2 <= Len(p)
PROOF
  <1> DEFINE p == Pipeline(i)
             n == Len(p)
             f == [k \in 1 .. n |-> Rank[p[k]]]
             t == [k \in 1 .. n |-> Timing(i, p[k])]
  <1>1. /\ n \in Nat /\ n >= 7 /\ p[n] = "C" /\ \A k \in 1 .. n : p[k] \in Stages
        /\ \A k \in 1 .. n - 1 : IsStep(i, p[k], p[k + 1])
    <2>1. /\ p \in Seq(Stages) /\ Len(p) \in 7 .. 10 /\ p[Len(p)] = "C"
          /\ \A k \in 1 .. Len(p) - 1 : IsStep(i, p[k], p[k + 1])
      BY PipelineIs
    <2> HIDE DEF p
    <2>2. n \in 7 .. 10 /\ \A k \in 1 .. n : p[k] \in Stages
      BY <2>1
    <2> HIDE DEF n
    <2>3. n \in Nat /\ n >= 7
      BY <2>2
    <2> QED BY <2>1, <2>2, <2>3 DEF n
  <1> HIDE DEF p, n
  <1>2. /\ f \in [1 .. n -> Int] /\ t \in [1 .. n -> Int]
        /\ \A k \in 1 .. n : f[k] = Rank[p[k]] /\ t[k] = Timing(i, p[k])
    BY <1>1, RanksDiffer, TimeOfStage
  <1> HIDE DEF f, t
  <1>3. \A k \in 1 .. n - 1 : f[k] < f[k + 1] /\ t[k] <= t[k + 1]
    <2>1. \A k \in 1 .. n - 1 : k \in 1 .. n /\ k + 1 \in 1 .. n
      BY <1>1
    <2>2. \A k \in 1 .. n - 1 : SoundStep(i, p[k], p[k + 1]) /\ Timing(i, p[k]) <= Timing(i, p[k + 1])
      BY <1>1, StepIsSound, StepTakesTime
    <2> QED BY <1>2, <2>1, <2>2 DEF SoundStep
  <1>4. \A j, k \in 1 .. n : j < k => f[j] < f[k]
    BY <1>1, <1>2, <1>3, GrowsEverywhere
  <1>5. \A j, k \in 1 .. n : j <= k => t[j] <= t[k]
    BY <1>1, <1>2, <1>3, NeverFalls
  <1>6. ASSUME NEW j \in 1 .. n, NEW k \in 1 .. n, p[j] = p[k] PROVE j = k
    <2>1. f[j] = f[k] /\ f[j] \in Int /\ f[k] \in Int
      BY <1>2, <1>6
    <2> QED BY <1>1, <1>4, <2>1
  <1>7. ASSUME NEW k \in 1 .. n, p[k] \in HeadStages PROVE k + 2 <= n
    <2>1. k # n
      BY <1>1, <1>7 DEF HeadStages
    <2>2. k # n - 1
      <3> SUFFICES ASSUME k = n - 1 PROVE FALSE
        OBVIOUS
      <3>1. IsStep(i, p[k], "C")
        <4>1. k \in 1 .. n - 1 /\ k + 1 = n
          BY <1>1
        <4> QED BY <1>1, <4>1
      <3>2. BackEnd(i)[1] \in {"MP", "M", "P"}
        BY BackEndIs
      <3> QED BY <1>7, <3>1, <3>2 DEF IsStep, HeadStages
    <2> QED BY <1>1, <2>1, <2>2
  <1> QED BY <1>2, <1>4, <1>5, <1>6, <1>7 DEF p, n

(* what the k-th edge of an extension g of the graph may be *)
IsEdgeOf(w, e, g, links, k) ==
  /\ g[k].u \in VerticesOf(e) /\ g[k].v \in VerticesOf(e)
  /\ timing(w, g[k].u) <= timing(w, g[k].v)
  /\ \/ /\ k \in DOMAIN e /\ g[k] = e[k] /\ g[k] \in SoundEdges(w)
        /\ IsHorizontal(w, g[k]) \/ IsSkewed(g[k])
     \/ /\ k \in Len(e) + 1 .. Len(g) /\ <<g[k].u, g[k].v>> \in links
        /\ g[k].cost = 0 /\ g[k].weight = timing(w, g[k].v) - timing(w, g[k].u)
        /\ g[k].bottleneck = "Virtual"
        /\ \A j \in DOMAIN g : j # k => ~(g[j].u = g[k].u /\ g[j].v = g[k].v)

(***************************************************************************)
(* An edge of the graph is horizontal, skewed or virtual, and no edge      *)
(* leads back in time.                                                     *)
(***************************************************************************)
LEMMA EdgesAre ==
  ASSUME NEW w, NEW e, IsGraphOf(w, e), NEW links \in SUBSET SoundLinks(w, e),
         NEW g, Extension(w, e, g, links), NEW k \in DOMAIN g
  PROVE  IsEdgeOf(w, e, g, links, k)
PROOF
  <1> DEFINE x == g[k].u
             y == g[k].v
  <1>1. /\ g \in Seq(Edge) /\ e \in Seq(SoundEdges(w)) /\ Len(e) \in Nat /\ Len(g) \in Nat
        /\ DOMAIN e = 1 .. Len(e) /\ DOMAIN g = 1 .. Len(g) /\ Len(e) <= Len(g)
    BY DEF Extension, IsGraphOf
  <1>2. \A z \in VerticesOf(e) : timing(w, z) \in Nat /\ z[1] \in DOMAIN w
    BY VerticesAreEvents
  <1>3. CASE k \in DOMAIN e
    <2>1. g[k] = e[k] /\ e[k] \in SoundEdges(w)
      BY <1>1, <1>3 DEF Extension
    <2>2. x \in VerticesOf(e) /\ y \in VerticesOf(e)
      BY <1>3, <2>1 DEF VerticesOf
    <2>3. /\ IsHorizontal(w, g[k]) \/ IsSkewed(g[k])
          /\ MeasuresTime(w, g[k]) /\ IsNonNegative(g[k])
      BY <2>1 DEF SoundEdges
    <2>4. CASE IsHorizontal(w, g[k])
      <3> DEFINE i == w[x[1]]
                 p == Pipeline(i)
      <3>1. PICK j \in 1 .. Len(p) - 1 : x[2] = p[j] /\ y[2] = p[j + 1]
        BY <2>4 DEF IsHorizontal
      <3>2. x[1] = y[1]
        BY <2>4 DEF IsHorizontal
      <3>3. i \in Instruction /\ Executed(i)
        BY <1>2, <2>2 DEF IsGraphOf, IsTrace
      <3> HIDE DEF i
      <3>4. Len(p) \in Nat
        BY <3>3, PipelineIs
      <3>5. \A m, n \in 1 .. Len(p) : m <= n => Timing(i, p[m]) <= Timing(i, p[n])
        BY <3>3, PipelineOrder
      <3>6. j \in 1 .. Len(p) /\ j + 1 \in 1 .. Len(p) /\ j <= j + 1
        BY <3>4
      <3>7. Timing(i, p[j]) <= Timing(i, p[j + 1])
        BY <3>5, <3>6
      <3>8. timing(w, x) <= timing(w, y)
        BY <3>1, <3>2, <3>7 DEF timing, i
      <3> QED BY <1>3, <2>1, <2>2, <2>3, <3>8 DEF IsEdgeOf
    <2>5. CASE IsSkewed(g[k])
      <3>1. ~IsLoadCommit(w, g[k])
        BY <2>5 DEF IsSkewed, IsLoadCommit, HeadStages
      <3>2. g[k].weight = timing(w, y) - timing(w, x) /\ g[k].weight >= 0
        BY <2>3, <3>1 DEF MeasuresTime, IsNonNegative
      <3>3. timing(w, x) <= timing(w, y)
        BY <1>2, <2>2, <3>2
      <3> QED BY <1>3, <2>1, <2>2, <2>3, <3>3 DEF IsEdgeOf
    <2> QED BY <2>3, <2>4, <2>5
  <1>4. CASE k \in Len(e) + 1 .. Len(g)
    <2>1. <<x, y>> \in links /\ g[k] = VirtualEdge(w, x, y)
      BY <1>4 DEF Extension
    <2>2. <<x, y>> \in SoundLinks(w, e)
      BY <2>1
    <2> HIDE DEF x, y
    <2>3. x \in VerticesOf(e) /\ y \in VerticesOf(e) /\ timing(w, x) <= timing(w, y)
      BY <2>2 DEF SoundLinks
    <2>4. g[k].cost = 0 /\ g[k].weight = timing(w, y) - timing(w, x) /\ g[k].bottleneck = "Virtual"
      BY <2>1 DEF VirtualEdge
    <2>5. \A j \in DOMAIN g : j # k => ~(g[j].u = g[k].u /\ g[j].v = g[k].v)
      BY <1>1, <1>4 DEF Extension
    <2> QED BY <1>4, <2>1, <2>3, <2>4, <2>5 DEF x, y, IsEdgeOf
  <1> QED BY <1>1, <1>3, <1>4

(* every stage of every instruction is a vertex of the graph *)
LEMMA StagesAreVertices ==
  ASSUME NEW w, NEW e, IsGraphOf(w, e), NEW n \in DOMAIN w,
         NEW k \in 1 .. Len(Pipeline(w[n]))
  PROVE  <<n, Pipeline(w[n])[k]>> \in VerticesOf(e)
PROOF
  <1> DEFINE p == Pipeline(w[n])
             m == Len(p)
  <1>1. w[n] \in Instruction
    BY DEF IsGraphOf, IsTrace
  <1>2. m \in 7 .. 10
    BY <1>1, PipelineIs
  <1>3. \A j \in 1 .. m - 1 : if_exist_edge(e, <<n, p[j]>>, <<n, p[j + 1]>>)
    BY DEF IsGraphOf, Chained
  <1> HIDE DEF p, m
  <1>4. \A j \in 1 .. m - 1 : <<n, p[j]>> \in VerticesOf(e) /\ <<n, p[j + 1]>> \in VerticesOf(e)
    BY <1>3 DEF if_exist_edge, VerticesOf
  <1>5. k \in 1 .. m
    BY DEF m, p
  <1>6. CASE k < m
    <2>1. k \in 1 .. m - 1
      BY <1>2, <1>5, <1>6
    <2> QED BY <1>4, <2>1 DEF p
  <1>7. CASE k = m
    <2>1. m - 1 \in 1 .. m - 1 /\ (m - 1) + 1 = k
      BY <1>2, <1>7
    <2> QED BY <1>4, <2>1 DEF p
  <1> QED BY <1>2, <1>5, <1>6, <1>7

(***************************************************************************)
(* The core is empty only when no edge of the graph costs anything.        *)
(***************************************************************************)
LEMMA EmptyCoreIsFree ==
  ASSUME NEW w, NEW e, IsGraphOf(w, e), NEW g, Extension(w, e, g, SoundLinks(w, e)),
         longest_path_core(g) = <<>>
  PROVE  \A k \in DOMAIN e : e[k].cost = 0
PROOF
  <1> SUFFICES ASSUME NEW k \in DOMAIN e PROVE e[k].cost = 0
    OBVIOUS
  <1> DEFINE x == g[k].u
             y == g[k].v
             C(z) == Distances(g)[z].cost
  <1>1. IsDag(g) /\ VerticesOf(g) = VerticesOf(e)
    BY ExtensionIsDag
  <1>2. k \in DOMAIN g /\ g[k] = e[k] /\ e[k] \in SoundEdges(w) /\ DOMAIN g = 1 .. Len(g)
    BY DEF Extension, IsGraphOf
  <1>3. g # <<>>
    BY <1>2
  <1>4. C(LastOf(g)) = 0
    <2>1. longest_path_core(g) = <<>> => ~(Len(longest_path_core(g)) > 1)
      OBVIOUS
    <2> QED BY <1>1, <1>3, <2>1, CoreIs
  <1>5. \A z \in VerticesOf(g) : C(z) \in Nat /\ Settled(g, Distances(g), z)
    BY <1>1, DistancesAre DEF Table
  <1>6. \A z \in VerticesOf(g) : C(z) = 0
    <2>1. \A z \in VerticesOf(g) : C(z) < C(LastOf(g)) \/ C(z) = C(LastOf(g))
      BY <1>1, <1>3, LastIs
    <2> HIDE DEF C
    <2> QED BY <1>4, <1>5, <2>1
  <1>7. x \in VerticesOf(g) /\ y \in VerticesOf(g) /\ if_exist_edge(g, x, y)
    BY <1>2 DEF VerticesOf, if_exist_edge
  <1>8. StepCost(g, x, y) = 0
    <2>1. k \in Ingoing(g, y)
      BY <1>2 DEF Ingoing
    <2>2. C(x) + StepCost(g, x, y) <= C(y)
      BY <1>5, <1>7, <2>1 DEF Settled
    <2>3. StepCost(g, x, y) \in Nat
      BY <1>1, <1>7, StepCostIs
    <2> HIDE DEF C
    <2> QED BY <1>6, <1>7, <2>2, <2>3
  <1>9. PICK j \in DOMAIN g : get_outgoing_edge(g, x, y) = g[j] /\ g[j].u = x /\ g[j].v = y
    <2> HIDE DEF x, y
    <2>1. g \in Seq(Edge)
      BY <1>1 DEF IsDag
    <2> QED BY <1>7, <2>1, OutgoingEdgeIs
  <1>10. g[j].cost = 0
    BY <1>8, <1>9 DEF StepCost
  <1>11. IsHorizontal(w, g[k]) \/ IsSkewed(g[k])
    BY <1>2 DEF SoundEdges
  <1>12. CASE IsHorizontal(w, g[k])
    BY <1>2, <1>12 DEF IsHorizontal
  <1>13. CASE IsSkewed(g[k])
    <2>1. CASE j = k
      BY <1>2, <1>10, <2>1
    <2>2. CASE j # k
      <3>1. g[j] \in SoundEdges(w) /\ (IsHorizontal(w, g[j]) \/ IsSkewed(g[j]))
        <4>1. g[k].u = g[j].u /\ g[k].v = g[j].v
          BY <1>9
        <4> DEFINE L == SoundLinks(w, e)
        <4>2. L \in SUBSET SoundLinks(w, e) /\ Extension(w, e, g, L)
          OBVIOUS
        <4> HIDE DEF L
        <4>3. IsEdgeOf(w, e, g, L, j)
          BY <4>2, EdgesAre
        <4> QED BY <1>2, <2>2, <4>1, <4>3 DEF IsEdgeOf
      <3>2. ~IsHorizontal(w, g[j])
        <4>1. x[1] \in Nat /\ y[1] \in Nat
          BY <1>1, <1>7, VerticesAreEvents
        <4>2. x[1] < y[1]
          BY <1>13 DEF IsSkewed
        <4> QED BY <1>9, <4>1, <4>2 DEF IsHorizontal
      <3>3. ~IsLoadCommit(w, g[j]) /\ ~IsLoadCommit(w, g[k])
        BY <1>13, <3>1, <3>2 DEF IsSkewed, IsLoadCommit, HeadStages
      <3>4. g[j].weight = timing(w, y) - timing(w, x) /\ g[k].weight = timing(w, y) - timing(w, x)
        BY <1>2, <1>9, <3>1, <3>3 DEF SoundEdges, MeasuresTime
      <3>5. g[j].cost = g[j].weight /\ g[k].cost = g[k].weight
        BY <1>13, <3>1, <3>2 DEF IsSkewed
      <3> QED BY <1>2, <1>10, <3>4, <3>5
    <2> QED BY <2>1, <2>2
  <1> QED BY <1>11, <1>12, <1>13

(***************************************************************************)
(* The core starts with a costly edge, and the first fetch can be joined   *)
(* to its first vertex.                                                    *)
(***************************************************************************)
LEMMA CoreStarts ==
  ASSUME NEW w, NEW e, IsGraphOf(w, e), NEW g, Extension(w, e, g, SoundLinks(w, e)),
         g # <<>>, longest_path_core(g) # <<>>
  PROVE  LET first == longest_path_core(g)[1]
         IN  /\ first \in VerticesOf(e) /\ <<Source, first>> \in SoundLinks(w, e)
             /\ \E y \in VerticesOf(e) : y[1] > first[1]
             /\ Source # first /\ Source \in VerticesOf(e)
PROOF
  <1> DEFINE core == longest_path_core(g)
             x == core[1]
             y == core[2]
             C(z) == Distances(g)[z].cost
             L == SoundLinks(w, e)
  <1>1. IsDag(g) /\ VerticesOf(g) = VerticesOf(e) /\ g \in Seq(Edge)
    BY ExtensionIsDag DEF IsDag
  <1>2. IsTrail(g, core) /\ Len(core) > 1 /\ C(x) = 0
    BY <1>1, CoreIs
  <1>3. core \in Seq(VerticesOf(g)) /\ Len(core) \in Nat /\ 1 \in 1 .. Len(core) - 1
    <2> HIDE DEF core
    <2>1. core \in Seq(VerticesOf(g))
      BY <1>2 DEF IsTrail, IsWalk
    <2>2. Len(core) \in Nat
      BY <2>1
    <2> QED BY <1>2, <2>1, <2>2
  <1>4. x \in VerticesOf(e) /\ y \in VerticesOf(e) /\ if_exist_edge(g, x, y)
    <2> HIDE DEF core
    <2>1. 1 + 1 = 2 /\ 1 \in 1 .. Len(core) /\ 2 \in 1 .. Len(core)
      BY <1>3
    <2> QED BY <1>1, <1>2, <1>3, <2>1 DEF IsTrail, IsWalk
  <1>5. C(y) = C(x) + StepCost(g, x, y) /\ C(y) > 0
    <2> HIDE DEF core
    <2>1. 1 + 1 = 2
      OBVIOUS
    <2> QED BY <1>2, <1>3, <2>1 DEF IsTrail
  <1>6. StepCost(g, x, y) \in Nat
    <2> HIDE DEF x, y
    <2> QED BY <1>1, <1>4, StepCostIs
  <1>7. PICK j \in DOMAIN g : get_outgoing_edge(g, x, y) = g[j] /\ g[j].u = x /\ g[j].v = y
    <2> HIDE DEF x, y
    <2> QED BY <1>1, <1>4, OutgoingEdgeIs
  <1> HIDE DEF C, core, x, y
  <1>8. StepCost(g, x, y) # 0
    BY <1>2, <1>5, <1>6
  <1>9. g[j].cost # 0
    BY <1>7, <1>8 DEF StepCost
  <1>10. IsEdgeOf(w, e, g, L, j)
    <2>1. L \in SUBSET SoundLinks(w, e) /\ Extension(w, e, g, L)
      OBVIOUS
    <2> HIDE DEF L
    <2> QED BY <2>1, EdgesAre
  <1>11. IsSkewed(g[j])
    BY <1>9, <1>10 DEF IsEdgeOf, IsHorizontal
  <1>12. x[2] \in TailStages /\ x[1] < y[1]
    BY <1>7, <1>11 DEF IsSkewed
  <1>13. /\ x = <<x[1], x[2]>> /\ x[1] \in DOMAIN w /\ x[1] \in Nat /\ y[1] \in Nat
         /\ x[2] \in PipelineStages(w[x[1]]) /\ x[2] \in Stages /\ timing(w, x) \in Nat
    BY <1>4, VerticesAreEvents
  <1>14. /\ w \in Seq(Instruction) /\ Len(w) \in Nat /\ DOMAIN w = 1 .. Len(w)
         /\ \A n \in DOMAIN w : w[n] \in Instruction /\ Executed(w[n])
    BY DEF IsGraphOf, IsTrace
  <1>15. 1 \in DOMAIN w /\ x[1] >= 1
    BY <1>13, <1>14
  <1>16. Source \in VerticesOf(e)
    <2> DEFINE p == Pipeline(w[1])
    <2>1. Len(p) \in 7 .. 10 /\ p[1] = "F1"
      BY <1>14, <1>15, PipelineIs
    <2>2. 1 \in 1 .. Len(p)
      <3> HIDE DEF p
      <3> QED BY <2>1
    <2>3. <<1, p[1]>> \in VerticesOf(e)
      BY <1>15, <2>2, StagesAreVertices
    <2> HIDE DEF p
    <2> QED BY <2>1, <2>3 DEF Source
  <1>17. timing(w, Source) <= timing(w, x)
    <2> DEFINE i == w[x[1]]
               p == Pipeline(i)
    <2>1. i \in Instruction /\ Executed(i)
      BY <1>13, <1>14
    <2>2. PICK k \in DOMAIN p : p[k] = x[2]
      BY <1>13 DEF PipelineStages
    <2>3. timing(w, x) = Timing(i, x[2]) /\ timing(w, Source) = w[1].fetch_cache_line
      BY DEF timing, Timing, Source
    <2>4. w[1].fetch_cache_line <= i.fetch_cache_line
      <3>1. CASE x[1] = 1
        <4>1. w[1] \in Instruction
          BY <1>14, <1>15
        <4>2. w[1].fetch_cache_line \in Nat
          BY <4>1 DEF Instruction
        <4> QED BY <3>1, <4>2
      <3>2. CASE x[1] > 1
        BY <1>13, <1>15, <3>2 DEF IsGraphOf, IsTrace
      <3> QED BY <1>13, <1>15, <3>1, <3>2
    <2> HIDE DEF i
    <2>5. p \in Seq(Stages) /\ Len(p) \in 7 .. 10 /\ p[1] = "F1"
      BY <2>1, PipelineIs
    <2>6. \A a, b \in 1 .. Len(p) : a <= b => Timing(i, p[a]) <= Timing(i, p[b])
      BY <2>1, PipelineOrder
    <2>7. Timing(i, "F1") <= Timing(i, x[2])
      <3> HIDE DEF p
      <3>1. 1 \in 1 .. Len(p) /\ k \in 1 .. Len(p) /\ 1 <= k
        BY <2>5
      <3> QED BY <2>2, <2>5, <2>6, <3>1
    <2>8. i.fetch_cache_line <= Timing(i, x[2])
      BY <2>7 DEF Timing
    <2>9. w[1].fetch_cache_line \in Nat /\ i.fetch_cache_line \in Nat /\ Timing(i, x[2]) \in Nat
      <3>1. Timing(i, x[2]) \in Nat
        BY <2>1, <1>13, TimeOfStage
      <3> QED BY <2>1, <1>14, <1>15, <3>1 DEF Instruction
    <2> QED BY <2>3, <2>4, <2>8, <2>9
  <1>18. IsForward([u |-> Source, v |-> x]) /\ Source # x
    <2>1. x[2] # "F1" /\ Rank["F1"] < Rank[x[2]]
      BY <1>12 DEF TailStages, Rank
    <2>2. Source[1] = 1 /\ Source[2] = "F1"
      BY DEF Source
    <2> QED BY <1>13, <1>15, <2>1, <2>2 DEF IsForward
  <1>19. <<Source, x>> \in SoundLinks(w, e)
    <2>1. <<Source, x>> \in VerticesOf(e) \X VerticesOf(e)
      BY <1>4, <1>16
    <2> QED BY <1>17, <1>18, <2>1 DEF SoundLinks
  <1> QED BY <1>4, <1>12, <1>13, <1>16, <1>18, <1>19 DEF x, core

(***************************************************************************)
(* A core that ends in the youngest instruction ends with a skewed edge:   *)
(* no virtual edge of the induced graph enters that instruction, and a     *)
(* horizontal edge would end it one vertex earlier.                        *)
(***************************************************************************)
LEMMA CoreEnds ==
  ASSUME NEW w, NEW e, IsGraphOf(w, e), NEW g, Extension(w, e, g, InducedLinks(w, e)),
         g # <<>>, Distances(g)[LastOf(g)].cost # 0, LastOf(g)[1] = Len(w)
  PROVE  LastOf(g)[2] \in HeadStages
PROOF
  <1> DEFINE x == LastOf(g)
             C(z) == Distances(g)[z].cost
             L == InducedLinks(w, e)
  <1>1. L \in SUBSET SoundLinks(w, e)
    BY LinksAre
  <1>2. IsDag(g) /\ VerticesOf(g) = VerticesOf(e) /\ g \in Seq(Edge)
    BY <1>1, ExtensionGrows, ExtensionIsDag DEF IsDag
  <1>3. x \in VerticesOf(e) /\ \A y \in VerticesOf(e) : C(y) < C(x) \/ (C(y) = C(x) /\ ~VertexCompare(y, x))
    BY <1>2, LastIs
  <1>4. \A y \in VerticesOf(e) : C(y) \in Nat /\ Settled(g, Distances(g), y)
    BY <1>2, DistancesAre DEF Table
  <1>5. \A y \in VerticesOf(e) : y[1] \in 1 .. Len(w) /\ y[1] \in Nat
    BY VerticesAreEvents DEF IsGraphOf, IsTrace
  <1>6. PICK k \in Ingoing(g, x) : C(x) = C(g[k].u) + StepCost(g, g[k].u, x)
    BY <1>3, <1>4 DEF Settled
  <1>7. k \in DOMAIN g /\ g[k].v = x
    BY <1>6 DEF Ingoing
  <1>8. \A j \in DOMAIN g : IsEdgeOf(w, e, g, L, j)
    <2> HIDE DEF L
    <2> QED BY <1>1, EdgesAre DEF L
  <1> DEFINE z == g[k].u
  <1>9. z \in VerticesOf(e)
    BY <1>7, <1>8 DEF IsEdgeOf
  <1>10. ASSUME NEW j \in DOMAIN g, g[j].v = x PROVE ~(<<g[j].u, g[j].v>> \in L)
    <2> SUFFICES ASSUME <<g[j].u, g[j].v>> \in L PROVE FALSE
      OBVIOUS
    <2>1. \E y \in VerticesOf(e) : y[1] > x[1]
      <3> DEFINE l == <<g[j].u, x>>
      <3>1. l \in L /\ l[2] = x
        BY <1>10
      <3> HIDE DEF l
      <3> QED BY <3>1 DEF InducedLinks
    <2> QED BY <1>5, <2>1
  <1> HIDE DEF L
  <1>11. IsHorizontal(w, g[k]) \/ IsSkewed(g[k])
    BY <1>7, <1>8, <1>10 DEF IsEdgeOf
  <1>12. ~IsHorizontal(w, g[k])
    <2> SUFFICES ASSUME IsHorizontal(w, g[k]) PROVE FALSE
      OBVIOUS
    <2>1. z[1] = x[1]
      BY <1>7 DEF IsHorizontal
    <2>2. if_exist_edge(g, z, x)
      BY <1>7 DEF if_exist_edge
    <2>3. PICK j \in DOMAIN g : get_outgoing_edge(g, z, x) = g[j] /\ g[j].u = z /\ g[j].v = x
      <3> HIDE DEF z, x
      <3> QED BY <1>2, <2>2, OutgoingEdgeIs
    <2>4. IsHorizontal(w, g[j]) \/ IsSkewed(g[j])
      BY <2>3, <1>8, <1>10 DEF IsEdgeOf
    <2>5. g[j].cost = 0
      <3>1. ~IsSkewed(g[j])
        BY <1>3, <1>5, <2>1, <2>3 DEF IsSkewed
      <3> QED BY <2>4, <3>1 DEF IsHorizontal
    <2>6. C(x) = C(z)
      <3>1. StepCost(g, z, x) = 0
        BY <2>3, <2>5 DEF StepCost
      <3> QED BY <1>4, <1>6, <1>9, <3>1
    <2>7. IsForward(g[k])
      BY <1>2, <1>7 DEF IsDag
    <2>8. Rank[z[2]] < Rank[x[2]]
      BY <1>3, <1>5, <1>7, <1>9, <2>1, <2>7 DEF IsForward
    <2>9. VertexCompare(z, x)
      BY <2>8 DEF VertexCompare
    <2>10. C(z) < C(x)
      BY <1>3, <1>9, <2>9
    <2> HIDE DEF C, x, z
    <2> QED BY <1>3, <1>4, <2>6, <2>10
  <1> QED BY <1>7, <1>11, <1>12 DEF IsSkewed

-----------------------------------------------------------------------------
(***************************************************************************)
(* if_exist_path along a chain: one vertex in each generation.             *)
(***************************************************************************)
LEMMA FlattenOne ==
  ASSUME NEW A, NEW t \in Seq(A)
  PROVE  FlattenSeq(<<t>>) = t
PROOF
  <1> DEFINE s == <<t>>
  <1>1. Len(s) = 1 /\ s[1] = t
    OBVIOUS
  <1>2. ASSUME NEW b, Len(b) = 1 PROVE FlattenSeq(b) = Flats!Fix(b, 1 .. 1)[1]
    BY <1>2 DEF FlattenSeq, Flats!Fix, FlattenDef
  <1>3. ASSUME NEW b PROVE Flats!IsIteration(b, 1, 1, b[1])
    BY DEF Flats!IsIteration, FlattenDef, FlattenOp
  <1> HIDE DEF s
  <1>4. Flats!Iterates(s, 1, 1, s[1])
    BY <1>3, Flats!IterationSteps
  <1>5. Flats!Fix(s, 1 .. 1)[1] = s[1]
    BY <1>4 DEF Flats!Iterates
  <1>6. FlattenSeq(s) = t
    BY <1>1, <1>2, <1>5
  <1> QED BY <1>6 DEF s

LEMMA NextOfOne ==
  ASSUME NEW e \in Seq(Edge), NEW x, NEW k, Outgoing(e, x) = {k}, NEW s, s.next = <<x>>
  PROVE  NextOf(e, s) = <<e[k].v>>
PROOF
  <1> DEFINE P == {k}
             n == Len(e)
             out == Select(e, P)
             t == Heads(e, P)
  <1>1. n \in Nat /\ P \in SUBSET (1 .. n) /\ k \in DOMAIN e /\ P \in SUBSET DOMAIN e
    BY DEF Outgoing
  <1>2. Cardinality(P) = 1
    BY FS_Singleton
  <1>3. PICK at : Selects(e, P, at)
    <2> HIDE DEF P, n
    <2> QED BY <1>1, SelectIs
  <1>4. at[1] = k /\ out = [j \in 1 .. 1 |-> e[at[j]]]
    <2> HIDE DEF P
    <2>1. at \in [1 .. 1 -> P] /\ out = [j \in 1 .. 1 |-> e[at[j]]]
      BY <1>2, <1>3 DEF Selects
    <2>2. at[1] \in P
      BY <2>1
    <2> QED BY <2>1, <2>2 DEF P
  <1>5. out = <<e[k]>>
    BY <1>4
  <1>6. t = <<e[k].v>>
    <2> HIDE DEF out
    <2>1. t = [j \in DOMAIN out |-> out[j].v]
      BY DEF Heads, out
    <2> QED BY <1>5, <2>1
  <1>7. t \in Seq(VerticesOf(e))
    <2> HIDE DEF P
    <2> QED BY <1>1, HeadsAre
  <1>8. NextOf(e, s) = FlattenSeq(<<t>>)
    <2>1. NextOf(e, s) = FlattenSeq([j \in DOMAIN <<x>> |-> Heads(e, Outgoing(e, <<x>>[j]))])
      BY DEF NextOf
    <2>2. [j \in DOMAIN <<x>> |-> Heads(e, Outgoing(e, <<x>>[j]))] = <<t>>
      <3>1. DOMAIN <<x>> = 1 .. 1 /\ <<x>>[1] = x
        OBVIOUS
      <3>2. \A j \in 1 .. 1 : Heads(e, Outgoing(e, <<x>>[j])) = t
        <4>1. \A j \in 1 .. 1 : j = 1
          OBVIOUS
        <4>2. Heads(e, Outgoing(e, x)) = t
          BY Zenon
        <4> HIDE DEF t
        <4> QED BY <3>1, <4>1, <4>2
      <3> HIDE DEF t
      <3> QED BY <3>1, <3>2
    <2> QED BY <2>1, <2>2
  <1> HIDE DEF t
  <1> QED BY <1>6, <1>7, <1>8, FlattenOne

LEMMA ScanOne ==
  ASSUME NEW e, NEW target, NEW base, NEW y
  PROVE  Scan(e, target, base, <<y>>) = LookAt(e, target, base, y)
PROOF
  <1> DEFINE ys == <<y>>
             A == {y}
  <1>1. ys \in Seq(A) /\ Len(ys) = 1 /\ ys[1] = y
    OBVIOUS
  <1> HIDE DEF ys, A
  <1>2. PICK s : IsScan(e, target, base, ys, s)
    BY <1>1, ScanSteps
  <1>3. 1 \in 1 .. Len(ys) /\ 1 - 1 = 0
    BY <1>1
  <1>4. s[1] = LookAt(e, target, s[0], ys[1]) /\ s[0] = base /\ Scan(e, target, base, ys) = s[1]
    BY <1>1, <1>2, <1>3 DEF IsScan
  <1> QED BY <1>1, <1>4 DEF ys

(* a search that has found its target keeps its answer *)
LEMMA YesIsFinal ==
  ASSUME NEW e \in Seq(Edge), NEW target, NEW s \in SearchState(e), s.result = "yes"
  PROVE  /\ SearchStep(e, target, s) \in SearchState(e)
         /\ SearchStep(e, target, s).result = "yes"
PROOF
  <1> DEFINE none == <<>>
             base == [s EXCEPT !.next = none]
             ys == NextOf(e, s)
             V == VerticesOf(e)
  <1>1. none \in Seq(V)
    OBVIOUS
  <1>2. SearchStep(e, target, s) = Scan(e, target, base, ys)
    BY DEF SearchStep
  <1> HIDE DEF none
  <1>3. base \in SearchState(e) /\ base.result = "yes"
    BY <1>1 DEF SearchState
  <1>4. ys \in Seq(V)
    BY NextOfIs
  <1> HIDE DEF base, ys, V
  <1>5. PICK t : IsScan(e, target, base, ys, t)
    BY <1>4, ScanSteps
  <1> DEFINE m == Len(ys)
             S == {k \in 0 .. m : t[k] = base}
  <1>6. m \in Nat
    BY <1>4
  <1>7. 0 \in S
    BY <1>5, <1>6 DEF IsScan
  <1>8. ASSUME NEW k \in 1 .. m, k - 1 \in S PROVE k \in S
    <2>1. t[k] = LookAt(e, target, t[k - 1], ys[k])
      BY <1>5 DEF IsScan
    <2>2. t[k] = LookAt(e, target, base, ys[k])
      BY <1>8, <2>1
    <2>3. t[k] = base
      BY <1>3, <2>2 DEF LookAt
    <2> QED BY <2>3
  <1>9. m \in S
    <2> HIDE DEF S, m
    <2>1. \A k \in 0 .. m : k \in S
      BY <1>6, <1>7, <1>8, Looks!IntervalInduction
    <2> QED BY <1>6, <2>1
  <1>10. Scan(e, target, base, ys) = base
    BY <1>5, <1>9 DEF IsScan
  <1> QED BY <1>2, <1>3, <1>10

(* q is a walk whose vertices belong to one instruction and have one edge each *)
IsChain(g, q) ==
  /\ IsWalk(g, q) /\ Len(q) >= 3
  /\ \A k \in 1 .. Len(q) - 1 : \A i, j \in Outgoing(g, q[k]) : i = j
  /\ \A k \in 1 .. Len(q) : q[k][1] = q[Len(q)][1] /\ q[k][1] \in Nat

(***************************************************************************)
(* The search finds the end of a chain of at least two edges.              *)
(***************************************************************************)
LEMMA ChainIsFound ==
  ASSUME NEW g, IsDag(g), NEW q, IsChain(g, q)
  PROVE  if_exist_path(g, q[1], q[Len(q)])
PROOF
  <1> DEFINE m == Len(q)
             V == VerticesOf(g)
             n == Cardinality(V)
             target == q[m]
  <1>1. /\ g \in Seq(Edge) /\ n \in Nat /\ m \in Nat /\ m >= 3 /\ DOMAIN q = 1 .. m
        /\ \A k \in 1 .. m : q[k] \in V
    BY VerticesAre DEF IsDag, IsChain, IsWalk
  <1>2. m <= n /\ \A i, j \in 1 .. m : i < j => Depth(q[i]) < Depth(q[j])
    BY <1>1, WalkIsForward DEF IsChain
  <1>3. \A i, j \in 1 .. m : q[i] = q[j] => i = j
    <2>1. \A i \in 1 .. m : Depth(q[i]) \in Nat
      BY <1>1, VerticesAre, DepthIsNat DEF IsDag
    <2> HIDE DEF m
    <2> QED BY <1>1, <1>2, <2>1
  <1>4. PICK s : IsSearch(g, q[1], target, s)
    BY <1>1, SearchSteps
  <1>5. s[0] = FirstSearch(q[1]) /\ \A k \in 1 .. n : s[k] = SearchStep(g, target, s[k - 1])
    BY <1>4 DEF IsSearch
  <1>6. ASSUME NEW k \in 1 .. m - 1
        PROVE  \E j \in DOMAIN g : Outgoing(g, q[k]) = {j} /\ g[j].v = q[k + 1]
    <2>1. PICK j \in DOMAIN g : g[j].u = q[k] /\ g[j].v = q[k + 1]
      BY DEF IsChain, IsWalk, if_exist_edge
    <2>2. j \in Outgoing(g, q[k])
      BY <2>1 DEF Outgoing
    <2>3. Outgoing(g, q[k]) = {j}
      <3>1. \A i \in Outgoing(g, q[k]) : i = j
        BY <2>2 DEF IsChain
      <3> QED BY <2>2, <3>1
    <2> QED BY <2>1, <2>3
  <1>7. \A k \in 1 .. m : ~(q[k][1] > target[1])
    <2>1. m \in 1 .. m
      BY <1>1
    <2>2. \A k \in 1 .. m : q[k][1] = target[1] /\ q[k][1] \in Nat
      BY DEF IsChain
    <2> HIDE DEF m, target
    <2> QED BY <2>2
  <1>8. ASSUME NEW k \in 1 .. m - 1, if_exist_edge(g, q[k], target) PROVE k = m - 1
    <2>1. PICK j \in DOMAIN g : Outgoing(g, q[k]) = {j} /\ g[j].v = q[k + 1]
      BY <1>6
    <2>2. PICK i \in DOMAIN g : g[i].u = q[k] /\ g[i].v = target
      BY <1>8 DEF if_exist_edge
    <2>3. i = j
      BY <2>1, <2>2 DEF Outgoing
    <2>4. k + 1 \in 1 .. m /\ m \in 1 .. m
      BY <1>1
    <2>5. k + 1 = m
      BY <1>3, <2>1, <2>2, <2>3, <2>4
    <2> HIDE DEF m
    <2> QED BY <1>1, <2>5
  <1>9. if_exist_edge(g, q[m - 1], target)
    <2>1. m - 1 \in 1 .. m - 1 /\ (m - 1) + 1 = m
      BY <1>1
    <2> QED BY <2>1 DEF IsChain, IsWalk
  <1>10. if_exist_path(g, q[1], target) <=> q[1][1] <= target[1] /\ s[n].result = "yes"
    BY <1>4 DEF IsSearch
  <1>11. q[1][1] <= target[1]
    <2>1. 1 \in 1 .. m
      BY <1>1
    <2> QED BY <2>1 DEF IsChain
  <1> HIDE DEF m, n, V, target
  <1> DEFINE On(a, k) == /\ a \in SearchState(g) /\ a.result = "searching" /\ a.next = <<q[k + 1]>>
                         /\ a.seen \subseteq {q[j] : j \in 2 .. k + 1}
             Good(a, k) == IF k <= m - 3 THEN On(a, k) ELSE a \in SearchState(g) /\ a.result = "yes"
  <1>12. Good(s[0], 0)
    <2>1. 1 \in 1 .. m /\ 0 <= m - 3 /\ 0 + 1 = 1
      BY <1>1
    <2>2. FirstSearch(q[1]) \in SearchState(g)
      BY <1>1, <2>1 DEF FirstSearch, SearchState, V
    <2>3. FirstSearch(q[1]).result = "searching" /\ FirstSearch(q[1]).next = <<q[1]>>
          /\ FirstSearch(q[1]).seen = {}
      BY DEF FirstSearch
    <2> QED BY <1>5, <2>1, <2>2, <2>3
  <1>13. ASSUME NEW a, NEW k \in Nat, k <= m - 3, On(a, k)
         PROVE  LET y == q[k + 2]
                    b == [a EXCEPT !.next = <<>>]
                IN  /\ SearchStep(g, target, a) = LookAt(g, target, b, y)
                    /\ y \in V /\ b \in SearchState(g) /\ b.result = "searching"
                    /\ b.next = <<>> /\ b.seen = a.seen
    <2> DEFINE none == <<>>
               b == [a EXCEPT !.next = none]
               y == q[k + 2]
    <2>1. k + 1 \in 1 .. m - 1 /\ k + 2 \in 1 .. m /\ (k + 1) + 1 = k + 2
      BY <1>1, <1>13
    <2>2. PICK j \in DOMAIN g : Outgoing(g, q[k + 1]) = {j} /\ g[j].v = y
      BY <1>6, <2>1
    <2>3. NextOf(g, a) = <<y>>
      BY <1>1, <1>13, <2>2, NextOfOne
    <2>4. SearchStep(g, target, a) = LookAt(g, target, b, y)
      <3>1. SearchStep(g, target, a) = Scan(g, target, b, <<y>>)
        BY <2>3 DEF SearchStep
      <3> HIDE DEF b, y
      <3> QED BY <3>1, ScanOne
    <2>5. none \in Seq(VerticesOf(g))
      OBVIOUS
    <2>6. y \in V
      BY <1>1, <2>1
    <2> HIDE DEF none
    <2>7. b \in SearchState(g) /\ b.result = "searching" /\ b.next = none /\ b.seen = a.seen
      BY <1>13, <2>5 DEF SearchState
    <2> QED BY <2>4, <2>6, <2>7 DEF none
  <1>14. ASSUME NEW a, NEW k \in Nat, k <= m - 3, On(a, k), k + 1 <= m - 3
         PROVE  On(SearchStep(g, target, a), k + 1)
    <2> DEFINE y == q[k + 2]
               b == [a EXCEPT !.next = <<>>]
               c == LookAt(g, target, b, y)
    <2>1. /\ SearchStep(g, target, a) = c
          /\ y \in V /\ b \in SearchState(g) /\ b.result = "searching"
          /\ b.next = <<>> /\ b.seen = a.seen
      BY <1>13, <1>14
    <2>2. k + 2 \in 1 .. m /\ k + 2 \in 1 .. m - 1 /\ k + 2 # m - 1
      BY <1>1, <1>14
    <2>3. ~(y[1] > target[1]) /\ ~if_exist_edge(g, y, target)
      BY <1>7, <1>8, <2>2
    <2>4. y \notin a.seen
      <3> SUFFICES ASSUME y \in a.seen PROVE FALSE
        OBVIOUS
      <3>1. PICK j \in 2 .. k + 1 : q[j] = y
        BY <1>14
      <3>2. j \in 1 .. m
        BY <1>1, <1>14
      <3>3. j = k + 2
        BY <1>3, <2>2, <3>1, <3>2
      <3> QED BY <3>3
    <2> HIDE DEF b, y
    <2>5. c = [b EXCEPT !.seen = b.seen \cup {y}, !.next = Append(b.next, y)]
      BY <2>1, <2>3, <2>4 DEF LookAt
    <2> DEFINE one == <<y>>
               seen == a.seen \cup {y}
    <2>6. Append(b.next, y) = one /\ one \in Seq(VerticesOf(g))
      BY <2>1 DEF V
    <2> HIDE DEF one
    <2>10. seen \in SUBSET VerticesOf(g)
      BY <1>14, <2>1 DEF SearchState, V
    <2> HIDE DEF seen
    <2>11. c = [b EXCEPT !.seen = seen, !.next = one]
      BY <2>1, <2>5, <2>6 DEF seen
    <2>7. /\ c \in SearchState(g) /\ c.result = "searching" /\ c.next = <<y>>
          /\ c.seen = a.seen \cup {y}
      <3> HIDE DEF c
      <3>1. /\ c \in SearchState(g) /\ c.result = "searching" /\ c.next = one
            /\ c.seen = seen
        BY <2>1, <2>6, <2>10, <2>11 DEF SearchState
      <3> QED BY <3>1 DEF one, seen
    <2> HIDE DEF c
    <2>8. a.seen \cup {y} \subseteq {q[j] : j \in 2 .. (k + 1) + 1}
      <3>1. k + 2 \in 2 .. (k + 1) + 1 /\ \A j \in 2 .. k + 1 : j \in 2 .. (k + 1) + 1
        OBVIOUS
      <3> QED BY <1>14, <3>1 DEF y
    <2>9. q[(k + 1) + 1] = y
      <3>1. (k + 1) + 1 = k + 2
        OBVIOUS
      <3> QED BY <3>1 DEF y
    <2> QED BY <2>1, <2>7, <2>8, <2>9
  <1>15. ASSUME NEW a, NEW k \in Nat, k = m - 3, On(a, k)
         PROVE  SearchStep(g, target, a) \in SearchState(g) /\ SearchStep(g, target, a).result = "yes"
    <2> DEFINE y == q[k + 2]
               b == [a EXCEPT !.next = <<>>]
               c == LookAt(g, target, b, y)
    <2>0. k <= m - 3
      BY <1>1, <1>15
    <2>1. /\ SearchStep(g, target, a) = c
          /\ b \in SearchState(g) /\ b.result = "searching"
      BY <1>13, <1>15, <2>0
    <2>2. k + 2 \in 1 .. m /\ k + 2 = m - 1
      BY <1>1, <1>15
    <2>3. ~(y[1] > target[1]) /\ if_exist_edge(g, y, target)
      BY <1>7, <1>9, <2>2
    <2> HIDE DEF b, y
    <2>4. c = [b EXCEPT !.result = "yes"]
      BY <2>1, <2>3 DEF LookAt
    <2>5. c \in SearchState(g) /\ c.result = "yes"
      BY <2>1, <2>4 DEF SearchState
    <2> QED BY <2>1, <2>5
  <1> DEFINE S == {k \in 0 .. n : Good(s[k], k)}
  <1>16. 0 \in S
    <2> HIDE DEF Good
    <2> QED BY <1>1, <1>12
  <1>17. ASSUME NEW k \in 1 .. n, k - 1 \in S PROVE k \in S
    <2> DEFINE h == k - 1
               a == s[h]
    <2>1. h \in Nat /\ k = h + 1 /\ Good(a, h) /\ s[k] = SearchStep(g, target, a)
      BY <1>1, <1>5, <1>17
    <2> HIDE DEF h, a
    <2>2. CASE h + 1 <= m - 3
      <3>1. h <= m - 3
        BY <1>1, <2>1, <2>2
      <3>2. On(SearchStep(g, target, a), h + 1)
        <4> HIDE DEF On
        <4> QED BY <1>14, <2>1, <2>2, <3>1
      <3> HIDE DEF On
      <3> QED BY <2>1, <2>2, <3>2
    <2>3. CASE h = m - 3
      <3>1. h <= m - 3 /\ ~(k <= m - 3)
        BY <1>1, <2>1, <2>3
      <3> HIDE DEF On
      <3> QED BY <1>15, <2>1, <2>3, <3>1
    <2>4. CASE ~(h <= m - 3)
      <3>1. ~(k <= m - 3)
        BY <1>1, <2>1, <2>4
      <3>2. a \in SearchState(g) /\ a.result = "yes"
        BY <2>1, <2>4
      <3>3. s[k] \in SearchState(g) /\ s[k].result = "yes"
        BY <1>1, <2>1, <3>2, YesIsFinal
      <3> QED BY <3>1, <3>3
    <2>5. h + 1 <= m - 3 \/ h = m - 3 \/ ~(h <= m - 3)
      BY <1>1, <2>1
    <2> QED BY <2>2, <2>3, <2>4, <2>5
  <1>18. n \in S
    <2> HIDE DEF S
    <2>1. \A k \in 0 .. n : k \in S
      BY <1>1, <1>16, <1>17, Searches!IntervalInduction
    <2> QED BY <1>1, <2>1
  <1>19. s[n].result = "yes"
    <2>1. ~(n <= m - 3)
      BY <1>1, <1>2
    <2> QED BY <1>18, <2>1
  <1> QED BY <1>10, <1>11, <1>19 DEF target, m

-----------------------------------------------------------------------------
(***************************************************************************)
(* PipelineTo_C is a walk of the graph to the commit of its instruction.   *)
(***************************************************************************)
LEMMA PipelineWalk ==
  ASSUME NEW w, NEW e, IsGraphOf(w, e), NEW g, Extension(w, e, g, SoundLinks(w, e)),
         NEW x \in VerticesOf(e)
  PROVE  LET t == PipelineTo_C(w, x)
         IN  /\ IsWalk(g, t) /\ t[1] = x /\ t[Len(t)] = <<x[1], "C">>
             /\ \A k \in 1 .. Len(t) : t[k][1] = x[1]
             /\ x[2] \in HeadStages => Len(t) >= 3
PROOF
  <1> DEFINE i == w[x[1]]
             p == Pipeline(i)
             m == Len(p)
             at == CHOOSE k \in DOMAIN p : p[k] = x[2]
             t == PipelineTo_C(w, x)
             l == m + 1 - at
  <1>1. /\ x = <<x[1], x[2]>> /\ x[1] \in DOMAIN w /\ x[2] \in PipelineStages(i)
    BY VerticesAreEvents
  <1>2. i \in Instruction /\ Executed(i)
    BY <1>1 DEF IsGraphOf, IsTrace
  <1>3. at \in DOMAIN p /\ p[at] = x[2]
    BY <1>1 DEF PipelineStages
  <1>4. t = [k \in 1 .. l |-> <<x[1], p[at + k - 1]>>]
    BY DEF PipelineTo_C
  <1>5. \A k \in 1 .. m - 1 : if_exist_edge(e, <<x[1], p[k]>>, <<x[1], p[k + 1]>>)
    BY <1>1 DEF IsGraphOf, Chained
  <1>6. \A k \in 1 .. m : <<x[1], p[k]>> \in VerticesOf(e)
    BY <1>1, StagesAreVertices
  <1> HIDE DEF i
  <1>7. p \in Seq(Stages) /\ Len(p) \in 7 .. 10 /\ p[m] = "C"
    BY <1>2, PipelineIs
  <1>8. p[at] \in HeadStages => at + 2 <= m
    <2>1. at \in 1 .. m
      <3> HIDE DEF p, at
      <3> QED BY <1>3, <1>7
    <2> HIDE DEF at
    <2> QED BY <1>2, <2>1, PipelineOrder
  <1> HIDE DEF p, at, t
  <1>9. m \in Nat /\ at \in 1 .. m /\ l \in Nat /\ l >= 1
    BY <1>3, <1>7
  <1> HIDE DEF m
  <1>10. \A k \in 1 .. l : at + k - 1 \in 1 .. m
    BY <1>9
  <1>11. VerticesOf(g) = VerticesOf(e)
    BY ExtensionIsDag
  <1>12. t \in [1 .. l -> VerticesOf(g)]
    BY <1>4, <1>6, <1>10, <1>11
  <1>13. t \in Seq(VerticesOf(g)) /\ Len(t) = l
    <2> HIDE DEF l
    <2> QED BY <1>9, <1>12
  <1>14. ASSUME NEW k \in 1 .. l - 1 PROVE if_exist_edge(g, t[k], t[k + 1])
    <2>1. /\ at + k - 1 \in 1 .. m - 1 /\ at + (k + 1) - 1 = (at + k - 1) + 1
          /\ k \in 1 .. l /\ k + 1 \in 1 .. l
      BY <1>9
    <2>2. t[k] = <<x[1], p[at + k - 1]>> /\ t[k + 1] = <<x[1], p[(at + k - 1) + 1]>>
      BY <1>4, <2>1
    <2>3. if_exist_edge(e, t[k], t[k + 1])
      BY <1>5, <2>1, <2>2
    <2>4. \A j \in DOMAIN e : j \in DOMAIN g /\ g[j] = e[j]
      BY VerticesAreEvents DEF Extension
    <2> QED BY <2>3, <2>4 DEF if_exist_edge
  <1>15. IsWalk(g, t)
    <2>1. Len(t) > 0
      BY <1>9, <1>13
    <2> HIDE DEF l
    <2> QED BY <1>13, <1>14, <2>1 DEF IsWalk
  <1>16. t[1] = x
    <2>1. 1 \in 1 .. l /\ at + 1 - 1 = at
      BY <1>9
    <2>2. t[1] = <<x[1], p[at]>>
      BY <1>4, <2>1
    <2> QED BY <1>1, <1>3, <2>2
  <1>17. t[Len(t)] = <<x[1], "C">>
    <2>1. l \in 1 .. l /\ at + l - 1 = m
      BY <1>9
    <2>2. t[l] = <<x[1], p[m]>>
      BY <1>4, <2>1
    <2> QED BY <1>7, <1>13, <2>2
  <1>18. \A k \in 1 .. Len(t) : t[k][1] = x[1]
    BY <1>4, <1>13
  <1>19. x[2] \in HeadStages => Len(t) >= 3
    BY <1>3, <1>8, <1>9, <1>13
  <1> QED BY <1>15, <1>16, <1>17, <1>18, <1>19 DEF t

(***************************************************************************)
(* From a vertex of the youngest instruction that a skewed edge enters,    *)
(* the search finds the way to the commit.                                 *)
(***************************************************************************)
LEMMA YoungestReachesSink ==
  ASSUME NEW w, NEW e, IsGraphOf(w, e), NEW g, Extension(w, e, g, SoundLinks(w, e)),
         \A k \in Len(e) + 1 .. Len(g) : g[k].u[1] # Len(w),
         NEW x \in VerticesOf(e), x[1] = Len(w), x[2] \in HeadStages
  PROVE  if_exist_path(g, x, <<Len(w), "C">>)
PROOF
  <1> DEFINE t == PipelineTo_C(w, x)
             L == SoundLinks(w, e)
  <1>1. /\ IsWalk(g, t) /\ t[1] = x /\ t[Len(t)] = <<x[1], "C">>
        /\ \A k \in 1 .. Len(t) : t[k][1] = x[1]
        /\ Len(t) >= 3
    BY PipelineWalk
  <1> HIDE DEF t
  <1>2. \A y \in VerticesOf(e) : y[1] \in 1 .. Len(w) /\ y[1] \in Nat
    BY VerticesAreEvents DEF IsGraphOf, IsTrace
  <1>3. \A j \in DOMAIN g : IsEdgeOf(w, e, g, L, j)
    <2>1. L \in SUBSET SoundLinks(w, e) /\ Extension(w, e, g, L)
      OBVIOUS
    <2> HIDE DEF L
    <2> QED BY <2>1, EdgesAre
  <1>4. ASSUME NEW j \in DOMAIN g, g[j].u[1] = Len(w)
        PROVE  j \in DOMAIN e /\ g[j] = e[j] /\ g[j].u[1] = g[j].v[1]
    <2>1. IsEdgeOf(w, e, g, L, j)
      BY <1>3
    <2>2. j \in DOMAIN e /\ g[j] = e[j] /\ (IsHorizontal(w, g[j]) \/ IsSkewed(g[j]))
      BY <1>4, <2>1 DEF IsEdgeOf
    <2>3. g[j].v \in VerticesOf(e)
      BY <2>1 DEF IsEdgeOf
    <2>4. ~IsSkewed(g[j])
      BY <1>2, <1>4, <2>3 DEF IsSkewed
    <2> QED BY <2>2, <2>4 DEF IsHorizontal
  <1>5. ASSUME NEW k \in 1 .. Len(t) - 1, NEW i \in Outgoing(g, t[k]), NEW j \in Outgoing(g, t[k])
        PROVE  i = j
    <2>1. k \in 1 .. Len(t)
      BY <1>1 DEF IsWalk
    <2>2. /\ i \in DOMAIN g /\ j \in DOMAIN g /\ g[i].u = t[k] /\ g[j].u = t[k]
          /\ t[k][1] = Len(w)
      BY <1>1, <2>1 DEF Outgoing
    <2>3. /\ i \in DOMAIN e /\ e[i].u = t[k] /\ e[i].u[1] = e[i].v[1]
          /\ j \in DOMAIN e /\ e[j].u = t[k] /\ e[j].u[1] = e[j].v[1]
      BY <1>4, <2>2
    <2> QED BY <2>3 DEF IsGraphOf, Chained
  <1>6. IsDag(g)
    BY ExtensionIsDag
  <1>7. IsChain(g, t)
    <2>1. t[Len(t)][1] = x[1] /\ x[1] \in Nat
      BY <1>1, <1>2
    <2> QED BY <1>1, <1>5, <2>1 DEF IsChain
  <1>8. if_exist_path(g, t[1], t[Len(t)])
    BY <1>6, <1>7, ChainIsFound
  <1> QED BY <1>1, <1>8

(***************************************************************************)
(* Walks.                                                                  *)
(***************************************************************************)
LeadsFrom(g, r, x, y) == IsWalk(g, r) /\ r[1] = x /\ r[Len(r)] = y

LEMMA WalkStays ==
  ASSUME NEW g, NEW h, \A k \in DOMAIN g : k \in DOMAIN h /\ h[k] = g[k],
         VerticesOf(g) = VerticesOf(h), NEW p, IsWalk(g, p)
  PROVE  IsWalk(h, p)
PROOF
  <1>1. \A x, y : if_exist_edge(g, x, y) => if_exist_edge(h, x, y)
    BY DEF if_exist_edge
  <1> QED BY <1>1 DEF IsWalk

LEMMA WalksJoin ==
  ASSUME NEW g, NEW p, IsWalk(g, p), NEW q, IsWalk(g, q), if_exist_edge(g, p[Len(p)], q[1])
  PROVE  LeadsFrom(g, p \o q, p[1], q[Len(q)])
PROOF
  <1> DEFINE r == p \o q
             m == Len(p)
             n == Len(q)
  <1>1. /\ p \in Seq(VerticesOf(g)) /\ q \in Seq(VerticesOf(g)) /\ m \in Nat /\ n \in Nat
        /\ m > 0 /\ n > 0
    BY DEF IsWalk
  <1>2. /\ r \in Seq(VerticesOf(g)) /\ Len(r) = m + n
        /\ \A k \in 1 .. m + n : r[k] = IF k <= m THEN p[k] ELSE q[k - m]
    BY <1>1, ConcatProperties
  <1> HIDE DEF r, m, n
  <1>3. ASSUME NEW k \in 1 .. (m + n) - 1 PROVE if_exist_edge(g, r[k], r[k + 1])
    <2>1. CASE k < m
      <3>1. k \in 1 .. m - 1 /\ k \in 1 .. m + n /\ k + 1 \in 1 .. m + n /\ k <= m /\ k + 1 <= m
        BY <1>1, <2>1
      <3> QED BY <1>2, <3>1 DEF IsWalk, m
    <2>2. CASE k = m
      <3>1. /\ k \in 1 .. m + n /\ k + 1 \in 1 .. m + n /\ k <= m /\ ~(k + 1 <= m)
            /\ (k + 1) - m = 1
        BY <1>1, <2>2
      <3>2. r[k] = p[m] /\ r[k + 1] = q[1]
        BY <1>2, <2>2, <3>1
      <3> QED BY <3>2 DEF m
    <2>3. CASE k > m
      <3>1. /\ k - m \in 1 .. n - 1 /\ k \in 1 .. m + n /\ k + 1 \in 1 .. m + n
            /\ ~(k <= m) /\ ~(k + 1 <= m) /\ (k + 1) - m = (k - m) + 1
        BY <1>1, <2>3
      <3>2. r[k] = q[k - m] /\ r[k + 1] = q[(k - m) + 1]
        BY <1>2, <3>1
      <3> QED BY <3>1, <3>2 DEF IsWalk, n
    <2> QED BY <1>1, <2>1, <2>2, <2>3
  <1>4. Len(r) > 0 /\ r[1] = p[1] /\ r[m + n] = q[n]
    <2>1. /\ 1 \in 1 .. m + n /\ 1 <= m /\ m + n \in 1 .. m + n /\ ~(m + n <= m) /\ (m + n) - m = n
          /\ m + n > 0
      BY <1>1
    <2> QED BY <1>2, <2>1
  <1>5. LeadsFrom(g, r, p[1], q[n])
    BY <1>2, <1>3, <1>4 DEF IsWalk, LeadsFrom
  <1> QED BY <1>5 DEF r, n

(* a walk goes on where another one starts *)
LEMMA WalkGoesOn ==
  ASSUME NEW g, NEW p, IsWalk(g, p), NEW q, IsWalk(g, q), p[Len(p)] = q[1]
  PROVE  LeadsFrom(g, p \o Tail(q), p[1], q[Len(q)])
PROOF
  <1> DEFINE n == Len(q)
             t == Tail(q)
  <1>1. /\ p \in Seq(VerticesOf(g)) /\ q \in Seq(VerticesOf(g)) /\ n \in Nat /\ n > 0
        /\ q # <<>>
    BY DEF IsWalk
  <1>2. /\ t \in Seq(VerticesOf(g)) /\ Len(t) = n - 1
        /\ \A k \in 1 .. n - 1 : t[k] = q[k + 1]
    BY <1>1, HeadTailProperties
  <1> HIDE DEF t, n
  <1>3. CASE n = 1
    <2>1. t = <<>>
      BY <1>2, <1>3
    <2>2. p \o t = p
      BY <1>1, <2>1
    <2>3. LeadsFrom(g, p \o t, p[1], q[n])
      BY <1>3, <2>2 DEF LeadsFrom
    <2> QED BY <2>3 DEF t, n
  <1>4. CASE n > 1
    <2>1. 1 \in 1 .. n - 1 /\ n - 1 \in 1 .. n - 1 /\ (n - 1) + 1 = n /\ n - 1 > 0
      BY <1>1, <1>4
    <2>2. ASSUME NEW k \in 1 .. (n - 1) - 1 PROVE if_exist_edge(g, t[k], t[k + 1])
      <3>1. k \in 1 .. n - 1 /\ k + 1 \in 1 .. n - 1
        BY <1>1
      <3> QED BY <1>2, <3>1 DEF IsWalk, n
    <2>3. IsWalk(g, t)
      BY <1>2, <2>1, <2>2 DEF IsWalk
    <2>4. if_exist_edge(g, p[Len(p)], t[1])
      <3>1. if_exist_edge(g, q[1], q[1 + 1]) /\ t[1] = q[1 + 1]
        BY <1>2, <2>1 DEF IsWalk, n
      <3> QED BY <3>1
    <2>5. t[Len(t)] = q[n]
      BY <1>2, <2>1
    <2>6. LeadsFrom(g, p \o t, p[1], t[Len(t)])
      BY <2>3, <2>4, WalksJoin
    <2>7. LeadsFrom(g, p \o t, p[1], q[n])
      BY <2>5, <2>6, Zenon
    <2> QED BY <2>7 DEF t, n
  <1> QED BY <1>1, <1>3, <1>4

(* h is the graph e with sound virtual edges, and path one of its walks  *)
(* from the first fetch to the last commit                               *)
IsCritical(w, e, h, path) ==
  Extension(w, e, h, SoundLinks(w, e)) /\ LeadsFrom(h, path, Source, <<Len(w), "C">>)

(***************************************************************************)
(* longest_path_impl joins the core to the first fetch and to the last     *)
(* commit: every two vertices of its path have an edge.                    *)
(***************************************************************************)
LEMMA LongestPathIs ==
  ASSUME NEW w, NEW e, IsGraphOf(w, e), Len(w) > 0, NEW g, Extension(w, e, g, InducedLinks(w, e)),
         g # <<>>, NEW core, core = longest_path_core(g), core # <<>>
  PROVE  LET r == longest_path(w, g, core, Source, <<Len(w), "C">>)
         IN  IsCritical(w, e, r.edges, r.path)
PROOF
  <1> DEFINE N == Len(w)
             sink == <<N, "C">>
             V == VerticesOf(e)
             L == SoundLinks(w, e)
             first == core[1]
             last == core[Len(core)]
             head == if_exist_path(g, Source, first)
             e1 == IF head THEN g ELSE add_virtual_edge(w, g, Source, first)
             hd == IF head THEN find_path(g, Source, first) ELSE <<Source>>
             tail == if_exist_path(e1, last, sink)
             toC == PipelineTo_C(w, last)
             c == toC[Len(toC)]
             e2 == IF tail THEN e1 ELSE add_virtual_edge(w, e1, c, sink)
             tl == IF tail THEN find_path(e1, last, sink) ELSE toC
             r == longest_path(w, g, core, Source, sink)
  <1>1. r.path = ((hd \o core) \o Tail(tl)) \o <<sink>> /\ r.edges = e2
    BY DEF longest_path
  <1>2. /\ Extension(w, e, g, L) /\ AreLinks(w, L) /\ e \in Seq(Edge)
        /\ \A x \in V : x = <<x[1], x[2]>> /\ x[1] \in 1 .. N /\ x[1] \in Nat
        /\ w \in Seq(Instruction) /\ N \in Nat /\ \A n \in DOMAIN w : w[n] \in Instruction /\ Executed(w[n])
    <2>1. Extension(w, e, g, L) /\ AreLinks(w, L)
      BY LinksAre, ExtensionGrows
    <2>2. /\ w \in Seq(Instruction) /\ N \in Nat /\ DOMAIN w = 1 .. N
          /\ \A n \in DOMAIN w : w[n] \in Instruction /\ Executed(w[n])
      BY DEF IsGraphOf, IsTrace
    <2>3. /\ e \in Seq(Edge) /\ \A x \in V : x = <<x[1], x[2]>> /\ x[1] \in DOMAIN w /\ x[1] \in Nat
      BY VerticesAreEvents
    <2> QED BY <2>1, <2>2, <2>3
  <1>3. IsDag(g) /\ VerticesOf(g) = V /\ g \in Seq(Edge)
    BY <1>2, ExtensionIsDag DEF IsDag
  <1>4. /\ first \in V /\ <<Source, first>> \in L /\ Source # first /\ Source \in V
        /\ \E y \in V : y[1] > first[1]
    BY <1>2, CoreStarts
  <1>5. /\ IsWalk(g, core) /\ last = LastOf(g) /\ last \in V
        /\ Distances(g)[LastOf(g)].cost # 0
    <2>1. IsTrail(g, core) /\ Distances(g)[LastOf(g)].cost # 0
      BY <1>3, CoreIs
    <2> QED BY <1>3, <2>1, LastIs DEF IsTrail
  <1>6. sink \in V
    <2> DEFINE p == Pipeline(w[N])
    <2>1. N \in DOMAIN w
      BY <1>2
    <2>2. Len(p) \in 7 .. 10 /\ p[Len(p)] = "C"
      BY <1>2, <2>1, PipelineIs
    <2>3. Len(p) \in 1 .. Len(p)
      BY <2>2
    <2>4. <<N, p[Len(p)]>> \in V
      BY <2>1, <2>3, StagesAreVertices
    <2> HIDE DEF p
    <2> QED BY <2>2, <2>4
  <1>7. N > 1
    <2>1. first[1] \in 1 .. N /\ first[1] \in Nat
      BY <1>2, <1>4
    <2>2. PICK y \in V : y[1] > first[1]
      BY <1>4
    <2>3. y[1] \in 1 .. N /\ y[1] \in Nat
      BY <1>2
    <2> QED BY <1>2, <2>1, <2>2, <2>3
  <1> HIDE DEF first, last, L, r, N, V
  <1>8. /\ Extension(w, e, e1, L) /\ Len(g) <= Len(e1) /\ \A k \in 1 .. Len(g) : e1[k] = g[k]
        /\ ~head => if_exist_edge(e1, Source, first)
    <2>1. CASE head
      <3>1. e1 = g
        BY <2>1
      <3>2. Len(g) \in Nat
        BY <1>3
      <3> HIDE DEF e1
      <3> QED BY <1>2, <2>1, <3>1, <3>2
    <2>2. CASE ~head
      <3>1. e1 = add_virtual_edge(w, g, Source, first)
        BY <2>2
      <3> HIDE DEF e1
      <3> DEFINE h == add_virtual_edge(w, g, Source, first)
      <3>2. /\ Extension(w, e, h, L) /\ if_exist_edge(h, Source, first)
            /\ Len(g) <= Len(h) /\ \A k \in 1 .. Len(g) : h[k] = g[k]
        <4>1. JoinedTo(w, e, g, h, L, Source, first)
          BY <1>2, <1>4, AddVirtualEdge
        <4> HIDE DEF h
        <4> QED BY <4>1 DEF JoinedTo
      <3> HIDE DEF h
      <3>3. e1 = h
        BY <3>1 DEF h
      <3> QED BY <3>2, <3>3
    <2> QED BY <2>1, <2>2
  <1>9. \A k \in Len(e) + 1 .. Len(e1) : e1[k].u[1] # N
    <2>1. Len(e) \in Nat /\ Len(g) \in Nat /\ Len(e) <= Len(g)
      BY <1>2, <1>3 DEF Extension
    <2>2. ASSUME NEW k \in Len(e) + 1 .. Len(g) PROVE g[k].u[1] # N
      <3> DEFINE l == <<g[k].u, g[k].v>>
      <3>1. l \in InducedLinks(w, e) /\ l[1] = g[k].u /\ l[2] = g[k].v
        BY DEF Extension
      <3> HIDE DEF l
      <3>2. l[1] \in V /\ l[2] \in V /\ l[2][1] > l[1][1]
        BY <3>1 DEF InducedLinks, After, V
      <3>3. l[1][1] \in Nat /\ l[2][1] \in 1 .. N
        BY <1>2, <3>2
      <3>4. l[1][1] # N
        BY <1>2, <3>2, <3>3
      <3> QED BY <3>1, <3>4
    <2>3. e1 = g \/ (Len(e1) = Len(g) + 1 /\ e1[Len(g) + 1].u = Source)
      <3> DEFINE d == [u |-> Source, v |-> first, weight |-> timing(w, first) - timing(w, Source),
                       cost |-> 0, bottleneck |-> "Virtual"]
      <3>1. e1 = g \/ e1 = Append(g, d)
        BY DEF add_virtual_edge
      <3>2. d.u = Source
        OBVIOUS
      <3> HIDE DEF d, e1
      <3>3. CASE e1 = Append(g, d)
        <4>1. Len(e1) = Len(g) + 1 /\ e1[Len(g) + 1] = d
          BY <1>3, <3>3
        <4> QED BY <3>2, <4>1
      <3> QED BY <3>1, <3>3
    <2> HIDE DEF e1
    <2>4. ASSUME NEW k \in Len(e) + 1 .. Len(e1) PROVE e1[k].u[1] # N
      <3>1. CASE k \in 1 .. Len(g)
        <4>1. k \in Len(e) + 1 .. Len(g)
          BY <2>1, <3>1
        <4> QED BY <1>8, <2>2, <3>1, <4>1
      <3>2. CASE k \notin 1 .. Len(g)
        <4>1. k \in Int /\ k >= 1 /\ k <= Len(e1) /\ k > Len(g)
          BY <2>1, <3>2
        <4>2. e1 # g
          BY <2>1, <4>1
        <4>3. k = Len(g) + 1 /\ e1[k].u = Source
          BY <2>1, <2>3, <4>1, <4>2
        <4>4. Source[1] = 1
          BY DEF Source
        <4> QED BY <1>2, <1>7, <4>3, <4>4
      <3> QED BY <3>1, <3>2
    <2> QED BY <2>4
  <1>10. IsDag(e1) /\ VerticesOf(e1) = V /\ e1 \in Seq(Edge)
    <2> HIDE DEF e1
    <2> QED BY <1>8, ExtensionIsDag DEF IsDag, V, L
  <1>11. \A k \in DOMAIN g : k \in DOMAIN e1 /\ e1[k] = g[k]
    <2> HIDE DEF e1
    <2>1. DOMAIN g = 1 .. Len(g) /\ DOMAIN e1 = 1 .. Len(e1) /\ Len(g) \in Nat /\ Len(e1) \in Nat
      BY <1>3, <1>10
    <2> QED BY <1>8, <2>1
  <1>12. IsWalk(e1, hd) /\ hd[1] = Source /\ if_exist_edge(e1, hd[Len(hd)], first)
    <2>1. CASE head
      <3> DEFINE f == find_path(g, Source, first)
      <3>1. PICK p : IsWalk(g, p) /\ p[1] = Source /\ p[Len(p)] = first /\ Len(p) >= 3
        BY <1>3, <1>4, <2>1, ExistingPathIsWalk DEF Reaches
      <3>2. Len(p) > 1
        BY <3>1 DEF IsWalk
      <3>3. f # <<>>
        BY <1>3, <3>1, <3>2, FindPathMisses
      <3>4. IsWalk(g, f) /\ f[1] = Source /\ if_exist_edge(g, f[Len(f)], first)
        BY <1>3, <1>4, <3>3, FindPathFinds
      <3>5. hd = f /\ e1 = g
        BY <2>1
      <3> HIDE DEF f, hd, e1
      <3> QED BY <3>4, <3>5
    <2>2. CASE ~head
      <3>1. hd = <<Source>>
        BY <2>2
      <3>2. <<Source>> \in Seq(V) /\ Len(<<Source>>) = 1 /\ <<Source>>[1] = Source
        BY <1>4
      <3> HIDE DEF hd, e1
      <3>3. IsWalk(e1, hd)
        <4>1. \A k \in 1 .. Len(hd) - 1 : FALSE
          BY <3>1, <3>2
        <4> QED BY <1>10, <3>1, <3>2, <4>1 DEF IsWalk
      <3> QED BY <1>8, <2>2, <3>1, <3>2, <3>3
    <2> QED BY <2>1, <2>2
  <1>13. LeadsFrom(e1, hd \o core, Source, last)
    <2> HIDE DEF e1, hd
    <2>1. IsWalk(e1, core)
      BY <1>3, <1>5, <1>10, <1>11, WalkStays
    <2>2. LeadsFrom(e1, hd \o core, hd[1], core[Len(core)])
      BY <1>12, <2>1, WalksJoin DEF first
    <2> QED BY <1>12, <2>2 DEF last
  <1> DEFINE A == hd \o core
  <1> HIDE DEF e1, hd, A
  <1>14. /\ IsWalk(e1, A) /\ A[1] = Source /\ A[Len(A)] = last
    BY <1>13 DEF A, LeadsFrom
  <1>15. /\ Extension(w, e, e2, L) /\ VerticesOf(e2) = V
         /\ IsWalk(e2, A) /\ IsWalk(e2, tl) /\ tl[1] = last /\ if_exist_edge(e2, tl[Len(tl)], sink)
    <2>1. CASE tail
      <3> DEFINE f == find_path(e1, last, sink)
      <3>1. PICK p : IsWalk(e1, p) /\ p[1] = last /\ p[Len(p)] = sink /\ Len(p) >= 3
        <4> HIDE DEF sink
        <4> QED BY <1>5, <1>6, <1>10, <2>1, ExistingPathIsWalk DEF Reaches
      <3>2. Len(p) > 1
        BY <3>1 DEF IsWalk
      <3>3. f # <<>>
        BY <1>10, <3>1, <3>2, FindPathMisses
      <3>4. IsWalk(e1, f) /\ f[1] = last /\ if_exist_edge(e1, f[Len(f)], sink)
        <4> HIDE DEF sink
        <4> QED BY <1>5, <1>10, <3>3, FindPathFinds
      <3>5. tl = f /\ e2 = e1
        BY <2>1
      <3> HIDE DEF f, tl, e2, sink
      <3> QED BY <1>8, <1>10, <1>14, <3>4, <3>5
    <2>2. CASE ~tail
      <3>1. last[1] # N
        <4> SUFFICES ASSUME last[1] = N PROVE FALSE
          OBVIOUS
        <4>1. last[2] \in HeadStages
          BY <1>5, CoreEnds DEF N
        <4>2. if_exist_path(e1, last, sink)
          BY <1>5, <1>8, <1>9, <4>1, YoungestReachesSink DEF N, L, V
        <4> QED BY <2>2, <4>2
      <3>2. last[1] \in 1 .. N /\ last[1] < N /\ last[1] \in Nat
        <4>1. last[1] \in 1 .. N /\ last[1] \in Nat
          BY <1>2, <1>5
        <4> QED BY <1>2, <3>1, <4>1
      <3>3. /\ IsWalk(e1, toC) /\ toC[1] = last /\ c = <<last[1], "C">>
        BY <1>5, <1>8, PipelineWalk DEF L, V
      <3>4. e2 = add_virtual_edge(w, e1, c, sink) /\ tl = toC
        BY <2>2
      <3>5. c \in V
        <4>1. c \in VerticesOf(e1)
          <5> HIDE DEF toC
          <5>1. toC \in Seq(VerticesOf(e1)) /\ Len(toC) > 0
            BY <3>3 DEF IsWalk
          <5>2. Len(toC) \in 1 .. Len(toC)
            BY <5>1
          <5> QED BY <5>1, <5>2
        <4> QED BY <1>10, <4>1
      <3> HIDE DEF toC, e2, tl
      <3>6. <<c, sink>> \in L
        <4>1. timing(w, c) = w[last[1]].commit /\ timing(w, sink) = w[N].commit
          BY <3>3 DEF timing, Timing
        <4>2. w[last[1]].commit <= w[N].commit
          BY <1>2, <3>2 DEF IsGraphOf, IsTrace, N
        <4>3. c[1] < sink[1]
          BY <3>2, <3>3
        <4> HIDE DEF c, sink
        <4>4. IsForward([u |-> c, v |-> sink])
          BY <4>3 DEF IsForward
        <4>5. <<c, sink>> \in V \X V
          BY <1>6, <3>5
        <4> QED BY <4>1, <4>2, <4>4, <4>5 DEF L, SoundLinks, V
      <3> HIDE DEF c, sink
      <3> DEFINE h == add_virtual_edge(w, e1, c, sink)
      <3>7. /\ Extension(w, e, h, L) /\ if_exist_edge(h, c, sink)
            /\ Len(e1) <= Len(h) /\ \A k \in 1 .. Len(e1) : h[k] = e1[k]
        <4>1. JoinedTo(w, e, e1, h, L, c, sink)
          BY <1>2, <1>8, <3>6, AddVirtualEdge
        <4> HIDE DEF h
        <4> QED BY <4>1 DEF JoinedTo
      <3> HIDE DEF h
      <3>8. e2 = h
        BY <3>4 DEF h
      <3>9. h \in Seq(Edge) /\ VerticesOf(h) = V
        BY <3>7, ExtensionIsDag DEF IsDag, L, V
      <3>10. \A k \in DOMAIN e1 : k \in DOMAIN h /\ h[k] = e1[k]
        <4>1. DOMAIN e1 = 1 .. Len(e1) /\ DOMAIN h = 1 .. Len(h) /\ Len(e1) \in Nat /\ Len(h) \in Nat
          BY <1>10, <3>9
        <4> QED BY <3>7, <4>1
      <3>11. IsWalk(h, A) /\ IsWalk(h, toC)
        BY <1>10, <1>14, <3>3, <3>9, <3>10, WalkStays
      <3> QED BY <3>3, <3>4, <3>7, <3>8, <3>9, <3>11 DEF c
    <2> QED BY <2>1, <2>2
  <1> HIDE DEF e2, tl
  <1> DEFINE B == A \o Tail(tl)
  <1>16. LeadsFrom(e2, B, A[1], tl[Len(tl)])
    BY <1>14, <1>15, WalkGoesOn
  <1> HIDE DEF B
  <1>17. IsWalk(e2, B) /\ B[1] = Source /\ B[Len(B)] = tl[Len(tl)]
    BY <1>14, <1>16 DEF LeadsFrom
  <1> DEFINE q == Append(B, sink)
  <1>18. IsWalk(e2, q) /\ q[1] = B[1] /\ q[Len(q)] = sink /\ q = B \o <<sink>>
    <2> HIDE DEF sink
    <2> QED BY <1>6, <1>15, <1>17, WalkTo
  <1> HIDE DEF q
  <1>19. r.path = q
    BY <1>1, <1>18 DEF A, B
  <1>20. LeadsFrom(e2, q, Source, sink)
    BY <1>17, <1>18 DEF LeadsFrom
  <1>21. IsCritical(w, e, r.edges, r.path)
    BY <1>1, <1>15, <1>19, <1>20 DEF IsCritical, L, N
  <1> QED BY <1>21 DEF r, N

-----------------------------------------------------------------------------
(***************************************************************************)
(* The sums of profiling_critical_path.                                    *)
(***************************************************************************)
TotalDef(es, h, s) == IF s = {} THEN 0
                      ELSE LET k == Max(s) IN h[s \ {k}] + es[k].weight
TotalOp(es, t, k)  == t + es[k].weight

Totals == INSTANCE Recursion WITH Def <- TotalDef, Op <- TotalOp

(* the share of a bottleneck; c is the edges and the bottleneck *)
Weigh(d, b) == IF d.bottleneck = b THEN d.weight ELSE 0
Share(es, b) == FoldLeft(LAMBDA sum, d : sum + Weigh(d, b), 0, es)

ShareDef(c, h, s) == IF s = {} THEN 0
                     ELSE LET k == Max(s) IN h[s \ {k}] + Weigh(c[1][k], c[2])
ShareOp(c, t, k)  == t + Weigh(c[1][k], c[2])

Shares == INSTANCE Recursion WITH Def <- ShareDef, Op <- ShareOp

(* t are the partial sums *)
IsTotal(es, t) ==
  /\ t[0] = 0 /\ \A k \in 1 .. Len(es) : t[k] = t[k - 1] + es[k].weight
  /\ TotalWeight(es) = t[Len(es)]
IsShare(es, b, t) ==
  /\ t[0] = 0 /\ \A k \in 1 .. Len(es) : t[k] = t[k - 1] + Weigh(es[k], b)
  /\ Share(es, b) = t[Len(es)]

LEMMA TotalSteps ==
  ASSUME NEW es \in Seq(Edge)
  PROVE  \E t : IsTotal(es, t)
PROOF
  <1> DEFINE n == Len(es)
             P(k) == Totals!Partial(es, n, k)
             t == [k \in 0 .. n |-> P(k)]
  <1>1. n \in Nat /\ DOMAIN es = 1 .. n
    OBVIOUS
  <1>2. TotalWeight(es) = Totals!Folded(es, n)
    <2>1. TotalWeight(es) = Totals!Fix(es, SUBSET (DOMAIN es))[DOMAIN es]
      BY DEF TotalWeight, FoldLeft, MapThenFoldSet, Totals!Fix, TotalDef, Max
    <2> HIDE DEF n
    <2> QED BY <1>1, <2>1 DEF Totals!Folded
  <1>3. Totals!IsFold(es, n, 0)
    BY DEF Totals!IsFold, TotalDef, TotalOp, Max, Totals!Max
  <1> HIDE DEF n
  <1>4. /\ P(0) = 0 /\ \A k \in 1 .. n : P(k) = TotalOp(es, P(k - 1), k)
        /\ Totals!Folded(es, n) = P(n)
    BY <1>1, <1>3, Totals!FoldSteps
  <1> HIDE DEF P
  <1>5. /\ t[0] = 0 /\ t[n] = P(n)
        /\ \A k \in 1 .. n : t[k] = P(k) /\ t[k - 1] = P(k - 1)
    BY <1>1, <1>4
  <1> HIDE DEF t
  <1>6. \A k \in 1 .. n : t[k] = t[k - 1] + es[k].weight
    BY <1>4, <1>5 DEF TotalOp
  <1>7. IsTotal(es, t)
    BY <1>2, <1>4, <1>5, <1>6 DEF IsTotal, n
  <1> QED BY <1>7

LEMMA ShareSteps ==
  ASSUME NEW es \in Seq(Edge), NEW b
  PROVE  \E t : IsShare(es, b, t)
PROOF
  <1> DEFINE n == Len(es)
             c == <<es, b>>
             P(k) == Shares!Partial(c, n, k)
             t == [k \in 0 .. n |-> P(k)]
  <1>1. n \in Nat /\ DOMAIN es = 1 .. n /\ c[1] = es /\ c[2] = b
    OBVIOUS
  <1>2. ASSUME NEW a PROVE Share(a[1], a[2]) = Shares!Fix(a, SUBSET (DOMAIN a[1]))[DOMAIN a[1]]
    BY DEF Share, FoldLeft, MapThenFoldSet, Shares!Fix, ShareDef, Max
  <1>3. ASSUME NEW a PROVE Shares!IsFold(a, n, 0)
    BY DEF Shares!IsFold, ShareDef, ShareOp, Max, Shares!Max
  <1> HIDE DEF n, c
  <1>4. Share(es, b) = Shares!Folded(c, n)
    <2>1. Share(c[1], c[2]) = Shares!Fix(c, SUBSET (DOMAIN c[1]))[DOMAIN c[1]]
      BY <1>2
    <2> QED BY <1>1, <2>1 DEF Shares!Folded
  <1>5. /\ P(0) = 0 /\ \A k \in 1 .. n : P(k) = ShareOp(c, P(k - 1), k)
        /\ Shares!Folded(c, n) = P(n)
    BY <1>1, <1>3, Shares!FoldSteps
  <1> HIDE DEF P
  <1>6. /\ t[0] = 0 /\ t[n] = P(n)
        /\ \A k \in 1 .. n : t[k] = P(k) /\ t[k - 1] = P(k - 1)
    BY <1>1, <1>5
  <1> HIDE DEF t
  <1>7. \A k \in 1 .. n : t[k] = t[k - 1] + Weigh(es[k], b)
    BY <1>1, <1>5, <1>6 DEF ShareOp
  <1>8. IsShare(es, b, t)
    BY <1>4, <1>5, <1>6, <1>7 DEF IsShare, n
  <1> QED BY <1>8

(* what MapThenSumSet makes of a function on the bottlenecks *)
AddDef(f, h, s) == IF s = {} THEN 0
                   ELSE LET x == CHOOSE x \in s : TRUE IN f[x] + h[s \ {x}]
AddOp(f, a, b) == a

Adds == INSTANCE Recursion WITH Def <- AddDef, Op <- AddOp

AddUp(f) == Adds!Fix(f, SUBSET Bottlenecks)[Bottlenecks]

LEMMA BottlenecksAreFinite ==
  IsFiniteSet(Bottlenecks)
PROOF
  <1> DEFINE s == <<"Base", "IcacheMiss", "DcacheMiss", "BPMiss", "ROB", "LQ", "SQ",
                    "IntRF", "FpRF", "IQ", "IntALU", "IntMultDiv", "FpAlu",
                    "FpMultDiv", "RdWrPort", "RAW", "Virtual">>
  <1>1. s \in Seq(Bottlenecks) /\ Len(s) = 17
    BY DEF Bottlenecks
  <1>2. \A b \in Bottlenecks : \E n \in 1 .. 17 : s[n] = b
    BY DEF Bottlenecks
  <1> HIDE DEF s
  <1> QED BY <1>1, <1>2 DEF IsFiniteSet

(* the element a sum takes out of a set *)
PickOf(s) == CHOOSE x \in s : TRUE

(* F are the sums of f over the sets of bottlenecks *)
AreSums(f, F) ==
  /\ F[{}] = 0
  /\ \A s \in SUBSET Bottlenecks : s # {} =>
       PickOf(s) \in s /\ F[s] = f[PickOf(s)] + F[s \ {PickOf(s)}]

LEMMA AddUpSteps ==
  ASSUME NEW f
  PROVE  AreSums(f, Adds!Fix(f, SUBSET Bottlenecks))
PROOF
  <1> DEFINE S == SUBSET Bottlenecks
             m == [s \in S |-> Cardinality(s)]
             F == Adds!Fix(f, S)
  <1>1. \A s \in S : IsFiniteSet(s) /\ Cardinality(s) \in Nat
    BY BottlenecksAreFinite, FS_Subset, FS_CardinalityType
  <1>2. m \in [S -> Nat]
    BY <1>1
  <1>3. ASSUME NEW s \in S, s # {}
        PROVE  PickOf(s) \in s /\ s \ {PickOf(s)} \in S /\ m[s \ {PickOf(s)}] < m[s]
    <2>1. PickOf(s) \in s /\ s \ {PickOf(s)} \in S
      BY <1>3 DEF PickOf
    <2>2. Cardinality(s \ {PickOf(s)}) = Cardinality(s) - 1
      BY <1>1, <2>1, FS_RemoveElement
    <2>3. Cardinality(s) \in Nat
      BY <1>1
    <2>4. m[s] = Cardinality(s) /\ m[s \ {PickOf(s)}] = Cardinality(s \ {PickOf(s)})
      BY <2>1
    <2> HIDE DEF m, S
    <2> QED BY <2>1, <2>2, <2>3, <2>4
  <1>4. ASSUME NEW g, NEW h, NEW s \in S, \A y \in S : m[y] < m[s] => g[y] = h[y]
        PROVE  AddDef(f, g, s) = AddDef(f, h, s)
    <2>1. CASE s = {}
      BY <2>1 DEF AddDef
    <2>2. CASE s # {}
      <3>1. g[s \ {PickOf(s)}] = h[s \ {PickOf(s)}]
        <4> HIDE DEF S, m
        <4> QED BY <1>3, <1>4, <2>2
      <3> QED BY <2>2, <3>1 DEF AddDef, PickOf
    <2> QED BY <2>1, <2>2
  <1>5. F = [s \in S |-> AddDef(f, F, s)]
    <2> HIDE DEF S, m
    <2> QED BY <1>2, <1>4, Adds!RecursionDefines
  <1> HIDE DEF F
  <1>6. \A s \in S : F[s] = AddDef(f, F, s)
    BY <1>5
  <1>7. F[{}] = 0
    BY <1>6 DEF AddDef
  <1>8. ASSUME NEW s \in S, s # {}
        PROVE  PickOf(s) \in s /\ F[s] = f[PickOf(s)] + F[s \ {PickOf(s)}]
    <2>1. F[s] = f[PickOf(s)] + F[s \ {PickOf(s)}]
      BY <1>6, <1>8 DEF AddDef, PickOf
    <2> QED BY <1>3, <1>8, <2>1
  <1> QED BY <1>7, <1>8 DEF F, AreSums

(***************************************************************************)
(* A sum grows with each of its terms.                                     *)
(***************************************************************************)
LEMMA AddUpGrows ==
  ASSUME NEW f \in [Bottlenecks -> Int], NEW b \in Bottlenecks, NEW c \in Int,
         NEW h \in [Bottlenecks -> Int], h[b] = f[b] + c,
         \A x \in Bottlenecks : x # b => h[x] = f[x]
  PROVE  /\ AddUp(f) \in Int /\ AddUp(h) = AddUp(f) + c
         /\ (\A x \in Bottlenecks : f[x] = 0) => AddUp(f) = 0
PROOF
  <1> DEFINE B == Bottlenecks
             F == Adds!Fix(f, SUBSET B)
             H == Adds!Fix(h, SUBSET B)
             Add(s) == IF b \in s THEN c ELSE 0
             Good(s) == /\ F[s] \in Int
                        /\ H[s] = F[s] + Add(s)
                        /\ (\A x \in B : f[x] = 0) => F[s] = 0
             S == {n \in Nat : \A s \in SUBSET B : Cardinality(s) = n => Good(s)}
  <1>1. \A s \in SUBSET B : IsFiniteSet(s) /\ Cardinality(s) \in Nat
    BY BottlenecksAreFinite, FS_Subset, FS_CardinalityType
  <1>2. AreSums(f, F) /\ AreSums(h, H)
    BY AddUpSteps
  <1> HIDE DEF F, H
  <1>3. ASSUME NEW n \in Nat, \A k \in Nat : k < n => k \in S PROVE n \in S
    <2> SUFFICES ASSUME NEW s \in SUBSET B, Cardinality(s) = n PROVE Good(s)
      OBVIOUS
    <2>1. CASE s = {}
      BY <1>2, <2>1 DEF AreSums
    <2>2. CASE s # {}
      <3> DEFINE x == PickOf(s)
                 t == s \ {x}
      <3>1. x \in s /\ F[s] = f[x] + F[t] /\ H[s] = h[x] + H[t]
        BY <1>2, <2>2 DEF AreSums
      <3> HIDE DEF x
      <3>2. t \in SUBSET B /\ x \in B
        BY <3>1
      <3>3. Cardinality(t) = n - 1
        BY <1>1, <3>1, FS_RemoveElement
      <3>4. n - 1 \in Nat /\ n - 1 < n
        BY <1>1, <3>2, <3>3
      <3>5. n - 1 \in S
        BY <1>3, <3>4
      <3>6. Good(t)
        BY <3>2, <3>3, <3>5
      <3>7. Add(s) \in Int /\ Add(t) \in Int /\ f[x] \in Int /\ h[x] \in Int
        BY <3>2
      <3>8. h[x] + Add(t) = f[x] + Add(s)
        BY <3>1, <3>2, <3>7
      <3> HIDE DEF Add, t
      <3>9. F[s] \in Int /\ H[s] = F[s] + Add(s)
        BY <3>1, <3>6, <3>7, <3>8
      <3>10. (\A y \in B : f[y] = 0) => F[s] = 0
        BY <3>1, <3>2, <3>6
      <3> QED BY <3>9, <3>10
    <2> QED BY <2>1, <2>2
  <1>4. \A n \in Nat : n \in S
    <2> HIDE DEF S
    <2> QED BY <1>3, Adds!NatSetInduction
  <1>5. Good(B)
    <2>1. B \in SUBSET B /\ Cardinality(B) \in Nat
      BY <1>1
    <2>2. Cardinality(B) \in S
      BY <1>4, <2>1
    <2> HIDE DEF Good
    <2> QED BY <2>1, <2>2
  <1> QED BY <1>5 DEF AddUp, F, H

(***************************************************************************)
(* The shares of the bottlenecks add up to the length of the path.         *)
(***************************************************************************)
LEMMA SharesAddUp ==
  ASSUME NEW es \in Seq(Edge)
  PROVE  /\ TotalWeight(es) \in Int
         /\ AddUp([b \in Bottlenecks |-> Share(es, b)]) = TotalWeight(es)
PROOF
  <1> DEFINE B == Bottlenecks
             n == Len(es)
             u(b) == CHOOSE t : IsShare(es, b, t)
             R(k) == [b \in B |-> u(b)[k]]
  <1>1. n \in Nat /\ \A k \in 1 .. n : es[k].weight \in Int /\ es[k].bottleneck \in B
    <2>1. n \in Nat /\ \A k \in 1 .. n : es[k] \in Edge
      OBVIOUS
    <2> HIDE DEF n, B
    <2> QED BY <2>1 DEF Edge, B
  <1>2. PICK t : IsTotal(es, t)
    BY TotalSteps
  <1>3. \A b : IsShare(es, b, u(b))
    <2> SUFFICES ASSUME NEW b PROVE IsShare(es, b, u(b))
      OBVIOUS
    <2>1. \E s : IsShare(es, b, s)
      BY ShareSteps
    <2> QED BY <2>1
  <1> HIDE DEF u
  <1> DEFINE Good(k) == R(k) \in [B -> Int] /\ t[k] \in Int /\ AddUp(R(k)) = t[k]
             S == {k \in 0 .. n : Good(k)}
  <1>4. Good(0)
    <2>1. t[0] = 0 /\ \A b \in B : R(0)[b] = 0
      BY <1>2, <1>3 DEF IsTotal, IsShare
    <2>2. R(0) \in [B -> Int] /\ "Base" \in B
      BY <2>1 DEF Bottlenecks
    <2> DEFINE f == R(0)
               b == "Base"
               c == 0
    <2> HIDE DEF R
    <2>3. /\ f \in [B -> Int] /\ b \in B /\ c \in Int /\ f[b] = f[b] + c
          /\ \A x \in B : f[x] = 0
      BY <2>1, <2>2
    <2> HIDE DEF f, b, c
    <2>4. AddUp(f) = 0
      BY <2>3, AddUpGrows
    <2> QED BY <2>1, <2>2, <2>4 DEF f
  <1>5. ASSUME NEW k \in 1 .. n, Good(k - 1) PROVE Good(k)
    <2> DEFINE b == es[k].bottleneck
               c == es[k].weight
    <2>1. b \in B /\ c \in Int /\ k - 1 \in 0 .. n
      BY <1>1
    <2>2. t[k] = t[k - 1] + c
      BY <1>2 DEF IsTotal
    <2>3. \A x \in B : u(x)[k] = u(x)[k - 1] + Weigh(es[k], x)
      BY <1>3 DEF IsShare
    <2>4. \A x \in B : R(k)[x] = R(k - 1)[x] + Weigh(es[k], x) /\ R(k - 1)[x] \in Int
      BY <1>5, <2>3
    <2>5. /\ R(k)[b] = R(k - 1)[b] + c
          /\ \A x \in B : x # b => R(k)[x] = R(k - 1)[x]
      BY <2>1, <2>4 DEF Weigh
    <2>6. R(k) \in [B -> Int]
      <3>1. \A x \in B : R(k)[x] \in Int
        BY <2>1, <2>4, <2>5
      <3>2. R(k) = [x \in B |-> R(k)[x]]
        OBVIOUS
      <3> HIDE DEF R
      <3> QED BY <3>1, <3>2
    <2> DEFINE f == R(k - 1)
               h == R(k)
    <2>7. f \in [B -> Int] /\ h \in [B -> Int] /\ AddUp(f) = t[k - 1] /\ t[k - 1] \in Int
      BY <1>5, <2>6
    <2> HIDE DEF R, b, c, f, h
    <2>8. h[b] = f[b] + c /\ \A x \in B : x # b => h[x] = f[x]
      BY <2>5 DEF f, h
    <2>9. AddUp(h) = AddUp(f) + c
      BY <2>1, <2>7, <2>8, AddUpGrows
    <2> QED BY <2>1, <2>2, <2>7, <2>9 DEF h
  <1>6. \A k \in 0 .. n : k \in S
    <2>1. 0 \in S
      BY <1>1, <1>4
    <2>2. \A k \in 1 .. n : k - 1 \in S => k \in S
      <3> HIDE DEF Good
      <3> QED BY <1>1, <1>5
    <2> HIDE DEF S
    <2> QED BY <1>1, <2>1, <2>2, Adds!IntervalInduction
  <1>7. Good(n)
    <2> HIDE DEF Good
    <2> QED BY <1>1, <1>6
  <1>8. R(n) = [b \in B |-> Share(es, b)]
    BY <1>3 DEF IsShare
  <1>9. TotalWeight(es) = t[n]
    BY <1>2 DEF IsTotal
  <1> HIDE DEF R
  <1> QED BY <1>7, <1>8, <1>9

LEMMA ReportSumIs ==
  ASSUME NEW by PROVE ReportSum(by) = AddUp(by)
BY DEF ReportSum, MapThenSumSet, MapThenFoldSet, AddUp, Adds!Fix, AddDef

LEMMA ReportIs ==
  ASSUME NEW e, NEW path
  PROVE  BottleneckReport(e, path) = [b \in Bottlenecks |-> Share(PathEdges(e, path), b)]
BY DEF BottleneckReport, Share, Weigh, FoldLeft, MapThenFoldSet

-----------------------------------------------------------------------------
(* the k-th edge of the path is one of the graph and leads to its next vertex *)
IsEdgeAt(h, path, es, k) ==
  \E j \in DOMAIN h : es[k] = h[j] /\ h[j].u = path[k] /\ h[j].v = path[k + 1]

LEMMA PathEdgesAre ==
  ASSUME NEW h \in Seq(Edge), NEW path, IsWalk(h, path)
  PROVE  /\ PathEdges(h, path) \in Seq(Edge)
         /\ Len(PathEdges(h, path)) = Len(path) - 1 /\ Len(path) \in Nat \ {0}
         /\ \A k \in 1 .. Len(path) - 1 : IsEdgeAt(h, path, PathEdges(h, path), k)
PROOF
  <1> DEFINE es == PathEdges(h, path)
             n == Len(path) - 1
  <1>1. n \in Nat /\ Len(path) \in Nat \ {0}
    BY DEF IsWalk
  <1>2. ASSUME NEW k \in 1 .. n PROVE IsEdgeAt(h, path, es, k) /\ es[k] \in Edge
    <2> DEFINE x == path[k]
               y == path[k + 1]
    <2>1. if_exist_edge(h, x, y) /\ es[k] = get_outgoing_edge(h, x, y)
      BY DEF IsWalk, PathEdges
    <2> HIDE DEF x, y, es
    <2>2. PICK j \in DOMAIN h : get_outgoing_edge(h, x, y) = h[j] /\ h[j].u = x /\ h[j].v = y
      BY <2>1, OutgoingEdgeIs
    <2>3. h[j] \in Edge
      OBVIOUS
    <2> QED BY <2>1, <2>2, <2>3 DEF x, y, IsEdgeAt
  <1>3. es = [k \in 1 .. n |-> es[k]]
    BY DEF PathEdges
  <1> HIDE DEF es, n
  <1>4. es \in Seq(Edge) /\ Len(es) = n
    <2>1. es \in [1 .. n -> Edge]
      BY <1>2, <1>3
    <2>2. es \in Seq(Edge)
      BY <1>1, <2>1, SeqDef
    <2> QED BY <1>1, <2>1, <2>2, LenProperties
  <1> QED BY <1>1, <1>2, <1>4 DEF es, n

(***************************************************************************)
(* The critical path never leads back in time, and is as long as the time  *)
(* between its ends when no load waited for its data.                      *)
(***************************************************************************)
LEMMA CriticalPathIs ==
  ASSUME NEW w, NEW e, IsGraphOf(w, e), NEW h, NEW path, IsCritical(w, e, h, path)
  PROVE  /\ \A k \in 1 .. Len(path) - 1 : timing(w, path[k]) <= timing(w, path[k + 1])
         /\ (\A k \in DOMAIN e : ~IsLoadCommit(w, e[k])) =>
              TotalWeight(PathEdges(h, path)) = timing(w, <<Len(w), "C">>) - timing(w, Source)
PROOF
  <1> DEFINE L == SoundLinks(w, e)
             es == PathEdges(h, path)
             n == Len(es)
             T(k) == timing(w, path[k])
             Free == \A k \in DOMAIN e : ~IsLoadCommit(w, e[k])
  <1>1. /\ L \in SUBSET SoundLinks(w, e) /\ Extension(w, e, h, L) /\ h \in Seq(Edge)
        /\ IsWalk(h, path) /\ path[1] = Source /\ path[Len(path)] = <<Len(w), "C">>
    BY DEF IsCritical, Extension, LeadsFrom
  <1>2. /\ es \in Seq(Edge) /\ n = Len(path) - 1 /\ Len(path) \in Nat \ {0} /\ n \in Nat
        /\ \A k \in 1 .. n : IsEdgeAt(h, path, es, k)
    BY <1>1, PathEdgesAre
  <1>3. \A x \in VerticesOf(e) : timing(w, x) \in Nat
    BY VerticesAreEvents
  <1> HIDE DEF es, n, L
  <1>4. ASSUME NEW k \in 1 .. n
        PROVE  /\ T(k) \in Nat /\ T(k + 1) \in Nat /\ T(k) <= T(k + 1)
               /\ Free => es[k].weight = T(k + 1) - T(k)
    <2>1. PICK j \in DOMAIN h : es[k] = h[j] /\ h[j].u = path[k] /\ h[j].v = path[k + 1]
      BY <1>2 DEF IsEdgeAt
    <2>2. IsEdgeOf(w, e, h, L, j)
      BY <1>1, EdgesAre
    <2>3. /\ h[j].u \in VerticesOf(e) /\ h[j].v \in VerticesOf(e)
          /\ timing(w, h[j].u) <= timing(w, h[j].v)
      BY <2>2 DEF IsEdgeOf
    <2>4. Free => h[j].weight = timing(w, h[j].v) - timing(w, h[j].u)
      <3>1. CASE j \in DOMAIN e /\ h[j] = e[j] /\ h[j] \in SoundEdges(w)
        <4>1. MeasuresTime(w, h[j])
          BY <3>1 DEF SoundEdges
        <4> QED BY <3>1, <4>1 DEF MeasuresTime
      <3>2. CASE h[j].weight = timing(w, h[j].v) - timing(w, h[j].u)
        BY <3>2
      <3> QED BY <2>2, <3>1, <3>2 DEF IsEdgeOf
    <2> HIDE DEF Free
    <2> QED BY <1>3, <2>1, <2>3, <2>4
  <1>5. ASSUME Free PROVE TotalWeight(es) = T(Len(path)) - T(1)
    <2> HIDE DEF Free, T
    <2>1. PICK t : IsTotal(es, t)
      BY <1>2, TotalSteps
    <2> DEFINE Good(k) == t[k] = T(k + 1) - T(1)
               S == {k \in 0 .. n : Good(k)}
    <2>2. T(1) \in Nat
      <3>1. path[1] \in VerticesOf(e)
        <4>1. VerticesOf(h) = VerticesOf(e)
          BY <1>1, ExtensionIsDag DEF L
        <4> QED BY <1>1, <1>2, <4>1 DEF IsWalk
      <3> QED BY <1>3, <3>1 DEF T
    <2>3. 0 \in S
      <3>1. t[0] = 0
        BY <2>1 DEF IsTotal
      <3>2. T(0 + 1) = T(1)
        OBVIOUS
      <3> QED BY <1>2, <2>2, <3>1, <3>2
    <2>4. ASSUME NEW k \in 1 .. n, k - 1 \in S PROVE k \in S
      <3>1. t[k] = t[k - 1] + es[k].weight
        BY <2>1 DEF IsTotal, n
      <3>2. k - 1 + 1 = k /\ T(k - 1 + 1) = T(k)
        OBVIOUS
      <3>3. T(k) \in Nat /\ T(k + 1) \in Nat /\ es[k].weight = T(k + 1) - T(k)
        BY <1>4, <1>5
      <3>4. t[k - 1] = T(k) - T(1)
        BY <2>4, <3>2
      <3> QED BY <2>2, <3>1, <3>3, <3>4
    <2>5. n \in S
      <3> HIDE DEF S
      <3>1. \A k \in 0 .. n : k \in S
        BY <1>2, <2>3, <2>4, Totals!IntervalInduction
      <3> QED BY <1>2, <3>1
    <2>6. TotalWeight(es) = t[n] /\ n + 1 = Len(path)
      BY <1>2, <2>1 DEF IsTotal, n
    <2> QED BY <2>5, <2>6
  <1>6. \A k \in 1 .. Len(path) - 1 : timing(w, path[k]) <= timing(w, path[k + 1])
    BY <1>2, <1>4
  <1> QED BY <1>1, <1>5, <1>6 DEF es

-----------------------------------------------------------------------------
(* what the concatenation h of a and b is *)
IsConcat(a, b, h) ==
  /\ Len(a) \in Nat /\ Len(b) \in Nat /\ Len(h) = Len(a) + Len(b)
  /\ DOMAIN a = 1 .. Len(a) /\ DOMAIN b = 1 .. Len(b) /\ DOMAIN h = 1 .. Len(h)
  /\ \A k \in 1 .. Len(a) : h[k] = a[k]
  /\ \A k \in 1 .. Len(b) : h[Len(a) + k] = b[k]

LEMMA ConcatIs ==
  ASSUME NEW S, NEW a \in Seq(S), NEW b \in Seq(S)
  PROVE  a \o b \in Seq(S) /\ IsConcat(a, b, a \o b)
PROOF
  BY ConcatProperties DEF IsConcat

(***************************************************************************)
(* model() chains the pipeline of a new instruction; model_interaction()   *)
(* leaves the chains as they are.                                          *)
(***************************************************************************)
LEMMA ModelChains ==
  ASSUME NEW w, NEW i, NEW y, y = Append(w, i), IsTrace(w), IsTrace(y), NEW e \in Seq(SoundEdges(w)),
         Chained(w, e), NEW n, n = Len(w) + 1
  PROVE  Chained(y, e \o Horizontal(i, n))
PROOF
  <1> DEFINE p == Pipeline(i)
             c == Horizontal(i, n)
             h == e \o c
             m == Len(p) - 1
  <1>1. /\ w \in Seq(Instruction) /\ Len(w) \in Nat /\ DOMAIN w = 1 .. Len(w)
        /\ DOMAIN y = 1 .. n /\ n \in Nat /\ \A a \in DOMAIN w : y[a] = w[a] /\ a # n
        /\ y[n] = i /\ n \in DOMAIN y /\ y[n] \in Instruction /\ Executed(y[n])
    BY DEF IsTrace
  <1>2. m \in Nat /\ Len(p) \in Nat
    <2>1. Len(p) \in 7 .. 10
      BY <1>1, PipelineIs
    <2>2. \A l \in 7 .. 10 : l - 1 \in Nat /\ l \in Nat
      OBVIOUS
    <2> HIDE DEF p
    <2> QED BY <2>1, <2>2
  <1>3. \A j, k \in 1 .. Len(p) : p[j] = p[k] => j = k
    BY <1>1, PipelineOrder
  <1>4. c \in Seq(Edge) /\ Len(c) = m
    <2>1. c \in Seq(SoundEdges(y))
      BY <1>1, HorizontalIsSound
    <2>2. c \in Seq(Edge)
      BY <2>1, SeqMonotonic DEF SoundEdges
    <2>3. DOMAIN c = 1 .. m
      BY DEF Horizontal
    <2> QED BY <1>2, <2>2, <2>3, LenProperties
  <1>5. \A k \in 1 .. m : c[k].u = <<n, p[k]>> /\ c[k].v = <<n, p[k + 1]>>
    BY DEF Horizontal
  <1>6. e \in Seq(Edge)
    BY SeqMonotonic DEF SoundEdges
  <1> HIDE DEF c, p, m
  <1>7. /\ Len(e) \in Nat /\ DOMAIN e = 1 .. Len(e) /\ DOMAIN h = 1 .. Len(e) + m
        /\ \A k \in DOMAIN e : h[k] = e[k] /\ k \in DOMAIN h
        /\ \A k \in 1 .. m : h[Len(e) + k] = c[k] /\ Len(e) + k \in DOMAIN h
        /\ \A k \in DOMAIN h : k \notin DOMAIN e => k - Len(e) \in 1 .. m /\ h[k] = c[k - Len(e)]
    <2>1. IsConcat(e, c, h)
      BY <1>4, <1>6, ConcatIs
    <2> HIDE DEF h
    <2>2. /\ Len(e) \in Nat /\ DOMAIN e = 1 .. Len(e) /\ DOMAIN h = 1 .. Len(e) + m
          /\ \A k \in 1 .. Len(e) : h[k] = e[k]
          /\ \A k \in 1 .. m : h[Len(e) + k] = c[k]
      BY <1>2, <1>4, <2>1 DEF IsConcat
    <2>3. \A k \in DOMAIN h : k \notin DOMAIN e => k - Len(e) \in 1 .. m /\ h[k] = c[k - Len(e)]
      <3> SUFFICES ASSUME NEW k \in DOMAIN h, k \notin DOMAIN e
                   PROVE  k - Len(e) \in 1 .. m /\ h[k] = c[k - Len(e)]
        OBVIOUS
      <3>1. k - Len(e) \in 1 .. m /\ Len(e) + (k - Len(e)) = k
        BY <1>2, <2>2
      <3> QED BY <2>2, <3>1
    <2> QED BY <1>2, <2>2, <2>3
  <1> HIDE DEF h
  <1>8. ASSUME NEW a \in DOMAIN y, NEW k \in 1 .. Len(Pipeline(y[a])) - 1
        PROVE  if_exist_edge(h, <<a, Pipeline(y[a])[k]>>, <<a, Pipeline(y[a])[k + 1]>>)
    <2>1. CASE a \in DOMAIN w
      <3>1. if_exist_edge(e, <<a, Pipeline(w[a])[k]>>, <<a, Pipeline(w[a])[k + 1]>>)
        BY <1>1, <1>8, <2>1 DEF Chained
      <3> QED BY <1>1, <1>7, <2>1, <3>1 DEF if_exist_edge
    <2>2. CASE a = n
      <3>1. Pipeline(y[a]) = p /\ k \in 1 .. m
        BY <1>1, <2>2 DEF p, m
      <3>2. h[Len(e) + k].u = <<n, p[k]>> /\ h[Len(e) + k].v = <<n, p[k + 1]>> /\ Len(e) + k \in DOMAIN h
        BY <1>5, <1>7, <3>1
      <3>3. if_exist_edge(h, <<n, p[k]>>, <<n, p[k + 1]>>)
        BY <3>2 DEF if_exist_edge
      <3> QED BY <2>2, <3>1, <3>3
    <2>3. a \in DOMAIN w \/ a = n
      BY <1>1
    <2> QED BY <2>1, <2>2, <2>3
  <1>9. \A k \in DOMAIN e : e[k].u[1] \in DOMAIN w
    <2> SUFFICES ASSUME NEW k \in DOMAIN e PROVE e[k].u[1] \in DOMAIN w
      OBVIOUS
    <2>1. e[k] \in SoundEdges(w)
      OBVIOUS
    <2> QED BY <2>1 DEF SoundEdges, IsAttached
  <1>10. ASSUME NEW j \in DOMAIN h, NEW k \in DOMAIN h, h[j].u = h[k].u,
                h[j].u[1] = h[j].v[1], h[k].u[1] = h[k].v[1]
         PROVE  j = k
    <2>1. CASE j \in DOMAIN e /\ k \in DOMAIN e
      BY <1>7, <1>10, <2>1 DEF Chained
    <2>2. \A a \in DOMAIN h : a \notin DOMAIN e => h[a].u = <<n, p[a - Len(e)]>> /\ h[a].u[1] = n
      <3> SUFFICES ASSUME NEW a \in DOMAIN h, a \notin DOMAIN e
                   PROVE  h[a].u = <<n, p[a - Len(e)]>> /\ h[a].u[1] = n
        OBVIOUS
      <3>1. a - Len(e) \in 1 .. m /\ h[a] = c[a - Len(e)]
        BY <1>7
      <3>2. c[a - Len(e)].u = <<n, p[a - Len(e)]>>
        BY <1>5, <3>1
      <3> QED BY <3>1, <3>2
    <2>3. \A a \in DOMAIN e : h[a].u[1] # n
      BY <1>1, <1>7, <1>9
    <2>4. CASE j \notin DOMAIN e /\ k \notin DOMAIN e
      <3>1. p[j - Len(e)] = p[k - Len(e)]
        BY <1>10, <2>2, <2>4
      <3>2. j - Len(e) \in 1 .. m /\ k - Len(e) \in 1 .. m /\ j \in Int /\ k \in Int
        BY <1>7, <2>4, <1>2
      <3>3. j - Len(e) \in 1 .. Len(p) /\ k - Len(e) \in 1 .. Len(p)
        BY <1>2, <3>2 DEF m
      <3>4. j - Len(e) = k - Len(e)
        BY <1>3, <3>1, <3>3 DEF p
      <3> QED BY <1>7, <3>2, <3>4
    <2> QED BY <1>10, <2>1, <2>2, <2>3, <2>4
  <1> QED BY <1>8, <1>10 DEF Chained, h, c

LEMMA InteractionChains ==
  ASSUME NEW w, NEW e \in Seq(Edge), Chained(w, e), NEW s \in Seq(SkewedEdges(w))
  PROVE  Chained(w, e \o s)
PROOF
  <1> DEFINE h == e \o s
  <1>1. s \in Seq(Edge)
    BY SeqMonotonic DEF SkewedEdges, SoundEdges
  <1>2. /\ Len(e) \in Nat /\ Len(s) \in Nat /\ DOMAIN e = 1 .. Len(e)
        /\ \A k \in DOMAIN e : h[k] = e[k] /\ k \in DOMAIN h
        /\ \A k \in DOMAIN h : k \notin DOMAIN e => h[k] \in SkewedEdges(w)
    BY <1>1, ConcatProperties
  <1> HIDE DEF h
  <1>3. \A k \in DOMAIN h : k \notin DOMAIN e => h[k].u[1] # h[k].v[1]
    <2> SUFFICES ASSUME NEW k \in DOMAIN h, k \notin DOMAIN e PROVE h[k].u[1] # h[k].v[1]
      OBVIOUS
    <2>1. h[k] \in Edge /\ h[k].u[1] < h[k].v[1]
      BY <1>2 DEF SkewedEdges, SoundEdges, IsSkewed
    <2>2. h[k].u[1] \in Nat /\ h[k].v[1] \in Nat
      BY <2>1 DEF Edge, Vertex
    <2> QED BY <2>1, <2>2
  <1>4. \A n \in DOMAIN w : \A k \in 1 .. Len(Pipeline(w[n])) - 1 :
          if_exist_edge(h, <<n, Pipeline(w[n])[k]>>, <<n, Pipeline(w[n])[k + 1]>>)
    <2>1. \A x, y : if_exist_edge(e, x, y) => if_exist_edge(h, x, y)
      BY <1>2 DEF if_exist_edge
    <2> QED BY <2>1 DEF Chained
  <1>5. \A j, k \in DOMAIN h :
          h[j].u = h[k].u /\ h[j].u[1] = h[j].v[1] /\ h[k].u[1] = h[k].v[1] => j = k
    BY <1>2, <1>3 DEF Chained
  <1> QED BY <1>4, <1>5 DEF Chained, h

(* what VirtualEdgesAreSound says of the graph e and its virtual edges v *)
SoundVirtual(w, e, v) ==
  \A k \in DOMAIN v :
     LET d == v[k]
     IN  /\ d \in Edge /\ IsForward(d) /\ d.cost = 0
         /\ {d.u, d.v} \subseteq VerticesOf(e)
         /\ d.weight = timing(w, d.v) - timing(w, d.u)
         /\ d.weight >= 0
         /\ \A j \in DOMAIN (e \o v) \ {Len(e) + k} : <<(e \o v)[j].u, (e \o v)[j].v>> # <<d.u, d.v>>

(***************************************************************************)
(* The edges that an analysis appends are sound virtual edges.             *)
(***************************************************************************)
LEMMA AddedEdgesAreSound ==
  ASSUME NEW w, NEW e, IsGraphOf(w, e), NEW h, Extension(w, e, h, SoundLinks(w, e))
  PROVE  SoundVirtual(w, e, SubSeq(h, Len(e) + 1, Len(h)))
PROOF
  <1> DEFINE v == SubSeq(h, Len(e) + 1, Len(h))
             L == SoundLinks(w, e)
  <1>1. /\ e \in Seq(Edge) /\ h \in Seq(Edge) /\ Len(e) \in Nat /\ Len(h) \in Nat
        /\ Len(e) <= Len(h) /\ \A k \in 1 .. Len(e) : h[k] = e[k]
    BY VerticesAreEvents DEF Extension
  <1>2. /\ v \in Seq(Edge) /\ Len(v) = Len(h) - Len(e) /\ DOMAIN v = 1 .. Len(h) - Len(e)
        /\ \A k \in DOMAIN v : v[k] = h[Len(e) + k]
    BY <1>1
  <1> HIDE DEF v
  <1>3. e \o v = h
    <2> DEFINE f == e \o v
    <2>1. f \in Seq(Edge) /\ IsConcat(e, v, f)
      BY <1>1, <1>2, ConcatIs
    <2> HIDE DEF f
    <2>2. /\ Len(f) = Len(h) /\ \A k \in 1 .. Len(e) : f[k] = e[k]
          /\ \A k \in 1 .. Len(v) : f[Len(e) + k] = v[k]
      BY <1>1, <1>2, <2>1 DEF IsConcat
    <2>3. ASSUME NEW k \in 1 .. Len(h) PROVE f[k] = h[k]
      <3>1. CASE k \in 1 .. Len(e)
        BY <1>1, <2>2, <3>1
      <3>2. CASE k - Len(e) \in 1 .. Len(v)
        <4>1. Len(e) + (k - Len(e)) = k
          BY <1>1
        <4>2. f[k] = v[k - Len(e)] /\ k - Len(e) \in DOMAIN v
          BY <1>2, <2>2, <3>2, <4>1
        <4>3. v[k - Len(e)] = h[k]
          BY <1>2, <4>1, <4>2
        <4> QED BY <4>2, <4>3
      <3> QED BY <1>1, <1>2, <3>1, <3>2
    <2>4. f = h
      BY <1>1, <2>1, <2>2, <2>3, SeqEqual
    <2> QED BY <2>4 DEF f
  <1>4. L \in SUBSET SoundLinks(w, e) /\ Extension(w, e, h, L)
    OBVIOUS
  <1>5. IsDag(h)
    BY ExtensionIsDag
  <1>6. \A x \in VerticesOf(e) : timing(w, x) \in Nat
    BY VerticesAreEvents
  <1> HIDE DEF L
  <1>7. ASSUME NEW k \in DOMAIN v
        PROVE  /\ v[k] \in Edge /\ IsForward(v[k]) /\ v[k].cost = 0
               /\ {v[k].u, v[k].v} \subseteq VerticesOf(e)
               /\ v[k].weight = timing(w, v[k].v) - timing(w, v[k].u)
               /\ v[k].weight >= 0
               /\ \A j \in DOMAIN h \ {Len(e) + k} : <<h[j].u, h[j].v>> # <<v[k].u, v[k].v>>
    <2> DEFINE m == Len(e) + k
    <2>1. v[k] = h[m] /\ m \in DOMAIN h /\ m \notin DOMAIN e
      BY <1>1, <1>2
    <2>2. IsEdgeOf(w, e, h, L, m)
      BY <1>4, <2>1, EdgesAre
    <2> HIDE DEF m
    <2>3. /\ h[m].u \in VerticesOf(e) /\ h[m].v \in VerticesOf(e)
          /\ timing(w, h[m].u) <= timing(w, h[m].v)
          /\ h[m].cost = 0 /\ h[m].weight = timing(w, h[m].v) - timing(w, h[m].u)
          /\ \A j \in DOMAIN h : j # m => ~(h[j].u = h[m].u /\ h[j].v = h[m].v)
      BY <2>1, <2>2 DEF IsEdgeOf
    <2>4. h[m] \in Edge /\ IsForward(h[m])
      BY <1>5, <2>1 DEF IsDag
    <2>5. timing(w, h[m].u) \in Nat /\ timing(w, h[m].v) \in Nat
      BY <1>6, <2>3
    <2>6. h[m].weight >= 0
      BY <2>3, <2>5
    <2> QED BY <2>1, <2>3, <2>4, <2>6 DEF m
  <1> QED BY <1>3, <1>7 DEF SoundVirtual, v

-----------------------------------------------------------------------------
(* until an analysis ends the program the graph has no virtual edge *)
NotYetAnalysed ==
  /\ pc \notin {"done", "stopped"} => virtual = <<>> /\ status = "ok" /\ report = NoReport
  /\ pc = "analyze" /\ inst = NoInst => Len(inst_window) = inst_seq /\ inst_seq > 0
  /\ pc = "analyze" /\ inst # NoInst => inst_seq % WINDOW = 0

(* the inductive invariant of the analyses *)
Analysed ==
  /\ SoundGraph /\ Chained(Modelled, edges) /\ NotYetAnalysed
  /\ VirtualEdgesAreSound /\ FailuresExplained /\ ReportAccountsForTheTrace

(* the end of a trace is not an instruction *)
LEMMA NoInstIsNoInstruction ==
  NoInst \notin Trace
PROOF
  <1> SUFFICES ASSUME NoInst \in Trace PROVE FALSE
    OBVIOUS
  <1>1. NoInst \in Instruction
    BY TraceAssumption
  <1>2. "fetch" \in DOMAIN NoInst
    BY <1>1 DEF Instruction
  <1> QED BY <1>2 DEF NoInst

LEMMA AnalysedInit ==
  Init => Analysed
PROOF
  <1> SUFFICES ASSUME Init PROVE Analysed
    OBVIOUS
  <1>1. /\ edges = <<>> /\ virtual = <<>> /\ Modelled = <<>> /\ status = "ok"
        /\ report = NoReport /\ pc = "next"
    BY DEF Init, Modelled
  <1>2. Chained(<<>>, <<>>)
    BY DEF Chained
  <1>3. NotYetAnalysed
    BY <1>1 DEF NotYetAnalysed
  <1>4. VirtualEdgesAreSound
    BY <1>1 DEF VirtualEdgesAreSound
  <1>5. FailuresExplained
    BY <1>1 DEF FailuresExplained
  <1>6. ReportAccountsForTheTrace
    BY <1>1 DEF ReportAccountsForTheTrace
  <1> QED BY SoundGraphInit, <1>1, <1>2, <1>3, <1>4, <1>5, <1>6 DEF Analysed

(***************************************************************************)
(* What analyze_window does to the graph of inst_window.                   *)
(***************************************************************************)
LEMMA AnalysisIsSound ==
  Analysed /\ AnalyzeWindow =>
    (NotYetAnalysed /\ VirtualEdgesAreSound /\ FailuresExplained /\ ReportAccountsForTheTrace)'
PROOF
  <1> SUFFICES ASSUME Analysed, AnalyzeWindow
               PROVE  /\ NotYetAnalysed' /\ VirtualEdgesAreSound'
                      /\ FailuresExplained' /\ ReportAccountsForTheTrace'
    OBVIOUS
  <1> DEFINE w == inst_window
             e == edges
             N == Len(w)
             g == construct_induced_graph(w, e)
             core == longest_path_core(g)
             r == longest_path(w, g, core, Source, Sink)
             es == PathEdges(r.edges, r.path)
             Stops(why) == status' = why /\ pc' = "stopped" /\ report' = report
             Report == [length |-> TotalWeight(es), path |-> r.path,
                        by |-> BottleneckReport(r.edges, r.path)]
  <1>1. /\ pc = "analyze" /\ virtual = <<>> /\ status = "ok" /\ report = NoReport
        /\ SoundGraph /\ Modelled = w /\ Chained(w, e)
        /\ inst = NoInst => N = inst_seq /\ inst_seq > 0
        /\ inst # NoInst => inst_seq % WINDOW = 0
    BY DEF Analysed, NotYetAnalysed, AnalyzeWindow, Modelled
  <1>2. IsGraphOf(w, e) /\ e \in Seq(Edge) /\ N \in Nat /\ DOMAIN w = 1 .. N
    BY <1>1 DEF SoundGraph, TypeOK, ReadsATrace, IsGraphOf
  <1>3. Graph = e
    BY <1>1, <1>2 DEF Graph
  <1>4. /\ UNCHANGED <<inst_seq, inst, inst_window, edges>>
        /\ \/ core = <<>> /\ Added(g) /\ Stops("crash")
           \/ core # <<>> /\ Sink \notin VerticesOf(g) /\ Added(g) /\ Stops("no_sink")
           \/ /\ core # <<>> /\ Sink \in VerticesOf(g) /\ Added(r.edges)
              /\ \/ ~Connected(r.edges, r.path) /\ Stops("no_edge")
                 \/ TotalWeight(es) # GoldenLength /\ Stops("assert")
                 \/ /\ TotalWeight(es) = GoldenLength /\ report' = Report
                    /\ pc' = (IF inst = NoInst THEN "done" ELSE "model") /\ status' = status
    <2>1. construct_induced_graph(inst_window, Graph) = g
      BY <1>3
    <2> HIDE DEF g
    <2> QED BY <2>1, Zenon DEF AnalyzeWindow, Profile, Stop
  <1>5. /\ Extension(w, e, g, InducedLinks(w, e)) /\ Extension(w, e, g, SoundLinks(w, e))
        /\ VerticesOf(g) = VerticesOf(e)
    <2>1. Extension(w, e, g, InducedLinks(w, e))
      BY <1>2, InducedGraphIs
    <2>2. InducedLinks(w, e) \subseteq SoundLinks(w, e)
      BY <1>2, LinksAre
    <2>3. Extension(w, e, g, SoundLinks(w, e))
      BY <2>1, <2>2, ExtensionGrows
    <2> QED BY <1>2, <2>1, <2>3, ExtensionIsDag
  <1> HIDE DEF g, core
  <1>6. ASSUME NEW h, Extension(w, e, h, SoundLinks(w, e)), Added(h)
        PROVE  VirtualEdgesAreSound'
    <2>1. SoundVirtual(w, e, SubSeq(h, Len(e) + 1, Len(h)))
      BY <1>2, <1>6, AddedEdgesAreSound
    <2>2. SoundVirtual(w, e, virtual')
      BY <1>6, <2>1 DEF Added
    <2>3. SoundVirtual(w, e, virtual') = VirtualEdgesAreSound'
      BY <1>4 DEF SoundVirtual, VirtualEdgesAreSound, Graph
    <2> QED BY <2>2, <2>3
  <1>7. ASSUME NEW why, Stops(why)
        PROVE  NotYetAnalysed' /\ ReportAccountsForTheTrace'
    BY <1>1, <1>7 DEF NotYetAnalysed, ReportAccountsForTheTrace
  <1>8. CASE core = <<>> /\ Added(g) /\ Stops("crash")
    <2>1. \A k \in DOMAIN e : e[k].cost = 0
      BY <1>2, <1>5, <1>8, EmptyCoreIsFree DEF core
    <2>2. FailuresExplained'
      BY <1>4, <1>8, <2>1 DEF FailuresExplained
    <2> QED BY <1>5, <1>6, <1>7, <1>8, <2>2
  <1>9. CASE Sink \notin VerticesOf(g) /\ Added(g) /\ Stops("no_sink")
    <2>1. inst # NoInst
      <3> SUFFICES ASSUME inst = NoInst PROVE Sink \in VerticesOf(g)
        BY <1>9
      <3> DEFINE p == Pipeline(w[N])
                 k == Len(p)
      <3>1. N \in DOMAIN w /\ Sink = <<N, "C">>
        BY <1>1, <1>2 DEF Sink
      <3>2. w[N] \in Instruction
        BY <1>2, <3>1 DEF IsGraphOf, IsTrace
      <3>3. k \in 1 .. Len(p) /\ p[k] = "C"
        BY <3>2, PipelineIs
      <3>4. <<N, p[k]>> \in VerticesOf(e)
        <4> HIDE DEF k, N
        <4> QED BY <1>2, <3>1, <3>3, StagesAreVertices
      <3> QED BY <1>5, <3>1, <3>3, <3>4
    <2>2. Pending /\ N + 1 = inst_seq /\ inst_seq \in Nat
      BY <1>1, <2>1 DEF Pending, SoundGraph, Numbered, TypeOK
    <2>3. inst_seq % WINDOW = 0 /\ N = inst_seq - 1
      <3>1. inst_seq % WINDOW = 0
        BY <1>1, <2>1, Zenon
      <3> HIDE DEF N
      <3>2. N = inst_seq - 1
        BY <1>2, <2>2
      <3> QED BY <3>1, <3>2
    <2>4. FailuresExplained'
      BY <1>4, <1>9, <2>3 DEF FailuresExplained
    <2> QED BY <1>5, <1>6, <1>7, <1>9, <2>4
  <1>10. CASE /\ core # <<>> /\ Sink \in VerticesOf(g) /\ Added(r.edges)
              /\ \/ ~Connected(r.edges, r.path) /\ Stops("no_edge")
                 \/ TotalWeight(es) # GoldenLength /\ Stops("assert")
                 \/ /\ TotalWeight(es) = GoldenLength /\ report' = Report
                    /\ pc' = (IF inst = NoInst THEN "done" ELSE "model") /\ status' = status
    <2>1. inst = NoInst
      <3> SUFFICES ASSUME inst # NoInst PROVE FALSE
        OBVIOUS
      <3>1. Pending /\ N + 1 = inst_seq
        BY <1>1 DEF Pending, SoundGraph, Numbered
      <3>2. Sink[1] \in DOMAIN w
        BY <1>2, <1>5, <1>10, VerticesAreEvents
      <3> QED BY <1>2, <3>1, <3>2 DEF Sink
    <2>2. N = inst_seq /\ N > 0 /\ Sink = <<N, "C">>
      BY <1>1, <2>1 DEF Sink
    <2>3. g # <<>>
      BY <1>10 DEF VerticesOf
    <2>4. IsCritical(w, e, r.edges, r.path)
      BY <1>2, <1>5, <1>10, <2>2, <2>3, LongestPathIs DEF core
    <2> DEFINE h == r.edges
               path == r.path
    <2> HIDE DEF r
    <2>5. /\ Extension(w, e, h, SoundLinks(w, e)) /\ IsWalk(h, path)
          /\ path[1] = Source /\ path[Len(path)] = Sink /\ h \in Seq(Edge)
      BY <2>2, <2>4 DEF IsCritical, LeadsFrom, Extension
    <2>6. VirtualEdgesAreSound'
      BY <1>6, <1>10, <2>5
    <2>7. Connected(h, path)
      BY <2>5 DEF IsWalk, Connected
    <2>8. /\ \A k \in 1 .. Len(path) - 1 : timing(w, path[k]) <= timing(w, path[k + 1])
          /\ (\A k \in DOMAIN e : ~IsLoadCommit(w, e[k])) => TotalWeight(es) = GoldenLength
      <3> HIDE DEF h, path
      <3>1. IsCritical(w, e, h, path)
        BY <2>4 DEF h, path
      <3>2. es = PathEdges(h, path)
        BY DEF h, path
      <3> QED BY <1>2, <2>2, <3>1, <3>2, CriticalPathIs DEF GoldenLength
    <2>9. CASE TotalWeight(es) # GoldenLength /\ Stops("assert")
      <3>1. \E k \in DOMAIN e : IsLoadCommit(w, e[k])
        BY <2>8, <2>9
      <3>2. FailuresExplained'
        BY <1>4, <2>9, <3>1 DEF FailuresExplained
      <3> QED BY <1>7, <2>6, <2>9, <3>2
    <2>10. CASE /\ TotalWeight(es) = GoldenLength /\ report' = Report
                /\ pc' = (IF inst = NoInst THEN "done" ELSE "model") /\ status' = status
      <3>1. pc' = "done" /\ status' = "ok" /\ NotYetAnalysed' /\ FailuresExplained'
        BY <1>1, <2>1, <2>10 DEF NotYetAnalysed, FailuresExplained
      <3> DEFINE by == BottleneckReport(h, path)
      <3>2. report'.path = path /\ report'.by = by
        BY <2>10
      <3>3. ReportSum(by) = GoldenLength
        <4>1. es \in Seq(Edge)
          BY <2>5, PathEdgesAre
        <4>2. by = [b \in Bottlenecks |-> Share(es, b)]
          BY ReportIs
        <4> HIDE DEF by, es
        <4>3. ReportSum(by) = AddUp(by)
          BY ReportSumIs
        <4> QED BY <2>10, <4>1, <4>2, <4>3, SharesAddUp
      <3> HIDE DEF by, path, h
      <3>4. ReportSum(report'.by) = GoldenLength
        BY <3>2, <3>3
      <3>6. GoldenLength' = GoldenLength /\ Sink' = Sink /\ inst_window' = w
        BY <1>4 DEF GoldenLength, Sink
      <3>7. ReportAccountsForTheTrace'
        <4>1. Source' = Source
          BY DEF Source
        <4>2. /\ report'.path[1] = Source' /\ report'.path[Len(report'.path)] = Sink'
              /\ \A k \in 1 .. Len(report'.path) - 1 :
                    timing(inst_window', report'.path[k]) <= timing(inst_window', report'.path[k + 1])
          BY <2>5, <2>8, <3>2, <3>6, <4>1
        <4>3. ReportSum(report'.by) = GoldenLength'
          BY <3>4, <3>6
        <4> QED BY <3>1, <4>2, <4>3, Zenon DEF ReportAccountsForTheTrace
      <3> QED BY <2>6, <3>1, <3>7
    <2> QED BY <1>10, <2>7, <2>9, <2>10
  <1> QED BY <1>4, <1>8, <1>9, <1>10

(* every step of run() preserves the invariant of the analyses *)
LEMMA AnalysedNext ==
  Analysed /\ [Next]_vars => Analysed'
PROOF
  <1> SUFFICES ASSUME Analysed, [Next]_vars PROVE Analysed'
    OBVIOUS
  <1>1. SoundGraph /\ SoundGraph' /\ Chained(Modelled, edges) /\ NotYetAnalysed
    BY SoundGraphNext DEF Analysed
  <1>2. edges \in Seq(Edge) /\ edges \in Seq(SoundEdges(Modelled)) /\ inst_seq \in Nat
    BY <1>1 DEF SoundGraph, TypeOK
  <1>3. ASSUME NotYetAnalysed', virtual' = <<>>, status' = "ok", report' = NoReport,
               Chained(Modelled', edges')
        PROVE  Analysed'
    <2>1. VirtualEdgesAreSound'
      BY <1>3 DEF VirtualEdgesAreSound
    <2>2. FailuresExplained'
      BY <1>3 DEF FailuresExplained
    <2>3. ReportAccountsForTheTrace'
      BY <1>3 DEF ReportAccountsForTheTrace
    <2> QED BY <1>1, <1>3, <2>1, <2>2, <2>3 DEF Analysed
  <1>4. CASE NextInst
    <2>1. /\ pc = "next" /\ inst' \in Trace /\ inst_seq' = inst_seq + 1
          /\ pc' = (IF inst_seq' % WINDOW = 0 THEN "analyze" ELSE "model")
          /\ UNCHANGED <<inst_window, edges, virtual, status, report>>
      BY <1>4 DEF NextInst
    <2>2. virtual' = <<>> /\ status' = "ok" /\ report' = NoReport
      BY <1>1, <2>1 DEF NotYetAnalysed
    <2>3. inst' # NoInst
      BY <2>1, NoInstIsNoInstruction
    <2>4. NotYetAnalysed'
      BY <2>1, <2>2, <2>3 DEF NotYetAnalysed
    <2>5. Modelled' = Modelled
      BY <2>1 DEF Modelled
    <2>6. Chained(Modelled', edges')
      BY <1>1, <2>1, <2>5
    <2> QED BY <1>3, <2>2, <2>4, <2>6
  <1>5. CASE EndOfTrace
    <2>1. /\ pc = "next" /\ inst' = NoInst
          /\ pc' = (IF inst_seq = 0 THEN "done" ELSE "analyze")
          /\ UNCHANGED <<inst_seq, inst_window, edges, virtual, status, report>>
      BY <1>5 DEF EndOfTrace
    <2>2. virtual' = <<>> /\ status' = "ok" /\ report' = NoReport
      BY <1>1, <2>1 DEF NotYetAnalysed
    <2>3. Len(inst_window) = inst_seq
      BY <1>1, <2>1 DEF SoundGraph, Numbered
    <2>4. NotYetAnalysed'
      BY <1>2, <2>1, <2>2, <2>3 DEF NotYetAnalysed
    <2>5. Modelled' = Modelled
      BY <2>1 DEF Modelled
    <2>6. Chained(Modelled', edges')
      BY <1>1, <2>1, <2>5
    <2> QED BY <1>3, <2>2, <2>4, <2>6
  <1>6. CASE Model
    <2> DEFINE y == Append(inst_window, inst)
    <2>1. /\ pc = "model" /\ pc' = "interact" /\ edges' = edges \o Horizontal(inst, inst_seq)
          /\ UNCHANGED <<inst_seq, inst, inst_window, virtual, status, report>>
      BY <1>6 DEF Model
    <2>2. virtual' = <<>> /\ status' = "ok" /\ report' = NoReport /\ NotYetAnalysed'
      BY <1>1, <2>1 DEF NotYetAnalysed
    <2>3. Pending /\ Modelled = inst_window /\ Modelled' = y
      BY <2>1 DEF Pending, Modelled
    <2>4. IsTrace(inst_window) /\ IsTrace(y) /\ inst_seq = Len(inst_window) + 1
      BY <1>1, <2>3 DEF SoundGraph, ReadsATrace, Numbered
    <2>5. Chained(y, edges')
      <3>1. y = Append(inst_window, inst)
        OBVIOUS
      <3> HIDE DEF y
      <3> QED BY <1>1, <1>2, <2>1, <2>3, <2>4, <3>1, ModelChains
    <2> QED BY <1>3, <2>2, <2>3, <2>5
  <1>7. CASE ModelInteraction
    <2> DEFINE y == Append(inst_window, inst)
    <2>1. /\ pc = "interact" /\ pc' = "next" /\ edges' = edges \o Interaction(y)
          /\ inst_window' = y /\ UNCHANGED <<inst_seq, inst, virtual, status, report>>
      BY <1>7 DEF ModelInteraction
    <2>2. virtual' = <<>> /\ status' = "ok" /\ report' = NoReport /\ NotYetAnalysed'
      BY <1>1, <2>1 DEF NotYetAnalysed
    <2>3. Pending /\ Modelled = y /\ Modelled' = y
      BY <2>1 DEF Pending, Modelled
    <2>4. IsTrace(y)
      BY <1>1, <2>3 DEF SoundGraph, ReadsATrace
    <2> HIDE DEF y
    <2>5. Interaction(y) \in Seq(SkewedEdges(y))
      BY <2>4, InteractionIsSound
    <2>6. Chained(y, edges')
      BY <1>1, <1>2, <2>1, <2>3, <2>5, InteractionChains
    <2> QED BY <1>3, <2>2, <2>3, <2>6
  <1>8. CASE AnalyzeWindow
    <2>1. /\ NotYetAnalysed' /\ VirtualEdgesAreSound'
          /\ FailuresExplained' /\ ReportAccountsForTheTrace'
      BY <1>8, AnalysisIsSound
    <2>2. pc = "analyze" /\ edges' = edges /\ inst_window' = inst_window /\ pc' # "interact"
      BY <1>8, Zenon DEF AnalyzeWindow, Profile, Stop
    <2>3. Modelled' = Modelled
      BY <2>2 DEF Modelled
    <2>4. Chained(Modelled', edges')
      BY <1>1, <2>2, <2>3
    <2> QED BY <1>1, <2>1, <2>4 DEF Analysed
  <1>9. CASE UNCHANGED vars
    <2>1. /\ Modelled' = Modelled /\ edges' = edges /\ NotYetAnalysed'
      BY <1>1, <1>9 DEF vars, Modelled, NotYetAnalysed
    <2>2. VirtualEdgesAreSound'
      BY <1>9 DEF Analysed, vars, VirtualEdgesAreSound, Graph
    <2>3. FailuresExplained'
      BY <1>9 DEF Analysed, vars, FailuresExplained
    <2>4. ReportAccountsForTheTrace'
      BY <1>9 DEF Analysed, vars, ReportAccountsForTheTrace, Sink, Source, GoldenLength
    <2>5. Chained(Modelled', edges')
      BY <1>1, <2>1
    <2> QED BY <1>1, <2>1, <2>2, <2>3, <2>4, <2>5 DEF Analysed
  <1> QED BY <1>4, <1>5, <1>6, <1>7, <1>8, <1>9 DEF Next, Finished

LEMMA AnalysedInvariant ==
  Spec => []Analysed
PROOF
  <1> QED BY AnalysedInit, AnalysedNext, PTL DEF Spec

(***************************************************************************)
(* construct_induced_graph and longest_path_impl add virtual edges that    *)
(* keep the graph free of cycles, measure time, cost nothing and run       *)
(* beside no other edge, for every trace and every WINDOW.                 *)
(***************************************************************************)
THEOREM VirtualEdgesSound == Spec => []VirtualEdgesAreSound
PROOF
  <1>1. Analysed => VirtualEdgesAreSound
    BY DEF Analysed
  <1> QED BY <1>1, AnalysedInvariant, PTL

(***************************************************************************)
(* analyze_window ends the program only when no interaction costs          *)
(* anything, when the window is full and its last instruction is not yet   *)
(* modelled, or when a load waited for its data; the critical path it      *)
(* computes never lacks an edge.                                           *)
(***************************************************************************)
THEOREM FailuresAreExplained == Spec => []FailuresExplained
PROOF
  <1>1. Analysed => FailuresExplained
    BY DEF Analysed
  <1> QED BY <1>1, AnalysedInvariant, PTL

(***************************************************************************)
(* The critical path of a report leads from the first fetch to the last    *)
(* commit and never back in time, and profiling_critical_path divides the  *)
(* whole time of the trace among the bottlenecks.                          *)
(***************************************************************************)
THEOREM ReportsAccountForTheTrace == Spec => []ReportAccountsForTheTrace
PROOF
  <1>1. Analysed => ReportAccountsForTheTrace
    BY DEF Analysed
  <1> QED BY <1>1, AnalysedInvariant, PTL
=============================================================================
