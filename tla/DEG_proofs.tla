------------------------------ MODULE DEG_proofs ------------------------------
(***************************************************************************)
(* Facts about the edges of the graph, for every executed instruction and  *)
(* every window of instructions.                                           *)
(***************************************************************************)
EXTENDS DEG, SequenceTheorems, WellFoundedInduction, TLAPS

(* an edge of O3Graph::model: to the next stage of the pipeline, at no cost *)
IsHorizontal(w, d) ==
  /\ d.u[1] = d.v[1] /\ d.cost = 0
  /\ \E k \in 1 .. Len(Pipeline(w[d.u[1]])) - 1 :
       d.u[2] = Pipeline(w[d.u[1]])[k] /\ d.v[2] = Pipeline(w[d.u[1]])[k + 1]

(* an edge of model_interaction: to a younger instruction, at the cost of the delay *)
TailStages == {"P", "R", "I", "DI"}
HeadStages == {"F1", "R", "I", "DI"}

IsSkewed(d) ==
  d.u[1] < d.v[1] /\ d.cost = d.weight /\ d.u[2] \in TailStages /\ d.v[2] \in HeadStages

(* the edges a graph of the instructions w may have *)
SoundEdges(w) ==
  {d \in Edge : /\ IsForward(d) /\ IsAttached(w, d) /\ MeasuresTime(w, d) /\ IsNonNegative(d)
                /\ IsHorizontal(w, d) \/ IsSkewed(d)}

SkewedEdges(w) == {d \in SoundEdges(w) : IsSkewed(d)}

(* the instructions of w could be a trace *)
IsTrace(w) ==
  /\ w \in Seq(Instruction)
  /\ \A k \in DOMAIN w : Executed(w[k])
  /\ \A k, j \in DOMAIN w : k < j =>
       /\ w[k].rename <= w[j].rename
       /\ w[k].fetch_cache_line <= w[j].fetch_cache_line
       /\ w[k].commit <= w[j].commit
       /\ raw_dep(w[j], w[k]) => w[k].issue <= w[j].issue

(***************************************************************************)
(* A non-empty set of positions has a largest and a smallest member.       *)
(***************************************************************************)
LEMMA LargestExists ==
  ASSUME NEW n \in Nat, NEW S \in SUBSET (1 .. n), S # {}
  PROVE  \E k \in S : \A j \in S : j <= k
PROOF
  <1> DEFINE T == {m \in Nat : \E k \in S : m = n - k}
  <1>1. T \subseteq Nat
    OBVIOUS
  <1>2. T # {}
    <2>1. PICK k \in S : TRUE
      OBVIOUS
    <2>2. n - k \in Nat
      BY <2>1
    <2> QED BY <2>1, <2>2
  <1>3. PICK x \in T : \A y \in T : ~(<<y, x>> \in OpToRel(<, Nat))
    <2> HIDE DEF T
    <2> QED BY <1>1, <1>2, NatLessThanWellFounded, WFMin
  <1>4. \A y \in T : ~(y < x)
    BY <1>1, <1>3 DEF OpToRel
  <1>5. PICK k \in S : x = n - k
    BY <1>3
  <1>6. ASSUME NEW j \in S PROVE j <= k
    <2>1. n - j \in T
      OBVIOUS
    <2> QED BY <1>4, <1>5, <2>1
  <1> QED BY <1>5, <1>6

LEMMA SmallestExists ==
  ASSUME NEW n \in Nat, NEW S \in SUBSET (1 .. n), S # {}
  PROVE  \E k \in S : \A j \in S : k <= j
PROOF
  <1>1. S \subseteq Nat
    OBVIOUS
  <1>2. PICK x \in S : \A y \in S : ~(<<y, x>> \in OpToRel(<, Nat))
    BY <1>1, NatLessThanWellFounded, WFMin
  <1>3. \A y \in S : ~(y < x)
    BY <1>1, <1>2 DEF OpToRel
  <1>4. ASSUME NEW y \in S PROVE x <= y
    BY <1>1, <1>3
  <1> QED BY <1>4

(***************************************************************************)
(* Nearest, the end of the search of inst_window, is the largest member of *)
(* a non-empty set of positions.                                           *)
(***************************************************************************)
LEMMA NearestIsMember ==
  ASSUME NEW n \in Nat, NEW S \in SUBSET (1 .. n), S # {}
  PROVE  Nearest(S) \in S
PROOF
  BY LargestExists DEF Nearest

-----------------------------------------------------------------------------
(* two stages that follow each other in the pipeline of i *)
IsStep(i, a, b) ==
  \/ i.process_cache_completion = i.fetch /\ a = "F1" /\ b = "F2F"
  \/ i.process_cache_completion = i.fetch /\ a = "F2F" /\ b = "D"
  \/ a = "F1" /\ b = "F2"
  \/ a = "F2" /\ b = "F"
  \/ a = "F" /\ b = "D"
  \/ a = "D" /\ b = "R"
  \/ i.dispatch = i.issue /\ a = "R" /\ b = "DI"
  \/ a = "R" /\ b = "DS"
  \/ a = "DS" /\ b = "I"
  \/ i.dispatch = i.issue /\ a = "DI" /\ b = BackEnd(i)[1]
  \/ a = "I" /\ b = BackEnd(i)[1]
  \/ is_mem(i) /\ a = "MP" /\ b = "C"
  \/ is_load(i) /\ a = "M" /\ b = "P"
  \/ a = "P" /\ b = "C"

(***************************************************************************)
(* The three parts of a pipeline, as O3Graph::model chains them.           *)
(***************************************************************************)
LEMMA FrontEndIs ==
  ASSUME NEW i \in Instruction
  PROVE  LET f == FrontEnd(i) IN
         /\ f \in Seq(Stages) /\ Len(f) \in {4, 5} /\ f[1] = "F1" /\ f[Len(f)] = "R"
         /\ \A k \in 1 .. Len(f) - 1 : IsStep(i, f[k], f[k+1])
PROOF
  <1>1. CASE i.process_cache_completion = i.fetch
    <2>1. FrontEnd(i) = <<"F1", "F2F", "D", "R">>
      BY <1>1 DEF FrontEnd
    <2>2. Len(FrontEnd(i)) = 4
      BY <2>1
    <2>3. FrontEnd(i) \in Seq(Stages)
      BY <2>1 DEF Stages
    <2>4. \A k \in 1 .. 3 : k = 1 \/ k = 2 \/ k = 3
      OBVIOUS
    <2> QED BY <1>1, <2>1, <2>2, <2>3, <2>4 DEF IsStep
  <1>2. CASE i.process_cache_completion # i.fetch
    <2>1. FrontEnd(i) = <<"F1", "F2", "F", "D", "R">>
      BY <1>2 DEF FrontEnd
    <2>2. Len(FrontEnd(i)) = 5
      BY <2>1
    <2>3. FrontEnd(i) \in Seq(Stages)
      BY <2>1 DEF Stages
    <2>4. \A k \in 1 .. 4 : k = 1 \/ k = 2 \/ k = 3 \/ k = 4
      OBVIOUS
    <2> QED BY <2>1, <2>2, <2>3, <2>4 DEF IsStep
  <1> QED BY <1>1, <1>2

(* dispatch and issue: one merged vertex or two, as O3Graph::model adds them *)
LEMMA WindowIs ==
  ASSUME NEW i \in Instruction
  PROVE  LET x == Window(i) IN
         /\ x \in Seq(Stages)
         /\ \/ Len(x) = 1 /\ x[1] = "DI" /\ i.dispatch = i.issue
            \/ Len(x) = 2 /\ x[1] = "DS" /\ x[2] = "I"
PROOF
  <1>1. CASE i.dispatch = i.issue
    <2>1. Window(i) = <<"DI">>
      BY <1>1 DEF Window
    <2> QED BY <1>1, <2>1 DEF Stages
  <1>2. CASE i.dispatch # i.issue
    <2>1. Window(i) = <<"DS", "I">>
      BY <1>2 DEF Window
    <2> QED BY <2>1 DEF Stages
  <1> QED BY <1>1, <1>2

(* memory access, completion and commit, as O3Graph::model adds them *)
LEMMA BackEndIs ==
  ASSUME NEW i \in Instruction
  PROVE  LET b == BackEnd(i) IN
         /\ b \in Seq(Stages)
         /\ \/ /\ Len(b) = 2 /\ b[1] = "MP" /\ b[2] = "C" /\ is_mem(i)
               /\ is_load(i) => i.memory = i.complete_memory
            \/ Len(b) = 3 /\ b[1] = "M" /\ b[2] = "P" /\ b[3] = "C" /\ is_load(i)
            \/ Len(b) = 2 /\ b[1] = "P" /\ b[2] = "C" /\ ~is_mem(i)
PROOF
  <1>1. CASE is_store(i) \/ (is_load(i) /\ i.memory = i.complete_memory)
    <2>1. BackEnd(i) = <<"MP", "C">>
      BY <1>1 DEF BackEnd
    <2>2. is_load(i) => i.memory = i.complete_memory
      BY <1>1 DEF is_store, is_load, MemReads, MemWrites
    <2> QED BY <1>1, <2>1, <2>2 DEF Stages, is_mem
  <1>2. CASE ~is_store(i) /\ is_load(i) /\ i.memory # i.complete_memory
    <2>1. BackEnd(i) = <<"M", "P", "C">>
      BY <1>2 DEF BackEnd
    <2> QED BY <1>2, <2>1 DEF Stages
  <1>3. CASE ~is_store(i) /\ ~is_load(i)
    <2>1. BackEnd(i) = <<"P", "C">>
      BY <1>3 DEF BackEnd
    <2> QED BY <1>3, <2>1 DEF Stages, is_mem
  <1> QED BY <1>1, <1>2, <1>3

(***************************************************************************)
(* The pipeline: its stages, its length, and every two that follow each    *)
(* other.                                                                  *)
(***************************************************************************)
LEMMA PipelineIs ==
  ASSUME NEW i \in Instruction
  PROVE  LET p == Pipeline(i) IN
         /\ p \in Seq(Stages) /\ Len(p) \in 7 .. 10 /\ p[1] = "F1" /\ p[Len(p)] = "C"
         /\ \A k \in 1 .. Len(p) - 1 : IsStep(i, p[k], p[k+1])
         /\ {"F1", "R", BackEnd(i)[1]} \subseteq PipelineStages(i)
         /\ "I" \in PipelineStages(i) \/ "DI" \in PipelineStages(i)
PROOF
  <1> DEFINE f == FrontEnd(i)
             x == Window(i)
             b == BackEnd(i)
             p == Pipeline(i)
  <1>1. /\ f \in Seq(Stages) /\ Len(f) \in {4, 5} /\ f[1] = "F1" /\ f[Len(f)] = "R"
        /\ \A k \in 1 .. Len(f) - 1 : IsStep(i, f[k], f[k+1])
    BY FrontEndIs
  <1>2. /\ x \in Seq(Stages)
        /\ \/ Len(x) = 1 /\ x[1] = "DI" /\ i.dispatch = i.issue
           \/ Len(x) = 2 /\ x[1] = "DS" /\ x[2] = "I"
    BY WindowIs
  <1>3. /\ b \in Seq(Stages)
        /\ \/ Len(b) = 2 /\ b[1] = "MP" /\ b[2] = "C" /\ is_mem(i)
           \/ Len(b) = 3 /\ b[1] = "M" /\ b[2] = "P" /\ b[3] = "C" /\ is_load(i)
           \/ Len(b) = 2 /\ b[1] = "P" /\ b[2] = "C"
    BY BackEndIs
  <1>4. p = f \o x \o b
    BY DEF Pipeline
  <1> HIDE DEF f, x, b, p
  <1> DEFINE q == f \o x
  <1>5. /\ q \in Seq(Stages) /\ Len(q) = Len(f) + Len(x)
        /\ \A k \in 1 .. Len(f) + Len(x) : q[k] = IF k <= Len(f) THEN f[k] ELSE x[k - Len(f)]
    BY <1>1, <1>2, ConcatProperties
  <1> HIDE DEF q
  <1>6. /\ p \in Seq(Stages) /\ Len(p) = Len(q) + Len(b)
        /\ \A k \in 1 .. Len(q) + Len(b) : p[k] = IF k <= Len(q) THEN q[k] ELSE b[k - Len(q)]
    BY <1>3, <1>4, <1>5, ConcatProperties DEF q
  <1>7. PICK nf \in 4 .. 5, nx \in 1 .. 2, nb \in 2 .. 3 :
             Len(f) = nf /\ Len(x) = nx /\ Len(b) = nb
    BY <1>1, <1>2, <1>3
  <1>8. /\ Len(q) = nf + nx /\ Len(p) = nf + nx + nb
        /\ \A k \in 1 .. nf + nx : q[k] = IF k <= nf THEN f[k] ELSE x[k - nf]
        /\ \A k \in 1 .. nf + nx + nb : p[k] = IF k <= nf + nx THEN q[k] ELSE b[k - (nf + nx)]
    BY <1>5, <1>6, <1>7
  <1>9. Len(p) \in 7 .. 10
    BY <1>8
  <1>10. ASSUME NEW k \in 1 .. Len(p) - 1 PROVE IsStep(i, p[k], p[k+1])
    <2>0. k \in Int /\ 1 <= k /\ k < nf + nx + nb
      BY <1>8
    <2>1. CASE k < nf
      <3>1. p[k] = f[k] /\ p[k+1] = f[k+1]
        BY <1>8, <2>0, <2>1
      <3> QED BY <1>1, <1>7, <2>0, <2>1, <3>1
    <2>2. CASE k = nf
      <3>1. p[k] = "R" /\ p[k+1] = x[1]
        BY <1>1, <1>7, <1>8, <2>2
      <3> QED BY <1>2, <3>1 DEF IsStep
    <2>3. CASE k > nf /\ k < nf + nx
      <3>1. nx = 2 /\ k = nf + 1
        BY <2>0, <2>3
      <3>2. p[k] = x[1] /\ p[k+1] = x[2]
        BY <1>8, <3>1
      <3> QED BY <1>2, <1>7, <3>1, <3>2 DEF IsStep
    <2>4. CASE k = nf + nx
      <3>1. p[k] = x[nx]
        BY <1>8, <2>4
      <3>2. p[k+1] = b[1]
        BY <1>8, <2>4
      <3> QED BY <1>2, <1>7, <3>1, <3>2 DEF IsStep, b
    <2>5. CASE k > nf + nx
      <3>1. PICK j \in 1 .. 2 : k = nf + nx + j /\ (j = 1 \/ (j = 2 /\ nb = 3))
        BY <2>0, <2>5
      <3>2. p[k] = b[j] /\ p[k+1] = b[j+1]
        BY <1>8, <2>0, <3>1
      <3> QED BY <1>3, <1>7, <3>1, <3>2 DEF IsStep
    <2> QED BY <2>0, <2>1, <2>2, <2>3, <2>4, <2>5
  <1>11. /\ p[1] = "F1" /\ p[nf] = "R" /\ p[nf + nx] = x[nx]
         /\ p[nf + nx + 1] = b[1]
    BY <1>1, <1>7, <1>8
  <1>12. 1 \in DOMAIN p /\ nf \in DOMAIN p /\ nf + nx \in DOMAIN p /\ nf + nx + 1 \in DOMAIN p
    <2>1. DOMAIN p = 1 .. nf + nx + nb
      BY <1>6, <1>8
    <2> QED BY <2>1
  <1>13. x[nx] = "DI" \/ x[nx] = "I"
    BY <1>2, <1>7
  <1>14. \A k \in DOMAIN p : p[k] \in PipelineStages(i)
    BY DEF PipelineStages, p
  <1>15. p[Len(p)] = "C"
    BY <1>3, <1>7, <1>8
  <1> QED BY <1>6, <1>9, <1>10, <1>11, <1>12, <1>13, <1>14, <1>15 DEF p, b

-----------------------------------------------------------------------------
(* a horizontal edge from a to b: what from_<a>_to_<b> guarantees *)
SoundStep(i, a, b) ==
  /\ a \in Stages /\ b \in Stages
  /\ Rank[a] < Rank[b]
  /\ HorizontalWeight(i, a, b) \in Nat
  /\ \/ a = "P" /\ b = "C" /\ is_load(i)
     \/ HorizontalWeight(i, a, b) = Timing(i, b) - Timing(i, a)

(***************************************************************************)
(* Every weight of a horizontal edge is the time between its two events,   *)
(* in pipeline order, except for the commit of a load that waited.         *)
(***************************************************************************)
LEMMA StepIsSound ==
  ASSUME NEW i \in Instruction, Executed(i), NEW a, NEW b, IsStep(i, a, b)
  PROVE  SoundStep(i, a, b)
PROOF
  <1> USE DEF SoundStep, Stages, Rank, HorizontalWeight, Timing
  <1> DEFINE Front == /\ i.fetch_cache_line \in Nat /\ i.process_cache_completion \in Nat
                      /\ i.fetch \in Nat /\ i.decode \in Nat /\ i.rename \in Nat
                      /\ i.fetch_cache_line <= i.process_cache_completion
                      /\ i.process_cache_completion <= i.fetch
                      /\ i.fetch <= i.decode /\ i.decode <= i.rename
             Back ==  /\ i.rename \in Nat /\ i.dispatch \in Nat /\ i.issue \in Nat
                      /\ i.complete \in Nat /\ i.commit \in Nat
                      /\ i.rename <= i.dispatch /\ i.dispatch <= i.issue
                      /\ i.issue <= i.complete /\ i.complete <= i.commit
             Mem ==   /\ i.memory \in Nat /\ i.complete_memory \in Nat
                      /\ is_mem(i) => i.memory = i.complete
                      /\ is_load(i) => /\ i.memory <= i.complete_memory
                                       /\ i.complete_memory <= i.commit
  <1>1. Front
    BY DEF Executed, Instruction
  <1>2. Back
    BY DEF Executed, Instruction
  <1>3. Mem
    BY DEF Executed, Instruction
  <1>4. is_load(i) => is_mem(i)
    BY DEF is_mem
  <1>5. CASE a = "F1" /\ b = "F2F" /\ i.process_cache_completion = i.fetch
    BY <1>1, <1>5
  <1>6. CASE a = "F2F" /\ b = "D"
    BY <1>1, <1>6
  <1>7. CASE a = "F1" /\ b = "F2"
    BY <1>1, <1>7
  <1>8. CASE a = "F2" /\ b = "F"
    BY <1>1, <1>8
  <1>9. CASE a = "F" /\ b = "D"
    BY <1>1, <1>9
  <1>10. CASE a = "D" /\ b = "R"
    BY <1>1, <1>10
  <1>11. CASE a = "R" /\ b = "DI"
    BY <1>2, <1>11
  <1>12. CASE a = "R" /\ b = "DS"
    BY <1>2, <1>12
  <1>13. CASE a = "DS" /\ b = "I"
    BY <1>2, <1>13
  <1>14. CASE (a = "I" \/ (a = "DI" /\ i.dispatch = i.issue)) /\ b = BackEnd(i)[1]
    <2>1. CASE b = "MP" /\ is_mem(i)
      BY <1>2, <1>3, <1>14, <2>1
    <2>2. CASE b = "M" /\ is_load(i)
      BY <1>2, <1>3, <1>4, <1>14, <2>2
    <2>3. CASE b = "P" /\ ~is_mem(i)
      BY <1>2, <1>4, <1>14, <2>3
    <2> QED BY <1>14, <2>1, <2>2, <2>3, BackEndIs
  <1>15. CASE a = "MP" /\ b = "C" /\ is_mem(i)
    BY <1>2, <1>3, <1>15
  <1>16. CASE a = "M" /\ b = "P" /\ is_load(i)
    BY <1>3, <1>4, <1>16
  <1>17. CASE a = "P" /\ b = "C"
    BY <1>2, <1>3, <1>17
  <1> QED
    BY <1>5, <1>6, <1>7, <1>8, <1>9, <1>10, <1>11, <1>12, <1>13, <1>14, <1>15, <1>16,
       <1>17 DEF IsStep

(***************************************************************************)
(* O3Graph::model adds sound edges only.                                   *)
(***************************************************************************)
LEMMA HorizontalIsSound ==
  ASSUME NEW w, IsTrace(w), NEW n \in DOMAIN w
  PROVE  Horizontal(w[n], n) \in Seq(SoundEdges(w))
PROOF
  <1> DEFINE i == w[n]
             p == Pipeline(i)
             Weight(k) == HorizontalWeight(i, p[k], p[k+1])
             d(k) == [u |-> <<n, p[k]>>, v |-> <<n, p[k+1]>>, weight |-> Weight(k),
                      cost |-> 0,
                      bottleneck |-> HorizontalBottleneck(p[k], p[k+1], Weight(k))]
  <1>1. w \in Seq(Instruction) /\ Executed(w[n])
    BY DEF IsTrace
  <1>2. i \in Instruction /\ Executed(i) /\ n \in Nat \ {0}
    BY <1>1, LenProperties
  <1>3. /\ p \in Seq(Stages) /\ Len(p) \in 7 .. 10
        /\ \A k \in 1 .. Len(p) - 1 : IsStep(i, p[k], p[k+1])
    <2> HIDE DEF i
    <2> QED BY <1>2, PipelineIs
  <1>4. ASSUME NEW k \in 1 .. Len(p) - 1 PROVE d(k) \in SoundEdges(w)
    <2> DEFINE a == p[k]
               b == p[k+1]
               e == d(k)
    <2>1. SoundStep(i, a, b)
      <3> HIDE DEF i, p
      <3> QED BY <1>2, <1>3, StepIsSound
    <2>2. a \in PipelineStages(i) /\ b \in PipelineStages(i)
      <3>1. k \in DOMAIN p /\ k + 1 \in DOMAIN p
        BY <1>3
      <3> QED BY <3>1 DEF PipelineStages
    <2>3. /\ e.u = <<n, a>> /\ e.v = <<n, b>> /\ e.weight = HorizontalWeight(i, a, b)
          /\ e.cost = 0
      OBVIOUS
    <2> HIDE DEF i, p
    <2>4. e \in Edge
      <3>1. HorizontalBottleneck(a, b, Weight(k)) \in Bottlenecks
        BY DEF HorizontalBottleneck, Bottlenecks
      <3>2. Weight(k) \in Int
        BY <2>1 DEF SoundStep
      <3>3. <<n, a>> \in Vertex /\ <<n, b>> \in Vertex
        BY <1>2, <2>1 DEF SoundStep, Vertex
      <3> HIDE DEF a, b, Weight
      <3> QED BY <3>1, <3>2, <3>3 DEF Edge, a, b
    <2> HIDE DEF a, b, e
    <2>5. IsForward(e)
      BY <2>1, <2>3 DEF SoundStep, IsForward
    <2>6. IsAttached(w, e)
      BY <2>2, <2>3 DEF IsAttached, i
    <2>7. MeasuresTime(w, e)
      BY <2>1, <2>3 DEF SoundStep, MeasuresTime, IsLoadCommit, timing, i
    <2>8. IsNonNegative(e)
      BY <2>1, <2>3 DEF SoundStep, IsNonNegative
    <2>9. IsHorizontal(w, e)
      <3>1. e.u[1] = n /\ e.u[2] = p[k] /\ e.v[1] = n /\ e.v[2] = p[k+1]
        BY <2>3 DEF a, b
      <3> QED BY <2>3, <3>1 DEF IsHorizontal, p, i
    <2> QED BY <2>4, <2>5, <2>6, <2>7, <2>8, <2>9 DEF SoundEdges, e
  <1>5. Horizontal(i, n) = [k \in 1 .. Len(p) - 1 |-> d(k)]
    BY DEF Horizontal
  <1> HIDE DEF d, i, p
  <1>6. Len(p) - 1 \in Nat
    <2>1. PICK m \in 7 .. 10 : Len(p) = m
      BY <1>3
    <2> QED BY <2>1
  <1>7. [k \in 1 .. Len(p) - 1 |-> d(k)] \in Seq(SoundEdges(w))
    BY <1>4, <1>6
  <1> QED BY <1>5, <1>7 DEF i

-----------------------------------------------------------------------------
(***************************************************************************)
(* A skewed edge is sound when it joins two stages that are in the         *)
(* pipelines of an older and a younger instruction, and its weight is the  *)
(* time between them and not negative.                                     *)
(***************************************************************************)
LEMMA SkewedIsSound ==
  ASSUME NEW w, IsTrace(w), NEW k \in DOMAIN w, NEW n \in DOMAIN w, k < n,
         NEW a \in TailStages, NEW b \in HeadStages, NEW c \in Nat, NEW cause \in Bottlenecks,
         a \in PipelineStages(w[k]), b \in PipelineStages(w[n]),
         c = Timing(w[n], b) - Timing(w[k], a)
  PROVE  Skewed(<<k, a>>, <<n, b>>, c, cause) \in Seq(SkewedEdges(w))
PROOF
  <1> DEFINE d == [u |-> <<k, a>>, v |-> <<n, b>>, weight |-> c, cost |-> c,
                   bottleneck |-> cause]
  <1>1. k \in Nat \ {0} /\ n \in Nat \ {0}
    BY DEF IsTrace
  <1>2. d.u = <<k, a>> /\ d.v = <<n, b>> /\ d.weight = c /\ d.cost = c
    OBVIOUS
  <1>3. d \in Edge
    BY <1>1 DEF Edge, Vertex, Stages, TailStages, HeadStages
  <1> HIDE DEF d
  <1>4. IsForward(d) /\ IsAttached(w, d) /\ MeasuresTime(w, d) /\ IsNonNegative(d)
    BY <1>1, <1>2 DEF IsForward, IsAttached, MeasuresTime, timing, IsNonNegative
  <1>5. d \in SkewedEdges(w)
    BY <1>1, <1>2, <1>3, <1>4 DEF SoundEdges, SkewedEdges, IsSkewed
  <1> QED BY <1>5 DEF Skewed, d

(***************************************************************************)
(* get_vertex_from_inst: the rename and fetch events are never merged; the *)
(* issue is in its own vertex or in that of the dispatch.                  *)
(***************************************************************************)
LEMMA VertexOfEvent ==
  ASSUME NEW w, IsTrace(w), NEW k \in DOMAIN w
  PROVE  /\ w[k] \in Instruction /\ Executed(w[k])
         /\ \A s \in {"F1", "R"} : /\ get_vertex_from_inst(w, k, s) = <<k, s>>
                                   /\ s \in PipelineStages(w[k])
         /\ \E s \in {"I", "DI"} : /\ get_vertex_from_inst(w, k, "I") = <<k, s>>
                                   /\ s \in PipelineStages(w[k])
         /\ ~is_mem(w[k]) => /\ get_vertex_from_inst(w, k, "P") = <<k, "P">>
                             /\ "P" \in PipelineStages(w[k])
PROOF
  <1>1. w[k] \in Instruction /\ Executed(w[k])
    BY DEF IsTrace
  <1>2. /\ {"F1", "R", BackEnd(w[k])[1]} \subseteq PipelineStages(w[k])
        /\ "I" \in PipelineStages(w[k]) \/ "DI" \in PipelineStages(w[k])
    BY <1>1, PipelineIs
  <1>3. ~is_mem(w[k]) => BackEnd(w[k])[1] = "P"
    BY <1>1, BackEndIs DEF is_mem
  <1> QED BY <1>1, <1>2, <1>3 DEF get_vertex_from_inst, Merged

(* model_rob, model_lq, model_sq, model_rf and model_iq_interaction_impl *)
LEMMA RenameEdgeIsSound ==
  ASSUME NEW w, IsTrace(w), NEW S \in SUBSET Older(w), NEW cause \in Bottlenecks
  PROVE  RenameEdge(w, S, cause) \in Seq(SkewedEdges(w))
PROOF
  <1>1. CASE S = {}
    BY <1>1, EmptySeq DEF RenameEdge
  <1>2. CASE S # {}
    <2> DEFINE n == Len(w)
               k == Nearest(S)
    <2>1. n \in Nat /\ DOMAIN w = 1 .. n /\ Older(w) = 1 .. n - 1
      BY DEF IsTrace, Older
    <2>2. k \in S
      <3>1. n - 1 \in Nat
        BY <1>2, <2>1
      <3> QED BY <1>2, <2>1, <3>1, NearestIsMember
    <2>3. k \in DOMAIN w /\ n \in DOMAIN w /\ k < n
      BY <2>1, <2>2
    <2> HIDE DEF n, k
    <2>4. /\ get_vertex_from_inst(w, k, "R") = <<k, "R">> /\ "R" \in PipelineStages(w[k])
          /\ get_vertex_from_inst(w, n, "R") = <<n, "R">> /\ "R" \in PipelineStages(w[n])
      BY <2>3, VertexOfEvent
    <2>5. w[k].rename \in Nat /\ w[n].rename \in Nat
      BY <2>3, VertexOfEvent DEF Instruction
    <2>6. w[k].rename <= w[n].rename
      BY <2>3 DEF IsTrace
    <2>7. /\ w[n].rename - w[k].rename \in Nat
          /\ w[n].rename - w[k].rename = Timing(w[n], "R") - Timing(w[k], "R")
      BY <2>5, <2>6 DEF Timing
    <2>8. Skewed(<<k, "R">>, <<n, "R">>, w[n].rename - w[k].rename, cause)
            \in Seq(SkewedEdges(w))
      BY <2>3, <2>4, <2>7, SkewedIsSound DEF TailStages, HeadStages
    <2> QED BY <1>2, <2>4, <2>8 DEF RenameEdge, n, k
  <1> QED BY <1>1, <1>2

(* model_fu and model_raw_interaction_impl, once the instruction is found *)
LEMMA IssueEdgeIsSound ==
  ASSUME NEW w, IsTrace(w), NEW k \in DOMAIN w, NEW n \in DOMAIN w, k < n,
         w[k].issue <= w[n].issue, NEW cause \in Bottlenecks
  PROVE  Skewed(get_vertex_from_inst(w, k, "I"), get_vertex_from_inst(w, n, "I"),
                w[n].issue - w[k].issue, cause) \in Seq(SkewedEdges(w))
PROOF
  <1>1. PICK a \in {"I", "DI"} : /\ get_vertex_from_inst(w, k, "I") = <<k, a>>
                                 /\ a \in PipelineStages(w[k])
    BY VertexOfEvent
  <1>2. PICK b \in {"I", "DI"} : /\ get_vertex_from_inst(w, n, "I") = <<n, b>>
                                 /\ b \in PipelineStages(w[n])
    BY VertexOfEvent
  <1>3. w[k].issue \in Nat /\ w[n].issue \in Nat
    BY VertexOfEvent DEF Instruction
  <1>4. /\ w[n].issue - w[k].issue \in Nat
        /\ w[n].issue - w[k].issue = Timing(w[n], b) - Timing(w[k], a)
    BY <1>3 DEF Timing
  <1>5. a \in TailStages /\ b \in HeadStages
    BY DEF TailStages, HeadStages
  <1> QED BY <1>1, <1>2, <1>4, <1>5, SkewedIsSound

(* model_miss_bp_interaction_impl adds sound edges only *)
LEMMA MissBpIsSound ==
  ASSUME NEW w, IsTrace(w), Len(w) > 1
  PROVE  model_miss_bp_interaction(w) \in Seq(SkewedEdges(w))
PROOF
  <1> DEFINE n == Len(w)
             k == n - 1
  <1>1. n \in DOMAIN w /\ k \in DOMAIN w /\ k < n
    BY DEF IsTrace
  <1> HIDE DEF n
  <1>2. CASE w[k].control /\ w[k].complete < w[n].fetch_cache_line
    <2>1. ~is_mem(w[k]) /\ ~is_load(w[k])
      BY <1>1, <1>2, VertexOfEvent DEF Executed, is_mem
    <2>2. /\ get_vertex_from_inst(w, k, "P") = <<k, "P">> /\ "P" \in PipelineStages(w[k])
          /\ get_vertex_from_inst(w, n, "F1") = <<n, "F1">> /\ "F1" \in PipelineStages(w[n])
      BY <1>1, <2>1, VertexOfEvent
    <2>3. w[k].complete \in Nat /\ w[n].fetch_cache_line \in Nat
      BY <1>1, VertexOfEvent DEF Instruction
    <2> DEFINE c == w[n].fetch_cache_line - w[k].complete
    <2>4. c \in Nat /\ c = Timing(w[n], "F1") - Timing(w[k], "P")
      BY <1>2, <2>1, <2>3 DEF Timing
    <2> HIDE DEF c
    <2>5. Skewed(<<k, "P">>, <<n, "F1">>, c, "BPMiss") \in Seq(SkewedEdges(w))
      <3>1. "P" \in TailStages /\ "F1" \in HeadStages /\ "BPMiss" \in Bottlenecks
        BY DEF TailStages, HeadStages, Bottlenecks
      <3> HIDE DEF k
      <3> QED BY <1>1, <2>2, <2>4, <3>1, SkewedIsSound
    <2> QED BY <1>2, <2>2, <2>5 DEF model_miss_bp_interaction, n, c
  <1>3. CASE ~(w[k].control /\ w[k].complete < w[n].fetch_cache_line)
    BY <1>3, EmptySeq DEF model_miss_bp_interaction, n
  <1> QED BY <1>2, <1>3

(* model_fu_interaction_impl adds sound edges only *)
LEMMA FuIsSound ==
  ASSUME NEW w, IsTrace(w), Len(w) > 1
  PROVE  model_fu_interaction(w) \in Seq(SkewedEdges(w))
PROOF
  <1> DEFINE n == Len(w)
             S == {k \in Older(w) : /\ w[n].issue > w[n].insert_ready_list
                                    /\ w[n].inst_type # "NoOpClass"
                                    /\ HoldsUnit(w[k], w[n])}
             k == Nearest(S)
  <1>1. n \in Nat /\ n - 1 \in Nat /\ DOMAIN w = 1 .. n /\ Older(w) = 1 .. n - 1
    BY DEF IsTrace, Older
  <1>2. CASE S = {}
    BY <1>2, EmptySeq DEF model_fu_interaction, IssueEdge
  <1>3. CASE S # {}
    <2>1. k \in S
      <3>1. S \in SUBSET (1 .. n - 1)
        BY <1>1
      <3> HIDE DEF S, n
      <3> QED BY <1>1, <1>3, <3>1, NearestIsMember
    <2>2. k \in DOMAIN w /\ n \in DOMAIN w /\ k < n /\ w[k].issue < w[n].issue
      <3> HIDE DEF k
      <3> QED BY <1>1, <2>1 DEF HoldsUnit
    <2>3. FunctionalUnit(w[n]) \in Bottlenecks
      BY DEF FunctionalUnit, Bottlenecks
    <2>4. Skewed(get_vertex_from_inst(w, k, "I"), get_vertex_from_inst(w, n, "I"),
                 w[n].issue - w[k].issue, FunctionalUnit(w[n])) \in Seq(SkewedEdges(w))
      <3> HIDE DEF k, n
      <3>1. w[k].issue <= w[n].issue
        <4>1. w[k].issue \in Nat /\ w[n].issue \in Nat
          BY <2>2, VertexOfEvent DEF Instruction
        <4> QED BY <2>2, <4>1
      <3> QED BY <2>2, <2>3, <3>1, IssueEdgeIsSound
    <2> QED BY <1>3, <2>4 DEF model_fu_interaction, IssueEdge
  <1> QED BY <1>2, <1>3

(* model_raw_interaction_impl adds sound edges only: a consumer issues after  *)
(* its producer, which the trace assumption Follows grants                    *)
LEMMA RawIsSound ==
  ASSUME NEW w, IsTrace(w), Len(w) > 1
  PROVE  model_raw_interaction(w) \in Seq(SkewedEdges(w))
PROOF
  <1> DEFINE n == Len(w)
             S == RawProducers(w)
             k == Nearest(S)
             d == w[n].issue - w[k].issue
             cause == IF ~is_load(w[k]) THEN "RAW"
                      ELSE IF d = CacheHitLatency THEN "Base" ELSE "DcacheMiss"
  <1>1. n \in Nat /\ n - 1 \in Nat /\ DOMAIN w = 1 .. n /\ Older(w) = 1 .. n - 1
    BY DEF IsTrace, Older
  <1>2. CASE S = {}
    BY <1>2, EmptySeq DEF model_raw_interaction, IssueEdge
  <1>3. CASE S # {}
    <2>1. k \in S
      <3>1. S \in SUBSET (1 .. n - 1)
        BY <1>1 DEF RawProducers
      <3> HIDE DEF S, n
      <3> QED BY <1>1, <1>3, <3>1, NearestIsMember
    <2>2. k \in DOMAIN w /\ n \in DOMAIN w /\ k < n /\ raw_dep(w[n], w[k])
      <3> HIDE DEF k
      <3> QED BY <1>1, <2>1 DEF RawProducers
    <2>3. w[k].issue <= w[n].issue
      BY <2>2 DEF IsTrace
    <2>4. cause \in Bottlenecks
      BY DEF Bottlenecks
    <2>5. Skewed(get_vertex_from_inst(w, k, "I"), get_vertex_from_inst(w, n, "I"),
                 d, cause) \in Seq(SkewedEdges(w))
      <3> HIDE DEF k, n, cause
      <3> QED BY <2>2, <2>3, <2>4, IssueEdgeIsSound
    <2> QED BY <1>3, <2>5 DEF model_raw_interaction, IssueEdge
  <1> QED BY <1>2, <1>3

(***************************************************************************)
(* O3Graph::model_interaction adds sound edges only.                       *)
(***************************************************************************)
LEMMA InteractionIsSound ==
  ASSUME NEW w, IsTrace(w)
  PROVE  Interaction(w) \in Seq(SkewedEdges(w))
PROOF
  <1> DEFINE E == Seq(SkewedEdges(w))
  <1>1. CASE Len(w) <= 1
    BY <1>1, EmptySeq DEF Interaction
  <1>2. CASE Len(w) > 1
    <2>1. {"ROB", "LQ", "SQ", "IntRF", "FpRF", "IQ"} \subseteq Bottlenecks
      BY DEF Bottlenecks
    <2>2. model_rob_interaction(w) \in E
      BY <2>1, RenameEdgeIsSound DEF model_rob_interaction
    <2>3. model_lq_interaction(w) \in E
      BY <2>1, RenameEdgeIsSound DEF model_lq_interaction
    <2>4. model_sq_interaction(w) \in E
      BY <2>1, RenameEdgeIsSound DEF model_sq_interaction
    <2>5. model_rf_interaction(w) \in E
      BY <2>1, RenameEdgeIsSound DEF model_rf_interaction
    <2>6. model_iq_interaction(w) \in E
      BY <2>1, RenameEdgeIsSound DEF model_iq_interaction
    <2>7. /\ model_miss_bp_interaction(w) \in E /\ model_fu_interaction(w) \in E
          /\ model_raw_interaction(w) \in E
      BY <1>2, MissBpIsSound, FuIsSound, RawIsSound
    <2>8. \A s, t \in E : s \o t \in E
      BY ConcatProperties
    <2>9. ~(Len(w) <= 1)
      BY <1>2 DEF IsTrace
    <2>10. Interaction(w) = model_miss_bp_interaction(w) \o model_rob_interaction(w)
             \o model_lq_interaction(w) \o model_sq_interaction(w)
             \o model_rf_interaction(w) \o model_iq_interaction(w)
             \o model_fu_interaction(w) \o model_raw_interaction(w)
      BY <2>9, Zenon DEF Interaction
    <2> HIDE DEF E
    <2>11. Interaction(w) \in E
      <3> DEFINE e1 == model_miss_bp_interaction(w) \o model_rob_interaction(w)
                 e2 == e1 \o model_lq_interaction(w)
                 e3 == e2 \o model_sq_interaction(w)
                 e4 == e3 \o model_rf_interaction(w)
                 e5 == e4 \o model_iq_interaction(w)
                 e6 == e5 \o model_fu_interaction(w)
                 e7 == e6 \o model_raw_interaction(w)
      <3>1. e1 \in E   BY <2>2, <2>7, <2>8
      <3> HIDE DEF e1
      <3>2. e2 \in E   BY <2>3, <2>8, <3>1
      <3> HIDE DEF e2
      <3>3. e3 \in E   BY <2>4, <2>8, <3>2
      <3> HIDE DEF e3
      <3>4. e4 \in E   BY <2>5, <2>8, <3>3
      <3> HIDE DEF e4
      <3>5. e5 \in E   BY <2>6, <2>8, <3>4
      <3> HIDE DEF e5
      <3>6. e6 \in E   BY <2>7, <2>8, <3>5
      <3> HIDE DEF e6
      <3>7. e7 \in E   BY <2>7, <2>8, <3>6
      <3> QED BY <2>10, <3>7, Zenon DEF e1, e2, e3, e4, e5, e6
    <2> QED BY <2>11 DEF E
  <1>3. Len(w) <= 1 \/ Len(w) > 1
    BY DEF IsTrace
  <1> QED BY <1>1, <1>2, <1>3
=============================================================================
