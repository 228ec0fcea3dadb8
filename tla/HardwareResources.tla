-------------------------- MODULE HardwareResources --------------------------
(***************************************************************************)
(* How a bottleneck report changes a design (algo/dse.py).  A design is    *)
(* the row of each parameter in the components table of the design space,  *)
(* where the code has the value in that row: get_idx finds the row of a    *)
(* value, since the rows of a parameter hold growing values.  A            *)
(* contribution is the share of the critical path a bottleneck has, on     *)
(* average over the benchmarks, scaled to a natural number.                *)
(***************************************************************************)
EXTENDS Integers, Sequences, FiniteSets, SequencesExt

CONSTANTS
  components_mappings,   \* the values of each parameter, row by row
  top_k                  \* resources raised, and lowered, in one round

(* BIdx and bottleneck, in the order they are registered *)
bottleneck == <<"Base", "IcacheMiss", "DcacheMiss", "BPMiss", "ROB", "LQ", "SQ", "IntRF",
                "FpRF", "IQ", "IntAlu", "IntMultDiv", "FpAlu", "FpMultDiv", "RdWrPort",
                "RAW", "Virtual">>

Btnks == {bottleneck[k] : k \in DOMAIN bottleneck}

(* adjust_<resource>: the parameters that are moved against a bottleneck *)
Group ==
  [Base |-> {}, RdWrPort |-> {}, RAW |-> {}, Virtual |-> {},
   IcacheMiss |-> {"l1i_size", "l1i_assoc"},
   DcacheMiss |-> {"l1d_size", "l1d_assoc"},
   BPMiss |-> {"localPredictorSize", "globalPredictorSize", "choicePredictorSize",
               "RASSize", "BTBEntries"},
   ROB |-> {"numROBEntries"}, LQ |-> {"LQEntries"}, SQ |-> {"SQEntries"},
   IntRF |-> {"numPhysIntRegs"}, FpRF |-> {"numPhysFloatRegs"}, IQ |-> {"numIQEntries"},
   IntAlu |-> {"IntALU"}, IntMultDiv |-> {"IntMult_Div"}, FpAlu |-> {"FP_ALU"},
   FpMultDiv |-> {"FP_MultDiv"}]

(* the parameters no bottleneck moves, and all of them *)
Fixed  == {"pipelineWidth", "fetchBufferSize", "fetchQueueSize"}
Params == Fixed \cup UNION {Group[b] : b \in Btnks}

(***************************************************************************)
(* choicePredictorSize is moved along the table of globalPredictorSize     *)
(* (see Table): for an engine that stays in its design space the former    *)
(* must be a part of the latter.  In each of the three sheets of the       *)
(* repository the two are the same.                                        *)
(***************************************************************************)
ASSUME ResourceAssumption ==
  /\ DOMAIN components_mappings = Params
  /\ \A p \in Params : /\ components_mappings[p] \in Seq(Nat)
                       /\ components_mappings[p] # <<>>
                       /\ \A j, k \in DOMAIN components_mappings[p] :
                            j < k => components_mappings[p][j] < components_mappings[p][k]
  /\ \A k \in DOMAIN components_mappings["choicePredictorSize"] :
       /\ k \in DOMAIN components_mappings["globalPredictorSize"]
       /\ components_mappings["choicePredictorSize"][k]
            = components_mappings["globalPredictorSize"][k]
  /\ top_k \in Nat \ {0}

(* the number of rows of each parameter *)
Levels == [p \in Params |-> Len(components_mappings[p])]

get_idx(p, value) ==
  IF \E k \in 1 .. Levels[p] : components_mappings[p][k] = value
  THEN CHOOSE k \in 1 .. Levels[p] : components_mappings[p][k] = value
  ELSE -1

Design == {e \in [Params -> Nat] : \A p \in Params : 1 <= e[p] /\ e[p] <= Levels[p]}

Contribution == [Btnks -> Nat]

-----------------------------------------------------------------------------
(***************************************************************************)
(* O3CPUDesignSpace: the index that names a design, and its directory, is  *)
(* the number with its rows as digits.  Every sheet of the repository has  *)
(* one design line, so that no offset is added (the codec takes a vector   *)
(* to be of the first line), and lists the rows of a component from 1 on.  *)
(***************************************************************************)
components ==
  <<"pipelineWidth", "fetchBufferSize", "fetchQueueSize", "localPredictorSize",
    "globalPredictorSize", "choicePredictorSize", "RASSize", "BTBEntries", "numROBEntries",
    "numPhysIntRegs", "numPhysFloatRegs", "numIQEntries", "LQEntries", "SQEntries", "IntALU",
    "IntMult_Div", "FP_ALU", "FP_MultDiv", "l1i_size", "l1i_assoc", "l1d_size", "l1d_assoc">>

component_dims == [k \in DOMAIN components |-> Levels[components[k]]]

(* np.prod of the dimensions before the k-th *)
Weight[k \in DOMAIN components] ==
  IF k = 1 THEN 1 ELSE Weight[k - 1] * component_dims[k - 1]

size == Weight[Len(components)] * component_dims[Len(components)]

(* variant: the slice [:j] of the dimensions ends one earlier *)
embedding_to_idx_Short(e) ==
  LET Sum[k \in 0 .. Len(components)] ==
        IF k = 0 THEN 0
        ELSE Sum[k - 1] + Weight[IF k = 1 THEN 1 ELSE k - 1] * (e[components[k]] - 1)
  IN  Sum[Len(components)] + 1

embedding_to_idx(e) ==
  LET Sum[k \in 0 .. Len(components)] ==
        IF k = 0 THEN 0 ELSE Sum[k - 1] + Weight[k] * (e[components[k]] - 1)
  IN  Sum[Len(components)] + 1

idx_to_embedding(n) ==
  LET Rest[k \in 0 .. Len(components)] ==
        IF k = 0 THEN n - 1 ELSE Rest[k - 1] \div component_dims[k]
      Row(k) == (Rest[k - 1] % component_dims[k]) + 1
  IN  [p \in Params |-> Row(CHOOSE k \in DOMAIN components : components[k] = p)]

-----------------------------------------------------------------------------
(***************************************************************************)
(* SensitiveComponent: branch predictor and caches.  Their settings and    *)
(* contributions are recorded round by round; last is the number of        *)
(* rounds over which the average kept in self.last was taken.              *)
(***************************************************************************)
Sensitive == {"IcacheMiss", "DcacheMiss", "BPMiss"}

(* set_config: what is recorded of the setting of a component *)
Recorded ==
  [IcacheMiss |-> {"l1i_size", "l1i_assoc"},
   DcacheMiss |-> {"l1d_size", "l1d_assoc"},
   BPMiss |-> {"localPredictorSize", "globalPredictorSize", "choicePredictorSize"}]

Setting(c, e) == [p \in Recorded[c] |-> e[p]]

Settings(c) ==
  {s \in [Recorded[c] -> Nat] : \A p \in Recorded[c] : 1 <= s[p] /\ s[p] <= Levels[p]}

Component(c) ==
  [terminate : BOOLEAN, configs : Seq(Settings(c)), contribution : Seq(Nat), last : Nat]

reset == [c \in Sensitive |->
            [terminate |-> FALSE, configs |-> <<>>, contribution |-> <<>>, last |-> 0]]

(* variant: a terminated component is recorded too *)
set_config_Always(scm, e) ==
  [c \in Sensitive |-> [scm[c] EXCEPT !.configs = Append(@, Setting(c, e))]]

set_config(scm, e) ==
  [c \in Sensitive |-> IF scm[c].terminate THEN scm[c]
                       ELSE [scm[c] EXCEPT !.configs = Append(@, Setting(c, e))]]

update(scm, contribution) ==
  [c \in Sensitive |-> IF scm[c].terminate THEN scm[c]
                       ELSE [scm[c] EXCEPT !.contribution = Append(@, contribution[c])]]

SumOf(s, n) == FoldLeft(LAMBDA sum, x : sum + x, 0, SubSeq(s, 1, n))

(* update_terminate: the average has risen over the one kept in last; an   *)
(* average of zero counts as none                                          *)
HasRisen(s) ==
  LET n == Len(s.contribution)
      kept == SumOf(s.contribution, s.last)
  IN  kept # 0 /\ kept * n < SumOf(s.contribution, n) * s.last

update_terminate(scm) ==
  [c \in Sensitive |-> IF HasRisen(scm[c]) THEN [scm[c] EXCEPT !.terminate = TRUE]
                       ELSE [scm[c] EXCEPT !.last = Len(scm[c].contribution)]]

(* the first round with the lowest contribution *)
LowestRound(s) ==
  CHOOSE k \in DOMAIN s.contribution :
    /\ \A j \in DOMAIN s.contribution : s.contribution[k] <= s.contribution[j]
    /\ \A j \in 1 .. k - 1 : s.contribution[k] < s.contribution[j]

(* fallback: the parameter p of a terminated component *)
Fallback(s, p) == s.configs[LowestRound(s)][p]

-----------------------------------------------------------------------------
(***************************************************************************)
(* increase_hardware_resource.  The bottlenecks are visited from the       *)
(* largest contribution to the smallest, in the order of registration      *)
(* where they are equal, until top_k of them have been adjusted.  No two   *)
(* bottlenecks move the same parameter.                                    *)
(***************************************************************************)
Position == [b \in Btnks |-> CHOOSE k \in DOMAIN bottleneck : bottleneck[k] = b]

Before(contribution, a, b) ==
  \/ contribution[a] > contribution[b]
  \/ contribution[a] = contribution[b] /\ Position[a] < Position[b]

Terminated(scm, b) == b \in Sensitive /\ scm[b].terminate

CanRise(e, b) == \E p \in Group[b] : e[p] \in 1 .. Levels[p] - 1

Adjusts(e, scm, b) == ~Terminated(scm, b) /\ CanRise(e, b)

(* variant: one resource too many *)
Visited_OneMore(e, scm, contribution) ==
  {b \in Btnks : Cardinality({a \in Btnks : Before(contribution, a, b) /\ Adjusts(e, scm, a)})
                   <= top_k}

Visited(e, scm, contribution) ==
  {b \in Btnks : Cardinality({a \in Btnks : Before(contribution, a, b) /\ Adjusts(e, scm, a)})
                   < top_k}

(* the table a new value is taken from: adjust_bp takes that of the choice *)
(* predictor from the table of the global one                              *)
Table(p) == IF p = "choicePredictorSize" THEN "globalPredictorSize" ELSE p

(* the row of p that has the value in row k of the table *)
RowOf(p, k) == get_idx(p, components_mappings[Table(p)][k])

(* variant: the last row is that of the table the value is taken from *)
Raise_OtherTop(e, p) == IF e[p] < Levels[Table(p)] THEN RowOf(p, e[p] + 1) ELSE e[p]

(* the new rows of p; a value that is not in the table stays as it is *)
Raise(e, p) == IF e[p] \in 1 .. Levels[p] - 1 THEN RowOf(p, e[p] + 1) ELSE e[p]
Lower(e, p) == IF e[p] \in 2 .. Levels[p] THEN RowOf(p, e[p] - 1) ELSE e[p]

increase_hardware_resource(e, scm, contribution) ==
  LET visited == Visited(e, scm, contribution)
  IN  [p \in Params |->
         IF \E b \in visited : p \in Group[b] /\ ~Terminated(scm, b) THEN Raise(e, p)
         ELSE IF \E c \in visited \cap Sensitive : p \in Recorded[c] /\ Terminated(scm, c)
              THEN Fallback(scm[CHOOSE c \in Sensitive : p \in Recorded[c]], p)
              ELSE e[p]]

(* decrease_hardware_resource_v2: up to top_k of the bottlenecks without   *)
(* contribution are drawn at random                                        *)
Samples(contribution) ==
  LET zero == {b \in Btnks : contribution[b] = 0}
  IN  {S \in SUBSET zero :
         Cardinality(S) = IF top_k < Cardinality(zero) THEN top_k ELSE Cardinality(zero)}

decrease_hardware_resource(e, S) ==
  [p \in Params |-> IF \E b \in S : p \in Group[b] THEN Lower(e, p) ELSE e[p]]

(* bottleneck_removal, when the bottlenecks in S are drawn *)
bottleneck_removal(e, scm, contribution, S) ==
  decrease_hardware_resource(increase_hardware_resource(e, scm, contribution), S)
=============================================================================
