-------------------------- MODULE ArchExplorer_proofs --------------------------
(***************************************************************************)
(* The exploration engine keeps its records, its best design and its       *)
(* reports in order for every design space, every set of results and any   *)
(* number of threads, epochs and rounds.                                   *)
(***************************************************************************)
EXTENDS ArchExplorer, SequenceTheorems, FiniteSetTheorems, WellFoundedInduction, TLAPS

(***************************************************************************)
(* A set of natural numbers has a smallest member.                         *)
(***************************************************************************)
LEMMA SmallestMember ==
  ASSUME NEW S \in SUBSET Nat, S # {}
  PROVE  \E x \in S : \A y \in S : x <= y
PROOF
  <1>1. PICK x \in S : \A y \in S : ~(<<y, x>> \in OpToRel(<, Nat))
    BY NatLessThanWellFounded, WFMin
  <1>2. \A y \in S : ~(y < x)
    BY <1>1 DEF OpToRel
  <1> QED BY <1>2

(***************************************************************************)
(* fallback finds a round: a sequence of contributions that is not empty   *)
(* has a first lowest one.                                                 *)
(***************************************************************************)
LEMMA LowestRoundExists ==
  ASSUME NEW s, s.contribution \in Seq(Nat), Len(s.contribution) > 0
  PROVE  LowestRound(s) \in DOMAIN s.contribution
PROOF
  <1> DEFINE q == s.contribution
             V == {q[k] : k \in DOMAIN q}
  <1>1. DOMAIN q = 1 .. Len(q) /\ Len(q) \in Nat /\ \A k \in DOMAIN q : q[k] \in Nat
    OBVIOUS
  <1>2. V \in SUBSET Nat /\ V # {}
    <2>1. 1 \in DOMAIN q
      BY <1>1
    <2>2. q[1] \in V
      BY <2>1
    <2>3. V \subseteq Nat
      BY <1>1
    <2> QED BY <2>2, <2>3
  <1>3. PICK m \in V : \A v \in V : m <= v
    BY <1>2, SmallestMember
  <1> DEFINE K == {k \in DOMAIN q : q[k] = m}
  <1>4. K \in SUBSET Nat /\ K # {}
    BY <1>1, <1>3
  <1>5. PICK k \in K : \A j \in K : k <= j
    BY <1>4, SmallestMember
  <1>6. \A j \in DOMAIN q : q[k] <= q[j]
    BY <1>3, <1>5
  <1>7. ASSUME NEW j \in 1 .. k - 1 PROVE q[k] < q[j]
    <2>0. k \in 1 .. Len(q)
      BY <1>1, <1>5
    <2>1. j \in DOMAIN q /\ j \notin K
      <3>1. j \in 1 .. Len(q) /\ j < k
        BY <1>1, <2>0
      <3>2. ~(k <= j)
        BY <2>0, <3>1
      <3> QED BY <1>1, <1>5, <3>1, <3>2
    <2>2. q[j] # q[k] /\ q[j] \in Nat /\ q[k] \in Nat
      BY <1>1, <1>5, <2>1
    <2> QED BY <1>6, <2>1, <2>2
  <1> QED BY <1>5, <1>6, <1>7 DEF LowestRound

-----------------------------------------------------------------------------
(***************************************************************************)
(* Every parameter has rows.                                               *)
(***************************************************************************)
LEMMA LevelsAreRows ==
  /\ Levels \in [Params -> Nat \ {0}] /\ top_k \in Nat \ {0}
  /\ \A p \in Params : DOMAIN components_mappings[p] = 1 .. Levels[p]
PROOF
  <1>1. ASSUME NEW p \in Params
        PROVE  /\ Len(components_mappings[p]) \in Nat \ {0}
               /\ DOMAIN components_mappings[p] = 1 .. Len(components_mappings[p])
    <2>1. components_mappings[p] \in Seq(Nat) /\ components_mappings[p] # <<>>
      BY ResourceAssumption
    <2> QED BY <2>1, EmptySeq, LenProperties
  <1> QED BY <1>1, ResourceAssumption DEF Levels

(***************************************************************************)
(* get_idx finds a row of p again, from the value the adjust functions     *)
(* have taken: the values grow along a table, and the rows of the choice   *)
(* predictor are rows of the global one.                                   *)
(***************************************************************************)
LEMMA RowIsFoundAgain ==
  ASSUME NEW p \in Params, NEW k \in 1 .. Levels[p]
  PROVE  RowOf(p, k) = k
PROOF
  <1> DEFINE m == components_mappings
  <1>1. /\ Levels[p] \in Nat /\ DOMAIN m[p] = 1 .. Levels[p]
    BY LevelsAreRows
  <1>2. \A a, b \in 1 .. Levels[p] : a < b => m[p][a] < m[p][b]
    BY <1>1, ResourceAssumption
  <1>3. \A a \in 1 .. Levels[p] : m[p][a] \in Nat
    BY <1>1, ResourceAssumption
  <1>4. \A a \in 1 .. Levels[p] : m[p][a] = m[p][k] => a = k
    BY <1>1, <1>2, <1>3
  <1>5. m[Table(p)][k] = m[p][k]
    <2>1. CASE p = "choicePredictorSize"
      BY <1>1, <2>1, ResourceAssumption DEF Table
    <2>2. CASE p # "choicePredictorSize"
      BY <2>2 DEF Table
    <2> QED BY <2>1, <2>2
  <1>6. get_idx(p, m[p][k]) = k
    BY <1>4 DEF get_idx
  <1> QED BY <1>5, <1>6 DEF RowOf

(***************************************************************************)
(* The adjust functions move a parameter to the next or the previous row.  *)
(***************************************************************************)
LEMMA MovesByOneRow ==
  ASSUME NEW e, NEW p \in Params, e[p] \in Nat, 1 <= e[p], e[p] <= Levels[p]
  PROVE  /\ Raise(e, p) = IF e[p] < Levels[p] THEN e[p] + 1 ELSE e[p]
         /\ Lower(e, p) = IF e[p] > 1 THEN e[p] - 1 ELSE e[p]
PROOF
  <1>1. Levels[p] \in Nat
    BY LevelsAreRows
  <1>2. Raise(e, p) = IF e[p] < Levels[p] THEN e[p] + 1 ELSE e[p]
    <2>1. CASE e[p] < Levels[p]
      <3>1. e[p] \in 1 .. Levels[p] - 1 /\ e[p] + 1 \in 1 .. Levels[p]
        BY <1>1, <2>1
      <3> QED BY <2>1, <3>1, RowIsFoundAgain DEF Raise
    <2>2. CASE ~(e[p] < Levels[p])
      <3>1. e[p] \notin 1 .. Levels[p] - 1
        BY <1>1, <2>2
      <3> QED BY <2>2, <3>1 DEF Raise
    <2> QED BY <2>1, <2>2
  <1>3. Lower(e, p) = IF e[p] > 1 THEN e[p] - 1 ELSE e[p]
    <2>1. CASE e[p] > 1
      <3>1. e[p] \in 2 .. Levels[p] /\ e[p] - 1 \in 1 .. Levels[p]
        BY <1>1, <2>1
      <3> QED BY <2>1, <3>1, RowIsFoundAgain DEF Lower
    <2>2. CASE ~(e[p] > 1)
      <3>1. e[p] \notin 2 .. Levels[p]
        BY <1>1, <2>2
      <3> QED BY <2>2, <3>1 DEF Lower
    <2> QED BY <2>1, <2>2
  <1> QED BY <1>2, <1>3

-----------------------------------------------------------------------------
(***************************************************************************)
(* The recorded parameters are parameters of the design, each of one       *)
(* component, and the pipeline width is not among the ones that are moved. *)
(***************************************************************************)
LEMMA ParametersAreDistinct ==
  /\ \A c \in Sensitive : Recorded[c] \subseteq Params
  /\ \A c, d \in Sensitive : \A p \in Recorded[c] \cap Recorded[d] : c = d
  /\ "pipelineWidth" \in Params
  /\ \A b \in Btnks : "pipelineWidth" \notin Group[b]
  /\ \A c \in Sensitive : "pipelineWidth" \notin Recorded[c]
PROOF
  <1>1. Btnks = {"Base", "IcacheMiss", "DcacheMiss", "BPMiss", "ROB", "LQ", "SQ", "IntRF",
                 "FpRF", "IQ", "IntAlu", "IntMultDiv", "FpAlu", "FpMultDiv", "RdWrPort",
                 "RAW", "Virtual"}
    BY DEF Btnks, bottleneck
  <1>2. Sensitive \subseteq Btnks
    BY <1>1 DEF Sensitive
  <1>3. \A c \in Sensitive : Recorded[c] \subseteq Group[c]
    BY DEF Sensitive, Recorded, Group
  <1>4. \A c \in Sensitive : Recorded[c] \subseteq Params
    BY <1>2, <1>3 DEF Params
  <1>5. \A c, d \in Sensitive : \A p \in Recorded[c] \cap Recorded[d] : c = d
    BY DEF Sensitive, Recorded
  <1>6. "pipelineWidth" \in Params
    BY DEF Params, Fixed
  <1>7. \A b \in Btnks : "pipelineWidth" \notin Group[b]
    BY <1>1 DEF Group
  <1>8. \A c \in Sensitive : "pipelineWidth" \notin Recorded[c]
    BY <1>2, <1>3, <1>7
  <1> QED BY <1>4, <1>5, <1>6, <1>7, <1>8

(* the components fallback can rely on: every recorded setting is in range, *)
(* and a terminated one has a setting for each of its contributions         *)
WellRecorded(s) ==
  /\ DOMAIN s = Sensitive /\ \A c \in Sensitive : s[c] \in Component(c)
  /\ \A c \in Sensitive : s[c].terminate =>
       Len(s[c].contribution) > 0 /\ Len(s[c].configs) = Len(s[c].contribution)

(***************************************************************************)
(* fallback sets a parameter to one of its rows.                           *)
(***************************************************************************)
LEMMA FallbackInRange ==
  ASSUME NEW s, WellRecorded(s), NEW c \in Sensitive, s[c].terminate, NEW p \in Recorded[c]
  PROVE  Fallback(s[c], p) \in Nat /\ 1 <= Fallback(s[c], p) /\ Fallback(s[c], p) <= Levels[p]
PROOF
  <1>1. /\ s[c].contribution \in Seq(Nat) /\ s[c].configs \in Seq(Settings(c))
        /\ Len(s[c].contribution) > 0 /\ Len(s[c].configs) = Len(s[c].contribution)
    BY DEF WellRecorded, Component
  <1>2. LowestRound(s[c]) \in DOMAIN s[c].configs
    BY <1>1, LowestRoundExists
  <1>3. s[c].configs[LowestRound(s[c])] \in Settings(c)
    BY <1>1, <1>2
  <1> QED BY <1>3 DEF Settings, Fallback

(***************************************************************************)
(* bottleneck_removal leads from a design to a design, of the same         *)
(* pipeline width, whatever the contributions are and which bottlenecks    *)
(* are drawn.                                                              *)
(***************************************************************************)
LEMMA RemovalKeepsDesign ==
  ASSUME NEW e \in Design, NEW s, WellRecorded(s), NEW contribution, NEW S \in SUBSET Btnks
  PROVE  /\ bottleneck_removal(e, s, contribution, S) \in Design
         /\ bottleneck_removal(e, s, contribution, S)["pipelineWidth"] = e["pipelineWidth"]
PROOF
  <1> DEFINE f == increase_hardware_resource(e, s, contribution)
             g == bottleneck_removal(e, s, contribution, S)
             visited == Visited(e, s, contribution)
             InRange(n, p) == n \in Nat /\ 1 <= n /\ n <= Levels[p]
  <1>0. Levels \in [Params -> Nat \ {0}]
    BY LevelsAreRows
  <1>1. \A p \in Params : InRange(e[p], p)
    BY DEF Design
  <1>2. \A p \in Params : InRange(Raise(e, p), p)
    BY <1>0, <1>1, MovesByOneRow
  <1>3. ASSUME NEW p \in Params PROVE InRange(f[p], p)
    <2>1. CASE \E b \in visited : p \in Group[b] /\ ~Terminated(s, b)
      BY <1>2, <2>1 DEF increase_hardware_resource
    <2>2. CASE /\ ~\E b \in visited : p \in Group[b] /\ ~Terminated(s, b)
               /\ \E c \in visited \cap Sensitive : p \in Recorded[c] /\ Terminated(s, c)
      <3>1. PICK c \in Sensitive : p \in Recorded[c] /\ Terminated(s, c)
        BY <2>2
      <3>2. (CHOOSE d \in Sensitive : p \in Recorded[d]) = c
        BY <3>1, ParametersAreDistinct
      <3>3. f[p] = Fallback(s[c], p)
        BY <2>2, <3>2 DEF increase_hardware_resource
      <3> QED BY <3>1, <3>3, FallbackInRange DEF Terminated
    <2>3. CASE /\ ~\E b \in visited : p \in Group[b] /\ ~Terminated(s, b)
               /\ ~\E c \in visited \cap Sensitive : p \in Recorded[c] /\ Terminated(s, c)
      BY <1>1, <2>3 DEF increase_hardware_resource
    <2> QED BY <2>1, <2>2, <2>3
  <1>4. f["pipelineWidth"] = e["pipelineWidth"]
    <2>1. visited \subseteq Btnks
      BY DEF Visited
    <2> QED BY <2>1, ParametersAreDistinct DEF increase_hardware_resource
  <1>5. g = [p \in Params |-> IF \E b \in S : p \in Group[b] THEN Lower(f, p) ELSE f[p]]
    BY DEF bottleneck_removal, decrease_hardware_resource
  <1> HIDE DEF f, g
  <1>6. \A p \in Params : InRange(Lower(f, p), p)
    BY <1>0, <1>3, MovesByOneRow
  <1>7. g \in Design
    <2>1. \A p \in Params : InRange(g[p], p)
      BY <1>3, <1>5, <1>6
    <2> QED BY <1>5, <2>1 DEF Design
  <1>8. g["pipelineWidth"] = e["pipelineWidth"]
    BY <1>4, <1>5, ParametersAreDistinct
  <1> QED BY <1>7, <1>8 DEF g

-----------------------------------------------------------------------------
(* the records of component c after n rounds; d is the design of the next *)
Aligned(c, s, n, rounds, d) ==
  /\ Len(s.configs) = IF s.terminate THEN Len(s.contribution) ELSE Len(s.contribution) + 1
  /\ IF s.terminate THEN Len(s.contribution) <= n /\ Len(s.contribution) > 0
                     ELSE Len(s.contribution) = n
  /\ \A k \in 1 .. Len(s.configs) :
       s.configs[k] = Setting(c, IF k <= Len(rounds) THEN rounds[k].design ELSE d)

Records(s, n, rounds, d) ==
  /\ DOMAIN s = Sensitive
  /\ \A c \in Sensitive : s[c] \in Component(c) /\ Aligned(c, s[c], n, rounds, d)

(***************************************************************************)
(* What set_config records of a design is a setting.                       *)
(***************************************************************************)
LEMMA SettingIsSetting ==
  ASSUME NEW c \in Sensitive, NEW e \in Design
  PROVE  Setting(c, e) \in Settings(c)
PROOF
  <1>1. Recorded[c] \subseteq Params
    BY ParametersAreDistinct
  <1>2. \A p \in Recorded[c] : e[p] \in Nat /\ 1 <= e[p] /\ e[p] <= Levels[p]
    BY <1>1 DEF Design
  <1> QED BY <1>2 DEF Setting, Settings

(***************************************************************************)
(* At the start of an epoch reset and set_config leave aligned records.    *)
(***************************************************************************)
LEMMA ResetIsAligned ==
  ASSUME NEW e \in Design, NEW rounds \in Seq(Round), Len(rounds) = 0
  PROVE  Records(set_config(reset, e), 0, rounds, e)
PROOF
  <1> DEFINE s == set_config(reset, e)
  <1>1. ASSUME NEW c \in Sensitive PROVE s[c] \in Component(c) /\ Aligned(c, s[c], 0, rounds, e)
    <2>1. reset[c] = [terminate |-> FALSE, configs |-> <<>>, contribution |-> <<>>, last |-> 0]
      BY DEF reset
    <2> DEFINE one == Append(<<>>, Setting(c, e))
               r   == reset[c]
    <2>2. /\ one \in Seq(Settings(c)) /\ Len(one) = 1 /\ one[1] = Setting(c, e)
      BY SettingIsSetting
    <2>3. r \in Component(c) /\ ~r.terminate /\ r.contribution = <<>> /\ r.configs = <<>>
      BY <2>1 DEF Component
    <2>4. s[c] = [r EXCEPT !.configs = Append(@, Setting(c, e))]
      BY <2>3 DEF set_config
    <2>5. s[c] = [r EXCEPT !.configs = one]
      BY <2>3, <2>4
    <2> HIDE DEF one, r, s
    <2>6. /\ s[c] \in Component(c) /\ ~s[c].terminate /\ s[c].configs = one
          /\ s[c].contribution = <<>>
      BY <2>2, <2>3, <2>5 DEF Component
    <2>7. Len(s[c].contribution) = 0
      BY <2>6
    <2>8. ASSUME NEW k \in 1 .. Len(s[c].configs)
          PROVE  s[c].configs[k] = Setting(c, IF k <= Len(rounds) THEN rounds[k].design ELSE e)
      <3>0. k \in 1 .. 1
        BY <2>2, <2>6, <2>8
      <3>1. k = 1 /\ ~(k <= Len(rounds))
        BY <3>0
      <3> QED BY <2>2, <2>6, <3>1
    <2>9. Aligned(c, s[c], 0, rounds, e)
      BY <2>2, <2>6, <2>7, <2>8 DEF Aligned
    <2> QED BY <2>6, <2>9
  <1>2. DOMAIN s = Sensitive
    BY DEF set_config
  <1> QED BY <1>1, <1>2 DEF Records

(***************************************************************************)
(* update, update_terminate and set_config keep the records aligned, and   *)
(* between the last two fallback finds a setting for every contribution.   *)
(***************************************************************************)
LEMMA RoundKeepsRecords ==
  ASSUME NEW n \in Nat, NEW rounds \in Seq(Round), Len(rounds) = n + 1,
         NEW s, Records(s, n, rounds, rounds[n + 1].design),
         NEW contribution \in Contribution, NEW e \in Design
  PROVE  /\ WellRecorded(update_terminate(update(s, contribution)))
         /\ Records(set_config(update_terminate(update(s, contribution)), e), n + 1, rounds, e)
PROOF
  <1> DEFINE u == update(s, contribution)
             j == update_terminate(u)
             z == set_config(j, e)
             Same(a, b) == a.configs = b.configs /\ a.contribution = b.contribution
  <1>0. Sensitive \subseteq Btnks
    BY DEF Sensitive, Btnks, bottleneck
  <1>1. ASSUME NEW c \in Sensitive
        PROVE  /\ j[c] \in Component(c) /\ z[c] \in Component(c)
               /\ j[c].terminate => /\ Len(j[c].contribution) > 0
                                    /\ Len(j[c].configs) = Len(j[c].contribution)
               /\ Aligned(c, z[c], n + 1, rounds, e)
    <2> DEFINE m == Len(s[c].contribution)
    <2>1. s[c] \in Component(c) /\ Aligned(c, s[c], n, rounds, rounds[n + 1].design)
      BY DEF Records
    <2>2. /\ s[c].configs \in Seq(Settings(c)) /\ s[c].contribution \in Seq(Nat)
          /\ s[c].terminate \in BOOLEAN /\ s[c].last \in Nat
          /\ m \in Nat /\ Len(s[c].configs) \in Nat
      BY <2>1 DEF Component
    <2>3. /\ u[c] \in Component(c) /\ u[c].configs = s[c].configs
          /\ u[c].terminate = s[c].terminate
          /\ u[c].contribution = IF s[c].terminate THEN s[c].contribution
                                 ELSE Append(s[c].contribution, contribution[c])
      <3>1. contribution[c] \in Nat
        BY <1>0 DEF Contribution
      <3>2. Append(s[c].contribution, contribution[c]) \in Seq(Nat)
        BY <2>2, <3>1
      <3>3. CASE s[c].terminate
        BY <2>1, <3>3 DEF update
      <3>4. CASE ~s[c].terminate
        <4>1. u[c] = [s[c] EXCEPT !.contribution = Append(@, contribution[c])]
          BY <3>4 DEF update
        <4> QED BY <2>1, <3>2, <3>4, <4>1 DEF Component
      <3> QED BY <3>3, <3>4
    <2>4. /\ j[c] \in Component(c) /\ Same(j[c], u[c])
          /\ s[c].terminate => j[c].terminate
      <3>1. Len(u[c].contribution) \in Nat
        BY <2>3 DEF Component
      <3>2. CASE HasRisen(u[c])
        BY <2>3, <3>2 DEF update_terminate, Component
      <3>3. CASE ~HasRisen(u[c])
        BY <2>3, <3>1, <3>3 DEF update_terminate, Component
      <3> QED BY <3>2, <3>3
    <2>5. /\ j[c].configs = s[c].configs /\ j[c].terminate \in BOOLEAN
          /\ IF s[c].terminate THEN j[c].contribution = s[c].contribution
             ELSE Len(j[c].contribution) = n + 1 /\ Len(j[c].configs) = n + 1
      <3>1. ~s[c].terminate => /\ m = n /\ Len(s[c].configs) = n + 1
        BY <2>1 DEF Aligned
      <3>2. ~s[c].terminate => Len(Append(s[c].contribution, contribution[c])) = n + 1
        BY <2>2, <3>1
      <3> QED BY <2>3, <2>4, <3>1, <3>2 DEF Component
    <2>6. j[c].terminate => /\ Len(j[c].contribution) > 0
                            /\ Len(j[c].configs) = Len(j[c].contribution)
      BY <2>1, <2>5 DEF Aligned
    <2>7. \A k \in 1 .. Len(j[c].configs) :
            k <= Len(rounds) /\ j[c].configs[k] = Setting(c, rounds[k].design)
      <3>1. Len(s[c].configs) <= n + 1
        BY <2>1, <2>2 DEF Aligned
      <3> QED BY <2>1, <2>2, <2>5, <3>1 DEF Aligned
    <2> HIDE DEF j, u
    <2>8. CASE j[c].terminate
      <3>1. z[c] = j[c]
        BY <2>8 DEF set_config
      <3>2. Len(j[c].contribution) <= n + 1
        BY <2>1, <2>2, <2>5 DEF Aligned
      <3> QED BY <2>4, <2>6, <2>7, <2>8, <3>1, <3>2 DEF Aligned
    <2>9. CASE ~j[c].terminate
      <3>1. z[c] = [j[c] EXCEPT !.configs = Append(@, Setting(c, e))]
        BY <2>9 DEF set_config
      <3>2. Setting(c, e) \in Settings(c) /\ j[c].configs \in Seq(Settings(c))
        BY <2>4, SettingIsSetting DEF Component
      <3>3. /\ z[c] \in Component(c) /\ ~z[c].terminate
            /\ z[c].contribution = j[c].contribution
            /\ z[c].configs = Append(j[c].configs, Setting(c, e))
        <4> DEFINE longer == Append(j[c].configs, Setting(c, e))
        <4>1. longer \in Seq(Settings(c))
          BY <3>2
        <4>2. z[c] = [j[c] EXCEPT !.configs = longer]
          BY <2>4, <3>1 DEF Component
        <4> HIDE DEF longer, z
        <4>3. z[c] \in Component(c) /\ ~z[c].terminate
          BY <2>4, <2>9, <4>1, <4>2 DEF Component
        <4>4. z[c].contribution = j[c].contribution /\ z[c].configs = longer
          BY <2>4, <4>2 DEF Component
        <4> QED BY <4>3, <4>4 DEF longer
      <3>4. ~s[c].terminate /\ Len(j[c].contribution) = n + 1 /\ Len(j[c].configs) = n + 1
        BY <2>4, <2>5, <2>9
      <3>5. /\ Len(z[c].configs) = n + 2 /\ z[c].configs[n + 2] = Setting(c, e)
            /\ \A k \in 1 .. n + 1 : z[c].configs[k] = j[c].configs[k]
        BY <3>2, <3>3, <3>4
      <3> HIDE DEF z
      <3>6. ASSUME NEW k \in 1 .. n + 2
            PROVE  z[c].configs[k] = Setting(c, IF k <= Len(rounds) THEN rounds[k].design ELSE e)
        <4>1. CASE k \in 1 .. n + 1
          BY <2>7, <3>4, <3>5, <4>1
        <4>2. CASE k = n + 2
          BY <3>5, <4>2
        <4> QED BY <4>1, <4>2
      <3>7. Aligned(c, z[c], n + 1, rounds, e)
        BY <3>3, <3>4, <3>5, <3>6 DEF Aligned
      <3> QED BY <2>4, <2>9, <3>3, <3>7
    <2> QED BY <2>5, <2>8, <2>9
  <1>2. DOMAIN j = Sensitive /\ DOMAIN z = Sensitive
    BY DEF update_terminate, set_config
  <1> QED BY <1>1, <1>2 DEF WellRecorded, Records

-----------------------------------------------------------------------------
(* the steps of Weight, embedding_to_idx and idx_to_embedding *)
WeightOp(c, a, k)  == a * component_dims[k - 1]
WeightDef(c, h, k) == IF k = 1 THEN 1 ELSE h[k - 1] * component_dims[k - 1]
SumOp(e, a, k)     == a + Weight[k] * (e[components[k]] - 1)
SumDef(e, h, k)    == IF k = 0 THEN 0 ELSE h[k - 1] + Weight[k] * (e[components[k]] - 1)
RestOp(n, a, k)    == a \div component_dims[k]
RestDef(n, h, k)   == IF k = 0 THEN n - 1 ELSE h[k - 1] \div component_dims[k]

W == INSTANCE Recursion WITH Def <- WeightDef, Op <- WeightOp
D == INSTANCE Recursion WITH Def <- SumDef, Op <- SumOp
R == INSTANCE Recursion WITH Def <- RestDef, Op <- RestOp

(* the sum of the first k digits, and what is left of n without them *)
Digits(e, k)   == D!Fix(e, 0 .. 22)[k]
RestAfter(n, k) == R!Fix(n, 0 .. 22)[k]

(* the weight of the digit after the k-th *)
WeightAfter(k) == IF k = 22 THEN size ELSE Weight[k + 1]

(***************************************************************************)
(* Every parameter is a component of the index, with a dimension.          *)
(***************************************************************************)
LEMMA ComponentsAreParams ==
  /\ Len(components) = 22 /\ DOMAIN components = 1 .. 22
  /\ \A k \in 1 .. 22 : components[k] \in Params
  /\ \A p \in Params : \E k \in 1 .. 22 : components[k] = p
  /\ DOMAIN component_dims = 1 .. 22
  /\ \A k \in 1 .. 22 : /\ component_dims[k] = Levels[components[k]]
                        /\ component_dims[k] \in Nat /\ component_dims[k] > 0
PROOF
  <1>1. Len(components) = 22 /\ DOMAIN components = 1 .. 22
    BY DEF components
  <1>2. Params = {"pipelineWidth", "fetchBufferSize", "fetchQueueSize", "localPredictorSize",
          "globalPredictorSize", "choicePredictorSize", "RASSize", "BTBEntries", "numROBEntries",
          "numPhysIntRegs", "numPhysFloatRegs", "numIQEntries", "LQEntries", "SQEntries", "IntALU",
          "IntMult_Div", "FP_ALU", "FP_MultDiv", "l1i_size", "l1i_assoc", "l1d_size", "l1d_assoc"}
    BY DEF Params, Fixed, Group, Btnks, bottleneck
  <1>3. \A k \in 1 .. 22 : components[k] \in Params
    BY <1>2 DEF components
  <1>4. \A p \in Params : \E k \in 1 .. 22 : components[k] = p
    BY <1>2 DEF components
  <1>5. DOMAIN component_dims = 1 .. 22 /\ \A k \in 1 .. 22 : component_dims[k] = Levels[components[k]]
    BY <1>1 DEF component_dims
  <1>6. \A p \in Params : Levels[p] \in Nat /\ Levels[p] > 0
    BY LevelsAreRows
  <1> QED BY <1>1, <1>3, <1>4, <1>5, <1>6

LEMMA ComponentsDiffer ==
  \A j, k \in 1 .. 22 : components[j] = components[k] => j = k
PROOF BY DEF components

(***************************************************************************)
(* The weight of a digit is the product of the dimensions before it.       *)
(***************************************************************************)
LEMMA WeightSteps ==
  /\ WeightAfter(0) = 1
  /\ \A k \in 0 .. 22 : WeightAfter(k) \in Nat /\ WeightAfter(k) > 0
  /\ \A k \in 1 .. 22 : /\ WeightAfter(k) = WeightAfter(k - 1) * component_dims[k]
                        /\ WeightAfter(k - 1) = Weight[k]
PROOF
  <1>1. Weight = W!Fix(0, 1 .. 22)
    BY ComponentsAreParams DEF Weight, W!Fix, WeightDef
  <1>2. W!IsIteration(0, 1, 22, 1)
    BY DEF W!IsIteration, WeightDef, WeightOp
  <1>3. Weight[1] = 1 /\ \A k \in 2 .. 22 : Weight[k] = Weight[k - 1] * component_dims[k - 1]
    <2>1. W!Iterates(0, 1, 22, 1)
      BY <1>2, W!IterationSteps
    <2> QED BY <1>1, <2>1 DEF WeightOp, W!Iterates
  <1>4. \A k \in 1 .. 22 : WeightAfter(k - 1) = Weight[k]
    BY DEF WeightAfter
  <1>5. ASSUME NEW k \in 1 .. 22 PROVE WeightAfter(k) = WeightAfter(k - 1) * component_dims[k]
    <2>1. CASE k = 22
      BY <1>4, <2>1, ComponentsAreParams DEF WeightAfter, size
    <2>2. CASE k < 22
      <3>1. k + 1 \in 2 .. 22 /\ (k + 1) - 1 = k
        BY <2>2
      <3>2. Weight[k + 1] = Weight[k] * component_dims[k]
        BY <1>3, <3>1
      <3> QED BY <1>4, <2>2, <3>2 DEF WeightAfter
    <2> QED BY <2>1, <2>2
  <1>6. WeightAfter(0) = 1
    BY <1>3 DEF WeightAfter
  <1> DEFINE S == {k \in 0 .. 22 : WeightAfter(k) \in Nat /\ WeightAfter(k) > 0}
  <1>7. 0 \in S
    BY <1>6
  <1>8. ASSUME NEW k \in 1 .. 22, k - 1 \in S PROVE k \in S
    <2>1. /\ WeightAfter(k - 1) \in Nat /\ WeightAfter(k - 1) > 0
          /\ component_dims[k] \in Nat /\ component_dims[k] > 0
      BY <1>8, ComponentsAreParams
    <2> QED BY <1>5, <2>1
  <1>9. \A k \in 0 .. 22 : k \in S
    <2> HIDE DEF S
    <2> QED BY <1>7, <1>8, W!IntervalInduction
  <1> QED BY <1>4, <1>5, <1>6, <1>9

(***************************************************************************)
(* The digits of a design add up to its index, one by one.                 *)
(***************************************************************************)
LEMMA DigitSteps ==
  ASSUME NEW e \in Design
  PROVE  /\ embedding_to_idx(e) = Digits(e, 22) + 1 /\ Digits(e, 0) = 0
         /\ \A k \in 1 .. 22 : /\ e[components[k]] - 1 \in 0 .. component_dims[k] - 1
                               /\ Digits(e, k) = Digits(e, k - 1)
                                    + WeightAfter(k - 1) * (e[components[k]] - 1)
         /\ \A k \in 0 .. 22 : Digits(e, k) \in Nat /\ Digits(e, k) < WeightAfter(k)
PROOF
  <1>1. embedding_to_idx(e) = Digits(e, 22) + 1
    BY ComponentsAreParams DEF embedding_to_idx, Digits, D!Fix, SumDef
  <1>2. D!IsIteration(e, 0, 22, 0)
    BY DEF D!IsIteration, SumDef, SumOp
  <1>3. /\ Digits(e, 0) = 0
        /\ \A k \in 1 .. 22 : Digits(e, k) = Digits(e, k - 1) + Weight[k] * (e[components[k]] - 1)
    <2>1. D!Iterates(e, 0, 22, 0)
      BY <1>2, D!IterationSteps
    <2> QED BY <2>1 DEF SumOp, Digits, D!Iterates
  <1>4. ASSUME NEW k \in 1 .. 22 PROVE e[components[k]] - 1 \in 0 .. component_dims[k] - 1
    BY ComponentsAreParams DEF Design
  <1>5. ASSUME NEW k \in 1 .. 22
        PROVE  Digits(e, k) = Digits(e, k - 1) + WeightAfter(k - 1) * (e[components[k]] - 1)
    BY <1>3, WeightSteps
  <1> DEFINE S == {k \in 0 .. 22 : Digits(e, k) \in Nat /\ Digits(e, k) < WeightAfter(k)}
  <1>6. 0 \in S
    BY <1>3, WeightSteps
  <1>7. ASSUME NEW k \in 1 .. 22, k - 1 \in S PROVE k \in S
    <2> DEFINE s == Digits(e, k - 1)
               v == WeightAfter(k - 1)
               d == component_dims[k]
               r == e[components[k]] - 1
    <2>1. s \in Nat /\ s < v /\ v \in Nat /\ r \in Nat /\ r <= d - 1 /\ d \in Nat
      BY <1>4, <1>7, WeightSteps, ComponentsAreParams
    <2>2. Digits(e, k) = s + v * r /\ WeightAfter(k) = v * d
      BY <1>5, WeightSteps
    <2> HIDE DEF s, v, d, r
    <2>3. v * r <= v * (d - 1) /\ v * r \in Nat
      BY <2>1
    <2>4. v * (d - 1) = v * d - v
      BY <2>1
    <2> QED BY <2>1, <2>2, <2>3, <2>4
  <1>8. \A k \in 0 .. 22 : k \in S
    <2> HIDE DEF S
    <2> QED BY <1>6, <1>7, D!IntervalInduction
  <1> QED BY <1>1, <1>3, <1>4, <1>5, <1>8

(***************************************************************************)
(* Division by a dimension takes a digit off.                              *)
(***************************************************************************)
LEMMA DigitOff ==
  ASSUME NEW d \in Nat, d > 0, NEW q \in Nat, NEW r \in 0 .. d - 1
  PROVE  (r + d * q) \div d = q /\ (r + d * q) % d = r
PROOF
  <1>1. d * q \in Nat
    OBVIOUS
  <1> QED BY <1>1, Z3

LEMMA Division ==
  ASSUME NEW t \in Nat, NEW d \in Nat, d > 0
  PROVE  t \div d \in Nat /\ t % d \in 0 .. d - 1 /\ t = (t % d) + d * (t \div d)
PROOF BY Z3

LEMMA FactorOut ==
  ASSUME NEW v \in Nat, v > 0, NEW a \in Int, NEW b \in Int, v * a = v * b
  PROVE  a = b
PROOF OBVIOUS

(***************************************************************************)
(* What the digits after the k-th add to the sum is a multiple of their    *)
(* weight.                                                                 *)
(***************************************************************************)
LEMMA LaterDigits ==
  ASSUME NEW e \in Design
  PROVE  \A k \in 0 .. 22 : \E q \in Nat : Digits(e, 22) = Digits(e, k) + WeightAfter(k) * q
PROOF
  <1> DEFINE Has(k) == \E q \in Nat : Digits(e, 22) = Digits(e, k) + WeightAfter(k) * q
             S == {j \in 0 .. 22 : Has(22 - j)}
  <1>1. 0 \in S
    <2>1. Digits(e, 22) = Digits(e, 22) + WeightAfter(22) * 0
      BY DigitSteps, WeightSteps
    <2>2. Has(22)
      BY <2>1
    <2> HIDE DEF Has
    <2> QED BY <2>2
  <1>2. ASSUME NEW j \in 1 .. 22, j - 1 \in S PROVE j \in S
    <2> DEFINE k == 23 - j
               r == e[components[k]] - 1
               d == component_dims[k]
    <2>1. k \in 1 .. 22 /\ 22 - (j - 1) = k /\ 22 - j = k - 1
      OBVIOUS
    <2>2. Has(k)
      <3> HIDE DEF Has
      <3> QED BY <1>2, <2>1
    <2> HIDE DEF k
    <2>3. PICK q \in Nat : Digits(e, 22) = Digits(e, k) + WeightAfter(k) * q
      BY <2>2
    <2>4. /\ r \in Nat /\ d \in Nat /\ WeightAfter(k - 1) \in Nat
          /\ Digits(e, k - 1) \in Nat
          /\ Digits(e, k) = Digits(e, k - 1) + WeightAfter(k - 1) * r
          /\ WeightAfter(k) = WeightAfter(k - 1) * d
      BY <2>1, DigitSteps, WeightSteps, ComponentsAreParams
    <2> HIDE DEF r, d
    <2> DEFINE v == WeightAfter(k - 1)
    <2>5. v * r + (v * d) * q = v * (r + d * q)
      BY <2>4
    <2>6. r + d * q \in Nat
      BY <2>4
    <2>7. Digits(e, 22) = Digits(e, k - 1) + v * (r + d * q)
      BY <2>3, <2>4, <2>5, <2>6
    <2>8. Has(k - 1)
      BY <2>6, <2>7
    <2> HIDE DEF Has
    <2> QED BY <2>1, <2>8
  <1>3. \A j \in 0 .. 22 : j \in S
    <2> HIDE DEF S
    <2> QED BY <1>1, <1>2, D!IntervalInduction
  <1>4. ASSUME NEW k \in 0 .. 22 PROVE Has(k)
    <2>1. 22 - k \in 0 .. 22 /\ 22 - (22 - k) = k
      OBVIOUS
    <2> HIDE DEF Has
    <2> QED BY <1>3, <2>1
  <1> QED BY <1>4

(***************************************************************************)
(* idx_to_embedding finds the digits again.                                *)
(***************************************************************************)
LEMMA CodecInverse ==
  ASSUME NEW e \in Design
  PROVE  /\ embedding_to_idx(e) \in 1 .. size
         /\ idx_to_embedding(embedding_to_idx(e)) = e
PROOF
  <1> DEFINE n == embedding_to_idx(e)
             Row(k) == (RestAfter(n, k - 1) % component_dims[k]) + 1
  <1>1. n = Digits(e, 22) + 1 /\ Digits(e, 22) \in Nat /\ Digits(e, 22) < size /\ size \in Nat
    BY DigitSteps, WeightSteps DEF WeightAfter
  <1>2. R!IsIteration(n, 0, 22, n - 1)
    BY DEF R!IsIteration, RestDef, RestOp
  <1> HIDE DEF n
  <1>3. /\ RestAfter(n, 0) = n - 1
        /\ \A k \in 1 .. 22 : RestAfter(n, k) = RestAfter(n, k - 1) \div component_dims[k]
    <2>1. R!Iterates(n, 0, 22, n - 1)
      BY <1>2, R!IterationSteps
    <2> QED BY <2>1 DEF RestOp, RestAfter, R!Iterates
  <1> DEFINE Left(k) == /\ RestAfter(n, k) \in Nat
                        /\ Digits(e, 22) = Digits(e, k) + WeightAfter(k) * RestAfter(n, k)
             S == {k \in 0 .. 22 : Left(k)}
  <1>4. 0 \in S
    BY <1>1, <1>3, DigitSteps, WeightSteps
  <1>5. ASSUME NEW k \in 1 .. 22, k - 1 \in S
        PROVE  k \in S /\ Row(k) = e[components[k]]
    <2> DEFINE v == WeightAfter(k - 1)
               r == e[components[k]] - 1
               d == component_dims[k]
               t == RestAfter(n, k - 1)
    <2>1. PICK q \in Nat : Digits(e, 22) = Digits(e, k) + WeightAfter(k) * q
      BY LaterDigits
    <2>2. /\ r \in 0 .. d - 1 /\ r \in Nat /\ d \in Nat /\ d > 0 /\ v \in Nat /\ v > 0
          /\ Digits(e, k - 1) \in Nat /\ e[components[k]] = r + 1
          /\ Digits(e, k) = Digits(e, k - 1) + v * r /\ WeightAfter(k) = v * d
      BY DigitSteps, WeightSteps, ComponentsAreParams DEF Design
    <2>3. t \in Nat /\ Digits(e, 22) = Digits(e, k - 1) + v * t
      BY <1>5
    <2>4. RestAfter(n, k) = t \div d
      BY <1>3
    <2> HIDE DEF v, r, d, t
    <2>5. v * r + (v * d) * q = v * (r + d * q) /\ r + d * q \in Nat
      BY <2>2
    <2>6. v * t \in Nat /\ v * r \in Nat /\ (v * d) * q \in Nat
      BY <2>2, <2>3
    <2>7. v * t = v * (r + d * q)
      BY <2>1, <2>2, <2>3, <2>5, <2>6
    <2>8. t = r + d * q
      <3> DEFINE x == r + d * q
      <3>1. x \in Nat /\ v * t = v * x
        BY <2>5, <2>7
      <3> HIDE DEF x
      <3>2. t = x
        BY <2>2, <2>3, <3>1, FactorOut
      <3> QED BY <3>2 DEF x
    <2>9. t \div d = q /\ t % d = r
      BY <2>2, <2>8, DigitOff
    <2>10. Left(k)
      BY <2>1, <2>4, <2>9
    <2>11. Row(k) = e[components[k]]
      BY <2>2, <2>9 DEF t, d
    <2> QED BY <2>10, <2>11
  <1>6. \A k \in 0 .. 22 : k \in S
    <2> HIDE DEF S
    <2> QED BY <1>4, <1>5, R!IntervalInduction
  <1>7. ASSUME NEW k \in 1 .. 22 PROVE Row(k) = e[components[k]]
    <2>1. k - 1 \in 0 .. 22
      OBVIOUS
    <2> QED BY <1>5, <1>6, <2>1
  <1>8. idx_to_embedding(n)
          = [p \in Params |-> Row(CHOOSE k \in 1 .. 22 : components[k] = p)]
    BY ComponentsAreParams DEF idx_to_embedding, RestAfter, R!Fix, RestDef
  <1>9. ASSUME NEW p \in Params PROVE idx_to_embedding(n)[p] = e[p]
    <2> DEFINE k == CHOOSE j \in 1 .. 22 : components[j] = p
    <2>1. k \in 1 .. 22 /\ components[k] = p
      BY ComponentsAreParams
    <2>2. idx_to_embedding(n)[p] = Row(k)
      BY <1>8
    <2> HIDE DEF k, Row
    <2> QED BY <1>7, <2>1, <2>2
  <1>10. idx_to_embedding(n) = e
    <2>1. e = [p \in Params |-> e[p]]
      BY DEF Design
    <2>2. idx_to_embedding(n) = [p \in Params |-> idx_to_embedding(n)[p]]
      BY <1>8
    <2> QED BY <1>9, <2>1, <2>2
  <1> QED BY <1>1, <1>10 DEF n

(***************************************************************************)
(* ... and embedding_to_idx the index: the rows of an index are a design.  *)
(***************************************************************************)
LEMMA RowsLeadBack ==
  ASSUME NEW n \in 1 .. size
  PROVE  idx_to_embedding(n) \in Design /\ embedding_to_idx(idx_to_embedding(n)) = n
PROOF
  <1> DEFINE e == idx_to_embedding(n)
             Row(k) == (RestAfter(n, k - 1) % component_dims[k]) + 1
  <1>0. size \in Nat /\ size = WeightAfter(22) /\ n - 1 \in Nat /\ n - 1 < size
    BY WeightSteps DEF WeightAfter
  <1>1. R!IsIteration(n, 0, 22, n - 1)
    BY DEF R!IsIteration, RestDef, RestOp
  <1>2. /\ RestAfter(n, 0) = n - 1
        /\ \A k \in 1 .. 22 : RestAfter(n, k) = RestAfter(n, k - 1) \div component_dims[k]
    <2>1. R!Iterates(n, 0, 22, n - 1)
      BY <1>1, R!IterationSteps
    <2> QED BY <2>1 DEF RestOp, RestAfter, R!Iterates
  <1>3. ASSUME NEW k \in 1 .. 22, RestAfter(n, k - 1) \in Nat
        PROVE  /\ RestAfter(n, k) \in Nat /\ Row(k) - 1 \in 0 .. component_dims[k] - 1
               /\ RestAfter(n, k - 1) = (Row(k) - 1) + component_dims[k] * RestAfter(n, k)
    <2> DEFINE t == RestAfter(n, k - 1)
               d == component_dims[k]
    <2>1. t \in Nat /\ d \in Nat /\ d > 0 /\ RestAfter(n, k) = t \div d /\ Row(k) = (t % d) + 1
      BY <1>2, <1>3, ComponentsAreParams
    <2> HIDE DEF t, d
    <2>2. t \div d \in Nat /\ t % d \in 0 .. d - 1 /\ t = (t % d) + d * (t \div d)
      BY <2>1, Division
    <2> HIDE DEF Row
    <2>3. Row(k) - 1 = t % d
      BY <2>1, <2>2
    <2> QED BY <2>1, <2>2, <2>3 DEF t, d
  <1> DEFINE T == {k \in 0 .. 22 : RestAfter(n, k) \in Nat}
  <1>4. \A k \in 0 .. 22 : k \in T
    <2>1. 0 \in T
      BY <1>0, <1>2
    <2>2. ASSUME NEW k \in 1 .. 22, k - 1 \in T PROVE k \in T
      BY <1>3, <2>2
    <2> HIDE DEF T
    <2> QED BY <2>1, <2>2, R!IntervalInduction
  <1>5. ASSUME NEW k \in 1 .. 22
        PROVE  /\ RestAfter(n, k) \in Nat /\ Row(k) - 1 \in 0 .. component_dims[k] - 1
               /\ Row(k) \in Nat
               /\ RestAfter(n, k - 1) = (Row(k) - 1) + component_dims[k] * RestAfter(n, k)
    <2>1. k - 1 \in 0 .. 22 /\ component_dims[k] \in Nat
      BY ComponentsAreParams
    <2>2. RestAfter(n, k - 1) \in Nat
      BY <1>4, <2>1
    <2>3. RestAfter(n, k - 1) % component_dims[k] \in Nat
      BY <2>2, ComponentsAreParams, Division
    <2> QED BY <1>3, <2>2, <2>3
  <1>6. e = [p \in Params |-> Row(CHOOSE k \in 1 .. 22 : components[k] = p)]
    BY ComponentsAreParams DEF idx_to_embedding, RestAfter, R!Fix, RestDef
  <1> HIDE DEF e, Row
  <1>7. ASSUME NEW k \in 1 .. 22 PROVE e[components[k]] = Row(k)
    <2>1. \A j \in 1 .. 22 : components[j] = components[k] => j = k
      BY ComponentsDiffer
    <2>2. components[k] \in Params
      BY ComponentsAreParams
    <2> QED BY <1>6, <2>1, <2>2
  <1>8. e \in Design
    <2>1. ASSUME NEW p \in Params PROVE e[p] \in Nat /\ 1 <= e[p] /\ e[p] <= Levels[p]
      <3>1. PICK k \in 1 .. 22 : components[k] = p
        BY ComponentsAreParams
      <3>2. e[p] = Row(k) /\ component_dims[k] = Levels[p] /\ Levels[p] \in Nat
        BY <1>7, <3>1, ComponentsAreParams
      <3> QED BY <1>5, <3>2
    <2> QED BY <1>6, <2>1 DEF Design
  <1> DEFINE Left(k) == n - 1 = Digits(e, k) + WeightAfter(k) * RestAfter(n, k)
             S == {k \in 0 .. 22 : Left(k)}
  <1>9. 0 \in S
    BY <1>0, <1>2, <1>8, DigitSteps, WeightSteps
  <1>10. ASSUME NEW k \in 1 .. 22, k - 1 \in S PROVE k \in S
    <2> DEFINE v == WeightAfter(k - 1)
               r == Row(k) - 1
               d == component_dims[k]
               q == RestAfter(n, k)
               a == Digits(e, k - 1)
    <2>1. /\ r \in Nat /\ d \in Nat /\ v \in Nat /\ a \in Nat /\ q \in Nat
          /\ Digits(e, k) = a + v * r /\ WeightAfter(k) = v * d
          /\ RestAfter(n, k - 1) = r + d * q
      <3>1. r \in Nat /\ q \in Nat /\ RestAfter(n, k - 1) = r + d * q
        BY <1>5
      <3>2. d \in Nat /\ e[components[k]] = Row(k)
        BY <1>7, ComponentsAreParams
      <3>3. k - 1 \in 0 .. 22
        OBVIOUS
      <3>4. v \in Nat /\ WeightAfter(k) = v * d
        BY <3>3, WeightSteps
      <3>5. a \in Nat /\ Digits(e, k) = a + v * (e[components[k]] - 1)
        BY <1>8, <3>3, DigitSteps
      <3> QED BY <3>1, <3>2, <3>4, <3>5
    <2>2. n - 1 = a + v * (r + d * q)
      BY <1>10, <2>1
    <2> HIDE DEF v, r, d, q, a
    <2>3. v * (r + d * q) = v * r + (v * d) * q
      BY <2>1
    <2>4. v * r \in Nat /\ (v * d) * q \in Nat
      BY <2>1
    <2>5. n - 1 = (a + v * r) + (v * d) * q
      BY <2>1, <2>2, <2>3, <2>4
    <2> QED BY <2>1, <2>5 DEF q
  <1>11. \A k \in 0 .. 22 : k \in S
    <2> HIDE DEF S
    <2> QED BY <1>9, <1>10, R!IntervalInduction
  <1>12. n - 1 = Digits(e, 22)
    <2> DEFINE q == RestAfter(n, 22)
               a == Digits(e, 22)
    <2>1. q \in Nat /\ a \in Nat /\ n - 1 = a + size * q
      BY <1>0, <1>5, <1>8, <1>11, DigitSteps
    <2> HIDE DEF q, a
    <2>2. q = 0
      <3>1. CASE q >= 1
        <4>1. size * q >= size * 1 /\ size * q \in Nat
          BY <1>0, <2>1, <3>1
        <4> QED BY <1>0, <2>1, <4>1
      <3> QED BY <2>1, <3>1
    <2> QED BY <1>0, <2>1, <2>2 DEF a
  <1>13. embedding_to_idx(e) = n
    BY <1>8, <1>12, DigitSteps
  <1> QED BY <1>8, <1>13 DEF e

-----------------------------------------------------------------------------
LEMMA WidthsAreNumbers ==
  Widths \subseteq Nat
PROOF
  <1> DEFINE table == components_mappings["pipelineWidth"]
  <1>1. table \in Seq(Nat)
    BY ResourceAssumption, ParametersAreDistinct
  <1>2. \A k \in DOMAIN table : table[k] \in Nat
    BY <1>1
  <1> QED BY <1>2 DEF Widths, Range

(***************************************************************************)
(* Every thread starts from a pipeline width or from an index, and every   *)
(* design exploration_impl may begin with has the width of the start.      *)
(***************************************************************************)
LEMMA StartsAreStarts ==
  /\ starts \in Seq(Nat) /\ Len(starts) \in Nat /\ Len(starts) > 0
  /\ \A t \in 1 .. Len(starts) : starts[t] \in Widths \/ starts[t] \in 9 .. size
PROOF
  <1>1. Widths \subseteq Nat
    BY WidthsAreNumbers
  <1>2. starts \in Seq(Nat) /\ starts # <<>>
    <2>1. pipeline_width \in Seq(Nat)
      <3>1. PICK n \in Nat : pipeline_width \in [1 .. n -> Widths]
        BY EngineAssumption, SeqDef
      <3>2. pipeline_width \in [1 .. n -> Nat]
        BY <1>1, <3>1
      <3> QED BY <3>2, SeqDef
    <2> QED BY <2>1, EngineAssumption DEF starts
  <1>3. \A t \in DOMAIN starts : starts[t] \in Widths \/ starts[t] \in 9 .. size
    BY EngineAssumption DEF starts
  <1> QED BY <1>2, <1>3, EmptySeq, LenProperties

LEMMA FirstDesignsAreDesigns ==
  ASSUME NEW t \in 1 .. Len(starts), NEW n \in FirstDesigns(starts[t])
  PROVE  /\ idx_to_embedding(n) \in Design
         /\ embedding_to_idx(idx_to_embedding(n)) = n
         /\ Width(idx_to_embedding(n)) = StartWidth(starts[t])
PROOF
  <1>0. size \in Nat
    BY WeightSteps DEF WeightAfter
  <1>1. CASE starts[t] \in 9 .. size
    <2>1. n = starts[t] /\ starts[t] > 8 /\ n \in 1 .. size
      BY <1>0, <1>1 DEF FirstDesigns
    <2> QED BY <2>1, RowsLeadBack DEF StartWidth
  <1>2. CASE starts[t] \in Widths
    <2>1. starts[t] \in Nat /\ starts[t] <= 8
      BY <1>2, StartsAreStarts DEF Widths
    <2>2. ~(starts[t] > 8)
      BY <2>1
    <2>3. PICK d \in Baselines[starts[t]] : n = embedding_to_idx(d)
      BY <2>2 DEF FirstDesigns
    <2>4. d \in Design /\ Width(d) = starts[t]
      BY <1>2, EngineAssumption
    <2> QED BY <2>2, <2>3, <2>4, CodecInverse DEF StartWidth
  <1> QED BY <1>1, <1>2, StartsAreStarts

-----------------------------------------------------------------------------
(* what holds between the steps of exploration_impl *)
Phases ==
  /\ pc \in {"evaluate", "score"} =>
       Len(trace) = i /\ i < budget /\ i <= last_update + early_stopping
  /\ pc = "analyze" => Len(trace) = i + 1 /\ trace[i + 1].design = embedding
  /\ pc \in {"score", "analyze"} => idx \in DOMAIN temp
  /\ pc \in {"start", "evaluate", "score", "analyze"} => Len(outputs) < Len(starts)
  /\ pc = "collect" => Len(outputs) = Len(starts)
  /\ pc \in {"evaluate", "score", "analyze"} => Records(scm, i, trace, embedding)

(* the inductive invariant of the epochs *)
Shape == TypeOK /\ Phases /\ RoundsAreBounded

(* where the program is after a thread or an epoch has ended *)
Ended ==
  /\ outputs' \in Seq(Output) /\ solutions' \in Seq(Epoch)
  /\ pc' \in {"start", "collect"}
  /\ pc' = "start" => Len(outputs') < Len(starts)
  /\ pc' = "collect" => Len(outputs') = Len(starts)

(***************************************************************************)
(* A thread that ends, with its epochs or by an exception, adds its output *)
(* and leaves the engine before the next thread or after the last one.     *)
(***************************************************************************)
LEMMA ThreadEnds ==
  ASSUME NEW output \in Output, outputs \in Seq(Output), Len(outputs) < Len(starts),
         EndThread(output)
  PROVE  Ended
PROOF
  <1>1. Len(starts) \in Nat /\ Len(outputs) \in Nat
    BY StartsAreStarts
  <1>2. outputs' = Append(outputs, output) /\ solutions' = <<>>
    BY DEF EndThread
  <1>3. outputs' \in Seq(Output) /\ Len(outputs') = Len(outputs) + 1
    BY <1>2
  <1>4. solutions' \in Seq(Epoch)
    BY <1>2
  <1>5. pc' = IF Len(outputs) + 1 = Len(starts) THEN "collect" ELSE "start"
    BY DEF EndThread, thread
  <1> QED BY <1>1, <1>3, <1>4, <1>5 DEF Ended

(***************************************************************************)
(* An epoch that ends is added to the solutions, or ends its thread.       *)
(***************************************************************************)
LEMMA EpochEnds ==
  ASSUME NEW rounds \in Seq(Round), NEW b \in Nat, outputs \in Seq(Output),
         solutions \in Seq(Epoch), Len(outputs) < Len(starts), EndEpoch(rounds, b)
  PROVE  Ended
PROOF
  <1> DEFINE e == [trace |-> rounds, best |-> b]
             finished == Append(solutions, e)
  <1>1. e \in Epoch
    BY DEF Epoch
  <1>2. finished \in Seq(Epoch)
    BY <1>1
  <1>3. CASE Len(finished) = Epochs
    <2>1. EndThread([died |-> FALSE, epochs |-> finished])
      BY <1>3 DEF EndEpoch
    <2>2. [died |-> FALSE, epochs |-> finished] \in Output
      BY <1>2 DEF Output
    <2> QED BY <2>1, <2>2, ThreadEnds
  <1>4. CASE Len(finished) # Epochs
    <2>1. solutions' = finished /\ pc' = "start" /\ outputs' = outputs
      BY <1>4 DEF EndEpoch
    <2> QED BY <1>2, <2>1 DEF Ended
  <1> QED BY <1>3, <1>4

(***************************************************************************)
(* A thread that dies ends.                                                *)
(***************************************************************************)
LEMMA DeathEnds ==
  ASSUME NEW why \in Reasons, outputs \in Seq(Output), Len(outputs) < Len(starts), Die(why)
  PROVE  Ended
PROOF
  <1>1. [died |-> TRUE, why |-> why] \in Output
    BY DEF Output
  <1> QED BY <1>1, ThreadEnds DEF Die

(***************************************************************************)
(* Nothing but types and bounds is required between two epochs.            *)
(***************************************************************************)
LEMMA BetweenEpochs ==
  ASSUME TypeOK, RoundsAreBounded, Ended, UNCHANGED <<temp, reports>>,
         embedding' \in Design, idx' = embedding_to_idx(embedding'),
         DOMAIN scm' = Sensitive, \A c \in Sensitive : scm'[c] \in Component(c),
         i' \in Nat, trace' \in Seq(Round), best' \in Nat, last_update' \in Nat,
         RoundsAreBounded'
  PROVE  Shape'
PROOF
  <1>1. TypeOK'
    BY DEF TypeOK, Ended
  <1>2. Phases'
    BY DEF Phases, Ended
  <1> QED BY <1>1, <1>2 DEF Shape

(***************************************************************************)
(* The records are those of a design space: Shape holds initially.         *)
(***************************************************************************)
LEMMA ShapeInit ==
  Init => Shape
PROOF
  <1> SUFFICES ASSUME Init PROVE Shape
    OBVIOUS
  <1>1. /\ Len(starts) > 0 /\ Len(starts) \in Nat
        /\ budget \in Nat /\ early_stopping \in Nat
    BY EngineAssumption, StartsAreStarts
  <1>2. embedding \in Design /\ idx = embedding_to_idx(embedding)
    <2>1. 1 \in 1 .. Len(starts) /\ idx \in FirstDesigns(starts[1])
      BY <1>1 DEF Init
    <2>2. embedding = idx_to_embedding(idx)
      BY DEF Init
    <2> QED BY <2>1, <2>2, FirstDesignsAreDesigns
  <1>3. DOMAIN scm = Sensitive /\ \A c \in Sensitive : scm[c] \in Component(c)
    BY DEF Init, reset, Component
  <1>4. TypeOK
    BY <1>2, <1>3 DEF Init, TypeOK
  <1>5. Len(trace) = 0 /\ Len(outputs) = 0 /\ last_update = 0
    BY DEF Init
  <1>6. Phases /\ RoundsAreBounded
    BY <1>1, <1>5 DEF Init, Phases, RoundsAreBounded
  <1> QED BY <1>4, <1>6 DEF Shape

(***************************************************************************)
(* exploration_impl begins an epoch at one of the starts of the thread.    *)
(***************************************************************************)
LEMMA ShapeStart ==
  Shape /\ Start => Shape'
PROOF
  <1> SUFFICES ASSUME Shape, Start PROVE Shape'
    OBVIOUS
  <1>0. TypeOK /\ Phases /\ Len(outputs) < Len(starts) /\ Len(outputs) \in Nat
    BY DEF Shape, Start, Phases, TypeOK
  <1>1. /\ Len(starts) \in Nat /\ budget \in Nat \ {0} /\ early_stopping \in Nat
    BY EngineAssumption, StartsAreStarts
  <1>2. /\ idx' \in FirstDesigns(starts[Len(outputs) + 1])
        /\ embedding' = idx_to_embedding(idx') /\ scm' = set_config(reset, embedding')
        /\ trace' = <<>> /\ best' = 0 /\ i' = 0 /\ last_update' = 0 /\ pc' = "evaluate"
        /\ UNCHANGED <<temp, outputs, solutions, reports>>
    BY DEF Start, thread, engine
  <1>3. embedding' \in Design /\ idx' = embedding_to_idx(embedding')
    <2>1. Len(outputs) + 1 \in 1 .. Len(starts)
      BY <1>0, <1>1
    <2> QED BY <1>2, <2>1, FirstDesignsAreDesigns
  <1>4. trace' \in Seq(Round) /\ Len(trace') = 0
    BY <1>2
  <1>5. Records(scm', i', trace', embedding')
    BY <1>2, <1>3, <1>4, ResetIsAligned
  <1>6. TypeOK'
    BY <1>0, <1>2, <1>3, <1>4, <1>5 DEF TypeOK, Records
  <1>7. Phases'
    BY <1>0, <1>1, <1>2, <1>4, <1>5 DEF Phases
  <1>8. RoundsAreBounded'
    BY <1>1, <1>2, <1>4 DEF RoundsAreBounded
  <1> QED BY <1>6, <1>7, <1>8 DEF Shape

(***************************************************************************)
(* A design is looked up, simulated, or its simulator cannot be built.     *)
(***************************************************************************)
LEMMA ShapeEvaluate ==
  Shape /\ (EvaluateCached \/ Simulate \/ BuildFails) => Shape'
PROOF
  <1> SUFFICES ASSUME Shape, EvaluateCached \/ Simulate \/ BuildFails PROVE Shape'
    OBVIOUS
  <1>0. TypeOK /\ Phases /\ RoundsAreBounded /\ pc = "evaluate"
    BY DEF Shape, EvaluateCached, Simulate, BuildFails
  <1>1. CASE EvaluateCached
    <2>1. UNCHANGED <<engine, epoch>> /\ pc' = "score" /\ idx \in DOMAIN temp
      BY <1>1 DEF EvaluateCached, Cached
    <2>2. TypeOK'
      BY <1>0, <2>1 DEF TypeOK, engine, epoch
    <2> QED BY <1>0, <2>1, <2>2 DEF Shape, Phases, RoundsAreBounded, engine, epoch
  <1>2. CASE Simulate
    <2>1. PICK r \in Results :
            temp' = [d \in DOMAIN temp \cup {idx} |-> IF d = idx THEN r ELSE temp[d]]
      BY <1>2 DEF Simulate
    <2>2. UNCHANGED <<outputs, solutions, reports, epoch>> /\ pc' = "score"
      BY <1>2 DEF Simulate
    <2>3. r \in Result
      BY EngineAssumption
    <2>4. /\ DOMAIN temp' = DOMAIN temp \cup {idx}
          /\ \A d \in DOMAIN temp' : temp'[d] \in Result
      BY <1>0, <2>1, <2>3 DEF TypeOK
    <2>5. TypeOK'
      BY <1>0, <2>2, <2>4 DEF TypeOK, epoch
    <2> QED BY <1>0, <2>2, <2>4, <2>5 DEF Shape, Phases, RoundsAreBounded, epoch
  <1>3. CASE BuildFails
    <2>1. Die("build") /\ UNCHANGED <<temp, reports, epoch>>
      BY <1>3 DEF BuildFails
    <2>2. Ended
      BY <1>0, <2>1, DeathEnds DEF Phases, TypeOK, Reasons
    <2>3. RoundsAreBounded'
      BY <1>0, <2>1 DEF RoundsAreBounded, epoch
    <2> QED BY <1>0, <2>1, <2>2, <2>3, BetweenEpochs DEF TypeOK, epoch
  <1> QED BY <1>1, <1>2, <1>3

(* the round that is added when the result r is found *)
Scoring(r) == [design |-> embedding, pppa |-> r.pppa, whole |-> r.analysis = "all"]

(***************************************************************************)
(* What Score does, by the result it finds: the metric fails, the          *)
(* simulation was a failure, or the design is compared with the best one.  *)
(***************************************************************************)
LEMMA ScoreCases ==
  ASSUME Shape, Score
  PROVE  /\ pc = "score" /\ Len(outputs) < Len(starts)
         /\ temp[idx] \in Result /\ UNCHANGED <<temp, reports, idx, embedding, scm, i>>
         /\ LET r == temp[idx]
                rounds == Append(trace, Scoring(r))
            IN  /\ rounds \in Seq(Round) /\ Len(rounds) = i + 1
                /\ rounds[i + 1] = Scoring(r)
                /\ \A k \in 1 .. i : rounds[k] = trace[k]
                /\ \/ Die("metric") /\ UNCHANGED <<trace, best, last_update>>
                   \/ /\ r.ppa /\ r.pppa = 0 /\ trace' = rounds /\ EndEpoch(rounds, best)
                      /\ UNCHANGED <<best, last_update>>
                   \/ /\ r.pppa # 0 /\ trace' = rounds /\ pc' = "analyze"
                      /\ best' = (IF Better(r.pppa) THEN i + 1 ELSE best)
                      /\ last_update' = (IF Better(r.pppa) THEN i ELSE last_update)
                      /\ UNCHANGED <<outputs, solutions>>
PROOF
  <1> DEFINE r == temp[idx]
             new == Scoring(r)
             rounds == Append(trace, new)
  <1>1. /\ pc = "score" /\ TypeOK /\ Phases /\ Len(outputs) < Len(starts)
        /\ Len(trace) = i /\ idx \in DOMAIN temp
    BY DEF Shape, Score, Phases
  <1>2. r \in Result /\ r.pppa \in Nat
    BY <1>1 DEF TypeOK, Result
  <1>3. new \in Round /\ trace \in Seq(Round) /\ i \in Nat
    BY <1>1, <1>2 DEF TypeOK, Round, Scoring
  <1>4. /\ rounds \in Seq(Round) /\ Len(rounds) = i + 1 /\ rounds[i + 1] = new
        /\ \A k \in 1 .. i : rounds[k] = trace[k]
    BY <1>1, <1>3
  <1>5. UNCHANGED <<temp, reports, idx, embedding, scm, i>>
    BY DEF Score
  <1>6. \/ Die("metric") /\ UNCHANGED <<trace, best, last_update>>
        \/ /\ r.ppa /\ r.pppa = 0 /\ trace' = rounds /\ EndEpoch(rounds, best)
           /\ UNCHANGED <<best, last_update>>
        \/ /\ r.pppa # 0 /\ trace' = rounds /\ pc' = "analyze"
           /\ best' = (IF Better(r.pppa) THEN i + 1 ELSE best)
           /\ last_update' = (IF Better(r.pppa) THEN i ELSE last_update)
           /\ UNCHANGED <<outputs, solutions>>
    <2>1. CASE ~r.ppa
      BY <2>1 DEF Scoring, Score, MetricFails
    <2>2. CASE r.ppa /\ r.pppa = 0
      BY <2>2 DEF Scoring, Score
    <2>3. CASE r.ppa /\ r.pppa # 0
      BY <2>3 DEF Scoring, Score
    <2> QED BY <2>1, <2>2, <2>3
  <1> QED BY <1>1, <1>2, <1>4, <1>5, <1>6

(***************************************************************************)
(* The score of a round is added to the trace.                             *)
(***************************************************************************)
LEMMA ShapeScore ==
  Shape /\ Score => Shape'
PROOF
  <1> SUFFICES ASSUME Shape, Score PROVE Shape'
    OBVIOUS
  <1> DEFINE r == temp[idx]
             rounds == Append(trace, Scoring(r))
  <1>0. /\ TypeOK /\ Phases /\ RoundsAreBounded /\ Len(trace) = i /\ i < budget
        /\ i <= last_update + early_stopping /\ Records(scm, i, trace, embedding)
        /\ idx \in DOMAIN temp
    BY ScoreCases DEF Shape, Phases
  <1>1. /\ pc = "score" /\ Len(outputs) < Len(starts) /\ r \in Result
        /\ UNCHANGED <<temp, reports, idx, embedding, scm, i>>
        /\ rounds \in Seq(Round) /\ Len(rounds) = i + 1
        /\ rounds[i + 1] = Scoring(r)
        /\ \A k \in 1 .. i : rounds[k] = trace[k]
    BY ScoreCases
  <1>2. /\ i \in Nat /\ last_update \in Nat /\ best \in Nat /\ budget \in Nat
        /\ early_stopping \in Nat
        /\ outputs \in Seq(Output) /\ solutions \in Seq(Epoch)
    BY <1>0, EngineAssumption DEF TypeOK
  <1>3. CASE Die("metric") /\ UNCHANGED <<trace, best, last_update>>
    <2>1. Ended
      BY <1>1, <1>2, <1>3, DeathEnds DEF Reasons
    <2>2. RoundsAreBounded'
      BY <1>0, <1>3 DEF RoundsAreBounded
    <2> QED BY <1>0, <1>1, <1>3, <2>1, <2>2, BetweenEpochs DEF TypeOK
  <1>4. CASE trace' = rounds /\ EndEpoch(rounds, best) /\ UNCHANGED <<best, last_update>>
    <2>1. Ended
      BY <1>1, <1>2, <1>4, EpochEnds
    <2> HIDE DEF rounds
    <2>2. RoundsAreBounded'
      BY <1>0, <1>1, <1>2, <1>4 DEF RoundsAreBounded
    <2>3. trace' \in Seq(Round)
      BY <1>1, <1>4
    <2> QED BY <1>0, <1>1, <1>4, <2>1, <2>2, <2>3, BetweenEpochs DEF TypeOK
  <1>5. CASE /\ trace' = rounds /\ pc' = "analyze"
             /\ best' = (IF Better(r.pppa) THEN i + 1 ELSE best)
             /\ last_update' = (IF Better(r.pppa) THEN i ELSE last_update)
             /\ UNCHANGED <<outputs, solutions>>
    <2>1. /\ best' \in Nat /\ last_update' \in Nat
          /\ last_update' \in {i, last_update} /\ trace' \in Seq(Round)
      BY <1>1, <1>2, <1>5
    <2>2. TypeOK'
      BY <1>0, <1>1, <1>5, <2>1 DEF TypeOK
    <2> HIDE DEF rounds
    <2>3. RoundsAreBounded'
      BY <1>0, <1>1, <1>2, <1>5, <2>1 DEF RoundsAreBounded
    <2>4. Records(scm', i', trace', embedding')
      <3>1. ASSUME NEW c \in Sensitive PROVE Aligned(c, scm[c], i, rounds, embedding)
        <4>1. scm[c] \in Component(c) /\ Aligned(c, scm[c], i, trace, embedding)
          BY <1>0 DEF Records
        <4>2. /\ Len(scm[c].configs) \in Nat /\ Len(scm[c].contribution) \in Nat
              /\ Len(scm[c].configs) <= i + 1
          BY <1>2, <4>1 DEF Component, Aligned
        <4>3. ASSUME NEW k \in 1 .. Len(scm[c].configs)
              PROVE  scm[c].configs[k] =
                       Setting(c, IF k <= Len(rounds) THEN rounds[k].design ELSE embedding)
          <5>1. scm[c].configs[k] =
                  Setting(c, IF k <= Len(trace) THEN trace[k].design ELSE embedding)
            BY <4>1 DEF Aligned
          <5>2. CASE k \in 1 .. i
            <6>1. rounds[k] = trace[k]
              BY <1>1, <5>2
            <6> QED BY <1>0, <1>1, <1>2, <5>1, <5>2, <6>1
          <5>3. CASE k = i + 1
            <6>1. rounds[k].design = embedding
              BY <1>1, <5>3 DEF Scoring
            <6> QED BY <1>0, <1>1, <1>2, <5>1, <5>3, <6>1
          <5> QED BY <1>2, <4>2, <5>2, <5>3
        <4> QED BY <4>1, <4>3 DEF Aligned
      <3> QED BY <1>0, <1>1, <1>5, <3>1 DEF Records
    <2>5. trace'[i' + 1].design = embedding'
      BY <1>1, <1>5 DEF Scoring
    <2>6. Phases'
      BY <1>0, <1>1, <1>5, <2>4, <2>5 DEF Phases
    <2> QED BY <2>2, <2>3, <2>6 DEF Shape
  <1> QED BY <1>3, <1>4, <1>5, ScoreCases

(***************************************************************************)
(* What Analyze does: the next design is a design of the same pipeline     *)
(* width with aligned records, and the epoch ends or goes on.              *)
(***************************************************************************)
LEMMA AnalyzeCases ==
  ASSUME Shape, Analyze
  PROVE  /\ pc = "analyze" /\ Len(outputs) < Len(starts)
         /\ embedding' \in Design /\ embedding'["pipelineWidth"] = embedding["pipelineWidth"]
         /\ idx' = embedding_to_idx(embedding')
         /\ Records(scm', i + 1, trace, embedding') /\ i' = i + 1
         /\ UNCHANGED <<temp, reports, trace, best, last_update>>
         /\ \/ EndEpoch(trace, best)
            \/ ~IsLastRound /\ pc' = "evaluate" /\ UNCHANGED <<outputs, solutions>>
PROOF
  <1> DEFINE contribution == temp[idx].contribution
  <1>1. /\ pc = "analyze" /\ TypeOK /\ Phases /\ Len(outputs) < Len(starts)
        /\ Len(trace) = i + 1 /\ trace[i + 1].design = embedding /\ idx \in DOMAIN temp
        /\ Records(scm, i, trace, embedding)
    BY DEF Shape, Analyze, Phases
  <1>2. contribution \in Contribution
    BY <1>1 DEF TypeOK, Result
  <1>3. i \in Nat /\ trace \in Seq(Round) /\ embedding \in Design
    BY <1>1 DEF TypeOK
  <1>4. PICK S \in Samples(contribution) :
          /\ embedding' = bottleneck_removal(embedding, Judged, contribution, S)
          /\ scm' = set_config(Judged, embedding')
    BY DEF Analyze
  <1>5. S \in SUBSET Btnks
    BY <1>4 DEF Samples
  <1>6. Judged = update_terminate(update(scm, contribution))
    BY DEF Judged
  <1> HIDE DEF contribution
  <1>7. WellRecorded(Judged)
    BY <1>1, <1>2, <1>3, <1>6, RoundKeepsRecords
  <1>8. embedding' \in Design /\ embedding'["pipelineWidth"] = embedding["pipelineWidth"]
    BY <1>3, <1>4, <1>5, <1>7, RemovalKeepsDesign
  <1>9. Records(scm', i + 1, trace, embedding')
    BY <1>1, <1>2, <1>3, <1>4, <1>6, <1>8, RoundKeepsRecords
  <1>10. /\ i' = i + 1 /\ idx' = embedding_to_idx(embedding')
         /\ UNCHANGED <<temp, reports, trace, best, last_update>>
         /\ \/ EndEpoch(trace, best)
            \/ ~IsLastRound /\ pc' = "evaluate" /\ UNCHANGED <<outputs, solutions>>
    BY DEF Analyze
  <1> QED BY <1>1, <1>8, <1>9, <1>10

(***************************************************************************)
(* The bottlenecks are analysed and the next design is chosen.             *)
(***************************************************************************)
LEMMA ShapeAnalyze ==
  Shape /\ Analyze => Shape'
PROOF
  <1> SUFFICES ASSUME Shape, Analyze PROVE Shape'
    OBVIOUS
  <1>0. /\ TypeOK /\ Phases /\ RoundsAreBounded /\ Len(trace) = i + 1
        /\ i \in Nat /\ trace \in Seq(Round) /\ best \in Nat /\ last_update \in Nat
        /\ outputs \in Seq(Output) /\ solutions \in Seq(Epoch)
    BY AnalyzeCases DEF Shape, Phases, TypeOK
  <1>1. /\ Len(outputs) < Len(starts) /\ embedding' \in Design /\ i' = i + 1
        /\ idx' = embedding_to_idx(embedding')
        /\ Records(scm', i + 1, trace, embedding')
        /\ UNCHANGED <<temp, reports, trace, best, last_update>>
    BY AnalyzeCases
  <1>2. budget \in Nat /\ early_stopping \in Nat
    BY EngineAssumption
  <1>3. RoundsAreBounded'
    BY <1>0, <1>1 DEF RoundsAreBounded
  <1>4. i' \in Nat /\ DOMAIN scm' = Sensitive /\ \A c \in Sensitive : scm'[c] \in Component(c)
    BY <1>0, <1>1 DEF Records
  <1>5. CASE EndEpoch(trace, best)
    <2>1. Ended
      BY <1>0, <1>1, <1>5, EpochEnds
    <2> QED BY <1>0, <1>1, <1>3, <1>4, <2>1, BetweenEpochs
  <1>6. CASE ~IsLastRound /\ pc' = "evaluate" /\ UNCHANGED <<outputs, solutions>>
    <2>1. i + 1 < budget /\ i + 1 <= last_update + early_stopping
      BY <1>0, <1>2, <1>6 DEF IsLastRound
    <2>2. TypeOK'
      BY <1>0, <1>1, <1>4, <1>6 DEF TypeOK
    <2>3. Phases'
      BY <1>0, <1>1, <1>6, <2>1 DEF Phases
    <2> QED BY <1>3, <2>2, <2>3 DEF Shape
  <1> QED BY <1>5, <1>6, AnalyzeCases

(***************************************************************************)
(* Every step of the engine preserves Shape.                               *)
(***************************************************************************)
LEMMA ShapeNext ==
  Shape /\ [Next]_vars => Shape'
PROOF
  <1> SUFFICES ASSUME Shape, [Next]_vars PROVE Shape'
    OBVIOUS
  <1>0. TypeOK /\ Phases /\ RoundsAreBounded
    BY DEF Shape
  <1>1. CASE AnalyzeFails
    <2>1. pc = "analyze" /\ Die("analysis") /\ UNCHANGED <<temp, reports, epoch>>
      BY <1>1 DEF AnalyzeFails
    <2>2. Ended
      BY <1>0, <2>1, DeathEnds DEF Phases, TypeOK, Reasons
    <2>3. RoundsAreBounded'
      BY <1>0, <2>1 DEF RoundsAreBounded, epoch
    <2> QED BY <1>0, <2>1, <2>2, <2>3, BetweenEpochs DEF TypeOK, epoch
  <1>2. CASE GenerateReport
    <2>1. pc' \in {"done", "failed"} /\ UNCHANGED <<temp, outputs, solutions, epoch>>
      BY <1>2 DEF GenerateReport
    <2>2. \A t \in DOMAIN reports' : \A e \in DOMAIN reports'[t] : reports'[t][e] \in Epoch
      <3>1. CASE UNCHANGED reports
        BY <1>0, <3>1 DEF TypeOK
      <3>2. CASE ~UNCHANGED reports
        <4> DEFINE written == IF Len(pipeline_width) < Len(outputs) THEN Len(pipeline_width)
              ELSE Len(outputs)
        <4>1. /\ reports' = [t \in 1 .. written |-> Reported(SolutionsOf(t))]
              /\ \A t \in DOMAIN outputs : ~outputs[t].died
          BY <1>2, <3>2 DEF GenerateReport
        <4>2. outputs \in Seq(Output) /\ Len(outputs) \in Nat /\ Len(pipeline_width) \in Nat
          BY <1>0, EngineAssumption DEF TypeOK
        <4>3. \A t \in 1 .. written : t \in DOMAIN outputs
          BY <4>2
        <4> HIDE DEF written
        <4>4. ASSUME NEW t \in 1 .. written,
                     NEW e \in DOMAIN Reported(SolutionsOf(t))
              PROVE  Reported(SolutionsOf(t))[e] \in Epoch
          <5>1. outputs[t].epochs \in Seq(Epoch)
            <6>1. outputs[t] \in Output /\ ~outputs[t].died
              BY <4>1, <4>2, <4>3
            <6> QED BY <6>1 DEF Output
          <5> QED BY <5>1 DEF Reported, Restrict, SolutionsOf
        <4> QED BY <4>1, <4>4
      <3> QED BY <3>1, <3>2
    <2>3. TypeOK'
      BY <1>0, <2>1, <2>2 DEF TypeOK, epoch
    <2>4. Phases' /\ RoundsAreBounded'
      BY <1>0, <2>1 DEF Phases, RoundsAreBounded, epoch
    <2> QED BY <2>3, <2>4 DEF Shape
  <1>3. CASE UNCHANGED vars
    BY <1>0, <1>3 DEF vars, engine, epoch, Shape, TypeOK, Phases, RoundsAreBounded
  <1> QED BY <1>1, <1>2, <1>3, ShapeStart, ShapeEvaluate, ShapeScore, ShapeAnalyze
          DEF Next, Finished

(***************************************************************************)
(* Shape is an invariant of the engine and implies the checked properties. *)
(***************************************************************************)
LEMMA ShapeInvariant ==
  Spec => []Shape
PROOF
  <1> QED BY ShapeInit, ShapeNext, PTL DEF Spec

(* the part of Shape that RecordsAligned states *)
LEMMA ShapeImpliesAligned ==
  Shape => RecordsAligned
PROOF
  <1> QED BY DEF Shape, Phases, Records, Aligned, RecordsAligned

-----------------------------------------------------------------------------
(***************************************************************************)
(* The engine never leaves the design space: whatever sequence of reports  *)
(* bottleneck_removal is given, every design it returns has its parameters *)
(* within their tables, and so has every recorded setting.                 *)
(***************************************************************************)
THEOREM TypeCorrect == Spec => []TypeOK
PROOF
  <1>1. Shape => TypeOK
    BY DEF Shape
  <1> QED BY <1>1, ShapeInvariant, PTL

(***************************************************************************)
(* Settings and contributions of the sensitive components stay aligned, so *)
(* that the assertion in fallback never fails and the setting it takes is  *)
(* the one its contribution was measured with.                             *)
(***************************************************************************)
THEOREM RecordsStayAligned == Spec => []RecordsAligned
PROOF
  <1> QED BY ShapeInvariant, ShapeImpliesAligned, PTL

(***************************************************************************)
(* exploration_impl evaluates no more designs than its budget, and no more *)
(* than early_stopping after the best one.                                 *)
(***************************************************************************)
THEOREM EpochsAreBounded == Spec => []RoundsAreBounded
PROOF
  <1>1. Shape => RoundsAreBounded
    BY DEF Shape
  <1> QED BY <1>1, ShapeInvariant, PTL

-----------------------------------------------------------------------------
(* rounds of the pipeline width the t-th thread was started for *)
OfWidth(rounds, t) ==
  \A k \in DOMAIN rounds : Width(rounds[k].design) = StartWidth(starts[t])

(* an epoch of thread t that may be returned *)
EpochOK(e, t) == IsBest(e.trace, e.best) /\ OfWidth(e.trace, t)

(* the epochs finished so far *)
FinishedOK ==
  /\ Len(solutions) < Epochs
  /\ \A e \in DOMAIN solutions : EpochOK(solutions[e], thread)
  /\ \A t \in DOMAIN outputs : ~outputs[t].died =>
       /\ Len(outputs[t].epochs) = Epochs
       /\ \A e \in DOMAIN outputs[t].epochs : EpochOK(outputs[t].epochs[e], t)

(* the epoch that is running, and the reports *)
RunningOK ==
  /\ IsBest(trace, best) /\ last_update = IF best = 0 THEN 0 ELSE best - 1
  /\ pc \in {"evaluate", "score", "analyze"} =>
       /\ OfWidth(trace, thread)
       /\ Width(embedding) = StartWidth(starts[thread])
  /\ reports # <<>> => pc \in {"done", "failed"}

(* a report is written for a pipeline width, with what its thread returned *)
ReportsOK ==
  /\ ReportsAreComplete
  /\ \A t \in DOMAIN reports :
       /\ t \in DOMAIN pipeline_width
       /\ \A e \in DOMAIN reports[t] : OfWidth(reports[t][e].trace, t)

(* the inductive invariant of the results *)
Kept == FinishedOK /\ RunningOK /\ ReportsOK

(***************************************************************************)
(* A thread that ends adds one output; its number was thread.              *)
(***************************************************************************)
LEMMA ThreadKeeps ==
  ASSUME NEW output, outputs \in Seq(Output), FinishedOK, EndThread(output),
         ~output.died => /\ Len(output.epochs) = Epochs
                         /\ \A e \in DOMAIN output.epochs : EpochOK(output.epochs[e], thread)
  PROVE  FinishedOK'
PROOF
  <1> DEFINE n == Len(outputs)
  <1>1. outputs' = Append(outputs, output) /\ solutions' = <<>>
    BY DEF EndThread
  <1>2. /\ n \in Nat /\ thread = n + 1 /\ DOMAIN outputs = 1 .. n
        /\ DOMAIN outputs' = 1 .. n + 1 /\ outputs'[n + 1] = output
        /\ \A t \in 1 .. n : outputs'[t] = outputs[t]
    BY <1>1 DEF thread
  <1> HIDE DEF n
  <1>3. ASSUME NEW t \in 1 .. n + 1, ~outputs'[t].died
        PROVE  /\ Len(outputs'[t].epochs) = Epochs
               /\ \A e \in DOMAIN outputs'[t].epochs : EpochOK(outputs'[t].epochs[e], t)
    <2>1. CASE t \in 1 .. n
      BY <1>2, <1>3, <2>1 DEF FinishedOK
    <2>2. CASE t = n + 1
      BY <1>2, <1>3, <2>2
    <2> QED BY <1>2, <2>1, <2>2
  <1>4. Len(solutions') < Epochs /\ DOMAIN solutions' = {}
    BY <1>1, EngineAssumption
  <1> QED BY <1>2, <1>3, <1>4 DEF FinishedOK, EpochOK, IsBest, OfWidth

(***************************************************************************)
(* An epoch that ends is one that may be returned.                         *)
(***************************************************************************)
LEMMA EpochKeeps ==
  ASSUME NEW rounds \in Seq(Round), NEW b \in Nat, outputs \in Seq(Output),
         solutions \in Seq(Epoch), FinishedOK, EndEpoch(rounds, b),
         IsBest(rounds, b), OfWidth(rounds, thread)
  PROVE  FinishedOK'
PROOF
  <1> DEFINE e == [trace |-> rounds, best |-> b]
             finished == Append(solutions, e)
             n == Len(solutions)
  <1>1. e \in Epoch /\ EpochOK(e, thread)
    BY DEF Epoch, EpochOK
  <1>2. /\ n \in Nat /\ Len(finished) = n + 1 /\ DOMAIN finished = 1 .. n + 1
        /\ DOMAIN solutions = 1 .. n
        /\ finished[n + 1] = e /\ \A k \in 1 .. n : finished[k] = solutions[k]
    BY <1>1
  <1>3. \A k \in DOMAIN finished : EpochOK(finished[k], thread)
    <2>1. \A k \in 1 .. n : EpochOK(solutions[k], thread)
      BY <1>2 DEF FinishedOK
    <2> HIDE DEF e, finished, n
    <2> QED BY <1>1, <1>2, <2>1
  <1>4. n < Epochs /\ Epochs \in Nat
    BY EngineAssumption DEF FinishedOK
  <1>5. CASE Len(finished) = Epochs
    <2> DEFINE output == [died |-> FALSE, epochs |-> finished]
    <2>1. EndThread(output)
      BY <1>5 DEF EndEpoch
    <2>2. ~output.died /\ output.epochs = finished
      OBVIOUS
    <2> HIDE DEF output, finished
    <2> QED BY <1>3, <1>5, <2>1, <2>2, ThreadKeeps
  <1>6. CASE Len(finished) # Epochs
    <2>1. solutions' = finished /\ outputs' = outputs
      BY <1>6 DEF EndEpoch
    <2>2. Len(finished) < Epochs
      BY <1>2, <1>4, <1>6
    <2>3. thread' = thread
      BY <2>1 DEF thread
    <2> HIDE DEF finished
    <2> QED BY <1>3, <2>1, <2>2, <2>3 DEF FinishedOK, EpochOK, IsBest, OfWidth
  <1> QED BY <1>5, <1>6

(***************************************************************************)
(* A thread that dies returns nothing.                                     *)
(***************************************************************************)
LEMMA DeathKeeps ==
  ASSUME NEW why, outputs \in Seq(Output), FinishedOK, Die(why)
  PROVE  FinishedOK'
PROOF
  <1> DEFINE output == [died |-> TRUE, why |-> why]
  <1>1. EndThread(output) /\ output.died
    BY DEF Die
  <1> HIDE DEF output
  <1> QED BY <1>1, ThreadKeeps

(***************************************************************************)
(* Comparing with the best design so far keeps the first of the best: one  *)
(* more round replaces it only when its metric is larger.                  *)
(***************************************************************************)
LEMMA BestOfLonger ==
  ASSUME NEW rounds \in Seq(Round), NEW longer \in Seq(Round), NEW n \in Nat, NEW b \in Nat,
         Len(rounds) = n, Len(longer) = n + 1, \A k \in 1 .. n : longer[k] = rounds[k],
         IsBest(rounds, b)
  PROVE  LET p == longer[n + 1].pppa
             better == IF b = 0 THEN p > 0 ELSE p > rounds[b].pppa
         IN  /\ better => IsBest(longer, n + 1)
             /\ ~better => IsBest(longer, b)
PROOF
  <1> DEFINE p == longer[n + 1].pppa
             better == IF b = 0 THEN p > 0 ELSE p > rounds[b].pppa
  <1>1. DOMAIN rounds = 1 .. n /\ DOMAIN longer = 1 .. n + 1
    OBVIOUS
  <1>2. /\ p \in Nat /\ \A k \in 1 .. n + 1 : longer[k].pppa \in Nat
        /\ \A k \in 1 .. n : rounds[k].pppa \in Nat /\ longer[k].pppa = rounds[k].pppa
    <2>1. \A r \in Round : r.pppa \in Nat
      BY DEF Round
    <2>2. n + 1 \in 1 .. n + 1 /\ \A k \in 1 .. n : k \in 1 .. n + 1
      OBVIOUS
    <2>3. \A k \in 1 .. n + 1 : longer[k] \in Round
      BY <1>1
    <2>4. \A k \in 1 .. n : rounds[k] \in Round
      BY <1>1
    <2> QED BY <2>1, <2>2, <2>3, <2>4
  <1>3. \A k \in 1 .. n + 1 : k \in 1 .. n \/ k = n + 1
    OBVIOUS
  <1>4. /\ b = 0 => \A k \in 1 .. n : rounds[k].pppa = 0
        /\ b # 0 => /\ b \in 1 .. n
                    /\ \A k \in 1 .. n : rounds[k].pppa <= rounds[b].pppa
                    /\ \A k \in 1 .. b - 1 : rounds[k].pppa < rounds[b].pppa
    BY <1>1 DEF IsBest
  <1>5. better => IsBest(longer, n + 1)
    <2> SUFFICES ASSUME better PROVE IsBest(longer, n + 1)
      OBVIOUS
    <2>1. \A k \in 1 .. n : longer[k].pppa < p
      BY <1>2, <1>4
    <2>2. \A k \in 1 .. n + 1 : longer[k].pppa <= p
      BY <1>2, <1>3, <2>1
    <2> QED BY <1>1, <2>1, <2>2 DEF IsBest
  <1>6. ~better => IsBest(longer, b)
    <2> SUFFICES ASSUME ~better PROVE IsBest(longer, b)
      OBVIOUS
    <2>1. CASE b = 0
      BY <1>1, <1>2, <1>3, <1>4, <2>1 DEF IsBest
    <2>2. CASE b # 0
      <3>1. b \in 1 .. n /\ p <= rounds[b].pppa
        BY <1>2, <1>4, <2>2
      <3>2. \A k \in 1 .. n + 1 : longer[k].pppa <= longer[b].pppa
        BY <1>2, <1>3, <1>4, <2>2, <3>1
      <3>3. \A k \in 1 .. b - 1 : longer[k].pppa < longer[b].pppa
        BY <1>2, <1>4, <2>2, <3>1
      <3> QED BY <1>1, <2>2, <3>1, <3>2, <3>3 DEF IsBest
    <2> QED BY <2>1, <2>2
  <1> QED BY <1>5, <1>6

(***************************************************************************)
(* Before the reports are written there is nothing to be said of them.     *)
(***************************************************************************)
LEMMA NotYetReported ==
  ASSUME RunningOK, pc \notin {"done", "failed"}, UNCHANGED reports
  PROVE  reports' = <<>> /\ ReportsOK'
PROOF
  <1>1. reports' = <<>>
    BY DEF RunningOK
  <1>2. DOMAIN reports' = {}
    BY <1>1
  <1> QED BY <1>1, <1>2 DEF ReportsOK, ReportsAreComplete

(***************************************************************************)
(* The outputs and solutions are what they were.                           *)
(***************************************************************************)
LEMMA FinishedStays ==
  ASSUME FinishedOK, UNCHANGED <<outputs, solutions>>
  PROVE  FinishedOK' /\ thread' = thread
PROOF
  <1> QED BY DEF FinishedOK, EpochOK, IsBest, OfWidth, thread

(***************************************************************************)
(* A thread or an epoch ends with the rounds it has.                       *)
(***************************************************************************)
LEMMA EndKeeps ==
  ASSUME Kept, pc \notin {"done", "failed"}, UNCHANGED reports, FinishedOK',
         pc' \in {"start", "collect"}, IsBest(trace', best'),
         last_update' = IF best' = 0 THEN 0 ELSE best' - 1
  PROVE  Kept'
PROOF
  <1>1. reports' = <<>> /\ ReportsOK'
    BY NotYetReported DEF Kept
  <1>2. RunningOK'
    BY <1>1 DEF RunningOK, IsBest
  <1> QED BY <1>1, <1>2 DEF Kept

(***************************************************************************)
(* Nothing has been found when the engine begins.                          *)
(***************************************************************************)
LEMMA KeptInit ==
  Init => Kept
PROOF
  <1> SUFFICES ASSUME Init PROVE Kept
    OBVIOUS
  <1>1. Epochs \in Nat \ {0}
    BY EngineAssumption
  <1>2. /\ DOMAIN solutions = {} /\ DOMAIN outputs = {} /\ DOMAIN trace = {}
        /\ Len(solutions) = 0 /\ DOMAIN reports = {}
    BY DEF Init
  <1>3. FinishedOK
    BY <1>1, <1>2 DEF FinishedOK
  <1>4. RunningOK
    BY <1>2 DEF Init, RunningOK, IsBest
  <1>5. ReportsOK
    BY <1>2 DEF Init, ReportsOK, ReportsAreComplete
  <1> QED BY <1>3, <1>4, <1>5 DEF Kept

(***************************************************************************)
(* An epoch starts with no best design, at a start of its thread.          *)
(***************************************************************************)
LEMMA KeptStart ==
  Shape /\ Kept /\ Start => Kept'
PROOF
  <1> SUFFICES ASSUME Shape, Kept, Start PROVE Kept'
    OBVIOUS
  <1>0. thread \in 1 .. Len(starts)
    BY StartsAreStarts DEF Shape, Phases, TypeOK, Start, thread
  <1>1. /\ pc = "start" /\ trace' = <<>> /\ best' = 0
        /\ last_update' = 0 /\ UNCHANGED <<outputs, solutions, reports>>
        /\ Width(embedding') = StartWidth(starts[thread])
    BY <1>0, FirstDesignsAreDesigns DEF Start, engine
  <1>2. FinishedOK' /\ thread' = thread
    BY <1>1, FinishedStays DEF Kept
  <1>3. reports' = <<>> /\ ReportsOK'
    BY <1>1, NotYetReported DEF Kept
  <1>4. DOMAIN trace' = {}
    BY <1>1
  <1>5. RunningOK'
    BY <1>1, <1>2, <1>3, <1>4 DEF RunningOK, IsBest, OfWidth
  <1> QED BY <1>2, <1>3, <1>5 DEF Kept

(***************************************************************************)
(* The evaluation of a design touches no result.                           *)
(***************************************************************************)
LEMMA KeptEvaluate ==
  Shape /\ Kept /\ (EvaluateCached \/ Simulate \/ BuildFails) => Kept'
PROOF
  <1> SUFFICES ASSUME Shape, Kept, EvaluateCached \/ Simulate \/ BuildFails PROVE Kept'
    OBVIOUS
  <1>0. FinishedOK /\ RunningOK /\ pc = "evaluate" /\ UNCHANGED <<reports, epoch>>
    BY DEF Kept, EvaluateCached, Simulate, BuildFails, engine
  <1>1. CASE EvaluateCached \/ Simulate
    <2>1. pc' = "score" /\ UNCHANGED <<outputs, solutions>>
      BY <1>1 DEF EvaluateCached, Simulate, engine
    <2>2. FinishedOK' /\ thread' = thread
      BY <1>0, <2>1, FinishedStays
    <2>3. reports' = <<>> /\ ReportsOK'
      BY <1>0, NotYetReported
    <2>4. RunningOK'
      BY <1>0, <2>1, <2>2, <2>3 DEF RunningOK, IsBest, OfWidth, epoch
    <2> QED BY <2>2, <2>3, <2>4 DEF Kept
  <1>2. CASE BuildFails
    <2>1. Die("build")
      BY <1>2 DEF BuildFails
    <2>2. FinishedOK'
      BY <1>0, <2>1, DeathKeeps DEF Shape, TypeOK
    <2>3. pc' \in {"start", "collect"}
      BY <2>1 DEF Die, EndThread
    <2> QED BY <1>0, <2>2, <2>3, EndKeeps DEF RunningOK, epoch
  <1> QED BY <1>1, <1>2

(***************************************************************************)
(* The score of a round: the best design stays the first of the best.      *)
(***************************************************************************)
LEMMA KeptScore ==
  Shape /\ Kept /\ Score => Kept'
PROOF
  <1> SUFFICES ASSUME Shape, Kept, Score PROVE Kept'
    OBVIOUS
  <1> DEFINE r == temp[idx]
             new == Scoring(r)
             rounds == Append(trace, new)
  <1>0. /\ FinishedOK /\ RunningOK /\ Len(trace) = i /\ i \in Nat /\ trace \in Seq(Round)
        /\ best \in Nat /\ outputs \in Seq(Output) /\ solutions \in Seq(Epoch)
    BY ScoreCases DEF Shape, Phases, TypeOK, Kept
  <1>1. /\ pc = "score" /\ r \in Result /\ UNCHANGED <<reports, embedding, i>>
        /\ rounds \in Seq(Round) /\ Len(rounds) = i + 1 /\ rounds[i + 1] = new
        /\ \A k \in 1 .. i : rounds[k] = trace[k]
    BY ScoreCases
  <1>2. r.pppa \in Nat /\ rounds[i + 1].pppa = r.pppa /\ rounds[i + 1].design = embedding
    BY <1>1 DEF Result, Scoring
  <1>3. /\ IsBest(trace, best) /\ last_update = (IF best = 0 THEN 0 ELSE best - 1)
        /\ OfWidth(trace, thread)
        /\ Width(embedding) = StartWidth(starts[thread])
    BY <1>0, <1>1 DEF RunningOK
  <1>4. \/ Die("metric") /\ UNCHANGED <<trace, best, last_update>>
        \/ /\ r.pppa = 0 /\ trace' = rounds /\ EndEpoch(rounds, best)
           /\ UNCHANGED <<best, last_update>>
        \/ /\ trace' = rounds /\ pc' = "analyze"
           /\ best' = (IF Better(r.pppa) THEN i + 1 ELSE best)
           /\ last_update' = (IF Better(r.pppa) THEN i ELSE last_update)
           /\ UNCHANGED <<outputs, solutions>>
    BY ScoreCases
  <1> HIDE DEF rounds
  <1>5. OfWidth(rounds, thread)
    <2>1. DOMAIN rounds = 1 .. i + 1 /\ DOMAIN trace = 1 .. i
      BY <1>0, <1>1
    <2>2. ASSUME NEW k \in 1 .. i + 1
          PROVE  Width(rounds[k].design) = StartWidth(starts[thread])
      <3>1. CASE k \in 1 .. i
        BY <1>1, <1>3, <2>1, <3>1 DEF OfWidth
      <3>2. CASE k = i + 1
        BY <1>2, <1>3, <3>2
      <3> QED BY <1>0, <3>1, <3>2
    <2> QED BY <2>1, <2>2 DEF OfWidth
  <1>6. /\ Better(r.pppa) => IsBest(rounds, i + 1)
        /\ ~Better(r.pppa) => IsBest(rounds, best)
    BY <1>0, <1>1, <1>2, <1>3, BestOfLonger DEF Better
  <1>7. CASE Die("metric") /\ UNCHANGED <<trace, best, last_update>>
    <2>1. FinishedOK'
      BY <1>0, <1>7, DeathKeeps
    <2>2. pc' \in {"start", "collect"}
      BY <1>7 DEF Die, EndThread
    <2> QED BY <1>1, <1>3, <1>7, <2>1, <2>2, EndKeeps
  <1>8. CASE /\ r.pppa = 0 /\ trace' = rounds /\ EndEpoch(rounds, best)
             /\ UNCHANGED <<best, last_update>>
    <2>1. IsBest(rounds, best)
      <3>1. CASE best = 0
        BY <1>6, <1>8, <3>1 DEF Better
      <3>2. CASE best # 0
        <4>1. best \in DOMAIN trace
          BY <1>3, <3>2 DEF IsBest
        <4>2. trace[best].pppa \in Nat
          <5>1. trace[best] \in Round
            BY <1>0, <4>1
          <5> QED BY <5>1 DEF Round
        <4> QED BY <1>6, <1>8, <3>2, <4>2 DEF Better
      <3> QED BY <3>1, <3>2
    <2>2. FinishedOK'
      BY <1>0, <1>1, <1>5, <1>8, <2>1, EpochKeeps
    <2>3. pc' \in {"start", "collect"}
      BY <1>8 DEF EndEpoch, EndThread
    <2> QED BY <1>1, <1>3, <1>8, <2>1, <2>2, <2>3, EndKeeps
  <1>9. CASE /\ trace' = rounds /\ pc' = "analyze"
             /\ best' = (IF Better(r.pppa) THEN i + 1 ELSE best)
             /\ last_update' = (IF Better(r.pppa) THEN i ELSE last_update)
             /\ UNCHANGED <<outputs, solutions>>
    <2>1. FinishedOK' /\ thread' = thread
      BY <1>0, <1>9, FinishedStays
    <2>2. reports' = <<>> /\ ReportsOK'
      BY <1>0, <1>1, NotYetReported
    <2>3. IsBest(trace', best') /\ last_update' = (IF best' = 0 THEN 0 ELSE best' - 1)
      <3>1. CASE Better(r.pppa)
        BY <1>0, <1>6, <1>9, <3>1
      <3>2. CASE ~Better(r.pppa)
        BY <1>3, <1>6, <1>9, <3>2
      <3> QED BY <3>1, <3>2
    <2>4. OfWidth(trace', thread')
      BY <1>5, <1>9, <2>1
    <2>5. RunningOK'
      BY <1>1, <1>3, <2>1, <2>2, <2>3, <2>4 DEF RunningOK, IsBest, OfWidth
    <2> QED BY <2>1, <2>2, <2>5 DEF Kept
  <1> QED BY <1>4, <1>7, <1>8, <1>9

(***************************************************************************)
(* The next design has the pipeline width of the last one.                 *)
(***************************************************************************)
LEMMA KeptAnalyze ==
  Shape /\ Kept /\ Analyze => Kept'
PROOF
  <1> SUFFICES ASSUME Shape, Kept, Analyze PROVE Kept'
    OBVIOUS
  <1>0. /\ FinishedOK /\ RunningOK /\ trace \in Seq(Round) /\ best \in Nat
        /\ outputs \in Seq(Output) /\ solutions \in Seq(Epoch)
    BY DEF Shape, TypeOK, Kept
  <1>1. /\ pc = "analyze" /\ embedding'["pipelineWidth"] = embedding["pipelineWidth"]
        /\ UNCHANGED <<reports, trace, best, last_update>>
    BY AnalyzeCases
  <1>2. /\ IsBest(trace, best) /\ last_update = (IF best = 0 THEN 0 ELSE best - 1)
        /\ OfWidth(trace, thread)
        /\ Width(embedding) = StartWidth(starts[thread])
    BY <1>0, <1>1 DEF RunningOK
  <1>3. CASE EndEpoch(trace, best)
    <2>1. FinishedOK'
      BY <1>0, <1>2, <1>3, EpochKeeps
    <2>2. pc' \in {"start", "collect"}
      BY <1>3 DEF EndEpoch, EndThread
    <2> QED BY <1>1, <1>2, <2>1, <2>2, EndKeeps
  <1>4. CASE pc' = "evaluate" /\ UNCHANGED <<outputs, solutions>>
    <2>1. FinishedOK' /\ thread' = thread
      BY <1>0, <1>4, FinishedStays
    <2>2. reports' = <<>> /\ ReportsOK'
      BY <1>0, <1>1, NotYetReported
    <2>3. RunningOK'
      <3>1. Width(embedding') = StartWidth(starts[thread])
        BY <1>1, <1>2 DEF Width
      <3> QED BY <1>1, <1>2, <2>1, <2>2, <3>1 DEF RunningOK, IsBest, OfWidth
    <2> QED BY <2>1, <2>2, <2>3 DEF Kept
  <1> QED BY <1>3, <1>4, AnalyzeCases

(***************************************************************************)
(* The reports are written of what the threads returned.                   *)
(***************************************************************************)
LEMMA KeptReport ==
  Shape /\ Kept /\ GenerateReport => Kept'
PROOF
  <1> SUFFICES ASSUME Shape, Kept, GenerateReport PROVE Kept'
    OBVIOUS
  <1>0. /\ FinishedOK /\ RunningOK /\ outputs \in Seq(Output) /\ Len(outputs) = Len(starts)
        /\ Len(outputs) \in Nat /\ Len(pipeline_width) \in Nat
        /\ DOMAIN pipeline_width = 1 .. Len(pipeline_width) /\ DOMAIN starts = 1 .. Len(starts)
    BY EngineAssumption, StartsAreStarts DEF Shape, Phases, TypeOK, Kept, GenerateReport
  <1>1. /\ pc = "collect" /\ pc' \in {"done", "failed"}
        /\ UNCHANGED <<temp, outputs, solutions, epoch>>
    BY DEF GenerateReport
  <1>2. FinishedOK' /\ thread' = thread
    BY <1>0, <1>1, FinishedStays
  <1>3. RunningOK'
    BY <1>0, <1>1 DEF RunningOK, IsBest, epoch
  <1>4. ReportsOK'
    <2>1. CASE UNCHANGED reports
      BY <1>0, <1>1, <2>1, NotYetReported
    <2>2. CASE ~UNCHANGED reports
      <3> DEFINE written == IF Len(pipeline_width) < Len(outputs) THEN Len(pipeline_width)
              ELSE Len(outputs)
      <3>1. /\ reports' = [t \in 1 .. written |-> Reported(SolutionsOf(t))]
            /\ \A t \in DOMAIN outputs : ~outputs[t].died
        BY <2>2 DEF GenerateReport
      <3>2. \A t \in 1 .. written : t \in DOMAIN outputs /\ t \in DOMAIN pipeline_width
        BY <1>0
      <3>3. DOMAIN starts = DOMAIN outputs
        BY <1>0
      <3> HIDE DEF written
      <3>4. \A t \in DOMAIN starts : ~outputs'[t].died /\ Len(outputs'[t].epochs) = Epochs
        BY <1>0, <1>1, <3>1, <3>3 DEF FinishedOK
      <3>5. ASSUME NEW t \in 1 .. written, NEW e \in DOMAIN Reported(SolutionsOf(t))
            PROVE  OfWidth(Reported(SolutionsOf(t))[e].trace, t)
        <4>1. /\ e \in DOMAIN outputs[t].epochs
              /\ Reported(SolutionsOf(t))[e] = outputs[t].epochs[e]
          BY DEF Reported, Restrict, SolutionsOf
        <4>2. EpochOK(outputs[t].epochs[e], t)
          BY <1>0, <3>1, <3>2, <4>1 DEF FinishedOK
        <4> QED BY <4>1, <4>2 DEF EpochOK
      <3>6. \A t \in DOMAIN reports' :
              /\ t \in DOMAIN pipeline_width
              /\ \A e \in DOMAIN reports'[t] : OfWidth(reports'[t][e].trace, t)
        BY <3>1, <3>2, <3>5
      <3> QED BY <3>4, <3>6 DEF ReportsOK, ReportsAreComplete, OfWidth
    <2> QED BY <2>1, <2>2
  <1> QED BY <1>2, <1>3, <1>4 DEF Kept

(***************************************************************************)
(* Every step of the engine keeps what has been found.                     *)
(***************************************************************************)
LEMMA KeptNext ==
  Shape /\ Kept /\ [Next]_vars => Kept'
PROOF
  <1> SUFFICES ASSUME Shape, Kept, [Next]_vars PROVE Kept'
    OBVIOUS
  <1>0. FinishedOK /\ RunningOK /\ ReportsOK
    BY DEF Kept
  <1>1. CASE AnalyzeFails
    <2>1. pc = "analyze" /\ Die("analysis") /\ UNCHANGED <<temp, reports, epoch>>
      BY <1>1 DEF AnalyzeFails
    <2>2. FinishedOK'
      BY <1>0, <2>1, DeathKeeps DEF Shape, TypeOK
    <2>3. pc' \in {"start", "collect"}
      BY <2>1 DEF Die, EndThread
    <2> QED BY <1>0, <2>1, <2>2, <2>3, EndKeeps DEF RunningOK, epoch
  <1>2. CASE UNCHANGED vars
    <2>1. UNCHANGED <<outputs, solutions, reports, embedding, trace, best, last_update, pc>>
      BY <1>2 DEF vars, engine, epoch
    <2>2. FinishedOK' /\ thread' = thread
      BY <1>0, <2>1, FinishedStays
    <2>3. RunningOK'
      BY <1>0, <2>1, <2>2 DEF RunningOK, IsBest, OfWidth
    <2>4. ReportsOK'
      BY <1>0, <2>1 DEF ReportsOK, ReportsAreComplete, OfWidth
    <2> QED BY <2>2, <2>3, <2>4 DEF Kept
  <1> QED BY <1>1, <1>2, KeptStart, KeptEvaluate, KeptScore, KeptAnalyze, KeptReport
          DEF Next, Finished

(***************************************************************************)
(* What has been found is kept by every run of the engine.                 *)
(***************************************************************************)
LEMMA KeptInvariant ==
  Spec => []Kept
PROOF
  <1>1. Init => Shape /\ Kept
    BY ShapeInit, KeptInit
  <1>2. Shape /\ Kept /\ [Next]_vars => (Shape /\ Kept)'
    BY ShapeNext, KeptNext
  <1> QED BY <1>1, <1>2, PTL DEF Spec

-----------------------------------------------------------------------------
(***************************************************************************)
(* exploration_impl returns the first of its designs with the largest      *)
(* metric, whether the epoch used up its budget, stopped early or met a    *)
(* design with no metric, for any sequence of results.                     *)
(***************************************************************************)
THEOREM BestDesignIsKept == Spec => []BestIsKept
PROOF
  <1>1. Kept => BestIsKept
    BY DEF Kept, FinishedOK, RunningOK, EpochOK, BestIsKept
  <1> QED BY <1>1, KeptInvariant, PTL

(***************************************************************************)
(* generate_report is reached only with all the epochs of all the threads. *)
(***************************************************************************)
THEOREM ReportsStayComplete == Spec => []ReportsAreComplete
PROOF
  <1>1. Kept => ReportsAreComplete
    BY DEF Kept, ReportsOK
  <1> QED BY <1>1, KeptInvariant, PTL

(***************************************************************************)
(* generate_report pairs the pipeline widths with the threads by position, *)
(* and every design a thread meets has the width it was started for: the   *)
(* report named after a width is of designs of that width whenever the     *)
(* starts have the widths at their positions, and so always when the       *)
(* threads are started from the widths.                                    *)
(***************************************************************************)
THEOREM ReportsKeepTheirWidth == Spec => []ReportsAreOfTheirWidth
PROOF
  <1>1. ASSUME Kept, NEW t \in DOMAIN reports, ~listed \/ StartWidth(starts[t]) = pipeline_width[t],
               NEW e \in DOMAIN reports[t], NEW k \in DOMAIN reports[t][e].trace
        PROVE  Width(reports[t][e].trace[k].design) = pipeline_width[t]
    <2>1. /\ t \in DOMAIN pipeline_width
          /\ Width(reports[t][e].trace[k].design) = StartWidth(starts[t])
      BY <1>1 DEF Kept, ReportsOK, OfWidth
    <2>2. CASE ~listed
      <3>1. starts[t] = pipeline_width[t] /\ pipeline_width[t] \in Widths
        BY <2>1, <2>2, EngineAssumption DEF starts
      <3>2. Widths \subseteq Nat
        BY WidthsAreNumbers
      <3>3. ~(starts[t] > 8)
        BY <3>1, <3>2 DEF Widths
      <3> QED BY <2>1, <3>1, <3>3 DEF StartWidth
    <2> QED BY <1>1, <2>1, <2>2
  <1>2. Kept => ReportsAreOfTheirWidth
    BY <1>1 DEF ReportsAreOfTheirWidth
  <1> QED BY <1>2, KeptInvariant, PTL

-----------------------------------------------------------------------------
(***************************************************************************)
(* A round that was scored with all its reports finds them as they were:   *)
(* a design without some of them is simulated again, and only such a one.  *)
(***************************************************************************)
KnownRound(dirs, r) ==
  r.whole => LET n == embedding_to_idx(r.design)
             IN  n \in DOMAIN dirs /\ dirs[n].analysis = "all" /\ dirs[n].pppa = r.pppa

Known(dirs, rounds) == \A k \in DOMAIN rounds : KnownRound(dirs, rounds[k])

(* the rounds of the epochs that are kept *)
PastKnown ==
  /\ \A e \in DOMAIN solutions : Known(temp, solutions[e].trace)
  /\ \A t \in DOMAIN outputs : ~outputs[t].died =>
       \A e \in DOMAIN outputs[t].epochs : Known(temp, outputs[t].epochs[e].trace)

(* the inductive invariant of the scores *)
Scored == PastKnown /\ Known(temp, trace)

(* a step leaves alone the directories whose reports are whole *)
WholeStay ==
  \A n \in DOMAIN temp : temp[n].analysis = "all" => n \in DOMAIN temp' /\ temp'[n] = temp[n]

(***************************************************************************)
(* A round stays known when the whole reports stay.                        *)
(***************************************************************************)
LEMMA KnownStays ==
  ASSUME WholeStay, NEW rounds, Known(temp, rounds)
  PROVE  Known(temp', rounds)
PROOF
  <1> QED BY DEF WholeStay, Known, KnownRound

(***************************************************************************)
(* A thread ends with epochs all of whose rounds are known.                *)
(***************************************************************************)
LEMMA ThreadLeavesKnown ==
  ASSUME NEW output, outputs \in Seq(Output), PastKnown, EndThread(output),
         UNCHANGED temp,
         ~output.died => \A e \in DOMAIN output.epochs : Known(temp, output.epochs[e].trace)
  PROVE  PastKnown'
PROOF
  <1> DEFINE n == Len(outputs)
  <1>1. outputs' = Append(outputs, output) /\ solutions' = <<>>
    BY DEF EndThread
  <1>2. /\ n \in Nat /\ DOMAIN outputs = 1 .. n
        /\ DOMAIN outputs' = 1 .. n + 1 /\ outputs'[n + 1] = output
        /\ \A t \in 1 .. n : outputs'[t] = outputs[t]
    BY <1>1
  <1> HIDE DEF n
  <1>3. ASSUME NEW t \in 1 .. n + 1, ~outputs'[t].died
        PROVE  \A e \in DOMAIN outputs'[t].epochs : Known(temp', outputs'[t].epochs[e].trace)
    <2>1. CASE t \in 1 .. n
      BY <1>2, <1>3, <2>1 DEF PastKnown
    <2>2. CASE t = n + 1
      BY <1>2, <1>3, <2>2
    <2> QED BY <1>2, <2>1, <2>2
  <1>4. DOMAIN solutions' = {}
    BY <1>1
  <1> QED BY <1>2, <1>3, <1>4 DEF PastKnown

(***************************************************************************)
(* An epoch ends with rounds that are known.                               *)
(***************************************************************************)
LEMMA EpochLeavesKnown ==
  ASSUME NEW rounds \in Seq(Round), NEW b \in Nat, outputs \in Seq(Output),
         solutions \in Seq(Epoch), PastKnown, EndEpoch(rounds, b), UNCHANGED temp,
         Known(temp, rounds)
  PROVE  PastKnown'
PROOF
  <1> DEFINE e == [trace |-> rounds, best |-> b]
             finished == Append(solutions, e)
             n == Len(solutions)
  <1>1. e \in Epoch /\ e.trace = rounds
    BY DEF Epoch
  <1>2. /\ n \in Nat /\ DOMAIN finished = 1 .. n + 1 /\ DOMAIN solutions = 1 .. n
        /\ finished[n + 1] = e /\ \A k \in 1 .. n : finished[k] = solutions[k]
    BY <1>1
  <1>3. \A k \in DOMAIN finished : Known(temp, finished[k].trace)
    <2>1. \A k \in 1 .. n : Known(temp, solutions[k].trace)
      BY <1>2 DEF PastKnown
    <2> HIDE DEF e, finished, n
    <2> QED BY <1>1, <1>2, <2>1
  <1>4. CASE Len(finished) = Epochs
    <2> DEFINE output == [died |-> FALSE, epochs |-> finished]
    <2>1. EndThread(output)
      BY <1>4 DEF EndEpoch
    <2>2. output.epochs = finished
      OBVIOUS
    <2> HIDE DEF output, finished
    <2> QED BY <1>3, <2>1, <2>2, ThreadLeavesKnown
  <1>5. CASE Len(finished) # Epochs
    <2>1. solutions' = finished /\ outputs' = outputs
      BY <1>5 DEF EndEpoch
    <2> HIDE DEF finished
    <2> QED BY <1>3, <2>1 DEF PastKnown
  <1> QED BY <1>4, <1>5

(***************************************************************************)
(* A thread that dies leaves no epochs.                                    *)
(***************************************************************************)
LEMMA DeathLeavesKnown ==
  ASSUME NEW why, outputs \in Seq(Output), PastKnown, UNCHANGED temp, Die(why)
  PROVE  PastKnown'
PROOF
  <1> DEFINE output == [died |-> TRUE, why |-> why]
  <1>1. EndThread(output) /\ output.died
    BY DEF Die
  <1> HIDE DEF output
  <1> QED BY <1>1, ThreadLeavesKnown

(***************************************************************************)
(* Nothing has been measured when the engine begins.                       *)
(***************************************************************************)
LEMMA ScoredInit ==
  Init => Scored
PROOF
  <1> SUFFICES ASSUME Init PROVE Scored
    OBVIOUS
  <1>1. DOMAIN solutions = {} /\ DOMAIN outputs = {} /\ DOMAIN trace = {}
    BY DEF Init
  <1> QED BY <1>1 DEF Scored, PastKnown, Known

(***************************************************************************)
(* A simulation writes to a directory whose reports are not whole.         *)
(***************************************************************************)
LEMMA ScoredEvaluate ==
  Shape /\ Scored /\ (EvaluateCached \/ Simulate \/ BuildFails) => Scored'
PROOF
  <1> SUFFICES ASSUME Shape, Scored, EvaluateCached \/ Simulate \/ BuildFails PROVE Scored'
    OBVIOUS
  <1>0. UNCHANGED trace /\ PastKnown /\ Known(temp, trace) /\ outputs \in Seq(Output)
    BY DEF Scored, EvaluateCached, Simulate, BuildFails, epoch, Shape, TypeOK
  <1>1. CASE EvaluateCached \/ Simulate
    <2>1. UNCHANGED <<outputs, solutions>>
      BY <1>1 DEF EvaluateCached, Simulate, engine
    <2>2. WholeStay
      <3>1. CASE EvaluateCached
        BY <3>1 DEF EvaluateCached, engine, WholeStay
      <3>2. CASE Simulate
        <4>1. PICK r \in Results :
                temp' = [d \in DOMAIN temp \cup {idx} |-> IF d = idx THEN r ELSE temp[d]]
          BY <3>2 DEF Simulate
        <4>2. \A n \in DOMAIN temp : temp[n].analysis = "all" => n # idx
          BY <3>2 DEF Simulate, Cached
        <4> QED BY <4>1, <4>2 DEF WholeStay
      <3> QED BY <1>1, <3>1, <3>2
    <2> QED BY <1>0, <2>1, <2>2, KnownStays DEF Scored, PastKnown
  <1>2. CASE BuildFails
    <2>1. Die("build") /\ UNCHANGED temp
      BY <1>2 DEF BuildFails
    <2> QED BY <1>0, <2>1, DeathLeavesKnown DEF Scored
  <1> QED BY <1>1, <1>2

(***************************************************************************)
(* The score of a round is the one in the directory of its design.         *)
(***************************************************************************)
LEMMA ScoredScore ==
  Shape /\ Scored /\ Score => Scored'
PROOF
  <1> SUFFICES ASSUME Shape, Scored, Score PROVE Scored'
    OBVIOUS
  <1> DEFINE r == temp[idx]
             rounds == Append(trace, Scoring(r))
  <1>0. /\ UNCHANGED temp /\ PastKnown /\ Known(temp, trace)
        /\ outputs \in Seq(Output) /\ solutions \in Seq(Epoch)
        /\ idx \in DOMAIN temp /\ idx = embedding_to_idx(embedding)
        /\ best \in Nat /\ Len(trace) = i /\ i \in Nat /\ trace \in Seq(Round)
    BY ScoreCases DEF Scored, Shape, Phases, TypeOK
  <1>1. /\ rounds \in Seq(Round) /\ Len(rounds) = i + 1 /\ rounds[i + 1] = Scoring(r)
        /\ \A k \in 1 .. i : rounds[k] = trace[k]
    BY ScoreCases
  <1>2. \/ Die("metric") /\ UNCHANGED trace
        \/ trace' = rounds /\ EndEpoch(rounds, best)
        \/ trace' = rounds /\ UNCHANGED <<outputs, solutions>>
    BY ScoreCases
  <1>3. KnownRound(temp, Scoring(r))
    BY <1>0 DEF KnownRound, Scoring
  <1> HIDE DEF rounds, r
  <1>4. Known(temp, rounds)
    <2>1. DOMAIN rounds = 1 .. i + 1 /\ DOMAIN trace = 1 .. i
      BY <1>0, <1>1
    <2>2. \A k \in 1 .. i + 1 : k \in 1 .. i \/ k = i + 1
      BY <1>0
    <2> QED BY <1>0, <1>1, <1>3, <2>1, <2>2 DEF Known
  <1>5. CASE Die("metric") /\ UNCHANGED trace
    BY <1>0, <1>5, DeathLeavesKnown DEF Scored
  <1>6. CASE trace' = rounds /\ EndEpoch(rounds, best)
    BY <1>0, <1>1, <1>4, <1>6, EpochLeavesKnown DEF Scored
  <1>7. CASE trace' = rounds /\ UNCHANGED <<outputs, solutions>>
    BY <1>0, <1>4, <1>7 DEF Scored, PastKnown
  <1> QED BY <1>2, <1>5, <1>6, <1>7

(***************************************************************************)
(* Every step of the engine keeps the rounds and the directories in        *)
(* agreement.                                                              *)
(***************************************************************************)
LEMMA ScoredNext ==
  Shape /\ Scored /\ [Next]_vars => Scored'
PROOF
  <1> SUFFICES ASSUME Shape, Scored, [Next]_vars PROVE Scored'
    OBVIOUS
  <1>0. /\ PastKnown /\ Known(temp, trace) /\ outputs \in Seq(Output)
        /\ solutions \in Seq(Epoch) /\ trace \in Seq(Round) /\ best \in Nat
    BY DEF Scored, Shape, TypeOK
  <1>1. CASE Start
    <2>1. trace' = <<>> /\ UNCHANGED <<temp, outputs, solutions>>
      BY <1>1 DEF Start, engine
    <2>2. Known(temp', trace')
      BY <2>1 DEF Known
    <2> QED BY <1>0, <2>1, <2>2 DEF Scored, PastKnown
  <1>2. CASE Analyze
    <2>1. UNCHANGED <<temp, trace>>
      BY <1>2, AnalyzeCases
    <2>2. CASE EndEpoch(trace, best)
      BY <1>0, <2>1, <2>2, EpochLeavesKnown DEF Scored
    <2>3. CASE UNCHANGED <<outputs, solutions>>
      BY <1>0, <2>1, <2>3 DEF Scored, PastKnown
    <2> QED BY <1>2, <2>2, <2>3, AnalyzeCases
  <1>3. CASE AnalyzeFails
    <2>1. Die("analysis") /\ UNCHANGED <<temp, trace>>
      BY <1>3 DEF AnalyzeFails, epoch
    <2> QED BY <1>0, <2>1, DeathLeavesKnown DEF Scored
  <1>4. CASE GenerateReport \/ UNCHANGED vars
    <2>1. UNCHANGED <<temp, outputs, solutions, trace>>
      BY <1>4 DEF GenerateReport, vars, engine, epoch
    <2> QED BY <1>0, <2>1 DEF Scored, PastKnown
  <1> QED BY <1>1, <1>2, <1>3, <1>4, ScoredEvaluate, ScoredScore DEF Next, Finished

(***************************************************************************)
(* The rounds of a state in which every one is known agree.                *)
(***************************************************************************)
LEMMA KnownAgree ==
  Scored => SameDesignSameScore
PROOF
  <1> SUFFICES ASSUME Scored PROVE SameDesignSameScore
    OBVIOUS
  <1>1. ASSUME NEW r \in Rounds PROVE KnownRound(temp, r)
    <2>1. CASE r \in Range(trace)
      <3>1. PICK k \in DOMAIN trace : r = trace[k]
        BY <2>1 DEF Range
      <3> QED BY <3>1 DEF Scored, Known
    <2>2. CASE \E e \in Range(solutions) : r \in Range(e.trace)
      <3>1. PICK j \in DOMAIN solutions : r \in Range(solutions[j].trace)
        BY <2>2 DEF Range
      <3>2. PICK k \in DOMAIN solutions[j].trace : r = solutions[j].trace[k]
        BY <3>1 DEF Range
      <3>3. Known(temp, solutions[j].trace)
        BY DEF Scored, PastKnown
      <3> QED BY <3>2, <3>3 DEF Known
    <2>3. CASE \E o \in Range(outputs) :
                 ~o.died /\ \E e \in Range(o.epochs) : r \in Range(e.trace)
      <3>1. PICK t \in DOMAIN outputs :
              ~outputs[t].died /\ \E e \in Range(outputs[t].epochs) : r \in Range(e.trace)
        BY <2>3 DEF Range
      <3>2. PICK j \in DOMAIN outputs[t].epochs : r \in Range(outputs[t].epochs[j].trace)
        BY <3>1 DEF Range
      <3>3. PICK k \in DOMAIN outputs[t].epochs[j].trace : r = outputs[t].epochs[j].trace[k]
        BY <3>2 DEF Range
      <3>4. Known(temp, outputs[t].epochs[j].trace)
        BY <3>1 DEF Scored, PastKnown
      <3> QED BY <3>3, <3>4 DEF Known
    <2> QED BY <2>1, <2>2, <2>3 DEF Rounds
  <1> QED BY <1>1 DEF SameDesignSameScore, KnownRound

(***************************************************************************)
(* if_no_need_simulate looks only for the reports of the analysis.  That   *)
(* is enough: whatever a simulation leaves behind, a design has one score  *)
(* in all the epochs and threads that find it with all its reports, even   *)
(* though it is simulated again into the same directory until it has them. *)
(***************************************************************************)
THEOREM ScoresAgree == Spec => []SameDesignSameScore
PROOF
  <1>1. Init => Shape /\ Scored
    BY ShapeInit, ScoredInit
  <1>2. Shape /\ Scored /\ [Next]_vars => (Shape /\ Scored)'
    BY ShapeNext, ScoredNext
  <1>3. Shape /\ Scored => SameDesignSameScore
    BY KnownAgree
  <1> QED BY <1>1, <1>2, <1>3, PTL DEF Spec

-----------------------------------------------------------------------------
(* the bottleneck against which a parameter is moved *)
Owner ==
  [p \in Params |->
     CASE p \in {"l1i_size", "l1i_assoc"} -> "IcacheMiss"
       [] p \in {"l1d_size", "l1d_assoc"} -> "DcacheMiss"
       [] p = "numROBEntries" -> "ROB"
       [] p = "LQEntries" -> "LQ"
       [] p = "SQEntries" -> "SQ"
       [] p = "numPhysIntRegs" -> "IntRF"
       [] p = "numPhysFloatRegs" -> "FpRF"
       [] p = "numIQEntries" -> "IQ"
       [] p = "IntALU" -> "IntAlu"
       [] p = "IntMult_Div" -> "IntMultDiv"
       [] p = "FP_ALU" -> "FpAlu"
       [] p = "FP_MultDiv" -> "FpMultDiv"
       [] OTHER -> "BPMiss"]

(***************************************************************************)
(* No two bottlenecks move the same parameter, and none a fixed one.       *)
(***************************************************************************)
LEMMA GroupsAreDistinct ==
  /\ \A b \in Btnks : Group[b] \subseteq Params
  /\ \A b \in Btnks : \A p \in Group[b] : Owner[p] = b
  /\ \A b \in Btnks : Group[b] \cap Fixed = {}
  /\ \A c \in Sensitive : c \in Btnks /\ Recorded[c] \subseteq Group[c]
  /\ Fixed \subseteq Params
PROOF
  <1>1. Btnks = {"Base", "IcacheMiss", "DcacheMiss", "BPMiss", "ROB", "LQ", "SQ", "IntRF",
                 "FpRF", "IQ", "IntAlu", "IntMultDiv", "FpAlu", "FpMultDiv", "RdWrPort",
                 "RAW", "Virtual"}
    BY DEF Btnks, bottleneck
  <1>2. \A b \in Btnks : Group[b] \subseteq Params
    BY DEF Params
  <1>3. \A b \in Btnks : \A p \in Group[b] : p \in Params => Owner[p] = b
    BY <1>1 DEF Group, Owner
  <1>4. \A b \in Btnks : Group[b] \cap Fixed = {}
    BY <1>1 DEF Group, Fixed
  <1>5. Sensitive \subseteq Btnks
    BY <1>1 DEF Sensitive
  <1>6. \A c \in Sensitive : Recorded[c] \subseteq Group[c]
    BY DEF Sensitive, Recorded, Group
  <1>7. Fixed \subseteq Params
    BY DEF Params
  <1> QED BY <1>2, <1>3, <1>4, <1>5, <1>6, <1>7

(***************************************************************************)
(* There are finitely many bottlenecks, each at a position of its own.     *)
(***************************************************************************)
LEMMA PositionsAreDistinct ==
  /\ IsFiniteSet(Btnks)
  /\ \A b \in Btnks : Position[b] \in 1 .. 17
  /\ \A a, b \in Btnks : Position[a] = Position[b] => a = b
PROOF
  <1>1. DOMAIN bottleneck = 1 .. 17
    BY DEF bottleneck
  <1>2. ASSUME NEW b \in Btnks
        PROVE  Position[b] \in 1 .. 17 /\ bottleneck[Position[b]] = b
    <2>1. \E k \in DOMAIN bottleneck : bottleneck[k] = b
      BY DEF Btnks
    <2> QED BY <1>1, <2>1 DEF Position
  <1>3. IsFiniteSet(Btnks)
    <2>1. IsFiniteSet(1 .. 17)
      <3>1. 1 \in Int /\ 17 \in Int
        OBVIOUS
      <3> QED BY ONLY <3>1, FS_Interval, Zenon
    <2>2. Position \in [Btnks -> 1 .. 17]
      BY <1>2 DEF Position
    <2>3. \A a, b \in Btnks : Position[a] = Position[b] => a = b
      BY <1>2
    <2>4. Position \in Injection(Btnks, 1 .. 17)
      BY <2>2, <2>3 DEF Injection, IsInjective
    <2> QED BY <2>1, <2>4, FS_Injection
  <1> QED BY <1>2, <1>3

(***************************************************************************)
(* increase_hardware_resource adjusts at most top_k bottlenecks: the last  *)
(* one in the order of the visits has fewer than top_k before it.          *)
(***************************************************************************)
LEMMA FewAreAdjusted ==
  ASSUME NEW e, NEW s, NEW contribution \in Contribution
  PROVE  Cardinality({b \in Visited(e, s, contribution) : Adjusts(e, s, b)}) <= top_k
PROOF
  <1> DEFINE A == {b \in Visited(e, s, contribution) : Adjusts(e, s, b)}
             B(m) == {a \in Btnks : Before(contribution, a, m) /\ Adjusts(e, s, a)}
  <1>0. top_k \in Nat \ {0}
    BY LevelsAreRows
  <1>1. A \subseteq Btnks /\ \A m \in A : Cardinality(B(m)) < top_k
    BY DEF Visited
  <1>2. IsFiniteSet(A) /\ \A m \in A : IsFiniteSet(B(m))
    BY <1>1, PositionsAreDistinct, FS_Subset
  <1>3. CASE A = {}
    BY <1>0, <1>3, FS_EmptySet
  <1>4. CASE A # {}
    <2> DEFINE C == {contribution[b] : b \in A}
    <2>1. C \in SUBSET Nat /\ C # {}
      BY <1>1, <1>4 DEF Contribution
    <2>2. PICK x \in C : \A y \in C : x <= y
      BY <2>1, SmallestMember
    <2> DEFINE L == {b \in A : contribution[b] = x}
               P == {17 - Position[b] : b \in L}
    <2>3. P \in SUBSET Nat /\ P # {}
      <3>1. L # {}
        BY <2>2
      <3>2. \A b \in L : 17 - Position[b] \in Nat
        BY <1>1, PositionsAreDistinct
      <3> QED BY <3>1, <3>2
    <2>4. PICK z \in P : \A y \in P : z <= y
      BY <2>3, SmallestMember
    <2>5. PICK m \in L : z = 17 - Position[m]
      BY <2>4
    <2>6. ASSUME NEW a \in A, a # m PROVE a \in B(m)
      <3>1. /\ a \in Btnks /\ m \in Btnks /\ contribution[a] \in Nat /\ contribution[m] \in Nat
            /\ contribution[m] <= contribution[a]
        BY <1>1, <2>2 DEF Contribution
      <3>2. Position[a] \in 1 .. 17 /\ Position[m] \in 1 .. 17 /\ Position[a] # Position[m]
        BY <2>6, <3>1, PositionsAreDistinct
      <3>3. contribution[a] = contribution[m] => Position[a] < Position[m]
        <4>1. contribution[a] = contribution[m] => 17 - Position[m] <= 17 - Position[a]
          BY <2>4, <2>5
        <4> QED BY <3>2, <4>1
      <3> QED BY <3>1, <3>3 DEF Before
    <2>7. A \ {m} \subseteq B(m) /\ m \in A
      BY <2>6
    <2> HIDE DEF A, B
    <2>8. Cardinality(A \ {m}) <= Cardinality(B(m))
      BY <1>2, <2>7, FS_Subset
    <2>9. Cardinality(A \ {m}) = Cardinality(A) - 1
      BY <1>2, <2>7, FS_RemoveElement
    <2>10. Cardinality(A) \in Nat /\ Cardinality(B(m)) \in Nat
      BY <1>2, <2>7, FS_CardinalityType
    <2> QED BY <1>0, <1>1, <2>7, <2>8, <2>9, <2>10 DEF A
  <1> QED BY <1>3, <1>4

(***************************************************************************)
(* bottleneck_removal moves no fixed parameter, a parameter of a component *)
(* that is not terminated by one row, and up at most top_k of them.        *)
(***************************************************************************)
LEMMA RemovalIsModerate ==
  ASSUME NEW e \in Design, NEW s, WellRecorded(s), NEW contribution \in Contribution,
         NEW S \in Samples(contribution)
  PROVE  Moderate(e, bottleneck_removal(e, s, contribution, S), s)
PROOF
  <1> DEFINE f == increase_hardware_resource(e, s, contribution)
             g == bottleneck_removal(e, s, contribution, S)
             visited == Visited(e, s, contribution)
             zero == {b \in Btnks : contribution[b] = 0}
             A == {b \in visited : Adjusts(e, s, b)}
             Up == {b \in Btnks : ~Terminated(s, b) /\ \E p \in Group[b] : g[p] > e[p]}
             Down == {b \in Btnks : ~Terminated(s, b) /\ \E p \in Group[b] : g[p] < e[p]}
  <1>0. Levels \in [Params -> Nat \ {0}] /\ top_k \in Nat \ {0}
    BY LevelsAreRows
  <1>1. \A p \in Params : /\ e[p] \in Nat /\ Levels[p] \in Nat
                          /\ 1 <= e[p] /\ e[p] <= Levels[p]
    BY <1>0 DEF Design
  <1>2. visited \subseteq Btnks /\ S \subseteq Btnks
    BY DEF Visited, Samples
  <1>3. ASSUME NEW b \in Btnks, ~Terminated(s, b), NEW p \in Group[b]
        PROVE  /\ p \in Params
               /\ f[p] = IF b \in visited THEN Raise(e, p) ELSE e[p]
    <2>1. p \in Params /\ \A a \in Btnks : p \in Group[a] => a = b
      BY GroupsAreDistinct
    <2>2. ~\E c \in visited \cap Sensitive : p \in Recorded[c] /\ Terminated(s, c)
      BY <1>3, <2>1, GroupsAreDistinct
    <2>3. (\E a \in visited : p \in Group[a] /\ ~Terminated(s, a)) <=> b \in visited
      BY <1>2, <1>3, <2>1
    <2> QED BY <2>1, <2>2, <2>3 DEF increase_hardware_resource
  <1>4. ASSUME NEW p \in Fixed
        PROVE  p \in Params /\ f[p] = e[p] /\ g[p] = e[p]
    <2>1. p \in Params /\ \A a \in Btnks : p \notin Group[a]
      BY GroupsAreDistinct
    <2>2. \A c \in Sensitive : p \notin Recorded[c]
      BY <2>1, GroupsAreDistinct
    <2>3. f[p] = e[p]
      BY <1>2, <2>1, <2>2 DEF increase_hardware_resource
    <2> QED BY <1>2, <2>1, <2>3 DEF bottleneck_removal, decrease_hardware_resource
  <1>5. ASSUME NEW b \in Btnks, NEW p \in Group[b], p \in Params
        PROVE  g[p] = IF b \in S THEN Lower(f, p) ELSE f[p]
    <2>1. (\E a \in S : p \in Group[a]) <=> b \in S
      BY <1>2, GroupsAreDistinct
    <2> QED BY <1>5, <2>1 DEF bottleneck_removal, decrease_hardware_resource
  <1> HIDE DEF f, g, visited
  <1>6. ASSUME NEW b \in Btnks, ~Terminated(s, b), NEW p \in Group[b]
        PROVE  /\ g[p] - e[p] \in -1 .. 1
               /\ g[p] > e[p] => b \in visited /\ e[p] < Levels[p]
               /\ g[p] < e[p] => b \in S
    <2>1. /\ p \in Params /\ e[p] \in Nat /\ Levels[p] \in Nat
          /\ 1 <= e[p] /\ e[p] <= Levels[p]
      BY <1>1, <1>3, <1>6
    <2>2. f[p] = IF b \in visited THEN (IF e[p] < Levels[p] THEN e[p] + 1 ELSE e[p]) ELSE e[p]
      BY <1>3, <1>6, <2>1, MovesByOneRow
    <2>3. g[p] = IF b \in S THEN (IF f[p] > 1 THEN f[p] - 1 ELSE f[p]) ELSE f[p]
      <3>1. f[p] \in Nat /\ 1 <= f[p] /\ f[p] <= Levels[p]
        BY <2>1, <2>2
      <3> QED BY <1>5, <2>1, <3>1, MovesByOneRow
    <2> QED BY <2>1, <2>2, <2>3
  <1>7. Up \subseteq A
    <2>1. ASSUME NEW b \in Btnks, ~Terminated(s, b), NEW p \in Group[b], g[p] > e[p]
          PROVE  e[p] \in 1 .. Levels[p] - 1
      BY <1>1, <1>3, <1>6, <2>1
    <2> QED BY <1>6, <2>1 DEF Adjusts, CanRise
  <1>8. Down \subseteq S
    BY <1>6
  <1> HIDE DEF Up, Down
  <1>9. Cardinality(Up) <= top_k
    <2>1. IsFiniteSet(A)
      BY <1>2, PositionsAreDistinct, FS_Subset
    <2>2. Cardinality(A) <= top_k
      BY FewAreAdjusted DEF visited
    <2> HIDE DEF A
    <2>3. Cardinality(Up) <= Cardinality(A) /\ IsFiniteSet(Up)
      BY <1>7, <2>1, FS_Subset
    <2> QED BY <1>0, <2>1, <2>2, <2>3, FS_CardinalityType
  <1>10. Cardinality(Down) <= top_k
    <2>1. IsFiniteSet(S) /\ IsFiniteSet(zero)
      BY <1>2, PositionsAreDistinct, FS_Subset
    <2>2. Cardinality(S) = IF top_k < Cardinality(zero) THEN top_k ELSE Cardinality(zero)
      BY DEF Samples
    <2> HIDE DEF zero
    <2>3. Cardinality(Down) <= Cardinality(S) /\ IsFiniteSet(Down)
      BY <1>8, <2>1, FS_Subset
    <2>4. Cardinality(Down) \in Nat /\ Cardinality(zero) \in Nat
      BY <2>1, <2>3, FS_CardinalityType
    <2> QED BY <1>0, <2>2, <2>3, <2>4
  <1>11. \A b \in Btnks : \A p \in Group[b] : Terminated(s, b) \/ g[p] - e[p] \in -1 .. 1
    BY <1>6
  <1>12. Moderate(e, g, s)
    BY <1>4, <1>9, <1>10, <1>11 DEF Moderate, Up, Down
  <1> QED BY <1>12 DEF g

(***************************************************************************)
(* Only whether a component has been terminated matters to Moderate.       *)
(***************************************************************************)
LEMMA ModerateOfTerminated ==
  ASSUME NEW e, NEW f, NEW s, NEW z, \A b \in Btnks : Terminated(s, b) = Terminated(z, b),
         Moderate(e, f, s)
  PROVE  Moderate(e, f, z)
PROOF
  <1> DEFINE Up(t) == {b \in Btnks : ~Terminated(t, b) /\ \E p \in Group[b] : f[p] > e[p]}
             Down(t) == {b \in Btnks : ~Terminated(t, b) /\ \E p \in Group[b] : f[p] < e[p]}
  <1>1. Up(z) = Up(s) /\ Down(z) = Down(s)
    OBVIOUS
  <1>2. Cardinality(Up(s)) <= top_k /\ Cardinality(Down(s)) <= top_k
    BY DEF Moderate
  <1>3. Cardinality(Up(z)) <= top_k /\ Cardinality(Down(z)) <= top_k
    BY <1>1, <1>2
  <1> QED BY <1>3 DEF Moderate

(***************************************************************************)
(* A design that stays has moved moderately.                               *)
(***************************************************************************)
LEMMA StayIsModerate ==
  ASSUME NEW e \in Design, NEW s
  PROVE  Moderate(e, e, s)
PROOF
  <1>1. \A b \in Btnks : \A p \in Group[b] : e[p] \in Nat
    BY GroupsAreDistinct DEF Design
  <1>2. {b \in Btnks : ~Terminated(s, b) /\ \E p \in Group[b] : e[p] > e[p]} = {}
    BY <1>1
  <1>3. {b \in Btnks : ~Terminated(s, b) /\ \E p \in Group[b] : e[p] < e[p]} = {}
    BY <1>1
  <1>4. Cardinality({}) <= top_k
    BY LevelsAreRows, FS_EmptySet
  <1>5. \A b \in Btnks : \A p \in Group[b] : e[p] - e[p] \in -1 .. 1
    BY <1>1
  <1> QED BY <1>2, <1>3, <1>4, <1>5 DEF Moderate

(***************************************************************************)
(* A round moves moderately, whether its analysis succeeds or fails.       *)
(***************************************************************************)
LEMMA StepIsModerate ==
  Shape /\ [Next]_vars => [pc = "analyze" => Moderate(embedding, embedding', scm')]_vars
PROOF
  <1> SUFFICES ASSUME Shape, Next, pc = "analyze"
               PROVE  Moderate(embedding, embedding', scm')
    OBVIOUS
  <1>1. TypeOK /\ Phases /\ embedding \in Design
    BY DEF Shape, TypeOK
  <1>2. Analyze \/ AnalyzeFails
    BY DEF Next, Start, EvaluateCached, Simulate, BuildFails, Score, GenerateReport, Finished
  <1>3. CASE AnalyzeFails
    BY <1>1, <1>3, StayIsModerate DEF AnalyzeFails, epoch
  <1>4. CASE Analyze
    <2> DEFINE contribution == temp[idx].contribution
    <2>1. contribution \in Contribution /\ i \in Nat /\ trace \in Seq(Round)
      BY <1>1 DEF TypeOK, Phases, Result
    <2>2. PICK S \in Samples(contribution) :
            /\ embedding' = bottleneck_removal(embedding, Judged, contribution, S)
            /\ scm' = set_config(Judged, embedding')
      BY <1>4 DEF Analyze
    <2>3. Judged = update_terminate(update(scm, contribution))
      BY DEF Judged
    <2> HIDE DEF contribution
    <2>4. WellRecorded(Judged)
      BY <1>1, <2>1, <2>3, RoundKeepsRecords DEF Phases
    <2>5. Moderate(embedding, embedding', Judged)
      BY <1>1, <2>1, <2>2, <2>4, RemovalIsModerate
    <2>6. \A c \in Sensitive : scm'[c].terminate = Judged[c].terminate
      BY <2>2, <2>4 DEF set_config, WellRecorded, Component
    <2>7. \A b \in Btnks : Terminated(Judged, b) = Terminated(scm', b)
      BY <2>6 DEF Terminated
    <2> QED BY <2>5, <2>7, ModerateOfTerminated
  <1> QED BY <1>2, <1>3, <1>4

(***************************************************************************)
(* exploration_impl moves a design step by step: for every design space,   *)
(* top_k and draw, no round jumps over a row (a fallback excepted), raises *)
(* or lowers more than top_k resources, or moves the pipeline width.       *)
(***************************************************************************)
THEOREM RoundsAreModerate == Spec => RoundIsModerate
PROOF
  <1> QED BY ShapeInvariant, StepIsModerate, PTL DEF Spec, RoundIsModerate

-----------------------------------------------------------------------------
(***************************************************************************)
(* The index of every design the exploration meets is an index of the      *)
(* space and leads back to the design, for every table of levels: no two   *)
(* designs share an index, and so none the directory of another.           *)
(***************************************************************************)
THEOREM IndicesLeadBack == Spec => []IndexLeadsBack
PROOF
  <1>1. Shape => IndexLeadsBack
    BY CodecInverse DEF Shape, TypeOK, IndexLeadsBack
  <1> QED BY <1>1, ShapeInvariant, PTL

=============================================================================
