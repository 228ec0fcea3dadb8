---------------------------- MODULE MCArchExplorer ----------------------------
(***************************************************************************)
(* Small explorations: up to three rows for a parameter, starts with room  *)
(* up and down and at a boundary, and a few reports in which the branch    *)
(* predictor and the reorder buffer contribute more, less or nothing.      *)
(***************************************************************************)
EXTENDS ArchExplorer

(* as in the sheet, units and associativities have two rows; the table of  *)
(* the global predictor goes on where that of the choice predictor ends;   *)
(* an index fits in 31 bits                                                *)
MCMappings ==
  [p \in Params |->
     CASE p = "fetchQueueSize" -> <<8>>
       [] p \in {"fetchBufferSize", "IntMult_Div", "FP_ALU", "FP_MultDiv", "l1i_assoc",
                 "l1d_assoc"} -> <<2, 4>>
       [] p = "pipelineWidth" -> <<1, 4, 8>>
       [] p = "globalPredictorSize" -> <<16, 32, 64, 128>>
       [] OTHER -> <<16, 32, 64>>]

AllAt(n) == [p \in Params |-> IF n < Levels[p] THEN n ELSE Levels[p]]

(* a baseline has its width, and the rest of it at the row of the width *)
MCBaselines == [w \in {1, 4, 8} |-> {AllAt(get_idx("pipelineWidth", w))}]

OneWidth  == <<4>>
TwoWidths == <<1, 8>>
NoList    == <<>>
OneDesign == <<embedding_to_idx(AllAt(2))>>

(* every bottleneck contributes a little, except the ones given *)
Shares(bp, rob) ==
  [b \in Btnks |-> CASE b = "BPMiss" -> bp
                     [] b = "ROB" -> rob
                     [] b = "Base" -> 5
                     [] OTHER -> 1]

MCResults ==
  [ppa : {TRUE}, pppa : {1, 2}, analysis : {"all"},
   contribution : {Shares(0, 2), Shares(2, 0), Shares(3, 1)}]
  \cup [ppa : {TRUE}, pppa : {2}, analysis : {"some", "none"}, contribution : {Shares(3, 0)}]
  \cup [ppa : {TRUE}, pppa : {0}, analysis : {"all"}, contribution : {Shares(2, 2)}]
  \cup [ppa : {FALSE}, pppa : {0}, analysis : {"none"}, contribution : {Shares(0, 0)}]

(* fewer contributions, for several threads and epochs *)
FewResults == {r \in MCResults : r.contribution \notin {Shares(0, 2), Shares(3, 1)}}

(* nothing fails, and the predictor contributes more and more *)
RisingResults ==
  [ppa : {TRUE}, pppa : {1, 2}, analysis : {"all"},
   contribution : {Shares(1, 2), Shares(3, 1), Shares(0, 2)}]
=============================================================================
