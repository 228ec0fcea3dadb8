SPECIFICATION FairSpec
CONSTANTS
  components_mappings <- MCMappings
  top_k = 2
  pipeline_width <- TwoWidths
  listed = FALSE
  initial_design <- NoList
  Baselines <- MCBaselines
  Epochs = 2
  budget = 2
  early_stopping = 1
  Results <- FewResults
INVARIANTS
  SameDesignSameScore
  IndexLeadsBack
  ReportsAreComplete
  ReportsAreOfTheirWidth
PROPERTIES
  RunEnds
