SPECIFICATION FairSpec
CONSTANTS
  components_mappings <- MCMappings
  top_k = 2
  pipeline_width <- OneWidth
  listed = FALSE
  initial_design <- NoList
  Baselines <- MCBaselines
  Epochs = 1
  budget = 2
  early_stopping = 1
  Results <- MCResults
INVARIANTS
  FailedSimulationEndsEpoch
