SPECIFICATION FairSpec
CONSTANTS
  components_mappings <- MCMappings
  top_k = 2
  pipeline_width <- OneWidth
  listed = TRUE
  initial_design <- OneDesign
  Baselines <- MCBaselines
  Epochs = 1
  budget = 4
  early_stopping = 3
  Results <- RisingResults
PROPERTIES
  FallbackRestoresSetting
