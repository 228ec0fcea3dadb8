SPECIFICATION Spec
CONSTANTS
  components_mappings <- MCMappings
  top_k = 2
  pipeline_width <- OneWidth
  listed = TRUE
  initial_design <- OneDesign
  Baselines <- MCBaselines
  Epochs = 1
  budget = 5
  early_stopping = 3
  Results <- MCResults
INVARIANTS
  TypeOK
  RecordsAligned
  BestIsKept
  RoundsAreBounded
PROPERTIES
  RoundIsModerate
