SPECIFICATION FairSpec
CONSTANTS
  Designs = {d1}
  Benchmarks = {k1, k2, k3}
  mode = "simulation"
  deg_model = TRUE
  MayBeKilled = FALSE
  d1 = d1
  k1 = k1
  k2 = k2
  k3 = k3
INVARIANTS
  SuccessLeavesReports
  FilesAreWhole
PROPERTIES
  CallsReturn
