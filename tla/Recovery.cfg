SPECIFICATION Spec
CONSTANTS
  Designs = {d1, d2}
  Benchmarks = {k1}
  mode = "exploration"
  deg_model = TRUE
  MayBeKilled = TRUE
  d1 = d1
  d2 = d2
  k1 = k1
INVARIANTS
  TypeOK
  FilesAreOfTheirDesign
PROPERTIES
  ReportsAreKept
