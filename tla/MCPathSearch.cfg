SPECIFICATION Spec
CONSTANTS
  Insts = 4
  Costs <- AnyCost
  MaxEdges = 4
INVARIANTS
  TopologicalOrder
  LongestPathIsLongest
  FindPathIsExact
  ExistingPathIsFound
