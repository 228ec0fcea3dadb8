SPECIFICATION FairSpec
CONSTANTS
  Traces <- AnyTrace
INVARIANTS
  TypeOK
  VirtualEdgesLeadForward
  InducedGraphIsDetermined
  FailuresExplained
PROPERTIES
  StillGraphGivesLongest
  AnalysisEnds
  ImplementsInducedGraph
