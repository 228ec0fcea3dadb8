SPECIFICATION Spec
CONSTANTS
  Trace <- AnyTrace
  WINDOW = 4
  MaxInsts = 4
INVARIANTS
  TypeOK
  Forward
  Attached
  WeightsMeasureTime
  NoTickUnderflow
  VirtualEdgesAreSound
  ReportAccountsForTheTrace
  FailuresExplained
