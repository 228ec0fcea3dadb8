SPECIFICATION Spec
CONSTANTS
  Trace <- AnyTrace
  WINDOW = 3
  MaxInsts = 3
INVARIANTS
  SinkIsFound
