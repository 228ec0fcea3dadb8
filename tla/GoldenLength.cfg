SPECIFICATION Spec
CONSTANTS
  Trace <- AnyTrace
  WINDOW = 5
  MaxInsts = 3
INVARIANTS
  GoldenLengthHolds
