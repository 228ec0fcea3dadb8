SPECIFICATION Spec
CONSTANTS
  Traces <- AnyTrace
INVARIANTS
  CriticalPathIsLongest
