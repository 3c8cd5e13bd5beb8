SPECIFICATION Spec
CONSTANTS
  Requests = {"get", "copy"}
  MaxParts = 3
  MaxSize = 2
  MaxBound = 7
  Wrap = 16
  Missing = Missing
INVARIANTS
  RangeExact
  OnlyEmptyFirstPartPanics
CHECK_DEADLOCK FALSE
