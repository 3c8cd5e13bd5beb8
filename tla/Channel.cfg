SPECIFICATION Spec
CONSTANTS
  Calls = {c1, c2, c3}
  Capacity = 2
  Shutdown = shutdown
  NoAnswer = none
  MaxFaults = 2
CHECK_DEADLOCK FALSE
INVARIANTS
  TypeOK
  ClosedMeansUnlocked
PROPERTIES
  CallsAreAtomic
  EveryCallEnds
  DropReturns
