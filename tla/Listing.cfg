SPECIFICATION Spec
CONSTANTS
  Keys <- MCKeys
  Versions = {2, 3}
  Times = {1, 2}
  Requests <- MCRequests
  Contents <- MCContents
  Writable <- MCWritable
  MaxMaxKeys = 3
  MaxChanges = 1
  MaxPages = 7
  Missing = Missing
INVARIANTS
  NothingMissed
  ListedOnce
  NothingInvented
  VersionsLostAtSeams
PROPERTIES
  ListingEnds
CHECK_DEADLOCK FALSE
