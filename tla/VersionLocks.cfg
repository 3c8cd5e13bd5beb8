SPECIFICATION Spec
CONSTANTS
  Uuids = {1, 2, 3}
  NullVersion = 9
  Clients = {c1, c2}
  Sweeper = sweeper
  Periods = {1}
  Workload = {"put", "copy", "delete", "deleteVersion", "create", "complete", "abort", "retention", "legalHold", "versioning", "lockConfig", "lifecycle"}
  MaxInFlight = 2
  MaxRequests = 3
  MaxTime = 1
  MaxDate = 2
  PutHeaders <- MCPutHeaders
  Configurations <- MCConfigurations
  Absent = Absent
  Never = Never
SYMMETRY ClientSymmetry
INVARIANTS
  TypeOK
PROPERTIES
  LockedVersionKept
  LockOnlyStrengthened
  PreconditionHolds
CHECK_DEADLOCK FALSE
