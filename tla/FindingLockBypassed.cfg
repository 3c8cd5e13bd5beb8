SPECIFICATION Spec
CONSTANTS
  Uuids = {1, 2}
  NullVersion = 9
  Clients = {c1}
  Sweeper = sweeper
  Periods = {1}
  Workload = {"create", "complete", "legalHold"}
  MaxInFlight = 1
  MaxRequests = 5
  MaxTime = 1
  MaxDate = 2
  PutHeaders <- MCPutHeaders
  Configurations <- LockConfigurations
  Absent = Absent
  Never = Never
PROPERTIES
  LockBinding
CHECK_DEADLOCK FALSE
