SPECIFICATION Spec
CONSTANTS
  Uuids = {1, 2, 3}
  NullVersion = 9
  Clients = {c1}
  Sweeper = sweeper
  Periods = {1}
  Workload = {"put", "delete", "deleteVersion", "create", "complete", "abort", "retention"}
  MaxInFlight = 2
  MaxRequests = 3
  MaxTime = 1
  MaxDate = 2
  PutHeaders <- MCPutHeaders
  Configurations <- RuleConfigurations
  Absent = Absent
  Never = Never
PROPERTIES
  RulesEnforced
CHECK_DEADLOCK FALSE
