SPECIFICATION FairSpec
CONSTANTS
  Clients = {c1}
  Sweeper = sweeper
  Workload = {"put", "delete", "createBucket"}
  MaxInFlight = 2
  MaxFaults = 1
  Buckets = {b1}
  Keys = {k1}
  VersionIds = {null}
  NullVersion = null
  Hashes = {h1}
  PartNumbers = {1}
  RefMax = 9
  Times = {1}
  Tags = {t0}
  NoTags = t0
  Locks = {l0}
  NoLock = l0
  CorsRules = {e0}
  LockConfigs = {e0}
  LifecycleRules = {e0}
  EmptyConfig = e0
  LockEnabled = e0
  Absent = Absent
PROPERTIES
  OrphansReclaimed
