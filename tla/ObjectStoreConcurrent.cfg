SPECIFICATION FairSpec
CONSTANTS
  Clients = {c1, c2}
  Sweeper = sweeper
  Workload = {"put", "delete", "deleteVersion", "copy", "create", "uploadPart", "uploadPartCopy", "complete", "abort", "createBucket", "createLockedBucket", "deleteBucket", "versioning"}
  MaxInFlight = 2
  MaxFaults = 0
  Buckets = {b1}
  Keys = {k1}
  VersionIds = {null, v1}
  NullVersion = null
  Hashes = {h1}
  PartNumbers = {1}
  RefMax = 9
  Times = {1}
  Tags = {t0}
  NoTags = t0
  Locks = {l0}
  NoLock = l0
  CorsRules = {e0}
  LockConfigs = {e0}
  LifecycleRules = {e0}
  EmptyConfig = e0
  LockEnabled = e0
  Absent = Absent
INVARIANTS
  TypeOK
  RefcountNeverOverstates
  GcPendingAtZero
PROPERTIES
  MetaSpec
  NoNewReferenceToPending
  NoResurrection
  OrphansReclaimed
