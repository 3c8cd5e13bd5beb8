SPECIFICATION Spec
CONSTANTS
  Clients = {c1}
  Sweeper = sweeper
  Workload = {"put", "delete", "deleteVersion", "copy", "create", "uploadPart", "uploadPartCopy", "complete", "abort", "createBucket", "createLockedBucket", "deleteBucket", "versioning"}
  MaxInFlight = 1
  MaxFaults = 1
  Buckets = {b1}
  Keys = {k1}
  VersionIds = {null, v1}
  NullVersion = null
  Hashes = {h1, h2}
  PartNumbers = {1, 2}
  RefMax = 9
  Times = {1}
  Tags = {t0}
  NoTags = t0
  Locks = {l0}
  NoLock = l0
  CorsRules = {e0}
  LockConfigs = {e0}
  LifecycleRules = {e0}
  EmptyConfig = e0
  LockEnabled = e0
  Absent = Absent
SYMMETRY DataSymmetry
INVARIANTS
  RefcountExact
  GcPendingUnreferenced
  ReferencedPartsOnDisk
PROPERTIES
  DisciplinedSpec
  EffectIsExact
  LeaksOnlyByFault
