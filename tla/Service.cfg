SPECIFICATION Spec
CONSTANTS
  r1 = r1
  bkt = bkt
  key1 = key1
  key2 = key2
  cert1 = cert1
  unsigned = unsigned
  NoBucket = nobucket
  NoConfig = noconfig
  NoCert = nocert
  None = none
  NotPresigned = notpresigned
  Skew = 3
  MaxExpires = 9
  ValidNames = {bkt}
  Reqs = {r1, r2}
  Workload <- MCWorkload
  Files <- MCFiles
  FirstFile <- MCFirstFile
  MaxRetries = 1
  MaxEdits = 1
  MaxHups = 2
  MaxFaults = 1
CHECK_DEADLOCK FALSE
INVARIANTS
  TypeOK
  HandledOnlyIfSigned
  MostSpecificArm
  AnsweredIsNotified
  DeliveryLedger
PROPERTIES
  EveryDeliveryEnds
  ReloadTakesEffect
