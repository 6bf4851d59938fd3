SPECIFICATION UploadSpec
CONSTANTS
  r1 = r1
  r2 = r2
  s1 = s1
  s2 = s2
  Id <- MCId
  Order <- MCOrder
  Workloads <- MCWorkloads
  MaxAttempts = 2
  BatchSize = 3
  Envelope = 1
  NoLimit = NoLimit
  Loads <- MCLoads
  MaxSent = 2
INVARIANTS
  TypeOK
  Tiles
  DeliveredAreStored
  ClearedAreAbsent
PROPERTIES
  ImplementsLedger
  Returns
  CuttingEnds
