CONSTANTS
  MaxId = 4
  Slaves = {s1, s2, s3}
  NoSlave = NoSlave
  Faults = {"death", "reject"}
  desiredInstanceCount = 3
  autoReseedEnabled = FALSE
  MaxSyncs = 1
  SyncRetries = 2
  ChanCap = 1
  MaxReseeds = 1
  MaxDeaths = 1
SPECIFICATION Spec
CHECK_DEADLOCK FALSE
SYMMETRY SlaveSymmetry
INVARIANTS
  TypeOK
  NeverOvershoots
  OneCluster
  OneTaskPerSlave
PROPERTIES
  
  RecordKeepsRunning
  PoolImplemented
