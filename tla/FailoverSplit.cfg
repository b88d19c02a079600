CONSTANTS
  MaxId = 3
  Slaves = {s1, s2}
  NoSlave = NoSlave
  Faults = {"crash"}
  desiredInstanceCount = 2
  autoReseedEnabled = FALSE
  MaxSyncs = 1
  SyncRetries = 2
  ChanCap = 1
  MaxReseeds = 1
  MaxDeaths = 2
SPECIFICATION Spec
CHECK_DEADLOCK FALSE
SYMMETRY SlaveSymmetry
INVARIANTS
  OneCluster
