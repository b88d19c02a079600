CONSTANTS
  MaxId = 1
  Slaves = {s1}
  NoSlave = NoSlave
  Faults = {"crash", "disconnect", "death", "reject", "lost", "net", "reseed"}
  desiredInstanceCount = 2
  autoReseedEnabled = TRUE
  MaxSyncs = 1
  SyncRetries = 2
  ChanCap = 1
  MaxReseeds = 1
  MaxDeaths = 2
SPECIFICATION Spec
CHECK_DEADLOCK FALSE
SYMMETRY SlaveSymmetry
INVARIANTS
  PendingNotRunning
  RunningHaveTasks
