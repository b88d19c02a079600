CONSTANTS
  MaxId = 4
  Slaves = {s1, s2, s3}
  NoSlave = NoSlave
  Faults = {"death"}
  desiredInstanceCount = 3
  autoReseedEnabled = FALSE
  MaxSyncs = 1
  SyncRetries = 2
  ChanCap = 1
  MaxReseeds = 1
  MaxDeaths = 1
SPECIFICATION EstablishedSpec
PROPERTIES
  ReplacesDead
