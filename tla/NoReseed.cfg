CONSTANTS
  MaxId = 3
  Slaves = {s1, s2, s3}
  NoSlave = NoSlave
  Faults = {"death"}
  desiredInstanceCount = 3
  autoReseedEnabled = TRUE
  MaxSyncs = 1
  SyncRetries = 2
  ChanCap = 1
  MaxReseeds = 1
  MaxDeaths = 2
SPECIFICATION EstablishedSpec
PROPERTIES
  AutoReseeds
