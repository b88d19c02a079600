CONSTANTS
  MaxId = 3
  Slaves = {s1, s2}
  NoSlave = NoSlave
  Faults = {"reseed"}
  desiredInstanceCount = 2
  autoReseedEnabled = FALSE
  MaxSyncs = 1
  SyncRetries = 2
  ChanCap = 1
  MaxReseeds = 1
  MaxDeaths = 2
SPECIFICATION EstablishedSpec
PROPERTIES
  RegrowsAfterReseed
