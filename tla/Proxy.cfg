CONSTANTS
  Masters = {m1, m2}
  NoMaster = NoMaster
  Tasks = {1, 2}
  RPC_RETRIES = 2
  MaxEvents = 5
SPECIFICATION FairSpec
CHECK_DEADLOCK FALSE
INVARIANTS
  LookupFollowsElection
  
  DetectorAgrees
PROPERTIES
  PeersRight
  ProxyEnds
