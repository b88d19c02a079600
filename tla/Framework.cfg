SPECIFICATION FairSpec
CONSTANTS
  Masters = {m1, m2}
  NoMaster = NoMaster
  MaxEvents = 2
INVARIANTS
  ConnectionFacts
  RegistrationPursued
  AckedNotDropped
PROPERTIES
  UpdatesInOrder
  
  JoinReturns
  LostLaunchReported
  RegistrationSucceeds
CHECK_DEADLOCK FALSE
