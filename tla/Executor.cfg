SPECIFICATION FairSpec
CONSTANTS
  MaxEvents = 2
  MaxUnreaped = 1

  
PROPERTIES
  ReseedKeepsData
  ShutdownEnds
  
  DisconnectResolved
  ReseedCompletes
CHECK_DEADLOCK FALSE
