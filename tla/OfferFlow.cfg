SPECIFICATION FlowSpec
CONSTANTS
  o1 = o1
  o2 = o2
  o3 = o3
  o4 = o4
  s1 = s1
  s2 = s2
  None = None
  Offers <- MCOffers
  SlaveOf <- MCSlaveOf
  maxOffers = 2
  singleInstancePerSlave = TRUE
INVARIANTS
  AnsweredAtMostOnce
  NoStrandedOffer
  NoDuplicateEntry
  GcNeverBlocks
  SecondSendHasRoom
PROPERTIES
  EveryOfferResolved
  LedgerImplemented
