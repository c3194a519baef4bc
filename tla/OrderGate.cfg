SPECIFICATION FairVSpec
CONSTANTS
  m1 = m1
  c1 = c1
  poly = poly
  Markets <- MCMarkets
  Exchanges <- MCExchanges
  Venue <- MCVenue
  Callers <- MCCallers
  Orders <- MCOrders
  StaleThreshold = 1
  CoolOff = 2
  FeedCap = 1
  MaxTime = 2
  MinPrice = 0
  MaxPrice = 100
  MinLotSize = 1
INVARIANTS VTypeOK TimesOrdered GrantedIsFresh GrantedIsCooled ShutMeansRejected ValidatedIsSound
PROPERTIES EveryOrderDecided
