SPECIFICATION CSpec
CONSTANTS
  m1 = m1
  c1 = c1
  poly = poly
  Markets <- MCMarkets
  Exchanges <- MCExchanges
  Venue <- MCVenue
  Callers <- MCCallers
  StaleThreshold = 1
  CoolOff = 2
  FeedCap = 1
  MaxTime = 2
INVARIANTS GrantedWasTradable
