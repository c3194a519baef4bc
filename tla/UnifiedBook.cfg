SPECIFICATION FairSpec
CONSTANTS
  pair = pair
  pm = pm
  km = km
  Pairs <- MCPairs
  Keys <- MCKeys
  MarketOf <- MCMarketOf
  Books <- MCBooks
  Threshold = 1
  SubCap = 1
  EventCap = 1
  MaxUpdates <- MCMaxUpdates
CHECK_DEADLOCK FALSE
INVARIANTS UBTypeOK SignalsWereReal CrossingReported
PROPERTIES BookFollows
