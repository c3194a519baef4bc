SPECIFICATION FairSpec
CONSTANTS
  m1 = m1
  m2 = m2
  poly = poly
  kalshi = kalshi
  p1 = p1
  p2 = p2
  client = client
  feed = feed
  NoPrice = NoPrice
  Keys <- MCKeys
  Sources <- MCSources
  SourceOf <- MCSourceOf
  Prices <- MCPrices
  PricesOf <- MCPricesOf
  Filtered <- MCFiltered
  FilterOf <- MCFilterOf
  Unified <- MCUnified
  Early <- MCUnified
  SourceCap = 1
  SubCap = 1
  AllCap = 1
  BufCap = 2
  MaxUpdates <- MCMaxUpdates
  NoUpdate = NoUpdate
CHECK_DEADLOCK FALSE
INVARIANTS TypeOK EverybodyOffered
PROPERTIES ImplementsStream SlowConsumersDoNotBlock Converges
