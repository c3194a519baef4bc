SPECIFICATION FairSpec
CONSTANTS
  t1 = t1
  t2 = t2
  l1 = l1
  l2 = l2
  NoBook = NoBook
  Gap = Gap
  Tickers <- MCTickers
  Levels <- MCLevels
  Deltas <- MCDeltas
  MaxQty = 2
  MaxChanges <- MCMaxChanges
  MaxLosses = 1
  MaxCommands = 2
  OutCap = 1
  RawCap = 2
  UpdatesCap = 1
  Venues = {"kalshi", "poly"}
CHECK_DEADLOCK FALSE
INVARIANTS FeedTypeOK BookIsExact
PROPERTIES FeedFollows
