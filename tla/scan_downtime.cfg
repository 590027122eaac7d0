CONSTANTS
  w1 = w1
  ticker = ticker
  Workers = {w1}
  Ticker = ticker
  MaxMessages = 2
  HistoryPage = 3
  ListMax = 3
  ScanLimit <- NoLimit
  MaxRows = 3
  MaxCrashes = 1
  Happens = {"fallback"}
SPECIFICATION FairSpec
PROPERTY EveryMessageExamined
