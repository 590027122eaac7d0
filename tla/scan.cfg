CONSTANTS
  w1 = w1
  w2 = w2
  ticker = ticker
  Workers = {w1, w2}
  Ticker = ticker
  MaxMessages = 2
  HistoryPage = 1
  ListMax = 1
  ScanLimit = 1
  MaxRows = 4
  MaxCrashes = 1
  Happens = {"lost", "renew", "reconnect", "expired", "gmailerror", "dberror", "aierror", "newperiod", "unwatched"}
SPECIFICATION Spec
INVARIANTS TypeOK WatermarkSound ArchivedIsHeld QuotaRespected
SYMMETRY WorkerSymmetry
