SPECIFICATION FairSpec
CONSTANTS
  Entries = {g, p}
  GmailEntries = {g}
  Users = {u}
  Handlers = {h1, h2}
  MaxRequests = 1
  MaxCrashes = 0
  Happens = {}
PROPERTY ReleasedIsRestored
CHECK_DEADLOCK FALSE
