SPECIFICATION Spec
CONSTANTS
  Entries = {g, p}
  GmailEntries = {g}
  Users = {u}
  Handlers = {h1, h2}
  MaxRequests = 1
  MaxCrashes = 0
  Happens = {}
INVARIANT RejectedStaysOut
SYMMETRY HandlerSymmetry
CHECK_DEADLOCK FALSE
