SPECIFICATION FairSpec
CONSTANTS
  Entries = {g, p}
  GmailEntries = {g}
  Users = {u}
  Handlers = {h1, h2}
  MaxRequests = 2
  MaxCrashes = 1
  Happens = {"erasure", "mailerror", "dberror"}
INVARIANTS TypeOK MailedOnce OpenRequestsBounded PendingStaysOut
PROPERTIES DecisionsFinal ReleasedReachesRecipient
CHECK_DEADLOCK FALSE
