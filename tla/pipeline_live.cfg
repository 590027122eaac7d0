SPECIFICATION FairSpec
CONSTANTS
  Emails = {e1, e2}
  ManualLow = {}
  Unstorable = {}
  Unloggable = {}
  NoMail = NoMail
  MaxFaults = 1
  Happens = {"brokerrestart", "aierror", "dberror"}
PROPERTIES HeldReachesReviewers KeepsPromiseFairly
CHECK_DEADLOCK FALSE
