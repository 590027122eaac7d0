SPECIFICATION FairSpec
CONSTANTS
  Emails = {e1, e2}
  ManualLow = {}
  Unstorable = {e1}
  Unloggable = {e1}
  NoMail = NoMail
  MaxFaults = 0
  Happens = {}
PROPERTY HeldReachesReviewers
CHECK_DEADLOCK FALSE
