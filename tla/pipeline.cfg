SPECIFICATION Spec
CONSTANTS
  Emails = {e1, e2}
  ManualLow = {e1}
  Unstorable = {}
  Unloggable = {}
  NoMail = NoMail
  MaxFaults = 1
  Happens = {"crash", "disconnect", "brokerrestart", "aierror", "mailerror", "dberror", "otherverdict"}
INVARIANTS TypeOK NothingVanishes AuditTruthful DuplicatesArePaid
PROPERTY KeepsPromise
CHECK_DEADLOCK FALSE
