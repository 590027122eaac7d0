SPECIFICATION Spec
CONSTANTS
  u1 = u1
  u2 = u2
  o1 = o1
  o2 = o2
  g1 = g1
  g2 = g2
  Owners = {u1, u2}
  Nobody = Nobody
  Orgs = {o1, o2}
  FirstOrg = o1
  NoOrg = NoOrg
  Goroutines = {g1, g2}
  Allowance = {1, 2}
  FirstAllowance = 1
  MaxMishaps = 1
  MaxMoves = 1
  alice = alice
  bob = bob
  s1 = s1
  s2 = s2
  People = {alice, bob}
  Ids = {s1, s2}
  OwnerOf <- MCOwnerOf
  Tabs = {g1, g2}
  Company = Company
  Personal = Personal
  None = None
  TTL = 1
  MaxTime = 2
  MaxRemovals = 1
  MaxTrouble = 1

SYMMETRY UserSymmetry
CHECK_DEADLOCK FALSE
INVARIANTS TypeOK CountExact MailboxesBounded ScannedForOwnOrg ConnectedIsWatched AccessEndsInTime SignedOutForCause
