SPECIFICATION Spec
CONSTANTS
  a1 = a1
  a2 = a2
  h1 = h1
  h2 = h2
  s1 = s1
  s2 = s2
  Customers = {a1, a2}
  Subs = {s1, s2}
  NoCustomer = NoCustomer
  NoSub = NoSub
  Prices = {"starter", "pro"}
  Rank <- MCRank
  Workers = {h1, h2}
  MaxChanges = 3
  MaxPages = 2
  MaxSlips = 1
  Addresses = {a1, a2}
  Handlers = {h1, h2}
  NoRequest = NoRequest
  Window = 5
  Cleanup = 6
  MaxReqs = 2
  Slack = 2
  Horizon = 9
  MaxArrivals = 5
  Tools = {"retrieve_precedent", "remediate_content", "unknown"}
  Turns = 3
  Attempts = 2
  ScanLimit = 2
  MaxCalls = 2

SYMMETRY ServiceSymmetry
CHECK_DEADLOCK FALSE
INVARIANTS TypeOK InStep PayerKnown NeverAboveSold Limited RefusedForCause ToolsAnswered SpendBounded
