SPECIFICATION Spec
CONSTANTS
  founder = founder
  loner = loner
  newcomer = newcomer
  team = team
  home = home
  spare1 = spare1
  NoTenant = NoTenant
  Users <- MCUsers
  Tenants <- MCTenants
  Guests = {newcomer}
  Finders = {founder}
  SSOUsers = {newcomer}
  h1 = h1
  h2 = h2
  Handlers = {h1, h2}
  Limit <- MCLimit
  Founder = founder
  Team = team
  Loner = loner
  Home = home
  MaxInvites = 2
  MaxEvents = 1

SYMMETRY HandlerSymmetry
CHECK_DEADLOCK FALSE
INVARIANTS TypeOK NobodyStranded EveryTenantOwned TeamBounded
PROPERTY PaidRowsStay
