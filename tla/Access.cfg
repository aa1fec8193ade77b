SPECIFICATION Spec
CONSTANTS
  ada = ada
  bob = bob
  cy = cy
  l1 = l1
  l2 = l2
  a1 = a1
  a2 = a2
  e1 = e1
  e2 = e2
  e3 = e3
  None = None
  User <- MCUser
  FirstRole <- MCFirstRole
  LoggedIn <- MCLoggedIn
  Login <- MCLogin
  UserOf <- MCUserOf
  Admin <- MCAdmin
  Enrol <- MCEnrol
  MaxFailures = 2
  MaxErrors = 1
  MaxRequests = 4
SYMMETRY Alike
INVARIANTS
  AdminRemains
  FailuresBounded
  LocksExpire
  EnabledWasVerified
CHECK_DEADLOCK FALSE
