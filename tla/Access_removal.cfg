SPECIFICATION Spec
CONSTANTS
  ada = ada
  bob = bob
  cy = cy
  l1 = l1
  l2 = l2
  a1 = a1
  a2 = a2
  e1 = e1
  e2 = e2
  e3 = e3
  None = None
  User <- MCUser
  FirstRole <- MCFirstRole
  LoggedIn <- MCLoggedIn
  Login <- MCLogin
  UserOf <- MCUserOf
  Admin <- MCAdmin
  Enrol <- MCEnrol
  MaxFailures = 2
  MaxErrors = 0
  MaxRequests = 4
SYMMETRY Alike
INVARIANTS
  AdminAlwaysRemains
CHECK_DEADLOCK FALSE
