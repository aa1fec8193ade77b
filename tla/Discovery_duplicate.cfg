SPECIFICATION Spec
CONSTANTS
  web = web
  cache = cache
  web4 = web4
  web6 = web6
  redis = redis
  s1 = s1
  s2 = s2
  g1 = g1
  g2 = g2
  d1 = d1
  d2 = d2
  None = None
  Key <- MCKey
  Port <- MCPort
  Draft <- MCDraft
  KeyOf <- MCKeyOf
  Scan <- MCScan
  Generation <- MCGeneration
  Decision <- MCDecision
  MaxRows = 3
  MaxCalls = 4
  MaxChanges = 1
SYMMETRY Alike
INVARIANTS
  OneOpenProposal
CHECK_DEADLOCK FALSE
