SPECIFICATION Spec
CONSTANTS
  g1 = g1
  g2 = g2
  c1 = c1
  c2 = c2
  again = again
  rotate = rotate
  daily = daily
  monthly = monthly
  OldToken = OldToken
  Gen <- MCGen
  Ingest <- MCIngest
  GenOf <- MCGenOf
  Stamped <- MCStamped
  Writer <- MCWriter
  Rotating <- MCRotating
  Budget <- MCBudget
  Threshold <- MCThreshold
  Limit <- MCLimit
  Pausing <- MCPausing
  Spend <- MCSpend
  Faulty = FALSE
  MaxLost = 0
  MaxRolls = 1
  MaxCrashes = 0
INVARIANTS
  EveryPeriodAlerts
CHECK_DEADLOCK FALSE
