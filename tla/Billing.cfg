SPECIFICATION Spec
CONSTANTS
  g1 = g1
  g2 = g2
  c1 = c1
  c2 = c2
  again = again
  rotate = rotate
  daily = daily
  monthly = monthly
  OldToken = OldToken
  Gen <- MCGen
  Ingest <- MCIngest
  GenOf <- MCGenOf
  Stamped <- MCStamped
  Writer <- MCWriter
  Rotating <- MCRotating
  Budget <- MCBudget
  Threshold <- MCThreshold
  Limit <- MCLimit
  Pausing <- MCPausing
  Spend <- MCSpend
  Faulty = TRUE
  MaxLost = 1
  MaxRolls = 1
  MaxCrashes = 1
INVARIANTS
  NoAlertMissed
  NoAlertRepeated
  BreachPauses
CHECK_DEADLOCK FALSE
