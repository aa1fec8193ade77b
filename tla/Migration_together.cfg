SPECIFICATION Spec
CONSTANTS
  p1 = p1
  p2 = p2
  data = data
  logs = logs
  check = check
  run1 = run1
  run2 = run2
  undo = undo
  commit = commit
  other = other
  Absent = Absent
  Partial = Partial
  Plan <- MCPlan
  Volume <- MCVolume
  Call <- MCCall
  OpOf <- MCOpOf
  PlanOf <- MCPlanOf
  Snapshot <- BothPlans
  Database = TRUE
  OneAtATime = FALSE
  RoleWorks = FALSE
  Faulty = {}
  MaxWrites = 1
  MaxCrashes = 0
INVARIANTS
  ColdSnapshot
CHECK_DEADLOCK FALSE
