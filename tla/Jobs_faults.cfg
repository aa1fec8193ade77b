SPECIFICATION Spec
CONSTANTS
  awaited = awaited
  detached = detached
  viewer = viewer
  Job <- MCJob
  Detached <- MCDetached
  Viewer = {}
  MaxLines = 2
  MaxCrashes = 1
  DbFaults = TRUE
INVARIANTS
  LogInOrder
PROPERTIES
  LifecycleSpec
CHECK_DEADLOCK FALSE
