SPECIFICATION Spec
CONSTANTS
  awaited = awaited
  detached = detached
  viewer = viewer
  Job <- MCJob
  Detached <- MCDetached
  Viewer <- MCViewer
  MaxLines = 2
  MaxCrashes = 0
  DbFaults = FALSE
INVARIANTS
  EveryLogComplete
CHECK_DEADLOCK FALSE
