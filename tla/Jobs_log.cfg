SPECIFICATION FairSpec
CONSTANTS
  awaited = awaited
  detached = detached
  viewer = viewer
  Job <- MCJob
  Detached <- MCDetached
  Viewer <- MCViewer
  MaxLines = 2
  MaxCrashes = 0
  DbFaults = FALSE
INVARIANTS
  RunningRowsHaveRunner
  CompleteLog
PROPERTIES
  StreamShowsLog
  JobsFinish
  StreamsFinish
CHECK_DEADLOCK FALSE
