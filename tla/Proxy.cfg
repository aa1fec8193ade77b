SPECIFICATION FairSpec
CONSTANTS
  q1 = q1
  q2 = q2
  v0 = v0
  v1 = v1
  v2 = v2
  other = other
  None = None
  Request <- MCRequest
  Upload <- MCUpload
  Upstream <- MCUpstream
  First <- MCFirst
  Service <- MCService
  Blue <- MCBlue
  MaxCrashes = 1
INVARIANTS
  InflightAccounts
  OneProxy
  DrainDropsNone
  DrainedIsUnused
PROPERTIES
  PipelinesEnd
CHECK_DEADLOCK FALSE
