SPECIFICATION FairSpec
CONSTANTS
  v0 = v0
  r1 = r1
  r2 = r2
  r3 = r3
  dev = dev
  prod = prod
  devApp = devApp
  prodApp = prodApp
  Run <- TwoRuns
  Seed <- OneSeed
  App <- OneApp
  Env <- OneEnv
  AppOf <- AllInDev
  EnvOf <- DevOnly
  Port <- MCPort
  SeedPort <- SeedOnPort1
  ImageGiven = TRUE
  PlayWorks = TRUE
  Faulty <- Unanswered
  Cancels = TRUE
  Rollbacks = FALSE
  AutoRollback = TRUE
  Sick = FALSE
  FailThreshold = 1
  MaxCrashes = 0
  None = None
  NoPort = 0
INVARIANTS
  OneRunningPipeline
  NoGreenLeft
PROPERTIES
  RunsEnd
CHECK_DEADLOCK FALSE
