SPECIFICATION Spec
CONSTANTS
  v0 = v0
  r1 = r1
  r2 = r2
  r3 = r3
  dev = dev
  prod = prod
  devApp = devApp
  prodApp = prodApp
  Run <- TwoRuns
  Seed <- OneSeed
  App <- OneApp
  Env <- OneEnv
  AppOf <- AllInDev
  EnvOf <- DevOnly
  Port <- MCPort
  SeedPort <- SeedOnPort1
  ImageGiven = TRUE
  PlayWorks = FALSE
  Faulty = {}
  Cancels = TRUE
  Rollbacks = FALSE
  AutoRollback = FALSE
  Sick = FALSE
  FailThreshold = 2
  MaxCrashes = 0
  None = None
  NoPort = 0
INVARIANTS
  OnePipeline
CHECK_DEADLOCK FALSE
