SPECIFICATION FairSpec
CONSTANTS
  v0 = v0
  r1 = r1
  r2 = r2
  r3 = r3
  dev = dev
  prod = prod
  devApp = devApp
  prodApp = prodApp
  Run <- OneRun
  Seed <- OneSeed
  App <- OneApp
  Env <- OneEnv
  AppOf <- AllInDev
  EnvOf <- DevOnly
  Port <- MCPort
  SeedPort <- SeedOnPort1
  ImageGiven = TRUE
  PlayWorks = TRUE
  Faulty <- Afterwards
  Cancels = TRUE
  Rollbacks = TRUE
  AutoRollback = TRUE
  Sick = TRUE
  FailThreshold = 3
  MaxCrashes = 0
  None = None
  NoPort = 0
PROPERTIES
  DeployCompletes
  WatchesEnd
CHECK_DEADLOCK FALSE
