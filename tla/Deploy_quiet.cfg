SPECIFICATION Spec
CONSTANTS
  v0 = v0
  r1 = r1
  r2 = r2
  r3 = r3
  dev = dev
  prod = prod
  devApp = devApp
  prodApp = prodApp
  Run <- ThreeRuns
  Seed <- OneSeed
  App <- TwoApps
  Env <- TwoEnvs
  AppOf <- LastInProd
  EnvOf <- OneEnvEach
  Port <- MCPort
  SeedPort <- SeedOnPort1
  ImageGiven = TRUE
  PlayWorks = TRUE
  Faulty <- HereAndThere
  Cancels = FALSE
  Rollbacks = FALSE
  AutoRollback = FALSE
  Sick = FALSE
  FailThreshold = 1
  MaxCrashes = 1
  None = None
  NoPort = 0
INVARIANTS
  PipelinesExclude
  RecordHasOneActive
  SwitchesToOwn
CHECK_DEADLOCK FALSE
