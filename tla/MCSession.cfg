SPECIFICATION SessionSpec
CONSTANTS
  read = read
  bash = bash
  Contents = {read, bash}
  FactsOf <- MCFactsOf
  Granted <- MCGranted
  Workspace = TRUE
  ProviderIds = TRUE
  OutputSizes = {1}
  MaxSteps = 2
  MaxCalls = 3
  MaxOutput = 5
  MaxDuplicates = 2
  MaxBatch = 1
  MaxTurns = 2
  MaxStoreFailures = 0
  MaxCrashes = 1
CHECK_DEADLOCK FALSE
PROPERTIES
  InterruptedWorkReported
  ResumeNeverReexecutes
