SPECIFICATION Spec
CONSTANTS
  read = read
  bash = bash
  write = write
  mcp = mcp
  bad = bad
  Contents = {read, bash}
  FactsOf <- MCFactsOf
  Granted <- MCGranted
  Workspace = TRUE
  ProviderIds = TRUE
  OutputSizes = {1}
  MaxSteps = 1
  MaxCalls = 2
  MaxOutput = 1
  MaxDuplicates = 1
  MaxBatch = 2
  MaxTurns = 1
  MaxStoreFailures = 0
CHECK_DEADLOCK FALSE
INVARIANTS
  EveryCallAnswered
