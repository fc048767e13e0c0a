SPECIFICATION FairSpec
CONSTANTS
  read = read
  bash = bash
  write = write
  mcp = mcp
  bad = bad
  Contents = {read, bash, write, mcp, bad}
  FactsOf <- MCFactsOf
  Granted <- MCGranted
  Workspace = TRUE
  ProviderIds = TRUE
  OutputSizes = {1}
  MaxSteps = 2
  MaxCalls = 2
  MaxOutput = 1
  MaxDuplicates = 1
  MaxBatch = 2
  MaxTurns = 1
  MaxStoreFailures = 1
CHECK_DEADLOCK FALSE
INVARIANTS
  TypeOK
  ConsentBeforeExecution
  NoStandingGrant
  OneTerminalResult
  RoundsAnswered
  BudgetsHold
  CancelStopsHandlers
  InterruptedRunIsPending
PROPERTIES
  ImplementsCallLedger
  TurnEndsOrAwaitsUser
