SPECIFICATION RowsSpec
CONSTANTS
  ProviderIds = TRUE
  RowTurns = 2
  RowSteps = 2
  RowBatch = 1
CHECK_DEADLOCK FALSE
INVARIANTS
  GroupIsOneRound
