SPECIFICATION Spec
CONSTANTS
  MaxEvents = 8
  MaxBatch = 2
  Budget = 4
  KeepResults = 1
  KeepMessages = 2
  s1 = s1
  s2 = s2
  r1 = r1
  t1 = t1
  t2 = t2
  t3 = t3
  Sessions = {s1, s2}
  RegistryOf <- MCRegistryOf
  Texts = {t1}
  Broken = t2
  MaxEdits = 1
  sa = sa
  sb = sb
  misnamed = misnamed
  Malformed = misnamed
  Namespaced <- MCNamespaced
  DefaultTimeout = 2
  MaxTimeout = 4
  DefaultOutput = 2
  MaxOutputLimit = 4
  Builtins = {"read", "bash"}
  Configs <- MCConfigs
  Payloads <- MCPayloads
  MaxCommits = 2
  MaxTampering = 1
  Scenarios <- MCScenarios
  Batches <- MCBatches
  MaxSteps = 3
  MaxDuplicates = 1
  MinRate <- MCMinRate
  MaxSelected = 2
  f1 = f1
  f2 = f2
  Files = {f1, f2}
  Blocked = {f2}
  Pieces = {"a", "b"}
  MaxLength = 1
  MaxToolTurns = 2
  NativeSteps = 1
  MaxErrors = 1
  MaxFences = 2
  MaxPrompts = 1
  p1 = p1
  p2 = p2
  Clients = {p1, p2}
  MaxGroupSize = 2
  MaxGroups = 3
  MaxLegacy = 2
  MaxKills = 1
  Processes = {p1, p2}
  MaxSessions = 2
  MaxTyped = 3
  MaxRaises = 1
  KeepRecent = 1
CHECK_DEADLOCK FALSE
INVARIANTS
  RestoreTakesEffect
