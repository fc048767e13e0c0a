SPECIFICATION Spec
CONSTANTS
  c1 = c1
  c2 = c2
  shown1 = shown1
  shown2 = shown2
  Calls <- MCCalls
  Facts <- MCFacts
  Plans <- MCPlans
  MaxTokens = 3
  sh = sh
  background = background
  Shell = sh
  Helpers = {background}
  ByteBudget = 1
  MaxBytes = 2
  server = server
  child = child
  Server = server
  ServerHelpers = {child}
  MaxRequests = 3
  PipeLines = 1
  MaxInputs = 2
  MaxQuestions = 2
  ResponseLines <- MCLines
  MaxLines = 3
CHECK_DEADLOCK FALSE
INVARIANTS
  OneDispatchPerGrant
  PresentedIsSpent
  OutputAccounted
  OneOutcomePerRequest
  UntrustedServerIsGone
  NoInheritedConsent
  CompletedRoundsAreWhole
PROPERTIES
  CommandReturns
  RequestsEnd
  LeavingLeaves
  RoundsEnd
