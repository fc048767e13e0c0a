SPECIFICATION FairSpec
CONSTANTS
  write = write
  edit = edit
  a = a
  b = b
  private = private
  shared = shared
  Absent = Absent
  Torn = Torn
  Writers = {write, edit}
  Edits = {edit}
  Data = {a, b}
  Modes = {private, shared}
  NewFileMode = shared
  ContentOf <- MCContentOf
  Matches <- MCMatches
  Replaced <- MCReplaced
  MaxEdits = 1
  MaxSweeps = 1
INVARIANTS TypeOK CommitsSerialized NoTempLeftBehind ResultTellsTheTruth
PROPERTIES ImplementsCasFile ApprovedCallsReturn
CHECK_DEADLOCK FALSE
