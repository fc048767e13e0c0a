SPECIFICATION Spec
CONSTANTS
  write = write
  edit = edit
  a = a
  b = b
  private = private
  shared = shared
  Absent = Absent
  Torn = Torn
  Writers = {write, edit}
  Edits = {edit}
  Data = {a, b}
  Modes = {private, shared}
  NewFileMode = shared
  ContentOf <- MCContentOf
  Matches <- MCMatches
  Replaced <- MCReplaced
  MaxEdits = 0
  MaxSweeps = 1
INVARIANT SweepSparesLiveWriters
CHECK_DEADLOCK FALSE
