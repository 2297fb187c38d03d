SPECIFICATION Spec
CONSTANTS
  Worktrees = {w1, w2, w3}
  Files = {f1, f2}
  Edits = {theirs}
  MaxLeases = 2
  MaxEdits = 2
  MaxFaults = 2
  MaxCrashes = 2
  EditsRace = FALSE
SYMMETRY Symmetry
CHECK_DEADLOCK FALSE
INVARIANTS
  TypeOK
  BaseWhileHeld
  CurrentIsRecorded
  BlockedForCause
PROPERTIES
  UserEditsSurvive
