SPECIFICATION Spec
CONSTANTS
  Worktrees = {w1, w2}
  Files = {f1, f2}
  Edits = {theirs}
  MaxLeases = 1
  MaxEdits = 1
  MaxFaults = 1
  MaxCrashes = 1
  EditsRace = FALSE
SYMMETRY Symmetry
CHECK_DEADLOCK FALSE
INVARIANTS
  ProjectedIsRecorded
