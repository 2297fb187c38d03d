SPECIFICATION Spec
CONSTANTS
  MaxTurns = 3
  MaxRestarts = 1
  InterruptsReject = FALSE
INVARIANTS
  AgentsAttended
  WorksForCurrentTurn
  QuietWhenOver
  ShownIsTrue
PROPERTIES
  KeepsContract
CHECK_DEADLOCK FALSE
