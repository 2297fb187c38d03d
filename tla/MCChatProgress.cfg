SPECIFICATION FairSpec
CONSTANTS
  MaxTurns = 2
  MaxRestarts = 1
  InterruptsReject = TRUE
PROPERTIES
  ChatGoesOn
CHECK_DEADLOCK FALSE
