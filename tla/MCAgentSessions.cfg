SPECIFICATION FairSpec
CONSTANTS
  MaxTurns = 2
INVARIANTS
  StreamsAreOwn
  QuietWhenIdle
PROPERTIES
  AgentsEnd
CHECK_DEADLOCK FALSE
