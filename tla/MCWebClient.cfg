SPECIFICATION FairSpec
CONSTANTS
  None = None
  MaxChanges = 2
  MaxTroubles = 1
INVARIANTS
  ScreenIsTrue
  CatchesUp
PROPERTIES
  ChatNeverGoesBack
  Reconnects
