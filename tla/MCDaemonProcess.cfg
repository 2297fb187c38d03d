SPECIFICATION FairSpec
CONSTANTS
  Commands = {1, 2}
  Nobody = Nobody
  Signals = {0}
  MaxCrashes = 1
INVARIANTS
  OwnedByOne
  StopsCleanly
PROPERTIES
  ControlEnds
CHECK_DEADLOCK FALSE
