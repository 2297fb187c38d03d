SPECIFICATION FairSpec
CONSTANTS
  Checkouts = {p1, p2}
  Tasks = {t1, t2}
  None = None
  Kinds <- AllKinds
  MaxReviews = 2
  MaxGenerations = 1
  MaxHead = 1
  MaxRestarts = 1
INVARIANTS
  ReviewsBacked
  NoLostRegistration
PROPERTIES
  OperationsEnd
