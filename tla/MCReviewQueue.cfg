SPECIFICATION Spec
CONSTANTS
  CommentIds = {c1}
  Bodies = {b1, b2}
  Gens = {g1, g2, g3}
  Absent = Absent
  NoGen = NoGen
  NoSession = NoSession
  MaxQueue = 2
  MaxRevision = 1
  MaxAttempts = 1
  LateReviews = TRUE
SYMMETRY Symmetry
INVARIANTS
  ArchivedIsQuiet
  AnchorsVerified
PROPERTIES
  TurnsUndisturbed
  DeletionOrder
  CommentsSurvive
