SPECIFICATION FairSpec
CONSTANTS
  CommentIds = {c1}
  Bodies = {b1}
  Gens = {g1, g2, g3}
  Absent = Absent
  NoGen = NoGen
  NoSession = NoSession
  MaxQueue = 1
  MaxRevision = 2
  MaxAttempts = 2
  LateReviews = FALSE
INVARIANTS
  RecordInPlace
  OneReviewPerRevision
  RecordMatchesGitHub
PROPERTIES
  KeepsContract
  ReviewGoesOn
