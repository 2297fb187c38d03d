SPECIFICATION FairSpec
CONSTANTS
  Sessions = {s1}
  Nothing = Nothing
  MaxEdits = 2
  MaxRevision = 1
  MaxEvents = 2
  MaxFailures = 1
  MaxCrashes = 1
INVARIANTS
  AnswersSurvive
  FilesAreWhole
PROPERTIES
  WritesInTime
