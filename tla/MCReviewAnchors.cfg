SPECIFICATION Spec
CONSTANTS
  path1 = path1
  path2 = path2
  a = a
  b = b
  c = c
  cr = cr
  sep = sep
  asMark = asMark
  asHunk = asHunk
  asFile = asFile
  None = None
  Paths = {path1, path2}
  Broken = {cr, sep, asMark, asHunk, asFile}
  Returns = {cr, asMark, asFile}
  Tails <- TestTails
  Texts <- TestTexts
  Context = 1
  Around = 1
  MaxRevision = 2
  Changes <- TestChanges
INVARIANTS
  
  AnchorsAreTrue
PROPERTIES
  CommentsFollow
CHECK_DEADLOCK FALSE
