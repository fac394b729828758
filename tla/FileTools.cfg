SPECIFICATION Spec
CONSTANTS
  a = a
  b = b
  out = out
  x = x
  None = None
  y = y
  Paths = {a, b, out}
  Project = {a, b}
  Lines = {x, y}
  Texts <- MCTexts
  Requests <- MCRequests
  Scenes <- MCScenes
  Contents <- MCContents
  MaxMoves = 4
INVARIANT TokensAreUsedOnce
PROPERTIES CallsAreAtomic WritesWhatWasRead ScopeIsKept
CHECK_DEADLOCK FALSE
