SPECIFICATION Spec
CONSTANTS
  a = a
  b = b
  out = out
  x = x
  None = None
  y = y
  Paths = {a, b, out}
  Project = {a, b}
  Lines = {x, y}
  Texts <- MCTexts
  Requests <- FixRequests
  Scenes <- FixScenes
  Contents <- MCContents
  MaxMoves = 4
INVARIANT CannotBeReplayed
CHECK_DEADLOCK FALSE
