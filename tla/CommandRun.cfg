SPECIFICATION FairSpec
CONSTANTS
  Scenes <- SomeScenes
  PipeSize = 3
  ReadSize = 2
CHECK_DEADLOCK FALSE
INVARIANTS
  ResultIsHonest
PROPERTIES
  NothingLostSilently
  OutputKeepsFlowing
  RunReturns
