SPECIFICATION Spec
CONSTANTS
  Scenes <- MCScenes
  Titles = {"t1"}
INVARIANTS LiveIsReplayed OriginalsAreKept
PROPERTIES ImplementsEventLog SwitchNeedsRepeats
CHECK_DEADLOCK FALSE
