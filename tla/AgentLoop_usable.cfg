SPECIFICATION FairSpec
CONSTANTS
  c1 = c1
  c2 = c2
  c3 = c3
  c4 = c4
  Calls <- FourCalls
  Kind <- Pausing
  Modes = {"standard", "bypass"}
  Env = {"guide", "too_long", "provider_error"}
  MaxBatch = 2
  MaxProviderCalls = 3
  MaxToolRounds = 3
  StaleThreshold = 1
  MaxTurns = 1
  MaxCrashes = 0
  MaxNotes = 1
  MaxLog = 0
CHECK_DEADLOCK FALSE
INVARIANTS
  HistoryUsable
PROPERTIES
  ImplementsProtocol
  TurnEnds
