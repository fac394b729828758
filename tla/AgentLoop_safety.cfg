SPECIFICATION Spec
CONSTANTS
  c1 = c1
  c2 = c2
  c3 = c3
  c4 = c4
  Calls <- FourCalls
  Kind <- Mixed
  Modes = {"standard", "bypass"}
  Env = {"cancel", "crash", "guide", "timeout"}
  MaxBatch = 3
  MaxProviderCalls = 3
  MaxToolRounds = 1
  StaleThreshold = 1
  MaxTurns = 1
  MaxCrashes = 1
  MaxNotes = 1
  MaxLog = 6
CHECK_DEADLOCK FALSE
INVARIANTS
  NoOrphanResult
PROPERTIES
  RerunNeedsApproval
  RunsWithConsent
