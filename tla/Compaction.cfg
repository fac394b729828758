SPECIFICATION Spec
CONSTANTS
  c1 = c1
  Calls <- OneCall
  Actors = {"turn", "user"}
  FailureLimit = 2
  Seconds = {1}
  Settings <- SomeSettings
  MaxMessages = 4
  MaxJobs = 2
  MaxRestarts = 1
CHECK_DEADLOCK FALSE
INVARIANTS
  TailIsSendable
  NothingFallsBetween
PROPERTIES
  CircuitStopsCalls
