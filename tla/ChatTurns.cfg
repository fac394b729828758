SPECIFICATION FairSpec
CONSTANTS
  c1 = c1
  c2 = c2
  s1 = s1
  s2 = s2
  Calls <- TwoCalls
  Guarded <- GuardedCalls
  Sessions <- TwoSessions
  First = s1
  MaxTurns = 2
  MaxLen = 5
  MaxCalls = 2
  Settings <- SomeSettings
CHECK_DEADLOCK FALSE
INVARIANTS
  BusyIsExact
  TurnInOneLog
  IdleSessionUsable
  AnswersFindTheirRequest
PROPERTIES
  InterruptedTurnsStop
  TurnsEnd
