SPECIFICATION BudgetSpec
CONSTANTS
  a = a
  b = b
  Clients <- Two
  Limit = 20
  InputPrice = 1
  OutputPrice = 2
  Estimates = {1, 4}
  OutputLimits = {0, 1}
  DefaultOutput = 2
  Overrun = 1
  LargestCost = 10
  Streams = TRUE
  MaxSent = 5
CHECK_DEADLOCK FALSE
INVARIANTS
  WithinLimit
  OverspendIsBounded
  SentIsAccounted
