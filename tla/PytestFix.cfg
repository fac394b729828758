SPECIFICATION FixSpec
CONSTANTS
  Files <- MCFiles
  Original <- MCOriginal
  Failing <- MCFailing
  Contents = {"a", "b"}
  Tests = {"t1", "t2"}
  Record = "record"
  Source = {"src", "other", "local"}
  Ignored = {"local", "record"}
  RecordsInside = TRUE
  Escapes = TRUE
  Logs = {{}, {"t2"}}
  Requested = 3
  MaxEdits = 2
INVARIANTS
  ChangesWereTested
  PassedMeansPassing
  AttemptsMeetTheBaseline
