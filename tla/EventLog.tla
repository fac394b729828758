------------------------------ MODULE EventLog ------------------------------
(***************************************************************************)
(* What the event log of a session promises those who read it: it only     *)
(* grows, and a reader gets all of it, in the order it was written, or is  *)
(* told that it is damaged; never a part of it.                            *)
(***************************************************************************)
EXTENDS Naturals, Sequences

CONSTANT Damaged     \* what a reader of a damaged log is told

VARIABLES
  log,      \* the events written
  intact,   \* the log can be read
  read      \* what was read since

vars == <<log, intact, read>>

Init == Len(log) = 1 /\ intact = TRUE /\ read = <<>>

(* One event more; it may glue itself to one before it.                    *)
Grow ==
  /\ Len(log') = Len(log) + 1 /\ SubSeq(log', 1, Len(log)) = log
  /\ intact' \in {intact, FALSE}
  /\ read' = <<>>

Damage == intact' = FALSE /\ UNCHANGED <<log, read>>

Read == read' = (IF intact THEN log ELSE Damaged) /\ UNCHANGED <<log, intact>>

Next == Grow \/ Damage \/ Read

Spec == Init /\ [][Next]_vars
=============================================================================
