------------------------ MODULE CommandRunProperties ------------------------
(***************************************************************************)
(* What the tools and the workflow rely on when they run a command.        *)
(***************************************************************************)
EXTENDS CommandRun

Written == (scene.writes - rootLeft) + (scene.helperWrites - helperLeft)

(* A result is the truth about the command.  It is a success, for the      *)
(* workflow or in what the tool answers, only of one that ended by itself, *)
(* with exit code 0 and nobody having stopped it: not of one that took the *)
(* signal and left with 0, nor of one that ended while the caller was      *)
(* about to stop it.  A command is stopped only for a reason, and a local  *)
(* one that is leaves nothing behind that it started (the whole process    *)
(* group is killed).                                                       *)
ResultIsHonest ==
  result # NoResult =>
    /\ result.ok \/ Answer = "output" => code = "zero" /\ ~signalled /\ root = "gone" /\ error = None
    /\ result.error = "timed out" => late
    /\ result.error = "interrupted" => cancelled
    /\ result.kept <= scene.limit
    /\ scene.path = "local" /\ signalled => helper # "running"

(* A result that is neither an error nor truncated has all the output the  *)
(* programs have written, unless one of them is still there and holds the  *)
(* pipe: then the backends give up after a second, and what their thread   *)
(* has not returned from its read is missing.                              *)
NothingLostSilently ==
  [][pc # "done" /\ pc' = "done" /\ result'.error = None /\ ~result'.truncated =>
       result'.kept = Written' \/ Open]_vars

(* A command is not held up by its own output: a full pipe is emptied,     *)
(* also beyond the limit.  (With a cancellation token it is not, see       *)
(* README: nobody reads before the command ends.)                          *)
OutputKeepsFlowing ==
  (scene.path # "token" /\ pipe = PipeSize /\ UnderWay) ~> (pipe < PipeSize \/ ~UnderWay)

(* Every call returns: whatever the command does with the signals, and     *)
(* whatever it left in the background.                                     *)
RunReturns == <>(pc = "done")
=============================================================================
