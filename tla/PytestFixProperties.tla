------------------------ MODULE PytestFixProperties ------------------------
(***************************************************************************)
(* What the repair workflow promises the owner of the tree.                *)
(***************************************************************************)
EXTENDS PytestFix

Places == {"start", "head", "clean", "create", "baseline", "agent", "focused", "full", "apply", "done"}

(* Every variable has its type.                                            *)
FixTypes ==
  /\ project \in Trees /\ mine \in Trees /\ head \in Trees /\ base \in Trees /\ work \in Trees
  /\ editable \subseteq Source /\ left \subseteq editable
  /\ attempt \in 0..2 /\ edits \in Nat
  /\ baseline \subseteq Tests /\ report \subseteq Tests /\ introduced \subseteq Tests
  /\ status \in {None, "passed", "failed", "error"} /\ place \in Places
  /\ gitBacked \in BOOLEAN /\ failureLog \subseteq SUBSET Tests

-----------------------------------------------------------------------------
(* Whatever the agent, the user and the machine do.                        *)

(* The workflow changes the user's files only after an attempt has passed  *)
(* the full test command, and never when all attempts failed; the files it *)
(* keeps for itself aside.                                                 *)
ChangesWereTested ==
  (\E f \in Files \ {Record} : project[f] # mine[f]) =>
    /\ attempt > 0 /\ Failing(work) = {} /\ status # "failed"

(* It never changes a file outside editable_paths, even when the agent     *)
(* did so in its worktree.                                                 *)
ScopeIsKept == \A f \in Files \ (editable \cup {Record}) : project[f] = mine[f]

-----------------------------------------------------------------------------
(* When the user keeps away, or the agent to its tools.                    *)

UserAway    == edits = 0
WithinScope == \A f \in Files \ editable : work[f] = base[f]

(* A tree reported as repaired passes all tests where it is now, deleted   *)
(* files included, if the attempt changed only what is copied back.        *)
PassedMeansPassing ==
  status = "passed" /\ UserAway /\ (attempt > 0 => WithinScope) => Failing(project) = {}

(* Every attempt starts from the failures the baseline run has seen,       *)
(* though the two are run in different worktrees and by two managers; a    *)
(* run given as a log has no baseline of its own.                          *)
AttemptsMeetTheBaseline ==
  place = "agent" /\ UserAway /\ failureLog = {} => Failing(work) = baseline
=============================================================================
