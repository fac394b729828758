----------------------------- MODULE PytestFix -----------------------------
(***************************************************************************)
(* The repair workflow behind `firstcoder pytest-fix`: a baseline run in a *)
(* worktree of its own, at most two attempts of the agent, each in a fresh *)
(* worktree of the base commit, a focused and a full test run, and the     *)
(* copy of the first attempt that passes into the user's tree, while the   *)
(* user may go on editing and committing there                             *)
(* (workflows/pytest_fix.py, workflows/attempt_workspace.py).              *)
(*                                                                         *)
(* A tree gives every file its content, None where there is no such file.  *)
(* Test outcomes are a function of the tree, and the parser of test output *)
(* is taken to report exactly the tests that fail.                         *)
(***************************************************************************)
EXTENDS Integers

CONSTANTS
  Files, Contents, Tests,
  Source,          \* the *.py files outside tests and the ignored directories
  Ignored,         \* files .gitignore hides from git
  Record,          \* what is written below <project>/.firstcoder
  Original,        \* the tree the command is started in
  Failing(_),      \* the tests that fail in a tree
  RecordsInside,   \* no --data-root: sessions are kept below the project
  Escapes,         \* shell and python_exec write where the mutation tools may not
  Logs,            \* the failures a --failure-log may report
  Requested,       \* --max-attempts
  MaxEdits         \* bound on the user's edits and commits during the run

None == "none"
Trees == [Files -> Contents \cup {None}]

ASSUME FixAssumption ==
  /\ Contents # {} /\ None \notin Contents /\ None \notin Tests
  /\ Source \subseteq Files /\ Ignored \subseteq Files
  /\ Record \in Files \ Source /\ Original \in Trees
  /\ \A t \in Trees : Failing(t) \subseteq Tests
  /\ {RecordsInside, Escapes} \subseteq BOOLEAN
  /\ Logs \subseteq SUBSET Tests
  /\ Requested \in Int /\ MaxEdits \in Nat

VARIABLES
  project,      \* the user's tree
  gitBacked,    \* the project is a git worktree
  failureLog,   \* the failures of --failure-log, if it is given: a set of at most one set
  head,         \* the tree of HEAD
  editable,     \* editable_paths
  base,         \* the tree of base_commit
  work,         \* the worktree created last
  baseline,     \* failures of baseline_report
  report,       \* failures of current_report
  introduced,   \* introduced_failures of the last attempt
  attempt,      \* number; 0 while the baseline is run
  left,         \* files apply_selected_files has still to copy
  status, place,
  mine,         \* what the user's tree would be without the workflow
  edits

run  == <<editable, base, work, baseline, report, introduced, attempt, left, status, place>>
given == <<gitBacked, failureLog>>
mineVars == <<mine, edits>>
fixVars == <<project, given, head, run, mineVars>>

Attempts == IF Requested < 1 THEN 1 ELSE IF Requested > 2 THEN 2 ELSE Requested

(* What `git add -A` and a commit take from a tree.                        *)
Committed(t) == [f \in Files |-> IF f \in Ignored THEN None ELSE t[f]]

(* The tree a manager copies when the project is not a git worktree:       *)
(* .firstcoder is left out, and .gitignore holds in the copy too.          *)
Snapshot(t) == Committed([t EXCEPT ![Record] = None])

(* A test whose outcome hangs on files git ignores or on the session log   *)
(* is outside the model: no worktree has them.                             *)
ASSUME TestsAssumption == \A t \in Trees : Failing(t) = Failing(Snapshot(t))

Dirty == \E f \in Files \ Ignored : project[f] # head[f]

FixInit ==
  /\ project = Original /\ mine = Original /\ head = Committed(Original)
  /\ gitBacked \in BOOLEAN /\ failureLog \in {{}} \cup {{failures} : failures \in Logs}
  /\ editable = {} /\ base = Original /\ work = Original
  /\ baseline = {} /\ report = {} /\ introduced = {} /\ attempt = 0 /\ left = {}
  /\ status = None /\ place = "start" /\ edits = 0

-----------------------------------------------------------------------------
(* One attempt after another.                                              *)

(* The manager's close is no event of the tree or of the outcome: a        *)
(* `git worktree remove` that fails is passed over (check=False), and the  *)
(* next manager works in a temporary directory of its own.                 *)
Close(result) == status' = result /\ place' = "done"

(* The failures of a run given as a log come from any tree whatever.       *)
StartFrom(failures) ==
  /\ place = "start" /\ failures \in failureLog
  /\ editable' = {f \in Source : project[f] # None}
  /\ attempt' = 1 /\ place' = "head" /\ baseline' = failures /\ report' = failures
  /\ UNCHANGED <<project, given, head, base, work, introduced, left, status, mineVars>>
Start ==
  /\ place = "start" /\ failureLog = {}
  /\ editable' = {f \in Source : project[f] # None}
  /\ place' = "head"
  /\ UNCHANGED <<project, given, head, base, work, baseline, report, introduced, attempt, left,
                 status, mineVars>>

(* A manager reads HEAD, and looks for changes only afterwards.            *)
ReadHead ==
  /\ place = "head"
  /\ base' = IF gitBacked THEN head ELSE Snapshot(project)
  /\ place' = IF gitBacked THEN "clean" ELSE "create"
  /\ UNCHANGED <<project, given, head, editable, work, baseline, report, introduced,
                 attempt, left, status, mineVars>>

CheckClean ==
  /\ place = "clean"
  /\ \/ Dirty /\ Close("error")
     \/ ~Dirty /\ place' = "create" /\ UNCHANGED status
  /\ UNCHANGED <<project, given, head, editable, base, work, baseline, report, introduced, attempt,
                 left, mineVars>>

(* Mutant: the next attempt goes on in the files of the last one.          *)
CreateOnTop ==
  /\ place = "create"
  /\ work' = IF attempt < 2 THEN base ELSE work
  /\ place' = IF attempt = 0 THEN "baseline" ELSE "agent"
  /\ UNCHANGED <<project, given, head, editable, base, baseline, report, introduced, attempt, left,
                 status, mineVars>>

Create ==
  /\ place = "create"
  /\ work' = base
  /\ place' = IF attempt = 0 THEN "baseline" ELSE "agent"
  /\ UNCHANGED <<project, given, head, editable, base, baseline, report, introduced, attempt, left,
                 status, mineVars>>

RunBaseline ==
  /\ place = "baseline"
  /\ baseline' = Failing(work) /\ report' = Failing(work)
  /\ \/ Failing(work) = {} /\ Close("passed") /\ UNCHANGED attempt
     \/ Failing(work) # {} /\ attempt' = 1 /\ place' = "head" /\ UNCHANGED status
  /\ UNCHANGED <<project, given, head, editable, base, work, introduced, left, mineVars>>

(* What the agent can make of its worktree: the guarded tools keep to      *)
(* editable_paths.                                                         *)
Reachable == {t \in Trees : \A f \in Files : t[f] # work[f] => f \in editable \/ Escapes}

(* The session log is written while the agent runs, or copied in when it   *)
(* is kept outside of the project (_preserve_transcript).                  *)
Recorded == [project EXCEPT ![Record] = CHOOSE c \in Contents : TRUE]

RunAgent ==
  /\ place = "agent"
  /\ work' \in Reachable
  /\ project' = Recorded
  /\ place' = "focused"
  /\ UNCHANGED <<given, head, editable, base, baseline, report, introduced, attempt, left,
                 status, mineVars>>

Introduced(failures) == failures \ baseline

Judge(failures) ==
  /\ report' = failures /\ introduced' = Introduced(failures)
  /\ \/ attempt < Attempts /\ attempt' = attempt + 1 /\ place' = "create" /\ UNCHANGED status
     \/ attempt >= Attempts /\ Close("failed") /\ UNCHANGED attempt

(* Mutant: an attempt that passes its focused test is selected.            *)
RunFocusedOnly ==
  /\ place = "focused"
  /\ \E t \in report \cup {None} :
       LET failures == IF t = None THEN Failing(work) ELSE Failing(work) \cap {t} IN
       \/ failures = {} /\ place' = "apply" /\ left' = editable
          /\ UNCHANGED <<report, introduced, attempt, status>>
       \/ failures # {} /\ Judge(failures) /\ UNCHANGED left
  /\ UNCHANGED <<project, given, head, editable, base, work, baseline, mineVars>>

(* The first failure reported, or the whole command when it has no usable  *)
(* name.                                                                   *)
RunFocused ==
  /\ place = "focused"
  /\ \E t \in report \cup {None} :
       LET failures == IF t = None THEN Failing(work) ELSE Failing(work) \cap {t} IN
       \/ failures = {} /\ place' = "full" /\ UNCHANGED <<report, introduced, attempt, status>>
       \/ failures # {} /\ Judge(failures)
  /\ UNCHANGED <<project, given, head, editable, base, work, baseline, left, mineVars>>

RunFull ==
  /\ place = "full"
  /\ \/ /\ Failing(work) = {} /\ place' = "apply" /\ left' = editable
        /\ report' = {} /\ introduced' = {} /\ UNCHANGED <<attempt, status>>
     \/ Failing(work) # {} /\ Judge(Failing(work)) /\ UNCHANGED left
  /\ UNCHANGED <<project, given, head, editable, base, work, baseline, mineVars>>

-----------------------------------------------------------------------------
(* Copying the selected attempt, and what else may happen.                 *)

(* Mutant: files the agent removed stay.                                   *)
CopyExisting(f) == IF work[f] = None THEN project[f] ELSE work[f]

Copy(f) == work[f]

Apply(f) ==
  /\ place = "apply" /\ f \in left
  /\ project' = [project EXCEPT ![f] = Copy(f)]
  /\ left' = left \ {f}
  /\ UNCHANGED <<given, head, editable, base, work, baseline, report, introduced, attempt,
                 status, place, mineVars>>

ApplySelectedFiles == \E f \in left : Apply(f)

Finish ==
  /\ place = "apply" /\ left = {} /\ Close("passed")
  /\ UNCHANGED <<project, given, head, editable, base, work, baseline, report, introduced, attempt,
                 left, mineVars>>

(* git, the test runner, the agent or a copy raises: the manager closes    *)
(* and the command ends with an error.                                     *)
Raise ==
  /\ place \in {"head", "clean", "create", "baseline", "agent", "focused", "full", "apply"}
  /\ Close("error")
  /\ project' \in IF place = "agent" /\ RecordsInside THEN {project, Recorded} ELSE {project}
  /\ UNCHANGED <<given, head, editable, base, work, baseline, report, introduced, attempt, left, mineVars>>

(* The user, who was not asked to keep away.                               *)
Edit(f, c) ==
  /\ place # "done" /\ edits < MaxEdits /\ f # Record /\ c # project[f]
  /\ project' = [project EXCEPT ![f] = c]
  /\ mine' = [mine EXCEPT ![f] = c]
  /\ edits' = edits + 1
  /\ UNCHANGED <<given, head, run>>
Commit ==
  /\ gitBacked /\ place # "done" /\ edits < MaxEdits /\ Dirty
  /\ head' = Committed(project) /\ edits' = edits + 1
  /\ UNCHANGED <<project, given, run, mine>>

Step ==
  \/ Start \/ (\E failures \in Logs : StartFrom(failures))
  \/ ReadHead \/ CheckClean \/ Create \/ RunBaseline \/ RunAgent \/ RunFocused \/ RunFull
  \/ ApplySelectedFiles \/ Finish \/ Raise

Done == place = "done" /\ UNCHANGED fixVars
User == Commit \/ \E f \in Files, c \in Contents \cup {None} : Edit(f, c)
FixNext == Step \/ User \/ Done

FixSpec == FixInit /\ [][FixNext]_fixVars
=============================================================================
