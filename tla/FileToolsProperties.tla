------------------------- MODULE FileToolsProperties -------------------------
(***************************************************************************)
(* What the file tools promise to the one whose files they are.            *)
(***************************************************************************)
EXTENDS FileTools

TouchedBy(c) == UNION {Touched(c.ops[k]) : k \in DOMAIN c.ops}
Mutates(c)   == c.tool # "read"

(* The call ran beside no other that changes the same files, and each of   *)
(* its operations has files of its own.                                    *)
Alone(i) ==
  /\ \A j \in DOMAIN calls : (j \in calls[i].beside \/ i \in calls[j].beside) /\ Mutates(calls[j])
       => TouchedBy(calls[i]) \cap TouchedBy(calls[j]) = {}
  /\ \A j, k \in DOMAIN calls[i].ops : j # k => Touched(calls[i].ops[j]) \cap Touched(calls[i].ops[k]) = {}

(* What one operation after the other would make of the files.             *)
After(files, o) ==
  [p \in DOMAIN files |->
     CASE o.action \in {"delete", "remove"} /\ p = o.path -> NoFile
       [] o.action \in {"write", "add"} /\ p = o.path -> o.text
       [] o.action = "edit" /\ p = o.path -> [n \in DOMAIN files[p] |-> IF files[p][n] = o.old THEN o.new ELSE files[p][n]]
       [] o.action = "update" /\ p = o.to ->
            [n \in DOMAIN files[o.path] |-> IF files[o.path][n] = o.old THEN o.new ELSE files[o.path][n]]
       [] o.action = "update" /\ p = o.path /\ p # o.to -> NoFile
       [] OTHER -> files[p]]

(* And what all of them would, one after the other.                        *)
Patched(files, ops) ==
  LET upTo[n \in 0..Len(ops)] == IF n = 0 THEN files ELSE After(upTo[n - 1], ops[n])
  IN  upTo[Len(ops)]

(* A call that reports success has done all it was asked, and one that     *)
(* reports failure, or that was to try only, nothing: the operations of a  *)
(* patch take effect together, though files are written one by one and     *)
(* other calls run beside it (apply_patch.py, edit.py, write.py,           *)
(* delete.py).                                                             *)
CallsAreAtomic ==
  [][\A i \in DOMAIN calls :
       Mutates(calls[i]) /\ ~Ended(calls[i]) /\ Ended(calls'[i]) /\ Alone(i) =>
         \A p \in TouchedBy(calls[i]) :
           disk'[p] = (IF calls'[i].pc = "done" /\ ~calls[i].dry THEN Patched(calls[i].before, calls[i].ops)
                       ELSE calls[i].before)[p]]_vars

(* With the guard, a tool overwrites or removes what was there when it was *)
(* called only if the call named a token that a view or read_multi of that *)
(* very text had given, of whatever page: what the user or a program wrote *)
(* since that reading is never lost (docs/PYTESTPILOT_SECURITY.md:21-27).  *)
(* Calls run one after another and nobody else writes while one runs.      *)
WritesWhatWasRead ==
  [][scene.guard /\ scene.threads = 1 =>
       \A i \in DOMAIN calls, p \in Paths :
         calls[i].pc \in {"truncate", "unlink"} /\ disk'[p] # disk[p] /\ Exists(p)
           /\ disk[p] = calls[i].before[p] =>
             \E t \in calls[i].proved : revisions[t].path = p /\ viewed[t] = disk[p]]_vars

(* A token lets one change through and cannot be replayed.                 *)
CannotBeReplayed == \A t \in Tokens : uses[t] <= 1

(* While calls run one after another.                                      *)
TokensAreUsedOnce == scene.threads = 1 => CannotBeReplayed

(* Tools change nothing outside the project unless the sandbox is open,    *)
(* and with the guard nothing but the editable files, also through the     *)
(* destination of a move (fresh_source.py:_require_editable).              *)
ScopeIsKept ==
  [][\A p \in Paths : disk'[p] # disk[p] /\ Active # {} =>
       /\ p \in Project \/ scene.unrestricted
       /\ scene.guard => p \in scene.editable]_vars
=============================================================================
