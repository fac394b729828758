----------------------- MODULE PermissionsProperties -----------------------
(***************************************************************************)
(* What the permissions of firstcoder promise.                             *)
(***************************************************************************)
EXTENDS Permissions

TypeOK ==
  /\ scene \in Scenes
  /\ file \in Content /\ temp \in Content
  /\ inode \in [Windows -> {"none", "temp", "file", "gone"}]
  /\ grants \in [Windows -> SUBSET Rules]
  /\ mode \in [Windows -> Modes] /\ open \in [Windows -> BOOLEAN]
  /\ pc \in [Windows -> {"idle", "asked", "save", "write", "replace", "run"}]
  /\ req \in [Windows -> RequestType]
  /\ warrant \in [Windows -> [by : {"none", "free", "policy", "bypass", "rule", "once", "always"},
                              mode : Modes]]
  /\ agreed \subseteq RequestType /\ touched \subseteq Targets
  /\ crashes \in Nat /\ failures \in Nat

(* A rule that was not in the file from the start was agreed to by the     *)
(* user, for a request that may be allowed for ever and that the policy    *)
(* does not refuse: so it is in every list and in both files, whoever      *)
(* wrote them, however the windows' saves ran into each other and whatever *)
(* a crash left of them.                                                   *)
AllRules == file.rules \cup temp.rules \cup UNION {grants[w] : w \in Windows}
RulesAreTheUsers ==
  \A g \in AllRules \ scene.file.rules :
     \E r \in agreed : g = Grant(r) /\ r.always /\ ~Refused(r)

(* What the policy refuses runs only in bypass mode or under an allow rule *)
(* that was in the file from the start, and what a deny rule of the        *)
(* session covers does not run at all: no question, no answer to a         *)
(* restored question and no rule another request left behind changes that. *)
Running(w) == pc[w] \in {"save", "write", "replace", "run"} /\ req[w].action # "none"
Allowed(w) ==
  /\ ~Covered(grants[w], "deny", req[w])
  /\ Refused(req[w]) => \/ warrant[w].mode = "bypass"
                        \/ Covered(scene.file.rules, "allow", req[w])
RefusalsHold == \A w \in Windows : Running(w) => Allowed(w)

(* A path outside the project is touched only while the window's session   *)
(* is in bypass mode: the sandbox is one object for all sessions of the    *)
(* window and has to follow each of them.                                  *)
OutsideNeedsBypass ==
  [][touched' # touched => \E w \in Windows : pc[w] = "run" /\ mode[w] = "bypass"]_vars

(* A single window never loses a rule from the file: not by a crash or an  *)
(* error between the steps of a save, and not by saving after them.        *)
OneWindow == \A v, w \in scene.windows : v = w
NothingIsForgotten == [][OneWindow => file.rules \subseteq file'.rules]_vars
=============================================================================
