---------------------------- MODULE Permissions ----------------------------
(***************************************************************************)
(* Permissions of firstcoder (permissions/, tools/permission_registry.py,  *)
(* utils/sandbox.py): the default policy with its modes, the rules of      *)
(* .firstcoder/permissions.json, the question to the user and the answers  *)
(* "deny", "allow once" and "allow always", and the sandbox the file tools *)
(* check once more when they run.                                          *)
(*                                                                         *)
(* Several windows (processes of the terminal UI) share the file.  Each    *)
(* session object loads the rules once, adds to its own list, and writes   *)
(* the whole list through a temporary file of one name.  Windows may crash *)
(* between any two steps of that; a save may fail.                         *)
(***************************************************************************)
EXTENDS Naturals, FiniteSets

CONSTANTS
  Windows,       \* processes on one project
  Requests,      \* the permission requests the calls make
  Targets,       \* paths, commands, URLs and variable names, normalised
  Missing,       \* stands for an argument the permission declaration lacks
  Outside,       \* paths outside the project root
  Sensitive,     \* paths and variable names that hold secrets
  Blank,         \* the empty command, which continues nothing and covers nothing
  Control,       \* commands with a shell control operator
  Dangerous,     \* commands of _DANGEROUS_SHELL_PREFIXES
  Verification,  \* commands of _AGGRESSIVE_ALLOWED_COMMANDS and _EXECUTABLES
  ReadonlyGit,   \* _READONLY_GIT_COMMANDS
  Begins,        \* <<p, c>>: the command c continues the command p
  Under,         \* <<d, p>>: the path p is the directory d or below it
  Word,          \* the part of a git command that becomes its scope
  GrantHost,     \* _host_scope_value of a URL, as a rule stores it
  RequestHost,   \* _host_from_target of a URL, as matching computes it
  Scenes         \* bound: what a run starts from and how much may happen

Actions == {"read", "write", "delete", "shell", "network", "git", "env", "none"}
Modes   == {"conservative", "standard", "aggressive", "bypass"}
Paths   == {"read", "write", "delete"}

(* A request: the action, its target, whether the working directory is in  *)
(* the project, whether it touches a path, and the two flags of the tool's *)
(* declaration.  Tools that declare no permission make "none" requests.    *)
RequestType == [action : Actions, target : Targets, inside : BOOLEAN,
                always : BOOLEAN, auto : BOOLEAN]

Scopes == {"exact_path", "path_tree", "command_prefix", "host", "env_key"}
Rules  == [effect : {"allow", "deny"}, action : Actions, scope : Scopes, value : Targets]

(* A file: not there, a part that json.loads refuses (an empty file is     *)
(* one), or a whole list of rules.  The first two load as no rules.        *)
Content      == [kind : {"absent", "torn", "whole"}, rules : SUBSET Rules]
Absent       == [kind |-> "absent", rules |-> {}]
Torn         == [kind |-> "torn", rules |-> {}]
Whole(rules) == [kind |-> "whole", rules |-> rules]

ASSUME RequestsAssumption == Requests \subseteq RequestType
ASSUME TargetsAssumption  == /\ Missing \in Targets \ (Outside \cup Sensitive)
                             /\ Blank \in Targets \ {Missing}
                             /\ Word \in [Targets -> Targets]
                             /\ GrantHost \in [Targets -> Targets]
                             /\ RequestHost \in [Targets -> Targets]
ASSUME ScenesAssumption ==
  \A s \in Scenes : s.windows \subseteq Windows /\ s.requests \subseteq Requests
                    /\ s.file \in Content /\ s.modes \subseteq Modes
                    /\ s.crashes \in Nat /\ s.failures \in Nat

VARIABLES
  scene,      \* the scene of this behaviour, never changed
  file,       \* permissions.json
  temp,       \* permissions.json.tmp
  inode,      \* which of them a window's open file is by now
  grants,     \* the list each window's session holds
  mode,       \* mode of each window's session and of its manager
  open,       \* the window's SandboxAccess is unrestricted
  pc,         \* where the window's turn is
  req,        \* the request at hand
  warrant,    \* why it runs, and the mode that was read
  agreed,     \* history: requests the user allowed for ever
  touched,    \* history: outside paths touched so far
  crashes, failures

vars == <<scene, file, temp, inode, grants, mode, open, pc, req, warrant,
          agreed, touched, crashes, failures>>
window  == <<grants, mode, open>>
turn    == <<pc, req, warrant>>
disk    == <<file, temp, inode>>
history == <<agreed, touched>>
counts  == <<scene, crashes, failures>>

-----------------------------------------------------------------------------
(* The default policy (permissions/policy.py).                             *)

Refused(r) == \/ r.action = "delete" /\ r.target \in Outside
              \/ r.action = "env" /\ r.target \in Sensitive

Free(r, m) ==
  LET ordinary == r.target \notin Outside \cup Sensitive
  IN  \/ r.action = "read" /\ ordinary
      \/ r.action = "write" /\ ordinary /\ r.auto /\ m = "aggressive"
      \/ r.action = "git" /\ r.target \notin Control /\ r.inside
         /\ Word[r.target] \in ReadonlyGit
      \/ r.action = "shell" /\ r.inside /\ m = "aggressive"
         /\ r.target \in Verification \ (Control \cup Dangerous)

Decide(r, m) == IF m = "bypass" THEN "allow"
                ELSE IF Refused(r) THEN "deny"
                ELSE IF Free(r, m) THEN "allow" ELSE "ask"

(* Rules (permissions/grants.py): which request a rule covers, and the     *)
(* rule an "allow always" leaves behind.                                   *)
Matches(g, r) ==
  /\ g.action = r.action
  /\ \/ g.scope = "exact_path" /\ g.value = r.target
     \/ g.scope = "path_tree" /\ <<g.value, r.target>> \in Under
     \/ g.scope = "command_prefix"
        /\ ~(r.action \in {"shell", "git"} /\ r.target \in Control)
        /\ g.value # Blank
        /\ (g.value = r.target \/ <<g.value, r.target>> \in Begins)
     \/ g.scope = "host" /\ g.value = RequestHost[r.target]
     \/ g.scope = "env_key" /\ g.value = r.target

ScopeType(r)  == CASE r.action \in Paths   -> "exact_path"
                   [] r.action = "network" -> "host"
                   [] r.action = "env"     -> "env_key"
                   [] OTHER                -> "command_prefix"
ScopeValue(r) == CASE r.action = "network" -> GrantHost[r.target]
                   [] r.action = "git"     -> Word[r.target]
                   [] OTHER                -> r.target
Grant(r) == [effect |-> "allow", action |-> r.action,
             scope |-> ScopeType(r), value |-> ScopeValue(r)]

Covered(rules, effect, r) == \E g \in rules : g.effect = effect /\ Matches(g, r)

(* PermissionManager.preflight: a rule decides before the policy, a deny   *)
(* rule before an allow rule.                                              *)
Verdict(rules, r, m) == IF Covered(rules, "deny", r) THEN "deny"
                        ELSE IF Covered(rules, "allow", r) THEN "allow"
                        ELSE Decide(r, m)

(* Why an allowed request is allowed.                                      *)
Basis(rules, r, m) == IF Covered(rules, "allow", r) THEN "rule"
                      ELSE IF m = "bypass" THEN "bypass" ELSE "policy"
-----------------------------------------------------------------------------
NoRequest == [action |-> "none", target |-> Missing, inside |-> TRUE,
              always |-> FALSE, auto |-> FALSE]
NoWarrant == [by |-> "none", mode |-> "standard"]

Init ==
  /\ scene \in Scenes
  /\ file = scene.file /\ temp = Absent /\ inode = [w \in Windows |-> "none"]
  /\ grants = [w \in Windows |-> file.rules]
  /\ mode = [w \in Windows |-> "standard"] /\ open = [w \in Windows |-> FALSE]
  /\ pc = [w \in Windows |-> "idle"]
  /\ req = [w \in Windows |-> NoRequest] /\ warrant = [w \in Windows |-> NoWarrant]
  /\ agreed = {} /\ touched = {} /\ crashes = 0 /\ failures = 0

Goto(w, label, r, why) ==
  /\ pc' = [pc EXCEPT ![w] = label]
  /\ req' = [req EXCEPT ![w] = r]
  /\ warrant' = [warrant EXCEPT ![w] = why]

Settle(w) == Goto(w, "idle", NoRequest, NoWarrant)
Run(w, r, by) == Goto(w, "run", r, [by |-> by, mode |-> mode[w]])

(* PermissionAwareToolRegistry.preflight, as the loop calls it.  A request *)
(* that cannot be built is denied, like one the verdict denies: the call   *)
(* gets its result and nothing else changes.                               *)
Call(w) ==
  /\ pc[w] = "idle"
  /\ \E r \in scene.requests :
       \/ r.action = "none" /\ Run(w, r, "free")
       \/ /\ r.action # "none" /\ r.target # Missing
          /\ Verdict(grants[w], r, mode[w]) = "allow"
          /\ Run(w, r, Basis(grants[w], r, mode[w]))
       \/ /\ r.action # "none" /\ r.target # Missing
          /\ Verdict(grants[w], r, mode[w]) = "ask"
          /\ Goto(w, "asked", r, NoWarrant)
  /\ UNCHANGED <<window, disk, history, counts>>

(* resolve_confirmation.  The guard repeats the preflight: what a rule or  *)
(* the policy decides by now is not the user's to decide.                  *)
AnswerDeny(w) ==
  /\ pc[w] = "asked"
  /\ Settle(w)
  /\ UNCHANGED <<window, disk, history, counts>>

Guarded(w) == LET v == Verdict(grants[w], req[w], mode[w])
              IN  \/ v = "deny" /\ Settle(w)
                  \/ v = "allow" /\ Run(w, req[w], Basis(grants[w], req[w], mode[w]))

AllowOnceUnguarded(w) ==
  /\ pc[w] = "asked" /\ Run(w, req[w], "once")
  /\ UNCHANGED <<window, disk, history, counts>>

AllowOnce(w) ==
  /\ pc[w] = "asked"
  /\ \/ Guarded(w)
     \/ Verdict(grants[w], req[w], mode[w]) = "ask" /\ Run(w, req[w], "once")
  /\ UNCHANGED <<window, disk, history, counts>>

AllowAlwaysUnguarded(w) ==
  /\ pc[w] = "asked"
  /\ grants' = [grants EXCEPT ![w] = @ \cup {Grant(req[w])}]
  /\ agreed' = agreed \cup {req[w]}
  /\ Goto(w, "save", req[w], [by |-> "always", mode |-> mode[w]])
  /\ UNCHANGED <<mode, open, disk, touched, counts>>

AllowAlways(w) ==
  /\ pc[w] = "asked"
  /\ \/ ~req[w].always /\ Settle(w) /\ UNCHANGED <<grants, agreed>>
     \/ req[w].always /\ Guarded(w) /\ UNCHANGED <<grants, agreed>>
     \/ /\ req[w].always /\ Verdict(grants[w], req[w], mode[w]) = "ask"
        /\ grants' = [grants EXCEPT ![w] = @ \cup {Grant(req[w])}]
        /\ agreed' = agreed \cup {req[w]}
        /\ Goto(w, "save", req[w], [by |-> "always", mode |-> mode[w]])
  /\ UNCHANGED <<mode, open, disk, touched, counts>>

OpenInPlace(w) ==
  /\ pc[w] = "save"
  /\ file' = Torn /\ inode' = [inode EXCEPT ![w] = "file"]
  /\ Goto(w, "write", req[w], warrant[w])
  /\ UNCHANGED <<temp, window, history, counts>>

(* FilePermissionGrantStore.save: write_text truncates the temporary file, *)
(* then writes; replace renames it, and a file another window still has    *)
(* open goes on under the new name.                                        *)
OpenTemp(w) ==
  /\ pc[w] = "save"
  /\ temp' = Torn /\ inode' = [inode EXCEPT ![w] = "temp"]
  /\ Goto(w, "write", req[w], warrant[w])
  /\ UNCHANGED <<file, window, history, counts>>

(* Writing over what another window wrote there may leave its rest.        *)
Landed(f, rules) == {Whole(rules)} \cup (IF f.kind = "whole" /\ f.rules # rules THEN {Torn} ELSE {})

WriteTemp(w) ==
  /\ pc[w] = "write"
  /\ \/ inode[w] = "temp" /\ temp' \in Landed(temp, grants[w]) /\ UNCHANGED file
     \/ inode[w] = "file" /\ file' \in Landed(file, grants[w]) /\ UNCHANGED temp
     \/ inode[w] = "gone" /\ UNCHANGED <<file, temp>>
  /\ Goto(w, "replace", req[w], warrant[w])
  /\ UNCHANGED <<inode, window, history, counts>>

Renamed == [w \in Windows |-> CASE inode[w] = "temp" -> "file"
                                [] inode[w] = "file" -> "gone"
                                [] OTHER -> inode[w]]

Replace(w) ==
  /\ pc[w] = "replace" /\ temp # Absent
  /\ file' = temp /\ temp' = Absent /\ inode' = [Renamed EXCEPT ![w] = "none"]
  /\ Goto(w, "run", req[w], warrant[w])
  /\ UNCHANGED <<window, history, counts>>

(* An OSError of the save leaves resolve_confirmation and the turn: the    *)
(* rule is in the list already, the session keeps the pending request.     *)
(* The rename fails by itself when another window took the file away.      *)
SaveFails(w) ==
  /\ pc[w] \in {"save", "write", "replace"}
  /\ \/ failures < scene.failures /\ failures' = failures + 1
     \/ pc[w] = "replace" /\ temp = Absent /\ UNCHANGED failures
  /\ inode' = [inode EXCEPT ![w] = "none"]
  /\ Goto(w, "asked", req[w], NoWarrant)
  /\ UNCHANGED <<file, temp, window, history, scene, crashes>>

(* The tool runs; the file tools resolve their path in the sandbox first.  *)
Execute(w) ==
  LET outside == req[w].action \in Paths \cup {"none"} /\ req[w].target \in Outside
  IN  /\ pc[w] = "run"
      /\ touched' = IF outside /\ open[w] THEN touched \cup {req[w].target} ELSE touched
      /\ Settle(w)
      /\ UNCHANGED <<window, disk, agreed, counts>>

(* /mode, at any time.                                                     *)
SetMode(w) ==
  /\ \E m \in scene.modes : /\ mode' = [mode EXCEPT ![w] = m]
                           /\ open' = [open EXCEPT ![w] = m = "bypass"]
  /\ UNCHANGED <<grants, turn, disk, history, counts>>

NewSessionUnsynced(w) ==
  /\ grants' = [grants EXCEPT ![w] = file.rules]
  /\ mode' = [mode EXCEPT ![w] = "standard"] /\ UNCHANGED open

(* A new session object: its rules come from the file, its mode is         *)
(* standard, and the sandbox the tools share follows it.                   *)
NewSession(w) ==
  /\ grants' = [grants EXCEPT ![w] = file.rules]
  /\ mode' = [mode EXCEPT ![w] = "standard"]
  /\ open' = [open EXCEPT ![w] = FALSE]

(* ResumeService.resume: the question of a call the log leaves unanswered  *)
(* is restored whatever the verdict on it has become.                      *)
ResumeSession(w) ==
  /\ pc[w] \in {"idle", "asked"}
  /\ NewSession(w)
  /\ \/ Settle(w)
     \/ \E r \in scene.requests : r.action # "none" /\ Goto(w, "asked", r, NoWarrant)
  /\ UNCHANGED <<disk, history, counts>>

(* The process dies anywhere and is started again.                         *)
Crash(w) ==
  /\ crashes < scene.crashes /\ crashes' = crashes + 1
  /\ inode' = [inode EXCEPT ![w] = "none"]
  /\ NewSession(w) /\ Settle(w)
  /\ UNCHANGED <<file, temp, history, scene, failures>>

WindowStep(w) ==
  \/ Call(w) \/ AnswerDeny(w) \/ AllowOnce(w) \/ AllowAlways(w)
  \/ OpenTemp(w) \/ WriteTemp(w) \/ Replace(w) \/ SaveFails(w)
  \/ Execute(w) \/ SetMode(w) \/ ResumeSession(w) \/ Crash(w)

Next == \E w \in scene.windows : WindowStep(w)

Spec == Init /\ [][Next]_vars
=============================================================================
