--------------------------- MODULE MCPermissions ---------------------------
(***************************************************************************)
(* Model of Permissions for TLC.                                           *)
(***************************************************************************)
EXTENDS PermissionsProperties

CONSTANTS w1, w2,
          nothing, blank, a_py, out_py, pem, out_dir,
          pytest, pytestQ, piped, rm,
          status, statusS, commit, commitM,
          url, urlDot, api, apiDot, TOKEN, HOME

TheWindows == {w1, w2}
TheTargets == {nothing, blank, a_py, out_py, pem, out_dir, pytest, pytestQ, piped, rm,
               status, statusS, commit, commitM, url, urlDot, api, apiDot, TOKEN, HOME}
TheOutside == {out_py, out_dir}
TheSensitive == {pem, TOKEN}
TheControl == {piped}
TheDangerous == {rm}
TheVerification == {pytest, pytestQ, piped}
TheReadonlyGit == {status}
TheBegins == {<<pytest, pytestQ>>, <<pytest, piped>>, <<status, statusS>>, <<commit, commitM>>}
TheUnder == {<<out_dir, out_dir>>, <<out_dir, out_py>>}
TheWord == [t \in TheTargets |-> CASE t = statusS -> status [] t = commitM -> commit [] OTHER -> t]
TheGrantHost == [t \in TheTargets |-> CASE t = url -> api [] t = urlDot -> api [] OTHER -> t]
TheRequestHost == [t \in TheTargets |-> CASE t = url -> api [] t = urlDot -> apiDot [] OTHER -> t]

Ask(action, target) == [action |-> action, target |-> target, inside |-> TRUE,
                        always |-> TRUE, auto |-> TRUE]
Patch(target) == [Ask("write", target) EXCEPT !.always = FALSE, !.auto = FALSE]
Elsewhere(r)  == [r EXCEPT !.inside = FALSE]

(* view of a path outside, edits and a patch, deletes in and outside the   *)
(* project, and a call without its target argument                         *)
PathRequests == {Ask("none", out_py), Ask("write", a_py), Patch(a_py), Ask("write", out_py),
                 Ask("delete", out_py), Ask("delete", a_py), Ask("write", nothing)}
CommandRequests == {Ask("shell", pytest), Ask("shell", pytestQ), Ask("shell", piped),
                    Ask("shell", rm), Elsewhere(Ask("shell", pytest)),
                    Ask("git", statusS), Elsewhere(Ask("git", statusS)), Ask("git", commitM)}
(* A command of nothing but blanks, allowed for ever in vain.              *)
BlankRequest  == Ask("shell", blank)
OtherRequests == {Ask("network", url), Ask("network", urlDot), Ask("env", TOKEN),
                  Ask("env", HOME), Ask("read", pem), Ask("write", pem)}
TheRequests == PathRequests \cup CommandRequests \cup {BlankRequest} \cup OtherRequests

Rule(effect, action, scope, value) ==
  [effect |-> effect, action |-> action, scope |-> scope, value |-> value]

(* The file is absent, unreadable, or holds rules written by hand.         *)
Scene(windows, requests, content, modes, crash, fail) ==
  [windows |-> windows, requests |-> requests, file |-> content, modes |-> modes,
   crashes |-> crash, failures |-> fail]
DenyTree == Rule("deny", "write", "path_tree", out_dir)
DenyTests == Rule("deny", "shell", "command_prefix", pytest)
AllowHome == Rule("allow", "env", "env_key", HOME)
OneWindowScenes ==
  {Scene({w1}, PathRequests, f, {"standard", "aggressive", "bypass"}, 2, 1) :
     f \in {Absent, Torn, Whole({DenyTree})}}
  \cup {Scene({w1}, CommandRequests, Whole({DenyTests}), {"standard", "aggressive", "bypass"}, 1, 1)}
  \cup {Scene({w1}, (CommandRequests \ {Ask("shell", rm), Elsewhere(Ask("git", statusS))})
                      \cup {BlankRequest}, Absent, {"conservative", "aggressive"}, 1, 1)}
  \cup {Scene({w1}, OtherRequests, Whole({AllowHome}), {"standard", "bypass"}, 2, 1)}
TwoWindowScenes ==
  {Scene(TheWindows, {Ask("write", a_py), Ask("delete", out_py)}, Absent, {"standard", "bypass"}, 1, 0),
   Scene(TheWindows, {Ask("shell", pytest), Ask("git", commitM)}, Whole({DenyTests}), {"standard"}, 1, 1),
   Scene(TheWindows, {Ask("network", url), Ask("env", TOKEN)}, Torn, {"standard"}, 1, 0)}

AllScenes == OneWindowScenes \cup TwoWindowScenes
=============================================================================
