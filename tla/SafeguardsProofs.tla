-------------------------- MODULE SafeguardsProofs --------------------------
(***************************************************************************)
(* What keeps the agent from the user's files: the permission every call   *)
(* needs, and the worktrees a repair works in until it passes all tests.   *)
(* Permissions, for every number of windows, every set of requests, every  *)
(* policy data and every file to start from: where the rules come from,    *)
(* and what is refused stays refused.  PytestFix, for every set of files   *)
(* and tests, every agent, user and number of attempts: its promises to    *)
(* the owner of the tree.                                                  *)
(***************************************************************************)
EXTENDS PermissionsProperties, PytestFixProperties, TLAPS

(* The rule an "allow always" leaves is a rule.                            *)
LEMMA GrantType ==
  ASSUME NEW r \in RequestType
  PROVE  Grant(r) \in Rules /\ Grant(r).effect = "allow"
<1>1. ScopeType(r) \in Scopes  BY DEF ScopeType, Scopes
<1>2. r.target \in Targets /\ r.action \in Actions  BY DEF RequestType
<1>3. ScopeValue(r) \in Targets  BY <1>2, TargetsAssumption DEF ScopeValue
<1> QED BY <1>1, <1>2, <1>3 DEF Grant, Rules

(* Such a rule covers only requests the policy treats like the one it was  *)
(* given for: what is refused has no rule that covers it.                  *)
LEMMA GrantsCoverTheirLike ==
  ASSUME NEW r \in RequestType, NEW q \in RequestType, Matches(Grant(r), q), Refused(q)
  PROVE  Refused(r)
<1>1. r.action = q.action /\ q.action \in {"delete", "env"}
  BY DEF Matches, Grant, Refused
<1>2. CASE q.action = "delete"
  <2>1. ScopeType(r) = "exact_path" /\ ScopeValue(r) = r.target
    BY <1>1, <1>2 DEF ScopeType, ScopeValue, Paths
  <2>2. r.target = q.target  BY <2>1 DEF Matches, Grant
  <2> QED BY <1>1, <1>2, <2>2 DEF Refused
<1>3. CASE q.action = "env"
  <2>1. ScopeType(r) = "env_key" /\ ScopeValue(r) = r.target
    BY <1>1, <1>3 DEF ScopeType, ScopeValue, Paths
  <2>2. r.target = q.target  BY <2>1 DEF Matches, Grant
  <2> QED BY <1>1, <1>3, <2>2 DEF Refused
<1> QED BY <1>1, <1>2, <1>3

LEMMA ConstantTypes ==
  /\ NoRequest \in RequestType /\ Missing \in Targets
  /\ Absent \in Content /\ Torn \in Content
  /\ \A S \in SUBSET Rules : Whole(S) \in Content /\ Whole(S).rules = S
  /\ Absent.rules = {} /\ Torn.rules = {}
BY TargetsAssumption DEF NoRequest, RequestType, Actions, Content, Absent, Torn, Whole

LEMMA SceneType ==
  ASSUME NEW s \in Scenes
  PROVE  /\ s.requests \subseteq RequestType /\ s.requests \subseteq Requests
         /\ s.file \in Content /\ s.modes \subseteq Modes /\ s.windows \subseteq Windows
BY ScenesAssumption, RequestsAssumption
-----------------------------------------------------------------------------
Warrants == [by : {"none", "free", "policy", "bypass", "rule", "once", "always"}, mode : Modes]

(* The moves all actions are made of keep the types of the turn.           *)
LEMMA GotoTypes ==
  ASSUME TypeOK, NEW w \in Windows,
         NEW label \in {"idle", "asked", "save", "write", "replace", "run"},
         NEW r \in RequestType, NEW why \in Warrants, Goto(w, label, r, why)
  PROVE  /\ pc' \in [Windows -> {"idle", "asked", "save", "write", "replace", "run"}]
         /\ req' \in [Windows -> RequestType] /\ warrant' \in [Windows -> Warrants]
         /\ pc'[w] = label /\ req'[w] = r /\ warrant'[w] = why
         /\ \A v \in Windows \ {w} :
              pc'[v] = pc[v] /\ req'[v] = req[v] /\ warrant'[v] = warrant[v]
BY DEF TypeOK, Goto, Warrants

TurnTypes ==
  /\ pc \in [Windows -> {"idle", "asked", "save", "write", "replace", "run"}]
  /\ req \in [Windows -> RequestType] /\ warrant \in [Windows -> Warrants]
OthersStay(w) == \A v \in Windows \ {w} :
  pc'[v] = pc[v] /\ req'[v] = req[v] /\ warrant'[v] = warrant[v] /\ grants'[v] = grants[v]

LEMMA SettleTypes ==
  ASSUME TypeOK, NEW w \in Windows, Settle(w)
  PROVE  TurnTypes' /\ pc'[w] = "idle"
         /\ \A v \in Windows \ {w} :
              pc'[v] = pc[v] /\ req'[v] = req[v] /\ warrant'[v] = warrant[v]
<1>1. NoWarrant \in Warrants  BY DEF NoWarrant, Warrants, Modes
<1> QED BY <1>1, GotoTypes, ConstantTypes DEF Settle, TurnTypes

LEMMA RunTypes ==
  ASSUME TypeOK, NEW w \in Windows, NEW r \in RequestType,
         NEW by \in {"free", "policy", "bypass", "rule", "once", "always"}, Run(w, r, by)
  PROVE  TurnTypes' /\ pc'[w] = "run" /\ req'[w] = r /\ warrant'[w].mode = mode[w]
         /\ \A v \in Windows \ {w} :
              pc'[v] = pc[v] /\ req'[v] = req[v] /\ warrant'[v] = warrant[v]
<1>1. mode[w] \in Modes  BY DEF TypeOK
<1>2. [by |-> by, mode |-> mode[w]] \in Warrants  BY <1>1 DEF Warrants
<1> QED BY <1>2, GotoTypes DEF Run, TurnTypes

LEMMA BasisType ==
  ASSUME NEW S, NEW r, NEW m
  PROVE  Basis(S, r, m) \in {"policy", "bypass", "rule"}
BY DEF Basis
-----------------------------------------------------------------------------
(* What an action leaves of the rules and of the decisions, in the three   *)
(* forms the actions need.                                                 *)
Rest == /\ scene' = scene /\ file' \in Content /\ temp' \in Content
        /\ inode' \in [Windows -> {"none", "temp", "file", "gone"}]
        /\ grants' \in [Windows -> SUBSET Rules]
        /\ mode' \in [Windows -> Modes] /\ open' \in [Windows -> BOOLEAN]
        /\ agreed' \subseteq RequestType /\ touched' \subseteq Targets
        /\ crashes' \in Nat /\ failures' \in Nat

LEMMA TypeFromParts == ASSUME TypeOK, Rest, TurnTypes' PROVE TypeOK'
BY DEF TypeOK, Rest, TurnTypes, Warrants

(* Nothing appears that is not a rule already, so the rules stay the       *)
(* user's.                                                                 *)
LEMMA NoNewRules ==
  ASSUME RulesAreTheUsers, scene' = scene, agreed' = agreed, AllRules' \subseteq AllRules
  PROVE  RulesAreTheUsers'
BY DEF RulesAreTheUsers

(* Only window w moves: the decisions of the others stand.                 *)
LEMMA OneMoves ==
  ASSUME RefusalsHold, NEW w \in Windows, OthersStay(w), scene' = scene, Running(w)' => Allowed(w)'
  PROVE  RefusalsHold'
<1> SUFFICES ASSUME NEW v \in Windows, Running(v)'
             PROVE  Allowed(v)'
  BY DEF RefusalsHold
<1>1. CASE v = w  BY <1>1
<1>2. CASE v # w
  <2>1. Running(v) /\ Allowed(v)
    BY <1>2 DEF Running, OthersStay, RefusalsHold
  <2>2. grants'[v] = grants[v] /\ req'[v] = req[v] /\ warrant'[v] = warrant[v]
    BY <1>2 DEF OthersStay
  <2> QED BY <2>1, <2>2 DEF Allowed, Covered
<1> QED BY <1>1, <1>2

(* What the guard lets through may run.                                    *)
LEMMA VerdictAllows ==
  ASSUME TypeOK, RulesAreTheUsers, NEW w \in Windows, NEW r \in RequestType,
         Verdict(grants[w], r, mode[w]) \in {"allow", "ask"}
  PROVE  /\ ~Covered(grants[w], "deny", r)
         /\ Refused(r) => mode[w] = "bypass" \/ Covered(scene.file.rules, "allow", r)
         /\ Verdict(grants[w], r, mode[w]) = "ask" => ~Refused(r)
<1>1. ~Covered(grants[w], "deny", r)  BY DEF Verdict
<1>2. Covered(grants[w], "allow", r) \/ Decide(r, mode[w]) \in {"allow", "ask"}
  BY <1>1 DEF Verdict
<1>3. Decide(r, mode[w]) \in {"allow", "ask"} /\ Refused(r) => mode[w] = "bypass"
  BY DEF Decide
<1>4. Verdict(grants[w], r, mode[w]) = "ask" => ~Refused(r)
  BY DEF Verdict, Decide
<1>5. ASSUME Covered(grants[w], "allow", r), Refused(r)
      PROVE  Covered(scene.file.rules, "allow", r)
  <2>1. PICK g \in grants[w] : g.effect = "allow" /\ Matches(g, r)
    BY <1>5 DEF Covered
  <2>2. CASE g \in scene.file.rules  BY <2>1, <2>2 DEF Covered
  <2>3. CASE g \notin scene.file.rules
    <3>1. PICK q \in agreed : g = Grant(q) /\ ~Refused(q)
      BY <2>3 DEF RulesAreTheUsers, AllRules
    <3>2. q \in RequestType  BY DEF TypeOK
    <3> QED BY <2>1, <3>1, <3>2, <1>5, GrantsCoverTheirLike
  <2> QED BY <2>2, <2>3
<1> QED BY <1>1, <1>2, <1>3, <1>4, <1>5

Safe == TypeOK /\ RulesAreTheUsers /\ RefusalsHold
-----------------------------------------------------------------------------
(* Actions that leave the rules and the disk alone and run a request only  *)
(* when it may run.                                                        *)
LEMMA RulesUntouched ==
  ASSUME Safe, UNCHANGED <<window, disk, history, counts>>
  PROVE  Rest /\ RulesAreTheUsers' /\ grants' = grants /\ mode' = mode /\ scene' = scene
<1>1. Rest  BY DEF Safe, TypeOK, Rest, window, disk, history, counts
<1>2. AllRules' = AllRules /\ agreed' = agreed /\ scene' = scene
  BY DEF AllRules, window, disk, history, counts
<1>3. RulesAreTheUsers'  BY <1>2, NoNewRules DEF Safe
<1> QED BY <1>1, <1>2, <1>3 DEF window

LEMMA SettleSafe ==
  ASSUME Safe, NEW w \in Windows, Settle(w), Rest, RulesAreTheUsers',
         \A v \in Windows \ {w} : grants'[v] = grants[v]
  PROVE  Safe'
<1>1. TypeOK'  BY SettleTypes, TypeFromParts DEF Safe
<1>2. ~Running(w)'  BY SettleTypes DEF Safe, Running
<1>3. OthersStay(w)  BY SettleTypes DEF Safe, OthersStay
<1>4. scene' = scene  BY DEF Rest
<1>5. RefusalsHold'  BY <1>2, <1>3, <1>4, OneMoves DEF Safe
<1> QED BY <1>1, <1>5 DEF Safe

LEMMA RunSafe ==
  ASSUME Safe, NEW w \in Windows, NEW r \in RequestType,
         NEW by \in {"free", "policy", "bypass", "rule", "once", "always"}, Run(w, r, by),
         UNCHANGED <<window, disk, history, counts>>,
         r.action = "none" \/ Verdict(grants[w], r, mode[w]) \in {"allow", "ask"}
  PROVE  Safe'
<1>1. Rest /\ RulesAreTheUsers' /\ grants' = grants /\ scene' = scene  BY RulesUntouched
<1>2. TypeOK'  BY <1>1, RunTypes, TypeFromParts DEF Safe
<1>3. OthersStay(w)  BY <1>1, RunTypes DEF Safe, OthersStay
<1>4. req'[w] = r /\ warrant'[w].mode = mode[w]  BY RunTypes DEF Safe
<1>5. ASSUME Running(w)' PROVE Allowed(w)'
  <2>1. Verdict(grants[w], r, mode[w]) \in {"allow", "ask"}  BY <1>4, <1>5 DEF Running
  <2>2. /\ ~Covered(grants[w], "deny", r)
        /\ Refused(r) => mode[w] = "bypass" \/ Covered(scene.file.rules, "allow", r)
    BY <2>1, VerdictAllows DEF Safe
  <2> QED BY <1>1, <1>4, <2>2 DEF Allowed
<1>6. RefusalsHold'  BY <1>1, <1>3, <1>5, OneMoves DEF Safe
<1> QED BY <1>1, <1>2, <1>6 DEF Safe

LEMMA AskSafe ==
  ASSUME Safe, NEW w \in Windows, NEW r \in RequestType, Goto(w, "asked", r, NoWarrant), Rest,
         RulesAreTheUsers', \A v \in Windows \ {w} : grants'[v] = grants[v]
  PROVE  Safe'
<1>1. NoWarrant \in Warrants  BY DEF NoWarrant, Warrants, Modes
<1>2. /\ TurnTypes' /\ pc'[w] = "asked"
      /\ \A v \in Windows \ {w} : pc'[v] = pc[v] /\ req'[v] = req[v] /\ warrant'[v] = warrant[v]
  BY <1>1, GotoTypes DEF Safe, TurnTypes
<1>3. TypeOK'  BY <1>2, TypeFromParts DEF Safe
<1>4. ~Running(w)' /\ OthersStay(w) /\ scene' = scene  BY <1>2 DEF Running, OthersStay, Rest
<1>5. RefusalsHold'  BY <1>4, OneMoves DEF Safe
<1> QED BY <1>3, <1>5 DEF Safe

LEMMA CallSafe == ASSUME Safe, NEW w \in Windows, Call(w) PROVE Safe'
<1>1. PICK r \in scene.requests :
        \/ r.action = "none" /\ Run(w, r, "free")
        \/ Verdict(grants[w], r, mode[w]) = "allow" /\ Run(w, r, Basis(grants[w], r, mode[w]))
        \/ Goto(w, "asked", r, NoWarrant)
  BY DEF Call
<1>2. UNCHANGED <<window, disk, history, counts>>  BY DEF Call
<1>3. r \in RequestType  BY SceneType DEF Safe, TypeOK
<1>4. CASE r.action = "none" /\ Run(w, r, "free")  BY <1>2, <1>3, <1>4, RunSafe
<1>5. CASE Verdict(grants[w], r, mode[w]) = "allow" /\ Run(w, r, Basis(grants[w], r, mode[w]))
  <2>1. Basis(grants[w], r, mode[w]) \in {"free", "policy", "bypass", "rule", "once", "always"}
    BY BasisType
  <2> QED BY <1>2, <1>3, <1>5, <2>1, RunSafe
<1>6. CASE Goto(w, "asked", r, NoWarrant)  BY <1>2, <1>3, <1>6, RulesUntouched, AskSafe
<1> QED BY <1>1, <1>4, <1>5, <1>6

LEMMA GuardedSafe ==
  ASSUME Safe, NEW w \in Windows, Guarded(w), UNCHANGED <<window, disk, history, counts>>
  PROVE  Safe'
<1>1. req[w] \in RequestType  BY DEF Safe, TypeOK
<1>2. CASE Settle(w)  BY <1>2, RulesUntouched, SettleSafe
<1>3. CASE Verdict(grants[w], req[w], mode[w]) = "allow"
           /\ Run(w, req[w], Basis(grants[w], req[w], mode[w]))
  <2>1. Basis(grants[w], req[w], mode[w]) \in {"free", "policy", "bypass", "rule", "once", "always"}
    BY BasisType
  <2> QED BY <1>1, <1>3, <2>1, RunSafe
<1> QED BY <1>2, <1>3 DEF Guarded

LEMMA AnswerDenySafe == ASSUME Safe, NEW w \in Windows, AnswerDeny(w) PROVE Safe'
BY RulesUntouched, SettleSafe DEF AnswerDeny

LEMMA AllowOnceSafe == ASSUME Safe, NEW w \in Windows, AllowOnce(w) PROVE Safe'
<1>1. req[w] \in RequestType /\ UNCHANGED <<window, disk, history, counts>>
  BY DEF Safe, TypeOK, AllowOnce
<1>2. CASE Guarded(w)  BY <1>1, <1>2, GuardedSafe
<1>3. CASE Verdict(grants[w], req[w], mode[w]) = "ask" /\ Run(w, req[w], "once")
  BY <1>1, <1>3, RunSafe
<1> QED BY <1>2, <1>3 DEF AllowOnce

(* The one action that adds a rule: the guard said "ask", so the policy    *)
(* does not refuse the request.                                            *)
LEMMA AllowAlwaysSafe == ASSUME Safe, NEW w \in Windows, AllowAlways(w) PROVE Safe'
<1>1. req[w] \in RequestType /\ mode[w] \in Modes  BY DEF Safe, TypeOK
<1>2. UNCHANGED <<mode, open, disk, touched, counts>>  BY DEF AllowAlways
<1>3. CASE ~req[w].always /\ Settle(w) /\ UNCHANGED <<grants, agreed>>
  <2>1. UNCHANGED <<window, disk, history, counts>>  BY <1>2, <1>3 DEF window, history
  <2> QED BY <1>3, <2>1, RulesUntouched, SettleSafe
<1>4. CASE Guarded(w) /\ UNCHANGED <<grants, agreed>>
  <2>1. UNCHANGED <<window, disk, history, counts>>  BY <1>2, <1>4 DEF window, history
  <2> QED BY <1>4, <2>1, GuardedSafe
<1>5. CASE /\ req[w].always /\ Verdict(grants[w], req[w], mode[w]) = "ask"
           /\ grants' = [grants EXCEPT ![w] = @ \cup {Grant(req[w])}]
           /\ agreed' = agreed \cup {req[w]}
           /\ Goto(w, "save", req[w], [by |-> "always", mode |-> mode[w]])
  <2>1. [by |-> "always", mode |-> mode[w]] \in Warrants  BY <1>1 DEF Warrants
  <2>2. /\ TurnTypes' /\ req'[w] = req[w]
        /\ warrant'[w] = [by |-> "always", mode |-> mode[w]]
        /\ \A v \in Windows \ {w} : pc'[v] = pc[v] /\ req'[v] = req[v] /\ warrant'[v] = warrant[v]
    BY <1>1, <1>5, <2>1, GotoTypes DEF Safe, TurnTypes
  <2>3. /\ ~Covered(grants[w], "deny", req[w]) /\ ~Refused(req[w])
    BY <1>1, <1>5, VerdictAllows DEF Safe
  <2>4. /\ grants' \in [Windows -> SUBSET Rules]
        /\ grants'[w] = grants[w] \cup {Grant(req[w])}
        /\ \A v \in Windows \ {w} : grants'[v] = grants[v]
    BY <1>1, <1>5, GrantType DEF Safe, TypeOK
  <2>5. agreed' \subseteq RequestType /\ scene' = scene
    BY <1>1, <1>2, <1>5 DEF Safe, TypeOK, counts
  <2>6. Rest
    BY <1>2, <2>4, <2>5 DEF Safe, TypeOK, Rest, disk, counts
  <2>7. TypeOK'  BY <2>2, <2>6, TypeFromParts DEF Safe
  <2>8. AllRules' \subseteq AllRules \cup {Grant(req[w])}
    <3>1. UNCHANGED <<file, temp>>  BY <1>2 DEF disk
    <3>2. \A v \in Windows : grants'[v] \subseteq grants[v] \cup {Grant(req[w])}
      BY <2>4
    <3> QED BY <3>1, <3>2 DEF AllRules
  <2>9. RulesAreTheUsers'
    <3> SUFFICES ASSUME NEW g \in AllRules', g \notin scene.file.rules
                 PROVE  \E r \in agreed' : g = Grant(r) /\ r.always /\ ~Refused(r)
      BY <2>5 DEF RulesAreTheUsers
    <3>1. CASE g \in AllRules  BY <1>5, <3>1 DEF Safe, RulesAreTheUsers
    <3>2. CASE g = Grant(req[w])  BY <1>5, <2>3, <3>2
    <3> QED BY <2>8, <3>1, <3>2
  <2>10. Allowed(w)'
    <3>1. ~Covered(grants'[w], "deny", req[w])
      BY <1>1, <2>3, <2>4, GrantType DEF Covered
    <3> QED BY <2>2, <2>3, <3>1 DEF Allowed
  <2>11. OthersStay(w)  BY <2>2, <2>4 DEF OthersStay
  <2>12. RefusalsHold'  BY <2>5, <2>10, <2>11, OneMoves DEF Safe
  <2> QED BY <2>7, <2>9, <2>12 DEF Safe
<1> QED BY <1>2, <1>3, <1>4, <1>5 DEF AllowAlways
-----------------------------------------------------------------------------
(* The steps of a save move a window on without touching the decision.     *)
LEMMA SavingSafe ==
  ASSUME Safe, NEW w \in Windows, NEW label \in {"write", "replace", "run"},
         pc[w] \in {"save", "write", "replace"},
         Goto(w, label, req[w], warrant[w]), grants' = grants, Rest, RulesAreTheUsers'
  PROVE  Safe'
<1>1. req[w] \in RequestType /\ warrant[w] \in Warrants  BY DEF Safe, TypeOK, Warrants
<1>2. /\ TurnTypes' /\ req'[w] = req[w] /\ warrant'[w] = warrant[w]
      /\ \A v \in Windows \ {w} : pc'[v] = pc[v] /\ req'[v] = req[v] /\ warrant'[v] = warrant[v]
  BY <1>1, GotoTypes DEF Safe, TurnTypes
<1>3. TypeOK'  BY <1>2, TypeFromParts DEF Safe
<1>4. scene' = scene /\ OthersStay(w)  BY <1>2 DEF Rest, OthersStay
<1>5. ASSUME Running(w)' PROVE Allowed(w)'
  <2>1. Running(w)  BY <1>2, <1>5 DEF Running
  <2>2. Allowed(w)  BY <2>1 DEF Safe, RefusalsHold
  <2> QED BY <1>2, <1>4, <2>2 DEF Allowed, Covered
<1>6. RefusalsHold'  BY <1>4, <1>5, OneMoves DEF Safe
<1> QED BY <1>3, <1>6 DEF Safe

LEMMA OpenTempSafe == ASSUME Safe, NEW w \in Windows, OpenTemp(w) PROVE Safe'
<1>1. UNCHANGED <<file, window, history, counts>> /\ temp' = Torn  BY DEF OpenTemp
<1>2. Rest /\ grants' = grants /\ agreed' = agreed
  BY <1>1, ConstantTypes DEF Safe, TypeOK, Rest, OpenTemp, window, history, counts
<1>3. AllRules' \subseteq AllRules  BY <1>1, <1>2, ConstantTypes DEF AllRules
<1>4. RulesAreTheUsers'  BY <1>2, <1>3, NoNewRules DEF Safe, Rest
<1> QED BY <1>2, <1>4, SavingSafe DEF OpenTemp

(* What a write leaves in a file is torn or the list of the window.        *)
LEMMA LandedRules ==
  ASSUME NEW f \in Content, NEW S \in SUBSET Rules, NEW c \in Landed(f, S)
  PROVE  c \in Content /\ c.rules \subseteq S
BY ConstantTypes DEF Landed

LEMMA WriteTempSafe == ASSUME Safe, NEW w \in Windows, WriteTemp(w) PROVE Safe'
<1>1. UNCHANGED <<inode, window, history, counts>>  BY DEF WriteTemp
<1>2. file \in Content /\ temp \in Content /\ grants[w] \in SUBSET Rules  BY DEF Safe, TypeOK
<1>3. /\ file' \in Content /\ temp' \in Content
      /\ file'.rules \subseteq file.rules \cup grants[w]
      /\ temp'.rules \subseteq temp.rules \cup grants[w]
  BY <1>2, LandedRules DEF WriteTemp
<1>4. Rest /\ grants' = grants /\ agreed' = agreed
  BY <1>1, <1>3 DEF Safe, TypeOK, Rest, window, history, counts
<1>5. AllRules' \subseteq AllRules  BY <1>3, <1>4 DEF AllRules
<1>6. RulesAreTheUsers'  BY <1>4, <1>5, NoNewRules DEF Safe, Rest
<1> QED BY <1>4, <1>6, SavingSafe DEF WriteTemp

LEMMA ReplaceSafe == ASSUME Safe, NEW w \in Windows, Replace(w) PROVE Safe'
<1>1. UNCHANGED <<window, history, counts>> /\ file' = temp /\ temp' = Absent  BY DEF Replace
<1>2. inode' \in [Windows -> {"none", "temp", "file", "gone"}]
  <2>1. Renamed \in [Windows -> {"none", "temp", "file", "gone"}]
    BY DEF Safe, TypeOK, Renamed
  <2> QED BY <2>1 DEF Replace
<1>3. Rest /\ grants' = grants /\ agreed' = agreed
  BY <1>1, <1>2, ConstantTypes DEF Safe, TypeOK, Rest, window, history, counts
<1>4. AllRules' \subseteq AllRules  BY <1>1, <1>3, ConstantTypes DEF AllRules
<1>5. RulesAreTheUsers'  BY <1>3, <1>4, NoNewRules DEF Safe, Rest
<1> QED BY <1>3, <1>5, SavingSafe DEF Replace

LEMMA SaveFailsSafe == ASSUME Safe, NEW w \in Windows, SaveFails(w) PROVE Safe'
<1>1. UNCHANGED <<file, temp, window, history, scene, crashes>>  BY DEF SaveFails
<1>2. Rest /\ grants' = grants /\ agreed' = agreed
  BY <1>1 DEF Safe, TypeOK, Rest, SaveFails, window, history
<1>3. RulesAreTheUsers'  BY <1>1, <1>2, NoNewRules DEF Safe, AllRules
<1>4. req[w] \in RequestType  BY DEF Safe, TypeOK
<1> QED BY <1>2, <1>3, <1>4, AskSafe DEF SaveFails

LEMMA ExecuteSafe == ASSUME Safe, NEW w \in Windows, Execute(w) PROVE Safe'
<1>1. UNCHANGED <<window, disk, agreed, counts>>  BY DEF Execute
<1>2. touched' \subseteq Targets
  <2>1. req[w].target \in Targets  BY DEF Safe, TypeOK, RequestType
  <2> QED BY <2>1 DEF Safe, TypeOK, Execute
<1>3. Rest /\ grants' = grants  BY <1>1, <1>2 DEF Safe, TypeOK, Rest, window, disk, counts
<1>4. RulesAreTheUsers'  BY <1>1, NoNewRules DEF Safe, AllRules, window, disk, counts
<1> QED BY <1>3, <1>4, SettleSafe DEF Execute

LEMMA SetModeSafe == ASSUME Safe, NEW w \in Windows, SetMode(w) PROVE Safe'
<1>1. UNCHANGED <<grants, turn, disk, history, counts>>  BY DEF SetMode
<1>2. /\ mode' \in [Windows -> Modes] /\ open' \in [Windows -> BOOLEAN]
  BY SceneType DEF SetMode, Safe, TypeOK
<1>3. TypeOK'  BY <1>1, <1>2 DEF Safe, TypeOK, turn, disk, history, counts
<1>4. RulesAreTheUsers'  BY <1>1, NoNewRules DEF Safe, AllRules, disk, history, counts
<1>5. RefusalsHold'
  BY <1>1 DEF Safe, RefusalsHold, Running, Allowed, Covered, turn, counts
<1> QED BY <1>3, <1>4, <1>5 DEF Safe

(* A new session brings nothing but what is in the file.                   *)
LEMMA NewSessionRules ==
  ASSUME Safe, NEW w \in Windows, NewSession(w), scene' = scene, file' = file, temp' = temp,
         agreed' = agreed
  PROVE  /\ grants' \in [Windows -> SUBSET Rules] /\ mode' \in [Windows -> Modes]
         /\ open' \in [Windows -> BOOLEAN]
         /\ \A v \in Windows \ {w} : grants'[v] = grants[v]
         /\ RulesAreTheUsers'
<1>1. file.rules \subseteq Rules  BY DEF Safe, TypeOK, Content
<1>2. /\ grants' \in [Windows -> SUBSET Rules] /\ grants'[w] = file.rules
      /\ \A v \in Windows \ {w} : grants'[v] = grants[v]
  BY <1>1 DEF Safe, TypeOK, NewSession
<1>3. mode' \in [Windows -> Modes] /\ open' \in [Windows -> BOOLEAN]
  BY DEF Safe, TypeOK, NewSession, Modes
<1>4. \A v \in Windows : grants'[v] \subseteq grants[v] \cup file.rules
  BY <1>2
<1>5. AllRules' \subseteq AllRules  BY <1>4 DEF AllRules
<1> QED BY <1>2, <1>3, <1>5, NoNewRules DEF Safe

LEMMA ResumeSessionSafe == ASSUME Safe, NEW w \in Windows, ResumeSession(w) PROVE Safe'
<1>1. UNCHANGED <<disk, history, counts>> /\ NewSession(w)  BY DEF ResumeSession
<1>2. UNCHANGED <<file, temp, inode, agreed, touched, scene, crashes, failures>>
  BY <1>1 DEF disk, history, counts
<1>3. /\ RulesAreTheUsers' /\ \A v \in Windows \ {w} : grants'[v] = grants[v]
  BY <1>1, <1>2, NewSessionRules
<1>4. Rest  BY <1>1, <1>2, NewSessionRules DEF Safe, TypeOK, Rest
<1>5. CASE Settle(w)  BY <1>3, <1>4, <1>5, SettleSafe
<1>6. CASE \E r \in scene.requests : Goto(w, "asked", r, NoWarrant)
  <2>1. PICK r \in scene.requests : Goto(w, "asked", r, NoWarrant)  BY <1>6
  <2>2. r \in RequestType  BY SceneType DEF Safe, TypeOK
  <2> QED BY <1>3, <1>4, <2>1, <2>2, AskSafe
<1> QED BY <1>5, <1>6 DEF ResumeSession

LEMMA CrashSafe == ASSUME Safe, NEW w \in Windows, Crash(w) PROVE Safe'
<1>1. UNCHANGED <<file, temp, history, scene, failures>> /\ NewSession(w)  BY DEF Crash
<1>2. UNCHANGED <<file, temp, agreed, touched, scene, failures>>  BY <1>1 DEF history
<1>3. RulesAreTheUsers' /\ \A v \in Windows \ {w} : grants'[v] = grants[v]
  BY <1>1, <1>2, NewSessionRules
<1>4. Rest  BY <1>1, <1>2, NewSessionRules DEF Safe, TypeOK, Rest, Crash
<1> QED BY <1>3, <1>4, SettleSafe DEF Crash
-----------------------------------------------------------------------------
LEMMA InitSafe == Init => Safe
<1> SUFFICES ASSUME Init PROVE Safe  OBVIOUS
<1>1. scene \in Scenes /\ file = scene.file /\ temp = Absent  BY DEF Init
<1>2. file \in Content /\ file.rules \subseteq Rules
  BY <1>1, SceneType DEF Content
<1>3. NoWarrant \in Warrants  BY DEF NoWarrant, Warrants, Modes
<1>4. TypeOK  BY <1>1, <1>2, <1>3, ConstantTypes DEF Init, TypeOK, Warrants, Modes
<1>5. AllRules \subseteq scene.file.rules  BY <1>1, ConstantTypes DEF Init, AllRules
<1>6. RefusalsHold  BY DEF Init, RefusalsHold, Running
<1> QED BY <1>4, <1>5, <1>6 DEF Safe, RulesAreTheUsers

LEMMA StepSafe == Safe /\ [Next]_vars => Safe'
<1> SUFFICES ASSUME Safe, [Next]_vars PROVE Safe'  OBVIOUS
<1>1. CASE UNCHANGED vars
  BY <1>1 DEF vars, Safe, TypeOK, RulesAreTheUsers, AllRules, RefusalsHold, Running, Allowed, Covered
<1>2. CASE Next
  <2>1. PICK w \in scene.windows : WindowStep(w)  BY <1>2 DEF Next
  <2>2. w \in Windows  BY SceneType DEF Safe, TypeOK
  <2> QED
    BY <2>1, <2>2, CallSafe, AnswerDenySafe, AllowOnceSafe, AllowAlwaysSafe, OpenTempSafe,
       WriteTempSafe, ReplaceSafe, SaveFailsSafe, ExecuteSafe, SetModeSafe, ResumeSessionSafe,
       CrashSafe DEF WindowStep
<1> QED BY <1>1, <1>2

LEMMA SafeAlways == Spec => []Safe
BY InitSafe, StepSafe, PTL DEF Spec

(* Types.                                                                  *)
THEOREM Types == Spec => []TypeOK
BY SafeAlways, PTL DEF Safe

(* Every rule that was not in the file from the start is one the user      *)
(* agreed to for a request the policy leaves to the user, whatever the     *)
(* windows' saves do to each other and wherever they stop.                 *)
THEOREM RulesComeFromTheUser == Spec => []RulesAreTheUsers
BY SafeAlways, PTL DEF Safe

(* What the policy refuses or a deny rule covers does not run.             *)
THEOREM RefusedStaysRefused == Spec => []RefusalsHold
BY SafeAlways, PTL DEF Safe
-----------------------------------------------------------------------------
(* The sandbox of a window is open only while its session is in bypass     *)
(* mode: every step that sets the one sets the other.                      *)
SandboxFollows == \A w \in Windows : open[w] => mode[w] = "bypass"

LEMMA SandboxFollowsStep == Safe /\ SandboxFollows /\ [Next]_vars => SandboxFollows'
<1> SUFFICES ASSUME Safe, SandboxFollows, [Next]_vars PROVE SandboxFollows'  OBVIOUS
<1>1. CASE UNCHANGED window  BY <1>1 DEF SandboxFollows, window
<1>2. ASSUME NEW w \in scene.windows, NewSession(w) PROVE SandboxFollows'
  <2>1. w \in Windows  BY SceneType DEF Safe, TypeOK
  <2> QED BY <1>2, <2>1 DEF SandboxFollows, NewSession, Safe, TypeOK
<1>3. ASSUME NEW w \in scene.windows, SetMode(w) PROVE SandboxFollows'
  <2>1. w \in Windows  BY SceneType DEF Safe, TypeOK
  <2> QED BY <1>3, <2>1 DEF SandboxFollows, SetMode, Safe, TypeOK
<1>4. CASE UNCHANGED <<mode, open>>  BY <1>4 DEF SandboxFollows
<1>5. ASSUME NEW w \in scene.windows, WindowStep(w)
      PROVE  UNCHANGED window \/ UNCHANGED <<mode, open>> \/ NewSession(w) \/ SetMode(w)
  BY <1>5 DEF WindowStep, Call, AnswerDeny, AllowOnce, AllowAlways, OpenTemp, WriteTemp, Replace,
              SaveFails, Execute, ResumeSession, Crash
<1>6. CASE UNCHANGED vars  BY <1>1, <1>6 DEF vars, window
<1> QED BY <1>1, <1>2, <1>3, <1>4, <1>5, <1>6 DEF Next

(* Only the run of a request touches a path, and what it touches outside   *)
(* the project the sandbox let through.                                    *)
TouchesInBypass == touched' # touched => \E w \in Windows : pc[w] = "run" /\ mode[w] = "bypass"

LEMMA TouchesInBypassStep == Safe /\ SandboxFollows /\ [Next]_vars => TouchesInBypass
<1> SUFFICES ASSUME Safe, SandboxFollows, [Next]_vars, touched' # touched
             PROVE  \E w \in Windows : pc[w] = "run" /\ mode[w] = "bypass"
  BY DEF TouchesInBypass
<1>1. PICK w \in scene.windows : WindowStep(w)  BY DEF Next, vars
<1>2. Execute(w)
  BY <1>1 DEF WindowStep, Call, AnswerDeny, AllowOnce, AllowAlways, OpenTemp, WriteTemp, Replace,
              SaveFails, SetMode, ResumeSession, Crash, history
<1>3. pc[w] = "run" /\ open[w]  BY <1>2 DEF Execute
<1>4. w \in Windows  BY SceneType DEF Safe, TypeOK
<1> QED BY <1>3, <1>4 DEF SandboxFollows

(* No path outside the project is touched while no window is in bypass     *)
(* mode, whatever the sessions of a window did to the sandbox they share.  *)
THEOREM SandboxHolds == Spec => OutsideNeedsBypass
<1>1. Init => SandboxFollows  BY DEF Init, SandboxFollows
<1>2. Spec => []SandboxFollows
  BY <1>1, SandboxFollowsStep, SafeAlways, PTL DEF Spec
<1>3. Spec => [][TouchesInBypass]_vars
  BY <1>2, TouchesInBypassStep, SafeAlways, PTL DEF Spec
<1> QED BY <1>3 DEF OutsideNeedsBypass, TouchesInBypass
-----------------------------------------------------------------------------
(* What a single window knows of the disk: the file holds nothing its list *)
(* lacks; the temporary file it has open is the one it truncated; and what *)
(* it is about to rename is its whole list.                                *)
KnowsTheDisk(w) ==
  /\ file.rules \subseteq grants[w]
  /\ pc[w] = "write" => inode[w] = "temp" /\ temp = Torn
  /\ pc[w] = "replace" => temp = Whole(grants[w])
OneKnowsTheDisk == OneWindow => \A w \in scene.windows : KnowsTheDisk(w)

LEMMA KeepsTheRules ==
  ASSUME Safe, NEW w \in Windows, KnowsTheDisk(w), WindowStep(w)
  PROVE  file.rules \subseteq file'.rules /\ KnowsTheDisk(w)'
<1> USE DEF Safe, TypeOK
<1>1. CASE Call(w)
  <2>1. UNCHANGED <<file, temp, inode, grants>> /\ pc'[w] \notin {"write", "replace"}
    BY <1>1 DEF Call, Run, Goto, window, disk
  <2> QED BY <2>1 DEF KnowsTheDisk
<1>2. CASE AnswerDeny(w) \/ AllowOnce(w)
  <2>1. UNCHANGED <<file, temp, inode, grants>> /\ pc'[w] \notin {"write", "replace"}
    BY <1>2 DEF AnswerDeny, AllowOnce, Guarded, Run, Settle, Goto, window, disk
  <2> QED BY <2>1 DEF KnowsTheDisk
<1>3. CASE AllowAlways(w)
  <2>1. UNCHANGED <<file, temp, inode>> /\ pc'[w] \notin {"write", "replace"}
    BY <1>3 DEF AllowAlways, Guarded, Run, Settle, Goto, disk
  <2>2. grants[w] \subseteq grants'[w]  BY <1>3 DEF AllowAlways
  <2> QED BY <2>1, <2>2 DEF KnowsTheDisk
<1>4. CASE OpenTemp(w)
  <2>1. UNCHANGED <<file, grants>> /\ temp' = Torn /\ inode'[w] = "temp" /\ pc'[w] = "write"
    BY <1>4 DEF OpenTemp, Goto, window
  <2> QED BY <2>1 DEF KnowsTheDisk
<1>5. CASE WriteTemp(w)
  <2>1. UNCHANGED <<file, grants>> /\ temp' \in Landed(temp, grants[w]) /\ pc'[w] = "replace"
    BY <1>5 DEF WriteTemp, KnowsTheDisk, Goto, window
  <2>2. temp = Torn  BY <1>5 DEF WriteTemp, KnowsTheDisk
  <2>3. temp' = Whole(grants[w])  BY <2>1, <2>2 DEF Landed, Torn
  <2> QED BY <2>1, <2>3 DEF KnowsTheDisk
<1>6. CASE Replace(w)
  <2>1. file' = temp /\ temp = Whole(grants[w]) /\ UNCHANGED grants /\ pc'[w] = "run"
    BY <1>6 DEF Replace, KnowsTheDisk, Goto, window
  <2>2. file'.rules = grants[w]  BY <2>1 DEF Whole
  <2> QED BY <2>1, <2>2 DEF KnowsTheDisk
<1>7. CASE SaveFails(w)
  <2>1. UNCHANGED <<file, grants>> /\ pc'[w] = "asked"
    BY <1>7 DEF SaveFails, Goto, window
  <2> QED BY <2>1 DEF KnowsTheDisk
<1>8. CASE Execute(w)
  <2>1. UNCHANGED <<file, grants>> /\ pc'[w] = "idle"
    BY <1>8 DEF Execute, Settle, Goto, window, disk
  <2> QED BY <2>1 DEF KnowsTheDisk
<1>9. CASE SetMode(w)
  <2>1. UNCHANGED <<file, temp, inode, grants, pc>>  BY <1>9 DEF SetMode, turn, disk
  <2> QED BY <2>1 DEF KnowsTheDisk
<1>10. CASE ResumeSession(w) \/ Crash(w)
  <2>1. UNCHANGED file /\ grants'[w] = file.rules /\ pc'[w] \notin {"write", "replace"}
    BY <1>10 DEF ResumeSession, Crash, NewSession, Settle, Goto, disk
  <2> QED BY <2>1 DEF KnowsTheDisk
<1> QED BY <1>1, <1>2, <1>3, <1>4, <1>5, <1>6, <1>7, <1>8, <1>9, <1>10 DEF WindowStep

KeepsRules == OneWindow => file.rules \subseteq file'.rules

LEMMA KeepsRulesStep == Safe /\ OneKnowsTheDisk /\ [Next]_vars => OneKnowsTheDisk' /\ KeepsRules
<1> SUFFICES ASSUME Safe, OneKnowsTheDisk, [Next]_vars PROVE OneKnowsTheDisk' /\ KeepsRules
  OBVIOUS
<1>1. CASE UNCHANGED vars
  BY <1>1 DEF vars, OneKnowsTheDisk, OneWindow, KnowsTheDisk, KeepsRules
<1>2. CASE Next
  <2>1. PICK w \in scene.windows : WindowStep(w)  BY <1>2 DEF Next
  <2>2. w \in Windows  BY SceneType DEF Safe, TypeOK
  <2>3. scene' = scene
    BY <2>1 DEF WindowStep, Call, AnswerDeny, AllowOnce, AllowAlways, OpenTemp, WriteTemp, Replace,
                SaveFails, Execute, SetMode, ResumeSession, Crash, counts
  <2>4. ASSUME OneWindow
        PROVE  file.rules \subseteq file'.rules /\ \A v \in scene'.windows : KnowsTheDisk(v)'
    <3>1. KnowsTheDisk(w)  BY <2>4 DEF OneKnowsTheDisk
    <3>2. file.rules \subseteq file'.rules /\ KnowsTheDisk(w)'
      BY <2>1, <2>2, <3>1, KeepsTheRules
    <3>3. \A v \in scene'.windows : v = w  BY <2>3, <2>4 DEF OneWindow
    <3> QED BY <3>2, <3>3
  <2>5. OneWindow' => OneWindow  BY <2>3 DEF OneWindow
  <2> QED BY <2>4, <2>5 DEF OneKnowsTheDisk, KeepsRules
<1> QED BY <1>1, <1>2

(* A single window loses no rule from the file, whatever its crashes and   *)
(* failed saves leave behind.                                              *)
THEOREM RulesAreKept == Spec => NothingIsForgotten
<1>1. Init => OneKnowsTheDisk
  BY ScenesAssumption DEF Init, OneKnowsTheDisk, KnowsTheDisk
<1>2. Spec => []OneKnowsTheDisk
  BY <1>1, KeepsRulesStep, SafeAlways, PTL DEF Spec
<1>3. Spec => [][KeepsRules]_vars
  BY <1>2, KeepsRulesStep, SafeAlways, PTL DEF Spec
<1> QED BY <1>3 DEF NothingIsForgotten, KeepsRules

-----------------------------------------------------------------------------
(* The repair workflow.                                                    *)

(* Until an attempt is selected the user's files are as the user left      *)
(* them, and an attempt is selected only with no failing test.             *)
Untouched == place \notin {"apply", "done"} =>
  left = {} /\ status = None /\ \A f \in Files \ {Record} : project[f] = mine[f]
Selected  == place = "apply" => attempt > 0 /\ Failing(work) = {} /\ status # "failed"
Numbered  == place \in {"agent", "focused", "full"} => attempt > 0

TreeType == project \in Trees /\ mine \in Trees /\ head \in Trees /\ base \in Trees /\ work \in Trees
SetType ==
  /\ editable \subseteq Source /\ left \subseteq editable
  /\ baseline \subseteq Tests /\ report \subseteq Tests /\ introduced \subseteq Tests
CountType ==
  /\ attempt \in 0..2 /\ edits \in Nat
  /\ status \in {None, "passed", "failed", "error"} /\ place \in Places
  /\ gitBacked \in BOOLEAN /\ failureLog \subseteq SUBSET Tests

FixInv ==
  /\ TreeType /\ SetType /\ CountType
  /\ Untouched /\ Selected /\ Numbered
  /\ ChangesWereTested /\ ScopeIsKept

(* What git and a snapshot take of a tree is a tree.                       *)
LEMMA TreesAreKept ==
  ASSUME NEW t \in Trees PROVE Committed(t) \in Trees /\ Snapshot(t) \in Trees
<1>1. \A u \in Trees : Committed(u) \in Trees  BY DEF Committed, Trees
<1>2. [t EXCEPT ![Record] = None] \in Trees    BY DEF Trees
<1> QED  BY <1>1, <1>2 DEF Snapshot

(* Record aside, writing the session log changes nothing.                  *)
LEMMA RecordOnly ==
  ASSUME TreeType
  PROVE  Recorded \in Trees /\ \A f \in Files \ {Record} : Recorded[f] = project[f]
<1>1. (CHOOSE c \in Contents : TRUE) \in Contents  BY FixAssumption
<1> QED  BY <1>1 DEF Recorded, TreeType, Trees

(* min(2, max(1, max_attempts)).                                           *)
LEMMA AttemptsBound == Attempts \in 1..2
BY FixAssumption DEF Attempts

(* A failed attempt leads to the next or ends the workflow.                *)
LEMMA JudgeKeeps ==
  ASSUME SetType, CountType, attempt > 0, NEW F \in SUBSET Tests, Judge(F)
  PROVE  /\ report' \subseteq Tests /\ introduced' \subseteq Tests
         /\ attempt' \in 1..2
         /\ \/ place' = "create" /\ status' = status
            \/ place' = "done" /\ status' = "failed"
<1>1. attempt < Attempts => attempt + 1 \in 1..2  BY AttemptsBound DEF CountType
<1>2. report' \subseteq Tests /\ introduced' \subseteq Tests  BY DEF Judge, Introduced
<1>3. CASE attempt < Attempts /\ attempt' = attempt + 1 /\ place' = "create" /\ UNCHANGED status
  BY <1>1, <1>2, <1>3 DEF CountType
<1>4. CASE attempt >= Attempts /\ Close("failed") /\ UNCHANGED attempt
  <2>1. attempt' \in 1..2  BY <1>4 DEF CountType
  <2>2. place' = "done" /\ status' = "failed"  BY <1>4 DEF Close
  <2> QED  BY <1>2, <2>1, <2>2
<1> QED  BY <1>3, <1>4 DEF Judge

(* The initial states satisfy the invariant.                              *)
LEMMA FixInvAtFirst == FixInit => FixInv
<1> SUFFICES ASSUME FixInit PROVE FixInv  OBVIOUS
<1>1. TreeType  BY FixAssumption, TreesAreKept DEF FixInit, TreeType
<1> QED
  BY <1>1, FixAssumption DEF FixInit, FixInv, SetType, CountType, Untouched, Selected, Numbered,
     ChangesWereTested, ScopeIsKept, Places

(* Steps that touch neither tree, neither the worktree nor editable_paths. *)
Quiet == UNCHANGED <<project, mine, work, editable, left>>

(* Such a step before the selection keeps the promises.                    *)
LEMMA QuietKeeps ==
  ASSUME FixInv, Quiet, place \notin {"apply", "done"}, place' # "apply",
         place' \in {"agent", "focused", "full"} => attempt' > 0,
         place' # "done" => status' = status
  PROVE  /\ Untouched' /\ Selected' /\ Numbered'
         /\ ChangesWereTested' /\ ScopeIsKept'
BY DEF FixInv, Quiet, Untouched, Selected, Numbered, ChangesWereTested, ScopeIsKept

(* Every step preserves it.                                                *)
THEOREM FixInvKept == FixInv /\ [FixNext]_fixVars => FixInv'
<1> SUFFICES ASSUME FixInv, [FixNext]_fixVars PROVE FixInv'  OBVIOUS
<1> USE DEF FixInv
<1>1. CASE Start \/ \E F \in Logs : StartFrom(F)
  <2>1. UNCHANGED <<project, given, head, base, work, introduced, left, status,
                    mine, edits>>
        /\ place = "start" /\ place' = "head" /\ editable' \subseteq Source
    BY <1>1 DEF Start, StartFrom, mineVars
  <2>2. baseline' \subseteq Tests /\ report' \subseteq Tests /\ attempt' \in 0..2
    BY <1>1, FixAssumption DEF Start, StartFrom, SetType, CountType
  <2>3. left = {} /\ \A f \in Files \ {Record} : project[f] = mine[f]  BY <2>1 DEF Untouched
  <2>4. TreeType' /\ SetType' /\ CountType'
    BY <2>1, <2>2, <2>3 DEF TreeType, SetType, CountType, given, Places
  <2>5. Untouched' /\ Selected' /\ Numbered' /\ ChangesWereTested' /\ ScopeIsKept'
    BY <2>1, <2>3 DEF Untouched, Selected, Numbered, ChangesWereTested, ScopeIsKept
  <2> QED  BY <2>4, <2>5
<1>2. CASE ReadHead
  <2>1. TreeType'  BY <1>2, TreesAreKept DEF ReadHead, TreeType, mineVars
  <2>2. SetType' /\ CountType'  BY <1>2 DEF ReadHead, SetType, CountType, given, mineVars, Places
  <2>3. QED  BY <1>2, <2>1, <2>2, QuietKeeps DEF ReadHead, Quiet, mineVars
<1>3. CASE CheckClean
  <2>1. TreeType' /\ SetType' /\ CountType'
    BY <1>3 DEF CheckClean, Close, mineVars, TreeType, SetType, CountType, given, Places
  <2>2. QED  BY <1>3, <2>1, QuietKeeps DEF CheckClean, Close, Quiet, mineVars
<1>4. CASE Create
  <2>1. TreeType' /\ SetType' /\ CountType'
    BY <1>4 DEF Create, mineVars, TreeType, SetType, CountType, given, Places
  <2>2. attempt' = attempt /\ (place' = "agent" => attempt > 0) /\ place' \in {"baseline", "agent"}
        /\ place = "create" /\ UNCHANGED <<project, mine, editable, left>>
    BY <1>4 DEF Create, mineVars, CountType
  <2>3. QED
    BY <1>4, <2>1, <2>2 DEF Create, Untouched, Selected, Numbered, ChangesWereTested, ScopeIsKept
<1>5. CASE RunBaseline
  <2>1. Failing(work) \subseteq Tests  BY FixAssumption DEF TreeType
  <2>2. TreeType' /\ SetType' /\ CountType'
    BY <1>5, <2>1 DEF RunBaseline, Close, mineVars, TreeType, SetType, CountType, given, Places
  <2>3. QED  BY <1>5, <2>2, QuietKeeps DEF RunBaseline, Close, Quiet, mineVars
<1>6. CASE RunAgent
  <2>1. work' \in Trees  BY <1>6 DEF RunAgent, Reachable
  <2>2. TreeType' /\ SetType' /\ CountType'
    BY <1>6, <2>1, RecordOnly DEF RunAgent, mineVars, TreeType, SetType, CountType, given, Places
  <2>3. \A f \in Files \ {Record} : project'[f] = mine'[f]
    BY <1>6, RecordOnly DEF RunAgent, mineVars, Untouched
  <2>4. place' = "focused" /\ attempt' > 0 /\ left' = {} /\ status' = None
    BY <1>6 DEF RunAgent, Numbered, Untouched
  <2>5. QED
    BY <2>2, <2>3, <2>4 DEF Untouched, Selected, Numbered, ChangesWereTested, ScopeIsKept
<1>7. CASE RunFocused \/ RunFull
  <2>1. attempt > 0 /\ place \in {"focused", "full"}  BY <1>7 DEF RunFocused, RunFull, Numbered
  <2>2. Failing(work) \subseteq Tests  BY FixAssumption DEF TreeType
  <2>3. UNCHANGED <<project, given, head, editable, base, work, baseline, mine, edits>>
    BY <1>7 DEF RunFocused, RunFull, mineVars
  <2>4. CASE \E F \in SUBSET Tests : Judge(F) /\ UNCHANGED left
    <3>1. PICK F \in SUBSET Tests : Judge(F) /\ UNCHANGED left  BY <2>4
    <3>2. /\ report' \subseteq Tests /\ introduced' \subseteq Tests
          /\ attempt' \in 1..2
          /\ \/ place' = "create" /\ status' = status
             \/ place' = "done" /\ status' = "failed"
      BY <2>1, <3>1, JudgeKeeps
    <3>3. TreeType' /\ SetType' /\ CountType'
      BY <2>3, <3>1, <3>2 DEF TreeType, SetType, CountType, given, Places
    <3>4. QED  BY <2>1, <2>3, <3>1, <3>2, <3>3, QuietKeeps DEF Quiet
  <2>5. CASE place' = "full" /\ UNCHANGED <<report, introduced, attempt, status, left>>
    <3>1. TreeType' /\ SetType' /\ CountType'
      BY <2>3, <2>5 DEF TreeType, SetType, CountType, given, Places
    <3>2. QED  BY <2>1, <2>3, <2>5, <3>1, QuietKeeps DEF Quiet
  <2>6. CASE /\ Failing(work) = {} /\ place' = "apply" /\ left' = editable
             /\ report' = {} /\ introduced' = {} /\ UNCHANGED <<attempt, status>>
    <3>1. TreeType' /\ SetType' /\ CountType'
      BY <2>3, <2>6 DEF TreeType, SetType, CountType, given, Places
    <3>2. \A f \in Files \ {Record} : project'[f] = mine'[f]  BY <2>1, <2>3 DEF Untouched
    <3>3. status # "failed"  BY <2>1 DEF Untouched, None
    <3>4. QED
      BY <2>1, <2>3, <2>6, <3>1, <3>2, <3>3
      DEF Untouched, Selected, Numbered, ChangesWereTested, ScopeIsKept
  <2>7. QED
    <3>1. CASE RunFull  BY <1>7, <3>1, <2>2, <2>4, <2>6 DEF RunFull
    <3>2. CASE RunFocused
      <4>1. PICK t \in report \cup {None} :
              LET F == IF t = None THEN Failing(work) ELSE Failing(work) \cap {t} IN
              \/ F = {} /\ place' = "full" /\ UNCHANGED <<report, introduced, attempt, status>>
              \/ F # {} /\ Judge(F)
        BY <3>2 DEF RunFocused
      <4>2. UNCHANGED left  BY <3>2 DEF RunFocused
      <4>3. QED  BY <2>2, <2>4, <2>5, <4>1, <4>2
    <3>3. QED  BY <1>7, <3>1, <3>2
<1>8. CASE ApplySelectedFiles
  <2>1. PICK f \in left : Apply(f)  BY <1>8 DEF ApplySelectedFiles
  <2>2. f \in editable /\ f \in Files /\ f # Record  BY FixAssumption DEF SetType
  <2>3. project' \in Trees /\ \A g \in Files \ {f} : project'[g] = project[g]
    BY <2>1, <2>2 DEF Apply, Copy, TreeType, Trees
  <2>4. UNCHANGED <<given, head, editable, base, work, baseline, report, introduced, attempt,
                    status, place, mine, edits>> /\ left' \subseteq left /\ place = "apply"
    BY <2>1 DEF Apply, mineVars
  <2>5. TreeType' /\ SetType' /\ CountType'  BY <2>3, <2>4 DEF TreeType, SetType, CountType, given
  <2>6. ScopeIsKept'  BY <2>2, <2>3, <2>4 DEF ScopeIsKept
  <2>7. QED
    BY <2>4, <2>5, <2>6
    DEF Untouched, Selected, Numbered, ChangesWereTested
<1>9. CASE Finish
  <2>1. TreeType' /\ SetType' /\ CountType'
    BY <1>9 DEF Finish, Close, mineVars, TreeType, SetType, CountType, given, Places
  <2>2. QED
    BY <1>9, <2>1 DEF Finish, Close, mineVars, Untouched, Selected, Numbered, ChangesWereTested,
       ScopeIsKept
<1>10. CASE Raise
  <2>1. project' \in Trees /\ \A f \in Files \ {Record} : project'[f] = project[f]
    BY <1>10, RecordOnly DEF Raise, TreeType
  <2>2. UNCHANGED <<given, head, editable, base, work, baseline, report, introduced, attempt, left,
                    mine, edits>>
        /\ status' = "error" /\ place' = "done" /\ place # "done"
    BY <1>10 DEF Raise, Close, mineVars
  <2>3. TreeType' /\ SetType' /\ CountType'
    BY <2>1, <2>2 DEF TreeType, SetType, CountType, given, Places
  <2>4. ChangesWereTested'
    BY <2>1, <2>2 DEF ChangesWereTested
  <2>5. QED
    BY <2>1, <2>2, <2>3, <2>4 DEF Untouched, Selected, Numbered, ScopeIsKept
<1>11. CASE User
  <2>1. CASE Commit
    <3>1. TreeType'  BY <2>1, TreesAreKept DEF Commit, run, TreeType
    <3>2. SetType' /\ CountType'  BY <2>1 DEF Commit, run, SetType, CountType, given
    <3>3. QED
      BY <2>1, <3>1, <3>2 DEF Commit, run, Untouched, Selected, Numbered, ChangesWereTested,
         ScopeIsKept
  <2>2. CASE \E f \in Files, c \in Contents \cup {None} : Edit(f, c)
    <3>1. PICK f \in Files, c \in Contents \cup {None} : Edit(f, c)  BY <2>2
    <3>2. project' \in Trees /\ mine' \in Trees /\ UNCHANGED <<given, head, run>>
      BY <3>1 DEF Edit, TreeType, Trees
    <3>3. \A g \in Files : project[g] = mine[g] => project'[g] = mine'[g]
      BY <3>1 DEF Edit, TreeType, Trees
    <3>4. TreeType'  BY <3>2 DEF run, TreeType
    <3>5. SetType' /\ CountType'  BY <3>1, <3>2 DEF Edit, run, SetType, CountType, given
    <3>6. Untouched' /\ ScopeIsKept'  BY <3>2, <3>3 DEF run, Untouched, ScopeIsKept
    <3>7. ChangesWereTested'  BY <3>2, <3>3 DEF run, ChangesWereTested
    <3>8. QED
      BY <3>2, <3>4, <3>5, <3>6, <3>7 DEF run, Selected, Numbered
  <2>3. QED  BY <1>11, <2>1, <2>2 DEF User
<1>12. CASE UNCHANGED fixVars
  BY <1>12 DEF fixVars, given, run, mineVars, TreeType, SetType, CountType, Untouched, Selected, Numbered,
     ChangesWereTested, ScopeIsKept
<1>13. QED
  BY <1>1, <1>2, <1>3, <1>4, <1>5, <1>6, <1>7, <1>8, <1>9, <1>10, <1>11, <1>12 DEF FixNext, Step, Done

(* The inductive invariant holds in every reachable state.                 *)
THEOREM FixInvariance == FixSpec => []FixInv
<1> QED  BY FixInvAtFirst, FixInvKept, PTL DEF FixSpec

(* Every variable keeps its type, for any files, tests, agent and user.    *)
THEOREM FixTypesHold == FixSpec => []FixTypes
<1>1. FixInv => FixTypes  BY DEF FixInv, TreeType, SetType, CountType, FixTypes
<1> QED  BY <1>1, FixInvariance, PTL

(* The user's files change only after a full test run has passed: nothing  *)
(* an unsuccessful repair does reaches them.                               *)
THEOREM OnlyTestedChanges == FixSpec => []ChangesWereTested
<1>1. FixInv => ChangesWereTested  BY DEF FixInv
<1> QED  BY <1>1, FixInvariance, PTL

(* Nothing outside editable_paths is ever changed.                         *)
THEOREM ScopeHolds == FixSpec => []ScopeIsKept
<1>1. FixInv => ScopeIsKept  BY DEF FixInv
<1> QED  BY <1>1, FixInvariance, PTL

-----------------------------------------------------------------------------
(* While the user keeps away.  Two trees that git and the tests cannot     *)
(* tell apart.                                                             *)
Same(t, u) == \A f \in Files \ (Ignored \cup {Record}) : t[f] = u[f]

LEMMA SameTests ==
  ASSUME NEW t \in Trees, NEW u \in Trees, Same(t, u)
  PROVE  Failing(t) = Failing(u)
<1>1. Snapshot(t) = Snapshot(u)  BY DEF Snapshot, Committed, Same, Trees
<1> QED  BY <1>1, TestsAssumption

LEMMA SnapshotIsSame == ASSUME NEW t \in Trees PROVE Same(Snapshot(t), t) /\ Same(Committed(t), t)
<1>1. \A f \in Files \ {Record} : [t EXCEPT ![Record] = None][f] = t[f]  BY DEF Trees
<1> QED  BY <1>1 DEF Same, Snapshot, Committed

(* Nobody but the workflow has touched anything: every worktree starts     *)
(* from the tree the command was started in, and so did the baseline.      *)
StartsAlike ==
  /\ head = Committed(Original) /\ mine = Original /\ Same(base, Original)
  /\ place \in {"baseline", "agent"} => work = base
  /\ place = "baseline" => attempt = 0
  /\ attempt > 0 /\ failureLog = {} => baseline = Failing(Original)

(* What has been copied is what was tested; and a tree reported as passing *)
(* is the one the baseline run saw or the one the full run saw.            *)
CopiesWhatPassed ==
  /\ place = "apply" => \A f \in editable \ left : project[f] = work[f]
  /\ status = "passed" =>
       /\ place = "done" /\ Failing(work) = {}
       /\ IF attempt = 0 THEN Same(work, Original) /\ Same(project, Original)
          ELSE \A f \in editable : project[f] = work[f]

Alone == UserAway => StartsAlike /\ CopiesWhatPassed

LEMMA InitAlone == FixInit => Alone
BY FixAssumption DEF FixInit, Alone, StartsAlike, CopiesWhatPassed, Same, None

(* Until an attempt is selected the tree is the one of the start.          *)
LEMMA TreeOfTheStart ==
  ASSUME FixInv, StartsAlike, place \notin {"apply", "done"}
  PROVE  Same(project, Original) /\ status = None /\ left = {}
BY DEF FixInv, Untouched, StartsAlike, Same

(* Steps that neither start a worktree nor end the workflow well.          *)
LEMMA AloneStays ==
  ASSUME Alone, UserAway' => UserAway, UNCHANGED <<head, mine, base, failureLog>>,
         place' \in {"baseline", "agent"} => work' = base, place' = "baseline" => attempt' = 0,
         attempt' > 0 => (attempt > 0 /\ baseline' = baseline) \/ failureLog # {},
         place' # "apply" \/ left' = editable', status' # "passed"
  PROVE  Alone'
BY DEF Alone, UserAway, StartsAlike, CopiesWhatPassed

LEMMA AloneKept == FixInv /\ FixInv' /\ Alone /\ [FixNext]_fixVars => Alone'
<1> SUFFICES ASSUME FixInv, FixInv', Alone, [FixNext]_fixVars PROVE Alone'  OBVIOUS
<1> USE DEF FixInv
<1>1. CASE Start \/ \E F \in Logs : StartFrom(F)
  <2>1. /\ UNCHANGED <<head, mine, base, failureLog, edits, status>> /\ place = "start" /\ place' = "head"
        /\ attempt' > 0 => (attempt > 0 /\ baseline' = baseline) \/ failureLog # {}
    BY <1>1 DEF Start, StartFrom, given, mineVars
  <2>2. status' # "passed"  BY <2>1 DEF Untouched, None
  <2> QED  BY <2>1, <2>2, AloneStays DEF UserAway
<1>2. CASE ReadHead
  <2>1. /\ UNCHANGED <<head, mine, failureLog, edits, status, attempt, baseline>>
        /\ base' = (IF gitBacked THEN head ELSE Snapshot(project))
        /\ place = "head" /\ place' \in {"clean", "create"}
    BY <1>2 DEF ReadHead, given, mineVars
  <2>2. status' # "passed"  BY <2>1 DEF Untouched, None
  <2>3. ASSUME UserAway PROVE Same(base', Original)
    <3>1. Same(project, Original) /\ head = Committed(Original)
      BY <2>1, <2>3, TreeOfTheStart DEF Alone, StartsAlike
    <3>2. Same(Snapshot(project), Original)
      BY <3>1, SnapshotIsSame DEF Same, TreeType
    <3>3. Same(head, Original)  BY <3>1, SnapshotIsSame, FixAssumption
    <3> QED  BY <2>1, <3>2, <3>3
  <2> QED  BY <2>1, <2>2, <2>3 DEF Alone, UserAway, StartsAlike, CopiesWhatPassed
<1>3. CASE CheckClean
  <2>1. /\ UNCHANGED <<head, mine, base, failureLog, edits, attempt, baseline>>
        /\ place = "clean" /\ place' \in {"create", "done"} /\ status' \in {status, "error"}
    BY <1>3 DEF CheckClean, Close, given, mineVars
  <2>2. status' # "passed"  BY <2>1 DEF Untouched, None
  <2> QED  BY <2>1, <2>2, AloneStays DEF UserAway
<1>4. CASE Create
  <2>1. /\ UNCHANGED <<head, mine, base, failureLog, edits, attempt, baseline, status>>
        /\ place = "create" /\ place' \in {"baseline", "agent"} /\ work' = base
        /\ place' = "baseline" => attempt' = 0
    BY <1>4 DEF Create, given, mineVars
  <2>2. status' # "passed"  BY <2>1 DEF Untouched, None
  <2> QED  BY <2>1, <2>2, AloneStays DEF UserAway
<1>5. CASE RunBaseline
  <2>1. /\ UNCHANGED <<project, head, mine, base, work, failureLog, edits>>
        /\ place = "baseline" /\ place' \in {"head", "done"} /\ baseline' = Failing(work)
        /\ \/ Failing(work) = {} /\ status' = "passed" /\ place' = "done" /\ attempt' = attempt
           \/ status' = status /\ attempt' = 1
    BY <1>5 DEF RunBaseline, Close, given, mineVars
  <2>2. status = None  BY <2>1 DEF Untouched
  <2>3. ASSUME UserAway PROVE StartsAlike' /\ CopiesWhatPassed'
    <3>1. Same(project, Original) /\ Same(work, Original)
      BY <2>1, <2>3, TreeOfTheStart DEF Alone, StartsAlike
    <3>2. Failing(work) = Failing(Original)  BY <3>1, SameTests, FixAssumption DEF TreeType
    <3>3. StartsAlike'  BY <2>1, <2>3, <3>2 DEF Alone, StartsAlike
    <3>4. status' = "passed" => attempt' = 0 /\ place' = "done"
      BY <2>1, <2>2, <2>3 DEF None, Alone, StartsAlike
    <3> QED  BY <2>1, <2>2, <3>1, <3>3, <3>4 DEF CopiesWhatPassed, None
  <2> QED  BY <2>1, <2>3 DEF Alone, UserAway
<1>6. CASE RunAgent
  <2>1. /\ UNCHANGED <<head, mine, base, failureLog, edits, attempt, baseline, status>>
        /\ place = "agent" /\ place' = "focused"
    BY <1>6 DEF RunAgent, given, mineVars
  <2>2. status' # "passed"  BY <2>1 DEF Untouched, None
  <2> QED  BY <2>1, <2>2, AloneStays DEF UserAway
<1>7. CASE RunFocused \/ RunFull
  <2>1. /\ UNCHANGED <<head, mine, base, failureLog, edits, baseline, editable>>
        /\ place \in {"focused", "full"}
    BY <1>7 DEF RunFocused, RunFull, given, mineVars
  <2>2. attempt > 0 /\ status = None  BY <2>1 DEF Numbered, Untouched
  <2>3. CASE \E F \in SUBSET Tests : Judge(F)
    <3>1. PICK F \in SUBSET Tests : Judge(F)  BY <2>3
    <3>2. place' \in {"create", "done"} /\ status' \in {status, "failed"}
      BY <3>1 DEF Judge, Close
    <3> QED  BY <2>1, <2>2, <3>2, AloneStays DEF UserAway, None
  <2>4. CASE place' = "full" /\ status' = status
    BY <2>1, <2>2, <2>4, AloneStays DEF UserAway, None
  <2>5. CASE place' = "apply" /\ left' = editable /\ status' = status
    BY <2>1, <2>2, <2>5, AloneStays DEF UserAway, None
  <2>6. Failing(work) \subseteq Tests  BY FixAssumption DEF TreeType
  <2>7. CASE RunFocused
    <3>1. PICK t \in report \cup {None} :
            LET F == IF t = None THEN Failing(work) ELSE Failing(work) \cap {t} IN
            \/ F = {} /\ place' = "full" /\ UNCHANGED <<report, introduced, attempt, status>>
            \/ F # {} /\ Judge(F)
      BY <2>7 DEF RunFocused
    <3> QED  BY <2>3, <2>4, <2>6, <3>1
  <2>8. CASE RunFull  BY <2>3, <2>5, <2>6, <2>8 DEF RunFull
  <2> QED  BY <1>7, <2>7, <2>8
<1>8. CASE ApplySelectedFiles
  <2>1. PICK f \in left : Apply(f)  BY <1>8 DEF ApplySelectedFiles
  <2>2. f \in Files /\ left \subseteq editable  BY <2>1, FixAssumption DEF SetType
  <2>3. /\ UNCHANGED <<head, editable, base, work, baseline, attempt, status, place, mine, edits, failureLog>>
        /\ left' = left \ {f} /\ place = "apply"
    BY <2>1 DEF Apply, given, mineVars
  <2>4. \A g \in editable \ left' : g = f \/ g \in editable \ left  BY <2>3
  <2>5. project'[f] = work[f] /\ \A g \in Files \ {f} : project'[g] = project[g]
    BY <2>1, <2>2 DEF Apply, Copy, TreeType, Trees
  <2>6. editable \subseteq Files  BY FixAssumption DEF SetType
  <2>7. ASSUME UserAway PROVE StartsAlike' /\ CopiesWhatPassed'
    <3>1. StartsAlike'  BY <2>3, <2>7 DEF Alone, StartsAlike
    <3>2. \A g \in editable \ left' : project'[g] = work[g]
      BY <2>3, <2>4, <2>5, <2>6, <2>7 DEF Alone, CopiesWhatPassed
    <3>3. status # "passed"  BY <2>3, <2>7 DEF Alone, CopiesWhatPassed
    <3> QED  BY <2>3, <3>1, <3>2, <3>3 DEF CopiesWhatPassed
  <2> QED  BY <2>3, <2>7 DEF Alone, UserAway
<1>9. CASE Finish
  <2>1. /\ UNCHANGED <<project, head, mine, base, editable, work, failureLog, edits, attempt, baseline>>
        /\ place = "apply" /\ left = {} /\ place' = "done"
    BY <1>9 DEF Finish, Close, given, mineVars
  <2>2. attempt > 0 /\ Failing(work) = {} /\ attempt # 0  BY <2>1 DEF Selected, CountType
  <2> QED  BY <2>1, <2>2 DEF Alone, UserAway, StartsAlike, CopiesWhatPassed
<1>10. CASE Raise
  <2>1. /\ UNCHANGED <<head, mine, base, failureLog, edits, attempt, baseline>>
        /\ place' = "done" /\ status' = "error"
    BY <1>10 DEF Raise, Close, given, mineVars
  <2> QED  BY <2>1, AloneStays DEF UserAway
<1>11. CASE User
  <2>1. edits' = edits + 1  BY <1>11 DEF User, Commit, Edit
  <2> QED  BY <2>1 DEF Alone, UserAway, CountType
<1>12. CASE UNCHANGED fixVars
  BY <1>12 DEF fixVars, given, run, mineVars, Alone, UserAway, StartsAlike, CopiesWhatPassed
<1>13. QED
  BY <1>1, <1>2, <1>3, <1>4, <1>5, <1>6, <1>7, <1>8, <1>9, <1>10, <1>11, <1>12 DEF FixNext, Step, Done

LEMMA AloneAlways == FixSpec => []Alone
BY InitAlone, AloneKept, FixInvariance, PTL DEF FixSpec

(* What is reported as repaired passes all tests in the user's tree: the   *)
(* files that were copied are those of the tested worktree, and the others *)
(* are those both trees started from.                                      *)
THEOREM RepairedMeansPassing == FixSpec => []PassedMeansPassing
<1>1. ASSUME FixInv, Alone PROVE PassedMeansPassing
  <2> SUFFICES ASSUME status = "passed", UserAway, attempt > 0 => WithinScope
               PROVE  Failing(project) = {}
    BY DEF PassedMeansPassing
  <2> USE DEF FixInv
  <2>1. StartsAlike /\ CopiesWhatPassed /\ Failing(work) = {}  BY <1>1 DEF Alone, CopiesWhatPassed
  <2>2. project \in Trees /\ work \in Trees  BY <1>1 DEF TreeType
  <2>3. CASE attempt = 0
    <3>1. Same(work, project)  BY <2>1, <2>3 DEF CopiesWhatPassed, Same
    <3> QED  BY <2>1, <2>2, <3>1, SameTests
  <2>4. CASE attempt > 0
    <3>1. \A f \in editable : project[f] = work[f]  BY <2>1, <2>4 DEF CopiesWhatPassed
    <3>2. \A f \in Files \ (Ignored \cup {Record} \cup editable) : project[f] = work[f]
      BY <1>1, <2>1, <2>4 DEF ScopeIsKept, StartsAlike, WithinScope, Same
    <3>3. Same(work, project)  BY <3>1, <3>2 DEF Same
    <3> QED  BY <2>1, <2>2, <3>3, SameTests
  <2> QED  BY <1>1, <2>3, <2>4 DEF CountType
<1> QED  BY <1>1, FixInvariance, AloneAlways, PTL

(* Every attempt starts from the failures the baseline run has seen.       *)
THEOREM AttemptsStartFromTheBaseline == FixSpec => []AttemptsMeetTheBaseline
<1>1. ASSUME FixInv, Alone PROVE AttemptsMeetTheBaseline
  <2> SUFFICES ASSUME place = "agent", UserAway, failureLog = {} PROVE Failing(work) = baseline
    BY DEF AttemptsMeetTheBaseline
  <2>1. StartsAlike /\ attempt > 0  BY <1>1 DEF Alone, FixInv, Numbered
  <2>2. Same(work, Original) /\ work \in Trees  BY <1>1, <2>1 DEF StartsAlike, FixInv, TreeType
  <2>3. Failing(work) = Failing(Original)  BY <2>2, SameTests, FixAssumption
  <2> QED  BY <2>1, <2>3 DEF StartsAlike
<1> QED  BY <1>1, FixInvariance, AloneAlways, PTL
=============================================================================
