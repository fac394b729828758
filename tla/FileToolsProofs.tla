-------------------------- MODULE FileToolsProofs --------------------------
(***************************************************************************)
(* FileTools for every set of files, texts, requests and scenes: what a    *)
(* tool changes was checked and read before, a token is good for one       *)
(* change while calls run one after another, and a call with files of its  *)
(* own does all it was asked or nothing.                                   *)
(***************************************************************************)
EXTENDS FileToolsProperties, FiniteSetTheorems, SequenceTheorems, TLAPS, WellFoundedInduction

Text  == Seq(Lines)
OnDisk == Text \cup {NoFile}
Steps == {"read", "issue", "check", "plan", "truncate", "fill", "unlink", "consume", "done", "failed"}
Revision == [path : Paths, hash : OnDisk, known : BOOLEAN]

CallType ==
  [tool : {"read", "edit", "write", "delete", "patch"}, dry : BOOLEAN, ops : Seq(Operation) \ {<<>>},
   token : Seq(Nat), visible : Nat, pc : Steps, k : Nat, text : OnDisk, proved : SUBSET Nat,
   writes : Seq([path : Paths, text : Text]), unlinks : Seq(Paths),
   before : [Paths -> OnDisk], beside : SUBSET Nat]

(* A call is at an operation it has, at a file it has to write, at a file  *)
(* it has to remove.                                                       *)
Placed(c) ==
  /\ c.k \in DOMAIN c.ops
  /\ c.pc \in {"truncate", "fill"} => c.writes # <<>>
  /\ c.pc = "unlink" => c.unlinks # <<>>

TypeOK ==
  /\ scene \in Scenes /\ disk \in [Paths -> OnDisk] /\ moves \in Nat
  /\ revisions \in Seq(Revision) /\ viewed \in Seq(OnDisk) /\ uses \in Seq(Nat)
  /\ Len(viewed) = Len(revisions) /\ Len(uses) = Len(revisions)
  /\ calls \in Seq(CallType)
  /\ \A i \in DOMAIN calls : Placed(calls[i])

-----------------------------------------------------------------------------
(* What a check lets a call do to a file: it is in the scope, and what is  *)
(* in it when the call begins is the text of a token it has proved.        *)
OneByOne == scene.threads = 1
InScope(p) == /\ p \in Project \/ scene.unrestricted
              /\ scene.guard => p \in scene.editable
ProvedText(rs, c, p) == \E t \in c.proved : /\ t \in DOMAIN rs /\ rs[t].path = p
                                            /\ rs[t].hash = c.before[p]
Cleared(rs, c, p) ==
  InScope(p) /\ (scene.guard /\ OneByOne => c.before[p] = NoFile \/ ProvedText(rs, c, p))

Passed(c) == IF c.pc = "check" THEN {k \in DOMAIN c.ops : k < c.k}
             ELSE IF c.pc \in {"read", "issue", "done", "failed"} THEN {} ELSE DOMAIN c.ops

Checked(rs, c) ==
  /\ \A k \in Passed(c) : \A p \in Touched(c.ops[k]) : Cleared(rs, c, p)
  /\ c.pc \in {"read", "issue", "check"} => c.writes = <<>> /\ c.unlinks = <<>>
  /\ ~Ended(c) => /\ \A n \in DOMAIN c.writes : Cleared(rs, c, c.writes[n].path)
                  /\ \A n \in DOMAIN c.unlinks : Cleared(rs, c, c.unlinks[n])

(* While calls run one after another: there is one, the files are as it    *)
(* found them until it writes, the text it has read is the text of the     *)
(* token it gets, and the tokens it has proved are still known.            *)
Single(files, rs, c) ==
  /\ c.pc \in {"check", "plan"} => files = c.before
  /\ c.pc = "issue" => c.text = files[c.ops[c.k].path]
  /\ ~Ended(c) => \A t \in c.proved : t \in DOMAIN rs /\ rs[t].known = TRUE

TokensAreGood ==
  \A t \in Tokens : /\ viewed[t] = revisions[t].hash
                   /\ uses[t] <= 1 /\ (revisions[t].known = TRUE => uses[t] = 0)

Sequential ==
  OneByOne => /\ Len(calls) <= 1 /\ \A i \in DOMAIN calls : Single(disk, revisions, calls[i])
              /\ TokensAreGood

IInv == TypeOK /\ (\A i \in DOMAIN calls : Checked(revisions, calls[i])) /\ Sequential

-----------------------------------------------------------------------------
(* Operations.                                                             *)

LEMMA OperationFacts ==
  ASSUME NEW o \in Operation
  PROVE  /\ o.path \in Paths /\ Touched(o) \subseteq Paths
         /\ o.action = "update" => o.to \in Paths /\ o.old \in Lines \cup {None}
         /\ o.action = "update" /\ o.old # None => o.new \in Lines
         /\ o.action \in {"write", "add"} => o.text \in Texts
         /\ o.action = "edit" => o.new \in Lines
BY DEF Operation, Touched

LEMMA Replaced ==
  ASSUME NEW text \in Text, NEW line, NEW by \in Lines
  PROVE  Replace(text, line, by) \in Text
BY DEF Replace, Text

LEMMA NoFileIsNoText == NoFile \notin Text
BY TextsAssumption DEF NoFile, Text

(* What an operation plans to write or to remove is one of its files, and  *)
(* what it writes is a text.                                               *)
LEMMA Planned ==
  ASSUME disk \in [Paths -> OnDisk], NEW o \in Operation, Possible(o)
  PROVE  /\ Writes(o) \in Seq([path : Paths, text : Text])
         /\ Unlinks(o) \in Seq(Paths)
         /\ \A n \in DOMAIN Writes(o) : Writes(o)[n].path \in Touched(o)
         /\ \A n \in DOMAIN Unlinks(o) : Unlinks(o)[n] \in Touched(o)
<1>1. ASSUME o.action \in {"edit", "update"} PROVE disk[o.path] \in Text
  BY <1>1, OperationFacts DEF Possible, Exists, OnDisk
<1>2. ASSUME o.action \in {"edit", "write", "add", "update"} PROVE Changed(o) \in Text
  <2>1. CASE o.action \in {"write", "add"}
    BY <2>1, OperationFacts, TextsAssumption DEF Changed, Text
  <2>2. CASE o.action = "update" /\ o.old = None
    BY <2>2, <1>1 DEF Changed
  <2>3. CASE o.action = "edit" \/ (o.action = "update" /\ o.old # None)
    <3>1. o.new \in Lines
      BY <2>3, OperationFacts
    <3>2. Changed(o) = Replace(disk[o.path], o.old, o.new)
      BY <2>3 DEF Changed
    <3> QED
      BY <3>1, <3>2, <1>1, <2>3, Replaced
  <2> QED
    BY <1>2, <2>1, <2>2, <2>3
<1>3. CASE o.action \in {"edit", "write", "add"}
  <2>1. Writes(o) = <<[path |-> o.path, text |-> Changed(o)]>> /\ Unlinks(o) = <<>>
    BY <1>3 DEF Writes, Unlinks
  <2>2. o.path \in Paths /\ o.path \in Touched(o) /\ Changed(o) \in Text
    BY <1>2, <1>3, OperationFacts DEF Touched
  <2> QED
    BY <2>1, <2>2
<1>4. CASE o.action = "update"
  <2>1. Writes(o) = <<[path |-> o.to, text |-> Changed(o)]>>
    BY <1>4 DEF Writes
  <2>2. o.path \in Paths /\ o.path \in Touched(o) /\ o.to \in Paths /\ o.to \in Touched(o)
    BY <1>4, OperationFacts DEF Touched
  <2>3. Changed(o) \in Text
    BY <1>2, <1>4
  <2>4. CASE Unlinks(o) = <<>>
    BY <2>1, <2>2, <2>3, <2>4
  <2>5. CASE Unlinks(o) = <<o.path>>
    BY <2>1, <2>2, <2>3, <2>5
  <2> QED
    BY <2>4, <2>5 DEF Unlinks
<1>5. CASE o.action \notin {"edit", "write", "add", "update"}
  <2>1. Writes(o) = <<>>
    BY <1>5 DEF Writes
  <2>2. o.path \in Paths /\ o.path \in Touched(o)
    BY OperationFacts DEF Touched
  <2>3. CASE Unlinks(o) = <<>>
    BY <2>1, <2>3
  <2>4. CASE Unlinks(o) = <<o.path>>
    BY <2>1, <2>2, <2>4
  <2> QED
    BY <2>3, <2>4 DEF Unlinks
<1> QED
  BY <1>3, <1>4, <1>5

(* What the guard and the sandbox let through.                             *)
LEMMA AllowedMeansInScope ==
  ASSUME NEW o \in Operation, NEW t, Allowed(o, t), NEW p \in Touched(o)
  PROVE  /\ InScope(p)
         /\ scene.guard => \/ disk[p] = NoFile
                           \/ /\ t \in Tokens /\ revisions[t].known /\ ~AsksForNew(o)
                              /\ revisions[t].path = p /\ revisions[t].hash = disk[p]
<1>1. p = o.path \/ (o.action = "update" /\ p = o.to /\ p # o.path)
  BY DEF Touched
<1>2. p \in Project \/ scene.unrestricted
  BY DEF Allowed, Resolves
<1>3. ASSUME scene.guard, p = o.path
      PROVE  IF AsksForNew(o) THEN ValidNew(p) ELSE ValidExisting(p, t)
  BY <1>3 DEF Allowed
<1>4. ASSUME scene.guard, p # o.path
      PROVE  ValidNew(p)
  BY <1>4, <1>1 DEF Allowed
<1> QED
  BY <1>2, <1>3, <1>4 DEF InScope, ValidNew, ValidExisting, Exists

-----------------------------------------------------------------------------
(* Types.                                                                  *)

LEMMA CallFacts ==
  ASSUME TypeOK, NEW i \in DOMAIN calls
  PROVE  /\ calls[i] \in CallType /\ Placed(calls[i])
         /\ calls[i].ops[calls[i].k] \in Operation
<1>1. calls[i] \in CallType /\ Placed(calls[i])
  BY DEF TypeOK
<1>2. calls[i].ops \in Seq(Operation) /\ calls[i].k \in DOMAIN calls[i].ops
  BY <1>1 DEF CallType, Placed
<1> QED
  BY <1>1, <1>2

LEMMA InitTypes == Init => TypeOK
BY ContentsAssumption, TextsAssumption DEF Init, TypeOK, OnDisk, Text, NoFile

(* A step of one call leaves the others as they are.                       *)
LEMMA StepTypes ==
  ASSUME TypeOK, NEW i \in DOMAIN calls, NEW c \in CallType, Placed(c), Step(i, c)
  PROVE  /\ calls' \in Seq(CallType) /\ moves' \in Nat
         /\ DOMAIN calls' = DOMAIN calls /\ Len(calls') = Len(calls) /\ calls'[i] = c
         /\ \A j \in DOMAIN calls : j # i => calls'[j] = calls[j]
         /\ \A j \in DOMAIN calls' : Placed(calls'[j])
<1>1. calls \in Seq(CallType) /\ moves \in Nat /\ \A j \in DOMAIN calls : Placed(calls[j])
  BY DEF TypeOK
<1>2. calls' = [calls EXCEPT ![i] = c] /\ moves' = moves
  BY DEF Step
<1>3. /\ calls' \in Seq(CallType) /\ DOMAIN calls' = DOMAIN calls /\ Len(calls') = Len(calls)
      /\ calls'[i] = c /\ \A j \in DOMAIN calls : j # i => calls'[j] = calls[j]
  BY <1>1, <1>2
<1> QED
  BY <1>1, <1>2, <1>3

(* Where a call goes after a write or a removal.                           *)
LEMMA ApplyGoes ==
  ASSUME NEW c
  PROVE  /\ Apply(c) \in {"truncate", "unlink", "consume"}
         /\ Apply(c) = "truncate" => c.writes # <<>>
         /\ Apply(c) = "unlink" => c.unlinks # <<>>
BY DEF Apply

LEMMA Failing ==
  ASSUME TypeOK, NEW i \in DOMAIN calls
  PROVE  /\ [calls[i] EXCEPT !.pc = "failed"] \in CallType
         /\ Placed([calls[i] EXCEPT !.pc = "failed"])
<1>1. calls[i] \in CallType /\ Placed(calls[i])
  BY CallFacts
<1>2. [calls[i] EXCEPT !.pc = "failed"] \in CallType
  BY <1>1 DEF CallType, Steps
<1> QED
  BY <1>1, <1>2 DEF CallType, Placed

(* A call as it begins.                                                    *)
Opened(r, d) ==
  \E given \in [DOMAIN r.ops -> 0..Visible] :
    d = [tool |-> r.tool, dry |-> r.dry, ops |-> r.ops, token |-> given, visible |-> Visible,
         pc |-> IF r.tool = "read" THEN "read" ELSE "check", k |-> 1, text |-> <<>>,
         proved |-> {}, writes |-> <<>>, unlinks |-> <<>>, before |-> disk, beside |-> Active]

LEMMA NextOperation ==
  ASSUME NEW c \in CallType, Placed(c), c.k < Len(c.ops)
  PROVE  c.k + 1 \in DOMAIN c.ops /\ c.k + 1 \in Nat
<1>1. c.ops \in Seq(Operation) /\ c.k \in Nat /\ c.k \in DOMAIN c.ops
  BY DEF CallType, Placed
<1> QED
  BY <1>1

LEMMA CallTypes ==
  ASSUME TypeOK, Call
  PROVE  TypeOK'
<1> DEFINE old == IF Active = {} THEN <<>> ELSE calls
<1>0. PICK r \in Requests : \E d : Opened(r, d) /\ calls' = Append(old, d)
  BY DEF Call, Opened
<1>1. PICK d : Opened(r, d) /\ calls' = Append(old, d)
  BY <1>0
<1> HIDE DEF old
<1>2. Visible \in Nat
  <2>1. ASSUME Active # {} PROVE (CHOOSE i \in Active : TRUE) \in DOMAIN calls
    BY <2>1 DEF Active
  <2>2. \A i \in DOMAIN calls : calls[i].visible \in Nat
    BY CallFacts DEF CallType
  <2> QED
    BY <2>1, <2>2 DEF Visible, TypeOK
<1>3. 1 \in DOMAIN r.ops /\ r.ops \in Seq(Operation) \ {<<>>}
  BY RequestsAssumption
<1>4. \A given \in [DOMAIN r.ops -> 0..Visible] : given \in Seq(Nat)
  <2>1. DOMAIN r.ops = 1..Len(r.ops) /\ Len(r.ops) \in Nat
    BY <1>3
  <2> QED
    BY <2>1, <1>2
<1>5. d \in CallType
  <2>1. r.tool \in {"read", "edit", "write", "delete", "patch"} /\ r.dry \in BOOLEAN
    BY RequestsAssumption
  <2>2. disk \in [Paths -> OnDisk] /\ <<>> \in OnDisk
    BY DEF TypeOK, OnDisk, Text
  <2>3. Active \subseteq Nat
    BY DEF Active, TypeOK
  <2> QED
    BY <1>1, <1>2, <1>3, <1>4, <2>1, <2>2, <2>3 DEF CallType, Steps, Opened
<1>6. Placed(d)
  BY <1>1, <1>3 DEF Placed, Opened
<1>7. old \in Seq(CallType) /\ \A j \in DOMAIN old : Placed(old[j])
  BY DEF TypeOK, old
<1>8. calls' \in Seq(CallType) /\ \A j \in DOMAIN calls' : Placed(calls'[j])
  BY <1>1, <1>5, <1>6, <1>7
<1>9. moves' \in Nat
  BY DEF Call, Move, TypeOK
<1>10. UNCHANGED <<scene, disk, revisions, viewed, uses>>
  BY DEF Call
<1> QED
  BY <1>8, <1>9, <1>10 DEF TypeOK

LEMMA ReadTextTypes ==
  ASSUME TypeOK, NEW i \in DOMAIN calls, ReadText(i)
  PROVE  TypeOK'
<1> DEFINE c == calls[i]
           p == c.ops[c.k].path
<1>1. c \in CallType /\ Placed(c) /\ p \in Paths
  BY CallFacts, OperationFacts
<1>2. UNCHANGED <<scene, disk, revisions, viewed, uses>> /\ c.pc = "read"
  BY DEF ReadText
<1>3. CASE Resolves(p) /\ Exists(p)
  <2> DEFINE d == [c EXCEPT !.pc = "issue", !.text = disk[p]]
  <2>1. Step(i, d)
    BY <1>3 DEF ReadText
  <2>2. d \in CallType /\ Placed(d)
    BY <1>1 DEF CallType, Placed, Steps, TypeOK
  <2> QED
    BY <2>1, <2>2, <1>2, StepTypes DEF TypeOK
<1>4. CASE ~(Resolves(p) /\ Exists(p)) /\ c.k < Len(c.ops)
  <2> DEFINE d == [c EXCEPT !.k = @ + 1]
  <2>1. Step(i, d)
    BY <1>4 DEF ReadText
  <2>2. d \in CallType /\ Placed(d)
    BY <1>1, <1>2, <1>4, NextOperation DEF CallType, Placed
  <2> QED
    BY <2>1, <2>2, <1>2, StepTypes DEF TypeOK
<1>5. CASE ~(Resolves(p) /\ Exists(p)) /\ ~(c.k < Len(c.ops))
  <2>1. Fail(i)
    BY <1>5 DEF ReadText
  <2> QED
    BY <2>1, <1>2, StepTypes, Failing DEF TypeOK, Fail
<1> QED
  BY <1>3, <1>4, <1>5

LEMMA IssueTypes ==
  ASSUME TypeOK, NEW i \in DOMAIN calls, Issue(i)
  PROVE  TypeOK'
<1> DEFINE c == calls[i]
           p == c.ops[c.k].path
<1>1. c \in CallType /\ Placed(c) /\ p \in Paths
  BY CallFacts, OperationFacts
<1>2. UNCHANGED <<scene, disk>> /\ c.pc = "issue"
  BY DEF Issue
<1>3. /\ revisions' \in Seq(Revision) /\ viewed' \in Seq(OnDisk) /\ uses' \in Seq(Nat)
      /\ Len(viewed') = Len(revisions') /\ Len(uses') = Len(revisions')
  <2>1. /\ revisions \in Seq(Revision) /\ viewed \in Seq(OnDisk) /\ uses \in Seq(Nat)
        /\ Len(viewed) = Len(revisions) /\ Len(uses) = Len(revisions)
    BY DEF TypeOK
  <2>2. [path |-> p, hash |-> disk[p], known |-> TRUE] \in Revision /\ c.text \in OnDisk
    BY <1>1 DEF Revision, TypeOK, CallType
  <2>3. CASE UNCHANGED <<revisions, viewed, uses>>
    BY <2>1, <2>3
  <2>4. CASE /\ revisions' = Append(revisions, [path |-> p, hash |-> disk[p], known |-> TRUE])
             /\ viewed' = Append(viewed, c.text)
             /\ uses' = Append(uses, 0)
    BY <2>1, <2>2, <2>4
  <2> QED
    BY <2>3, <2>4 DEF Issue
<1>4. CASE Fail(i)
  BY <1>4, <1>2, <1>3, StepTypes, Failing DEF TypeOK, Fail
<1>5. CASE c.k < Len(c.ops) /\ Step(i, [c EXCEPT !.pc = "read", !.k = @ + 1])
  <2> DEFINE d == [c EXCEPT !.pc = "read", !.k = @ + 1]
  <2>1. d \in CallType /\ Placed(d)
    BY <1>1, <1>5, NextOperation DEF CallType, Placed, Steps
  <2> QED
    BY <2>1, <1>5, <1>2, <1>3, StepTypes DEF TypeOK
<1>6. CASE Step(i, [c EXCEPT !.pc = "done"])
  <2> DEFINE d == [c EXCEPT !.pc = "done"]
  <2>1. d \in CallType /\ Placed(d)
    BY <1>1 DEF CallType, Placed, Steps
  <2> QED
    BY <2>1, <1>6, <1>2, <1>3, StepTypes DEF TypeOK
<1> QED
  BY <1>4, <1>5, <1>6 DEF Issue

LEMMA CheckTypes ==
  ASSUME TypeOK, NEW i \in DOMAIN calls, Check(i)
  PROVE  TypeOK'
<1> DEFINE c == calls[i]
           o == c.ops[c.k]
           t == c.token[c.k]
           checked == [c EXCEPT !.proved = IF scene.guard /\ ~AsksForNew(o) THEN @ \cup {t} ELSE @]
<1>1. c \in CallType /\ Placed(c)
  BY CallFacts
<1>2. UNCHANGED <<scene, disk, revisions, viewed, uses>> /\ c.pc = "check"
  BY DEF Check
<1>3. CASE ~Allowed(o, t)
  <2>1. Fail(i)
    BY <1>3 DEF Check
  <2> QED
    BY <2>1, <1>2, StepTypes, Failing DEF TypeOK, Fail
<1>4. CASE Allowed(o, t)
  <2>1. scene.guard /\ ~AsksForNew(o) => t \in Nat
    <3>1. Tokens \subseteq Nat
      BY DEF Tokens, TypeOK
    <3> QED
      BY <3>1, <1>4 DEF Allowed, ValidExisting
  <2>2. checked \in CallType /\ Placed(checked) /\ checked.k = c.k /\ checked.ops = c.ops
    BY <1>1, <1>2, <2>1 DEF CallType, Placed
  <2>3. CASE c.k < Len(c.ops)
    <3> DEFINE d == [checked EXCEPT !.k = @ + 1]
    <3>1. d \in CallType /\ Placed(d)
      <4> HIDE DEF checked
      <4>1. checked.k + 1 \in DOMAIN checked.ops /\ checked.k + 1 \in Nat
        BY <2>2, <2>3, NextOperation
      <4> QED
        BY <2>2, <4>1 DEF CallType, Placed
    <3>2. Step(i, d)
      BY <1>4, <2>3 DEF Check
    <3> QED
      BY <3>1, <3>2, <1>2, StepTypes DEF TypeOK
  <2>4. CASE ~(c.k < Len(c.ops))
    <3> DEFINE d == [checked EXCEPT !.pc = "plan", !.k = 1]
    <3>1. d \in CallType /\ Placed(d)
      <4> HIDE DEF checked
      <4>1. 1 \in DOMAIN checked.ops
        BY <2>2 DEF CallType
      <4> QED
        BY <2>2, <4>1 DEF CallType, Placed, Steps
    <3>2. Step(i, d)
      BY <1>4, <2>4 DEF Check
    <3> QED
      BY <3>1, <3>2, <1>2, StepTypes DEF TypeOK
  <2> QED
    BY <2>3, <2>4
<1> QED
  BY <1>3, <1>4

LEMMA PlanTypes ==
  ASSUME TypeOK, NEW i \in DOMAIN calls, Plan(i)
  PROVE  TypeOK'
<1> DEFINE c == calls[i]
           o == c.ops[c.k]
           planned == [c EXCEPT !.writes = @ \o Writes(o), !.unlinks = @ \o Unlinks(o)]
<1>1. c \in CallType /\ Placed(c) /\ o \in Operation
  BY CallFacts
<1>2. UNCHANGED <<scene, disk, revisions, viewed, uses>> /\ c.pc = "plan"
  BY DEF Plan
<1>3. CASE ~Possible(o)
  <2>1. Fail(i)
    BY <1>3 DEF Plan
  <2> QED
    BY <2>1, <1>2, StepTypes, Failing DEF TypeOK, Fail
<1>4. CASE Possible(o)
  <2>1. Writes(o) \in Seq([path : Paths, text : Text]) /\ Unlinks(o) \in Seq(Paths)
    BY <1>1, <1>4, Planned DEF TypeOK
  <2>2. /\ c.writes \o Writes(o) \in Seq([path : Paths, text : Text])
        /\ c.unlinks \o Unlinks(o) \in Seq(Paths)
    <3>1. c.writes \in Seq([path : Paths, text : Text]) /\ c.unlinks \in Seq(Paths)
      BY <1>1 DEF CallType
    <3> QED
      BY <2>1, <3>1, ConcatProperties
  <2>3. planned \in CallType /\ Placed(planned) /\ planned.k = c.k /\ planned.ops = c.ops
    BY <1>1, <1>2, <2>2 DEF CallType, Placed
  <2>4. CASE c.k < Len(c.ops)
    <3> DEFINE d == [planned EXCEPT !.k = @ + 1]
    <3>1. d \in CallType /\ Placed(d)
      <4> HIDE DEF planned
      <4>1. planned.k + 1 \in DOMAIN planned.ops /\ planned.k + 1 \in Nat
        BY <2>3, <2>4, NextOperation
      <4>2. planned.pc = "plan"
        BY <1>1, <1>2 DEF planned, CallType
      <4> QED
        BY <2>3, <4>1, <4>2 DEF CallType, Placed
    <3>2. Step(i, d)
      BY <1>4, <2>4 DEF Plan
    <3> QED
      BY <3>1, <3>2, <1>2, StepTypes DEF TypeOK
  <2>5. CASE ~(c.k < Len(c.ops))
    <3> DEFINE d == [planned EXCEPT !.pc = IF c.dry THEN "done" ELSE Apply(planned)]
    <3>1. d \in CallType /\ Placed(d)
      <4> HIDE DEF planned
      <4> QED
        BY <2>3, ApplyGoes DEF CallType, Placed, Steps
    <3>2. Step(i, d)
      BY <1>4, <2>5 DEF Plan
    <3> QED
      BY <3>1, <3>2, <1>2, StepTypes DEF TypeOK
  <2> QED
    BY <2>4, <2>5
<1> QED
  BY <1>3, <1>4

LEMMA TruncateTypes ==
  ASSUME TypeOK, NEW i \in DOMAIN calls, Truncate(i)
  PROVE  TypeOK'
<1> DEFINE c == calls[i]
           d == [c EXCEPT !.pc = "fill"]
<1>1. c \in CallType /\ Placed(c) /\ c.pc = "truncate"
  BY CallFacts DEF Truncate
<1>2. Step(i, d) /\ UNCHANGED <<scene, revisions, viewed, uses>>
  BY DEF Truncate
<1>3. d \in CallType /\ Placed(d)
  BY <1>1 DEF CallType, Placed, Steps
<1>4. disk' \in [Paths -> OnDisk]
  <2>1. <<>> \in OnDisk
    BY DEF OnDisk, Text
  <2> QED
    BY <2>1 DEF Truncate, TypeOK
<1> QED
  BY <1>2, <1>3, <1>4, StepTypes DEF TypeOK

LEMMA FillTypes ==
  ASSUME TypeOK, NEW i \in DOMAIN calls, Fill(i)
  PROVE  TypeOK'
<1> DEFINE c == calls[i]
           rest == [c EXCEPT !.writes = Tail(@)]
           d == [rest EXCEPT !.pc = Apply(rest)]
<1>1. c \in CallType /\ Placed(c) /\ c.pc = "fill"
  BY CallFacts DEF Fill
<1>2. Step(i, d) /\ UNCHANGED <<scene, revisions, viewed, uses>>
  BY DEF Fill
<1>3. c.writes \in Seq([path : Paths, text : Text]) /\ c.writes # <<>>
  BY <1>1 DEF CallType, Placed
<1>4. Head(c.writes).text \in Text /\ Tail(c.writes) \in Seq([path : Paths, text : Text])
  <2>1. Head(c.writes) \in [path : Paths, text : Text]
    BY <1>3, HeadTailProperties
  <2>2. Tail(c.writes) \in Seq([path : Paths, text : Text])
    BY <1>3
  <2> QED
    BY <2>1, <2>2
<1>5. rest \in CallType /\ rest.k \in DOMAIN rest.ops
  BY <1>1, <1>4 DEF CallType, Placed
<1>6. d \in CallType /\ Placed(d)
  <2> HIDE DEF rest
  <2> QED
    BY <1>5, ApplyGoes DEF CallType, Placed, Steps
<1>7. disk' \in [Paths -> OnDisk]
  BY <1>4 DEF Fill, TypeOK, OnDisk
<1> QED
  BY <1>2, <1>6, <1>7, StepTypes DEF TypeOK

LEMMA UnlinkTypes ==
  ASSUME TypeOK, NEW i \in DOMAIN calls, Unlink(i)
  PROVE  TypeOK'
<1> DEFINE c == calls[i]
           rest == [c EXCEPT !.unlinks = Tail(@)]
           d == [rest EXCEPT !.pc = Apply(rest)]
<1>1. c \in CallType /\ Placed(c) /\ c.pc = "unlink"
  BY CallFacts DEF Unlink
<1>2. UNCHANGED <<scene, revisions, viewed, uses>>
  BY DEF Unlink
<1>3. c.unlinks \in Seq(Paths) /\ c.unlinks # <<>>
  BY <1>1 DEF CallType, Placed
<1>4. Tail(c.unlinks) \in Seq(Paths)
  BY <1>3
<1>5. rest \in CallType /\ rest.k \in DOMAIN rest.ops
  BY <1>1, <1>4 DEF CallType, Placed
<1>6. d \in CallType /\ Placed(d)
  <2> HIDE DEF rest
  <2> QED
    BY <1>5, ApplyGoes DEF CallType, Placed, Steps
<1>7. disk' \in [Paths -> OnDisk]
  BY DEF Unlink, TypeOK, OnDisk
<1>8. CASE Step(i, d)
  BY <1>8, <1>2, <1>6, <1>7, StepTypes DEF TypeOK
<1>9. CASE Fail(i)
  BY <1>9, <1>2, <1>7, StepTypes, Failing DEF TypeOK, Fail
<1> QED
  BY <1>8, <1>9 DEF Unlink

(* Consuming forgets tokens, and nothing else of them.                     *)
LEMMA Forgetting ==
  ASSUME TypeOK, NEW c
  PROVE  /\ Forget(c) \in Seq(Revision) /\ Len(Forget(c)) = Len(revisions)
         /\ \A t \in Tokens : /\ Forget(c)[t].path = revisions[t].path
                              /\ Forget(c)[t].hash = revisions[t].hash
                              /\ Forget(c)[t].known = TRUE => revisions[t].known = TRUE /\ t \notin Spent(c)
<1>1. revisions \in Seq(Revision) /\ Tokens = 1..Len(revisions) /\ Len(revisions) \in Nat
  BY DEF TypeOK, Tokens
<1>2. \A t \in Tokens : revisions[t] \in Revision
  BY <1>1
<1>3. \A t \in Tokens : /\ Forget(c)[t] \in Revision
                        /\ Forget(c)[t].path = revisions[t].path
                        /\ Forget(c)[t].hash = revisions[t].hash
                        /\ Forget(c)[t].known = TRUE => revisions[t].known = TRUE /\ t \notin Spent(c)
  <2> TAKE t \in Tokens
  <2>1. CASE t \in Spent(c)
    BY <1>2, <2>1 DEF Forget, Revision
  <2>2. CASE t \notin Spent(c)
    BY <1>2, <2>2 DEF Forget
  <2> QED
    BY <2>1, <2>2
<1>4. Forget(c) \in [1..Len(revisions) -> Revision]
  <2> Forget(c) = [t \in Tokens |-> Forget(c)[t]]
    BY DEF Forget
  <2> QED
    BY <1>1, <1>3
<1> QED
  BY <1>1, <1>3, <1>4

LEMMA ConsumeTypes ==
  ASSUME TypeOK, NEW i \in DOMAIN calls, Consume(i)
  PROVE  TypeOK'
<1> DEFINE c == calls[i]
           d == [c EXCEPT !.pc = "done"]
<1>1. c \in CallType /\ Placed(c)
  BY CallFacts
<1>2. Step(i, d) /\ UNCHANGED <<scene, disk, viewed>> /\ revisions' = Forget(c)
  BY DEF Consume
<1>3. d \in CallType /\ Placed(d)
  BY <1>1 DEF CallType, Placed, Steps
<1>4. revisions' \in Seq(Revision) /\ Len(revisions') = Len(revisions)
  BY <1>2, Forgetting
<1>5. uses' \in Seq(Nat) /\ Len(uses') = Len(uses)
  <2>1. uses \in Seq(Nat) /\ Tokens = 1..Len(uses) /\ Len(uses) \in Nat
    BY DEF TypeOK, Tokens
  <2>2. uses' \in [1..Len(uses) -> Nat]
    BY <2>1 DEF Consume
  <2> QED
    BY <2>1, <2>2
<1> QED
  BY <1>2, <1>3, <1>4, <1>5, StepTypes DEF TypeOK

LEMMA ExpireTypes ==
  ASSUME TypeOK, Expire
  PROVE  /\ TypeOK' /\ UNCHANGED <<scene, disk, viewed, uses, calls>> /\ Len(revisions') = Len(revisions)
         /\ \A t \in Tokens : /\ revisions'[t].path = revisions[t].path
                              /\ revisions'[t].hash = revisions[t].hash
                              /\ revisions'[t].known = TRUE => revisions[t].known = TRUE
<1>1. PICK u \in Tokens : revisions' = [revisions EXCEPT ![u].known = FALSE]
  BY DEF Expire
<1>2. revisions \in Seq(Revision) /\ u \in DOMAIN revisions /\ revisions[u] \in Revision
  BY DEF TypeOK, Tokens
<1>3. revisions' = [revisions EXCEPT ![u] = [revisions[u] EXCEPT !.known = FALSE]]
  BY <1>1
<1>4. [revisions[u] EXCEPT !.known = FALSE] \in Revision
  BY <1>2 DEF Revision
<1>5. revisions' \in Seq(Revision) /\ Len(revisions') = Len(revisions)
  BY <1>2, <1>3, <1>4
<1>6. \A t \in Tokens : /\ revisions'[t].path = revisions[t].path
                        /\ revisions'[t].hash = revisions[t].hash
                        /\ revisions'[t].known = TRUE => revisions[t].known = TRUE
  BY <1>2, <1>3 DEF Tokens, Revision
<1>7. UNCHANGED <<scene, disk, viewed, uses, calls>>
  BY DEF Expire
<1>8. moves' \in Nat
  BY DEF Expire, Move, TypeOK
<1> QED
  BY <1>5, <1>6, <1>7, <1>8 DEF TypeOK

LEMMA OutsideTypes ==
  ASSUME TypeOK, Outside
  PROVE  TypeOK'
<1>1. UNCHANGED <<scene, revisions, viewed, uses, calls>>
  BY DEF Outside
<1>2. disk' \in [Paths -> OnDisk]
  BY TextsAssumption DEF Outside, TypeOK, OnDisk, Text
<1>3. moves' \in Nat
  BY DEF Outside, Move, TypeOK
<1> QED
  BY <1>1, <1>2, <1>3 DEF TypeOK

-----------------------------------------------------------------------------
(* What was cleared stays cleared: a token keeps its path and its text.    *)

Kept == \A t \in Tokens : /\ t \in DOMAIN revisions' /\ revisions'[t].path = revisions[t].path
                         /\ revisions'[t].hash = revisions[t].hash

LEMMA ClearedStays ==
  ASSUME Kept, NEW c, NEW d, d.before = c.before, c.proved \subseteq d.proved,
         NEW p, Cleared(revisions, c, p)
  PROVE  Cleared(revisions', d, p)
BY DEF Kept, Cleared, ProvedText, Tokens

LEMMA CheckedStays ==
  ASSUME Kept, NEW c, Checked(revisions, c)
  PROVE  Checked(revisions', c)
<1>1. \A p : Cleared(revisions, c, p) => Cleared(revisions', c, p)
  BY ClearedStays
<1> QED
  BY <1>1 DEF Checked

(* One call takes a step, and the rest stays cleared.                      *)
LEMMA CheckedStep ==
  ASSUME IInv, UNCHANGED scene, Kept, NEW i \in DOMAIN calls, NEW d, Checked(revisions', d),
         DOMAIN calls' = DOMAIN calls, calls'[i] = d,
         \A j \in DOMAIN calls : j # i => calls'[j] = calls[j]
  PROVE  (\A j \in DOMAIN calls : Checked(revisions, calls[j]))'
<1>1. \A j \in DOMAIN calls' : Checked(revisions', calls'[j])
  <2> TAKE j \in DOMAIN calls'
  <2>1. CASE j = i
    BY <2>1
  <2>2. CASE j # i
    BY <2>2, CheckedStays DEF IInv
  <2> QED
    BY <2>1, <2>2
<1> QED
  BY <1>1 DEF Checked, Cleared, InScope, OneByOne

(* A failed call, and one that is done, has nothing to be cleared.         *)
LEMMA EndedIsChecked ==
  ASSUME NEW c, c.pc \in {"done", "failed"}, NEW rs
  PROVE  Checked(rs, c)
BY DEF Checked, Passed, Ended

LEMMA FailingChecked ==
  ASSUME TypeOK, NEW i \in DOMAIN calls
  PROVE  Checked(revisions', [calls[i] EXCEPT !.pc = "failed"])
BY CallFacts, EndedIsChecked DEF CallType

LEMMA NothingForgotten ==
  ASSUME UNCHANGED revisions
  PROVE  Kept
BY DEF Kept, Tokens

LEMMA CallChecked ==
  ASSUME IInv, Call
  PROVE  (\A j \in DOMAIN calls : Checked(revisions, calls[j]))'
<1> DEFINE old == IF Active = {} THEN <<>> ELSE calls
<1>0. PICK r \in Requests : \E d : Opened(r, d) /\ calls' = Append(old, d)
  BY DEF Call, Opened
<1>1. PICK d : Opened(r, d) /\ calls' = Append(old, d)
  BY <1>0
<1>2. old \in Seq(CallType) /\ \A j \in DOMAIN old : Checked(revisions, old[j])
  BY DEF IInv, TypeOK
<1>3. Checked(revisions, d)
  <2>1. r.ops \in Seq(Operation)
    BY RequestsAssumption
  <2>2. d.pc \in {"read", "check"} /\ d.writes = <<>> /\ d.unlinks = <<>> /\ d.k = 1 /\ d.ops = r.ops
    BY <1>1 DEF Opened
  <2>3. Passed(d) = {}
    BY <2>1, <2>2 DEF Passed
  <2> QED
    BY <2>2, <2>3 DEF Checked
<1>4. \A j \in DOMAIN calls' : Checked(revisions, calls'[j])
  <2> HIDE DEF old
  <2>1. /\ DOMAIN calls' = 1..(Len(old) + 1) /\ calls'[Len(old) + 1] = d
        /\ \A j \in 1..Len(old) : calls'[j] = old[j]
    BY <1>1, <1>2
  <2>2. DOMAIN old = 1..Len(old) /\ Len(old) \in Nat
    BY <1>2
  <2> TAKE j \in DOMAIN calls'
  <2>3. CASE j \in 1..Len(old)
    BY <1>2, <2>1, <2>2, <2>3
  <2>4. CASE j = Len(old) + 1
    BY <1>3, <2>1, <2>4
  <2> QED
    BY <2>1, <2>2, <2>3, <2>4
<1>5. UNCHANGED <<scene, revisions>>
  BY DEF Call
<1> QED
  BY <1>4, <1>5 DEF Checked, Cleared, InScope, OneByOne

LEMMA ReadTextChecked ==
  ASSUME IInv, NEW i \in DOMAIN calls, ReadText(i)
  PROVE  (\A j \in DOMAIN calls : Checked(revisions, calls[j]))'
<1> DEFINE c == calls[i]
           p == c.ops[c.k].path
<1>1. TypeOK /\ c \in CallType /\ Checked(revisions, c)
  BY CallFacts DEF IInv
<1>2. UNCHANGED <<scene, disk, revisions, viewed, uses>> /\ c.pc = "read" /\ Kept
  BY NothingForgotten DEF ReadText
<1>3. PICK d : Step(i, d) /\ d \in {[c EXCEPT !.pc = "issue", !.text = disk[p]], [c EXCEPT !.k = @ + 1],
                                   [c EXCEPT !.pc = "failed"]}
  BY DEF ReadText, Fail
<1>4. Checked(revisions', d)
  <2>1. d.pc \in {"read", "issue", "failed"} /\ d.writes = c.writes /\ d.unlinks = c.unlinks
    BY <1>1, <1>2, <1>3 DEF CallType
  <2>2. c.writes = <<>> /\ c.unlinks = <<>>
    BY <1>1, <1>2 DEF Checked
  <2> QED
    BY <2>1, <2>2 DEF Checked, Passed
<1>5. /\ DOMAIN calls' = DOMAIN calls /\ calls'[i] = d
      /\ \A j \in DOMAIN calls : j # i => calls'[j] = calls[j]
  BY <1>1, <1>3 DEF Step
<1> QED
  BY <1>2, <1>4, <1>5, CheckedStep

LEMMA IssueChecked ==
  ASSUME IInv, NEW i \in DOMAIN calls, Issue(i)
  PROVE  (\A j \in DOMAIN calls : Checked(revisions, calls[j]))'
<1> DEFINE c == calls[i]
           p == c.ops[c.k].path
<1>1. TypeOK /\ c \in CallType /\ Checked(revisions, c)
  BY CallFacts DEF IInv
<1>2. UNCHANGED scene /\ c.pc = "issue"
  BY DEF Issue
<1>3. Kept
  <2>1. CASE UNCHANGED revisions
    BY <2>1, NothingForgotten
  <2>2. CASE revisions' = Append(revisions, [path |-> p, hash |-> disk[p], known |-> TRUE])
    <3>1. revisions \in Seq(Revision)
      BY <1>1 DEF TypeOK
    <3>2. /\ DOMAIN revisions = 1..Len(revisions) /\ DOMAIN revisions' = 1..(Len(revisions) + 1)
          /\ \A t \in 1..Len(revisions) : revisions'[t] = revisions[t]
      BY <2>2, <3>1
    <3> QED
      BY <3>1, <3>2 DEF Kept, Tokens
  <2> QED
    BY <2>1, <2>2 DEF Issue
<1>4. PICK d : Step(i, d) /\ d \in {[c EXCEPT !.pc = "read", !.k = @ + 1], [c EXCEPT !.pc = "done"],
                                   [c EXCEPT !.pc = "failed"]}
  BY DEF Issue, Fail
<1>5. Checked(revisions', d)
  <2>1. d.pc \in {"read", "done", "failed"} /\ d.writes = c.writes /\ d.unlinks = c.unlinks
    BY <1>1, <1>2, <1>4 DEF CallType
  <2>2. c.writes = <<>> /\ c.unlinks = <<>>
    BY <1>1, <1>2 DEF Checked
  <2> QED
    BY <2>1, <2>2 DEF Checked, Passed
<1>6. /\ DOMAIN calls' = DOMAIN calls /\ calls'[i] = d
      /\ \A j \in DOMAIN calls : j # i => calls'[j] = calls[j]
  BY <1>1, <1>4 DEF Step
<1> QED
  BY <1>2, <1>3, <1>5, <1>6, CheckedStep

LEMMA CheckChecked ==
  ASSUME IInv, NEW i \in DOMAIN calls, Check(i)
  PROVE  (\A j \in DOMAIN calls : Checked(revisions, calls[j]))'
<1> DEFINE c == calls[i]
           o == c.ops[c.k]
           t == c.token[c.k]
           checked == [c EXCEPT !.proved = IF scene.guard /\ ~AsksForNew(o) THEN @ \cup {t} ELSE @]
<1>1. TypeOK /\ c \in CallType /\ Placed(c) /\ Checked(revisions, c) /\ o \in Operation
  BY CallFacts DEF IInv
<1>2. UNCHANGED <<scene, disk, revisions, viewed, uses>> /\ c.pc = "check" /\ Kept
  BY NothingForgotten DEF Check
<1>3. CASE ~Allowed(o, t)
  <2>1. Fail(i)
    BY <1>3 DEF Check
  <2>2. Checked(revisions', [c EXCEPT !.pc = "failed"])
    BY <1>1, FailingChecked
  <2> QED
    BY <2>1, <2>2, <1>1, <1>2, CheckedStep DEF Fail, Step
<1>4. CASE Allowed(o, t)
  <2>1. PICK d : Step(i, d) /\ d \in {[checked EXCEPT !.k = @ + 1], [checked EXCEPT !.pc = "plan", !.k = 1]}
                /\ (c.k < Len(c.ops) <=> d = [checked EXCEPT !.k = @ + 1])
    <3>1. [checked EXCEPT !.k = @ + 1].pc = "check" /\ [checked EXCEPT !.pc = "plan", !.k = 1].pc = "plan"
      BY <1>1, <1>2 DEF CallType
    <3> QED
      BY <1>4, <3>1 DEF Check
  <2>2. /\ d.ops = c.ops /\ d.writes = c.writes /\ d.unlinks = c.unlinks /\ d.before = c.before
        /\ c.proved \subseteq d.proved /\ (scene.guard /\ ~AsksForNew(o) => t \in d.proved)
        /\ IF c.k < Len(c.ops) THEN d.pc = "check" /\ d.k = c.k + 1 ELSE d.pc = "plan"
    <3>1. /\ checked \in CallType /\ checked.ops = c.ops /\ checked.writes = c.writes
          /\ checked.unlinks = c.unlinks /\ checked.before = c.before /\ c.proved \subseteq checked.proved
          /\ (scene.guard /\ ~AsksForNew(o) => t \in checked.proved)
          /\ checked.pc = "check" /\ checked.k = c.k
      <4>1. scene.guard /\ ~AsksForNew(o) => t \in Nat
        <5>1. Tokens \subseteq Nat
          BY <1>1 DEF Tokens, TypeOK
        <5> QED
          BY <5>1, <1>4 DEF Allowed, ValidExisting
      <4> QED
        BY <4>1, <1>1, <1>2 DEF CallType
    <3> HIDE DEF checked
    <3>2. CASE c.k < Len(c.ops)
      BY <3>1, <3>2, <2>1 DEF CallType
    <3>3. CASE ~(c.k < Len(c.ops))
      BY <3>1, <3>3, <2>1 DEF CallType
    <3> QED
      BY <3>2, <3>3
  <2>3. \A p \in Touched(o) : Cleared(revisions, d, p)
    <3> TAKE p \in Touched(o)
    <3>1. InScope(p)
      BY <1>1, <1>4, AllowedMeansInScope
    <3>2. ASSUME scene.guard, OneByOne PROVE d.before[p] = NoFile \/ ProvedText(revisions, d, p)
      <4>1. disk = c.before
        BY <3>2, <1>2 DEF IInv, Sequential, Single
      <4>2. \/ disk[p] = NoFile
            \/ /\ t \in Tokens /\ ~AsksForNew(o)
               /\ revisions[t].path = p /\ revisions[t].hash = disk[p]
        BY <1>1, <1>4, <3>2, AllowedMeansInScope
      <4> QED
        BY <4>1, <4>2, <2>2, <3>2 DEF ProvedText, Tokens
    <3> QED
      BY <3>1, <3>2 DEF Cleared
  <2>4. \A k \in Passed(d) : \A p \in Touched(d.ops[k]) : Cleared(revisions, d, p)
    <3>1. \A k \in Passed(c) : \A p \in Touched(c.ops[k]) : Cleared(revisions, d, p)
      <4>1. \A p : Cleared(revisions, c, p) => Cleared(revisions', d, p)
        BY <1>2, <2>2, ClearedStays
      <4> QED
        BY <4>1, <1>1, <1>2 DEF Checked
    <3>2. \A k \in Passed(d) : k \in Passed(c) \/ k = c.k
      <4>1. DOMAIN c.ops = 1..Len(c.ops) /\ Len(c.ops) \in Nat /\ c.k \in DOMAIN c.ops
        BY <1>1 DEF CallType, Placed
      <4> QED
        BY <4>1, <1>2, <2>2 DEF Passed
    <3> QED
      BY <2>2, <2>3, <3>1, <3>2
  <2>5. c.writes = <<>> /\ c.unlinks = <<>>
    BY <1>1, <1>2 DEF Checked
  <2>6. Checked(revisions', d)
    BY <1>2, <2>2, <2>4, <2>5 DEF Checked
  <2> QED
    BY <1>1, <1>2, <2>1, <2>6, CheckedStep DEF Step
<1> QED
  BY <1>3, <1>4

(* Each member of one list after the other is a member of one of them.     *)
LEMMA AppendedAll ==
  ASSUME NEW S, NEW s \in Seq(S), NEW t \in Seq(S)
  PROVE  \A n \in DOMAIN (s \o t) :
           (\E m \in DOMAIN s : (s \o t)[n] = s[m]) \/ (\E m \in DOMAIN t : (s \o t)[n] = t[m])
<1> TAKE n \in DOMAIN (s \o t)
<1>1. /\ Len(s \o t) = Len(s) + Len(t) /\ n \in 1..(Len(s) + Len(t))
      /\ (s \o t)[n] = IF n <= Len(s) THEN s[n] ELSE t[n - Len(s)]
  BY ConcatProperties
<1>2. CASE n <= Len(s)
  BY <1>1, <1>2
<1>3. CASE ~(n <= Len(s))
  <2>1. n - Len(s) \in 1..Len(t) /\ DOMAIN t = 1..Len(t)
    BY <1>1, <1>3
  <2> QED
    BY <2>1, <1>1, <1>3
<1> QED
  BY <1>2, <1>3

LEMMA PlanChecked ==
  ASSUME IInv, NEW i \in DOMAIN calls, Plan(i)
  PROVE  (\A j \in DOMAIN calls : Checked(revisions, calls[j]))'
<1> DEFINE c == calls[i]
           o == c.ops[c.k]
           planned == [c EXCEPT !.writes = @ \o Writes(o), !.unlinks = @ \o Unlinks(o)]
<1>1. TypeOK /\ c \in CallType /\ Placed(c) /\ Checked(revisions, c) /\ o \in Operation
  BY CallFacts DEF IInv
<1>2. UNCHANGED <<scene, disk, revisions, viewed, uses>> /\ c.pc = "plan" /\ Kept
  BY NothingForgotten DEF Plan
<1>3. CASE ~Possible(o)
  <2>1. Fail(i)
    BY <1>3 DEF Plan
  <2>2. Checked(revisions', [c EXCEPT !.pc = "failed"])
    BY <1>1, FailingChecked
  <2> QED
    BY <2>1, <2>2, <1>1, <1>2, CheckedStep DEF Fail, Step
<1>4. CASE Possible(o)
  <2> DEFINE ws == c.writes \o Writes(o)
             us == c.unlinks \o Unlinks(o)
  <2>1. PICK d : Step(i, d) /\ d \in {[planned EXCEPT !.k = @ + 1],
                                     [planned EXCEPT !.pc = IF c.dry THEN "done" ELSE Apply(planned)]}
    BY <1>4 DEF Plan
  <2>2. /\ d.ops = c.ops /\ d.before = c.before /\ d.proved = c.proved
        /\ d.writes = ws /\ d.unlinks = us
        /\ d.pc \in {"plan", "done", "truncate", "unlink", "consume"}
    <3>1. /\ planned.ops = c.ops /\ planned.before = c.before /\ planned.proved = c.proved
          /\ planned.writes = ws /\ planned.unlinks = us /\ planned.pc = "plan"
          /\ DOMAIN planned = DOMAIN c /\ {"pc", "k", "ops", "before", "proved", "writes", "unlinks"} \subseteq DOMAIN c
      BY <1>1, <1>2 DEF CallType
    <3> HIDE DEF planned, ws, us
    <3>2. CASE d = [planned EXCEPT !.k = @ + 1]
      BY <3>1, <3>2
    <3>3. CASE d = [planned EXCEPT !.pc = IF c.dry THEN "done" ELSE Apply(planned)]
      BY <3>1, <3>3, ApplyGoes
    <3> QED
      BY <3>2, <3>3, <2>1
  <2>3. Passed(d) \subseteq DOMAIN c.ops /\ Passed(c) = DOMAIN c.ops
    BY <1>2, <2>2 DEF Passed
  <2>4. \A k \in DOMAIN c.ops : \A p \in Touched(c.ops[k]) : Cleared(revisions, d, p)
    <3>1. \A p : Cleared(revisions, c, p) => Cleared(revisions', d, p)
      BY <1>2, <2>2, ClearedStays
    <3> QED
      BY <3>1, <2>3, <1>1, <1>2 DEF Checked
  <2>5. c.k \in DOMAIN c.ops
    BY <1>1 DEF Placed
  <2>6. \A n \in DOMAIN ws : Cleared(revisions, d, ws[n].path)
    <3>1. c.writes \in Seq([path : Paths, text : Text]) /\ Writes(o) \in Seq([path : Paths, text : Text])
      BY <1>1, <1>4, Planned DEF CallType, TypeOK
    <3>2. \A n \in DOMAIN c.writes : Cleared(revisions, d, c.writes[n].path)
      <4>1. \A p : Cleared(revisions, c, p) => Cleared(revisions', d, p)
        BY <1>2, <2>2, ClearedStays
      <4> QED
        BY <4>1, <1>1, <1>2 DEF Checked, Ended
    <3>3. \A n \in DOMAIN Writes(o) : Cleared(revisions, d, Writes(o)[n].path)
      BY <2>4, <2>5, <1>1, <1>4, Planned DEF TypeOK
    <3> HIDE DEF c, o
    <3>4. \A n \in DOMAIN ws : \/ \E m \in DOMAIN c.writes : ws[n] = c.writes[m]
                              \/ \E m \in DOMAIN Writes(o) : ws[n] = Writes(o)[m]
      BY <3>1, AppendedAll
    <3> HIDE DEF ws
    <3> QED
      BY <3>2, <3>3, <3>4
  <2>7. \A n \in DOMAIN us : Cleared(revisions, d, us[n])
    <3>1. c.unlinks \in Seq(Paths) /\ Unlinks(o) \in Seq(Paths)
      BY <1>1, <1>4, Planned DEF CallType, TypeOK
    <3>2. \A n \in DOMAIN c.unlinks : Cleared(revisions, d, c.unlinks[n])
      <4>1. \A p : Cleared(revisions, c, p) => Cleared(revisions', d, p)
        BY <1>2, <2>2, ClearedStays
      <4> QED
        BY <4>1, <1>1, <1>2 DEF Checked, Ended
    <3>3. \A n \in DOMAIN Unlinks(o) : Cleared(revisions, d, Unlinks(o)[n])
      BY <2>4, <2>5, <1>1, <1>4, Planned DEF TypeOK
    <3> HIDE DEF c, o
    <3>4. \A n \in DOMAIN us : \/ \E m \in DOMAIN c.unlinks : us[n] = c.unlinks[m]
                              \/ \E m \in DOMAIN Unlinks(o) : us[n] = Unlinks(o)[m]
      BY <3>1, AppendedAll
    <3> HIDE DEF us
    <3> QED
      BY <3>2, <3>3, <3>4
  <2>8. Checked(revisions', d)
    <3> HIDE DEF ws, us
    <3> QED
      BY <1>2, <2>2, <2>3, <2>4, <2>6, <2>7 DEF Checked
  <2> QED
    BY <1>1, <1>2, <2>1, <2>8, CheckedStep DEF Step
<1> QED
  BY <1>3, <1>4

LEMMA TruncateChecked ==
  ASSUME IInv, NEW i \in DOMAIN calls, Truncate(i)
  PROVE  (\A j \in DOMAIN calls : Checked(revisions, calls[j]))'
<1> DEFINE c == calls[i]
           d == [c EXCEPT !.pc = "fill"]
<1>1. TypeOK /\ c \in CallType /\ Checked(revisions, c)
  BY CallFacts DEF IInv
<1>2. UNCHANGED <<scene, revisions, viewed, uses>> /\ c.pc = "truncate" /\ Step(i, d) /\ Kept
  BY NothingForgotten DEF Truncate
<1>3. /\ d.ops = c.ops /\ d.before = c.before /\ d.proved = c.proved /\ d.pc = "fill"
      /\ d.writes = c.writes /\ d.unlinks = c.unlinks
  BY <1>1 DEF CallType
<1>4. Checked(revisions', d)
  <2> HIDE DEF d
  <2>1. \A p : Cleared(revisions, c, p) => Cleared(revisions', d, p)
    BY <1>2, <1>3, ClearedStays
  <2>2. Passed(d) = DOMAIN c.ops /\ Passed(c) = DOMAIN c.ops
    BY <1>2, <1>3 DEF Passed
  <2> QED
    BY <1>1, <1>2, <1>3, <2>1, <2>2 DEF Checked, Ended
<1> QED
  BY <1>1, <1>2, <1>4, CheckedStep DEF Step

(* What is left of a list was in it.                                       *)
LEMMA TailsAreFromTheList ==
  ASSUME NEW S, NEW s \in Seq(S), s # <<>>
  PROVE  \A n \in DOMAIN Tail(s) : \E m \in DOMAIN s : Tail(s)[n] = s[m]
<1> TAKE n \in DOMAIN Tail(s)
<1>1. Len(Tail(s)) = Len(s) - 1 /\ n \in 1..(Len(s) - 1) /\ Tail(s)[n] = s[n + 1]
  OBVIOUS
<1>2. n + 1 \in DOMAIN s
  BY <1>1
<1> QED
  BY <1>1, <1>2

LEMMA FillChecked ==
  ASSUME IInv, NEW i \in DOMAIN calls, Fill(i)
  PROVE  (\A j \in DOMAIN calls : Checked(revisions, calls[j]))'
<1> DEFINE c == calls[i]
           rest == [c EXCEPT !.writes = Tail(@)]
           d == [rest EXCEPT !.pc = Apply(rest)]
<1>1. TypeOK /\ c \in CallType /\ Placed(c) /\ Checked(revisions, c)
  BY CallFacts DEF IInv
<1>2. UNCHANGED <<scene, revisions, viewed, uses>> /\ c.pc = "fill" /\ Step(i, d) /\ Kept
  BY NothingForgotten DEF Fill
<1>3. /\ d.ops = c.ops /\ d.before = c.before /\ d.proved = c.proved
      /\ d.pc \in {"truncate", "unlink", "consume"}
      /\ d.writes = Tail(c.writes) /\ d.unlinks = c.unlinks
  BY <1>1, ApplyGoes DEF CallType
<1>4. \A n \in DOMAIN Tail(c.writes) : \E m \in DOMAIN c.writes : Tail(c.writes)[n] = c.writes[m]
  <2>1. c.writes \in Seq([path : Paths, text : Text]) /\ c.writes # <<>>
    BY <1>1, <1>2 DEF CallType, Placed
  <2> HIDE DEF c
  <2> QED
    BY <2>1, TailsAreFromTheList
<1>5. Checked(revisions', d)
  <2> HIDE DEF d
  <2>1. \A p : Cleared(revisions, c, p) => Cleared(revisions', d, p)
    BY <1>2, <1>3, ClearedStays
  <2>2. Passed(d) = DOMAIN c.ops /\ Passed(c) = DOMAIN c.ops
    BY <1>2, <1>3 DEF Passed
  <2>3. \A n \in DOMAIN d.writes : Cleared(revisions', d, d.writes[n].path)
    BY <1>1, <1>2, <1>3, <1>4, <2>1 DEF Checked, Ended
  <2> QED
    BY <1>1, <1>2, <1>3, <2>1, <2>2, <2>3 DEF Checked, Ended
<1> QED
  BY <1>1, <1>2, <1>5, CheckedStep DEF Step

LEMMA UnlinkChecked ==
  ASSUME IInv, NEW i \in DOMAIN calls, Unlink(i)
  PROVE  (\A j \in DOMAIN calls : Checked(revisions, calls[j]))'
<1> DEFINE c == calls[i]
           rest == [c EXCEPT !.unlinks = Tail(@)]
           d == [rest EXCEPT !.pc = Apply(rest)]
<1>1. TypeOK /\ c \in CallType /\ Placed(c) /\ Checked(revisions, c)
  BY CallFacts DEF IInv
<1>2. UNCHANGED <<scene, revisions, viewed, uses>> /\ c.pc = "unlink" /\ Kept
  BY NothingForgotten DEF Unlink
<1>3. /\ d.ops = c.ops /\ d.before = c.before /\ d.proved = c.proved
      /\ d.pc \in {"truncate", "unlink", "consume"}
      /\ d.writes = c.writes /\ d.unlinks = Tail(c.unlinks)
  BY <1>1, ApplyGoes DEF CallType
<1>4. \A n \in DOMAIN Tail(c.unlinks) : \E m \in DOMAIN c.unlinks : Tail(c.unlinks)[n] = c.unlinks[m]
  <2>1. c.unlinks \in Seq(Paths) /\ c.unlinks # <<>>
    BY <1>1, <1>2 DEF CallType, Placed
  <2> HIDE DEF c
  <2> QED
    BY <2>1, TailsAreFromTheList
<1>5. Checked(revisions', d)
  <2> HIDE DEF d
  <2>1. \A p : Cleared(revisions, c, p) => Cleared(revisions', d, p)
    BY <1>2, <1>3, ClearedStays
  <2>2. Passed(d) = DOMAIN c.ops /\ Passed(c) = DOMAIN c.ops
    BY <1>2, <1>3 DEF Passed
  <2>3. \A n \in DOMAIN d.unlinks : Cleared(revisions', d, d.unlinks[n])
    BY <1>1, <1>2, <1>3, <1>4, <2>1 DEF Checked, Ended
  <2> QED
    BY <1>1, <1>2, <1>3, <2>1, <2>2, <2>3 DEF Checked, Ended
<1>6. CASE Step(i, d)
  BY <1>1, <1>2, <1>5, <1>6, CheckedStep DEF Step
<1>7. CASE Fail(i)
  <2>1. Checked(revisions', [c EXCEPT !.pc = "failed"])
    BY <1>1, FailingChecked
  <2> QED
    BY <2>1, <1>1, <1>2, <1>7, CheckedStep DEF Fail, Step
<1> QED
  BY <1>6, <1>7 DEF Unlink

LEMMA ConsumeChecked ==
  ASSUME IInv, NEW i \in DOMAIN calls, Consume(i)
  PROVE  (\A j \in DOMAIN calls : Checked(revisions, calls[j]))'
<1> DEFINE c == calls[i]
           d == [c EXCEPT !.pc = "done"]
<1>1. TypeOK /\ c \in CallType
  BY CallFacts DEF IInv
<1>2. UNCHANGED <<scene, disk, viewed>> /\ revisions' = Forget(c) /\ Step(i, d)
  BY DEF Consume
<1>3. Kept
  <2>1. DOMAIN revisions' = Tokens
    BY <1>2 DEF Forget
  <2> QED
    BY <1>1, <1>2, <2>1, Forgetting DEF Kept
<1>4. Checked(revisions', d)
  BY <1>1, EndedIsChecked DEF CallType
<1> QED
  BY <1>1, <1>2, <1>3, <1>4, CheckedStep DEF Step

LEMMA ExpireChecked ==
  ASSUME IInv, Expire
  PROVE  (\A j \in DOMAIN calls : Checked(revisions, calls[j]))'
<1>1. TypeOK /\ \A j \in DOMAIN calls : Checked(revisions, calls[j])
  BY DEF IInv
<1>2. UNCHANGED <<scene, calls>>
  BY DEF Expire
<1>3. Kept
  <2>1. revisions \in Seq(Revision) /\ revisions' \in Seq(Revision) /\ Len(revisions') = Len(revisions)
    BY <1>1, ExpireTypes DEF TypeOK
  <2>2. DOMAIN revisions' = Tokens
    BY <2>1 DEF Tokens
  <2> QED
    BY <1>1, <2>2, ExpireTypes DEF Kept
<1>4. \A j \in DOMAIN calls' : Checked(revisions', calls'[j])
  BY <1>1, <1>2, <1>3, CheckedStays
<1> QED
  BY <1>4, <1>2 DEF Checked, Cleared, InScope, OneByOne

LEMMA OutsideChecked ==
  ASSUME IInv, Outside
  PROVE  (\A j \in DOMAIN calls : Checked(revisions, calls[j]))'
<1>1. UNCHANGED <<scene, revisions, calls>> /\ \A j \in DOMAIN calls : Checked(revisions, calls[j])
  BY DEF IInv, Outside
<1>2. \A j \in DOMAIN calls' : Checked(revisions', calls'[j])
  BY <1>1
<1> QED
  BY <1>1, <1>2 DEF Checked, Cleared, InScope, OneByOne

-----------------------------------------------------------------------------
(* Calls that run one after another.                                       *)

LEMMA SequentialStep ==
  ASSUME IInv, UNCHANGED scene, NEW i \in DOMAIN calls, NEW d,
         DOMAIN calls' = DOMAIN calls, Len(calls') = Len(calls), calls'[i] = d,
         OneByOne => Single(disk', revisions', d) /\ TokensAreGood'
  PROVE  Sequential'
<1> SUFFICES ASSUME OneByOne
             PROVE  /\ Len(calls') <= 1 /\ TokensAreGood'
                    /\ \A j \in DOMAIN calls' : Single(disk', revisions', calls'[j])
  BY DEF Sequential, OneByOne
<1>1. Len(calls) <= 1 /\ calls \in Seq(CallType)
  BY DEF IInv, Sequential, TypeOK
<1>2. \A j \in DOMAIN calls : j = i
  BY <1>1
<1> QED
  BY <1>1, <1>2

LEMMA TokensStayGood ==
  ASSUME IInv, OneByOne, UNCHANGED <<revisions, viewed, uses>>
  PROVE  TokensAreGood'
BY DEF IInv, Sequential, TokensAreGood, Tokens

LEMMA SingleNow ==
  ASSUME IInv, OneByOne, NEW i \in DOMAIN calls
  PROVE  Single(disk, revisions, calls[i]) /\ calls[i] \in CallType /\ Placed(calls[i])
BY CallFacts DEF IInv, Sequential

(* A step that keeps the tokens and goes on with the same call.            *)
LEMMA EndedIsSingle ==
  ASSUME NEW c, c.pc \in {"done", "failed"}, NEW files, NEW rs
  PROVE  Single(files, rs, c)
BY DEF Single, Ended

LEMMA FailingSequential ==
  ASSUME IInv, NEW i \in DOMAIN calls, Fail(i), UNCHANGED <<scene, revisions, viewed, uses>>
  PROVE  Sequential'
<1> DEFINE d == [calls[i] EXCEPT !.pc = "failed"]
<1>1. TypeOK /\ d.pc = "failed" /\ Step(i, d)
  BY CallFacts DEF IInv, Fail, CallType
<1>2. DOMAIN calls' = DOMAIN calls /\ Len(calls') = Len(calls) /\ calls'[i] = d
  BY <1>1 DEF Step, TypeOK
<1> HIDE DEF d
<1>3. Single(disk', revisions', d)
  BY <1>1, EndedIsSingle
<1> QED
  BY <1>2, <1>3, TokensStayGood, SequentialStep

LEMMA CallSequential ==
  ASSUME IInv, Call
  PROVE  Sequential'
<1> SUFFICES ASSUME OneByOne
             PROVE  /\ Len(calls') <= 1 /\ TokensAreGood'
                    /\ \A j \in DOMAIN calls' : Single(disk', revisions', calls'[j])
  BY DEF Sequential, OneByOne, Call
<1> DEFINE old == IF Active = {} THEN <<>> ELSE calls
<1>0. PICK r \in Requests : \E d : Opened(r, d) /\ calls' = Append(old, d)
  BY DEF Call, Opened
<1>1. PICK d : Opened(r, d) /\ calls' = Append(old, d)
  BY <1>0
<1>2. UNCHANGED <<scene, disk, revisions, viewed, uses>>
  BY DEF Call
<1>3. old = <<>>
  <2>1. calls \in Seq(CallType) /\ Len(calls) \in Nat /\ DOMAIN calls = 1..Len(calls)
    BY DEF IInv, TypeOK
  <2>2. CASE Active # {}
    <3>1. Len(calls) < 1
      BY <2>2 DEF Call, OneByOne
    <3>2. DOMAIN calls = {}
      BY <2>1, <3>1
    <3> QED
      BY <2>2, <3>2 DEF Active
  <2> QED
    BY <2>2
<1>4. Len(calls') = 1 /\ DOMAIN calls' = {1} /\ calls'[1] = d
  <2> HIDE DEF old
  <2> QED
    BY <1>1, <1>3
<1>5. Single(disk', revisions', d)
  BY <1>1, <1>2 DEF Opened, Single
<1>6. TokensAreGood'
  BY <1>2, TokensStayGood
<1> QED
  BY <1>4, <1>5, <1>6

LEMMA ReadTextSequential ==
  ASSUME IInv, NEW i \in DOMAIN calls, ReadText(i)
  PROVE  Sequential'
<1> DEFINE c == calls[i]
           p == c.ops[c.k].path
<1>1. UNCHANGED <<scene, disk, revisions, viewed, uses>> /\ c.pc = "read"
  BY DEF ReadText
<1>2. CASE Fail(i)
  BY <1>1, <1>2, FailingSequential
<1>3. ASSUME NEW d \in {[c EXCEPT !.pc = "issue", !.text = disk[p]], [c EXCEPT !.k = @ + 1]}, Step(i, d)
      PROVE  Sequential'
  <2>1. c \in CallType /\ calls \in Seq(CallType)
    BY CallFacts DEF IInv, TypeOK
  <2>2. DOMAIN calls' = DOMAIN calls /\ Len(calls') = Len(calls) /\ calls'[i] = d
    <3> HIDE DEF c
    <3> QED
      BY <2>1, <1>3 DEF Step
  <2>3. /\ d.pc \in {"read", "issue"} /\ d.proved = c.proved
        /\ d.pc = "issue" => d.text = disk[p] /\ d.ops = c.ops /\ d.k = c.k
    BY <2>1, <1>1, <1>3 DEF CallType
  <2>4. OneByOne => Single(disk', revisions', d)
    <3> SUFFICES ASSUME OneByOne PROVE Single(disk', revisions', d)
      OBVIOUS
    <3>1. Single(disk, revisions, c)
      BY SingleNow
    <3> QED
      BY <3>1, <2>3, <1>1 DEF Single, Ended
  <2> QED
    BY <1>1, <2>2, <2>4, TokensStayGood, SequentialStep
<1> QED
  BY <1>2, <1>3 DEF ReadText

LEMMA IssueSequential ==
  ASSUME IInv, NEW i \in DOMAIN calls, Issue(i)
  PROVE  Sequential'
<1> DEFINE c == calls[i]
           p == c.ops[c.k].path
           r == [path |-> p, hash |-> disk[p], known |-> TRUE]
<1>1. UNCHANGED <<scene, disk>> /\ c.pc = "issue"
  BY DEF Issue
<1>2. /\ c \in CallType /\ calls \in Seq(CallType) /\ revisions \in Seq(Revision) /\ viewed \in Seq(OnDisk)
      /\ uses \in Seq(Nat) /\ Len(viewed) = Len(revisions) /\ Len(uses) = Len(revisions)
  BY CallFacts DEF IInv, TypeOK
<1>3. \/ UNCHANGED <<revisions, viewed, uses>>
      \/ revisions' = Append(revisions, r) /\ viewed' = Append(viewed, c.text) /\ uses' = Append(uses, 0)
  BY DEF Issue
<1>4. ASSUME OneByOne
      PROVE  TokensAreGood' /\ \A t \in Tokens : t \in DOMAIN revisions' /\ revisions'[t] = revisions[t]
  <2>1. CASE UNCHANGED <<revisions, viewed, uses>>
    BY <1>4, <2>1, TokensStayGood DEF Tokens
  <2>2. CASE revisions' = Append(revisions, r) /\ viewed' = Append(viewed, c.text) /\ uses' = Append(uses, 0)
    <3> DEFINE n == Len(revisions) + 1
    <3>1. c.text = disk[p]
      BY <1>1, <1>4, SingleNow DEF Single
    <3> HIDE DEF c, p
    <3>2. /\ DOMAIN revisions' = 1..n /\ revisions'[n] = r /\ viewed'[n] = c.text /\ uses'[n] = 0
          /\ \A t \in 1..Len(revisions) : /\ revisions'[t] = revisions[t] /\ viewed'[t] = viewed[t]
                                          /\ uses'[t] = uses[t]
      BY <1>2, <2>2
    <3>3. Tokens = 1..Len(revisions) /\ Len(revisions) \in Nat
      BY <1>2 DEF Tokens
    <3>4. TokensAreGood
      BY <1>4 DEF IInv, Sequential
    <3>5. \A t \in 1..n : /\ viewed'[t] = revisions'[t].hash
                          /\ uses'[t] <= 1 /\ (revisions'[t].known = TRUE => uses'[t] = 0)
      <4> TAKE t \in 1..n
      <4>1. CASE t \in 1..Len(revisions)
        BY <3>2, <3>3, <3>4, <4>1 DEF TokensAreGood
      <4>2. CASE t = n
        BY <3>1, <3>2, <4>2
      <4>3. t \in 1..Len(revisions) \/ t = n
        BY <3>3
      <4> QED
        BY <4>1, <4>2, <4>3
    <3>6. TokensAreGood'
      BY <3>2, <3>5 DEF TokensAreGood, Tokens
    <3> QED
      BY <3>2, <3>3, <3>6
  <2> QED
    BY <2>1, <2>2, <1>3
<1>5. PICK d \in {[c EXCEPT !.pc = "read", !.k = @ + 1], [c EXCEPT !.pc = "done"], [c EXCEPT !.pc = "failed"]} :
        Step(i, d)
  BY DEF Issue, Fail
<1>6. DOMAIN calls' = DOMAIN calls /\ Len(calls') = Len(calls) /\ calls'[i] = d
  <2> HIDE DEF c
  <2> QED
    BY <1>2, <1>5 DEF Step
<1>7. d.pc \in {"read", "done", "failed"} /\ d.proved = c.proved
  BY <1>2, <1>5 DEF CallType
<1>8. OneByOne => Single(disk', revisions', d) /\ TokensAreGood'
  <2> SUFFICES ASSUME OneByOne PROVE Single(disk', revisions', d) /\ TokensAreGood'
    OBVIOUS
  <2>1. Single(disk, revisions, c)
    BY SingleNow
  <2>2. ~Ended(c)
    BY <1>1 DEF Ended
  <2> QED
    BY <1>4, <1>7, <2>1, <2>2 DEF Single, Tokens
<1> QED
  BY <1>1, <1>6, <1>8, SequentialStep

LEMMA CheckSequential ==
  ASSUME IInv, NEW i \in DOMAIN calls, Check(i)
  PROVE  Sequential'
<1> DEFINE c == calls[i]
           o == c.ops[c.k]
           t == c.token[c.k]
           checked == [c EXCEPT !.proved = IF scene.guard /\ ~AsksForNew(o) THEN @ \cup {t} ELSE @]
<1>1. UNCHANGED <<scene, disk, revisions, viewed, uses>> /\ c.pc = "check"
  BY DEF Check
<1>2. c \in CallType /\ calls \in Seq(CallType)
  BY CallFacts DEF IInv, TypeOK
<1>3. CASE Fail(i)
  BY <1>1, <1>3, FailingSequential
<1>4. ASSUME Allowed(o, t), NEW d \in {[checked EXCEPT !.k = @ + 1], [checked EXCEPT !.pc = "plan", !.k = 1]},
             Step(i, d)
      PROVE  Sequential'
  <2>1. DOMAIN calls' = DOMAIN calls /\ Len(calls') = Len(calls) /\ calls'[i] = d
    <3> HIDE DEF c
    <3> QED
      BY <1>2, <1>4 DEF Step
  <2>2. /\ d.pc \in {"check", "plan"} /\ d.before = c.before
        /\ \A u \in d.proved : u \in c.proved \/ (u = t /\ scene.guard /\ ~AsksForNew(o))
    <3>1. /\ checked.pc = "check" /\ checked.before = c.before /\ {"pc", "k", "before", "proved"} \subseteq DOMAIN checked
          /\ \A u \in checked.proved : u \in c.proved \/ (u = t /\ scene.guard /\ ~AsksForNew(o))
      BY <1>1, <1>2 DEF CallType
    <3> HIDE DEF checked
    <3>2. CASE d = [checked EXCEPT !.k = @ + 1]
      BY <3>1, <3>2
    <3>3. CASE d = [checked EXCEPT !.pc = "plan", !.k = 1]
      BY <3>1, <3>3
    <3> QED
      BY <3>2, <3>3, <1>4
  <2>3. scene.guard /\ ~AsksForNew(o) => t \in DOMAIN revisions /\ revisions[t].known = TRUE
    <3>1. scene.guard /\ ~AsksForNew(o) => t \in Tokens /\ revisions[t].known
      BY <1>4 DEF Allowed, ValidExisting
    <3> QED
      BY <3>1 DEF Tokens
  <2>4. OneByOne => Single(disk', revisions', d)
    <3> SUFFICES ASSUME OneByOne PROVE Single(disk', revisions', d)
      OBVIOUS
    <3>1. Single(disk, revisions, c)
      BY SingleNow
    <3> QED
      BY <3>1, <2>2, <2>3, <1>1 DEF Single, Ended
  <2> QED
    BY <1>1, <2>1, <2>4, TokensStayGood, SequentialStep
<1> QED
  BY <1>3, <1>4 DEF Check

LEMMA PlanSequential ==
  ASSUME IInv, NEW i \in DOMAIN calls, Plan(i)
  PROVE  Sequential'
<1> DEFINE c == calls[i]
           o == c.ops[c.k]
           planned == [c EXCEPT !.writes = @ \o Writes(o), !.unlinks = @ \o Unlinks(o)]
<1>1. UNCHANGED <<scene, disk, revisions, viewed, uses>> /\ c.pc = "plan"
  BY DEF Plan
<1>2. c \in CallType /\ calls \in Seq(CallType)
  BY CallFacts DEF IInv, TypeOK
<1>3. CASE Fail(i)
  BY <1>1, <1>3, FailingSequential
<1>4. ASSUME NEW d \in {[planned EXCEPT !.k = @ + 1],
                       [planned EXCEPT !.pc = IF c.dry THEN "done" ELSE Apply(planned)]},
             Step(i, d)
      PROVE  Sequential'
  <2>1. DOMAIN calls' = DOMAIN calls /\ Len(calls') = Len(calls) /\ calls'[i] = d
    <3> HIDE DEF c
    <3> QED
      BY <1>2, <1>4 DEF Step
  <2>2. d.pc # "issue" /\ d.before = c.before /\ d.proved = c.proved
    <3>1. /\ planned.pc = "plan" /\ planned.before = c.before /\ planned.proved = c.proved
          /\ {"pc", "k", "before", "proved"} \subseteq DOMAIN planned
      BY <1>1, <1>2 DEF CallType
    <3> HIDE DEF planned
    <3>2. CASE d = [planned EXCEPT !.k = @ + 1]
      BY <3>1, <3>2
    <3>3. CASE d = [planned EXCEPT !.pc = IF c.dry THEN "done" ELSE Apply(planned)]
      BY <3>1, <3>3, ApplyGoes
    <3> QED
      BY <3>2, <3>3, <1>4
  <2>3. OneByOne => Single(disk', revisions', d)
    <3> SUFFICES ASSUME OneByOne PROVE Single(disk', revisions', d)
      OBVIOUS
    <3>1. Single(disk, revisions, c)
      BY SingleNow
    <3> QED
      BY <3>1, <2>2, <1>1 DEF Single, Ended
  <2> QED
    BY <1>1, <2>1, <2>3, TokensStayGood, SequentialStep
<1> QED
  BY <1>3, <1>4 DEF Plan

(* While a call writes, only its tokens matter.                            *)
LEMMA WritingSequential ==
  ASSUME IInv, NEW i \in DOMAIN calls, NEW d, Step(i, d), UNCHANGED <<scene, revisions, viewed, uses>>,
         ~Ended(calls[i]), d.pc \in {"fill", "truncate", "unlink", "consume"}, d.proved = calls[i].proved
  PROVE  Sequential'
<1>1. calls \in Seq(CallType)
  BY DEF IInv, TypeOK
<1>2. DOMAIN calls' = DOMAIN calls /\ Len(calls') = Len(calls) /\ calls'[i] = d
  BY <1>1 DEF Step
<1>3. OneByOne => Single(disk', revisions', d)
  <2> SUFFICES ASSUME OneByOne PROVE Single(disk', revisions', d)
    OBVIOUS
  <2>1. Single(disk, revisions, calls[i])
    BY SingleNow
  <2> QED
    BY <2>1 DEF Single
<1> QED
  BY <1>2, <1>3, TokensStayGood, SequentialStep

LEMMA TruncateSequential ==
  ASSUME IInv, NEW i \in DOMAIN calls, Truncate(i)
  PROVE  Sequential'
<1> DEFINE d == [calls[i] EXCEPT !.pc = "fill"]
<1>1. calls[i] \in CallType
  BY CallFacts DEF IInv
<1>2. d.pc = "fill" /\ d.proved = calls[i].proved
  BY <1>1 DEF CallType
<1>3. Step(i, d) /\ UNCHANGED <<scene, revisions, viewed, uses>> /\ ~Ended(calls[i])
  BY DEF Truncate, Ended
<1> HIDE DEF d
<1> QED
  BY <1>2, <1>3, WritingSequential

LEMMA FillSequential ==
  ASSUME IInv, NEW i \in DOMAIN calls, Fill(i)
  PROVE  Sequential'
<1> DEFINE rest == [calls[i] EXCEPT !.writes = Tail(@)]
           d == [rest EXCEPT !.pc = Apply(rest)]
<1>1. calls[i] \in CallType
  BY CallFacts DEF IInv
<1>2. d.pc \in {"truncate", "unlink", "consume"} /\ d.proved = calls[i].proved
  BY <1>1, ApplyGoes DEF CallType
<1>3. Step(i, d) /\ UNCHANGED <<scene, revisions, viewed, uses>> /\ ~Ended(calls[i])
  BY DEF Fill, Ended
<1> HIDE DEF d
<1> QED
  BY <1>2, <1>3, WritingSequential

LEMMA UnlinkSequential ==
  ASSUME IInv, NEW i \in DOMAIN calls, Unlink(i)
  PROVE  Sequential'
<1> DEFINE rest == [calls[i] EXCEPT !.unlinks = Tail(@)]
           d == [rest EXCEPT !.pc = Apply(rest)]
<1>1. calls[i] \in CallType
  BY CallFacts DEF IInv
<1>2. d.pc \in {"truncate", "unlink", "consume"} /\ d.proved = calls[i].proved
  BY <1>1, ApplyGoes DEF CallType
<1>3. UNCHANGED <<scene, revisions, viewed, uses>> /\ ~Ended(calls[i])
  BY DEF Unlink, Ended
<1>4. Step(i, d) \/ Fail(i)
  BY DEF Unlink
<1> HIDE DEF d
<1> QED
  BY <1>2, <1>3, <1>4, WritingSequential, FailingSequential

LEMMA ConsumeSequential ==
  ASSUME IInv, NEW i \in DOMAIN calls, Consume(i)
  PROVE  Sequential'
<1> DEFINE c == calls[i]
           d == [c EXCEPT !.pc = "done"]
<1>1. /\ TypeOK /\ c \in CallType /\ calls \in Seq(CallType) /\ uses \in Seq(Nat)
      /\ Tokens = DOMAIN uses
  BY CallFacts DEF IInv, TypeOK, Tokens
<1>2. UNCHANGED <<scene, disk, viewed>> /\ revisions' = Forget(c) /\ Step(i, d) /\ c.pc = "consume"
  BY DEF Consume
<1>3. uses' = [t \in Tokens |-> IF t \in c.proved THEN uses[t] + 1 ELSE uses[t]]
  BY DEF Consume
<1>4. Tokens' = Tokens
  BY <1>2 DEF Forget, Tokens
<1>5. DOMAIN calls' = DOMAIN calls /\ Len(calls') = Len(calls) /\ calls'[i] = d
  <2> HIDE DEF d
  <2> QED
    BY <1>1, <1>2 DEF Step
<1>6. Single(disk', revisions', d)
  <2>1. d.pc = "done"
    BY <1>1 DEF CallType
  <2> HIDE DEF d
  <2> QED
    BY <2>1, EndedIsSingle
<1>7. ASSUME OneByOne PROVE TokensAreGood'
  <2>1. \A t \in c.proved : t \in Tokens /\ revisions[t].known = TRUE
    BY <1>2, <1>7, SingleNow DEF Single, Ended, Tokens
  <2>2. TokensAreGood
    BY <1>7 DEF IInv, Sequential
  <2>3. \A t \in Tokens : t \in c.proved => t \in Spent(c)
    BY DEF Spent
  <2>4. \A t \in Tokens : revisions'[t].hash = revisions[t].hash
    BY <1>1, <1>2, Forgetting
  <2>5. \A t \in Tokens : revisions'[t].known = TRUE => revisions[t].known = TRUE /\ t \notin c.proved
    BY <1>1, <1>2, <2>3, Forgetting
  <2>6. ASSUME NEW t \in Tokens PROVE viewed'[t] = revisions'[t].hash
    <3>1. viewed[t] = revisions[t].hash
      BY <2>2, <2>6 DEF TokensAreGood
    <3> QED
      BY <1>2, <2>4, <2>6, <3>1
  <2>7. ASSUME NEW t \in Tokens PROVE uses'[t] <= 1
    <3>1. CASE t \in c.proved
      <4>1. uses[t] = 0
        BY <2>1, <2>2, <2>7, <3>1 DEF TokensAreGood
      <4> QED
        BY <1>3, <2>7, <3>1, <4>1
    <3>2. CASE t \notin c.proved
      <4>1. uses[t] <= 1
        BY <2>2, <2>7 DEF TokensAreGood
      <4> QED
        BY <1>3, <2>7, <3>2, <4>1
    <3> QED
      BY <3>1, <3>2
  <2>8. ASSUME NEW t \in Tokens, revisions'[t].known = TRUE PROVE uses'[t] = 0
    <3>1. revisions[t].known = TRUE /\ t \notin c.proved
      BY <2>5, <2>8
    <3>2. uses[t] = 0
      BY <2>2, <2>8, <3>1 DEF TokensAreGood
    <3> QED
      BY <1>3, <2>8, <3>1, <3>2
  <2> QED
    BY <1>4, <2>6, <2>7, <2>8 DEF TokensAreGood
<1> HIDE DEF d
<1> QED
  BY <1>2, <1>5, <1>6, <1>7, SequentialStep

(* Between the calls of a batch nothing is running.                        *)
LEMMA IdleIsSingle ==
  ASSUME Active = {}
  PROVE  \A j \in DOMAIN calls : \A files, rs : Single(files, rs, calls[j])
BY DEF Active, Single, Ended

LEMMA ExpireSequential ==
  ASSUME IInv, Expire
  PROVE  Sequential'
<1>1. TypeOK /\ Active = {} /\ UNCHANGED <<scene, disk, viewed, uses, calls>>
  BY DEF IInv, Expire
<1>2. Tokens' = Tokens
  <2>1. revisions \in Seq(Revision) /\ revisions' \in Seq(Revision) /\ Len(revisions') = Len(revisions)
    BY <1>1, ExpireTypes DEF TypeOK
  <2> QED
    BY <2>1 DEF Tokens
<1>3. TokensAreGood => TokensAreGood'
  BY <1>1, <1>2, ExpireTypes DEF TokensAreGood
<1>4. \A j \in DOMAIN calls' : Single(disk', revisions', calls'[j])
  BY <1>1, IdleIsSingle
<1> QED
  BY <1>1, <1>3, <1>4 DEF IInv, Sequential, OneByOne

LEMMA OutsideSequential ==
  ASSUME IInv, Outside
  PROVE  Sequential'
<1>1. Active = {} /\ UNCHANGED <<scene, revisions, viewed, uses, calls>>
  BY DEF Outside
<1>2. TokensAreGood => TokensAreGood'
  BY <1>1 DEF TokensAreGood, Tokens
<1>3. \A j \in DOMAIN calls' : Single(disk', revisions', calls'[j])
  BY <1>1, IdleIsSingle
<1> QED
  BY <1>1, <1>2, <1>3 DEF IInv, Sequential, OneByOne

-----------------------------------------------------------------------------
LEMMA InitInvariant == Init => IInv
<1> SUFFICES ASSUME Init PROVE IInv
  OBVIOUS
<1>1. TypeOK
  BY InitTypes
<1>2. DOMAIN calls = {} /\ Len(calls) = 0 /\ Tokens = {}
  BY DEF Init, Tokens
<1> QED
  BY <1>1, <1>2 DEF IInv, Sequential, TokensAreGood

(* Every step keeps the invariant.                                         *)
LEMMA NextInvariant == IInv /\ [Next]_vars => IInv'
<1> SUFFICES ASSUME IInv, [Next]_vars PROVE IInv'
  OBVIOUS
<1>1. TypeOK
  BY DEF IInv
<1>2. CASE Call
  BY <1>1, <1>2, CallTypes, CallChecked, CallSequential DEF IInv
<1>3. ASSUME NEW i \in DOMAIN calls, Work(i) PROVE IInv'
  <2>1. CASE ReadText(i)
    BY <1>1, <2>1, ReadTextTypes, ReadTextChecked, ReadTextSequential DEF IInv
  <2>2. CASE Issue(i)
    BY <1>1, <2>2, IssueTypes, IssueChecked, IssueSequential DEF IInv
  <2>3. CASE Check(i)
    BY <1>1, <2>3, CheckTypes, CheckChecked, CheckSequential DEF IInv
  <2>4. CASE Plan(i)
    BY <1>1, <2>4, PlanTypes, PlanChecked, PlanSequential DEF IInv
  <2>5. CASE Truncate(i)
    BY <1>1, <2>5, TruncateTypes, TruncateChecked, TruncateSequential DEF IInv
  <2>6. CASE Fill(i)
    BY <1>1, <2>6, FillTypes, FillChecked, FillSequential DEF IInv
  <2>7. CASE Unlink(i)
    BY <1>1, <2>7, UnlinkTypes, UnlinkChecked, UnlinkSequential DEF IInv
  <2>8. CASE Consume(i)
    BY <1>1, <2>8, ConsumeTypes, ConsumeChecked, ConsumeSequential DEF IInv
  <2> QED
    BY <1>3, <2>1, <2>2, <2>3, <2>4, <2>5, <2>6, <2>7, <2>8 DEF Work
<1>4. CASE Expire
  BY <1>1, <1>4, ExpireTypes, ExpireChecked, ExpireSequential DEF IInv
<1>5. CASE Outside
  BY <1>1, <1>5, OutsideTypes, OutsideChecked, OutsideSequential DEF IInv
<1>6. CASE UNCHANGED vars
  <2>1. UNCHANGED <<scene, disk, revisions, viewed, uses, calls, moves>>
    BY <1>6 DEF vars
  <2>2. TypeOK'
    BY <1>1, <2>1 DEF TypeOK
  <2>3. (\A j \in DOMAIN calls : Checked(revisions, calls[j]))'
    <3>1. \A j \in DOMAIN calls' : Checked(revisions', calls'[j])
      BY <2>1 DEF IInv
    <3> QED
      BY <3>1, <2>1 DEF Checked, Cleared, InScope, OneByOne
  <2>4. Sequential'
    <3>1. \A j \in DOMAIN calls : Single(disk, revisions, calls[j]) <=> Single(disk', revisions', calls'[j])
      BY <2>1
    <3>2. TokensAreGood => TokensAreGood'
      BY <2>1 DEF TokensAreGood, Tokens
    <3> QED
      BY <2>1, <3>1, <3>2 DEF IInv, Sequential, OneByOne
  <2> QED
    BY <2>2, <2>3, <2>4 DEF IInv
<1> QED
  BY <1>2, <1>3, <1>4, <1>5, <1>6 DEF Next

LEMMA Invariance == Spec => []IInv
BY InitInvariant, NextInvariant, PTL DEF Spec

-----------------------------------------------------------------------------
(* Every reachable state of every instance is well-typed: a call is at an  *)
(* operation it has, at a file it has still to write or to remove.         *)
THEOREM TypeCorrect == Spec => []TypeOK
BY Invariance, PTL DEF IInv

(* A token lets one change through, however a batch of calls and the       *)
(* programs beside it order their steps, while calls run one after another *)
(* (fresh_source.py, consume).                                             *)
THEOREM TokensAreGoodOnce == Spec => []TokensAreUsedOnce
<1>1. IInv => TokensAreUsedOnce
  BY DEF IInv, Sequential, TokensAreGood, TokensAreUsedOnce, CannotBeReplayed, OneByOne
<1> QED
  BY <1>1, Invariance, PTL

(* What changes on disk while a call runs is what a call writes or         *)
(* removes, in the place it is at.                                         *)
LEMMA WhoChangesTheDisk ==
  ASSUME IInv, Next, Active # {}, NEW p \in Paths, disk'[p] # disk[p]
  PROVE  \E i \in DOMAIN calls :
           /\ calls[i].pc \in {"truncate", "fill", "unlink"}
           /\ \/ calls[i].pc # "unlink" /\ (\E n \in DOMAIN calls[i].writes : calls[i].writes[n].path = p)
              \/ calls[i].pc = "unlink" /\ (\E n \in DOMAIN calls[i].unlinks : calls[i].unlinks[n] = p)
<1>1. disk \in [Paths -> OnDisk]
  BY DEF IInv, TypeOK
<1>2. PICK i \in DOMAIN calls : Truncate(i) \/ Fill(i) \/ Unlink(i)
  BY DEF Next, Work, Call, ReadText, Issue, Check, Plan, Consume, Expire, Outside
<1>3. calls[i] \in CallType /\ Placed(calls[i])
  BY CallFacts DEF IInv
<1>4. ASSUME NEW S, NEW s \in Seq(S), s # <<>> PROVE 1 \in DOMAIN s /\ Head(s) = s[1]
  BY <1>4
<1>5. CASE Truncate(i) \/ Fill(i)
  <2>1. p = Head(calls[i].writes).path
    BY <1>1, <1>5 DEF Truncate, Fill
  <2>2. calls[i].writes \in Seq([path : Paths, text : Text]) /\ calls[i].writes # <<>>
    BY <1>3, <1>5 DEF CallType, Placed, Truncate, Fill
  <2>3. 1 \in DOMAIN calls[i].writes /\ Head(calls[i].writes) = calls[i].writes[1]
    BY <2>2, <1>4
  <2> QED
    BY <1>5, <2>1, <2>3 DEF Truncate, Fill
<1>6. CASE Unlink(i)
  <2>1. p = Head(calls[i].unlinks)
    BY <1>1, <1>6 DEF Unlink
  <2>2. calls[i].unlinks \in Seq(Paths) /\ calls[i].unlinks # <<>>
    BY <1>3, <1>6 DEF CallType, Placed, Unlink
  <2>3. 1 \in DOMAIN calls[i].unlinks /\ Head(calls[i].unlinks) = calls[i].unlinks[1]
    BY <2>2, <1>4
  <2> QED
    BY <1>6, <2>1, <2>3 DEF Unlink
<1> QED
  BY <1>2, <1>5, <1>6

(* It was cleared.                                                         *)
LEMMA ChangesAreCleared ==
  ASSUME IInv, Next, Active # {}, NEW p \in Paths, disk'[p] # disk[p]
  PROVE  \E i \in DOMAIN calls : Cleared(revisions, calls[i], p) /\ ~Ended(calls[i])
<1>1. PICK i \in DOMAIN calls :
        /\ calls[i].pc \in {"truncate", "fill", "unlink"}
        /\ \/ calls[i].pc # "unlink" /\ (\E n \in DOMAIN calls[i].writes : calls[i].writes[n].path = p)
           \/ calls[i].pc = "unlink" /\ (\E n \in DOMAIN calls[i].unlinks : calls[i].unlinks[n] = p)
  BY WhoChangesTheDisk
<1>2. ~Ended(calls[i]) /\ Checked(revisions, calls[i])
  BY <1>1 DEF Ended, IInv
<1>3. Cleared(revisions, calls[i], p)
  BY <1>1, <1>2 DEF Checked
<1> QED
  BY <1>2, <1>3

ChangesInScope ==
  \A p \in Paths : disk'[p] # disk[p] /\ Active # {} =>
    /\ p \in Project \/ scene.unrestricted
    /\ scene.guard => p \in scene.editable

(* Whatever the model asks for, a tool changes nothing outside the project *)
(* unless the sandbox is open, and with the guard nothing but the editable *)
(* files (fresh_source.py, _require_editable).                             *)
THEOREM ChangesStayInScope == Spec => ScopeIsKept
<1>1. ASSUME IInv, [Next]_vars PROVE [ChangesInScope]_vars
  <2> SUFFICES ASSUME Next PROVE ChangesInScope
    BY <1>1
  <2> SUFFICES ASSUME NEW p \in Paths, disk'[p] # disk[p], Active # {} PROVE InScope(p)
    BY DEF ChangesInScope, InScope
  <2> QED
    BY <1>1, ChangesAreCleared DEF Cleared
<1>2. Spec => [][ChangesInScope]_vars
  BY <1>1, Invariance, PTL DEF Spec
<1> QED
  BY <1>2 DEF ScopeIsKept, ChangesInScope

ChangesWereViewed ==
  scene.guard /\ scene.threads = 1 =>
    \A i \in DOMAIN calls, p \in Paths :
      calls[i].pc \in {"truncate", "unlink"} /\ disk'[p] # disk[p] /\ Exists(p)
        /\ disk[p] = calls[i].before[p] =>
          \E t \in calls[i].proved : revisions[t].path = p /\ viewed[t] = disk[p]

(* With the guard, what a tool overwrites or removes of what it found is   *)
(* the very text a view or read_multi had read for the token the call      *)
(* named, whatever page it showed, whatever batch the model asks for and   *)
(* whatever other programs write between the calls                         *)
(* (fresh_source.py; docs/PYTESTPILOT_SECURITY.md:21-27).                  *)
THEOREM OverwritesOnlyWhatWasRead == Spec => WritesWhatWasRead
<1>1. ASSUME IInv, [Next]_vars PROVE [ChangesWereViewed]_vars
  <2> SUFFICES ASSUME Next PROVE ChangesWereViewed
    BY <1>1
  <2> SUFFICES ASSUME scene.guard, OneByOne, NEW i \in DOMAIN calls, NEW p \in Paths,
                      calls[i].pc \in {"truncate", "unlink"}, disk'[p] # disk[p], Exists(p),
                      disk[p] = calls[i].before[p]
               PROVE  \E t \in calls[i].proved : revisions[t].path = p /\ viewed[t] = disk[p]
    BY DEF ChangesWereViewed, OneByOne
  <2>1. Active # {}
    BY DEF Active, Ended
  <2>2. PICK j \in DOMAIN calls : Cleared(revisions, calls[j], p)
    BY <1>1, <2>1, ChangesAreCleared
  <2>3. j = i
    <3>1. Len(calls) <= 1 /\ calls \in Seq(CallType)
      BY <1>1 DEF IInv, Sequential, TypeOK
    <3> QED
      BY <3>1
  <2>4. ProvedText(revisions, calls[i], p)
    BY <2>2, <2>3 DEF Cleared, Exists
  <2>5. \A t \in Tokens : viewed[t] = revisions[t].hash
    BY <1>1 DEF IInv, Sequential, TokensAreGood
  <2> QED
    BY <2>4, <2>5 DEF ProvedText, Tokens
<1>2. Spec => [][ChangesWereViewed]_vars
  BY <1>1, Invariance, PTL DEF Spec
<1> QED
  BY <1>2 DEF WritesWhatWasRead, ChangesWereViewed

-----------------------------------------------------------------------------
(* Counting.                                                               *)

(* A set of numbers that is not empty has a least one: the strict subsets  *)
(* of finite sets are well founded, and so are the intervals 1..n.         *)
LEMMA LeastNumber ==
  ASSUME NEW T \in SUBSET Nat, T # {}
  PROVE  \E n \in T : \A m \in T : n <= m
<1> DEFINE below == {1..n : n \in T}
<1>1. below \subseteq FiniteSubsetsOf(Nat) /\ below # {}
  <2>1. \A n \in T : 1..n \subseteq Nat /\ IsFiniteSet(1..n)
    BY FS_Interval
  <2> QED BY <2>1 DEF FiniteSubsetsOf
<1>2. IsWellFoundedOn(StrictSubsetOrdering(Nat), FiniteSubsetsOf(Nat))
  BY FS_StrictSubsetOrderingWellFounded
<1> HIDE DEF below
<1>3. \E x \in below : \A y \in below : ~ (<<y, x>> \in StrictSubsetOrdering(Nat))
  BY <1>1, <1>2, WFMin, Zenon
<1> USE DEF below
<1>4. PICK n \in T : \A m \in T : ~ (<<1..m, 1..n>> \in StrictSubsetOrdering(Nat))
  BY <1>3
<1>5. ASSUME NEW m \in T, m < n  PROVE FALSE
  <2>1. 1..m \subseteq 1..n /\ n \in 1..n /\ n \notin 1..m
    BY <1>5
  <2>2. 1..m \subseteq Nat /\ 1..n \subseteq Nat /\ 1..m # 1..n
    BY <2>1
  <2>3. <<1..m, 1..n>> \in StrictSubsetOrdering(Nat)
    BY <2>1, <2>2 DEF StrictSubsetOrdering
  <2> QED BY <2>3, <1>4
<1> QED BY <1>5

(* Induction on numbers up to n, about a set instead of a predicate.       *)
LEMMA UpTo ==
  ASSUME NEW n \in Nat, NEW T,
         0 \in T, \A k \in 1..n : k - 1 \in T => k \in T
  PROVE  0..n \subseteq T
<1> DEFINE missing == (0..n) \ T
<1>1. SUFFICES ASSUME missing # {}  PROVE FALSE
  OBVIOUS
<1>2. missing \in SUBSET Nat
  OBVIOUS
<1>3. PICK k \in missing : \A m \in missing : k <= m
  <2> HIDE DEF missing
  <2> QED BY <1>1, <1>2, LeastNumber
<1>4. k \in 0..n /\ k \notin T
  BY <1>3
<1>5. k \in 1..n /\ k - 1 \in 0..n
  BY <1>4
<1>6. k - 1 \notin missing
  <2> HIDE DEF missing
  <2> QED BY <1>3, <1>5
<1>7. k - 1 \in T
  BY <1>5, <1>6
<1> QED BY <1>4, <1>5, <1>7
-----------------------------------------------------------------------------
(* What operations make of the files.                                      *)

SameIn(S, f, h) == \A q \in S : f[q] = h[q]

(* An operation changes its own files, by what is in them.                 *)
LEMMA AfterFacts ==
  ASSUME NEW f, NEW h, DOMAIN f = Paths, DOMAIN h = Paths, NEW o \in Operation
  PROVE  /\ DOMAIN After(f, o) = Paths
         /\ \A p \in Paths : p \notin Touched(o) => After(f, o)[p] = f[p]
         /\ SameIn(Touched(o), f, h) => SameIn(Touched(o), After(f, o), After(h, o))
<1>1. DOMAIN After(f, o) = Paths
  BY DEF After
<1>2. ASSUME NEW p \in Paths, p \notin Touched(o)  PROVE After(f, o)[p] = f[p]
  <2>1. p # o.path /\ (o.action = "update" => p # o.to)
    BY <1>2 DEF Touched
  <2> QED BY <2>1 DEF After
<1>3. ASSUME SameIn(Touched(o), f, h), NEW p \in Touched(o)  PROVE After(f, o)[p] = After(h, o)[p]
  <2>1. f[o.path] = h[o.path] /\ f[p] = h[p] /\ p \in Paths
    BY <1>3, OperationFacts DEF Touched, SameIn
  <2>2. CASE o.action \in {"delete", "remove"} /\ p = o.path
    BY <2>1, <2>2 DEF After
  <2>3. CASE o.action \in {"write", "add"} /\ p = o.path
    BY <2>1, <2>3 DEF After
  <2>4. CASE o.action = "edit" /\ p = o.path
    BY <2>1, <2>4 DEF After
  <2>5. CASE o.action = "update" /\ p = o.to
    BY <2>1, <2>5 DEF After
  <2>6. CASE o.action = "update" /\ p = o.path /\ p # o.to
    BY <2>1, <2>6 DEF After
  <2>7. CASE ~ \/ o.action \in {"delete", "remove", "write", "add", "edit"} /\ p = o.path
               \/ o.action = "update" /\ p = o.to
               \/ o.action = "update" /\ p = o.path /\ p # o.to
    BY <2>1, <2>7 DEF After
  <2> QED BY <2>2, <2>3, <2>4, <2>5, <2>6, <2>7
<1> QED BY <1>1, <1>2, <1>3 DEF SameIn

Patching(files, ops, n, g) ==
  g = [k \in 0..n |-> IF k = 0 THEN files ELSE After(g[k - 1], ops[k])]

(* The recursion defines what every prefix of the operations makes.        *)
LEMMA PatchingExists ==
  ASSUME NEW files, NEW ops, NEW n \in Nat
  PROVE  \E g : Patching(files, ops, n, g)
<1> DEFINE T == {k \in 0..n : \E g : Patching(files, ops, k, g)}
<1>1. 0 \in T
  <2>1. Patching(files, ops, 0, [j \in 0..0 |-> files])
    BY DEF Patching
  <2> QED BY <2>1
<1>2. ASSUME NEW k \in 1..n, k - 1 \in T  PROVE k \in T
  <2>1. PICK g : Patching(files, ops, k - 1, g)
    BY <1>2
  <2> DEFINE h == [j \in 0..k |-> IF j = k THEN After(g[k - 1], ops[k]) ELSE g[j]]
  <2>2. Patching(files, ops, k, h)
    BY <2>1 DEF Patching
  <2> QED BY <2>2
<1> HIDE DEF T
<1>3. 0..n \subseteq T
  BY <1>1, <1>2, UpTo
<1>4. n \in T
  BY <1>3
<1> QED BY <1>4 DEF T

LEMMA PatchedIsPatching ==
  ASSUME NEW files, NEW ops, Len(ops) \in Nat
  PROVE  \E g : Patching(files, ops, Len(ops), g) /\ Patched(files, ops) = g[Len(ops)]
<1>1. PICK g : Patching(files, ops, Len(ops), g)
  BY PatchingExists
<1> DEFINE upTo == CHOOSE g1 : g1 = [n \in 0..Len(ops) |-> IF n = 0 THEN files ELSE After(g1[n - 1], ops[n])]
<1>2. Patching(files, ops, Len(ops), upTo)
  BY <1>1 DEF Patching
<1>3. Patched(files, ops) = upTo[Len(ops)]
  BY Zenon DEF Patched
<1> QED BY <1>2, <1>3

Disjoint(ops) == \A j, k \in DOMAIN ops : j # k => Touched(ops[j]) \cap Touched(ops[k]) = {}

(* Operations with files of their own make of each file what the one whose *)
(* file it is makes of it.                                                 *)
LEMMA PatchedApart ==
  ASSUME NEW files, DOMAIN files = Paths, NEW ops \in Seq(Operation), Disjoint(ops),
         NEW j \in DOMAIN ops, NEW p \in Touched(ops[j])
  PROVE  Patched(files, ops)[p] = After(files, ops[j])[p]
<1> DEFINE l == Len(ops)
<1>1. l \in Nat /\ DOMAIN ops = 1..l /\ \A k \in 1..l : ops[k] \in Operation
  OBVIOUS
<1>2. PICK g : Patching(files, ops, l, g) /\ Patched(files, ops) = g[l]
  BY <1>1, PatchedIsPatching
<1> HIDE DEF l
<1> DEFINE As(n) == \A k \in 1..l : \A q \in Touched(ops[k]) :
                      g[n][q] = IF k <= n THEN After(files, ops[k])[q] ELSE files[q]
           T == {n \in 0..l : DOMAIN g[n] = Paths /\ As(n)}
<1>3. 0 \in T
  <2>1. g[0] = files
    BY <1>1, <1>2 DEF Patching
  <2> QED BY <1>1, <2>1
<1>4. ASSUME NEW n \in 1..l, n - 1 \in T  PROVE n \in T
  <2>1. g[n] = After(g[n - 1], ops[n])
    BY <1>1, <1>2 DEF Patching
  <2>2. DOMAIN g[n - 1] = Paths /\ As(n - 1) /\ n \in Nat
    BY <1>1, <1>4
  <2>3. ops[n] \in Operation
    BY <1>1
  <2>4. /\ DOMAIN g[n] = Paths
        /\ \A q \in Paths : q \notin Touched(ops[n]) => g[n][q] = g[n - 1][q]
        /\ (\A q \in Touched(ops[n]) : g[n - 1][q] = files[q])
             => \A q \in Touched(ops[n]) : g[n][q] = After(files, ops[n])[q]
    <3> DEFINE f == g[n - 1]
               h == g[n]
               o == ops[n]
    <3>1. DOMAIN f = Paths /\ DOMAIN files = Paths /\ o \in Operation /\ h = After(f, o)
      BY <2>1, <2>2, <2>3
    <3> HIDE DEF f, h, o
    <3>2. /\ DOMAIN h = Paths
          /\ \A q \in Paths : q \notin Touched(o) => h[q] = f[q]
          /\ SameIn(Touched(o), f, files) => SameIn(Touched(o), h, After(files, o))
      BY <3>1, AfterFacts
    <3> QED BY <3>1, <3>2 DEF f, h, o, SameIn
  <2>5. \A q \in Touched(ops[n]) : g[n - 1][q] = files[q]
    BY <2>2
  <2>6. ASSUME NEW k \in 1..l, NEW q \in Touched(ops[k])
        PROVE  g[n][q] = IF k <= n THEN After(files, ops[k])[q] ELSE files[q]
    <3>1. CASE k = n
      BY <2>4, <2>5, <3>1
    <3>2. CASE k # n
      <4>1. q \notin Touched(ops[n])
        BY <1>1, <3>2 DEF Disjoint
      <4>2. q \in Paths
        BY <1>1, OperationFacts
      <4>3. g[n][q] = g[n - 1][q]
        BY <2>4, <4>1, <4>2
      <4>4. g[n - 1][q] = IF k <= n - 1 THEN After(files, ops[k])[q] ELSE files[q]
        BY <2>2
      <4>5. k <= n - 1 <=> k <= n
        BY <1>1, <3>2
      <4> QED BY <4>3, <4>4, <4>5
    <3> QED BY <3>1, <3>2
  <2>7. As(n)
    BY <2>6
  <2> HIDE DEF As
  <2> QED BY <2>4, <2>7
<1> HIDE DEF T
<1>5. 0..l \subseteq T
  BY <1>1, <1>3, <1>4, UpTo
<1>6. l \in T
  BY <1>1, <1>5
<1>7. g[l][p] = After(files, ops[j])[p]
  <2>1. As(l)
    BY <1>6 DEF T
  <2>2. j \in 1..l /\ j <= l
    BY <1>1
  <2> QED BY <2>1, <2>2
<1> QED BY <1>2, <1>7

(* What a possible operation plans is what it makes of its files.          *)
LEMMA PlansWhatItMakes ==
  ASSUME disk \in [Paths -> OnDisk], NEW o \in Operation, Possible(o), o.action = "delete" => Exists(o.path),
         NEW files, DOMAIN files = Paths, SameIn(Touched(o), disk, files)
  PROVE  /\ \A n \in DOMAIN Writes(o) : Writes(o)[n].text = After(files, o)[Writes(o)[n].path]
         /\ \A n \in DOMAIN Unlinks(o) : After(files, o)[Unlinks(o)[n]] = NoFile /\ disk[Unlinks(o)[n]] # NoFile
         /\ \A m, n \in DOMAIN Unlinks(o) : m = n
         /\ \A p \in Touched(o) : \/ \E n \in DOMAIN Writes(o) : Writes(o)[n].path = p
                                  \/ \E n \in DOMAIN Unlinks(o) : Unlinks(o)[n] = p
                                  \/ After(files, o)[p] = files[p]
<1>1. /\ o.path \in Paths /\ o.path \in Touched(o) /\ disk[o.path] = files[o.path]
      /\ o.action = "update" => o.to \in Paths /\ o.to \in Touched(o)
      /\ \A p \in Touched(o) : p = o.path \/ (o.action = "update" /\ p = o.to)
  BY OperationFacts DEF Touched, SameIn
<1>2. ASSUME o.action \in {"edit", "update"} PROVE disk[o.path] \in Text
  BY <1>2, OperationFacts DEF Possible, Exists, OnDisk
<1>3. CASE o.action \in {"delete", "remove"}
  <2>1. Writes(o) = <<>> /\ Unlinks(o) = <<o.path>>
    BY <1>3 DEF Writes, Unlinks
  <2>2. After(files, o)[o.path] = NoFile
    BY <1>1, <1>3 DEF After
  <2>3. disk[o.path] # NoFile
    BY <1>3 DEF Possible, Exists
  <2> QED BY <1>1, <1>3, <2>1, <2>2, <2>3
<1>4. CASE o.action \in {"write", "add"}
  <2>1. Writes(o) = <<[path |-> o.path, text |-> o.text]>> /\ Unlinks(o) = <<>>
    BY <1>4 DEF Writes, Unlinks, Changed
  <2>2. After(files, o)[o.path] = o.text
    BY <1>1, <1>4 DEF After
  <2> QED BY <1>1, <1>4, <2>1, <2>2
<1>5. CASE o.action = "edit"
  <2>1. Writes(o) = <<[path |-> o.path, text |-> Changed(o)]>> /\ Unlinks(o) = <<>>
    BY <1>5 DEF Writes, Unlinks
  <2>2. Changed(o) = Replace(disk[o.path], o.old, o.new)
    BY <1>5 DEF Changed
  <2>3. After(files, o)[o.path] = Replace(disk[o.path], o.old, o.new)
    BY <1>1, <1>5 DEF After, Replace
  <2> QED BY <1>1, <1>5, <2>1, <2>2, <2>3
<1>6. CASE o.action = "update"
  <2>1. Writes(o) = <<[path |-> o.to, text |-> Changed(o)]>>
    BY <1>6 DEF Writes
  <2>2. Unlinks(o) = IF o.to # o.path THEN <<o.path>> ELSE <<>>
    BY <1>6 DEF Unlinks
  <2>3. After(files, o)[o.to] = Replace(disk[o.path], o.old, o.new)
    BY <1>1, <1>6 DEF After, Replace
  <2>4. o.to # o.path => After(files, o)[o.path] = NoFile
    BY <1>1, <1>6 DEF After
  <2>5. Changed(o) = Replace(disk[o.path], o.old, o.new)
    <3>1. CASE o.old = None
      <4> DEFINE t == disk[o.path]
      <4>1. t \in Seq(Lines) /\ None \notin Lines
        BY <1>2, <1>6, TextsAssumption DEF Text
      <4>2. Changed(o) = t
        BY <1>6, <3>1 DEF Changed
      <4> HIDE DEF t
      <4>3. t = [i \in DOMAIN t |-> t[i]] /\ \A i \in DOMAIN t : t[i] # None
        BY <4>1
      <4>4. Replace(t, o.old, o.new) = t
        BY <3>1, <4>3 DEF Replace
      <4> QED BY <4>2, <4>4 DEF t
    <3>2. CASE o.old # None
      BY <1>6, <3>2 DEF Changed
    <3> QED BY <3>1, <3>2
  <2>6. disk[o.path] # NoFile
    BY <1>6 DEF Possible, Exists
  <2>7. CASE o.to # o.path
    BY <1>1, <1>6, <2>1, <2>2, <2>3, <2>4, <2>5, <2>6, <2>7
  <2>8. CASE o.to = o.path
    BY <1>1, <1>6, <2>1, <2>2, <2>3, <2>5, <2>8
  <2> QED BY <2>7, <2>8
<1>7. CASE o.action = "read"
  <2>1. Writes(o) = <<>> /\ Unlinks(o) = <<>>
    BY <1>7 DEF Writes, Unlinks
  <2>2. After(files, o)[o.path] = files[o.path]
    BY <1>1, <1>7 DEF After
  <2>3. DOMAIN Writes(o) = {} /\ DOMAIN Unlinks(o) = {}
    BY <2>1
  <2>4. \A p \in Touched(o) : After(files, o)[p] = files[p]
    BY <1>1, <1>7, <2>2
  <2>5. \A n \in DOMAIN Writes(o) : Writes(o)[n].text = After(files, o)[Writes(o)[n].path]
    BY <2>3
  <2>6. /\ \A n \in DOMAIN Unlinks(o) : After(files, o)[Unlinks(o)[n]] = NoFile /\ disk[Unlinks(o)[n]] # NoFile
        /\ \A m, n \in DOMAIN Unlinks(o) : m = n
    BY <2>3
  <2> QED BY <2>4, <2>5, <2>6, Zenon
<1>8. o.action \in {"read", "delete", "remove", "edit", "write", "add", "update"}
  BY DEF Operation
<1> QED BY <1>3, <1>4, <1>5, <1>6, <1>7, <1>8
-----------------------------------------------------------------------------
(* Calls that have their files to themselves.                              *)

(* What is still to be written and removed, and what the files of a call   *)
(* are to be in the end.                                                   *)
ToWrite(c)  == {c.writes[n].path : n \in DOMAIN c.writes}
ToRemove(c) == {c.unlinks[n] : n \in DOMAIN c.unlinks}
Goal(c)     == Patched(c.before, c.ops)
Applies(c)  == c.pc \in {"truncate", "fill", "unlink", "consume"}

(* Every call: it reads or it changes files, and those are its own.        *)
KeepsToItsFiles(c) ==
  /\ c.tool = "read" => c.pc \in {"read", "issue", "done", "failed"}
  /\ Mutates(c) => c.pc \notin {"read", "issue"}
  /\ ToWrite(c) \cup ToRemove(c) \subseteq TouchedBy(c)

(* A call that is not done yet has planned what leads to its goal.         *)
LeadsToGoal(c) ==
  /\ \A n \in DOMAIN c.writes : c.writes[n].text = Goal(c)[c.writes[n].path]
  /\ \A n \in DOMAIN c.unlinks : Goal(c)[c.unlinks[n]] = NoFile
  /\ \A m, n \in DOMAIN c.unlinks : c.unlinks[m] = c.unlinks[n] => m = n

Untouched(files, c) == \A p \in TouchedBy(c) : files[p] = c.before[p]

(* One that has the files to itself: nothing is changed before all is      *)
(* planned, then each file is still to be changed or has become what it is *)
(* to be, and nothing a removal needs is missing.                          *)
OnTheWay(files, c) ==
  /\ c.pc \in {"check", "plan"} => Untouched(files, c)
  /\ \A k \in Passed(c) : c.ops[k].action = "delete" => c.before[c.ops[k].path] # NoFile
  /\ LeadsToGoal(c)
  /\ \A u \in ToRemove(c) : files[u] # NoFile
  /\ c.pc = "plan" =>
       \A k \in DOMAIN c.ops : \A p \in Touched(c.ops[k]) :
         IF k < c.k THEN p \in ToWrite(c) \cup ToRemove(c) \/ Goal(c)[p] = c.before[p]
         ELSE p \notin ToRemove(c)
  /\ Applies(c) => ~c.dry /\ \A p \in TouchedBy(c) : p \in ToWrite(c) \cup ToRemove(c) \/ files[p] = Goal(c)[p]
  /\ c.pc = "consume" => c.writes = <<>> /\ c.unlinks = <<>>

Neighbours == \A i, j \in Active : i < j => i \in calls[j].beside

AtomInv ==
  /\ \A i \in DOMAIN calls : KeepsToItsFiles(calls[i])
  /\ Neighbours
  /\ \A i \in Active : Mutates(calls[i]) /\ Alone(i) => OnTheWay(disk, calls[i])

Apart(c) == Disjoint(c.ops)

(* What a step of a call does to the files f, and makes of the call c.     *)
Progress(f, h, c, d) ==
  /\ d.ops = c.ops /\ d.beside = c.beside /\ d.tool = c.tool /\ d.before = c.before
  /\ KeepsToItsFiles(d)
  /\ \A p \in Paths : h[p] # f[p] => Mutates(c) /\ p \in TouchedBy(c)
  /\ Mutates(c) /\ Apart(c) /\ OnTheWay(f, c) =>
       IF Ended(d) THEN \A p \in TouchedBy(c) : h[p] = (IF d.pc = "done" /\ ~c.dry THEN Goal(c) ELSE c.before)[p]
       ELSE OnTheWay(h, d)

(* The call a step makes of call i.                                        *)
Advances(i) ==
  /\ ~Ended(calls[i])
  /\ \E d : Step(i, d) /\ Progress(disk, disk', calls[i], d)

LEMMA TouchedFiles ==
  ASSUME NEW c \in CallType
  PROVE  /\ TouchedBy(c) \subseteq Paths
         /\ \A k \in DOMAIN c.ops : c.ops[k] \in Operation /\ Touched(c.ops[k]) \subseteq TouchedBy(c)
<1>1. \A k \in DOMAIN c.ops : c.ops[k] \in Operation
  <2>1. c.ops \in Seq(Operation)
    BY DEF CallType
  <2> QED BY <2>1
<1>2. \A k \in DOMAIN c.ops : Touched(c.ops[k]) \subseteq Paths
  BY <1>1, OperationFacts
<1> QED BY <1>1, <1>2 DEF TouchedBy

LEMMA ReadsAdvance ==
  ASSUME TypeOK, NEW i \in DOMAIN calls, KeepsToItsFiles(calls[i]), ReadText(i) \/ Issue(i)
  PROVE  Advances(i)
<1> DEFINE c == calls[i]
           p == c.ops[c.k].path
<1>1. c \in CallType /\ c.pc \in {"read", "issue"} /\ disk' = disk
  BY CallFacts DEF ReadText, Issue
<1>2. PICK d : Step(i, d) /\ d \in {[c EXCEPT !.pc = "issue", !.text = disk[p]], [c EXCEPT !.k = @ + 1],
                                   [c EXCEPT !.pc = "failed"], [c EXCEPT !.pc = "read", !.k = @ + 1],
                                   [c EXCEPT !.pc = "done"]}
  BY DEF ReadText, Issue, Fail
<1>3. /\ d.ops = c.ops /\ d.beside = c.beside /\ d.tool = c.tool /\ d.before = c.before
      /\ d.writes = c.writes /\ d.unlinks = c.unlinks /\ d.pc \in {"read", "issue", "done", "failed"}
  <2>1. {"pc", "ops", "before", "beside", "tool", "writes", "unlinks"} \subseteq DOMAIN c
    BY <1>1 DEF CallType
  <2>2. CASE d = [c EXCEPT !.pc = "issue", !.text = disk[p]]
    BY <2>1, <2>2
  <2>3. CASE d = [c EXCEPT !.k = @ + 1]
    BY <1>1, <2>1, <2>3
  <2>4. CASE d = [c EXCEPT !.pc = "failed"]
    BY <2>1, <2>4
  <2>5. CASE d = [c EXCEPT !.pc = "read", !.k = @ + 1]
    BY <2>1, <2>5
  <2>6. CASE d = [c EXCEPT !.pc = "done"]
    BY <2>1, <2>6
  <2> QED BY <1>2, <2>2, <2>3, <2>4, <2>5, <2>6
<1>4. KeepsToItsFiles(c) /\ c.tool = "read"
  BY <1>1 DEF KeepsToItsFiles, Mutates
<1>5. ~Mutates(c)
  BY <1>4 DEF Mutates
<1>6. ToWrite(d) = ToWrite(c) /\ ToRemove(d) = ToRemove(c) /\ TouchedBy(d) = TouchedBy(c)
  BY <1>3 DEF ToWrite, ToRemove, TouchedBy
<1>7. KeepsToItsFiles(d)
  BY <1>3, <1>4, <1>6 DEF KeepsToItsFiles, Mutates
<1>8. Progress(disk, disk', c, d)
  BY <1>1, <1>3, <1>5, <1>7 DEF Progress
<1>9. ~Ended(c)
  BY <1>1 DEF Ended
<1> QED BY <1>2, <1>8, <1>9 DEF Advances

(* A call that fails leaves what it has planned where it is.               *)
LEMMA FailingKeeps ==
  ASSUME NEW c \in CallType, KeepsToItsFiles(c), NEW d, d = [c EXCEPT !.pc = "failed"]
  PROVE  /\ d.ops = c.ops /\ d.beside = c.beside /\ d.tool = c.tool /\ d.before = c.before
         /\ d.pc = "failed" /\ Ended(d) /\ KeepsToItsFiles(d)
<1>1. /\ d.ops = c.ops /\ d.beside = c.beside /\ d.tool = c.tool /\ d.before = c.before
      /\ d.writes = c.writes /\ d.unlinks = c.unlinks /\ d.pc = "failed"
  BY DEF CallType
<1>2. ToWrite(d) = ToWrite(c) /\ ToRemove(d) = ToRemove(c) /\ TouchedBy(d) = TouchedBy(c)
  BY <1>1 DEF ToWrite, ToRemove, TouchedBy
<1> QED BY <1>1, <1>2 DEF KeepsToItsFiles, Mutates, Ended

(* Nothing has changed yet when a check or a plan fails.                   *)
LEMMA FailingAdvances ==
  ASSUME TypeOK, NEW i \in DOMAIN calls, KeepsToItsFiles(calls[i]), calls[i].pc \in {"check", "plan"},
         Fail(i), disk' = disk
  PROVE  Advances(i)
<1> DEFINE c == calls[i]
           d == [c EXCEPT !.pc = "failed"]
<1>1. c \in CallType /\ Step(i, d)
  BY CallFacts DEF Fail
<1>2. /\ d.ops = c.ops /\ d.beside = c.beside /\ d.tool = c.tool /\ d.before = c.before
      /\ d.pc = "failed" /\ Ended(d) /\ KeepsToItsFiles(d)
  BY <1>1, FailingKeeps
<1>3. OnTheWay(disk, c) => \A p \in TouchedBy(c) : disk'[p] = c.before[p]
  BY DEF OnTheWay, Untouched
<1>4. Progress(disk, disk', c, d)
  <2> HIDE DEF d
  <2> QED BY <1>2, <1>3 DEF Progress
<1>5. ~Ended(c)
  BY DEF Ended
<1> QED BY <1>1, <1>4, <1>5 DEF Advances

LEMMA CheckAdvances ==
  ASSUME TypeOK, NEW i \in DOMAIN calls, Checked(revisions, calls[i]), KeepsToItsFiles(calls[i]), Check(i)
  PROVE  Advances(i)
<1> DEFINE c == calls[i]
           o == c.ops[c.k]
           t == c.token[c.k]
           checked == [c EXCEPT !.proved = IF scene.guard /\ ~AsksForNew(o) THEN @ \cup {t} ELSE @]
<1>1. c \in CallType /\ Placed(c) /\ o \in Operation /\ c.pc = "check" /\ disk' = disk
  BY CallFacts DEF Check
<1>2. CASE ~Allowed(o, t)
  BY <1>1, <1>2, FailingAdvances DEF Check
<1>3. CASE Allowed(o, t)
  <2>1. PICK d : /\ Step(i, d)
                 /\ IF c.k < Len(c.ops) THEN d = [checked EXCEPT !.k = @ + 1]
                    ELSE d = [checked EXCEPT !.pc = "plan", !.k = 1]
    BY <1>3 DEF Check
  <2>2. /\ d.ops = c.ops /\ d.beside = c.beside /\ d.tool = c.tool /\ d.before = c.before
        /\ d.writes = c.writes /\ d.unlinks = c.unlinks
        /\ IF c.k < Len(c.ops) THEN d.pc = "check" /\ d.k = c.k + 1 ELSE d.pc = "plan" /\ d.k = 1
    <3>1. /\ checked.ops = c.ops /\ checked.beside = c.beside /\ checked.tool = c.tool /\ checked.before = c.before
          /\ checked.writes = c.writes /\ checked.unlinks = c.unlinks /\ checked.pc = "check" /\ checked.k = c.k
          /\ DOMAIN checked = DOMAIN c
          /\ {"pc", "k", "ops", "before", "beside", "tool", "writes", "unlinks"} \subseteq DOMAIN c
      BY <1>1 DEF CallType
    <3> HIDE DEF checked
    <3>2. CASE c.k < Len(c.ops)
      BY <3>1, <3>2, <2>1
    <3>3. CASE ~(c.k < Len(c.ops))
      BY <3>1, <3>3, <2>1
    <3> QED BY <3>2, <3>3
  <2>3. c.writes = <<>> /\ c.unlinks = <<>>
    BY <1>1 DEF Checked
  <2>4. ToWrite(d) = {} /\ ToRemove(d) = {} /\ TouchedBy(d) = TouchedBy(c)
    BY <2>2, <2>3 DEF ToWrite, ToRemove, TouchedBy
  <2>5. KeepsToItsFiles(d)
    BY <1>1, <2>2, <2>4 DEF KeepsToItsFiles, Mutates
  <2>6. DOMAIN c.ops = 1..Len(c.ops) /\ Len(c.ops) \in Nat /\ c.k \in DOMAIN c.ops
    BY <1>1 DEF CallType, Placed
  <2>7. ASSUME OnTheWay(disk, c)  PROVE OnTheWay(disk, d)
    <3>1. Untouched(disk, c) /\ Untouched(disk, d)
      BY <1>1, <2>2, <2>4, <2>7 DEF OnTheWay, Untouched
    <3>2. \A k \in Passed(d) : k \in Passed(c) \/ k = c.k
      BY <1>1, <2>2, <2>6 DEF Passed
    <3>3. o.action = "delete" => c.before[o.path] # NoFile
      <4>1. o.path \in TouchedBy(c)
        BY <1>1, <2>6, TouchedFiles DEF Touched
      <4> QED BY <1>3, <3>1, <4>1 DEF Allowed, Exists, Untouched
    <3>4. \A k \in Passed(c) : c.ops[k].action = "delete" => c.before[c.ops[k].path] # NoFile
      BY <2>7 DEF OnTheWay
    <3>5. \A k \in Passed(d) : d.ops[k].action = "delete" => d.before[d.ops[k].path] # NoFile
      BY <2>2, <3>2, <3>3, <3>4
    <3>6. LeadsToGoal(d)
      <4>1. DOMAIN d.writes = {} /\ DOMAIN d.unlinks = {}
        BY <2>2, <2>3
      <4> QED BY <4>1 DEF LeadsToGoal
    <3>7. d.pc = "plan" => d.k = 1 /\ \A k \in DOMAIN d.ops : ~ (k < d.k)
      BY <2>2, <2>6
    <3> QED BY <2>2, <2>4, <3>1, <3>5, <3>6, <3>7 DEF OnTheWay, Applies
  <2>8. ~Ended(d) /\ ~Ended(c)
    BY <1>1, <2>2 DEF Ended
  <2>9. Progress(disk, disk', c, d)
    BY <1>1, <2>2, <2>5, <2>7, <2>8 DEF Progress
  <2> QED BY <2>1, <2>8, <2>9 DEF Advances
<1> QED BY <1>2, <1>3

(* The members of one list after another are those of both.                *)
Joins(w, s, u) ==
  /\ \A m \in DOMAIN s : \E n \in DOMAIN w : w[n] = s[m]
  /\ \A m \in DOMAIN u : \E n \in DOMAIN w : w[n] = u[m]
  /\ \A n \in DOMAIN w : (\E m \in DOMAIN s : w[n] = s[m]) \/ (\E m \in DOMAIN u : w[n] = u[m])

LEMMA JoinedMembers ==
  ASSUME NEW S, NEW s \in Seq(S), NEW u \in Seq(S)
  PROVE  Joins(s \o u, s, u)
<1> DEFINE su == s \o u
           l  == Len(s)
           m1 == Len(u)
<1>1. /\ su \in Seq(S) /\ Len(su) = l + m1 /\ l \in Nat /\ m1 \in Nat
      /\ DOMAIN s = 1..l /\ DOMAIN u = 1..m1
      /\ \A i \in 1..(l + m1) : su[i] = IF i <= l THEN s[i] ELSE u[i - l]
  BY ConcatProperties
<1>2. DOMAIN su = 1..(l + m1)
  BY <1>1
<1> HIDE DEF su, l, m1
<1>3. ASSUME NEW m \in DOMAIN s  PROVE \E n \in DOMAIN su : su[n] = s[m]
  <2>1. m \in DOMAIN su /\ m <= l
    BY <1>1, <1>2
  <2> QED BY <1>1, <1>2, <2>1
<1>4. ASSUME NEW m \in DOMAIN u  PROVE \E n \in DOMAIN su : su[n] = u[m]
  <2>1. l + m \in 1..(l + m1) /\ ~ (l + m <= l) /\ (l + m) - l = m
    BY <1>1
  <2>2. su[l + m] = u[m]
    BY <1>1, <2>1
  <2> QED BY <1>2, <2>1, <2>2
<1>5. \A n \in DOMAIN su : (\E m \in DOMAIN s : su[n] = s[m]) \/ (\E m \in DOMAIN u : su[n] = u[m])
  BY AppendedAll DEF su
<1> QED BY <1>3, <1>4, <1>5 DEF su, Joins

LEMMA JoinedApart ==
  ASSUME NEW S, NEW s \in Seq(S), NEW u \in Seq(S),
         \A m, n \in DOMAIN s : s[m] = s[n] => m = n, \A m, n \in DOMAIN u : m = n,
         \A m \in DOMAIN s, n \in DOMAIN u : s[m] # u[n]
  PROVE  \A m, n \in DOMAIN (s \o u) : (s \o u)[m] = (s \o u)[n] => m = n
<1> DEFINE su == s \o u
           l  == Len(s)
           m1 == Len(u)
<1>1. /\ su \in Seq(S) /\ Len(su) = l + m1 /\ l \in Nat /\ m1 \in Nat
      /\ DOMAIN s = 1..l /\ DOMAIN u = 1..m1
      /\ \A i \in 1..(l + m1) : su[i] = IF i <= l THEN s[i] ELSE u[i - l]
  BY ConcatProperties
<1>2. DOMAIN su = 1..(l + m1)
  BY <1>1
<1> HIDE DEF su, l, m1
<1>3. ASSUME NEW m \in DOMAIN su, NEW n \in DOMAIN su, su[m] = su[n]  PROVE m = n
  <2>1. m \in 1..(l + m1) /\ n \in 1..(l + m1)
    BY <1>2
  <2>2. CASE m <= l /\ n <= l
    <3>1. m \in DOMAIN s /\ n \in DOMAIN s /\ s[m] = s[n]
      BY <1>1, <1>3, <2>1, <2>2
    <3> QED BY <3>1
  <2>3. CASE m <= l /\ ~ (n <= l)
    <3>1. m \in DOMAIN s /\ n - l \in DOMAIN u /\ s[m] = u[n - l]
      BY <1>1, <1>3, <2>1, <2>3
    <3> QED BY <3>1
  <2>4. CASE ~ (m <= l) /\ n <= l
    <3>1. n \in DOMAIN s /\ m - l \in DOMAIN u /\ s[n] = u[m - l]
      BY <1>1, <1>3, <2>1, <2>4
    <3> QED BY <3>1
  <2>5. CASE ~ (m <= l) /\ ~ (n <= l)
    <3>1. m - l \in DOMAIN u /\ n - l \in DOMAIN u
      BY <1>1, <2>1, <2>5
    <3>2. m - l = n - l
      BY <3>1
    <3> QED BY <1>1, <2>1, <3>2
  <2> QED BY <2>2, <2>3, <2>4, <2>5
<1> QED BY <1>3 DEF su

LEMMA ApplyGoesWhere ==
  ASSUME NEW c
  PROVE  /\ Apply(c) \in {"truncate", "unlink", "consume"}
         /\ Apply(c) = "consume" => c.writes = <<>> /\ c.unlinks = <<>>
BY DEF Apply

LEMMA PlanAdvances ==
  ASSUME TypeOK, NEW i \in DOMAIN calls, KeepsToItsFiles(calls[i]), Plan(i)
  PROVE  Advances(i)
<1> DEFINE c == calls[i]
           o == c.ops[c.k]
           planned == [c EXCEPT !.writes = @ \o Writes(o), !.unlinks = @ \o Unlinks(o)]
           ws == c.writes \o Writes(o)
           us == c.unlinks \o Unlinks(o)
           W  == {Writes(o)[n].path : n \in DOMAIN Writes(o)}
           U  == {Unlinks(o)[n] : n \in DOMAIN Unlinks(o)}
<1>1. /\ c \in CallType /\ Placed(c) /\ o \in Operation /\ c.pc = "plan" /\ disk' = disk
      /\ disk \in [Paths -> OnDisk]
  BY CallFacts DEF Plan, TypeOK
<1>2. CASE ~Possible(o)
  BY <1>1, <1>2, FailingAdvances DEF Plan
<1>3. CASE Possible(o)
  <2>1. PICK d : /\ Step(i, d)
                 /\ IF c.k < Len(c.ops) THEN d = [planned EXCEPT !.k = @ + 1]
                    ELSE d = [planned EXCEPT !.pc = IF c.dry THEN "done" ELSE Apply(planned)]
    BY <1>3 DEF Plan
  <2>2. /\ d.ops = c.ops /\ d.beside = c.beside /\ d.tool = c.tool /\ d.before = c.before /\ d.dry = c.dry
        /\ d.writes = ws /\ d.unlinks = us
        /\ c.k < Len(c.ops) => d.pc = "plan" /\ d.k = c.k + 1
        /\ ~ (c.k < Len(c.ops)) => /\ d.pc = (IF c.dry THEN "done" ELSE Apply(planned))
                                   /\ Apply(planned) \in {"truncate", "unlink", "consume"}
                                   /\ Apply(planned) = "consume" => ws = <<>> /\ us = <<>>
    <3>1. /\ planned.ops = c.ops /\ planned.beside = c.beside /\ planned.tool = c.tool /\ planned.before = c.before
          /\ planned.dry = c.dry /\ planned.writes = ws /\ planned.unlinks = us /\ planned.pc = "plan"
          /\ planned.k = c.k /\ DOMAIN planned = DOMAIN c
          /\ {"pc", "k", "ops", "before", "beside", "tool", "writes", "unlinks", "dry"} \subseteq DOMAIN c
      BY <1>1 DEF CallType
    <3> HIDE DEF planned, ws, us
    <3>2. CASE c.k < Len(c.ops)
      BY <3>1, <3>2, <2>1
    <3>3. CASE ~(c.k < Len(c.ops))
      BY <3>1, <3>3, <2>1, ApplyGoesWhere
    <3> QED BY <3>2, <3>3
  <2>3. /\ c.writes \in Seq([path : Paths, text : Text]) /\ Writes(o) \in Seq([path : Paths, text : Text])
        /\ c.unlinks \in Seq(Paths) /\ Unlinks(o) \in Seq(Paths)
        /\ \A n \in DOMAIN Writes(o) : Writes(o)[n].path \in Touched(o)
        /\ \A n \in DOMAIN Unlinks(o) : Unlinks(o)[n] \in Touched(o)
    BY <1>1, <1>3, Planned DEF CallType
  <2>4. DOMAIN c.ops = 1..Len(c.ops) /\ Len(c.ops) \in Nat /\ c.k \in DOMAIN c.ops
    BY <1>1 DEF CallType, Placed
  <2> DEFINE cw == c.writes
             cu == c.unlinks
             ow == Writes(o)
             ou == Unlinks(o)
  <2>5. /\ \A n \in DOMAIN cw : \E m \in DOMAIN ws : ws[m] = cw[n]
        /\ \A n \in DOMAIN ow : \E m \in DOMAIN ws : ws[m] = ow[n]
        /\ \A n \in DOMAIN ws : (\E m \in DOMAIN cw : ws[n] = cw[m]) \/ (\E m \in DOMAIN ow : ws[n] = ow[m])
    <3>1. cw \in Seq([path : Paths, text : Text]) /\ ow \in Seq([path : Paths, text : Text])
      BY <2>3
    <3>0. ws = cw \o ow
      OBVIOUS
    <3> HIDE DEF cw, ow, ws
    <3>2. Joins(cw \o ow, cw, ow)
      BY <3>1, JoinedMembers
    <3> QED BY <3>0, <3>2 DEF Joins
  <2>6. /\ \A n \in DOMAIN cu : \E m \in DOMAIN us : us[m] = cu[n]
        /\ \A n \in DOMAIN ou : \E m \in DOMAIN us : us[m] = ou[n]
        /\ \A n \in DOMAIN us : (\E m \in DOMAIN cu : us[n] = cu[m]) \/ (\E m \in DOMAIN ou : us[n] = ou[m])
    <3>1. cu \in Seq(Paths) /\ ou \in Seq(Paths)
      BY <2>3
    <3>0. us = cu \o ou
      OBVIOUS
    <3> HIDE DEF cu, ou, us
    <3>2. Joins(cu \o ou, cu, ou)
      BY <3>1, JoinedMembers
    <3> QED BY <3>0, <3>2 DEF Joins
  <2> HIDE DEF ws, us, planned
  <2>7. TouchedBy(d) = TouchedBy(c) /\ ToWrite(d) = ToWrite(c) \cup W /\ ToRemove(d) = ToRemove(c) \cup U
    <3>1. TouchedBy(d) = TouchedBy(c)
      BY <2>2 DEF TouchedBy
    <3>2. ToWrite(d) = ToWrite(c) \cup W
      BY <2>2, <2>5 DEF ToWrite
    <3>3. ToRemove(d) = ToRemove(c) \cup U
      BY <2>2, <2>6 DEF ToRemove
    <3> QED BY <3>1, <3>2, <3>3
  <2>8. W \subseteq Touched(o) /\ U \subseteq Touched(o) /\ Touched(o) \subseteq TouchedBy(c)
    BY <1>1, <2>3, <2>4, TouchedFiles
  <2> HIDE DEF W, U
  <2>9. KeepsToItsFiles(d)
    <3>1. d.pc \in {"plan", "done", "truncate", "unlink", "consume"}
      BY <2>2
    <3> QED BY <1>1, <2>2, <2>7, <2>8, <3>1 DEF KeepsToItsFiles, Mutates
  <2>10. ASSUME Mutates(c), Apart(c), OnTheWay(disk, c)
         PROVE  IF Ended(d) THEN \A p \in TouchedBy(c) : disk'[p] = (IF d.pc = "done" /\ ~c.dry THEN Goal(c) ELSE c.before)[p]
                ELSE OnTheWay(disk', d)
    <3>1. Untouched(disk, c)
      BY <1>1, <2>10 DEF OnTheWay
    <3>2. DOMAIN c.before = Paths /\ c.ops \in Seq(Operation)
      BY <1>1 DEF CallType
    <3>3. SameIn(Touched(o), disk, c.before)
      BY <2>8, <3>1 DEF Untouched, SameIn
    <3>4. \A k \in DOMAIN c.ops : c.ops[k].action = "delete" => c.before[c.ops[k].path] # NoFile
      BY <1>1, <2>10 DEF OnTheWay, Passed
    <3>5. o.action = "delete" => Exists(o.path)
      <4>1. o.path \in Touched(o)
        BY DEF Touched
      <4> QED BY <2>4, <3>3, <3>4, <4>1 DEF Exists, SameIn
    <3>6. /\ \A n \in DOMAIN ow : ow[n].text = After(c.before, o)[ow[n].path]
          /\ \A n \in DOMAIN ou : After(c.before, o)[ou[n]] = NoFile /\ disk[ou[n]] # NoFile
          /\ \A m, n \in DOMAIN ou : m = n
          /\ \A p \in Touched(o) : \/ \E n \in DOMAIN ow : ow[n].path = p
                                   \/ \E n \in DOMAIN ou : ou[n] = p
                                   \/ After(c.before, o)[p] = c.before[p]
      <4> DEFINE b == c.before
                 e == o
      <4>1. /\ disk \in [Paths -> OnDisk] /\ e \in Operation /\ Possible(e) /\ (e.action = "delete" => Exists(e.path))
            /\ DOMAIN b = Paths /\ SameIn(Touched(e), disk, b)
        BY <1>1, <1>3, <3>2, <3>3, <3>5
      <4> HIDE DEF b, e
      <4>2. /\ \A n \in DOMAIN Writes(e) : Writes(e)[n].text = After(b, e)[Writes(e)[n].path]
            /\ \A n \in DOMAIN Unlinks(e) : After(b, e)[Unlinks(e)[n]] = NoFile /\ disk[Unlinks(e)[n]] # NoFile
            /\ \A m, n \in DOMAIN Unlinks(e) : m = n
            /\ \A p \in Touched(e) : \/ \E n \in DOMAIN Writes(e) : Writes(e)[n].path = p
                                     \/ \E n \in DOMAIN Unlinks(e) : Unlinks(e)[n] = p
                                     \/ After(b, e)[p] = b[p]
        BY <4>1, PlansWhatItMakes
      <4> QED BY <4>2 DEF b, e
    <3>7. \A p \in Touched(o) : Goal(c)[p] = After(c.before, o)[p]
      <4>1. ASSUME NEW p \in Touched(o)  PROVE Patched(c.before, c.ops)[p] = After(c.before, c.ops[c.k])[p]
        <5> DEFINE b == c.before
                   s == c.ops
                   j == c.k
        <5>1. DOMAIN b = Paths /\ s \in Seq(Operation) /\ j \in DOMAIN s /\ p \in Touched(s[j]) /\ Disjoint(s)
          BY <2>4, <2>10, <3>2, <4>1 DEF Apart
        <5> HIDE DEF b, s, j
        <5>2. Patched(b, s)[p] = After(b, s[j])[p]
          BY <5>1, PatchedApart
        <5> QED BY <5>2 DEF b, s, j
      <4> QED BY <4>1 DEF Goal
    <3>8. LeadsToGoal(c) /\ Goal(d) = Goal(c)
      BY <2>2, <2>10 DEF OnTheWay, Goal
    <3>9. /\ \A k \in DOMAIN c.ops : \A p \in Touched(c.ops[k]) :
               IF k < c.k THEN p \in ToWrite(c) \cup ToRemove(c) \/ Goal(c)[p] = c.before[p]
               ELSE p \notin ToRemove(c)
          /\ \A u \in ToRemove(c) : disk[u] # NoFile
      BY <1>1, <2>10 DEF OnTheWay
    <3>10. \A p \in Touched(o) : p \notin ToRemove(c)
      BY <2>4, <3>9
    <3>11. LeadsToGoal(d)
      <4>1. \A n \in DOMAIN ws : ws[n].text = Goal(c)[ws[n].path]
        <5>1. \A n \in DOMAIN cw : cw[n].text = Goal(c)[cw[n].path]
          BY <3>8 DEF LeadsToGoal
        <5>2. \A n \in DOMAIN ow : ow[n].text = Goal(c)[ow[n].path]
          BY <2>3, <3>6, <3>7
        <5> HIDE DEF cw, ow, c
        <5> QED BY <2>5, <5>1, <5>2
      <4>2. \A n \in DOMAIN us : Goal(c)[us[n]] = NoFile
        <5>1. \A n \in DOMAIN cu : Goal(c)[cu[n]] = NoFile
          BY <3>8 DEF LeadsToGoal
        <5>2. \A n \in DOMAIN ou : Goal(c)[ou[n]] = NoFile
          BY <2>3, <3>6, <3>7
        <5> HIDE DEF cu, ou, c
        <5> QED BY <2>6, <5>1, <5>2
      <4>3. \A m, n \in DOMAIN us : us[m] = us[n] => m = n
        <5>1. \A m, n \in DOMAIN cu : cu[m] = cu[n] => m = n
          BY <3>8 DEF LeadsToGoal
        <5>2. \A m \in DOMAIN cu, n \in DOMAIN ou : cu[m] # ou[n]
          BY <2>3, <3>10 DEF ToRemove
        <5>3. \A m, n \in DOMAIN ou : m = n
          BY <3>6
        <5>4. cu \in Seq(Paths) /\ ou \in Seq(Paths)
          BY <2>3
        <5> HIDE DEF cu, ou
        <5>5. \A m, n \in DOMAIN (cu \o ou) : (cu \o ou)[m] = (cu \o ou)[n] => m = n
          BY <5>1, <5>2, <5>3, <5>4, JoinedApart
        <5> QED BY <5>5 DEF us, cu, ou
      <4> HIDE DEF c
      <4> QED BY <2>2, <3>8, <4>1, <4>2, <4>3 DEF LeadsToGoal
    <3>12. \A u \in ToRemove(d) : disk'[u] # NoFile
      BY <1>1, <2>7, <3>6, <3>9 DEF U
    <3>13. \A p \in Touched(o) : p \in ToWrite(d) \cup ToRemove(d) \/ Goal(c)[p] = c.before[p]
      BY <2>7, <3>6, <3>7 DEF W, U
    <3>14. \A k \in DOMAIN c.ops : k < c.k => \A p \in Touched(c.ops[k]) :
             p \in ToWrite(d) \cup ToRemove(d) \/ Goal(c)[p] = c.before[p]
      BY <2>7, <3>9
    <3>15. \A k \in Passed(d) : d.ops[k].action = "delete" => d.before[d.ops[k].path] # NoFile
      BY <2>2, <3>4 DEF Passed
    <3>16. Untouched(disk', d)
      BY <1>1, <2>2, <2>7, <3>1 DEF Untouched
    <3>17. CASE c.k < Len(c.ops)
      <4>1. d.pc = "plan" /\ d.k = c.k + 1 /\ ~Ended(d)
        BY <2>2, <3>17 DEF Ended
      <4>2. ASSUME NEW k \in DOMAIN c.ops, NEW p \in Touched(c.ops[k])
            PROVE  IF k < d.k THEN p \in ToWrite(d) \cup ToRemove(d) \/ Goal(c)[p] = c.before[p]
                   ELSE p \notin ToRemove(d)
        <5>1. CASE k < c.k
          BY <2>4, <3>14, <4>1, <5>1
        <5>2. CASE k = c.k
          BY <2>4, <3>13, <4>1, <5>2
        <5>3. CASE k > c.k
          <6>1. ~ (k < d.k) /\ ~ (k < c.k) /\ k # c.k
            BY <2>4, <4>1, <5>3
          <6>2. p \notin ToRemove(c)
            BY <3>9, <6>1
          <6>3. p \notin U
            BY <2>4, <2>8, <2>10, <6>1 DEF Apart, Disjoint
          <6> QED BY <2>7, <6>1, <6>2, <6>3
        <5> QED BY <2>4, <5>1, <5>2, <5>3
      <4>3. OnTheWay(disk', d)
        BY <2>2, <3>8, <3>11, <3>12, <3>15, <3>16, <4>1, <4>2 DEF OnTheWay, Applies
      <4> QED BY <4>1, <4>3
    <3>18. CASE ~ (c.k < Len(c.ops)) /\ c.dry
      BY <1>1, <2>2, <3>1, <3>18 DEF Ended, Untouched
    <3>19. CASE ~ (c.k < Len(c.ops)) /\ ~c.dry
      <4>1. d.pc \in {"truncate", "unlink", "consume"} /\ ~Ended(d) /\ ~d.dry
        BY <2>2, <3>19 DEF Ended
      <4>2. d.pc = "consume" => d.writes = <<>> /\ d.unlinks = <<>>
        BY <2>2, <3>19
      <4>3. ASSUME NEW p \in TouchedBy(c)
            PROVE  p \in ToWrite(d) \cup ToRemove(d) \/ disk'[p] = Goal(d)[p]
        <5>1. PICK k \in DOMAIN c.ops : p \in Touched(c.ops[k])
          BY DEF TouchedBy
        <5>2. k < c.k \/ k = c.k
          BY <2>4, <3>19
        <5>3. p \in ToWrite(d) \cup ToRemove(d) \/ Goal(c)[p] = c.before[p]
          BY <3>13, <3>14, <5>1, <5>2
        <5> QED BY <1>1, <3>1, <3>8, <5>3 DEF Untouched
      <4>4. OnTheWay(disk', d)
        BY <2>7, <3>11, <3>12, <3>15, <4>1, <4>2, <4>3 DEF OnTheWay
      <4> QED BY <4>1, <4>4
    <3> QED BY <3>17, <3>18, <3>19
  <2>11. Progress(disk, disk', c, d)
    BY <1>1, <2>2, <2>9, <2>10 DEF Progress
  <2>12. ~Ended(c)
    BY <1>1 DEF Ended
  <2> QED BY <2>1, <2>11, <2>12 DEF Advances
<1> QED BY <1>2, <1>3
(* What is first in a list, and what comes after it.                       *)
Splits(s, h, t) ==
  /\ 1 \in DOMAIN s /\ h = s[1]
  /\ \A n \in DOMAIN t : n + 1 \in DOMAIN s /\ t[n] = s[n + 1] /\ n \in Nat \ {0}
  /\ \A n \in DOMAIN s : n = 1 \/ (n - 1 \in DOMAIN t /\ t[n - 1] = s[n])

LEMMA FirstAndRest ==
  ASSUME NEW S, NEW s \in Seq(S), s # <<>>
  PROVE  Splits(s, Head(s), Tail(s)) /\ Tail(s) \in Seq(S) /\ Head(s) \in S
<1> DEFINE t == Tail(s)
           l == Len(s)
<1>1. /\ DOMAIN s = 1..l /\ l \in Nat \ {0} /\ Head(s) = s[1]
      /\ t \in Seq(S) /\ Len(t) = l - 1 /\ \A n \in 1..(l - 1) : t[n] = s[n + 1]
  BY HeadTailProperties
<1>2. DOMAIN t = 1..(l - 1)
  BY <1>1
<1> HIDE DEF t, l
<1>3. \A n \in DOMAIN t : n + 1 \in DOMAIN s /\ t[n] = s[n + 1] /\ n \in Nat \ {0}
  BY <1>1, <1>2
<1>4. ASSUME NEW n \in DOMAIN s, n # 1  PROVE n - 1 \in DOMAIN t /\ t[n - 1] = s[n]
  <2>1. n - 1 \in 1..(l - 1) /\ (n - 1) + 1 = n
    BY <1>1, <1>4
  <2> QED BY <1>1, <1>2, <2>1
<1>5. 1 \in DOMAIN s
  BY <1>1
<1>6. Splits(s, Head(s), t)
  BY <1>1, <1>3, <1>4, <1>5 DEF Splits
<1>7. Head(s) \in S
  BY <1>1
<1> QED BY <1>1, <1>6, <1>7 DEF t

(* A call that changes a file it has planned to change.                    *)
LEMMA ChangingAdvances ==
  ASSUME TypeOK, NEW i \in DOMAIN calls, NEW c, c = calls[i], KeepsToItsFiles(c), NEW d, Step(i, d),
         c.pc \in {"truncate", "fill", "unlink"}, d.pc \in {"truncate", "fill", "unlink", "consume"},
         d.ops = c.ops, d.beside = c.beside, d.tool = c.tool, d.before = c.before, d.dry = c.dry,
         NEW h \in Paths, h \in ToWrite(c) \cup ToRemove(c), NEW x, disk' = [disk EXCEPT ![h] = x],
         ToWrite(d) \subseteq ToWrite(c), ToRemove(d) \subseteq ToRemove(c),
         ToWrite(c) \cup ToRemove(c) \subseteq ToWrite(d) \cup ToRemove(d) \cup {h},
         LeadsToGoal(c) => /\ LeadsToGoal(d)
                           /\ h \in ToRemove(d) => x # NoFile
                           /\ h \in ToWrite(d) \cup ToRemove(d) \/ x = Goal(c)[h],
         d.pc = "consume" => d.writes = <<>> /\ d.unlinks = <<>>
  PROVE  Advances(i)
<1>1. disk \in [Paths -> OnDisk]
  BY DEF TypeOK
<1>2. Mutates(c) /\ h \in TouchedBy(c)
  BY DEF KeepsToItsFiles, Mutates
<1>3. TouchedBy(d) = TouchedBy(c) /\ Goal(d) = Goal(c)
  BY DEF TouchedBy, Goal
<1>4. KeepsToItsFiles(d)
  BY <1>2, <1>3 DEF KeepsToItsFiles, Mutates
<1>5. \A p \in Paths : disk'[p] = IF p = h THEN x ELSE disk[p]
  BY <1>1
<1>6. ToWrite(d) \cup ToRemove(d) \subseteq Paths
  <2>1. TouchedBy(c) \subseteq Paths
    BY TouchedFiles, CallFacts
  <2> QED BY <2>1 DEF KeepsToItsFiles
<1>7. ASSUME OnTheWay(disk, c)  PROVE OnTheWay(disk', d)
  <2>1. LeadsToGoal(c) /\ ~c.dry
    BY <1>7 DEF OnTheWay, Applies
  <2>2. \A u \in ToRemove(d) : disk'[u] # NoFile
    <3>1. \A u \in ToRemove(c) : disk[u] # NoFile
      BY <1>7 DEF OnTheWay
    <3> QED BY <1>5, <1>6, <2>1, <3>1
  <2>3. \A p \in TouchedBy(d) : p \in ToWrite(d) \cup ToRemove(d) \/ disk'[p] = Goal(d)[p]
    <3>1. TouchedBy(c) \subseteq Paths
      BY TouchedFiles, CallFacts
    <3>2. \A p \in TouchedBy(c) : p \in ToWrite(c) \cup ToRemove(c) \/ disk[p] = Goal(c)[p]
      BY <1>7 DEF OnTheWay, Applies
    <3> QED BY <1>3, <1>5, <2>1, <3>1, <3>2
  <2>4. \A k \in Passed(d) : d.ops[k].action = "delete" => d.before[d.ops[k].path] # NoFile
    <3>1. \A k \in Passed(c) : c.ops[k].action = "delete" => c.before[c.ops[k].path] # NoFile
      BY <1>7 DEF OnTheWay
    <3>2. Passed(d) = DOMAIN d.ops /\ Passed(c) = DOMAIN c.ops
      BY DEF Passed
    <3> QED BY <3>1, <3>2
  <2>5. d.pc \notin {"check", "plan"}
    OBVIOUS
  <2> QED BY <2>1, <2>2, <2>3, <2>4, <2>5 DEF OnTheWay
<1>8. ~Ended(d) /\ ~Ended(c)
  BY DEF Ended
<1>9. \A p \in Paths : disk'[p] # disk[p] => Mutates(c) /\ p \in TouchedBy(c)
  BY <1>2, <1>5
<1>10. Progress(disk, disk', c, d)
  BY <1>4, <1>7, <1>8, <1>9 DEF Progress
<1> QED BY <1>8, <1>10 DEF Advances

LEMMA TruncateAdvances ==
  ASSUME TypeOK, NEW i \in DOMAIN calls, KeepsToItsFiles(calls[i]), Truncate(i)
  PROVE  Advances(i)
<1> DEFINE c == calls[i]
           d == [c EXCEPT !.pc = "fill"]
           w == Head(c.writes)
<1>1. c \in CallType /\ c.pc = "truncate" /\ Step(i, d) /\ disk' = [disk EXCEPT ![w.path] = <<>>]
  BY CallFacts DEF Truncate
<1>2. /\ d.ops = c.ops /\ d.beside = c.beside /\ d.tool = c.tool /\ d.before = c.before /\ d.dry = c.dry
      /\ d.writes = c.writes /\ d.unlinks = c.unlinks /\ d.pc = "fill"
  BY <1>1 DEF CallType
<1>3. w \in [path : Paths, text : Text] /\ w.path \in ToWrite(c)
  <2>1. c.writes \in Seq([path : Paths, text : Text]) /\ c.writes # <<>>
    BY <1>1, CallFacts DEF CallType, Placed
  <2>2. Splits(c.writes, w, Tail(c.writes)) /\ w \in [path : Paths, text : Text]
    BY <2>1, FirstAndRest
  <2>3. 1 \in DOMAIN c.writes /\ w = c.writes[1]
    BY <2>2 DEF Splits
  <2> HIDE DEF w
  <2> QED BY <2>2, <2>3 DEF ToWrite
<1>4. ToWrite(d) = ToWrite(c) /\ ToRemove(d) = ToRemove(c)
  BY <1>2 DEF ToWrite, ToRemove
<1>5. LeadsToGoal(c) => LeadsToGoal(d)
  BY <1>2 DEF LeadsToGoal, Goal
<1>6. <<>> # NoFile
  BY DEF NoFile
<1> HIDE DEF c, d, w
<1>7. w.path \in Paths
  BY <1>3
<1>8. c = calls[i] /\ KeepsToItsFiles(c)
  BY DEF c
<1> QED BY <1>1, <1>2, <1>3, <1>4, <1>5, <1>6, <1>7, <1>8, ChangingAdvances

LEMMA FillAdvances ==
  ASSUME TypeOK, NEW i \in DOMAIN calls, KeepsToItsFiles(calls[i]), Fill(i)
  PROVE  Advances(i)
<1> DEFINE c == calls[i]
           rest == [c EXCEPT !.writes = Tail(@)]
           d == [rest EXCEPT !.pc = Apply(rest)]
           w == Head(c.writes)
           t == Tail(c.writes)
<1>1. c \in CallType /\ c.pc = "fill" /\ Step(i, d) /\ disk' = [disk EXCEPT ![w.path] = w.text]
  BY CallFacts DEF Fill
<1>2. /\ d.ops = c.ops /\ d.beside = c.beside /\ d.tool = c.tool /\ d.before = c.before /\ d.dry = c.dry
      /\ d.writes = t /\ d.unlinks = c.unlinks
      /\ d.pc \in {"truncate", "unlink", "consume"} /\ (d.pc = "consume" => d.writes = <<>> /\ d.unlinks = <<>>)
  <2>1. /\ rest.ops = c.ops /\ rest.beside = c.beside /\ rest.tool = c.tool /\ rest.before = c.before
        /\ rest.dry = c.dry /\ rest.writes = t /\ rest.unlinks = c.unlinks
        /\ DOMAIN rest = DOMAIN c
        /\ {"pc", "ops", "before", "beside", "tool", "writes", "unlinks", "dry"} \subseteq DOMAIN c
    BY <1>1 DEF CallType
  <2> HIDE DEF rest
  <2> QED BY <2>1, ApplyGoesWhere
<1>3. w \in [path : Paths, text : Text] /\ Splits(c.writes, w, t)
  <2>1. c.writes \in Seq([path : Paths, text : Text]) /\ c.writes # <<>>
    BY <1>1, CallFacts DEF CallType, Placed
  <2> QED BY <2>1, FirstAndRest
<1>4. w \in [path : Paths, text : Text] /\ w = c.writes[1] /\ 1 \in DOMAIN c.writes
  BY <1>3 DEF Splits
<1> DEFINE ws == c.writes
<1> HIDE DEF t, w, d, rest, ws
<1>5. w.path \in Paths /\ w.path \in ToWrite(c) /\ w.text # NoFile
  <2>1. w.text \in Text
    BY <1>4
  <2> QED BY <1>4, <2>1, NoFileIsNoText DEF ToWrite
<1>6. ToRemove(d) = ToRemove(c) /\ ToWrite(d) \subseteq ToWrite(c) /\ ToWrite(c) \subseteq ToWrite(d) \cup {w.path}
  <2>1. ToRemove(d) = ToRemove(c)
    BY <1>2 DEF ToRemove
  <2>2. ASSUME NEW n \in DOMAIN t  PROVE t[n].path \in ToWrite(c)
    BY <1>3 DEF Splits, ToWrite
  <2>3. ASSUME NEW n \in DOMAIN c.writes  PROVE c.writes[n].path \in {t[m].path : m \in DOMAIN t} \cup {w.path}
    BY <1>3 DEF Splits
  <2> QED BY <1>2, <2>1, <2>2, <2>3 DEF ToWrite
<1>7. ASSUME LeadsToGoal(c)  PROVE LeadsToGoal(d) /\ w.text = Goal(c)[w.path]
  <2>1. \A n \in DOMAIN t : t[n].text = Goal(c)[t[n].path]
    BY <1>3, <1>7 DEF Splits, LeadsToGoal
  <2>2. Goal(d) = Goal(c)
    BY <1>2 DEF Goal
  <2>3. w.text = Goal(c)[w.path]
    BY <1>4, <1>7 DEF LeadsToGoal
  <2> QED BY <1>2, <1>7, <2>1, <2>2, <2>3 DEF LeadsToGoal
<1>8. c = calls[i] /\ KeepsToItsFiles(c)
  OBVIOUS
<1> HIDE DEF c
<1> QED BY <1>1, <1>2, <1>5, <1>6, <1>7, <1>8, ChangingAdvances

LEMMA UnlinkAdvances ==
  ASSUME TypeOK, NEW i \in DOMAIN calls, KeepsToItsFiles(calls[i]), Unlink(i)
  PROVE  Advances(i)
<1> DEFINE c == calls[i]
           rest == [c EXCEPT !.unlinks = Tail(@)]
           d == [rest EXCEPT !.pc = Apply(rest)]
           h == Head(c.unlinks)
           t == Tail(c.unlinks)
<1>1. /\ c \in CallType /\ c.pc = "unlink"
      /\ \/ Exists(h) /\ Step(i, d) /\ disk' = [disk EXCEPT ![h] = NoFile]
         \/ ~Exists(h) /\ disk' = disk /\ Fail(i)
  BY CallFacts DEF Unlink
<1>2. /\ d.ops = c.ops /\ d.beside = c.beside /\ d.tool = c.tool /\ d.before = c.before /\ d.dry = c.dry
      /\ d.writes = c.writes /\ d.unlinks = t
      /\ d.pc \in {"truncate", "unlink", "consume"} /\ (d.pc = "consume" => d.writes = <<>> /\ d.unlinks = <<>>)
  <2>1. /\ rest.ops = c.ops /\ rest.beside = c.beside /\ rest.tool = c.tool /\ rest.before = c.before
        /\ rest.dry = c.dry /\ rest.unlinks = t /\ rest.writes = c.writes
        /\ DOMAIN rest = DOMAIN c
        /\ {"pc", "ops", "before", "beside", "tool", "writes", "unlinks", "dry"} \subseteq DOMAIN c
    BY <1>1 DEF CallType
  <2> HIDE DEF rest
  <2> QED BY <2>1, ApplyGoesWhere
<1>3. c.unlinks \in Seq(Paths) /\ Splits(c.unlinks, h, t)
  <2>1. c.unlinks \in Seq(Paths) /\ c.unlinks # <<>>
    BY <1>1, CallFacts DEF CallType, Placed
  <2> QED BY <2>1, FirstAndRest
<1>4. h \in Paths /\ h = c.unlinks[1] /\ 1 \in DOMAIN c.unlinks
  BY <1>3 DEF Splits
<1> HIDE DEF t, h, d, rest
<1>5. h \in ToRemove(c)
  BY <1>4 DEF ToRemove
<1>6. ToWrite(d) = ToWrite(c) /\ ToRemove(d) \subseteq ToRemove(c) /\ ToRemove(c) \subseteq ToRemove(d) \cup {h}
  <2>1. ToWrite(d) = ToWrite(c)
    BY <1>2 DEF ToWrite
  <2>2. ASSUME NEW n \in DOMAIN t  PROVE t[n] \in ToRemove(c)
    BY <1>3 DEF Splits, ToRemove
  <2>3. ASSUME NEW n \in DOMAIN c.unlinks  PROVE c.unlinks[n] \in {t[m] : m \in DOMAIN t} \cup {h}
    BY <1>3 DEF Splits
  <2> QED BY <1>2, <2>1, <2>2, <2>3 DEF ToRemove
<1>7. ASSUME LeadsToGoal(c)  PROVE LeadsToGoal(d) /\ NoFile = Goal(c)[h] /\ h \notin ToRemove(d)
  <2>1. \A n \in DOMAIN t : Goal(c)[t[n]] = NoFile
    BY <1>3, <1>7 DEF Splits, LeadsToGoal
  <2>2. Goal(d) = Goal(c)
    BY <1>2 DEF Goal
  <2>3. Goal(c)[h] = NoFile
    BY <1>4, <1>7 DEF LeadsToGoal
  <2>4. ASSUME NEW m \in DOMAIN t, NEW n \in DOMAIN t, t[m] = t[n]  PROVE m = n
    <3>1. /\ m + 1 \in DOMAIN c.unlinks /\ n + 1 \in DOMAIN c.unlinks /\ m \in Nat /\ n \in Nat
          /\ c.unlinks[m + 1] = c.unlinks[n + 1]
      BY <1>3, <2>4 DEF Splits
    <3>2. m + 1 = n + 1
      BY <1>7, <3>1 DEF LeadsToGoal
    <3> QED BY <3>1, <3>2
  <2>5. ASSUME NEW n \in DOMAIN t, t[n] = h  PROVE FALSE
    <3>1. n + 1 \in DOMAIN c.unlinks /\ c.unlinks[n + 1] = c.unlinks[1] /\ n \in Nat \ {0}
      BY <1>3, <1>4, <2>5 DEF Splits
    <3>2. n + 1 = 1
      BY <1>4, <1>7, <3>1 DEF LeadsToGoal
    <3> QED BY <3>1, <3>2
  <2>6. h \notin ToRemove(d)
    BY <1>2, <2>5 DEF ToRemove
  <2> QED BY <1>2, <1>7, <2>1, <2>2, <2>3, <2>4, <2>6 DEF LeadsToGoal
<1>8. c = calls[i] /\ KeepsToItsFiles(c)
  OBVIOUS
<1>9. CASE Exists(h) /\ Step(i, d) /\ disk' = [disk EXCEPT ![h] = NoFile]
  <2> HIDE DEF c
  <2> QED BY <1>1, <1>2, <1>4, <1>5, <1>6, <1>7, <1>8, <1>9, ChangingAdvances
<1>10. CASE ~Exists(h) /\ disk' = disk /\ Fail(i)
  <2> DEFINE e == [c EXCEPT !.pc = "failed"]
  <2>1. /\ e.ops = c.ops /\ e.beside = c.beside /\ e.tool = c.tool /\ e.before = c.before
        /\ e.pc = "failed" /\ Ended(e) /\ KeepsToItsFiles(e)
    BY <1>1, FailingKeeps
  <2>2. ~OnTheWay(disk, c)
    BY <1>5, <1>10 DEF OnTheWay, Exists
  <2>3. Step(i, e) /\ ~Ended(c)
    BY <1>1, <1>10 DEF Fail, Ended
  <2> HIDE DEF e
  <2>4. Progress(disk, disk', c, e)
    BY <1>10, <2>1, <2>2 DEF Progress
  <2> QED BY <2>3, <2>4 DEF Advances
<1> QED BY <1>1, <1>9, <1>10

LEMMA ConsumeAdvances ==
  ASSUME TypeOK, NEW i \in DOMAIN calls, KeepsToItsFiles(calls[i]), Consume(i)
  PROVE  Advances(i)
<1> DEFINE c == calls[i]
           d == [c EXCEPT !.pc = "done"]
<1>1. c \in CallType /\ c.pc = "consume" /\ Step(i, d) /\ disk' = disk
  BY CallFacts DEF Consume
<1>2. /\ d.ops = c.ops /\ d.beside = c.beside /\ d.tool = c.tool /\ d.before = c.before /\ d.dry = c.dry
      /\ d.writes = c.writes /\ d.unlinks = c.unlinks /\ d.pc = "done"
  BY <1>1 DEF CallType
<1>3. ToWrite(d) = ToWrite(c) /\ ToRemove(d) = ToRemove(c) /\ TouchedBy(d) = TouchedBy(c)
  BY <1>2 DEF ToWrite, ToRemove, TouchedBy
<1>4. KeepsToItsFiles(d)
  BY <1>1, <1>2, <1>3 DEF KeepsToItsFiles, Mutates
<1>5. ASSUME OnTheWay(disk, c)  PROVE ~c.dry /\ \A p \in TouchedBy(c) : disk[p] = Goal(c)[p]
  <2>1. c.writes = <<>> /\ c.unlinks = <<>>
    BY <1>1, <1>5 DEF OnTheWay
  <2>2. ToWrite(c) = {} /\ ToRemove(c) = {}
    BY <2>1 DEF ToWrite, ToRemove
  <2> QED BY <1>1, <1>5, <2>2 DEF OnTheWay, Applies
<1>6. Ended(d) /\ ~Ended(c)
  BY <1>1, <1>2 DEF Ended
<1> HIDE DEF d
<1>7. Progress(disk, disk', c, d)
  BY <1>1, <1>2, <1>4, <1>5, <1>6 DEF Progress
<1> QED BY <1>1, <1>6, <1>7 DEF Advances
LEMMA WorkAdvances ==
  ASSUME IInv, NEW i \in DOMAIN calls, KeepsToItsFiles(calls[i]), Work(i)
  PROVE  Advances(i)
<1>1. TypeOK /\ Checked(revisions, calls[i])
  BY DEF IInv
<1>2. CASE ReadText(i) \/ Issue(i)
  BY <1>1, <1>2, ReadsAdvance
<1>3. CASE Check(i)
  BY <1>1, <1>3, CheckAdvances
<1>4. CASE Plan(i)
  BY <1>1, <1>4, PlanAdvances
<1>5. CASE Truncate(i)
  BY <1>1, <1>5, TruncateAdvances
<1>6. CASE Fill(i)
  BY <1>1, <1>6, FillAdvances
<1>7. CASE Unlink(i)
  BY <1>1, <1>7, UnlinkAdvances
<1>8. CASE Consume(i)
  BY <1>1, <1>8, ConsumeAdvances
<1> QED BY <1>2, <1>3, <1>4, <1>5, <1>6, <1>7, <1>8 DEF Work

-----------------------------------------------------------------------------
(* The calls beside it.                                                    *)

(* Of two calls under way one began beside the other.                      *)
LEMMA OthersKeepAway ==
  ASSUME TypeOK, Neighbours, NEW i \in Active, NEW j \in Active, i # j, Alone(i), Mutates(calls[j])
  PROVE  TouchedBy(calls[i]) \cap TouchedBy(calls[j]) = {}
<1>1. i \in DOMAIN calls /\ j \in DOMAIN calls /\ i \in Nat /\ j \in Nat
  BY DEF Active, TypeOK
<1>2. i < j \/ j < i
  BY <1>1
<1>3. j \in calls[i].beside \/ i \in calls[j].beside
  BY <1>2 DEF Neighbours
<1> QED BY <1>1, <1>3 DEF Alone

(* Nobody is alone later who was not before: calls keep what they are      *)
(* asked to do and whom they began beside.                                 *)
LEMMA AloneBefore ==
  ASSUME \A j \in DOMAIN calls : /\ j \in DOMAIN calls'
                                 /\ calls'[j].ops = calls[j].ops /\ calls'[j].beside = calls[j].beside
                                 /\ calls'[j].tool = calls[j].tool,
         NEW i \in DOMAIN calls, Alone(i)'
  PROVE  Alone(i)
<1>1. \A j \in DOMAIN calls : TouchedBy(calls'[j]) = TouchedBy(calls[j]) /\ (Mutates(calls'[j]) <=> Mutates(calls[j]))
  BY DEF TouchedBy, Mutates
<1>2. ASSUME NEW j \in DOMAIN calls, j \in calls[i].beside \/ i \in calls[j].beside, Mutates(calls[j])
      PROVE  TouchedBy(calls[i]) \cap TouchedBy(calls[j]) = {}
  <2>1. /\ j \in DOMAIN calls' /\ (j \in calls'[i].beside \/ i \in calls'[j].beside) /\ Mutates(calls'[j])
        /\ TouchedBy(calls'[i]) = TouchedBy(calls[i]) /\ TouchedBy(calls'[j]) = TouchedBy(calls[j])
    BY <1>1, <1>2
  <2>2. TouchedBy(calls'[i]) \cap TouchedBy(calls'[j]) = {}
    BY <2>1 DEF Alone
  <2> QED BY <2>1, <2>2
<1>3. calls'[i].ops = calls[i].ops
  OBVIOUS
<1>4. \A j, k \in DOMAIN calls'[i].ops :
        j # k => Touched(calls'[i].ops[j]) \cap Touched(calls'[i].ops[k]) = {}
  BY DEF Alone
<1>5. \A j, k \in DOMAIN calls[i].ops : j # k => Touched(calls[i].ops[j]) \cap Touched(calls[i].ops[k]) = {}
  BY <1>3, <1>4
<1> QED BY <1>2, <1>5 DEF Alone

LEMMA AloneIsApart ==
  ASSUME NEW i \in DOMAIN calls, Alone(i)
  PROVE  Apart(calls[i])
BY DEF Alone, Apart, Disjoint

(* Where a call stands depends on its own files alone.                     *)
LEMMA OnlyItsFilesMatter ==
  ASSUME NEW c, KeepsToItsFiles(c), NEW f, NEW h, SameIn(TouchedBy(c), f, h), OnTheWay(f, c)
  PROVE  OnTheWay(h, c)
<1>1. \A p \in TouchedBy(c) : h[p] = f[p]
  BY DEF SameIn
<1>2. \A p \in ToWrite(c) \cup ToRemove(c) : h[p] = f[p]
  BY <1>1 DEF KeepsToItsFiles
<1>3. c.pc \in {"check", "plan"} => Untouched(h, c)
  BY <1>1 DEF OnTheWay, Untouched
<1>4. \A u \in ToRemove(c) : h[u] # NoFile
  BY <1>2 DEF OnTheWay
<1>5. Applies(c) => ~c.dry /\ \A p \in TouchedBy(c) : p \in ToWrite(c) \cup ToRemove(c) \/ h[p] = Goal(c)[p]
  BY <1>1 DEF OnTheWay
<1> QED BY <1>3, <1>4, <1>5 DEF OnTheWay

-----------------------------------------------------------------------------
(* The invariant.                                                          *)

LEMMA InitAtom == Init => AtomInv
BY DEF Init, AtomInv, Neighbours, Active

LEMMA WorkAtom ==
  ASSUME IInv, AtomInv, NEW i \in DOMAIN calls, Work(i)
  PROVE  AtomInv'
<1> DEFINE c == calls[i]
<1>1. KeepsToItsFiles(c) /\ TypeOK
  BY DEF AtomInv, IInv
<1>2. PICK d : Step(i, d) /\ Progress(disk, disk', c, d)
  BY <1>1, WorkAdvances DEF Advances
<1>3. ~Ended(c) /\ i \in Active
  BY <1>1, WorkAdvances DEF Advances, Active
<1>4. /\ DOMAIN calls' = DOMAIN calls /\ calls'[i] = d /\ \A j \in DOMAIN calls : j # i => calls'[j] = calls[j]
  <2>1. calls' = [calls EXCEPT ![i] = d] /\ calls \in Seq(CallType)
    BY <1>1, <1>2 DEF Step, TypeOK
  <2> QED BY <2>1
<1>5. d.ops = c.ops /\ d.beside = c.beside /\ d.tool = c.tool
  BY <1>2 DEF Progress
<1>6. \A j \in DOMAIN calls : /\ j \in DOMAIN calls'
                              /\ calls'[j].ops = calls[j].ops /\ calls'[j].beside = calls[j].beside
                              /\ calls'[j].tool = calls[j].tool
  BY <1>4, <1>5
<1>7. Active' \subseteq Active
  BY <1>3, <1>4 DEF Active
<1>8. Neighbours'
  BY <1>6, <1>7 DEF AtomInv, Neighbours, Active
<1>9. \A j \in DOMAIN calls' : KeepsToItsFiles(calls'[j])
  <2>1. KeepsToItsFiles(d)
    BY <1>2 DEF Progress
  <2> QED BY <1>4, <2>1 DEF AtomInv
<1>10. ASSUME NEW j \in Active', Mutates(calls'[j]), Alone(j)'  PROVE OnTheWay(disk', calls'[j])
  <2>1. j \in Active /\ j \in DOMAIN calls /\ Mutates(calls[j]) /\ ~Ended(calls'[j])
    BY <1>6, <1>7, <1>10 DEF Active, Mutates
  <2>2. Alone(j)
    BY <1>6, <1>10, <2>1, AloneBefore
  <2>3. OnTheWay(disk, calls[j])
    BY <2>1, <2>2 DEF AtomInv
  <2>4. CASE j = i
    <3>1. Apart(c) /\ Mutates(c) /\ OnTheWay(disk, c) /\ ~Ended(d)
      BY <1>4, <2>1, <2>2, <2>3, <2>4, AloneIsApart
    <3> QED BY <1>2, <1>4, <2>4, <3>1 DEF Progress
  <2>5. CASE j # i
    <3>1. \A p \in Paths : disk'[p] # disk[p] => Mutates(c) /\ p \in TouchedBy(c)
      BY <1>2 DEF Progress
    <3>2. Mutates(c) => TouchedBy(calls[j]) \cap TouchedBy(c) = {}
      BY <1>1, <1>3, <2>1, <2>2, <2>5, OthersKeepAway DEF AtomInv
    <3>3. TouchedBy(calls[j]) \subseteq Paths
      BY <1>1, <2>1, CallFacts, TouchedFiles
    <3>4. SameIn(TouchedBy(calls[j]), disk, disk')
      BY <3>1, <3>2, <3>3 DEF SameIn
    <3>5. KeepsToItsFiles(calls[j])
      BY <2>1 DEF AtomInv
    <3>6. OnTheWay(disk', calls[j])
      BY <2>3, <3>4, <3>5, OnlyItsFilesMatter
    <3> QED BY <1>4, <2>1, <2>5, <3>6
  <2> QED BY <2>4, <2>5
<1> QED BY <1>8, <1>9, <1>10 DEF AtomInv

(* A call has done nothing when it begins.                                 *)
LEMMA CallAtom ==
  ASSUME IInv, AtomInv, Call
  PROVE  AtomInv'
<1> DEFINE old == IF Active = {} THEN <<>> ELSE calls
<1>0. PICK r \in Requests : \E d : Opened(r, d) /\ calls' = Append(old, d)
  BY DEF Call, Opened
<1>1. PICK d : Opened(r, d) /\ calls' = Append(old, d)
  BY <1>0
<1>2. disk' = disk
  BY DEF Call
<1>3. old \in Seq(CallType) /\ calls \in Seq(CallType)
  BY DEF IInv, TypeOK
<1>4. /\ \A j \in DOMAIN old : j \in DOMAIN calls /\ old[j] = calls[j] /\ Active # {}
      /\ Active # {} => old = calls
      /\ Active \subseteq DOMAIN old
  BY DEF Active
<1> DEFINE n == Len(old) + 1
<1> HIDE DEF old
<1>5. /\ DOMAIN calls' = DOMAIN old \cup {n} /\ n \notin DOMAIN old /\ calls'[n] = d
      /\ \A j \in DOMAIN old : calls'[j] = old[j] /\ j < n /\ j \in Nat
      /\ n \in Nat
  BY <1>1, <1>3, AppendProperties
<1> HIDE DEF n
<1>6. /\ d.pc \in {"read", "check"} /\ (d.tool = "read" <=> d.pc = "read") /\ d.writes = <<>> /\ d.unlinks = <<>>
      /\ d.before = disk /\ d.beside = Active /\ d.k = 1 /\ DOMAIN d.ops \subseteq Nat \ {0}
  <2>1. r.ops \in Seq(Operation)
    BY RequestsAssumption
  <2> QED BY <1>1, <2>1 DEF Opened
<1>7. ToWrite(d) = {} /\ ToRemove(d) = {}
  BY <1>6 DEF ToWrite, ToRemove
<1>8. KeepsToItsFiles(d)
  BY <1>6, <1>7 DEF KeepsToItsFiles, Mutates
<1>9. Mutates(d) => OnTheWay(disk, d)
  <2>1. Untouched(disk, d)
    BY <1>6 DEF Untouched
  <2>2. LeadsToGoal(d)
    BY <1>6 DEF LeadsToGoal
  <2>3. d.pc = "check" => Passed(d) = {}
    BY <1>6 DEF Passed
  <2> QED BY <1>6, <1>7, <2>1, <2>2, <2>3 DEF OnTheWay, Mutates, Applies
<1>10. \A j \in DOMAIN calls' : KeepsToItsFiles(calls'[j])
  BY <1>4, <1>5, <1>8 DEF AtomInv
<1>11. Active' \subseteq Active \cup {n}
  BY <1>4, <1>5 DEF Active
<1>12. Neighbours'
  <2>1. ASSUME NEW i \in Active', NEW j \in Active', i < j  PROVE i \in calls'[j].beside
    <3>1. CASE i \in Active /\ j \in Active
      <4>1. i \in calls[j].beside
        BY <2>1, <3>1 DEF AtomInv, Neighbours
      <4> QED BY <1>4, <1>5, <3>1, <4>1
    <3>2. CASE i \in Active /\ j = n
      BY <1>5, <1>6, <3>2
    <3>3. CASE i = n
      <4>1. j = n \/ j \in DOMAIN old
        BY <1>4, <1>11
      <4>2. j <= n
        BY <1>5, <4>1
      <4> QED BY <1>5, <2>1, <3>3, <4>1, <4>2
    <3> QED BY <1>11, <3>1, <3>2, <3>3
  <2> QED BY <2>1 DEF Neighbours
<1>13. ASSUME NEW j \in Active', Mutates(calls'[j]), Alone(j)'  PROVE OnTheWay(disk', calls'[j])
  <2>1. CASE j = n
    BY <1>2, <1>5, <1>9, <1>13, <2>1
  <2>2. CASE j # n
    <3>1. j \in Active /\ Active # {} /\ old = calls /\ calls'[j] = calls[j] /\ j \in DOMAIN calls
      BY <1>4, <1>5, <1>11, <2>2
    <3>2. Alone(j)
      <4>1. \A m \in DOMAIN calls : /\ m \in DOMAIN calls'
                                    /\ calls'[m].ops = calls[m].ops /\ calls'[m].beside = calls[m].beside
                                    /\ calls'[m].tool = calls[m].tool
        BY <1>5, <3>1
      <4> QED BY <1>13, <3>1, <4>1, AloneBefore
    <3> QED BY <1>2, <1>13, <3>1, <3>2 DEF AtomInv
  <2> QED BY <2>1, <2>2
<1> QED BY <1>10, <1>12, <1>13 DEF AtomInv

LEMMA NextAtom == IInv /\ AtomInv /\ [Next]_vars => AtomInv'
<1> SUFFICES ASSUME IInv, AtomInv, [Next]_vars  PROVE AtomInv'
  OBVIOUS
<1>1. CASE Call
  BY <1>1, CallAtom
<1>2. CASE \E i \in DOMAIN calls : Work(i)
  BY <1>2, WorkAtom
<1>3. CASE Expire \/ Outside
  <2>1. calls' = calls /\ Active = {}
    BY <1>3 DEF Expire, Outside
  <2>2. Active' = {}
    BY <2>1 DEF Active, Ended
  <2> QED BY <2>1, <2>2 DEF AtomInv, Neighbours
<1>4. CASE UNCHANGED vars
  <2>1. calls' = calls /\ disk' = disk
    BY <1>4 DEF vars
  <2>2. Active' = Active /\ \A i : Alone(i)' <=> Alone(i)
    BY <2>1 DEF Active, Alone
  <2> QED BY <2>1, <2>2 DEF AtomInv, Neighbours
<1> QED BY <1>1, <1>2, <1>3, <1>4 DEF Next

LEMMA AtomInvariance == Spec => []AtomInv
<1>1. Init => AtomInv
  BY InitAtom
<1>2. IInv /\ AtomInv /\ [Next]_vars => AtomInv'
  BY NextAtom
<1> QED
  BY <1>1, <1>2, Invariance, PTL DEF Spec

EndsAllOrNothing ==
  \A i \in DOMAIN calls :
    Mutates(calls[i]) /\ ~Ended(calls[i]) /\ Ended(calls'[i]) /\ Alone(i) =>
      \A p \in TouchedBy(calls[i]) :
        disk'[p] = (IF calls'[i].pc = "done" /\ ~calls[i].dry THEN Patched(calls[i].before, calls[i].ops)
                    ELSE calls[i].before)[p]

(* A call that has its files to itself, and gives each operation files of  *)
(* its own, has done all it was asked when it reports success, and nothing *)
(* when it reports failure or was only to try: however many operations a   *)
(* patch has, whatever they are, and however many calls run beside it      *)
(* (apply_patch.py, _apply_plan).                                          *)
THEOREM CallsAreAllOrNothing == Spec => CallsAreAtomic
<1>1. ASSUME IInv, AtomInv, [Next]_vars  PROVE [EndsAllOrNothing]_vars
  <2> SUFFICES ASSUME Next PROVE EndsAllOrNothing
    BY <1>1
  <2> SUFFICES ASSUME NEW i \in DOMAIN calls, Mutates(calls[i]), ~Ended(calls[i]), Ended(calls'[i]), Alone(i)
               PROVE  \A p \in TouchedBy(calls[i]) :
                        disk'[p] = (IF calls'[i].pc = "done" /\ ~calls[i].dry THEN Patched(calls[i].before, calls[i].ops)
                                    ELSE calls[i].before)[p]
    BY DEF EndsAllOrNothing
  <2>1. i \in Active /\ calls'[i] # calls[i]
    BY DEF Active
  <2>2. calls \in Seq(CallType)
    BY <1>1 DEF IInv, TypeOK
  <2>3. ~Call
    <3>1. ASSUME NEW d, calls' = Append(calls, d)  PROVE FALSE
      BY <2>1, <2>2, <3>1, AppendProperties
    <3> QED BY <2>1, <3>1 DEF Call
  <2>4. ~Expire /\ ~Outside
    BY <2>1 DEF Expire, Outside
  <2>5. PICK j \in DOMAIN calls : Work(j)
    BY <2>3, <2>4 DEF Next
  <2>6. PICK d : Step(j, d) /\ Progress(disk, disk', calls[j], d)
    BY <1>1, <2>5, WorkAdvances DEF Advances, AtomInv
  <2>7. j = i /\ calls'[i] = d
    BY <2>1, <2>2, <2>6 DEF Step
  <2>8. OnTheWay(disk, calls[i]) /\ Apart(calls[i])
    BY <1>1, <2>1, AloneIsApart DEF AtomInv
  <2> QED BY <2>6, <2>7, <2>8 DEF Progress, Goal
<1>2. Spec => [][EndsAllOrNothing]_vars
  BY <1>1, Invariance, AtomInvariance, PTL DEF Spec
<1> QED
  BY <1>2 DEF CallsAreAtomic, EndsAllOrNothing
=============================================================================
