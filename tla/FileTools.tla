----------------------------- MODULE FileTools -----------------------------
(***************************************************************************)
(* The tools that read and change files (tools/view.py, read_multi.py,     *)
(* edit.py, write.py, delete.py, apply_patch.py), the guard that lets them *)
(* change only what was read (tools/fresh_source.py) and the path sandbox. *)
(* In bypass mode the loop runs neighbouring calls of a batch in threads   *)
(* of their own; a step of this module is what one of them does to the     *)
(* disk or to the guard: each read, each check, the truncation of a file   *)
(* that open("w") brings and the write that follows are steps of their     *)
(* own.                                                                    *)
(*                                                                         *)
(* A text is a sequence of lines, and its hash the text itself.            *)
(* Directories, encodings and the syntax of patches are left out: a patch  *)
(* is the plan parse_patch returns.                                        *)
(***************************************************************************)
EXTENDS Naturals, Sequences, FiniteSets, SequencesExt

CONSTANTS
  Paths,      \* files, each under one name
  Project,    \* those inside the root of the sandbox
  Lines,      \* lines of text
  Texts,      \* what write is given, and what other programs leave
  Requests,   \* what the model asks for, without its tokens
  Scenes,     \* [guard, editable, threads, unrestricted, outside]
  Contents,   \* what is on disk at first
  MaxMoves    \* bound: calls, changes from outside and tokens that expire

CONSTANT None   \* no line: the text of no file, a hunk that is not there
NoFile == <<None>>

(* What one call is asked to do with one file.  A hunk is a line and the   *)
(* line that takes its place.                                              *)
Operation ==
  [action : {"read", "delete", "remove"}, path : Paths]
  \cup [action : {"edit"}, path : Paths, old : Lines, new : Lines, all : BOOLEAN]
  \cup [action : {"write"}, path : Paths, text : Texts, overwrite : BOOLEAN]
  \cup [action : {"add"}, path : Paths, text : Texts]
  \cup [action : {"update"}, path : Paths, to : Paths, old : Lines, new : Lines]
  \cup [action : {"update"}, path : Paths, to : Paths, old : {None}, new : {None}]

ASSUME RequestsAssumption ==
  \A r \in Requests : /\ r.tool \in {"read", "edit", "write", "delete", "patch"}
                      /\ r.dry \in BOOLEAN /\ r.ops \in Seq(Operation) \ {<<>>}
ASSUME ScenesAssumption ==
  \A s \in Scenes : s.threads \in Nat \ {0}
ASSUME ProjectAssumption == Project \subseteq Paths
ASSUME TextsAssumption == Texts \subseteq Seq(Lines) /\ None \notin Lines
ASSUME ContentsAssumption == Contents \subseteq [Paths -> Texts \cup {NoFile}]

VARIABLES
  scene,      \* how the tools were created
  disk,       \* the text of each file
  revisions,  \* what the guard has issued: path, hash, whether it still knows it
  viewed,     \* history: the text each token was given with a page of
  uses,       \* history: how many changes each token has let through
  calls,      \* the calls of one batch, each with the thread that runs it
  moves       \* counts what MaxMoves bounds

vars == <<scene, disk, revisions, viewed, uses, calls, moves>>

Move == moves < MaxMoves /\ moves' = moves + 1

Exists(p) == disk[p] # NoFile
Tokens == DOMAIN revisions
Ended(c) == c.pc \in {"done", "failed"}
Active == {i \in DOMAIN calls : ~Ended(calls[i])}

-----------------------------------------------------------------------------
(* FreshSourceGuard and PathSandbox.                                       *)

Resolves(p) == p \in Project \/ scene.unrestricted

(* Mutant: the hash is not compared.                                       *)
ValidExistingAnyHash(p, t) ==
  /\ p \in scene.editable /\ p \in Project
  /\ t \in Tokens /\ revisions[t].known /\ revisions[t].path = p
  /\ Exists(p)

ValidExisting(p, t) ==
  /\ p \in scene.editable /\ p \in Project
  /\ t \in Tokens /\ revisions[t].known /\ revisions[t].path = p
  /\ Exists(p) /\ disk[p] = revisions[t].hash

ValidNew(p) == p \in scene.editable /\ p \in Project /\ ~Exists(p)

-----------------------------------------------------------------------------
(* Operations: one of edit, write and delete; a list of a patch's.         *)

Occurrences(text, line) == Cardinality({i \in DOMAIN text : text[i] = line})
Replace(text, line, by) == [i \in DOMAIN text |-> IF text[i] = line THEN by ELSE text[i]]

Touched(o) == {o.path} \cup (IF o.action = "update" THEN {o.to} ELSE {})

AsksForNew(o) == o.action = "add" \/ (o.action = "write" /\ ~Exists(o.path))

(* What is looked at before the guard, and what the guard is asked.        *)
(* Mutant: the destination of a move is not asked for.                     *)
AllowedUnlessMoved(o, t) ==
  /\ \A p \in Touched(o) : Resolves(p)
  /\ o.action \in {"edit", "delete"} => Exists(o.path)
  /\ o.action = "write" /\ ~o.overwrite => ~Exists(o.path)
  /\ scene.guard =>
       IF AsksForNew(o) THEN ValidNew(o.path)
       ELSE ValidExisting(o.path, t)

Allowed(o, t) ==
  /\ \A p \in Touched(o) : Resolves(p)
  /\ o.action \in {"edit", "delete"} => Exists(o.path)
  /\ o.action = "write" /\ ~o.overwrite => ~Exists(o.path)
  /\ scene.guard =>
       /\ IF AsksForNew(o) THEN ValidNew(o.path)
          ELSE ValidExisting(o.path, t)
       /\ o.action = "update" /\ o.to # o.path => ValidNew(o.to)

(* The tool can do it to the files as they are.                            *)
Possible(o) ==
  CASE o.action = "edit" -> /\ Exists(o.path)
                            /\ Occurrences(disk[o.path], o.old) = 1
                                 \/ (o.all /\ Occurrences(disk[o.path], o.old) > 1)
    [] o.action = "add" -> ~Exists(o.path)
    [] o.action = "update" -> /\ Exists(o.path)
                              /\ o.to # o.path => ~Exists(o.to)
                              /\ o.old # None => Occurrences(disk[o.path], o.old) = 1
    [] o.action = "remove" -> Exists(o.path)
    [] OTHER -> TRUE

Changed(o) ==
  CASE o.action \in {"write", "add"} -> o.text
    [] o.action = "update" /\ o.old = None -> disk[o.path]
    [] OTHER -> Replace(disk[o.path], o.old, o.new)

(* pending_writes and pending_deletes.                                     *)
Writes(o) ==
  CASE o.action \in {"edit", "write", "add"} -> <<[path |-> o.path, text |-> Changed(o)]>>
    [] o.action = "update" -> <<[path |-> o.to, text |-> Changed(o)]>>
    [] OTHER -> <<>>

Unlinks(o) ==
  IF o.action \in {"delete", "remove"} \/ (o.action = "update" /\ o.to # o.path) THEN <<o.path>> ELSE <<>>

-----------------------------------------------------------------------------
Init ==
  /\ scene \in Scenes
  /\ disk \in Contents
  /\ revisions = <<>> /\ viewed = <<>> /\ uses = <<>>
  /\ calls = <<>> /\ moves = 0

(* The model may name any token it was given before this batch, or none.   *)
Visible == IF Active = {} THEN Len(revisions) ELSE calls[CHOOSE i \in Active : TRUE].visible

Call ==
  /\ Move
  /\ Active = {} \/ Len(calls) < scene.threads
  /\ \E r \in Requests : \E given \in [DOMAIN r.ops -> 0..Visible] :
       /\ (r.tool = "read" \/ ~scene.guard) => \A k \in DOMAIN r.ops : given[k] = 0
       /\ calls' = Append(IF Active = {} THEN <<>> ELSE calls,
            [tool |-> r.tool, dry |-> r.dry, ops |-> r.ops, token |-> given, visible |-> Visible,
             pc |-> IF r.tool = "read" THEN "read" ELSE "check", k |-> 1, text |-> <<>>,
             proved |-> {}, writes |-> <<>>, unlinks |-> <<>>, before |-> disk, beside |-> Active])
  /\ UNCHANGED <<scene, disk, revisions, viewed, uses>>

Step(i, c) == calls' = [calls EXCEPT ![i] = c] /\ UNCHANGED moves
Fail(i) == Step(i, [calls[i] EXCEPT !.pc = "failed"])

(* view, and read_multi for one path after another: the text is read, and  *)
(* then read again for the token.  The page of it the answer shows, a      *)
(* range of lines or as much as read_multi has room for, is left out: the  *)
(* token is for the whole file whatever the page.                          *)
ReadText(i) ==
  LET c == calls[i] p == c.ops[c.k].path IN
  /\ c.pc = "read"
  /\ IF Resolves(p) /\ Exists(p) THEN Step(i, [c EXCEPT !.pc = "issue", !.text = disk[p]])
     ELSE IF c.k < Len(c.ops) THEN Step(i, [c EXCEPT !.k = @ + 1])
     ELSE Fail(i)
  /\ UNCHANGED <<scene, disk, revisions, viewed, uses>>

Issue(i) ==
  LET c == calls[i] p == c.ops[c.k].path IN
  /\ c.pc = "issue"
  /\ IF scene.guard /\ p \in Project /\ Exists(p)
     THEN /\ revisions' = Append(revisions, [path |-> p, hash |-> disk[p], known |-> TRUE])
          /\ viewed' = Append(viewed, c.text)
          /\ uses' = Append(uses, 0)
     ELSE UNCHANGED <<revisions, viewed, uses>>
  /\ IF scene.guard /\ ~(p \in Project /\ Exists(p)) THEN Fail(i)
     ELSE IF c.k < Len(c.ops) THEN Step(i, [c EXCEPT !.pc = "read", !.k = @ + 1])
     ELSE Step(i, [c EXCEPT !.pc = "done"])
  /\ UNCHANGED <<scene, disk>>

(* _validate_fresh_patch goes through all operations first, then           *)
(* _apply_plan through all of them, and only then is something written.    *)
Check(i) ==
  LET c == calls[i] IN
  /\ c.pc = "check"
  /\ LET o == c.ops[c.k]
         t == c.token[c.k]
         checked == [c EXCEPT !.proved = IF scene.guard /\ ~AsksForNew(o) THEN @ \cup {t} ELSE @] IN
     IF ~Allowed(o, t) THEN Fail(i)
     ELSE IF c.k < Len(c.ops) THEN Step(i, [checked EXCEPT !.k = @ + 1])
     ELSE Step(i, [checked EXCEPT !.pc = "plan", !.k = 1])
  /\ UNCHANGED <<scene, disk, revisions, viewed, uses>>

Apply(c) == IF c.writes # <<>> THEN "truncate" ELSE IF c.unlinks # <<>> THEN "unlink" ELSE "consume"

(* Mutant: each operation is applied when it is planned.                   *)
PlanAndApply(i) ==
  LET c == calls[i] o == c.ops[c.k] IN
  /\ c.pc = "plan"
  /\ IF ~Possible(o) THEN Fail(i) /\ UNCHANGED disk
     ELSE /\ disk' = [p \in Paths |-> IF \E k \in DOMAIN Writes(o) : Writes(o)[k].path = p THEN Changed(o)
                                      ELSE IF \E k \in DOMAIN Unlinks(o) : Unlinks(o)[k] = p THEN NoFile ELSE disk[p]]
          /\ IF c.k < Len(c.ops) THEN Step(i, [c EXCEPT !.k = @ + 1]) ELSE Step(i, [c EXCEPT !.pc = "consume"])
  /\ UNCHANGED <<scene, revisions, viewed, uses>>

Plan(i) ==
  LET c == calls[i] o == c.ops[c.k] IN
  /\ c.pc = "plan"
  /\ IF ~Possible(o) THEN Fail(i)
     ELSE LET planned == [c EXCEPT !.writes = @ \o Writes(o), !.unlinks = @ \o Unlinks(o)] IN
          IF c.k < Len(c.ops) THEN Step(i, [planned EXCEPT !.k = @ + 1])
          ELSE Step(i, [planned EXCEPT !.pc = IF c.dry THEN "done" ELSE Apply(planned)])
  /\ UNCHANGED <<scene, disk, revisions, viewed, uses>>

(* Path.write_text empties the file, then writes.                          *)
Truncate(i) ==
  LET c == calls[i] IN
  /\ c.pc = "truncate"
  /\ disk' = [disk EXCEPT ![Head(c.writes).path] = <<>>]
  /\ Step(i, [c EXCEPT !.pc = "fill"])
  /\ UNCHANGED <<scene, revisions, viewed, uses>>

Fill(i) ==
  LET c == calls[i] rest == [c EXCEPT !.writes = Tail(@)] IN
  /\ c.pc = "fill"
  /\ disk' = [disk EXCEPT ![Head(c.writes).path] = Head(c.writes).text]
  /\ Step(i, [rest EXCEPT !.pc = Apply(rest)])
  /\ UNCHANGED <<scene, revisions, viewed, uses>>

(* A file that is gone raises, whatever was written before.                *)
Unlink(i) ==
  LET c == calls[i] rest == [c EXCEPT !.unlinks = Tail(@)] IN
  /\ c.pc = "unlink"
  /\ IF Exists(Head(c.unlinks))
     THEN disk' = [disk EXCEPT ![Head(c.unlinks)] = NoFile] /\ Step(i, [rest EXCEPT !.pc = Apply(rest)])
     ELSE UNCHANGED disk /\ Fail(i)
  /\ UNCHANGED <<scene, revisions, viewed, uses>>

(* write consumes the token it was given even if the file is new.          *)
Spent(c) == c.proved \cup (IF c.tool = "write" THEN {c.token[1]} ELSE {})

(* Mutant: the tokens of a patch stay known.                               *)
ForgetPatchless(c) ==
  [t \in Tokens |-> IF t \in Spent(c) /\ c.tool # "patch" THEN [revisions[t] EXCEPT !.known = FALSE] ELSE revisions[t]]

Forget(c) == [t \in Tokens |-> IF t \in Spent(c) THEN [revisions[t] EXCEPT !.known = FALSE] ELSE revisions[t]]

Consume(i) ==
  LET c == calls[i] IN
  /\ c.pc = "consume"
  /\ revisions' = Forget(c)
  /\ uses' = [t \in Tokens |-> IF t \in c.proved THEN uses[t] + 1 ELSE uses[t]]
  /\ Step(i, [c EXCEPT !.pc = "done"])
  /\ UNCHANGED <<scene, disk, viewed>>

(* A token outlives its time: the next check forgets it.                   *)
Expire ==
  /\ Move
  /\ \E t \in Tokens :
       /\ revisions[t].known
       /\ revisions' = [revisions EXCEPT ![t].known = FALSE]
  /\ Active = {}
  /\ UNCHANGED <<scene, disk, viewed, uses, calls>>

(* The user's editor, or a program the agent runs.                         *)
Outside ==
  /\ Move
  /\ scene.outside /\ Active = {}
  /\ \E p \in Paths, text \in Texts \cup {NoFile} : text # disk[p] /\ disk' = [disk EXCEPT ![p] = text]
  /\ UNCHANGED <<scene, revisions, viewed, uses, calls>>

Work(i) == ReadText(i) \/ Issue(i) \/ Check(i) \/ Plan(i) \/ Truncate(i) \/ Fill(i) \/ Unlink(i) \/ Consume(i)

Next == Call \/ (\E i \in DOMAIN calls : Work(i)) \/ Expire \/ Outside

Spec == Init /\ [][Next]_vars
=============================================================================
