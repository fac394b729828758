---------------------------- MODULE MCFileTools ----------------------------
(* Instances of FileTools for TLC: two files and one outside the project.  *)
EXTENDS FileToolsProperties, TLC

CONSTANTS a, b, out, x, y

MCTexts == {<<x>>, <<y>>, <<x, x>>, <<x, y>>}
MCContents == {(a :> <<x>> @@ b :> t @@ out :> <<x>>) : t \in {NoFile, <<x>>}}
              \cup {(a :> t @@ b :> NoFile @@ out :> NoFile) : t \in {<<x, x>>, <<x, y>>}}

Read(paths)      == [tool |-> "read", dry |-> FALSE, ops |-> [k \in DOMAIN paths |-> [action |-> "read", path |-> paths[k]]]]
Edit(p, all)     == [tool |-> "edit", dry |-> FALSE, ops |-> <<[action |-> "edit", path |-> p, old |-> x, new |-> y, all |-> all]>>]
Write(p, over)   == [tool |-> "write", dry |-> FALSE, ops |-> <<[action |-> "write", path |-> p, text |-> <<y>>, overwrite |-> over]>>]
Delete(p)        == [tool |-> "delete", dry |-> FALSE, ops |-> <<[action |-> "delete", path |-> p]>>]
Patch(ops, dry)  == [tool |-> "patch", dry |-> dry, ops |-> ops]
Add(p)           == [action |-> "add", path |-> p, text |-> <<x>>]
Update(p, to, old, new) == [action |-> "update", path |-> p, to |-> to, old |-> old, new |-> new]
RemoveFile(p)        == [action |-> "remove", path |-> p]

MCRequests ==
  {Read(<<a>>), Read(<<a, b>>), Edit(a, FALSE), Edit(a, TRUE), Edit(out, FALSE), Write(a, TRUE), Write(b, FALSE), Delete(a),
   Patch(<<Update(a, b, x, y)>>, FALSE), Patch(<<Update(a, a, x, y), RemoveFile(b)>>, FALSE), Patch(<<Add(b), Update(a, a, x, x)>>, FALSE),
   Patch(<<Update(a, a, x, y)>>, TRUE), Patch(<<Update(a, b, None, None), Add(out)>>, FALSE),
   Patch(<<Update(a, a, x, y), Update(a, a, y, x)>>, FALSE), Patch(<<RemoveFile(b), RemoveFile(b)>>, FALSE)}

Guarded  == [guard |-> TRUE, editable |-> {a}, threads |-> 1, unrestricted |-> TRUE, outside |-> TRUE]
MCScenes ==
  {Guarded, [Guarded EXCEPT !.editable = {a, b}],
   [Guarded EXCEPT !.guard = FALSE, !.threads = 2, !.outside = FALSE],
   [Guarded EXCEPT !.guard = FALSE, !.unrestricted = FALSE]}

(* pytest-fix: the guard, and the batches of bypass mode.                  *)
FixScenes   == {[Guarded EXCEPT !.threads = 2]}
FixRequests == {Read(<<a>>), Edit(a, FALSE), Write(a, TRUE)}
=============================================================================
