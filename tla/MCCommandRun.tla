---------------------------- MODULE MCCommandRun ----------------------------
(***************************************************************************)
(* A small instance of CommandRunProperties: every way of running a        *)
(* command, with every command that writes nothing, a little or more than  *)
(* the pipe and the limit hold, ends or not, takes the signal or not, and  *)
(* with a background process of every kind.  With a cancellation token the *)
(* background processes end some day: the call waits for them.             *)
(***************************************************************************)
EXTENDS CommandRunProperties

Command(path, writes, ends, onTerm, other, helperWrites, helperEnds, limit, refused) ==
  [path |-> path, writes |-> writes, ends |-> ends, onTerm |-> onTerm, helper |-> other,
   helperWrites |-> helperWrites, helperEnds |-> helperEnds, limit |-> limit, refused |-> refused]

AnyCommand ==
  {Command(p, w, e, t, h, hw, he, l, "no") :
     p \in {"plain", "token", "local", "docker"}, w \in {0, 1, 5}, e \in BOOLEAN,
     t \in {"dies", "ignores", "exits"}, h \in BOOLEAN, hw \in {0, 1, 4}, he \in BOOLEAN, l \in {3, 4}}

SomeScenes ==
  {s \in AnyCommand :
     /\ ~s.helper => s.helperWrites = 0 /\ s.helperEnds
     /\ s.path # "token" => s.onTerm = "dies"
     /\ s.path = "token" => s.helperEnds
     /\ s.path = "docker" => s.helper /\ s.writes = 0}
  \cup {Command(p, 0, TRUE, "dies", p = "docker", 0, TRUE, 2, why) :
          p \in {"plain", "token", "local", "docker"}, why \in {"arguments", "failed"}}
=============================================================================
