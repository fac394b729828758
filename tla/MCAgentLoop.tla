---------------------------- MODULE MCAgentLoop ----------------------------
(* Instances of AgentLoop for TLC: four calls and what they are.  *)
EXTENDS AgentLoopProperties, TLC

CONSTANTS c1, c2, c3, c4

FourCalls  == {c1, c2, c3, c4}

Mixed      == c1 :> "edit" @@ c2 :> "read" @@ c3 :> "todoOpen" @@ c4 :> "bad"
Pausing    == c1 :> "edit" @@ c2 :> "question" @@ c3 :> "read" @@ c4 :> "test"
=============================================================================
