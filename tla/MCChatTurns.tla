---------------------------- MODULE MCChatTurns ----------------------------
(***************************************************************************)
(* An instance of ChatTurns for TLC: two turns, calls of which c1 is       *)
(* guarded, a streaming provider with any two of interruptions, /resume    *)
(* and guidance at once, and one that does not stream, where the worker    *)
(* thread does the bookkeeping.                                            *)
(* ToolSequenceCheck adds its comparison of the history checks.            *)
(***************************************************************************)
EXTENDS ChatTurnsProperties, ToolSequenceCheck, TLC

CONSTANTS c1, c2, s1, s2

GuardedCalls == {c1}
TwoCalls     == {c1, c2}
TwoSessions  == {s1, s2}

SomeSettings ==
  {[streaming |-> TRUE,  does |-> {"interrupt", "resume"}, notes |-> 0, objects |-> 2],
   [streaming |-> TRUE,  does |-> {"resume"},              notes |-> 1, objects |-> 2],
   [streaming |-> TRUE,  does |-> {"interrupt"},           notes |-> 1, objects |-> 1],
   [streaming |-> FALSE, does |-> {"interrupt"},           notes |-> 0, objects |-> 1]}
=============================================================================
