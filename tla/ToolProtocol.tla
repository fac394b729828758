---------------------------- MODULE ToolProtocol ----------------------------
(***************************************************************************)
(* What providers require of a conversation with tools, whoever keeps it:  *)
(* a message other than a tool result is said only when every call of the  *)
(* batch before has been answered, and each call of a batch is answered    *)
(* once.  The session log of AgentLoop implements this while nobody        *)
(* cancels, nothing crashes and no call is denied.                         *)
(***************************************************************************)
EXTENDS Naturals, FiniteSets

CONSTANT Calls

VARIABLES
  asked,     \* calls the model has ever requested
  owed,      \* calls of the last batch that have no answer yet
  said       \* number of messages that are no tool results

protocolVars == <<asked, owed, said>>

Init == asked = {} /\ owed = {} /\ said = 0

Say     == owed = {} /\ said' = said + 1 /\ UNCHANGED <<asked, owed>>
Request == /\ owed = {} /\ said' = said + 1
           /\ \E batch \in SUBSET (Calls \ asked) :
                batch # {} /\ owed' = batch /\ asked' = asked \cup batch
Settle  == \E c \in owed : owed' = owed \ {c} /\ UNCHANGED <<asked, said>>

Next == Say \/ Request \/ Settle
Spec == Init /\ [][Next]_protocolVars
=============================================================================
