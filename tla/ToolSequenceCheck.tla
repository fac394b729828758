-------------------------- MODULE ToolSequenceCheck --------------------------
(***************************************************************************)
(* The history check of context/tool_sequence.py three ways, compared over *)
(* every history up to MaxLen messages: the loop of the code (Replay), its *)
(* unrolled form that the other modules use (Sendable), and what a         *)
(* provider asks of a history (WellFormed).  TLC evaluates the comparison  *)
(* before it runs a specification whose module extends this one; for       *)
(* histories of any length it is the theorem CheckAcceptsWhatIsWellFormed  *)
(* of AgentLoopProofs.                                                     *)
(***************************************************************************)
EXTENDS ToolSequence

CONSTANTS MaxLen, MaxCalls   \* bounds: messages, and calls in a message

CallLists ==
  {cs \in UNION {[1..n -> Calls] : n \in 0..MaxCalls} :
     \A i, j \in DOMAIN cs : cs[i] = cs[j] => i = j}
AnyMessage == {User("input")} \cup {Assistant(cs) : cs \in CallLists} \cup {Result(c, "ran") : c \in Calls}
ShortHistories == UNION {[1..n -> AnyMessage] : n \in 0..MaxLen}

(* The check accepts a history exactly when every assistant batch is       *)
(* followed by its results and no result is an orphan or a duplicate, and  *)
(* the unrolled form the other modules use is the same check.              *)
ASSUME CheckIsExact ==
  \A h \in ShortHistories : Accepted(h) = WellFormed(h) /\ Sendable(h) = Accepted(h)
=============================================================================
