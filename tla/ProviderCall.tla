---------------------------- MODULE ProviderCall ----------------------------
(***************************************************************************)
(* What the agent loop relies on when it calls a model                     *)
(* (providers/base.py, agent/loop.py): a call ends at most once, with an   *)
(* error, cancelled, or with an answer to the request sent last; it sends  *)
(* no more requests than its retries allow.  Of the tool calls in that     *)
(* reply the answer has all, and then all of its text, or none.            *)
(***************************************************************************)
EXTENDS Naturals, Sequences

CONSTANTS Replies,    \* what a model may reply
          Text(_),    \* the text of a reply
          Calls(_)    \* the tool calls of a reply, if all of them are whole

VARIABLES allowed,    \* how many requests the call may send
          asked,      \* the replies to the requests sent so far
          outcome,    \* "open", "answer", "error" or "cancelled"
          answer      \* the answer, when there is one

callVars == <<allowed, asked, outcome, answer>>

Nothing == [text |-> <<>>, tools |-> <<>>]

Init == allowed \in Nat /\ asked = <<>> /\ outcome = "open" /\ answer = Nothing

Ask == /\ outcome = "open" /\ Len(asked) < allowed
       /\ asked' \in {Append(asked, r) : r \in Replies}
       /\ UNCHANGED <<allowed, outcome, answer>>

Answer ==
  /\ outcome = "open" /\ asked # <<>>
  /\ LET reply == asked[Len(asked)]
     IN  \/ \E n \in 0..Len(Text(reply)) :
              answer' = [text |-> SubSeq(Text(reply), 1, n), tools |-> <<>>]
         \/ answer' = [text |-> Text(reply), tools |-> Calls(reply)]
  /\ outcome' = "answer"
  /\ UNCHANGED <<allowed, asked>>

Fail == /\ outcome = "open" /\ outcome' \in {"error", "cancelled"}
        /\ UNCHANGED <<allowed, asked, answer>>

Next == Ask \/ Answer \/ Fail

Spec == Init /\ [][Next]_callVars
=============================================================================
