---------------------------- MODULE ToolSequence ----------------------------
(***************************************************************************)
(* The message history of a session as the provider sees it, and the check *)
(* firstcoder runs over it before every request                            *)
(* (context/tool_sequence.py, called by context/context_builder.py).       *)
(*                                                                         *)
(* A message is reduced to its role, the tool calls it carries (the ids    *)
(* requested by an assistant message, or the one id a tool message         *)
(* answers) and "how": what kind of user message it is, or what kind of    *)
(* result a tool message holds.                                            *)
(***************************************************************************)
EXTENDS Naturals, Sequences

CONSTANT Calls          \* ids of tool calls

UserKinds == {"input", "guidance", "reminder", "selfcheck"}
ResultKinds == {"ran", "denied", "confirm", "skipped"}

Message ==
  [role : {"user"},      calls : {<<>>},           how : UserKinds] \cup
  [role : {"assistant"}, calls : Seq(Calls),       how : {"reply"}] \cup
  [role : {"tool"},      calls : Seq(Calls),       how : ResultKinds]

User(kind)      == [role |-> "user",      calls |-> <<>>,  how |-> kind]
Assistant(cs)   == [role |-> "assistant", calls |-> cs,    how |-> "reply"]
Result(c, kind) == [role |-> "tool",      calls |-> <<c>>, how |-> kind]

Elems(s) == {s[i] : i \in DOMAIN s}
Position(s, c) == CHOOSE i \in DOMAIN s : s[i] = c

-----------------------------------------------------------------------------
(* validate_tool_call_sequence, without its loop: pending_tool_call_ids     *)
(* after n messages, and what every message is checked against.            *)

Owed(l, n) ==
  UNION {{c \in Elems(l[a].calls) :
            \A j \in (a + 1)..n : l[j].role # "assistant" /\ c \notin Elems(l[j].calls)} :
         a \in {a \in 1..n : l[a].role = "assistant"}}

Unbroken(l) ==
  \A i \in DOMAIN l :
    IF l[i].role = "tool" THEN Elems(l[i].calls) \subseteq Owed(l, i - 1)
                          ELSE Owed(l, i - 1) = {}

Sendable(l) == Unbroken(l) /\ Owed(l, Len(l)) = {}

(* The loop: one pass that keeps the ids still owed, and stops being valid *)
(* at the first message that does not fit; other messages carry no calls.  *)
Check(st, m) ==
  [owed |-> IF m.role = "assistant" THEN Elems(m.calls) ELSE st.owed \ Elems(m.calls),
   ok   |-> st.ok /\ IF m.role = "tool" THEN Elems(m.calls) \subseteq st.owed ELSE st.owed = {}]

NothingOwed == [owed |-> {}, ok |-> TRUE]

Replay(l) ==
  LET r[i \in 0..Len(l)] ==
        IF i = 0 THEN NothingOwed ELSE Check(r[i - 1], l[i])
  IN  r

Accepted(l) == Replay(l)[Len(l)].ok /\ Replay(l)[Len(l)].owed = {}

(* What a provider asks: every assistant batch is followed at once by      *)
(* exactly its results, and no result stands elsewhere.                    *)
Window(l, a) == (a + 1)..(a + Len(l[a].calls))
WellFormed(l) ==
  /\ \A a \in DOMAIN l : l[a].role = "assistant" =>
       /\ Window(l, a) \subseteq DOMAIN l
       /\ \A i \in Window(l, a) : l[i].role = "tool"
       /\ UNION {Elems(l[i].calls) : i \in Window(l, a)} = Elems(l[a].calls)
  /\ \A i \in DOMAIN l : l[i].role = "tool" =>
       \E a \in DOMAIN l : l[a].role = "assistant" /\ i \in Window(l, a)

(* The histories there are: the calls of a message are distinct, and a     *)
(* result is that of one call.                                             *)
Histories ==
  {l \in Seq(Message) : \A i \in DOMAIN l :
     /\ \A j, k \in DOMAIN l[i].calls : l[i].calls[j] = l[i].calls[k] => j = k
     /\ l[i].role = "tool" => Len(l[i].calls) = 1}

(* The batch a position of the history belongs to: the last message before *)
(* it, or at it, that is no tool result.                                   *)
Follows(l, a, i) ==
  /\ a < i
  /\ l[a].role = "assistant"
  /\ \A j \in (a + 1)..(i - 1) : l[j].role = "tool"
=============================================================================
