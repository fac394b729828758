------------------------ MODULE ChatTurnsProperties ------------------------
(***************************************************************************)
(* What the terminal UI promises about turns, guidance, interruption and   *)
(* confirmations.                                                          *)
(***************************************************************************)
EXTENDS ChatTurns

Turns == DOMAIN turns
Live(t) == turns[t].co # "ended" /\ ~turns[t].killed

(* The UI is busy exactly while a turn that was neither finished nor       *)
(* interrupted runs, and there is never more than one: tui.py decides by   *)
(* this flag whether input is a message, an answer or guidance.            *)
BusyIsExact ==
  /\ busy <=> \E t \in Turns : Live(t)
  /\ \A t, u \in Turns : Live(t) /\ Live(u) => t = u

(* All a turn writes goes to one session, though /resume replaces the      *)
(* current one in the middle of it (AgentLoop keeps the session it was     *)
(* created with).                                                          *)
TurnInOneLog ==
  \A s1, s2 \in Sessions : \A i \in DOMAIN logs[s1], j \in DOMAIN logs[s2] :
    logs[s1][i].turn = logs[s2][j].turn /\ logs[s1][i].turn # 0 => s1 = s2

(* An interrupted turn asks the provider nothing more and starts no tool,  *)
(* whatever else goes on: the cancellation flag of AgentChatRunner belongs *)
(* to the turn that Esc Esc ends.  (With a streaming provider; without one *)
(* the flag is taken by the thread, after Esc Esc could have come.)        *)
InterruptedTurnsStop ==
  [][setting.streaming => \A t \in Turns : turns[t].killed =>
       turns'[t].asks = turns[t].asks /\ turns'[t].runs = turns[t].runs]_vars

(* No interrupted turn is still at it when a later one is started: the     *)
(* turns interrupted before the latest were cancelled in the queue.  The   *)
(* latest may be interrupted at any point.                                 *)
Undisputed == \A t \in Turns : turns[t].killed => t = Len(turns) \/ turns[t].pc = "off"

(* The question on the screen is the one the current session waits for, so *)
(* the answer finds its request (AgentChatRunner.resume_with_user_input),  *)
(* /resume aside, and unless the thread of an interrupted turn stores,     *)
(* clears or reports a confirmation while a later turn has one.            *)
AnswersFindTheirRequest ==
  Len(objects) = 1 /\ Undisputed /\ shown # None => objects[current].pending = shown

-----------------------------------------------------------------------------
(* While no turn has been interrupted and no session opened anew.          *)
Undisturbed == Len(objects) = 1 /\ \A t \in Turns : ~turns[t].killed

(* When the UI waits for input and no confirmation is open, the current    *)
(* session's history can be sent.                                          *)
IdleSessionUsable ==
  Undisturbed /\ ~busy /\ objects[current].pending = None =>
    Sendable(logs[objects[current].session])

(* Every turn's coroutine and thread end, and with them (BusyIsExact) the  *)
(* UI becomes free again.                                                  *)
TurnsEnd == \A t \in 1..MaxTurns :
  (t \in DOMAIN turns) ~> (t \in DOMAIN turns /\ turns[t].co = "ended" /\ turns[t].pc \in {"off", "done"})
=============================================================================
