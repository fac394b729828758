----------------------------- MODULE ChatTurns -----------------------------
(***************************************************************************)
(* Chat turns of the terminal UI (app/tui.py), the runner that carries     *)
(* them out (app/runtime.py) and the sessions they write to                *)
(* (agent/session.py, session/resume.py, app/session_commands.py).         *)
(*                                                                         *)
(* Three kinds of actors.  The UI handles input, Esc Esc and slash         *)
(* commands, one event at a time.  Every turn is a coroutine on the UI's   *)
(* event loop that hands the agent loop to a worker thread and waits for   *)
(* it.  Interrupting cancels the coroutine; the thread only learns of it   *)
(* from a flag it looks at now and then, and keeps writing to the session  *)
(* log until it does.                                                      *)
(*                                                                         *)
(* The agent loop, which AgentLoop models step by step, is reduced here to *)
(* the points where a thread reads or writes something that others write:  *)
(* the log, the pending confirmation, the cancellation flag, the guidance. *)
(* A response requests at most one call; limits, self-check and denials    *)
(* by policy are left to AgentLoop.                                        *)
(***************************************************************************)
EXTENDS ToolSequence, FiniteSets

CONSTANTS
  Guarded,        \* the calls that ask the user first
  Sessions,       \* sessions in the store
  First,          \* the session the program starts with
  MaxTurns,       \* bound on messages and answers the user sends
  Settings        \* the provider and what the user does

(* streaming: the provider streams, so arun_user_turn works in the         *)
(* coroutine; does: "interrupt", "resume"; notes and objects: bounds on    *)
(* guidance queued and on session objects, one more than /resume commands. *)
ASSUME ChatAssumption ==
  /\ "none" \notin Calls /\ Guarded \subseteq Calls /\ First \in Sessions /\ MaxTurns \in Nat
  /\ \A s \in Settings :
       /\ s.streaming \in BOOLEAN /\ s.does \subseteq {"interrupt", "resume"}
       /\ s.notes \in Nat /\ s.objects \in Nat \ {0}

None == "none"

VARIABLES
  setting,    \* never changed
  logs,       \* session -> its messages, each with the turn that wrote it
  objects,    \* session objects: the session and its pending confirmation
  current,    \* current_session: the object the UI works with
  busy,       \* _chat_busy
  token,      \* _chat_turn_token
  shown,      \* runner.last_pending_input
  guidance,   \* runner.pending_guidance: notes, by number
  notes,      \* notes queued so far
  active,     \* the turn holding _active_cancellation_token, 0 when none
  turns       \* the turns so far: coroutine and thread

ui   == <<busy, token>>
vars == <<logs, objects, current, ui, shown, guidance, notes, active, turns>>

(* A turn: its UI token, what started it, the state of its coroutine and   *)
(* whether it was cancelled, its thread's position, session object,        *)
(* cancellation flag and locals, and how often it asked the provider and   *)
(* ran a tool.                                                             *)
NewTurn(tk, kind, request) ==
  [token |-> tk, kind |-> kind, request |-> request, co |-> "queued", killed |-> FALSE,
   pc |-> "off", obj |-> 0, cancelled |-> FALSE, call |-> None, out |-> None,
   asks |-> 0, runs |-> 0]

Idle == Len(turns) < MaxTurns /\ ~busy
Say(m, t, n) == [role |-> m.role, calls |-> m.calls, how |-> m.how, turn |-> t, note |-> n]
Asked == UNION {UNION {Elems(logs[s][i].calls) : i \in DOMAIN logs[s]} : s \in Sessions}

(* The other sessions were left behind finished, or at a confirmation.     *)
Past ==
  {<<Say(User("input"), 0, 0), Say(Assistant(cs), 0, 0)>> : cs \in {<<>>} \cup {<<c>> : c \in Guarded}}

Init ==
  /\ setting \in Settings
  /\ logs \in [Sessions -> Past \cup {<<>>}]
  /\ \A s \in Sessions : logs[s] = <<>> <=> s = First
  /\ objects = <<[session |-> First, pending |-> None]>> /\ current = 1
  /\ busy = FALSE /\ token = 0 /\ shown = None
  /\ guidance = <<>> /\ notes = 0 /\ active = 0 /\ turns = <<>>
-----------------------------------------------------------------------------
(* The UI: on_input_submitted, the double Esc and /resume.                 *)
StartTurn(kind, request) ==
  /\ busy' = TRUE /\ token' = token + 1
  /\ turns' = Append(turns, NewTurn(token', kind, request))

SubmitMessage ==
  /\ Idle /\ shown = None
  /\ StartTurn("message", None)
  /\ UNCHANGED <<logs, objects, current, shown, guidance, notes, active>>

SubmitAnswer ==
  /\ Idle /\ shown # None
  /\ \E answer \in {"allow", "deny"} : StartTurn(answer, shown)
  /\ UNCHANGED <<logs, objects, current, shown, guidance, notes, active>>

QueueGuidance ==
  /\ busy /\ notes < setting.notes
  /\ notes' = notes + 1 /\ guidance' = Append(guidance, notes')
  /\ UNCHANGED <<logs, objects, current, ui, shown, active, turns>>

(* Mutant: the coroutine is cancelled, the thread is not told.             *)
InterruptCoroutineOnly ==
  /\ "interrupt" \in setting.does /\ busy
  /\ busy' = FALSE /\ token' = token + 1
  /\ turns' = [t \in DOMAIN turns |->
                 [turns[t] EXCEPT !.killed = @ \/ turns[t].token = token]]
  /\ UNCHANGED <<logs, objects, current, shown, guidance, notes, active>>

Interrupt ==
  /\ "interrupt" \in setting.does /\ busy
  /\ busy' = FALSE /\ token' = token + 1
  /\ turns' = [t \in DOMAIN turns |->
                 [turns[t] EXCEPT !.killed = @ \/ turns[t].token = token,
                                  !.cancelled = @ \/ t = active]]
  /\ UNCHANGED <<logs, objects, current, shown, guidance, notes, active>>

(* restore_pending_permission_execution: the guarded call the last         *)
(* assistant message still waits for, if it is followed by results only.   *)
Unanswered(l) ==
  {c \in Guarded : \E a \in DOMAIN l :
      /\ l[a].role = "assistant" /\ c \in Elems(l[a].calls)
      /\ \A j \in (a + 1)..Len(l) : l[j].role = "tool" /\ c \notin Elems(l[j].calls)}

ResumeSession ==
  /\ "resume" \in setting.does /\ Len(objects) < setting.objects
  /\ \E s \in Sessions :
       LET open == Unanswered(logs[s])
       IN  objects' = Append(objects, [session |-> s,
             pending |-> IF open = {} THEN None ELSE CHOOSE c \in open : TRUE])
  /\ current' = Len(objects')
  /\ UNCHANGED <<logs, ui, shown, guidance, notes, active, turns>>
-----------------------------------------------------------------------------
(* The coroutine: arun_user_turn and aresume_with_user_input.              *)
Update(t, r) == turns' = [turns EXCEPT ![t] = r]

CoStart(t) ==
  /\ turns[t].co = "queued" /\ ~turns[t].killed
  /\ IF setting.streaming
     THEN /\ shown' = None /\ active' = t
          /\ Update(t, [turns[t] EXCEPT !.co = "waiting", !.pc = "ready", !.obj = current])
     ELSE /\ UNCHANGED <<shown, active>>
          /\ Update(t, [turns[t] EXCEPT !.co = "waiting", !.pc = "ready"])
  /\ UNCHANGED <<logs, objects, current, ui, guidance, notes>>

(* Without streaming run_user_turn itself is what the thread runs, and it  *)
(* reads the whole log before it takes a cancellation token.               *)
ThreadStart(t) ==
  /\ turns[t].pc = "ready"
  /\ IF setting.streaming
     THEN UNCHANGED <<shown, active>> /\ Update(t, [turns[t] EXCEPT !.pc = "begin"])
     ELSE /\ shown' = None /\ active' = t
          /\ Update(t, [turns[t] EXCEPT !.pc = "begin", !.obj = current])
  /\ UNCHANGED <<logs, objects, current, ui, guidance, notes>>

(* The coroutine was cancelled before the pool picked the work up.         *)
ThreadDropped(t) ==
  /\ turns[t].pc = "ready" /\ turns[t].co = "ended"
  /\ Update(t, [turns[t] EXCEPT !.pc = "done"])
  /\ UNCHANGED <<logs, objects, current, ui, shown, guidance, notes, active>>

(* What the runner does with a finished turn: the cancellation token is    *)
(* given back, and the pause is stored unless the turn raised.             *)
Release(t) == active' = IF active = t THEN 0 ELSE active

Report(t) == shown' = IF turns[t].out = "raised" THEN shown ELSE turns[t].out

ThreadLeaves(t) ==
  /\ turns[t].pc = "left"
  /\ IF setting.streaming THEN UNCHANGED <<active, shown>> ELSE Release(t) /\ Report(t)
  /\ Update(t, [turns[t] EXCEPT !.pc = "done"])
  /\ UNCHANGED <<logs, objects, current, ui, guidance, notes>>

(* Mutant: a finished turn that is not the current one frees the UI too.   *)
FinishAnyTurn(t) == busy' = FALSE /\ UNCHANGED token

(* _finish_chat_turn                                                       *)
FinishChatTurn(t) ==
  /\ busy' = IF turns[t].token = token THEN FALSE ELSE busy
  /\ UNCHANGED token

(* Mutant: an exception of the thread skips the finally blocks.            *)
CoReturnUnlessRaised(t) ==
  /\ turns[t].co = "waiting" /\ turns[t].pc = "done" /\ ~turns[t].killed
  /\ turns[t].out # "raised"
  /\ IF setting.streaming THEN Release(t) /\ Report(t) ELSE UNCHANGED <<active, shown>>
  /\ FinishChatTurn(t)
  /\ Update(t, [turns[t] EXCEPT !.co = "ended"])
  /\ UNCHANGED <<logs, objects, current, guidance, notes>>

CoReturn(t) ==
  /\ turns[t].co = "waiting" /\ turns[t].pc = "done" /\ ~turns[t].killed
  /\ IF setting.streaming THEN Release(t) /\ Report(t) ELSE UNCHANGED <<active, shown>>
  /\ FinishChatTurn(t)
  /\ Update(t, [turns[t] EXCEPT !.co = "ended"])
  /\ UNCHANGED <<logs, objects, current, guidance, notes>>

(* The cancellation reaches the coroutine: only its finally blocks run.    *)
CoUnwind(t) ==
  /\ turns[t].killed /\ turns[t].co \in {"queued", "waiting"}
  /\ IF setting.streaming /\ turns[t].co = "waiting" THEN Release(t) ELSE UNCHANGED active
  /\ IF turns[t].co = "waiting" THEN FinishChatTurn(t) ELSE UNCHANGED ui
  /\ Update(t, [turns[t] EXCEPT !.co = "ended"])
  /\ UNCHANGED <<logs, objects, current, shown, guidance, notes>>
-----------------------------------------------------------------------------
(* The thread: the agent loop of one turn.                                 *)
Session(t) == objects[turns[t].obj].session
Pending(t) == objects[turns[t].obj].pending
SetPending(t, p) == objects' = [objects EXCEPT ![turns[t].obj].pending = p]
Write(t, ms) == logs' = [logs EXCEPT ![Session(t)] = @ \o ms]
Step(t, pc) == Update(t, [turns[t] EXCEPT !.pc = pc])
Left(t, out) == Update(t, [turns[t] EXCEPT !.pc = "left", !.out = out])
Shared == <<current, ui, shown, notes, active>>

Begin(t) ==
  /\ turns[t].pc = "begin"
  /\ \/ /\ turns[t].kind = "message" /\ Pending(t) # None
        /\ Left(t, Pending(t)) /\ UNCHANGED <<logs, objects>>
     \/ /\ turns[t].kind = "message" /\ Pending(t) = None /\ turns[t].cancelled
        /\ Left(t, "raised") /\ UNCHANGED <<logs, objects>>
     \/ /\ turns[t].kind = "message" /\ Pending(t) = None /\ ~turns[t].cancelled
        /\ Write(t, <<Say(User("input"), t, 0)>>) /\ Step(t, "ask") /\ UNCHANGED objects
     \/ /\ turns[t].kind # "message" /\ Pending(t) # turns[t].request
        /\ Left(t, None) /\ UNCHANGED <<logs, objects>>
     \/ /\ turns[t].kind = "deny" /\ Pending(t) = turns[t].request
        /\ SetPending(t, None) /\ Write(t, <<Say(Result(Pending(t), "denied"), t, 0)>>)
        /\ Step(t, "resumed")
     \/ /\ turns[t].kind = "allow" /\ Pending(t) = turns[t].request
        /\ Step(t, "approved") /\ UNCHANGED <<logs, objects>>
  /\ UNCHANGED <<Shared, guidance>>

RunApproved(t) ==
  /\ turns[t].pc = "approved"
  /\ \/ turns[t].cancelled /\ Left(t, "raised")
     \/ ~turns[t].cancelled /\ Update(t, [turns[t] EXCEPT !.pc = "settle", !.runs = @ + 1])
  /\ UNCHANGED <<logs, objects, Shared, guidance>>

(* Mutant: the confirmation is cleared, the result is not written.         *)
SettleUnwritten(t) ==
  /\ turns[t].pc = "settle"
  /\ SetPending(t, None) /\ Step(t, "resumed")
  /\ UNCHANGED <<logs, Shared, guidance>>

Settle(t) ==
  /\ turns[t].pc = "settle"
  /\ SetPending(t, None) /\ Write(t, <<Say(Result(turns[t].request, "ran"), t, 0)>>)
  /\ Step(t, "resumed")
  /\ UNCHANGED <<Shared, guidance>>

Resumed(t) ==
  /\ turns[t].pc = "resumed"
  /\ IF turns[t].cancelled THEN Left(t, "raised") ELSE Step(t, "ask")
  /\ UNCHANGED <<logs, objects, Shared, guidance>>

(* _stream_once / complete_once: the guidance is drained, the history is   *)
(* checked, the provider is asked.                                         *)
Ask(t) ==
  /\ turns[t].pc = "ask"
  /\ \/ turns[t].cancelled /\ Step(t, "finish") /\ UNCHANGED <<logs, guidance>>
     \/ /\ ~turns[t].cancelled
        /\ Write(t, [i \in DOMAIN guidance |-> Say(User("guidance"), t, guidance[i])])
        /\ guidance' = <<>> /\ Step(t, "build")
  /\ UNCHANGED <<objects, Shared>>

BuildRequest(t) ==
  /\ turns[t].pc = "build"
  /\ \/ ~Sendable(logs[Session(t)]) /\ Left(t, "raised")
     \/ Sendable(logs[Session(t)]) /\ turns[t].cancelled /\ Step(t, "finish")
     \/ /\ Sendable(logs[Session(t)]) /\ ~turns[t].cancelled
        /\ Update(t, [turns[t] EXCEPT !.pc = "inflight", !.asks = @ + 1])
  /\ UNCHANGED <<logs, objects, Shared, guidance>>

(* The provider fails, ends the turn (as a cancellation seen between two   *)
(* stream events does) or requests a call.                                 *)
Answer(t) ==
  /\ turns[t].pc = "inflight"
  /\ \/ Left(t, "raised")
     \/ Step(t, "finish")
     \/ \E c \in Calls \ Asked : Update(t, [turns[t] EXCEPT !.pc = "got", !.call = c])
  /\ UNCHANGED <<logs, objects, Shared, guidance>>

TakeResponse(t) ==
  /\ turns[t].pc = "got"
  /\ \/ turns[t].cancelled /\ Step(t, "finish") /\ UNCHANGED logs
     \/ /\ ~turns[t].cancelled
        /\ Write(t, <<Say(Assistant(<<turns[t].call>>), t, 0)>>) /\ Step(t, "exec")
  /\ UNCHANGED <<objects, Shared, guidance>>

(* Mutant: the pause is reported but not stored in the session.            *)
ExecUnstored(t) ==
  /\ turns[t].pc = "exec"
  /\ \/ turns[t].call \in Guarded /\ Left(t, turns[t].call)
     \/ turns[t].call \notin Guarded /\ turns[t].cancelled /\ Step(t, "finish")
     \/ /\ turns[t].call \notin Guarded /\ ~turns[t].cancelled
        /\ Update(t, [turns[t] EXCEPT !.pc = "record", !.runs = @ + 1])
  /\ UNCHANGED <<logs, objects, Shared, guidance>>

Exec(t) ==
  /\ turns[t].pc = "exec"
  /\ \/ /\ turns[t].call \in Guarded
        /\ SetPending(t, turns[t].call) /\ Left(t, turns[t].call)
     \/ /\ turns[t].call \notin Guarded /\ turns[t].cancelled
        /\ Step(t, "finish") /\ UNCHANGED objects
     \/ /\ turns[t].call \notin Guarded /\ ~turns[t].cancelled
        /\ Update(t, [turns[t] EXCEPT !.pc = "record", !.runs = @ + 1]) /\ UNCHANGED objects
  /\ UNCHANGED <<logs, Shared, guidance>>

(* Mutant: the result goes to the session the UI shows by now.             *)
RecordInCurrent(t) ==
  /\ turns[t].pc = "record"
  /\ \/ turns[t].cancelled /\ Step(t, "finish") /\ UNCHANGED logs
     \/ /\ ~turns[t].cancelled
        /\ logs' = [logs EXCEPT ![objects[current].session] =
                      Append(@, Say(Result(turns[t].call, "ran"), t, 0))]
        /\ Step(t, "ask")
  /\ UNCHANGED <<objects, Shared, guidance>>

Record(t) ==
  /\ turns[t].pc = "record"
  /\ \/ turns[t].cancelled /\ Step(t, "finish") /\ UNCHANGED logs
     \/ /\ ~turns[t].cancelled
        /\ Write(t, <<Say(Result(turns[t].call, "ran"), t, 0)>>) /\ Step(t, "ask")
  /\ UNCHANGED <<objects, Shared, guidance>>

(* The final text, or the one that says the turn was interrupted.          *)
Finish(t) ==
  /\ turns[t].pc = "finish"
  /\ Write(t, <<Say(Assistant(<<>>), t, 0)>>) /\ Left(t, None)
  /\ UNCHANGED <<objects, Shared, guidance>>
-----------------------------------------------------------------------------
UserStep == SubmitMessage \/ SubmitAnswer \/ QueueGuidance \/ Interrupt \/ ResumeSession

CoStep(t) == CoStart(t) \/ CoReturn(t) \/ CoUnwind(t)
ThreadStep(t) ==
  \/ ThreadStart(t) \/ ThreadDropped(t) \/ ThreadLeaves(t)
  \/ Begin(t) \/ RunApproved(t) \/ Settle(t) \/ Resumed(t)
  \/ Ask(t) \/ BuildRequest(t) \/ Answer(t) \/ TakeResponse(t) \/ Exec(t) \/ Record(t) \/ Finish(t)

Next ==
  /\ UserStep \/ \E t \in DOMAIN turns : CoStep(t) \/ ThreadStep(t)
  /\ UNCHANGED setting

Spec == Init /\ [][Next]_<<vars, setting>>

(* The event loop runs its coroutines, the pool its threads, and provider  *)
(* calls and tools come back; nothing is assumed of the user.              *)
FairSpec ==
  /\ Spec
  /\ \A t \in 1..MaxTurns :
       /\ WF_vars(t \in DOMAIN turns /\ CoStep(t))
       /\ WF_vars(t \in DOMAIN turns /\ ThreadStep(t))
=============================================================================
