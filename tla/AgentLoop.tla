----------------------------- MODULE AgentLoop -----------------------------
(***************************************************************************)
(* One session of firstcoder and the agent loop that serves its turns      *)
(* (agent/loop.py, agent/session.py): the append-only message log, the     *)
(* provider calls, the batches of tool calls with their permission checks, *)
(* the pause for a confirmation and its resumption, the todo self-check,   *)
(* the limits, cancellation by the user, and a crash of the process        *)
(* followed by a restart from the log (session/resume.py).                 *)
(*                                                                         *)
(* A step is what happens between two points where something else can      *)
(* interfere: every appended message is a step of its own (each is one     *)
(* write to the log), and so is every execution of a tool.  Context        *)
(* compaction does not change what the log owes the provider and is left   *)
(* to its own module; here it only decides whether a prompt that was too   *)
(* long is tried again.                                                    *)
(***************************************************************************)
EXTENDS ToolSequence, FiniteSets

CONSTANTS
  Kind,              \* what each call is: a function from Calls to Kinds
  Modes,             \* permission modes the user switches between
  Env,               \* what the environment may do: a subset of Events
  MaxBatch,          \* most calls in one response
  MaxProviderCalls,  \* limits.max_provider_calls
  MaxToolRounds,     \* limits.max_tool_rounds
  StaleThreshold,    \* _TODO_STALE_TOOL_RESULT_THRESHOLD
  MaxTurns,          \* bound: user messages that start a turn
  MaxCrashes,        \* bound: crashes
  MaxNotes,          \* bound: guidance in the log
  MaxLog             \* bound: length at which repeated denials stop

(* Kinds of call: readers (view, grep, ...: no permission, run in          *)
(* parallel), the todo tool leaving items open or none, ask_user, a file   *)
(* edit, a test command, and a call whose permission request cannot even   *)
(* be built (a missing target argument), which is denied in every mode.    *)
Kinds  == {"read", "todoOpen", "todoDone", "question", "edit", "test", "bad"}
Todo   == {"todoOpen", "todoDone"}
Events == {"cancel", "guide", "timeout", "too_long", "provider_error", "crash"}

ASSUME CallsAssumption == "none" \notin Calls
ASSUME KindAssumption  == Kind \in [Calls -> Kinds]
ASSUME ModesAssumption == "standard" \in Modes /\ Modes \subseteq {"standard", "aggressive", "bypass"}
ASSUME BoundsAssumption ==
  /\ MaxBatch \in Nat \ {0} /\ MaxProviderCalls \in Nat /\ MaxToolRounds \in Nat
  /\ StaleThreshold \in Nat \ {0} /\ MaxTurns \in Nat /\ MaxCrashes \in Nat
  /\ MaxNotes \in Nat /\ MaxLog \in Nat

VARIABLES
  log,         \* messages of the session, as written to its JSONL file
  pc,          \* where the loop is; "idle" between turns
  phase,       \* "main", or "selfcheck" inside _run_todo_self_check_if_needed
  resp,        \* tool calls of the response at hand
  index,       \* position in resp
  batchEnd,    \* last position of the parallel batch that is running
  got,         \* results in hand, not yet appended
  pending,     \* session.pending_permission_execution
  toolChoice,  \* "auto", or "none" after a successful verification
  retried,     \* the request at hand was already retried after compaction
  rounds,      \* tool_rounds
  calls,       \* provider_call_count
  verified,    \* a verification command of this batch succeeded
  reminded,    \* _last_todo_stale_reminder_count
  cancelled,   \* the turn's cancellation token
  guidance,    \* the runner's queue of guidance is not empty
  mode,        \* permission mode
  grants,      \* kinds whose target has an "allow always" grant (on disk)
  outcome,     \* how the last turn ended
  runs,        \* history: how often each call has really been executed
  turns,
  crashes

locals == <<phase, resp, index, batchEnd, got, toolChoice, retried, rounds, verified, reminded>>
turn   == <<pc, outcome, cancelled, calls>>
user   == <<guidance, mode, turns, crashes>>
vars   == <<log, pending, grants, runs, locals, turn, user>>

None      == [call |-> "none", skipped |-> {}]
NoResults == [c \in Calls |-> "-"]
-----------------------------------------------------------------------------
(* Permissions, as the loop meets them (tools/permission_registry.py,      *)
(* permissions/manager.py): a grant decides before the policy; outside     *)
(* "standard" the policy lets ordinary edits and test commands through.    *)
Verdict(c) ==
  IF Kind[c] \notin {"edit", "test", "bad"} THEN "none"
  ELSE IF Kind[c] = "bad" THEN "deny"
  ELSE IF Kind[c] \in grants \/ mode # "standard" THEN "allow"
  ELSE "ask"

(* Mutant: the registry runs whatever the loop let through.                *)
ResultUnchecked(c) == "ran"

ResultOf(c) ==
  CASE Verdict(c) = "deny" -> "denied"
    [] Verdict(c) = "ask"  -> "confirm"
    [] OTHER               -> "ran"

Parallel(c) ==
  /\ Verdict(c) \in {"none", "allow"}
  /\ Kind[c] = "read" \/ (mode = "bypass" /\ Kind[c] \in {"edit", "test"})

ParallelGroup(i, e) ==
  /\ \A j \in i..e : Parallel(resp[j])
  /\ e < Len(resp) => ~Parallel(resp[e + 1])

(* What the loop reads back from the log.                                  *)
Requested == UNION {Elems(log[i].calls) : i \in DOMAIN log}
Answered(l, a) == UNION {Elems(l[i].calls) : i \in (a + 1)..Len(l)}

ToolAt(i) == log[i].role = "tool"
TodoAt(i) == ToolAt(i) /\ \E c \in Elems(log[i].calls) : Kind[c] \in Todo
UnfinishedTodos ==
  \E i \in DOMAIN log :
    /\ log[i].how = "ran" /\ \E c \in Elems(log[i].calls) : Kind[c] = "todoOpen"
    /\ \A j \in (i + 1)..Len(log) : ~(log[j].how = "ran" /\ TodoAt(j))
StaleResults ==
  Cardinality({i \in DOMAIN log : ToolAt(i) /\ \A j \in i..Len(log) : ~TodoAt(j)})
ReminderDue ==
  /\ UnfinishedTodos
  /\ StaleResults >= StaleThreshold
  /\ StaleResults - reminded >= StaleThreshold

LastAssistant(l, a) ==
  l[a].role = "assistant" /\ \A j \in (a + 1)..Len(l) : l[j].role # "assistant"

FirstOpen(a, k) ==
  /\ log[a].calls[k] \notin Answered(log, a)
  /\ \A j \in 1..(k - 1) : log[a].calls[j] \in Answered(log, a)

(* restore_pending_permission_execution: the first call of the last        *)
(* assistant batch that has no result, unless a later message is no tool   *)
(* result or the tool declares no permission.                              *)
OpenBatches ==
  {a \in DOMAIN log : LastAssistant(log, a) /\ \A j \in (a + 1)..Len(log) : ToolAt(j)}
Restorable ==
  UNION {{[call    |-> log[a].calls[k],
           skipped |-> Elems(log[a].calls) \ (Answered(log, a) \cup {log[a].calls[k]})] :
            k \in {k \in DOMAIN log[a].calls : FirstOpen(a, k) /\ Verdict(log[a].calls[k]) # "none"}} :
         a \in OpenBatches}
Restored == IF Restorable = {} THEN {None} ELSE Restorable
-----------------------------------------------------------------------------
Init ==
  /\ log = <<>> /\ pc = "idle" /\ phase = "main" /\ resp = <<>> /\ index = 1
  /\ batchEnd = 0 /\ got = NoResults /\ pending = None /\ toolChoice = "auto"
  /\ retried = FALSE /\ rounds = 0 /\ calls = 0 /\ verified = FALSE /\ reminded = 0
  /\ cancelled = FALSE /\ guidance = FALSE /\ mode = "standard" /\ grants = {}
  /\ outcome = "none" /\ runs = [c \in Calls |-> 0]
  /\ turns = 0 /\ crashes = 0

Log(m) == log' = Append(log, m)
Goto(label) == pc' = label /\ UNCHANGED outcome

(* Leaving the turn: the locals of the loop object die with it.            *)
Leave(how) ==
  /\ pc' = "idle" /\ outcome' = how
  /\ phase' = "main" /\ resp' = <<>> /\ index' = 1 /\ batchEnd' = 0 /\ got' = NoResults
  /\ toolChoice' = "auto" /\ retried' = FALSE /\ rounds' = 0 /\ verified' = FALSE /\ reminded' = 0

(* A limit or a cancellation raised inside the tool loop: caught in the    *)
(* main loop and turned into a final text, not caught during the           *)
(* self-check, which runs outside the try.                                 *)
Raise(what) ==
  \/ phase = "main" /\ resp' = <<>> /\ got' = NoResults /\ Goto("finish")
     /\ UNCHANGED <<phase, index, batchEnd, toolChoice, retried, rounds, verified, reminded>>
  \/ phase = "selfcheck" /\ Leave(what)

EndLoop == Goto(IF phase = "main" THEN "finish" ELSE "final")

(* Mutant: the main loop drops the pause too.                              *)
PauseDropped == Goto("final") /\ UNCHANGED locals
(* A call of the batch waits for the user: the main loop reports it, the   *)
(* self-check drops it and goes on with the same response.                 *)
Pause ==
  \/ phase = "main" /\ Leave("waiting")
  \/ phase = "selfcheck" /\ Goto("final") /\ UNCHANGED locals
-----------------------------------------------------------------------------
(* run_user_turn_interactive                                               *)
RunUserTurn ==
  /\ pc = "idle" /\ pending = None /\ turns < MaxTurns
  /\ pc' = "begin" /\ outcome' = "running"
  /\ turns' = turns + 1 /\ calls' = 0 /\ cancelled' = FALSE
  /\ UNCHANGED <<log, pending, grants, runs, locals, guidance, mode, crashes>>

RunWhilePending ==
  /\ pc = "idle" /\ pending # None
  /\ outcome' = "waiting"
  /\ UNCHANGED <<log, pending, grants, runs, locals, pc, cancelled, calls, user>>

Begin ==
  /\ pc = "begin"
  /\ \/ cancelled /\ Leave("cancelled") /\ UNCHANGED log
     \/ ~cancelled /\ Log(User("input")) /\ Goto("request") /\ UNCHANGED locals
  /\ UNCHANGED <<pending, grants, runs, cancelled, calls, user>>

(* _complete_once: cancellation, guidance, then the projected history is   *)
(* validated and the limits are checked before the provider is asked.      *)
DrainGuidance ==
  /\ pc = "request"
  /\ \/ cancelled /\ Raise("cancelled") /\ UNCHANGED <<log, guidance>>
     \/ /\ ~cancelled /\ Goto("build") /\ UNCHANGED locals
        /\ guidance' = FALSE
        /\ IF guidance THEN Log(User("guidance")) ELSE UNCHANGED log
  /\ UNCHANGED <<pending, grants, runs, cancelled, calls, mode, turns, crashes>>

BuildRequest ==
  /\ pc = "build"
  /\ \/ ~Sendable(log) /\ Leave("invalid_sequence") /\ UNCHANGED calls
     \/ /\ Sendable(log)
        /\ \/ calls >= MaxProviderCalls \/ "timeout" \in Env
        /\ Raise("limit") /\ UNCHANGED calls
     \/ Sendable(log) /\ calls < MaxProviderCalls /\ cancelled /\ Raise("cancelled") /\ UNCHANGED calls
     \/ /\ Sendable(log) /\ calls < MaxProviderCalls /\ ~cancelled
        /\ calls' = calls + 1 /\ Goto("inflight") /\ UNCHANGED locals
  /\ UNCHANGED <<log, pending, grants, runs, cancelled, user>>

(* The provider's answer.  It numbers its calls afresh and honours         *)
(* tool_choice "none".                                                     *)
FreshBatches ==
  {cs \in UNION {[1..n -> Calls \ Requested] : n \in 1..MaxBatch} :
     \A i, j \in DOMAIN cs : cs[i] = cs[j] => i = j}

Answer ==
  /\ pc = "inflight" /\ Goto("got")
  /\ \/ resp' = <<>>
     \/ toolChoice = "auto" /\ \E cs \in FreshBatches : resp' = cs
  /\ UNCHANGED <<log, pending, grants, runs, phase, index, batchEnd, got, toolChoice, retried,
                 rounds, verified, reminded, cancelled, calls, user>>

PromptTooLong ==
  /\ pc = "inflight" /\ "too_long" \in Env
  /\ \/ /\ ~retried /\ retried' = TRUE /\ Goto("request")
        /\ UNCHANGED <<phase, resp, index, batchEnd, got, toolChoice, rounds, verified, reminded>>
     \/ Leave("provider_error")
  /\ UNCHANGED <<log, pending, grants, runs, cancelled, calls, user>>

ProviderFails ==
  /\ pc = "inflight"
  /\ \/ "provider_error" \in Env /\ Leave("provider_error")
     \/ cancelled /\ Raise("cancelled")
  /\ UNCHANGED <<log, pending, grants, runs, cancelled, calls, user>>
-----------------------------------------------------------------------------
(* Mutant: the calls are executed before the response is written.          *)
TakeResponseUnwritten ==
  /\ pc = "got"
  /\ \/ resp = <<>> /\ EndLoop /\ UNCHANGED locals
     \/ /\ resp # <<>> /\ Goto("exec") /\ index' = 1
        /\ UNCHANGED <<phase, resp, batchEnd, got, toolChoice, retried, rounds, verified, reminded>>
  /\ UNCHANGED <<log, pending, grants, runs, cancelled, calls, user>>

(* _continue_tool_loop_from_response                                       *)
TakeResponse ==
  /\ pc = "got"
  /\ \/ resp = <<>> /\ EndLoop /\ UNCHANGED <<log, locals>>
     \/ resp # <<>> /\ cancelled /\ Raise("cancelled") /\ UNCHANGED log
     \/ /\ resp # <<>> /\ ~cancelled /\ rounds >= MaxToolRounds
        /\ resp' = <<>> /\ EndLoop
        /\ UNCHANGED <<log, phase, index, batchEnd, got, toolChoice, retried, rounds, verified, reminded>>
     \/ /\ resp # <<>> /\ ~cancelled /\ rounds < MaxToolRounds
        /\ Log(Assistant(resp)) /\ Goto("exec")
        /\ index' = 1 /\ verified' = FALSE
        /\ UNCHANGED <<phase, resp, batchEnd, got, toolChoice, retried, rounds, reminded>>
  /\ UNCHANGED <<pending, grants, runs, cancelled, calls, user>>

EndOfBatch ==
  /\ pc = "exec" /\ index > Len(resp)
  /\ \/ /\ verified /\ toolChoice' = "none" /\ Goto("request")
        /\ UNCHANGED <<log, resp, rounds, reminded>>
     \/ /\ ~verified /\ rounds' = rounds + 1 /\ rounds + 1 >= MaxToolRounds
        /\ resp' = <<>> /\ EndLoop /\ UNCHANGED <<log, reminded, toolChoice>>
     \/ /\ ~verified /\ rounds' = rounds + 1 /\ rounds + 1 < MaxToolRounds
        /\ Goto("request") /\ UNCHANGED <<resp, toolChoice>>
        /\ IF ReminderDue
           THEN Log(User("reminder")) /\ reminded' = StaleResults
           ELSE UNCHANGED <<log, reminded>>
  /\ retried' = FALSE
  /\ UNCHANGED <<pending, grants, runs, phase, index, batchEnd, got, verified, cancelled, calls, user>>

(* _execute_tool_calls_interactive                                         *)
Head1 == resp[index]
AtCall == pc = "exec" /\ index <= Len(resp)

Deny ==
  /\ AtCall /\ Verdict(Head1) = "deny" /\ Len(log) < MaxLog
  /\ Log(Result(Head1, "denied"))
  /\ UNCHANGED <<pending, grants, runs, locals, turn, user>>

Ask ==
  /\ AtCall /\ Verdict(Head1) = "ask"
  /\ pending' = [call |-> Head1, skipped |-> {resp[j] : j \in (index + 1)..Len(resp)}]
  /\ Pause
  /\ UNCHANGED <<log, grants, runs, cancelled, calls, user>>

Start ==
  /\ AtCall /\ Verdict(Head1) \in {"none", "allow"}
  /\ \/ cancelled /\ Raise("cancelled")
     \/ /\ ~cancelled /\ Parallel(Head1) /\ Goto("parallel")
        /\ \E e \in index..Len(resp) : ParallelGroup(index, e) /\ batchEnd' = e
        /\ UNCHANGED <<phase, resp, index, got, toolChoice, retried, rounds, verified, reminded>>
     \/ ~cancelled /\ ~Parallel(Head1) /\ Goto("execute") /\ UNCHANGED locals
  /\ UNCHANGED <<log, pending, grants, runs, cancelled, calls, user>>

(* PermissionAwareToolRegistry.execute: the permission is checked again.   *)
Perform(c) ==
  /\ got' = [got EXCEPT ![c] = ResultOf(c)]
  /\ runs' = IF ResultOf(c) = "ran" THEN [runs EXCEPT ![c] = @ + 1] ELSE runs

Execute ==
  /\ pc = "execute" /\ Perform(Head1) /\ Goto("record")
  /\ UNCHANGED <<log, pending, grants, phase, resp, index, batchEnd, toolChoice, retried, rounds,
                 verified, reminded, cancelled, calls, user>>

Pauses(c) == got[c] = "confirm" \/ (got[c] = "ran" /\ Kind[c] = "question")

(* Mutant: the index does not move past the call that was recorded.        *)
RecordStays ==
  /\ pc = "record" /\ ~cancelled /\ Len(log) < MaxLog
  /\ Log(Result(Head1, got[Head1])) /\ got' = NoResults /\ Goto("exec")
  /\ UNCHANGED <<phase, resp, index, batchEnd, toolChoice, retried, rounds, verified, reminded>>
  /\ UNCHANGED <<pending, grants, runs, cancelled, calls, user>>

Record ==
  /\ pc = "record"
  /\ \/ cancelled /\ Raise("cancelled") /\ UNCHANGED log
     \/ /\ ~cancelled
        /\ Log(Result(Head1, got[Head1])) /\ got' = NoResults /\ index' = index + 1
        /\ \/ verified' = verified
           \/ verified' = TRUE /\ Kind[Head1] = "test" /\ got[Head1] = "ran"
        /\ Goto(IF Pauses(Head1) THEN "skip" ELSE "exec")
        /\ UNCHANGED <<phase, resp, batchEnd, toolChoice, retried, rounds, reminded>>
  /\ UNCHANGED <<pending, grants, runs, cancelled, calls, user>>

(* Mutant: the calls behind a question are left without a result.          *)
SkipNothing ==
  /\ pc = "skip" /\ Pause
  /\ UNCHANGED <<log, pending, grants, runs, cancelled, calls, user>>

SkipRest ==
  /\ pc = "skip"
  /\ \/ /\ index <= Len(resp)
        /\ Log(Result(Head1, "skipped")) /\ index' = index + 1 /\ Goto("skip")
        /\ UNCHANGED <<phase, resp, batchEnd, got, toolChoice, retried, rounds, verified, reminded>>
     \/ index > Len(resp) /\ Pause /\ UNCHANGED log
  /\ UNCHANGED <<pending, grants, runs, cancelled, calls, user>>

(* _execute_parallel_readonly_batch: the calls run in any order, their     *)
(* results are appended in the order of the calls once all are there.      *)
ParallelRun ==
  /\ pc = "parallel" /\ ~cancelled
  /\ \E i \in index..batchEnd : got[resp[i]] = "-" /\ Perform(resp[i])
  /\ UNCHANGED <<log, pending, grants, phase, resp, index, batchEnd, toolChoice, retried, rounds,
                 verified, reminded, turn, user>>

(* Mutant: the group waits for calls that are not part of it.              *)
ParallelJoinAll ==
  /\ pc = "parallel"
  /\ \A i \in index..Len(resp) : got[resp[i]] # "-"
  /\ Goto("collect") /\ UNCHANGED locals
  /\ UNCHANGED <<log, pending, grants, runs, cancelled, calls, user>>

ParallelJoin ==
  /\ pc = "parallel"
  /\ \/ cancelled /\ Raise("cancelled")
     \/ /\ ~cancelled /\ \A i \in index..batchEnd : got[resp[i]] # "-"
        /\ Goto("collect") /\ UNCHANGED locals
  /\ UNCHANGED <<log, pending, grants, runs, cancelled, calls, user>>

Collect ==
  /\ pc = "collect"
  /\ Log(Result(Head1, got[Head1])) /\ index' = index + 1
  /\ \/ index < batchEnd /\ Goto("collect") /\ UNCHANGED got
     \/ index = batchEnd /\ Goto("exec") /\ got' = NoResults
  /\ UNCHANGED <<pending, grants, runs, phase, resp, batchEnd, toolChoice, retried, rounds,
                 verified, reminded, cancelled, calls, user>>
-----------------------------------------------------------------------------
(* The end of _run_tool_loop_interactive                                   *)
Finish ==
  /\ pc = "finish"
  /\ \/ cancelled /\ Log(Assistant(<<>>)) /\ Leave("completed")
     \/ /\ ~cancelled /\ UnfinishedTodos
        /\ Log(User("selfcheck")) /\ Goto("request")
        /\ phase' = "selfcheck" /\ rounds' = 0 /\ toolChoice' = "auto" /\ retried' = FALSE
        /\ UNCHANGED <<resp, index, batchEnd, got, verified, reminded>>
     \/ ~cancelled /\ ~UnfinishedTodos /\ Goto("final") /\ UNCHANGED <<log, locals>>
  /\ UNCHANGED <<pending, grants, runs, cancelled, calls, user>>

Final ==
  /\ pc = "final"
  /\ Log(Assistant(resp)) /\ Leave("completed")
  /\ UNCHANGED <<pending, grants, runs, cancelled, calls, user>>
-----------------------------------------------------------------------------
(* resume_with_user_input: the user answers the confirmation; the answer   *)
(* is checked against grants and policy once more.                         *)
Resume ==
  /\ pc = "idle" /\ pending # None
  /\ outcome' = "running" /\ cancelled' = FALSE
  /\ \E choice \in {"deny", "allow_once", "allow_always"} :
       LET v  == Verdict(pending.call)
           ok == choice # "deny" /\ v # "deny"
       IN  /\ pc' = IF ok THEN "approved" ELSE "settle"
           /\ got' = [got EXCEPT ![pending.call] = IF ok THEN "-" ELSE "denied"]
           /\ grants' = IF choice = "allow_always" /\ v = "ask"
                        THEN grants \cup {Kind[pending.call]} ELSE grants
  /\ UNCHANGED <<log, pending, runs, phase, resp, index, batchEnd, toolChoice, retried, rounds,
                 verified, reminded, calls, user>>

RunApproved ==
  /\ pc = "approved"
  /\ \/ cancelled /\ Leave("cancelled") /\ UNCHANGED runs
     \/ /\ ~cancelled /\ Goto("settle")
        /\ runs' = [runs EXCEPT ![pending.call] = @ + 1]
        /\ got' = [got EXCEPT ![pending.call] = "ran"]
        /\ UNCHANGED <<phase, resp, index, batchEnd, toolChoice, retried, rounds, verified, reminded>>
  /\ UNCHANGED <<log, pending, grants, cancelled, calls, user>>

Withhold(results) == [c \in Calls |-> IF c \in results THEN "skipped" ELSE "-"]

Settle ==
  /\ pc = "settle" /\ Goto("resumeSkip")
  /\ Log(Result(pending.call, got[pending.call])) /\ pending' = None
  /\ got' = Withhold(pending.skipped)
  /\ UNCHANGED <<grants, runs, phase, resp, index, batchEnd, toolChoice, retried, rounds,
                 verified, reminded, cancelled, calls, user>>

FirstSkipped(c) ==
  /\ got[c] = "skipped"
  /\ \A d \in Calls : got[d] = "skipped" =>
       \E a \in DOMAIN log :
         LastAssistant(log, a) /\ Position(log[a].calls, c) <= Position(log[a].calls, d)

ResumeSkip ==
  /\ pc = "resumeSkip"
  /\ \/ \E c \in Calls :
          /\ FirstSkipped(c)
          /\ Log(Result(c, "skipped")) /\ got' = [got EXCEPT ![c] = "-"] /\ Goto("resumeSkip")
          /\ UNCHANGED <<phase, resp, index, batchEnd, toolChoice, retried, rounds, verified,
                         reminded, calls>>
     \/ /\ got = NoResults /\ calls' = 0 /\ UNCHANGED log
        /\ \/ cancelled /\ Leave("cancelled")
           \/ ~cancelled /\ Goto("request") /\ UNCHANGED locals
  /\ UNCHANGED <<pending, grants, runs, cancelled, user>>
-----------------------------------------------------------------------------
(* What the user and the machine may do at any time.                       *)
Cancel ==
  /\ "cancel" \in Env /\ pc # "idle" /\ ~cancelled /\ cancelled' = TRUE
  /\ UNCHANGED <<log, pending, grants, runs, locals, pc, outcome, calls, user>>

AddGuidance ==
  /\ "guide" \in Env /\ pc # "idle" /\ ~guidance /\ guidance' = TRUE
  /\ Cardinality({i \in DOMAIN log : log[i].how = "guidance"}) < MaxNotes
  /\ UNCHANGED <<log, pending, grants, runs, locals, turn, mode, turns, crashes>>

SetMode ==
  /\ \E m \in Modes \ {mode} : mode' = m
  /\ UNCHANGED <<log, pending, grants, runs, locals, turn, guidance, turns, crashes>>

(* The process dies and the session is resumed from its log; the pending   *)
(* confirmation is rebuilt from the tail.                                  *)
CrashAndRestart ==
  /\ "crash" \in Env /\ crashes < MaxCrashes
  /\ crashes' = crashes + 1
  /\ Leave("none") /\ pending' \in Restored
  /\ mode' = "standard" /\ guidance' = FALSE /\ cancelled' = FALSE
  /\ UNCHANGED <<log, grants, runs, calls, turns>>
-----------------------------------------------------------------------------
LoopStep ==
  \/ Begin \/ DrainGuidance \/ BuildRequest \/ Answer \/ PromptTooLong \/ ProviderFails
  \/ TakeResponse \/ EndOfBatch \/ Deny \/ Ask \/ Start \/ Execute \/ Record \/ SkipRest
  \/ ParallelRun \/ ParallelJoin \/ Collect \/ Finish \/ Final
  \/ RunApproved \/ Settle \/ ResumeSkip

UserStep == RunUserTurn \/ RunWhilePending \/ Resume \/ Cancel \/ AddGuidance \/ SetMode

Next == LoopStep \/ UserStep \/ CrashAndRestart

Spec == Init /\ [][Next]_vars

(* The worker thread is scheduled and a provider call comes back (the SDK  *)
(* clients carry a timeout); nothing is assumed of the user.               *)
FairSpec == Spec /\ WF_vars(LoopStep)
=============================================================================
