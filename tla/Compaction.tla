----------------------------- MODULE Compaction -----------------------------
(***************************************************************************)
(* The compaction of one session's context: context/manager.py decides and *)
(* falls back, context/llm_compact.py and context/provider_summarizer.py   *)
(* fold old history into a checkpoint, context/runtime_state.py counts the *)
(* failures and opens the circuit, context/store.py and                    *)
(* context/runtime_replay.py rebuild all of it from the session's JSONL    *)
(* file after a restart.                                                   *)
(*                                                                         *)
(* The file is kept as what its readers make of it, updated with every     *)
(* appended event: the messages, the checkpoints, "version" for the        *)
(* content of the parts (a programmatic compaction replaces some), and     *)
(* "stored", the accumulator of replay_runtime_state's fold.  Every append *)
(* is a step of its own, so that a crash can come between any two.         *)
(*                                                                         *)
(* Sizes are not tracked: whether a view is over its threshold, and        *)
(* whether it fits after L1-L3, is a choice.  The application always       *)
(* configures a summarizer (app/factory.py), so the branch for a missing   *)
(* one is left out.                                                        *)
(***************************************************************************)
EXTENDS ToolSequence, FiniteSets

CONSTANTS
  Actors,         \* "turn" (the agent loop), and "user" typing /compact meanwhile
  FailureLimit,   \* auto_failure_limit
  Seconds,        \* whole seconds a summary may take
  Settings,       \* bound: what may happen together
  MaxMessages,    \* bound: messages
  MaxJobs,        \* bound: compactions
  MaxRestarts     \* bound: restarts

Errors      == {"prompt_too_long", "timeout", "no_summary"}
AllTriggers == {"auto", "task_hash_changed", "prompt_too_long", "manual"}

ASSUME ActorsAssumption == Actors \subseteq {"turn", "user"}

(* The triggers that occur, what a call of the summarizer may fail with,   *)
(* and what else may happen.                                               *)
ASSUME SettingsAssumption ==
  \A s \in Settings : /\ s.triggers \subseteq AllTriggers /\ s.refusals \subseteq Errors
                       /\ s.events \subseteq {"restart", "interrupt"}
ASSUME LimitAssumption  == FailureLimit \in Nat \ {0}
ASSUME SecondsAssumption == Seconds \subseteq Nat /\ Seconds # {}
ASSUME BoundsAssumption == MaxMessages \in Nat /\ MaxJobs \in Nat /\ MaxRestarts \in Nat

VARIABLES
  setting,      \* never changed
  messages,     \* the conversation, in the file
  checkpoints,  \* the checkpoints, in the file
  version,      \* what the message parts contain, in the file
  stored,       \* the runtime state a replay of the file gives
  live,         \* session.runtime_state in this process
  job,          \* for each actor the compaction it runs
  clock,        \* seconds
  jobs,
  restarts

file == <<messages, checkpoints, version, stored>>
vars == <<messages, checkpoints, version, stored, live, job, clock, jobs, restarts>>

NoJob    == [stage |-> "none"]
Manual(a) == job[a].trigger = "manual"

-----------------------------------------------------------------------------
(* Checkpoints and the part of the history they leave visible.             *)

(* CheckpointIndex.latest: the greatest (sequence, created_at, id).  The   *)
(* sequence of the event is only a default of _checkpoint_payload, and     *)
(* Checkpoint.to_dict has already stored 0.                                *)
SequenceOf(k) == 0

NewerThan(i, j) ==
  LET a == checkpoints[i] b == checkpoints[j] IN
  \/ SequenceOf(i) > SequenceOf(j)
  \/ /\ SequenceOf(i) = SequenceOf(j)
     /\ a.at > b.at \/ (a.at = b.at /\ a.id > b.id)

Latest ==
  IF checkpoints = <<>> THEN 0
  ELSE CHOOSE i \in DOMAIN checkpoints : \A j \in DOMAIN checkpoints \ {i} : NewerThan(i, j)

(* The messages a request built on checkpoint k shows after its summary.   *)
From(k) == IF k = 0 THEN 1 ELSE checkpoints[k].start
TailOf(k, n) == SubSeq(messages, From(k), n)

(* Mutant: the last message is taken whatever it is.                       *)
BoundariesUnchecked(k, n) == {n} \cap (From(k) + 1)..n

(* Mutant: the boundary may be any message, not only one after From.       *)
BoundariesOfAll(k, n) == {i \in 2..n : Sendable(SubSeq(messages, i, n))}

(* _validate_summary_boundary: the tail is a suffix of the source that is  *)
(* a sequence the provider accepts, and is not the whole of it.            *)
Boundaries(k, n) == {i \in (From(k) + 1)..n : Sendable(SubSeq(messages, i, n))}

(* _tail_boundary takes the shortest of them.                              *)
Greatest(S) == CHOOSE x \in S : \A y \in S : y <= x

(* _source_fingerprint and _view_fingerprint.                              *)
L4Source(j)   == <<"l4", j.base, j.seen, j.version>>
ViewSource(j) == <<"view", j.seen, j.version>>

(* A batch still waits for results at the end of the history.              *)
MidBatch ==
  \E a \in DOMAIN messages :
    /\ messages[a].role = "assistant"
    /\ \A i \in (a + 1)..Len(messages) : messages[i].role = "tool"
    /\ Owed(messages, Len(messages)) \cap Elems(messages[a].calls) # {}

-----------------------------------------------------------------------------
(* Runtime state: record_auto_compact_failure, record_auto_compact_success *)

Failure(r) ==
  [r EXCEPT !.failures = @ + 1, !.open = @ \/ r.failures + 1 >= FailureLimit]

Checkpointed(r, k, source) == [r EXCEPT !.latest = k, !.source = source]

Success(r) == [r EXCEPT !.failures = 0, !.open = FALSE]

Fresh == [failures |-> 0, open |-> FALSE, latest |-> 0, source |-> <<>>]

Init ==
  /\ setting \in Settings
  /\ messages = <<>> /\ checkpoints = <<>> /\ version = 0
  /\ stored = Fresh /\ live = Fresh
  /\ job = [a \in Actors |-> NoJob]
  /\ clock = 0 /\ jobs = 0 /\ restarts = 0

-----------------------------------------------------------------------------
(* The conversation goes on while the turn does not compact.               *)

Appended(m) == messages' = Append(messages, m)

Converse ==
  /\ job["turn"] = NoJob
  /\ Len(messages) < MaxMessages
  /\ LET owed == Owed(messages, Len(messages)) IN
     \/ /\ owed = {} \/ "interrupt" \in setting.events
        /\ Appended(User("input")) \/ Appended(Assistant(<<>>))
     \/ /\ owed = {} /\ messages # <<>>
        /\ \E c \in Calls : /\ \A i \in DOMAIN messages : c \notin Elems(messages[i].calls)
                            /\ Appended(Assistant(<<c>>))
     \/ MidBatch /\ \E c \in owed : Appended(Result(c, "ran"))
  /\ UNCHANGED <<checkpoints, version, stored, live, job, clock, jobs, restarts>>

(* compact_if_needed up to its first event.  The loop compacts between     *)
(* batches and after a turn, and when the provider refuses a request,      *)
(* which is only sent when the history is valid; in auto mode not while    *)
(* the circuit is open.  "before" is auto_failure_count_before.            *)
Start(a, trigger) ==
  /\ job[a] = NoJob /\ jobs < MaxJobs
  /\ a = "user" <=> trigger = "manual"
  /\ a = "turn" => ~live.open /\ ~MidBatch
  /\ trigger = "prompt_too_long" => Sendable(TailOf(Latest, Len(messages)))
  /\ job' = [job EXCEPT ![a] =
       [stage |-> "programmatic", trigger |-> trigger, round |-> "first",
        seen |-> Len(messages), base |-> Latest, version |-> version,
        before |-> live.failures, attempts |-> 0, calls |-> 0, reason |-> "none",
        checkpoint |-> 0]]
  /\ jobs' = jobs + 1
  /\ UNCHANGED <<file, live, clock, restarts>>

Finish(a) == job' = [job EXCEPT ![a] = NoJob]

(* When the stronger round is enough, what will be recorded as a success   *)
(* is the event of the failed attempt, with the source that one had read.  *)
StrongerEnough(a) == job' = [job EXCEPT ![a].stage = "record_success"]

(* L1-L3 and their compaction_completed event, which may replace parts.    *)
Programmatic(a) ==
  /\ job[a].stage = "programmatic"
  /\ stored' = [stored EXCEPT !.source = ViewSource(job[a])]
  /\ \E changed, fits \in BOOLEAN :
       LET v == IF changed THEN version + 1 ELSE version IN
       /\ version' = v
       /\ \/ /\ fits /\ job[a].round = "first"
             /\ Finish(a)
             /\ live' = IF Manual(a) THEN live ELSE Success(live)
          \/ /\ fits /\ changed /\ job[a].round = "stronger"
             /\ StrongerEnough(a)
             /\ UNCHANGED live
          \/ /\ ~fits
             /\ job' = [job EXCEPT ![a].stage = "l4",
                                   ![a].version = IF changed THEN v ELSE @]
             /\ UNCHANGED live
  /\ UNCHANGED <<messages, checkpoints, clock, jobs, restarts>>

(* A failed first round, and what the fallback policy does about it.       *)
Fallback(a, j, reason) ==
  job' = [job EXCEPT ![a] =
    [j EXCEPT !.reason = reason, !.attempts = 0,
       !.round = IF reason \in Errors THEN "stronger" ELSE @,
       !.stage = IF j.round = "stronger" THEN "record_failure"
                 ELSE CASE reason = "prompt_too_long"          -> "programmatic"
                        [] reason \in {"timeout", "no_summary"} -> "l4"
                        [] OTHER                               -> "record_failure"]]

(* Mutant: the second round does not look at the circuit.                  *)
EnterL4Unchecked(a) ==
  /\ job[a].stage = "l4"
  /\ job' = [job EXCEPT ![a].stage = "summarize"]
  /\ UNCHANGED <<file, live, clock, jobs, restarts>>

(* LlmCompactService.compact before its first attempt.                     *)
EnterL4(a) ==
  /\ job[a].stage = "l4"
  /\ \/ /\ live.source = L4Source(job[a])
        /\ Fallback(a, job[a], "duplicate_source")
     \/ /\ live.source # L4Source(job[a]) /\ ~Manual(a) /\ live.open
        /\ Fallback(a, job[a], "circuit_open")
     \/ /\ live.source # L4Source(job[a]) /\ (Manual(a) \/ ~live.open)
        /\ job' = [job EXCEPT ![a].stage = "summarize"]
  /\ UNCHANGED <<file, live, clock, jobs, restarts>>

(* CompactRetryPolicy.decide                                               *)
Retries(reason) == IF reason = "timeout" THEN 2 ELSE 1

OneMore(n) == IF n > 6 THEN n ELSE n + 1    \* bound: the history stops at 7 calls

(* One call of the summarizer that fails; without a legal boundary it      *)
(* fails before it asks the model.                                         *)
SummaryFails(a) ==
  /\ job[a].stage = "summarize"
  /\ \E reason \in IF Boundaries(job[a].base, job[a].seen) = {} THEN {"no_summary"} ELSE setting.refusals :
       LET j == [job[a] EXCEPT !.attempts = @ + 1, !.calls = OneMore(@)] IN
       IF j.attempts <= Retries(reason)
       THEN job' = [job EXCEPT ![a] = j] /\ UNCHANGED live
       ELSE /\ Fallback(a, j, reason)
            /\ live' = IF Manual(a) THEN live ELSE Failure(live)
  /\ UNCHANGED <<file, clock, jobs, restarts>>

(* A summary arrives: the checkpoint_created event and the runtime state.  *)
Summarized(a) ==
  /\ job[a].stage = "summarize"
  /\ \E start \in Boundaries(job[a].base, job[a].seen), t \in Seconds,
        id \in 1..MaxJobs :
       /\ start = Greatest(Boundaries(job[a].base, job[a].seen))
       /\ \A k \in DOMAIN checkpoints : checkpoints[k].id # id
       /\ clock' = clock + t
       /\ checkpoints' = checkpoints \o
            <<[base |-> job[a].base, start |-> start, covered |-> start - 1,
               source |-> L4Source(job[a]), at |-> clock', id |-> id]>>
  /\ stored' = Checkpointed(stored, Len(checkpoints'), L4Source(job[a]))
  /\ live'   = Checkpointed(Success(live), Len(checkpoints'), L4Source(job[a]))
  /\ job' = [job EXCEPT ![a].stage = "record_success", ![a].calls = OneMore(@),
                        ![a].checkpoint = Len(checkpoints')]
  /\ UNCHANGED <<messages, version, jobs, restarts>>

(* The llm_compaction_completed event of a success.  After a fallback that *)
(* needed no summary it names no checkpoint.                               *)
RecordSuccess(a) ==
  /\ job[a].stage = "record_success"
  /\ stored' = [Success(stored) EXCEPT
                  !.source = L4Source(job[a]),
                  !.latest = IF job[a].checkpoint # 0 THEN job[a].checkpoint ELSE @]
  /\ live' = IF Manual(a) THEN live ELSE Success(live)
  /\ Finish(a)
  /\ UNCHANGED <<messages, checkpoints, version, clock, jobs, restarts>>

(* _record_auto_failure_if_needed                                          *)
CountFailure(r, before) == IF r.failures > before THEN r ELSE Failure(r)

(* The llm_compaction_completed event of a failure.  A replay counts it    *)
(* only if the trigger was "auto" and nothing was skipped.                 *)
RecordFailure(a) ==
  /\ job[a].stage = "record_failure"
  /\ LET s == [stored EXCEPT !.source = L4Source(job[a])] IN
     stored' = IF job[a].trigger = "auto" /\ job[a].reason \in Errors THEN Failure(s) ELSE s
  /\ live' = IF Manual(a) THEN live ELSE CountFailure(live, job[a].before)
  /\ Finish(a)
  /\ UNCHANGED <<messages, checkpoints, version, clock, jobs, restarts>>

Work(a) ==
  \/ Programmatic(a) \/ EnterL4(a) \/ SummaryFails(a) \/ Summarized(a)
  \/ RecordSuccess(a) \/ RecordFailure(a)

(* auto_compact_disabled_until has passed.                                 *)
Expire ==
  /\ live.open
  /\ live' = [live EXCEPT !.open = FALSE]
  /\ UNCHANGED <<file, job, clock, jobs, restarts>>

(* The process dies, and a new one resumes the session from its file;      *)
(* while events are replayed a limit reached opens the circuit again.      *)
Restart ==
  /\ "restart" \in setting.events /\ restarts < MaxRestarts
  /\ restarts' = restarts + 1
  /\ live' = stored
  /\ job' = [a \in Actors |-> NoJob]
  /\ UNCHANGED <<file, clock, jobs>>

Next ==
  /\ \/ Converse
     \/ \E a \in Actors : Work(a) \/ \E t \in setting.triggers : Start(a, t)
     \/ Expire
     \/ Restart
  /\ UNCHANGED setting

Spec == Init /\ [][Next]_<<vars, setting>>
=============================================================================
