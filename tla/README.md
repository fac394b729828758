# PytestPilot / firstcoder: TLA+ models, checks and proofs

PytestPilot (the `firstcoder` package) is a coding agent for Python projects:
a terminal chat whose agent loop calls a model provider and runs tools on the
user's behalf, and a command, `pytest-fix`, which lets the same loop repair
failing tests in git worktrees. This directory holds TLA+ models of the parts
of it that are concurrent, persistent, resumable or limited, the TLC
configurations that check them, and proofs checked by TLAPS.

Run a check with `tlc -config <cfg> <module>` (the pairs are in the table of
runs and in `PROJECT.json`), a proof with `tlapm <module>`; the proof modules are in
section 2.

Contents: [1 System](#1-the-system) · [2 Modules](#2-modules) ·
[3 Models and code](#3-how-the-models-correspond-to-the-code) ·
[4 Runs](#4-runs-bounds-and-fairness) · [5 Proofs](#5-what-is-proved) ·
[6 Divergences](#6-where-the-code-does-not-do-what-it-says) ·
[7 Not modelled](#7-what-is-not-modelled) · [8 Plan](#8-plan)

## 1 The system

### Components

Paths are below `src/firstcoder/`. *Hard* says where tests have difficulties.

| Component | State | Operations | Hard |
|---|---|---|---|
| **Agent loop** `agent/loop.py`, `agent/session.py` | the session's message log; pending confirmation; per turn: response at hand, index, rounds, provider calls, `tool_choice`, cancellation | start a turn, drain guidance, ask the provider, execute a batch (one by one, or a group in parallel), pause for a confirmation or a question, resume, self-check on open todos, give up at a limit | messages of four sources share one log with the batch they must not separate; permissions are looked at before a pause and used after it; crash between call and result |
| **Tool-call history check** `context/tool_sequence.py` | none | `validate_tool_call_sequence` before every request | late, missing and repeated results |
| **Permissions** `permissions/`, `tools/permission_registry.py`, `utils/sandbox.py` | rules of a session and of `permissions.json`, mode, the sandbox of a window | preflight, ask, resolve (deny, once, always), save, `/mode`, resume | checked twice with time in between; a save in three steps; several windows on one file; a sandbox that outlives sessions |
| **Chat session** `app/tui.py`, `app/runtime.py`, `app/session_commands.py` | busy flag, turn token, question on the screen, current session, guidance queue, active cancellation token | submit, answer, Esc Esc, `/resume`, `/compact`, `/rename`, `/share`, guidance | coroutine, worker thread and UI; an interrupted thread goes on writing |
| **Session store and catalog** `context/store.py`, `context/writer.py`, `session/` | JSONL file per session | append an event, replay, list, resume, export | crash within an append; two threads appending; readers with a fold of their own |
| **Compaction** `context/manager.py`, `compaction.py`, `archive.py`, `llm_compact.py`, `fallback.py`, `retry_policy.py`, `provider_summarizer.py`, `runtime_state.py`, `runtime_replay.py`, `checkpoint.py` | checkpoints, archives, failure count, circuit, last fingerprint | L1-L3, L4 with retries, stronger round, circuit breaker, manual compaction | summaries of views taken earlier, replay of state from events made for something else |
| **Task boundary** `context/task_boundary.py` | candidate and active task hash, stable count | observe, confirm a change | live and replayed counts |
| **Providers** `providers/`, `agent/loop.py` (`_stream_once`, `_complete_once`) | accumulators, queue, worker thread, events shown | stream, complete, classify an error, compact and retry | fragments in any order; a thread, an event loop and a connection that end separately |
| **Built-in file tools** `tools/view.py`, `read_multi.py`, `edit.py`, `write.py`, `delete.py`, `apply_patch.py`, `fresh_source.py` | read tokens | read, mutate after a check of the hash | checked, then written, without a lock; a patch of several files |
| **Execution** `execution.py`, `utils/subprocess.py`, `utils/execution_sandbox.py` | process group, pipe, reader threads, deadline | run with limits, interrupt, kill | timeout against normal end; background processes that hold the pipe |
| **Request budget** `eval/costs.py` | committed cost, `usage_unknown`, stop reason | reserve, commit, mark unknown | several clients, errors after sending, streams that are left |
| **pytest repair** `workflows/` | worktrees, reports, attempt number | baseline, attempt, focused and full run, copy back | the user works in the same tree; three nearly equal sets of files |
| **Todo list** `tools/todo.py` | items | replace, add, update | when to remind |
| **Other tools** `tools/grep.py`, `fetch.py`, ... | none | one call | - |
| **Code index** `retrieval/` | vectors, metadata | incremental update, rebuild, search | crash between vectors and metadata |
| **pytest parser** `ci/` | none | output to report | text |
| **Benchmark adapter** `eval/adapter.py`, `metrics.py` | session root, retries | run a task | what is retried was perhaps paid for |
| **Context building**, **content routing**, **skills**, **configuration** | none, or built once | formatting, estimates, file discovery | text |

### Interactions

- The **chat session** starts a coroutine for each turn, which hands the
  **agent loop** to a worker thread (`AgentChatRunner`). They share the
  session object, its log, the guidance queue and the cancellation token.
- The **agent loop** asks **permissions** for each call, appends every message
  to the **session store**, checks the projected history with the
  **tool-call history check**, lets **compaction** replace old messages by a
  checkpoint, and calls the **provider** - in benchmark runs through the
  **request budget** and a provider that retries.
- A tool of the batch works on the files (**file tools**) or starts a process
  (**execution**); in bypass mode neighbouring calls of a batch run in threads.
- `/resume` and a restart rebuild a session from its file: messages,
  checkpoints, the runtime state of compaction and task boundary, the pending
  confirmation.
- **pytest repair** runs the **benchmark adapter** and thereby the agent loop in
  a worktree, the test command through **execution**, its output through the
  **parser**, and writes to the user's tree what passed.

### What makes them correct

- *Agent loop*: the log stays one the provider accepts; a result stays with its
  batch; a call runs only with consent and again only with a new one; a turn ends.
- *History check*: accepts exactly the histories the provider accepts.
- *Permissions*: every rule was agreed to; what is refused does not run; the
  sandbox follows the mode; a rule once saved survives crashes.
- *Chat*: one live turn at a time and an exact busy flag; an interrupted turn
  stops; a turn writes to one session; an answer finds its question; the input
  becomes free again.
- *Session store, task boundary*: a reader gets all of a session or is told it is
  damaged; whoever resumes knows what the process knew; a task changes only on
  repeated observations; what is archived exists.
- *Compaction*: what is left to send is valid and not empty; nothing falls
  between summaries; an open circuit stops the calls.
- *Providers*: an answer is the answer to the last request, whole calls or none;
  what is shown is that answer; every thread ends.
- *File tools*: a call does what it reports or nothing; only what was read is
  replaced; only what may be changed is.
- *Execution*: a result is the truth about the command; lost output is marked; no
  command blocks on its own output; every call returns.
- *Budget*: the limit is exceeded by a known amount at most; what was sent is
  accounted for; what overlapping requests overspend together is bounded.
- *pytest repair*: the tree changes only by something that passed; what is
  reported as repaired is repaired; attempts work on the baseline's failures.

The hazards behind them that matter most, each with its source line and the
properties that watch it, are listed in `PROJECT.json` under `hazards`; others
appear in section 6.

## 2 Modules

```
ToolSequence            messages, what a history owes, Sendable (validate_tool_call_sequence)
 |-- ToolSequenceCheck    the check against a reference definition     <- MCChatTurns
 |-- AgentLoop            a session and its loop
 |    `-- AgentLoopProperties (INSTANCE ToolProtocol)                  <- MCAgentLoop
 |         `-- AgentLoopProofs
 |-- Compaction           checkpoints, circuit, replay
 |    `-- CompactionProperties                                         <- MCCompaction
 |         `-- CompactionProofs
 `-- ChatTurns            UI, coroutines, threads on session logs
      `-- ChatTurnsProperties                                          <- MCChatTurns
           `-- ChatTurnsProofs
ToolProtocol            abstract: what a provider is told, asks, and is owed
SessionLog              a session's file, its writers and its readers; task boundary; L1-L3
 `-- SessionLogProperties (INSTANCE EventLog)                          <- MCSessionLog
      `-- SessionLogProofs
EventLog                abstract: a log that grows and is read whole
Permissions             policy, rules, questions, permissions.json, sandbox
 `-- PermissionsProperties                                             <- MCPermissions
      `-- SafeguardsProofs (with PytestFixProperties)
ProviderStream          one call of a model
 `-- ProviderStreamProperties (INSTANCE ProviderCall)                  <- MCProviderStream
      `-- ProviderProofs (with RequestBudget)
ProviderCall            abstract: requests, then one answer, error or cancellation
FileTools               reading and changing files, read tokens
 `-- FileToolsProperties                                               <- MCFileTools
      `-- FileToolsProofs
CommandRun              one command and its limits
 `-- CommandRunProperties                                              <- MCCommandRun
      `-- CommandRunProofs
RequestBudget           the cost ledger and its properties             <- MCRequestBudget
 `-- ProviderProofs
PytestFix               the repair workflow
 `-- PytestFixProperties                                               <- MCPytestFix
      `-- SafeguardsProofs
```

Two proof modules serve two components each: `ProviderProofs` is about the
stream of one model call and the budget all of them come under,
`SafeguardsProofs` about what may be done in the user's project, by a tool with
a permission and by a repair. The two components of each are separate
specifications over separate variables (`Spec` and `BudgetSpec`, `Spec` and
`FixSpec`); only lemmas about data are common.

`ToolSequence` holds what three components share. `ChatTurns` composes the UI
with a coarser agent loop: each action of a thread is what `AgentLoop` does
between two points where someone else reads or writes. `SessionLog` composes
the turn's thread, the thread of slash commands and the readers of one file.
Three abstract specifications are implemented by detailed ones, checked as
properties: `ToolProtocol` by `AgentLoop` (with `asked`, `owed` and `said`
computed from its log), `EventLog` by `SessionLog` (the log is the sequence of
events in the file), `ProviderCall` by `ProviderStream` (the requests sent and
the outcome).

Definitions that a comment calls a *mutant* or *a plausible bug* are variants of
the definition that follows them; `PROJECT.json` names for each property of
each run the one that violates it. They are not part of the specification.

## 3 How the models correspond to the code

`PROJECT.json` maps every definition to the lines it stands for. Here is the
larger picture: what is a step, and what is abstracted.

### ToolSequence, ToolSequenceCheck

A message has a role, the calls it carries, and how a result came about or what
kind of user message it is; text is dropped. `Owed(l, n)` is the loop of
`validate_tool_call_sequence` as a function: the calls of the last assistant
message still without a result. `Sendable` is "the validation raises nothing".
`Check` and `Replay` restate the code's loop as it stands, and `WellFormed` says
without any loop what a provider asks: every batch is followed by exactly its
results. That the loop, `Sendable` and `WellFormed` accept the same histories is
about operators and not about behaviours: it is a theorem for histories of any
length (`Histories`: the calls of a message are distinct, a result is that of
one call), and for those of up to five messages the assumption `CheckIsExact` of
`ToolSequenceCheck`, which TLC evaluates at the start of the run `chat`.

### AgentLoop

| Variable | Code |
|---|---|
| `log` | the message events in the session file, as replay returns them |
| `pending` | `session.pending_permission_execution` with the calls that will be skipped |
| `resp`, `index`, `batchEnd`, `got` | response and position in `_execute_tool_calls_interactive`, the parallel group, results not yet appended |
| `rounds`, `toolChoice`, `retried`, `verified`, `reminded`, `phase` | locals of `_continue_tool_loop_from_response` and of the self-check |
| `calls` | `provider_call_count` of the turn |
| `cancelled` | the turn's `CancellationToken` |
| `guidance`, `mode`, `grants` | the runner's queue, the permission mode, the grant file |
| `runs` | history variable |

A step is one append to the log, one execution, one provider call, or one
check, because between those a cancellation, another thread's mode switch, or
a crash can come. `DrainGuidance`, `BuildRequest`, `Answer` are `_complete_once`
and its streaming twin; `TakeResponse`, `EndOfBatch` the tool loop; `Deny`,
`Ask`, `Start`, `Execute`, `Record`, `SkipRest` the sequential execution of a
batch, `ParallelRun`, `ParallelJoin`, `Collect` the parallel one; `Finish`,
`Final` the end of the turn with its self-check; `Resume`, `RunApproved`,
`Settle`, `ResumeSkip` the answer to a confirmation; `CrashAndRestart` a process
that dies and a session resumed from its file. The code has a synchronous and
an asynchronous version of nearly everything; they do the same steps in the
same order, and one action stands for both.

Abstracted: what a tool does (it runs, or asks a question, or leaves todos
open); the policy's rules (a call's *kind* says what the policy decides in
which mode; the rules are `Permissions`); the reminder's wording; compaction (it
decides here only whether a prompt that was too long is tried again); how a
reply arrives (`ProviderStream`); time (a limit may be hit at any request when
the environment contains `timeout`).

### Compaction

The JSONL file is kept as what its readers make of it: messages, checkpoints,
the version of the parts, and `stored`, the accumulator of
`replay_runtime_state`, updated with each appended event. `live` is
`session.runtime_state`. `Restart` sets `live` to `stored`, which is what
resuming does. A compaction (`job`) takes a view (`seen`, `base`, `version`)
when it starts and goes through the stages of
`ContextWindowManager.compact_if_needed`: L1-L3 (`Programmatic`), duplicate and
circuit checks (`EnterL4`), the attempts of the summarizer (`SummaryFails`,
`Summarized`), `Fallback`, and the final event (`RecordSuccess`,
`RecordFailure`). The turn's and the user's compaction are two actors that
interleave at every event. Sizes are not tracked: that a view is over its
threshold, or fits after L1-L3, is a choice, and so is whether the stronger
second attempt (`StrongerEnough`) makes it fit; the fingerprint recorded then is
that of the first attempt. A setting says which triggers,
which failures and which disturbances a behaviour may contain.

### SessionLog

`file` is the sequence of what single `write` calls put into the JSONL file: a
whole line, the JSON text of an event longer than the buffer, its newline, or
a part of an event that a crash left. `ListEvents` is `list_events` with its one
bad line that spoils the rest; `PartState` is `rebuild_session_view`, `Replayed`
and `Resumed` are `replay_runtime_state` and `AgentSession.resume`,
`CatalogRecord` the catalog, `Transcript` the export. The turn asks, prepares
skills, answers, and observes a task boundary in three steps (the state
changes when the tool runs, the result and the observation are appended
later). `Compact`, `Archive`, `RecordCompaction` are L1-L3 by the loop or by
`/compact`. `Rename` and `ShareHead`, `ShareEntries` are slash commands.

A message is known by its position, a part by that of its message and its
place in it, a task hash by the message it is made of. A reply has the parts
the writer gives it (`ReplyParts`): a text if there is one, one for each call,
perhaps none; a transcript has an entry for each part. At most one part is
replaced at a time. Whether a part is cold or large is a choice; checkpoints
are left to `Compaction`, the order of calls and results to `AgentLoop`.

### ChatTurns

A turn has a coroutine (`co`: queued, waiting, ended; `killed` when Esc Esc
cancelled it) and a thread (`pc`). `CoStart`, `CoReturn`, `CoUnwind` are
`arun_user_turn`/`aresume_with_user_input` and their `finally` blocks; with a
provider that does not stream the runner's bookkeeping is done by the thread
(`ThreadStart`, `ThreadLeaves`) and not by the coroutine. `Interrupt` is the
double Esc, `ResumeSession` is `/resume`, which makes a second session object,
possibly on the same file. The other sessions in the store are found finished
or at a confirmation. A response requests at most one call; limits, self-check
and denials by policy are left to `AgentLoop`.

### Permissions

A request is an action, a target and the flags of the tool's declaration.
`Refused`, `Free` and `Decide` are `DefaultPermissionPolicy` with its modes; what it
asks of a target (outside the root, sensitive, dangerous, a control operator)
is a constant set, so the parsing of paths, commands and URLs is left out, but
not that a rule's value and a request's are normalised differently
(`GrantHost`, `RequestHost`, `Word`), nor that a rule made of an empty command
(`Blank`) covers nothing. `Matches`, `Grant` and `Verdict` are the
rules and `PermissionManager.preflight`. `Call`, `AnswerDeny`, `AllowOnce`,
`AllowAlways` follow `PermissionAwareToolRegistry`; `OpenTemp`, `WriteTemp`,
`Replace` are the steps of `FilePermissionGrantStore.save` (truncate, write,
rename; `inode` says under which name the file a window still has open is by
now), `SaveFails` an `OSError` in it. `Execute` goes through the sandbox, `open`
is the window's `SandboxAccess`. `NewSession`, `ResumeSession` and `Crash`
replace the session; the rules it then has are those of the file. A list of
rules is a set; `/resume` comes only while no save is under way; a crash and
the restart after it are one step.

### ProviderStream

A reply is the chunks it is sent in and, for the calls that do not stream, its
text, calls and reason. `requests` has for each request the connection, its
worker thread and the queue between thread and coroutine; the actions of
`Worker(i)` are the thread, those named `Get...` the coroutine taking one item,
`Joined` and `Accumulated` the tool accumulators, `Finish` the end of the stream
with its discarded calls, `Complete` the calls in one piece. `Retry` is the
benchmark's provider, `Compact` the loop's one recovery of a prompt that is too
long, `Classify` is `classify_provider_error`. A name or an argument string is a
sequence of pieces; `{`, `}` in this order is valid JSON and `{` alone is not.

### FileTools

A text is a sequence of lines and its hash the text itself. `calls` are the
calls of one batch, one after another or in threads. A read is two steps
(`ReadText`, `Issue`: the tool reads, then the guard reads again for the token).
Which page of lines `view` prints is left out: the token is for the whole file,
and `viewed` is the text a page was taken from. A change is `Check` for each operation, `Plan` for each, then `Truncate`, `Fill`
and `Unlink` for each file and `Consume` at the end. `Expire` is a token's TTL,
`Outside` the user or a program. Not modelled: directories, encodings, the
syntax of patches (a patch is the plan `parse_patch` returns).

### CommandRun

Four ways to run a command (`path`): `subprocess.run`, polling with a
cancellation token, the local backend and the docker backend. `root` is the
process that is waited for, `helper` one it left in the background or the one
in the container; their output is counted in units through one pipe that
stands for stdout and stderr. `Fills` and `Drains` are the reader thread,
`Polls`, `Terminate`, `Grace`, `Collects` the polling caller, `Waits`, `Kills`,
`Joins`, `JoinTimesOut` the backends. What the tool then answers is `Answer`.

### RequestBudget

Prices are integers per token, so that the rounding of `_token_cost` changes
nothing. `Send` and `Refuse` are `reserve`, `Commit`, `LoseUsage` the two ways
`BudgetedProvider` settles a request, `Abandon` a stream whose reader leaves.
A provider keeps to the output limit it was given; the estimate of the input
may be short by `Overrun` tokens beyond the margin of 20 percent.
`abandoned` and `overlapped` are history variables.

### PytestFix

A tree gives each file its content or `None`. `ReadHead`, `CheckClean`,
`Create`, `Close` are `AttemptWorkspaceManager`; the baseline and the attempts
have a manager each, and each reads HEAD anew. `RunAgent` replaces the
worktree by any tree the agent could leave - inside `editable_paths` through
its tools, anywhere with `Escapes` (shell and Python execution are not bound
to the scope). `RunFocused`, `RunFull`, `Judge` are the test runs,
`ApplySelectedFiles` copies file by file. `Raise` is an exception at any step,
`Edit` and `Commit` the user's own work meanwhile. `mine` is a history
variable: the tree the user would have without the workflow. `gitBacked` and
`failureLog` are chosen at the start: the project with or without git, the
command with or without `--failure-log`.

Test outcomes are a function of the tree (no flaky tests) and the parser
reports exactly the failing tests. Worktrees that stay behind, since a failing
`git worktree remove` is ignored, are not followed. The order in which files are copied is any
order. `--json-out`, and files that pytest itself creates in a worktree, are
left out.

## 4 Runs, bounds and fairness

Distinct states are those of the passing runs.

| Run (cfg) | States | Question and properties |
|---|---|---|
| `loop_safety` (`AgentLoop_safety.cfg`) | 692,256 | Cancellation, crash, guidance, time limit, mode switches at once; batches of up to 3 with an edit, a reader, a todo left open and a denied call. `NoOrphanResult`, `RerunNeedsApproval`, `RunsWithConsent`. |
| `loop_usable` (`AgentLoop_usable.cfg`) | 313,404 | No cancellation, crash, denial or open todo; an edit, a test command, a question, a reader; guidance, provider errors, too long prompts. `HistoryUsable`, `ImplementsProtocol`, `TurnEnds`. |
| `compaction` (`Compaction.cfg`) | 3,604,064 | Two compactions, by the turn or by `/compact` while the turn compacts too, failures of two kinds, interrupted batches, a restart between any two events. `TailIsSendable`, `NothingFallsBetween`, `CircuitStopsCalls`. |
| `session` (`SessionLog.cfg`) | 844,442 | Four sessions: one whose task changes and that dies and is resumed; one whose task changes and that is compacted; one that loop and `/compact` compact together; one renamed and shared while a turn writes a reply without parts or with a text and two calls. `LiveIsReplayed`, `OriginalsAreKept`, `ImplementsEventLog`, `SwitchNeedsRepeats`. |
| `chat` (`ChatTurns.cfg`) | 486,430 | Two turns; with a streaming provider any two of Esc Esc at every point, guidance, and `/resume`; Esc Esc with one that does not stream. `BusyIsExact`, `TurnInOneLog`, `IdleSessionUsable`, `AnswersFindTheirRequest`, `InterruptedTurnsStop`, `TurnsEnd`. |
| `access` (`Permissions.cfg`) | 1,311,079 | Requests of every kind, an empty command among them, modes, answers, resumed sessions, crashes and failing saves, in one window and in two. `RulesAreTheUsers`, `RefusalsHold`, `OutsideNeedsBypass`, `NothingIsForgotten`. |
| `stream` (`ProviderStream.cfg`) | 117,012 | One model call: every interleaving of the fragments of two tool calls with text, bad replies, cut and failing connections, long prompts, retries, an endless server, cancellation. `EventsAreTheAnswer`, `ImplementsProviderCall`, `CallEnds`. |
| `files` (`FileTools.cfg`) | 1,294,093 | Batches of the file tools with and without the guard, in one thread or two, with changes from outside and tokens that expire. `TokensAreUsedOnce`, `CallsAreAtomic`, `WritesWhatWasRead`, `ScopeIsKept`. |
| `files_replay_finding` (`FileTools_f_replay.cfg`) | - | violates `CannotBeReplayed` (section 6) |
| `execution` (`CommandRun.cfg`) | 67,062 | One command each of the four ways: output against pipe and limit, signals taken or not, a background process, deadline and interrupt. `ResultIsHonest`, `NothingLostSilently`, `OutputKeepsFlowing`, `RunReturns`. |
| `budget` (`RequestBudget.cfg`) | 9,571 | Two clients, five requests, some left by their reader. `WithinLimit`, `OverspendIsBounded`, `SentIsAccounted`. |
| `fix` (`PytestFix.cfg`) | 6,696,452 | With and without git and failure log, an agent that may write anywhere, two edits or commits of the user, any step raising. `ChangesWereTested`, `PassedMeansPassing`, `AttemptsMeetTheBaseline`. |

The type invariants (`TypeOK` of `AgentLoop`, `SessionLog`, `Permissions`,
`CommandRun`, `FileTools`, `Compaction`, `ChatTurns`; `BudgetTypes`, `FixTypes`) are
proved and therefore not part of a run; so is `ScopeIsKept` of `PytestFix`. `chat` evaluates `CheckIsExact` besides.

### What some of the properties mean

- `RunsWithConsent` speaks of the moment of execution, not of the preflight:
  mode and grants may change in between, and the registry looks again.
- `NothingFallsBetween` and `TailIsSendable` together are what makes a
  checkpoint safe: each message is shown or was summarized, and what is shown
  begins with a complete batch.
- `LiveIsReplayed` compares the state in memory with each fold of the file that
  stands for it somewhere: replay, catalog, transcript, and the file being
  readable at all. A transcript has every part of the messages its head counts,
  each once and in the order of the log; a counted reply without parts has none.
- `RefusalsHold` is about calls that are on their way to run, whichever road led
  there: policy, rule, an answer, an answer to a restored question.
- `NothingIsForgotten` is about one window; with two, the code does not keep it
  (section 6).
- `WithinLimit` holds while no two requests were in flight together: a
  reservation is compared with the limit but not held. `OverspendIsBounded` says
  what that costs when they overlap: the underestimate of one request, and one
  largest request for each client but one. The run reaches this bound.
- `WritesWhatWasRead`: with the guard and calls one after another, text that was
  in a file when the call began is overwritten only by a call that holds a token
  `view` gave for exactly that text, whatever page of it was printed. Writers
  from outside write between calls; inside a call there is a window nobody closes.
- `AnswersFindTheirRequest` holds while no turn that was interrupted meets a
  later one (`Undisputed`: an interrupted turn is the last, or its thread never
  started). A thread that goes on after Esc Esc stores, clears or reports a
  confirmation in the session the next turn works on (section 6). Two turns and
  one guarded call do not show that; three turns, or two guarded calls, do.
- `NothingLostSilently` excepts the reader thread that is left behind while a
  background process holds the pipe.
- Qualifiers (`Undisturbed`, `Undisputed`, `UserAway`, `WithinScope`, `Alone`, `~overlapped`,
  `scene.threads = 1`, `scene.path # "token"`, `~lost`, `~torn /\ ~raced`) are stated
  in the property, not hidden in a constant; without them the property fails,
  and section 6 says how.

### Why the bounds are enough

- *Two calls, one guarded and one free, in `ChatTurns`; one in `Compaction`*: a
  history is broken by the relation of one result to one batch; a second call
  is needed for a batch of two and for two batches. `CheckIsExact` has two
  calls and five messages for the same reason.
- *`AgentLoop`*: batches of 3 are the smallest with a call before and one
  behind the one that pauses; the four kinds of a run are those that take
  different branches. `MaxProviderCalls` 3 leaves room for the main loop, its
  limit, and the self-check. One crash: after it the session is in a state any
  further crash would find again. `MaxLog` bounds only repeated denials and
  `MaxNotes` guidance, both of which would otherwise grow for ever.
- *`Compaction`*: two compactions are needed for a checkpoint on a checkpoint and
  for a stale view; four messages hold a call, its result, and a tail on
  either side. `FailureLimit` 2 is reached by one compaction and by two. All
  checkpoints are of one second (`Seconds = {1}`), so that their order is the
  choice the code leaves it to.
- *`SessionLog`*: each scene has the events its question needs, twice where two can
  meet: two observations for a change that needs two, two compactions for two
  threads, one crash with the resume after it. Events longer than the buffer
  are those of two types in one scene, because a long event is two writes and
  any two of them interleave alike.
- *`ChatTurns`*: nearly all interleavings concern a turn and its successor; what
  two turns cannot show - an interrupted turn behind the next but one - the
  theorems cover, which have any number of turns, calls and sessions. One note,
  two session objects and two files show what guidance and `/resume` can do;
  each pair of disturbances is met, not all three at once.
- *`Permissions`*: targets are chosen so that each branch of the policy and each
  scope has one inside and one outside of it; two windows show every overlap
  of two saves. One save may fail, and a window die once or twice.
- *`ProviderStream`*: two tool calls of two and three fragments and a text in all
  60 orders; a retry doubles what a failed attempt can leave behind. `MaxQueue`
  2 lets the thread be ahead, be as far as the coroutine, and be left behind;
  `MaxText` 3 cuts what an endless server sends. `MaxRequests` 6 is what two
  retries and one compaction allow and cuts nothing.
- *`FileTools`*: two files in the project and one outside, texts of one or two
  lines (unique and repeated match, a second line that must survive), batches
  of one or two operations (the theorems have any number); `MaxMoves` 4 counts calls,
  changes from outside and expired tokens: read, change, read again, write.
- *`CommandRun`*: a pipe of 3 units, reads of 2, limits of 3 and 4, outputs of 0, 1
  and 4 or 5: less than a read, more than the pipe, more than the limit; a
  limit that a read ends at, and one that it crosses.
- *`RequestBudget`*: the limit of 20 is reached within five requests by cheap
  ones (cost 4 to 9) in every combination; two clients suffice since the
  others enter the bound only by their number (and the theorems have any).
- *`PytestFix`*: two source files that must agree, a test, a file git ignores, the
  record; three attempts asked for and two made; two actions of the user, so
  that an edit can be committed and a commit be followed by an edit.

`CHECK_DEADLOCK FALSE` stands where a system rests by design: a session waits
for its user, a command has returned, a bounded number of turns, requests or
moves has been made.

### Fairness

- `AgentLoop`: `WF_vars(LoopStep)` - the worker thread is scheduled and provider
  calls return (the SDK clients have timeouts). Nothing is assumed of the user;
  a turn that waits for an answer has ended.
- `ChatTurns`: weak fairness of each coroutine (the event loop runs what is
  ready) and of each thread; none of the user, of guidance or of Esc Esc.
- `ProviderStream`: weak fairness of the coroutine, of asyncio closing an
  abandoned generator, and of each worker thread, whose step includes the
  server's: it sends, ends or fails (the client's read timeout makes a silent
  server fail). The user need not cancel.
- `CommandRun`: weak fairness of the caller, the reader thread, the deadline, and
  the two programs as far as they are going to write or end; a program that
  never ends (`ends`, `helperEnds` false) has no such step. The one second of
  `reader.join(timeout=1)` is taken to pass only while the reader waits for
  output, so a reader with work to do is given the time for it.

The other specifications need no fairness: their runs check safety only.

## 5 What is proved

Checked by TLAPS for all values of the constants: any number of turns, windows,
clients, messages, files, calls, restarts. Assumptions are those the modules
declare, and TLC evaluates them on every run. All but two say what sort of value
a constant is: `CallsAssumption` (the placeholder for "no call" is none),
`KindAssumption`, `ModesAssumption`, `BoundsAssumption` (agent loop);
`ScenesAssumption` (session); `ScenesAssumption` (one model call, with room for all
retries in `MaxRequests`);
`RequestsAssumption`, `TargetsAssumption`, `ScenesAssumption` (permissions);
`RequestsAssumption`, `ScenesAssumption`, `ProjectAssumption`, `TextsAssumption`,
`ContentsAssumption` (file tools); `ActorsAssumption`, `SettingsAssumption`,
`LimitAssumption`, `SecondsAssumption`, `BoundsAssumption` (compaction);
`ChatAssumption` (with the same placeholder), `CommandAssumption`, `BudgetAssumption`
and `LargestCostAssumption` (a bound on what one request costs), `FixAssumption`. The other
two say something of the environment. `TestsAssumption` of `PytestFix`: which
tests fail depends on nothing but the files a worktree takes over (git's files,
not those it ignores, and not the record) - the workflow itself relies on it
when it takes a result obtained in a worktree for one of the user's tree.
`RepliesAssumption` of `ProviderStreamProperties`: the chunks of a streamed reply
add up to its text, calls and reason, and none follows the reason, as the
streaming protocol has it; its text fits `MaxText`, the bound on what an endless
server sends. `ImplementsProviderCall` needs that, since it compares an answer with
the reply it answers. The assumption leaves out what would make it fail for
Anthropic, a reply cut by the length limit with calls in it (section 6).

| Theorem | States | Argument |
|---|---|---|
| `AgentLoopProofs!TypeCorrect` | `Spec => []TypeOK` | part of `IInv` |
| `AgentLoopProofs!ResultsStayWithTheirBatch` | `Spec => []NoOrphanResult` | part of `IInv` |
| `AgentLoopProofs!ExecutionsHaveConsent` | `Spec => RunsWithConsent` | `IInv` and a step lemma: only `Execute`, `ParallelRun` and `RunApproved` execute |
| `AgentLoopProofs!RerunsAreApproved` | `Spec => RerunNeedsApproval` | with `Once` |
| `AgentLoopProofs!HistoriesAreUsable` | `Calm` implies `Spec => []HistoryUsable` | from `OwesWhatIsDue` |
| `AgentLoopProofs!ProtocolIsKept` | `Calm` implies `Spec => ImplementsProtocol` | with `OwesWhatIsDue`: each step says, asks, answers or is silent (`Converses`) |
| `AgentLoopProofs!CheckAcceptsWhatIsWellFormed` | for all `l` in `Histories`: `Accepted(l)`, `WellFormed(l)` and `Sendable(l)` are the same | `LoopIsUnrolled`, `BatchIsPaid`, `ResultsDiffer` |
| `SafeguardsProofs!RulesComeFromTheUser` | `Spec => []RulesAreTheUsers` | part of `Safe` |
| `SafeguardsProofs!RefusedStaysRefused` | `Spec => []RefusalsHold` | part of `Safe`, with `GrantsCoverTheirLike` |
| `SafeguardsProofs!Types` | `Spec => []TypeOK` | part of `Safe` |
| `SafeguardsProofs!SandboxHolds` | `Spec => OutsideNeedsBypass` | with `SandboxFollows` |
| `SafeguardsProofs!RulesAreKept` | `Spec => NothingIsForgotten` | with `OneKnowsTheDisk` |
| `ProviderProofs!BudgetTypesHold` | `BudgetSpec => []BudgetTypes` | inductive as it stands |
| `ProviderProofs!LimitHolds` | `BudgetSpec => []WithinLimit` | with `Room` |
| `ProviderProofs!OverspendHolds` | `BudgetSpec => []OverspendIsBounded` | with `Ahead` and `Accounted` |
| `ProviderProofs!AllAreAccountedFor` | `BudgetSpec => []SentIsAccounted` | with `Accounted`, by cardinality of the requests in flight |
| `SafeguardsProofs!FixTypesHold` | `FixSpec => []FixTypes` | part of `FixInv` |
| `SafeguardsProofs!OnlyTestedChanges` | `FixSpec => []ChangesWereTested` | part of `FixInv` |
| `SafeguardsProofs!ScopeHolds` | `FixSpec => []ScopeIsKept` | part of `FixInv` |
| `SafeguardsProofs!RepairedMeansPassing` | `FixSpec => []PassedMeansPassing` | with `Alone` |
| `SafeguardsProofs!AttemptsStartFromTheBaseline` | `FixSpec => []AttemptsMeetTheBaseline` | with `Alone` |
| `CommandRunProofs!TypeCorrect` | `Spec => []TypeOK` | part of `IInv` |
| `CommandRunProofs!ResultsAreHonest` | `Spec => []ResultIsHonest` | from `Reasons` and `Settled` |
| `CommandRunProofs!OutputIsComplete` | `Spec => NothingLostSilently` | from `Conserved` |
| `FileToolsProofs!TypeCorrect` | `Spec => []TypeOK` | part of `IInv` |
| `FileToolsProofs!TokensAreGoodOnce` | `Spec => []TokensAreUsedOnce` | from `Sequential` |
| `FileToolsProofs!ChangesStayInScope` | `Spec => ScopeIsKept` | from `Checked` |
| `FileToolsProofs!CallsAreAllOrNothing` | `Spec => CallsAreAtomic` | from `AtomInv` |
| `FileToolsProofs!OverwritesOnlyWhatWasRead` | `Spec => WritesWhatWasRead` | from `Checked` and `Sequential` |
| `ProviderProofs!EventsTellTheAnswer` | `Spec => []EventsAreTheAnswer` | from `StreamInv` |
| `ProviderProofs!StreamIsACall` | `Spec => ImplementsProviderCall` | from `CallInv`: each step asks, answers, fails, is cancelled or is silent |
| `SessionLogProofs!TypeCorrect` | `Spec => []TypeOK` | part of `IInv` |
| `SessionLogProofs!ReadersFindTheSession` | `Spec => []LiveIsReplayed` | from `Remembered`, `TaskIsTold`, `WritesAreWhole`, `ShareIsWhole` |
| `SessionLogProofs!OriginalsOutliveReplacements` | `Spec => []OriginalsAreKept` | from `ReplacedAreArchived` |
| `SessionLogProofs!TaskNeedsRepeats` | `Spec => SwitchNeedsRepeats` | from `TaskIsTold`, which counts the observations |
| `SessionLogProofs!FileIsAnEventLog` | `Spec => ImplementsEventLog` | with `TypeOK`: what one write more makes of the events read (`EventsAppend`) |
| `CompactionProofs!TypeCorrect` | `Spec => []TypeOK` | part of `IInv` |
| `CompactionProofs!NoMessageIsLost` | `Spec => []NothingFallsBetween` | from `Chained` |
| `CompactionProofs!CompactedIsSendable` | `Spec => []TailIsSendable` | from `Chained`, with the lemma `TailStaysSendable` |
| `CompactionProofs!OpenCircuitStopsCalls` | `Spec => CircuitStopsCalls` | from `Heeds` |
| `ChatTurnsProofs!TypeCorrect` | `Spec => []TypeOK` | part of `IInv` |
| `ChatTurnsProofs!OneTurnAtATime` | `Spec => []BusyIsExact` | from `Exact` |
| `ChatTurnsProofs!TurnsStayInTheirSession` | `Spec => []TurnInOneLog` | from `Owned` |
| `ChatTurnsProofs!QuestionsArePending` | `Spec => []AnswersFindTheirRequest` | from `Answerable` |
| `ChatTurnsProofs!InterruptionStopsTheTurn` | `Spec => InterruptedTurnsStop` | from `Sound`: an interrupted turn was told, or its thread never starts |
| `ChatTurnsProofs!IdleHistoriesAreUsable` | `Spec => []IdleSessionUsable` | from `Orderly` |

### The inductive invariants

*Agent loop.* `NoOrphanResult` alone is not inductive: nothing in it says that
the call a result is about to be appended for is still the business of the last
assistant message. `BatchOpen` says it for the three places that append
results: while a batch is executed (its calls), while a confirmation is pending
(the call and those to be skipped, also after a restart rebuilt it from the
log), and while skipped results are written. `PendingPlace` keeps a pending
confirmation from meeting a step that appends something else, `IndexInBatch`
and `ResultsInHand` tie index and results to the response. The proof has one
lemma for each group of variables (locals, user and history variables, place,
log) with one step for each action; lemmas about appending a result, an
assistant message, and any other message carry the log.

For `RerunNeedsApproval`, `Once` follows the calls a response brings: they are
distinct, those the loop has not come to have never run, and whatever has run
was in an assistant message that is in the log, so a provider that gives fresh
identifiers never asks for it again. Only an approval is left, and it is for one
call.

`HistoryUsable` and the refinement of `ToolProtocol` need `Calm`, a hypothesis on
the constants: nobody cancels, the process does not crash, no call is refused in
every mode, none leaves a todo open. Run `loop_usable` has such constants; for
each of the four, section 6 has the divergence that breaks the history without
it. Under `Calm`, `OwesWhatIsDue` says that what the log owes a provider is
*exactly* what the loop still has to do (`Due`): the rest of the batch from
`index` on while it is executed, the call in question and those to be skipped
while a confirmation is pending, the withheld ones while they are skipped, and
nothing otherwise. Both theorems read it off: where a request is sent nothing is
owed, and each append adds to `Owed` what it takes from or gives to `Due`. The
lemmas `OwedAfter` and `UnbrokenAfter` say what one more message does to a history.

*History check.* `LoopIsUnrolled`: after `k` messages the loop holds `Owed(l, k)`, and
is still valid if each of them fits what was owed before it. An accepted
history is well formed since behind a batch each message must pay one of its
calls, and the number that is owed goes down to 0 exactly where the window ends
(`BatchIsPaid`). A well-formed one is accepted since the results in a window are
as many as the batch has calls and cover all of them, so no two answer the same
(`ResultsDiffer`), and each finds its call still owed.

*Permissions.* `Safe` is `TypeOK`, `RulesAreTheUsers` and `RefusalsHold`, and is
inductive because of what joins the last two: if all rules stem from requests
the policy does not refuse, no rule can let a refused request through. That is
the lemma `GrantsCoverTheirLike`: a rule made for one request covers another
that is refused only if the first is refused too - true since deletions and
variables, the two kinds the policy refuses, get rules for exactly their
target. `RulesAreTheUsers` follows every copy of a rule: from the answer into
the session's list, the temporary file, the file another window's rename put
there, and back into a session that loads it. The proof has one lemma for each
action. `SandboxFollows` is about the pair that `OutsideNeedsBypass` is not: a
window's sandbox is open in bypass mode only, *whatever* its session, though the
two are changed in different places (`/mode`, a resumed session, a restart). For
`NothingIsForgotten`, `OneKnowsTheDisk` says what a save relies on: the only
window's list has everything the file has, the file it writes is the one it
truncated, and what it is about to rename is its whole list - also when an
earlier save or process died half-way and left a torn temporary file.

*Budget.* While no two requests overlapped, a request in flight was checked
against the very amount that is still committed (`Room`): its reservation still
fits. What it then costs exceeds the reservation by the underestimate
(`UseWithinReservation`, by monotonicity of products). `Accounted` counts:
requests sent are those committed or of unknown usage, those abandoned, and
those in flight. When requests overlap, it matters which one was admitted last:
it was compared with an amount to which only those in flight beside it can add.
`Ahead` says that some request in flight (`LastLeft`), together with one largest
request for each other one in flight, stays within the bound, or that what is
committed does with all of them (`AllOthers`). A request that settles moves its
cost from one side to the other (`AheadReturn`); one that is admitted becomes
the last (`AheadSend`).

*Repair.* `Untouched` (until an attempt is selected, the user's files are what
the user made of them), `Selected` (an attempt being copied has no failing
test), `Numbered` (an agent runs only in an attempt, not in the baseline). What
the other two need holds only while the user keeps away (`Alone`): every worktree
starts from a tree that git and the tests cannot tell from the user's
(`StartsAlike`), and what has been copied so far is what was tested
(`CopiesWhatPassed`). `TestsAssumption` carries a test result from one such tree
to the other.

*One command.* `Conserved` balances the output: what was written is in the pipe,
in the reader's buffer, or kept, as long as nothing was dropped, and a reader is
done only at an end of file, with an empty buffer. `Located`, `Reasons` and
`Settled` tie the process, the caller's place, the reason it stops the command
for, and the result to each other: a timeout is reported only of a command
whose deadline passed, a success only of one that is gone.

*File tools.* `Checked` is what a check is good for later: each operation that
has been checked, and each file still planned to be written or removed, lies in
the scope, and what was in it when the call began is absent or the text of a
token the call has proved. It speaks of the text *at the beginning of the call*
(`before`) since by the time a second file is written the first has changed.
`Sequential` adds what one call at a time gives: the files are as the call found
them until it writes (`Single`), and a token that is known has let no change pass
(`TokensAreGood`). The same property with "the text now in the file" is false
for a patch that touches one file twice, as the attempt to prove it showed.

For `CallsAreAtomic`, `AtomInv` follows a call that has its files to itself from
what it found to what it is to leave (`Goal`, its operations applied one after
another to the files as they were). `OnTheWay` says that nothing changes before
all is planned, that a plan leads to the goal, and that from then on each file
is either still to be written or removed or already what it is to be: whoever
fails at a check has changed nothing, whoever is done has changed everything.
`KeepsToItsFiles` and `Neighbours` say that nobody else touches those files: a
call keeps to what its operations name, and of two active calls the later one
has the earlier on record (`beside`).

*One model call.* `StreamInv` says what the UI was told by where the call is:
nothing, a beginning (a start and the text that was assembled so far), the
whole answer, or, of a call that failed, nothing again. For the refinement,
`CallInv` relates the three holders of a reply.
What the coroutine has accumulated is the sum (`AddsUp`) of the first chunks of
the newest request's reply (`Holds`), the queue goes on there, and the thread
where the queue ends (`InOrder`), so that at its end the sum is that of all
chunks - the reply. Threads of earlier requests still write, but into queues
nobody reads. A server that sends for ever never gets there: its thread ends
only in a failure (`EndsInFailure`). `Counted` bounds the requests by the retries
and the one recovery, which is what `ProviderCall` allows.

*Session file.* What a reader makes of a file is a recursive function over its
prefixes. `EventsAppend` and its like say what one write more adds; with them,
each part of `IInv` relates one thing the process knows to one fold of the
events in its file. `Remembered`: the messages, turns and skills the process has
counted are those in the file. `TaskIsTold`: the task it works on is what replay
finds there, with the observation that was made and not yet written; a
candidate that is not the task has at most as many observations as were made
in a row, so a switch needs as many as the setting says - and the two states
may differ only in a candidate that equals the task, which is why they are
compared as `Settled`. `WritesAreWhole`: without a torn or a raced append, an
event without its newline is one whose writer is about to write it, and the
file reads. `ReplacedAreArchived` is about the events already written and those
under way: every replaced message is one of the log that may be replaced, and
its archive, if it has one, is on disk before the event that names it.
`ShareIsWhole`: an export has at least the messages its head promises.

*Induction.* The library's induction theorems take a predicate, which the provers
at hand cannot instantiate. `LeastNumber` and `UpTo` give the same for a set: the
strict subsets of finite sets are well founded (`FS_StrictSubsetOrderingWellFounded`), hence so are
the intervals `1..n`, hence a set of numbers that contains 0 and with each
`k - 1` up to `n` also `k` contains `0..n`. With them a lemma first shows that the
function a recursive definition describes exists on `0..n` (`ReadingExists`,
`AddingExists`, `ReplayingExists`, ...), and then what its next value is.

*Compaction.* `Chained`: a checkpoint builds on an earlier one and covers more,
its tail begins right behind what it covers, and the tail was a legal history
when its summary was made. The lemma `TailStaysSendable` brings this to the
present: if a history and an initial part of a tail are both sendable, so is
the whole tail, since what is owed at the end of the tail is owed at the end of
the history (`OwedIsWaitedFor`). It needs no induction, because `Owed` says what
the loop of the check computes without its loop. `HasLatest` makes the
checkpoint that replay chooses one of them, `Grounded` ties a job to the
messages and checkpoints that existed when it took its view, and `Heeds` is the
circuit: whoever asks the summarizer found it closed and it still is.

*Chat turns.* `BusyIsExact` needs to know which turn a token belongs to: `Exact`
says that tokens grow with the turns, that the last one given is that of the
turn that runs, if one does, and that an interrupted turn has an older one -
which is why its `finally` block leaves the successor's busy flag alone. `Sound`
is the life of one turn (coroutine, thread, flag, what its thread holds at each
place); `Holds` says that the cancellation token Esc Esc reaches is that of the
turn that runs; `Owned` that a turn's messages are in the session of the object
it started with, whatever the UI calls current since. `Answerable` is the only
one that speaks of the question on the screen; while no interrupted thread meets
a later turn, all turns but the last are over and only the last can change what
is pending. Each action's effect on one turn is one lemma (`Works`, `Loops`); the
parts of `IInv` are preserved by every step with such an effect.

`Orderly` is for `IdleSessionUsable`, and is a joint statement about log,
confirmation and threads: until somebody interrupts or opens another session, the
log owes exactly what the one turn at work has in hand (`Debt`: a call between
its request and its result), or what the pending confirmation stands for, and
nothing when both are absent; a turn that goes on after a confirmation finds none
(`Unhindered`). That only one turn is at work comes from `Answerable`. Each step of
a thread says nothing, says what the user typed or queued, opens a debt or pays
it (`Speaks`).

### What stays with TLC

Liveness: `TurnEnds`, `TurnsEnd`, `CallEnds`, `RunReturns`, `OutputKeepsFlowing`.
Fairness and ENABLED are out of the prover's reach. All other properties of the
passing runs - invariants, action properties, and the three refinements - are
theorems, with the hypothesis `Calm` where the table says so.

## 6 Where the code does not do what it says

One divergence has a run of its own, whose counterexample TLC finds:

**A read token can be used twice** (`files_replay_finding`). `pytest-fix` creates
the tools with the guard and puts the session in bypass mode
(`eval/adapter.py:121-147`), in which neighbouring calls of a batch run in
threads (`agent/loop.py:55-66`). `FreshSourceGuard.validate_existing` looks the
token up, and `consume` comes after the write: two edits of one batch with one
token both pass, and the later write undoes the earlier one, where
`docs/PYTESTPILOT_SECURITY.md:27` says that a token cannot be replayed.

The others below were met while modelling. Where the model contains the step,
the property of section 4 that would show it carries the qualifier that keeps
it apart.

*Agent loop, chat, guidance*

| Divergence | Place |
|---|---|
| A denied call is answered without end: after a DENY the loop continues without moving on, so one call gets refusal after refusal, where the registry speaks of the only final result | `agent/loop.py:783`, against `tools/permission_registry.py:72` |
| An approved call can run twice: the confirmation is cleared only after the tool has run, and Esc Esc in between frees the UI with the confirmation still pending | `agent/loop.py:379` |
| The thread of an interrupted turn stores, clears or (provider without streaming) reports a confirmation while a later turn has one: the question on the screen is then not the pending one, and its answer goes to another call or to none | `agent/loop.py:379`, `app/runtime.py:129` |
| A cancellation between a tool's execution and its append loses the result, and the session can no longer be sent | `agent/loop.py:929`, against `:288` |
| After a crash, a call that needs no permission is not restored and stays unanswered | `agent/session.py:252`, against `:243` |
| A confirmation that comes up in the todo self-check is stored, but the turn is reported as completed and writes its answer over the open batch | `agent/loop.py:651`, against `:551` |
| The self-check has its own allowance of tool rounds | `agent/loop.py:651`, against `docs/AGENT_LOOP_GUARDRAILS.md:7` |
| A limit met in the self-check is raised outside of the `try` | `agent/loop.py:573`, against `docs/AGENT_LOOP_GUARDRAILS.md:72` |
| The result of the todo tool's `add` lists only the new item, and the self-check reads the latest result: it can miss open items | `agent/loop.py:725` |
| Guidance queued after the loop's last look waits for a later turn | `app/tui.py:207`, against `:208` |
| The thread of an interrupted turn writes between the messages of the next | `app/tui.py:302`, against `agent/loop.py:620` |
| After `/resume` the previous session's question is still the one answered | `app/session_commands.py:93` |
| `/resume` of the session being answered in restores its confirmation a second time | `session/resume.py:56` |
| Esc Esc before the thread has taken its token cancels nothing (provider without streaming) | `app/runtime.py:129` |

*Compaction, session files, task boundary*

| Divergence | Place |
|---|---|
| Two checkpoints of one second tie: the stored sequence is always 0, and the older one may stay in use | `context/store.py:109`, against `tests/test_context_checkpoint.py:55` |
| A restart closes an open circuit: the replay counts fewer failures than the process | `context/runtime_replay.py:82`, against `context/ARCHITECTURE.md:942` |
| After a restart, a source whose summary failed is refused as a duplicate | `context/runtime_replay.py:39`, the same |
| A part of an old task is replaced without keeping a preview, and the message a new task is made of still carries the old hash | `context/compaction.py:168`, against `context/ARCHITECTURE.md:641` |
| An append that is cut makes the whole session unreadable; the next append is glued to it, and so are events of two threads when one exceeds the buffer | `context/store.py:37` |
| An observation that is made and lost (cancelled, crashed) lets two that are not consecutive confirm a change, in this process or the next | `agent/session.py:449` |
| A loop that is created anew prepares the same message's skills again, and `loaded_skills` accumulates duplicates; guidance and reminders count as turns and route skills again | `agent/loop.py:471` |
| `/share --tool-results` exports originals that compaction has archived: the transcript ignores replacements, and its branch for archived parts is never reached | `session/transcript.py:141` |
| The session list counts replies without parts, of which a transcript shows nothing | `session/catalog.py:113`, against `session/transcript.py:68` |
| A second `pytest-fix` continues the session files of the first, since attempts are named by number only | `eval/adapter.py:82` |

*Permissions and file tools*

| Divergence | Place |
|---|---|
| Two windows lose each other's rules: each saves the list it loaded at its start | `permissions/grants.py:84`, against `docs/PERMISSIONS_DESIGN.md:145` |
| The temporary file has one name: a rename between another window's truncation and write leaves a torn `permissions.json` (read as no rules), and the other rename fails | `permissions/grants.py:88` |
| After a failed save the rule holds in memory only | `permissions/grants.py:82` |
| "Allow always" for a command with a control operator, or a host with a trailing dot, stores a rule that never matches | `permissions/manager.py:239` |
| A rule given for `write` lets `apply_patch` through, which may not be allowed always; rules ignore the working directory | `permissions/grants.py` |
| A write outside the root is asked about and then refused by the sandbox | `permissions/policy.py`, `utils/sandbox.py` |
| Two updates of one file in a patch lose the first; a file deleted twice fails after other files were written; two moves to one destination lose a file | `tools/apply_patch.py:275` |
| `view` reads the file twice, so the token may be for a text that was not shown | `tools/view.py:25` |
| `view` shows a page and gives a token for the whole file, so a call may replace lines that were never shown | `tools/view.py:42` |
| Nothing is locked between the comparison of a text with its token and the write: what the user writes there is overwritten | `tools/fresh_source.py:67` |

*Providers and execution*

| Divergence | Place |
|---|---|
| Streaming drops tool calls unless the reason is exactly `tool_calls`, and calls with empty arguments; the calls in one piece accept both | `providers/openai_compatible.py:274` |
| The Anthropic provider does not drop calls cut by the length limit, and its exceptions are neither retried nor recovered | `providers/anthropic_provider.py` |
| A stream that ends without a reason is an answer; when its calls are dropped, the turn ends with the text there is, perhaps none | `providers/openai_compatible.py:268` |
| Text of a failed attempt stays on the screen; an interrupt is not seen while the server is silent | `agent/loop.py:510` |
| A cancellation between the creation of a stream and its first event leaves the connection unclosed | `providers/openai_compatible.py:211` |
| `RequiredFirstToolProvider` spends its forced choice on a first request that fails | `eval/adapter.py` |
| With a cancellation token nobody reads the pipe before the command ends: output larger than the pipe blocks it until its timeout; only the shell is signalled, and a child that survives keeps the call waiting | `utils/subprocess.py:158`, against `:47` |
| The local and docker backends ignore the cancellation token; a container outlives its timed-out client | `execution.py:225` |
| A reader returns full blocks of 4096 characters only: behind a background process that holds the pipe, the rest is lost without a mark | `execution.py:250` |
| A plain timeout discards the output; the agent's own `timeout_seconds` and `max_output_chars` override the workflow's limits | `utils/subprocess.py`, `tools/shell.py:42` |
| The file size limit given to docker is megabytes times 1024, in bytes | `execution.py:131` |

*Budget and pytest repair*

| Divergence | Place |
|---|---|
| A stream that is left is neither committed nor declared unknown (`GeneratorExit` is no `Exception`) | `eval/costs.py:242`, against `docs/DEEPSEEK_BENCHMARK_AUDIT.md:27` |
| Files git ignores are deleted: `editable_paths` lists every `*.py` file, a worktree lacks those `.gitignore` hides, and what the worktree lacks is deleted | `workflows/attempt_workspace.py:86` |
| A file the user edits during the run is overwritten, changed by the agent or not | `workflows/attempt_workspace.py:84`, against `:26` |
| Failed attempts leave `.firstcoder` in a project that does not ignore it | `workflows/pytest_fix.py:429`, against `docs/PYTESTPILOT_SECURITY.md:42` |
| An attempt that passes thanks to a file outside the scope is selected, and what is copied fails | `workflows/pytest_fix.py:186`, against `README.md:79` |
| A worktree that `git worktree remove` cannot remove stays in the repository's list without a word | `workflows/attempt_workspace.py:54` |
| A commit between the two managers gives attempts another base than the baseline | `workflows/pytest_fix.py:139`, against `docs/PYTESTPILOT_SECURITY.md:37` |

## 7 What is not modelled

- *Text*: prompts, rendering, pytest's output, the syntax of patches, summaries,
  skill files, content compression, redaction. Nothing here depends on their
  wording.
- *Sizes*: token estimates and thresholds are choices.
- *Parsing of targets*: paths, commands, hosts are classified by constants.
- *Wire formats*: the conversion of messages and tool schemas, presets, the model
  list; a server that stays silent for ever.
- *Read-only, network and git tools*: one call, no state of the program.
- *The todo list's items*: in memory and lost at a restart; of them the loop sees
  whether one is open.
- *Symbolic links, directories and file modes.*
- *The container daemon*: the docker client is a process like any other.
- *Code index and retrieval*: a separate, sequential command whose state is data.
  Reading it showed that the metadata is not deleted before a rebuild
  (`retrieval/index.py:44`), so a crash in between leaves vectors of another model
  beside it; that a search filters `path_prefix` after the limit and without a
  directory boundary; that one file which is not UTF-8 fails a whole build; and
  that `pytest-fix` does not compare the index's model with its own.
- *Configuration, command line, benchmark scripts*: run once, one after another.
- *Several runs of `pytest-fix`*: one is modelled, with a fresh data root.
- *That the repair workflow ends*: its commands have timeouts and its loops are
  counted; the run `fix` checks safety only.

`PROJECT.json` lists every component with what is left out of it.

## 8 Plan

Done: the modules of section 2, the runs of section 4, the proofs of section 5.
What is left, the most important first:

1. **`CodeIndex`** - the order of upserts, deletions and metadata, a crash between
   them; a search returns chunks of the current model only.
2. **Several `pytest-fix` runs** on one data root, composing `PytestFix` with the
   session store.
3. **`AdapterRetries`** composing `ProviderStream` with `RequestBudget` - retried
   calls and what they cost.
