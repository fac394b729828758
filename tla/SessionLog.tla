----------------------------- MODULE SessionLog -----------------------------
(***************************************************************************)
(* One session and its JSONL file: context/store.py appends and reads,     *)
(* context/writer.py and agent/session.py write the events of a turn,      *)
(* context/task_boundary.py decides when the task has changed,             *)
(* context/compaction.py (L1-L3) replaces parts and context/archive.py     *)
(* keeps what it replaces, and context/runtime_replay.py,                  *)
(* session/catalog.py, session/resume.py and session/transcript.py read    *)
(* the file, each with a fold of its own.                                  *)
(*                                                                         *)
(* The file is a sequence of what single write calls put there.  An event  *)
(* that fits the buffer is written with its newline when the file is       *)
(* closed ("line"); the JSON text of a longer one goes out first ("json")  *)
(* and the newline afterwards ("newline"), and another thread may append   *)
(* in between.  A process that dies, or a full disk, may leave a part of   *)
(* an event ("cut").                                                       *)
(*                                                                         *)
(* A message is known by the position of its event, and a task hash by the *)
(* message it is computed from (no two differ by luck).  A reply has a     *)
(* part for its text, unless that is empty, and one for each of its calls; *)
(* a part is known by its message and its place there.  Events no reader   *)
(* folds (which skill was selected, which of its files were read) are left *)
(* out, the files of a skill do not change.                                *)
(* Checkpoints are the subject of Compaction, the order of calls and       *)
(* results that of AgentLoop.                                              *)
(***************************************************************************)
EXTENDS Naturals, Sequences, FiniteSets, SequencesExt

CONSTANTS
  Scenes,     \* sessions to look at: records of what may happen (env), what the
              \* model may answer (replies: with text, and how many calls), the
              \* required_stable_count (required; 1 in bypass mode), the types of
              \* events that may exceed the buffer (long), and how many events
              \* of each type, and crashes, there are at most (most, a bound)
  Titles      \* what the user may call the session

AllEnv == {"cancel", "rename", "compact", "share", "skills", "boundary", "tear"}
Actors == {"turn", "ui"}    \* the agent loop's thread and the one of slash commands
NoTask == 0

ASSUME ScenesAssumption ==
  \A s \in Scenes : s.env \subseteq AllEnv /\ s.required \in {1, 2} /\ s.replies \subseteq [text : BOOLEAN, calls : Nat]

VARIABLES
  scene,      \* the session looked at
  file,       \* what write calls have put into the file
  writing,    \* for each actor: its newline is still to be written
  live,       \* the runtime state of the session in this process
  up,         \* the process runs
  step,       \* what the turn is about to write: a tool result, an observation
  work,       \* for each actor the compaction it runs
  share,      \* the export being made, or made last
  archives,   \* archived originals, on disk
  read,       \* what list_events returned to the process that resumed, until it writes
  streak,     \* history: the equal "new" observations made last, and their basis
  crashes,    \* history: how often the process died
  torn,       \* history: a crash fell into an append
  raced,      \* history: two appends overlapped
  lost        \* history: an observation was made and not recorded

vars == <<scene, file, writing, live, up, step, work, share, archives, read, streak, crashes, torn, raced, lost>>
history == <<streak, crashes, torn, raced, lost>>

Idle == [stage |-> "none"]

-----------------------------------------------------------------------------
(* Events, as context/writer.py composes them.                             *)

Created          == [type |-> "session_created"]
Renamed(t)       == [type |-> "session_metadata_updated", title |-> t]
UserMessage(h)   == [type |-> "user_message", parts |-> <<"text">>, task |-> h]
ReplyParts(r)    == (IF r.text THEN <<"text">> ELSE <<>>) \o [k \in 1..r.calls |-> "tool_call"]
Reply(r, h)      == [type |-> "assistant_message", parts |-> ReplyParts(r), task |-> h]
ToolResult(h)    == [type |-> "tool_result", parts |-> <<"tool_result">>, task |-> h]
Boundary(o)      == [type |-> "task_boundary_observed", observation |-> o]
Compacted(parts) == [type |-> "compaction_completed", replaced |-> parts]
SkillLoaded      == [type |-> "skill_loaded"]

MessageTypes == {"user_message", "assistant_message", "tool_result"}
IsMessage(e) == e.type \in MessageTypes

-----------------------------------------------------------------------------
(* The file and its readers.                                               *)

Holds(c) == c.write \in {"line", "json"}

(* Every line that is not blank is one JSON object.                        *)
Readable(f) ==
  \A i \in DOMAIN f :
    /\ f[i].write # "cut"
    /\ Holds(f[i]) /\ i > 1 => f[i - 1].write \notin {"json", "cut"}

(* The events of the file, write call by write call.                       *)
Extended(events, c) == IF Holds(c) THEN Append(events, c.event) ELSE events
Events(f) ==
  LET upTo[n \in 0..Len(f)] == IF n = 0 THEN <<>> ELSE Extended(upTo[n - 1], f[n])
  IN  upTo[Len(f)]

Corrupt == <<[type |-> "corrupt"]>>

(* Mutant: lines that cannot be parsed are skipped.                        *)
ListEventsLenient(f) ==
  LET Sound(i) == Holds(f[i]) /\ (i = 1 \/ f[i - 1].write \notin {"json", "cut"})
                  /\ (i = Len(f) \/ f[i].write = "line" \/ ~Holds(f[i + 1]))
      whole == SelectSeq([i \in DOMAIN f |-> [f[i] EXCEPT !.write = IF Sound(i) THEN @ ELSE "cut"]], Holds)
  IN [i \in DOMAIN whole |-> whole[i].event]

(* list_events: one bad line, and nothing can be read.                     *)
ListEvents(f) == IF Readable(f) THEN Events(f) ELSE Corrupt

log == Events(file)
Messages(l) == {i \in DOMAIN l : IsMessage(l[i])}
Parts(l)    == UNION {{m} \X DOMAIN l[m].parts : m \in Messages(l)}
Kind(l, p)  == l[p[1]].parts[p[2]]
HasCall(l)  == \E p \in Parts(l) : Kind(l, p) = "tool_call"
Newest(S) == CHOOSE x \in S : \A y \in S : y <= x

(* rebuild_session_view: the newest replacement of a part counts.          *)
PartState(l, p) ==
  LET by == {i \in DOMAIN l : l[i].type = "compaction_completed" /\ \E r \in l[i].replaced : r.part = p}
  IN IF by = {} THEN "raw" ELSE (CHOOSE r \in l[Newest(by)].replaced : r.part = p).state

(* replay_runtime_state, and what AgentSession.resume infers besides.      *)
NoObservations == [active |-> NoTask, candidate |-> NoTask, count |-> 0]

Replayed(s, e) ==
  IF e.type # "task_boundary_observed" THEN s
  ELSE LET o == e.observation IN
       IF o.confirmed THEN [active |-> o.basis, candidate |-> NoTask, count |-> 0]
       ELSE IF o.decision # "new" THEN [s EXCEPT !.candidate = NoTask, !.count = 0]
       ELSE [s EXCEPT !.candidate = o.basis, !.count = IF o.count = 0 THEN 1 ELSE o.count]

ReplayedTask(l) ==
  LET after[n \in 0..Len(l)] == IF n = 0 THEN NoObservations ELSE Replayed(after[n - 1], l[n])
  IN  after[Len(l)]

CountOf(l, type) == Cardinality({i \in DOMAIN l : l[i].type = type})

Resumed(l) ==
  [task |-> ReplayedTask(l), turn |-> CountOf(l, "user_message"),
   known |-> Messages(l), skills |-> CountOf(l, "skill_loaded"), prepared |-> 0]

(* The messages the catalog counts.                                        *)
Counted(l) == Messages(l)

(* The catalog's record of a session.                                      *)
CatalogRecord(f) ==
  IF ~Readable(f) THEN [status |-> "corrupt"]
  ELSE LET l == Events(f)
           named == {i \in DOMAIN l : l[i].type = "session_metadata_updated"}
           asked == {i \in DOMAIN l : l[i].type = "user_message"}
       IN IF l = <<>> THEN [status |-> "empty"]
          ELSE [status |-> "ok",
                title |-> IF named # {} THEN l[Newest(named)].title
                          ELSE IF asked # {} THEN <<"input", Newest(asked)>> ELSE <<"id">>,
                messages |-> Cardinality(Counted(l)),
                turns |-> CountOf(l, "user_message"),
                archives |-> UNION {{r.archive : r \in {x \in l[i].replaced : x.state = "archived"}} :
                                    i \in {j \in DOMAIN l : l[j].type = "compaction_completed"}}]

(* _entries_from_event with the options /share uses: an entry for each     *)
(* part of a message.                                                      *)
EntryOf(l, p) ==
  [part |-> p,
   role |-> IF Kind(l, p) = "tool_call" THEN "tool_call"
            ELSE CASE l[p[1]].type = "user_message" -> "user" [] l[p[1]].type = "assistant_message" -> "assistant" [] OTHER -> "tool",
   shows |-> IF Kind(l, p) = "tool_result" THEN "status" ELSE "content"]

(* Mutant: of a message with several parts only the first is shown.        *)
WithFirstEntry(entries, l, i) ==
  IF IsMessage(l[i]) /\ l[i].parts # <<>> THEN Append(entries, EntryOf(l, <<i, 1>>)) ELSE entries

WithEntries(entries, l, i) ==
  IF IsMessage(l[i]) THEN entries \o [k \in DOMAIN l[i].parts |-> EntryOf(l, <<i, k>>)] ELSE entries
Transcript(l) ==
  LET upTo[n \in 0..Len(l)] == IF n = 0 THEN <<>> ELSE WithEntries(upTo[n - 1], l, n)
  IN  upTo[Len(l)]

-----------------------------------------------------------------------------
(* append_event by actor a.                                                *)

Short(e) == file' = Append(file, [write |-> "line", event |-> e]) /\ UNCHANGED writing

Append_(a, e) ==
  /\ ~writing[a]
  /\ CountOf(log, e.type) < scene.most[e.type]
  /\ \/ Short(e)
     \/ /\ e.type \in scene.long
        /\ file' = Append(file, [write |-> "json", event |-> e])
        /\ writing' = [writing EXCEPT ![a] = TRUE]
  /\ raced' = (raced \/ \E b \in Actors \ {a} : writing[b])
  /\ read' = <<>>
  /\ UNCHANGED <<scene, up, crashes, torn, archives>>

(* The newline of a long event.                                            *)
Newline(a) ==
  /\ up /\ writing[a]
  /\ file' = Append(file, [write |-> "newline"])
  /\ writing' = [writing EXCEPT ![a] = FALSE]
  /\ UNCHANGED <<scene, live, up, step, work, share, archives, read, history>>

Init ==
  /\ scene \in Scenes
  /\ file = <<[write |-> "line", event |-> Created]>>
  /\ writing = [a \in Actors |-> FALSE]
  /\ live = Resumed(<<Created>>)
  /\ up = TRUE /\ step = Idle
  /\ work = [a \in Actors |-> Idle]
  /\ share = Idle /\ archives = {} /\ read = <<>>
  /\ streak = [basis |-> NoTask, count |-> 0]
  /\ crashes = 0 /\ torn = FALSE /\ raced = FALSE /\ lost = FALSE

-----------------------------------------------------------------------------
(* The turn.                                                               *)

TurnIsFree == up /\ step = Idle /\ work["turn"] = Idle /\ ~writing["turn"]
Now == Len(log) + 1

(* append_user_message, of the user's input, guidance or a reminder.       *)
Ask ==
  /\ TurnIsFree
  /\ Append_("turn", UserMessage(live.task.active))
  /\ live' = [live EXCEPT !.turn = @ + 1, !.known = @ \cup {Now}]
  /\ UNCHANGED <<step, work, share, streak, lost>>

(* _prepare_skills_for_current_turn, before each request, does something   *)
(* once for each user message; the message decides whether a skill is      *)
(* routed.  A loop that is new has prepared for no message.                *)
Prepared == "skills" \notin scene.env \/ live.prepared = live.turn

PrepareSkills ==
  /\ TurnIsFree /\ live.turn > 0 /\ ~Prepared
  /\ \/ /\ Append_("turn", SkillLoaded)
        /\ live' = [live EXCEPT !.skills = @ + 1, !.prepared = live.turn]
     \/ /\ live' = [live EXCEPT !.prepared = live.turn]
        /\ UNCHANGED <<scene, file, writing, up, archives, read, crashes, torn, raced>>
  /\ UNCHANGED <<step, work, share, streak, lost>>

(* append_assistant_response, and the result of an ordinary call.          *)
Answer ==
  /\ TurnIsFree /\ live.turn > 0 /\ Prepared
  /\ \/ \E r \in scene.replies : Append_("turn", Reply(r, live.task.active))
     \/ HasCall(log) /\ Append_("turn", ToolResult(live.task.active))
  /\ live' = [live EXCEPT !.known = @ \cup {Now}]
  /\ UNCHANGED <<step, work, share, streak, lost>>

(* Mutant: "uncertain" leaves the candidate.                               *)
ObservedUnlessUncertain(s, decision, basis) ==
  IF decision = "uncertain" THEN s
  ELSE IF decision = "same" THEN [s EXCEPT !.candidate = NoTask, !.count = 0]
  ELSE IF basis = s.active THEN [s EXCEPT !.candidate = NoTask, !.count = 0]
  ELSE LET n == IF basis = s.candidate THEN s.count + 1 ELSE 1 IN
       IF n < scene.required THEN [s EXCEPT !.candidate = basis, !.count = n]
       ELSE [active |-> basis, candidate |-> NoTask, count |-> 0]

(* observe and observe_task_hash_candidate.                                *)
Observed(s, decision, basis) ==
  IF decision # "new" \/ basis = s.active THEN [s EXCEPT !.candidate = NoTask, !.count = 0]
  ELSE LET n == IF basis = s.candidate THEN s.count + 1 ELSE 1 IN
       IF n < scene.required THEN [s EXCEPT !.candidate = basis, !.count = n]
       ELSE [active |-> basis, candidate |-> NoTask, count |-> 0]

(* The task_boundary tool: the state changes when the tool runs, its       *)
(* result and the observation are written afterwards.                      *)
Observe ==
  /\ "boundary" \in scene.env /\ TurnIsFree /\ HasCall(log)
  /\ \E decision \in {"same", "new", "uncertain"}, basis \in live.known :
       /\ log[basis].type = "user_message"    \* what the prompt asks for
       /\ LET t == Observed(live.task, decision, basis) IN
          /\ live' = [live EXCEPT !.task = t]
          /\ step' = [stage |-> "result",
                      observation |-> [decision |-> decision, basis |-> basis, count |-> t.count,
                                       confirmed |-> t.active # live.task.active]]
       /\ streak' = IF decision # "new" THEN [basis |-> NoTask, count |-> 0]
                    ELSE [basis |-> basis, count |-> IF basis # streak.basis THEN 1
                                                      ELSE IF streak.count = 2 THEN 2 ELSE streak.count + 1]
  /\ UNCHANGED <<scene, file, writing, up, work, share, archives, read, crashes, torn, raced, lost>>

WriteResult ==
  /\ up /\ step.stage = "result"
  /\ Append_("turn", ToolResult(live.task.active))
  /\ live' = [live EXCEPT !.known = @ \cup {Now}]
  /\ step' = [step EXCEPT !.stage = "observation"]
  /\ UNCHANGED <<work, share, streak, lost>>

(* Mutant: only a confirmed change is recorded.                            *)
WriteObservationIfConfirmed ==
  /\ up /\ step.stage = "observation" /\ ~writing["turn"]
  /\ IF step.observation.confirmed THEN Append_("turn", Boundary(step.observation))
     ELSE UNCHANGED <<scene, file, writing, up, crashes, torn, raced, archives, read>>
  /\ step' = Idle
  /\ UNCHANGED <<live, work, share, streak, lost>>

WriteObservation ==
  /\ up /\ step.stage = "observation"
  /\ Append_("turn", Boundary(step.observation))
  /\ step' = Idle
  /\ UNCHANGED <<live, work, share, streak, lost>>

(* The turn is cancelled after the tool ran and before its result is       *)
(* written (AgentLoop._execute_single_tool_call).                          *)
CancelResult ==
  /\ "cancel" \in scene.env /\ up /\ step.stage = "result"
  /\ step' = Idle /\ lost' = TRUE
  /\ UNCHANGED <<scene, file, writing, live, up, work, share, archives, read, streak, crashes, torn, raced>>

-----------------------------------------------------------------------------
(* L1-L3, by the loop or by /compact.                                      *)

(* Text of another task (L1); cold text of this one, and all text if the   *)
(* trigger forces it (L3).  A part that was replaced once is left alone,   *)
(* and one whose replacement would be longer.                              *)
IsOf(l, p, active)    == active # NoTask /\ l[p[1]].task = active
OldTask(l, p, active) == l[p[1]].task # NoTask /\ active # NoTask /\ l[p[1]].task # active
RawParts(l, kinds)    == {p \in Parts(l) : Kind(l, p) \in kinds /\ PartState(l, p) = "raw"}
TextParts(l)          == RawParts(l, {"text"})
LargeResults(l)       == RawParts(l, {"tool_result"})

(* Mutant: route compaction takes tool results too.                        *)
RoutableAll(l, active, forced) ==
  {p \in RawParts(l, {"text", "tool_result"}) : forced \/ IsOf(l, p, active)}

Routable(l, active, forced) == {p \in TextParts(l) : forced \/ IsOf(l, p, active)}
Old(l, active)              == {p \in TextParts(l) : OldTask(l, p, active)}

Free(a) == IF a = "turn" THEN TurnIsFree ELSE up /\ work[a] = Idle /\ share.stage # "entries"

(* rebuild_view, and what the levels make of it; a session that cannot be  *)
(* read any more raises here.  "archive" stands for the random id.         *)
Compact(a) ==
  /\ "compact" \in scene.env /\ Free(a) /\ Readable(file)
  /\ \E forced \in BOOLEAN, texts \in SUBSET TextParts(log), results \in SUBSET LargeResults(log) :
       LET active == live.task.active
           new == {[part |-> p, state |-> "micro_compacted"] : p \in texts \cap Old(log, active)}
             \cup {[part |-> p, state |-> "route_compacted"] :
                     p \in (texts \cup results) \cap (Routable(log, active, forced) \ Old(log, active))}
             \cup {[part |-> p, state |-> "archived", archive |-> <<a, p>>] :
                     p \in results \ Routable(log, active, forced)}
       IN /\ Cardinality(new) = 1     \* bound: parts replaced at a time
          /\ work' = [work EXCEPT ![a] = [stage |-> "archive", replaced |-> new]]
  /\ UNCHANGED <<scene, file, writing, live, up, step, share, archives, read, history>>

(* archive_part: the originals are on disk before the event names them.    *)
Archive(a) ==
  /\ up /\ work[a].stage = "archive"
  /\ archives' = archives \cup {r.archive : r \in {x \in work[a].replaced : x.state = "archived"}}
  /\ work' = [work EXCEPT ![a].stage = "record"]
  /\ UNCHANGED <<scene, file, writing, live, up, step, share, read, history>>

RecordCompaction(a) ==
  /\ up /\ work[a].stage = "record"
  /\ Append_(a, Compacted(work[a].replaced))
  /\ work' = [work EXCEPT ![a] = Idle]
  /\ UNCHANGED <<live, step, share, streak, lost>>

-----------------------------------------------------------------------------
(* Commands.                                                               *)

Rename ==
  /\ "rename" \in scene.env /\ Free("ui")
  /\ \E t \in Titles : Append_("ui", Renamed(t))
  /\ UNCHANGED <<live, step, work, share, streak, lost>>

(* TranscriptBuilder.build: the record from one reading of the file, the   *)
(* entries from another.                                                   *)
ShareHead ==
  /\ "share" \in scene.env /\ Free("ui")
  /\ share' = LET r == CatalogRecord(file) IN
              IF r.status = "ok" THEN [stage |-> "entries", record |-> r] ELSE [stage |-> "refused"]
  /\ UNCHANGED <<scene, file, writing, live, up, step, work, archives, read, history>>

ShareEntries ==
  /\ up /\ share.stage = "entries"
  /\ share' = IF Readable(file) THEN [stage |-> "done", record |-> share.record, entries |-> Transcript(log)]
              ELSE [stage |-> "refused"]
  /\ UNCHANGED <<scene, file, writing, live, up, step, work, archives, read, history>>

-----------------------------------------------------------------------------
(* The process dies, perhaps within an append, and the session is resumed. *)

Crash ==
  /\ up /\ crashes < scene.most.crash
  /\ up' = FALSE /\ crashes' = crashes + 1
  /\ \/ UNCHANGED file
     \/ "tear" \in scene.env /\ file' = Append(file, [write |-> "cut"])
  /\ torn' = (torn \/ file' # file \/ \E a \in Actors : writing[a])
  /\ lost' = (lost \/ step # Idle)
  /\ writing' = [a \in Actors |-> FALSE]
  /\ step' = Idle /\ work' = [a \in Actors |-> Idle]
  /\ share' = IF share.stage = "entries" THEN Idle ELSE share
  /\ UNCHANGED <<scene, live, archives, read, streak, raced>>

(* ResumeService.resume: refused for a file that cannot be read.           *)
Resume ==
  /\ ~up
  /\ CatalogRecord(file).status = "ok"
  /\ live' = Resumed(log) /\ up' = TRUE
  /\ read' = ListEvents(file)
  /\ UNCHANGED <<scene, file, writing, step, work, share, archives, history>>

RefuseResume ==
  /\ ~up
  /\ CatalogRecord(file).status # "ok"
  /\ read' = ListEvents(file)
  /\ UNCHANGED <<scene, file, writing, live, up, step, work, share, archives, history>>

Turn == Ask \/ PrepareSkills \/ Answer \/ Observe \/ WriteResult \/ WriteObservation \/ CancelResult
Ui   == Rename \/ ShareHead \/ ShareEntries
Work(a) == Newline(a) \/ Compact(a) \/ Archive(a) \/ RecordCompaction(a)

Next == Turn \/ Ui \/ (\E a \in Actors : Work(a)) \/ Crash \/ Resume \/ RefuseResume

Spec == Init /\ [][Next]_vars
=============================================================================
