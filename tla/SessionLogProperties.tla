------------------------ MODULE SessionLogProperties ------------------------
(***************************************************************************)
(* What a session's file must be good for: whoever reads it later, in this *)
(* process or in another one, finds what this process knew.                *)
(***************************************************************************)
EXTENDS SessionLog

(* The file is an event log: readers get all of it in order, or are told   *)
(* that it is damaged (context/store.py:37-47).                            *)
Abstract == INSTANCE EventLog
              WITH Damaged <- Corrupt, intact <- Readable(file)

ImplementsEventLog == Abstract!Spec

(* Until a crash falls into an append, or two appends overlap, the file    *)
(* can be read.                                                            *)
FileIsReadable == ~torn /\ ~raced => Readable(file)

(* Once every observation is recorded, a process that resumed the session  *)
(* would know the task, the candidate and how often it was seen, the turn, *)
(* the messages and the skills this one knows (a candidate that is the     *)
(* active task already counts for nothing).                                *)
Known(r) == [r EXCEPT !.prepared = 0,
                      !.task = IF @.candidate = @.active THEN [@ EXCEPT !.candidate = NoTask, !.count = 0] ELSE @]
ResumeKnows == up /\ step = Idle /\ ~lost => Known(live) = Known(Resumed(log))

(* The session list counts the messages and turns this process counts.     *)
CatalogCounts ==
  up /\ Readable(file) =>
    LET r == CatalogRecord(file)
    IN r.status = "ok" /\ r.messages = Cardinality(live.known) /\ r.turns = live.turn

(* A shared transcript shows every part of every message its session       *)
(* record counts (the first ones of the log; a reply without text and      *)
(* calls is counted and has nothing to show), and each part of a message   *)
(* at most once and in order, though the file is read again for the        *)
(* entries while the turn goes on.                                         *)
First(l, n)  == {m \in Messages(l) : Cardinality({x \in Messages(l) : x <= m}) <= n}
Before(p, q) == p[1] < q[1] \/ (p[1] = q[1] /\ p[2] < q[2])
TranscriptIsWhole ==
  share.stage = "done" =>
    LET shown == {share.entries[i].part : i \in DOMAIN share.entries}
    IN /\ shown \subseteq Parts(log)
       /\ \A m \in First(log, share.record.messages) : {m} \X DOMAIN log[m].parts \subseteq shown
       /\ \A i, j \in DOMAIN share.entries : i < j => Before(share.entries[i].part, share.entries[j].part)

(* Whoever reads the file finds what this process knows: a process that    *)
(* resumes the session, the session list and a transcript, each with a     *)
(* fold of its own (AgentSession.resume and runtime_replay.py,             *)
(* catalog.py:108-179, transcript.py:27-46).                               *)
LiveIsReplayed == FileIsReadable /\ ResumeKnows /\ CatalogCounts /\ TranscriptIsWhole

(* The task changes only when the model has said "new" about the same      *)
(* message required_stable_count times in a row, across a restart as well  *)
(* (task_boundary.py:82-137).                                              *)
SwitchesOnRepeats ==
  up /\ up' /\ ~lost /\ live'.task.active # live.task.active =>
    streak' = [basis |-> live'.task.active, count |-> streak'.count] /\ streak'.count >= scene.required

SwitchNeedsRepeats == [][SwitchesOnRepeats]_vars

(* A tool result that compaction has replaced has its original on disk,    *)
(* whatever died or overlapped (compaction.py:174-184, archive.py:26-103). *)
OriginalsAreKept ==
  \A p \in Parts(log) :
    Kind(log, p) = "tool_result" /\ PartState(log, p) # "raw" =>
      \E i \in DOMAIN log : log[i].type = "compaction_completed"
        /\ \E r \in log[i].replaced : r.part = p /\ r.state = "archived" /\ r.archive \in archives
=============================================================================
