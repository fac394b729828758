------------------------ MODULE AgentLoopProperties ------------------------
(***************************************************************************)
(* What the session history and the agent loop promise.  The names of the  *)
(* properties are those of PROJECT.json and of the configurations.         *)
(***************************************************************************)
EXTENDS AgentLoop

(* The provider's view of the session: what is said, asked and owed.       *)
Protocol == INSTANCE ToolProtocol WITH
  asked <- Requested,
  owed  <- Owed(log, Len(log)),
  said  <- Cardinality({i \in DOMAIN log : log[i].role # "tool"})

Labels == {"idle", "begin", "request", "build", "inflight", "got", "exec", "execute", "record",
           "skip", "parallel", "collect", "finish", "final", "approved", "settle", "resumeSkip"}
Outcomes == {"none", "running", "completed", "waiting", "cancelled", "limit",
             "invalid_sequence", "provider_error"}

LogType     == log \in Seq(Message)
PendingType == pending = None \/ pending \in [call : Calls, skipped : SUBSET Calls]
HistoryType == runs \in [Calls -> Nat] /\ grants \subseteq Kinds
PlaceType   == pc \in Labels /\ outcome \in Outcomes
CountType   == cancelled \in BOOLEAN /\ calls \in Nat
ResponseType ==
  /\ resp \in Seq(Calls) /\ index \in Nat \ {0} /\ batchEnd \in Nat
  /\ got \in [Calls -> ResultKinds \cup {"-"}]
LoopType ==
  /\ phase \in {"main", "selfcheck"} /\ toolChoice \in {"auto", "none"}
  /\ retried \in BOOLEAN /\ verified \in BOOLEAN /\ rounds \in Nat /\ reminded \in Nat
UserType ==
  guidance \in BOOLEAN /\ mode \in Modes /\ turns \in Nat /\ crashes \in Nat

(* Every variable has its type.                                            *)
TypeOK ==
  /\ LogType /\ PendingType /\ HistoryType /\ PlaceType /\ CountType
  /\ ResponseType /\ LoopType /\ UserType

(* What ties the loop's locals to the end of the log: the inductive        *)
(* strengthening of TypeOK and NoOrphanResult.  Calls that are about to    *)
(* get a result belong to an assistant message followed by results only.   *)
Executing == {"exec", "execute", "record", "skip", "parallel", "collect"}
OpenFor(l, S) ==
  \E a \in DOMAIN l :
    /\ l[a].role = "assistant" /\ S \subseteq Elems(l[a].calls)
    /\ \A j \in (a + 1)..Len(l) : l[j].role = "tool"
Waiting  == {pending.call} \cup pending.skipped
Withheld == {c \in Calls : got[c] = "skipped"}

BatchOpen ==
  /\ pc \in Executing => OpenFor(log, Elems(resp))
  /\ pending # None => OpenFor(log, Waiting)
  /\ pc = "resumeSkip" => OpenFor(log, Withheld)
PendingPlace ==
  /\ pending # None => pc \in {"idle", "final", "approved", "settle"}
  /\ pc \in {"approved", "settle"} => pending # None
  /\ pc = "final" /\ pending # None => Waiting \subseteq Elems(resp)
IndexInBatch ==
  /\ pc \in {"execute", "record", "parallel", "collect"} => index <= Len(resp)
  /\ pc \in {"parallel", "collect"} => index <= batchEnd /\ batchEnd <= Len(resp)
ResultsInHand ==
  /\ pc = "record" => got[resp[index]] # "-"
  /\ pc = "settle" => got[pending.call] # "-"
  /\ pc = "collect" => \A i \in index..batchEnd : got[resp[i]] # "-"

-----------------------------------------------------------------------------
(* Properties of every behaviour, whatever the environment does.           *)

(* A tool result is only ever written after the assistant message that     *)
(* asked for it, with nothing but results in between: no interleaving of   *)
(* guidance, reminders, self-check prompts, interruptions, resumptions and *)
(* restarts separates a result from its batch.  (The orphan check of       *)
(* validate_tool_call_sequence, as a property of the writer.)              *)
NoOrphanResult ==
  \A i \in DOMAIN log : log[i].role = "tool" =>
    \E a \in DOMAIN log : Follows(log, a, i) /\ Elems(log[i].calls) \subseteq Elems(log[a].calls)

(* A call that has run once runs again only because the user approved it   *)
(* again: a restart restores the confirmation but never repeats the call   *)
(* by itself, even when a grant or the mode would let it through           *)
(* (session.py, restore_pending_permission_execution).                     *)
RerunNeedsApproval ==
  [][\A c \in Calls : runs[c] > 0 /\ runs'[c] # runs[c] => pc = "approved" /\ pending.call = c]_vars

(* A call that needs permission runs only if, at that moment, grants and   *)
(* policy allow it, or the user approved that very call; the mode may have *)
(* changed since the loop looked.                                          *)
RunsAreConsented ==
  \A c \in Calls : runs'[c] # runs[c] =>
    \/ Verdict(c) \in {"none", "allow"}
    \/ pc = "approved" /\ pending.call = c
RunsWithConsent == [][RunsAreConsented]_vars

-----------------------------------------------------------------------------
(* Properties of a session that is not cancelled, does not crash, meets no *)
(* denied call and needs no todo self-check.                               *)

(* Between turns the history can be sent to the provider, or it will be    *)
(* once the pending confirmation is answered.                              *)
HistoryUsable ==
  pc = "idle" =>
    IF pending = None THEN Sendable(log)
    ELSE Unbroken(log) /\ Owed(log, Len(log)) = {pending.call} \cup pending.skipped

(* The session log implements the provider's protocol, step by step.       *)
ImplementsProtocol == Protocol!Spec

(* Every turn ends.                                                        *)
TurnEnds == pc # "idle" ~> pc = "idle"
=============================================================================
