-------------------------- MODULE AgentLoopProofs --------------------------
(***************************************************************************)
(* Theorems about AgentLoop for every set of calls, every assignment of    *)
(* kinds, every environment and every bound; and, at the end, about the    *)
(* check of the message history that comes before each of its requests.    *)
(***************************************************************************)
EXTENDS AgentLoopProperties, SequenceTheorems, FiniteSetTheorems, WellFoundedInduction, TLAPS

IInv ==
  /\ TypeOK
  /\ BatchOpen
  /\ PendingPlace
  /\ IndexInBatch
  /\ ResultsInHand
  /\ NoOrphanResult

-----------------------------------------------------------------------------
(* The messages the loop writes are messages.                              *)
LEMMA MessageTypes ==
  /\ \A k \in UserKinds : User(k) \in Message
  /\ \A cs \in Seq(Calls) : Assistant(cs) \in Message
  /\ \A c \in Calls, k \in ResultKinds : Result(c, k) \in Message
BY DEF Message, User, Assistant, Result

(* The messages have the role their constructor names.                     *)
LEMMA MessageRoles ==
  /\ \A k : User(k).role = "user"
  /\ \A cs : Assistant(cs).role = "assistant" /\ Assistant(cs).calls = cs
  /\ \A c, k : Result(c, k).role = "tool" /\ Elems(Result(c, k).calls) = {c}
<1>1. \A c : Elems(<<c>>) = {c}
  BY DEF Elems
<1> QED BY <1>1 DEF User, Assistant, Result

(* Appending a message that is no result orphans nothing.                  *)
LEMMA AppendOther ==
  ASSUME TypeOK, NoOrphanResult, NEW m \in Message, m.role # "tool", log' = Append(log, m)
  PROVE  LogType' /\ NoOrphanResult'
<1>1. /\ log' \in Seq(Message) /\ Len(log') = Len(log) + 1
      /\ \A i \in DOMAIN log : log'[i] = log[i]
      /\ log'[Len(log) + 1] = m /\ DOMAIN log' = 1..(Len(log) + 1) /\ DOMAIN log = 1..Len(log)
      /\ Len(log) \in Nat
  BY DEF TypeOK, LogType
<1>2. SUFFICES ASSUME NEW i \in DOMAIN log', log'[i].role = "tool"
               PROVE  \E a \in DOMAIN log' : Follows(log', a, i) /\ Elems(log'[i].calls) \subseteq Elems(log'[a].calls)
  BY <1>1 DEF LogType, NoOrphanResult
<1>3. i \in DOMAIN log /\ log[i].role = "tool"
  BY <1>1, <1>2
<1>4. PICK a \in DOMAIN log : Follows(log, a, i) /\ Elems(log[i].calls) \subseteq Elems(log[a].calls)
  BY <1>3 DEF NoOrphanResult
<1>5. Follows(log', a, i)
  BY <1>1, <1>3, <1>4 DEF Follows
<1> QED BY <1>1, <1>3, <1>4, <1>5 DEF LogType

(* Appending a result of an open batch keeps the batch open and orphans    *)
(* nothing.                                                                *)
LEMMA AppendResult ==
  ASSUME TypeOK, NoOrphanResult, NEW c \in Calls, NEW k \in ResultKinds,
         log' = Append(log, Result(c, k)), NEW S, c \in S, OpenFor(log, S)
  PROVE  LogType' /\ NoOrphanResult' /\ OpenFor(log', S)
<1> DEFINE m == Result(c, k)
<1>0. m \in Message /\ m.role = "tool" /\ Elems(m.calls) = {c}
  BY MessageTypes, MessageRoles
<1>1. /\ log' \in Seq(Message) /\ Len(log') = Len(log) + 1
      /\ \A i \in DOMAIN log : log'[i] = log[i]
      /\ log'[Len(log) + 1] = m /\ DOMAIN log' = 1..(Len(log) + 1) /\ DOMAIN log = 1..Len(log)
      /\ Len(log) \in Nat
  BY <1>0 DEF TypeOK, LogType
<1>2. PICK b \in DOMAIN log : /\ log[b].role = "assistant" /\ S \subseteq Elems(log[b].calls)
                              /\ \A j \in (b + 1)..Len(log) : log[j].role = "tool"
  BY DEF OpenFor
<1>3. /\ log'[b].role = "assistant" /\ S \subseteq Elems(log'[b].calls)
      /\ \A j \in (b + 1)..Len(log') : log'[j].role = "tool"
  BY <1>0, <1>1, <1>2
<1>4. ASSUME NEW i \in DOMAIN log', log'[i].role = "tool"
      PROVE  \E a \in DOMAIN log' : Follows(log', a, i) /\ Elems(log'[i].calls) \subseteq Elems(log'[a].calls)
  <2>1. CASE i \in DOMAIN log
    <3>1. PICK a \in DOMAIN log : Follows(log, a, i) /\ Elems(log[i].calls) \subseteq Elems(log[a].calls)
      BY <1>1, <1>4, <2>1 DEF NoOrphanResult
    <3>2. Follows(log', a, i)
      BY <1>1, <2>1, <3>1 DEF Follows
    <3> QED BY <1>1, <2>1, <3>1, <3>2
  <2>2. CASE i = Len(log) + 1
    <3>1. Follows(log', b, i)
      BY <1>1, <1>3, <2>2 DEF Follows
    <3>2. Elems(log'[i].calls) \subseteq Elems(log'[b].calls)
      BY <1>0, <1>1, <1>3, <2>2
    <3> QED BY <1>1, <3>1, <3>2
  <2>3. i \in DOMAIN log \/ i = Len(log) + 1
    BY <1>1, <1>4
  <2> QED BY <2>1, <2>2, <2>3
<1>5. NoOrphanResult'
  BY <1>4 DEF NoOrphanResult
<1>6. b \in DOMAIN log'
  BY <1>1
<1> QED BY <1>1, <1>3, <1>5, <1>6 DEF LogType, OpenFor

(* An assistant message opens its batch.                                   *)
LEMMA AppendAssistant ==
  ASSUME TypeOK, NEW cs \in Seq(Calls), log' = Append(log, Assistant(cs))
  PROVE  OpenFor(log', Elems(cs))
<1>1. Assistant(cs) \in Message /\ Assistant(cs).role = "assistant" /\ Assistant(cs).calls = cs
  BY MessageTypes, MessageRoles
<1>2. /\ Len(log') = Len(log) + 1 /\ log'[Len(log) + 1] = Assistant(cs)
      /\ DOMAIN log' = 1..(Len(log) + 1) /\ Len(log) \in Nat
  BY <1>1 DEF TypeOK, LogType
<1> QED BY <1>1, <1>2 DEF OpenFor

(* A batch is open for any part of its calls.                              *)
LEMMA OpenMonotone ==
  ASSUME NEW l, NEW S, NEW T, T \subseteq S, OpenFor(l, S)
  PROVE  OpenFor(l, T)
BY DEF OpenFor

(* What does not touch the log, the response at hand or the confirmation   *)
(* closes nothing.                                                         *)
LEMMA LogSame ==
  ASSUME LogType, NoOrphanResult, UNCHANGED log
  PROVE  LogType' /\ NoOrphanResult'
BY DEF LogType, NoOrphanResult

LEMMA OpenSame ==
  ASSUME BatchOpen, UNCHANGED log,
         pc' \in Executing => pc \in Executing /\ resp' = resp,
         pending' # None => pending' = pending,
         pc' = "resumeSkip" => pc = "resumeSkip" /\ got' = got
  PROVE  BatchOpen'
BY DEF BatchOpen, Waiting, Withheld

-----------------------------------------------------------------------------
(* Types of the loop's locals, by the way an action leaves them.           *)
LEMMA LeaveTypes ==
  ASSUME NEW how \in Outcomes, Leave(how)
  PROVE  ResponseType' /\ LoopType' /\ PlaceType'
<1>1. ResponseType'
  BY DEF Leave, ResponseType, NoResults, ResultKinds
<1>2. LoopType'
  BY DEF Leave, LoopType
<1>3. PlaceType'
  BY DEF Leave, PlaceType, Labels
<1> QED BY <1>1, <1>2, <1>3

LEMMA KeepTypes ==
  ASSUME TypeOK, UNCHANGED locals
  PROVE  ResponseType' /\ LoopType'
BY DEF TypeOK, ResponseType, LoopType, locals

LEMMA RaiseTypes ==
  ASSUME TypeOK, NEW what \in Outcomes, Raise(what)
  PROVE  ResponseType' /\ LoopType' /\ PlaceType'
<1>1. CASE phase = "selfcheck" /\ Leave(what)
  BY <1>1, LeaveTypes
<1>2. CASE /\ phase = "main" /\ resp' = <<>> /\ got' = NoResults /\ Goto("finish")
           /\ UNCHANGED <<phase, index, batchEnd, toolChoice, retried, rounds, verified, reminded>>
  <2>1. ResponseType'
    BY <1>2 DEF TypeOK, ResponseType, NoResults
  <2>2. LoopType'
    BY <1>2 DEF TypeOK, LoopType
  <2>3. PlaceType'
    BY <1>2 DEF TypeOK, PlaceType, Labels, Goto
  <2> QED BY <2>1, <2>2, <2>3
<1> QED BY <1>1, <1>2 DEF Raise

LEMMA PauseTypes ==
  ASSUME TypeOK, Pause
  PROVE  ResponseType' /\ LoopType' /\ PlaceType'
BY LeaveTypes, KeepTypes DEF Pause, Outcomes, Goto, PlaceType, Labels, TypeOK

LEMMA GotoTypes ==
  ASSUME TypeOK, NEW label \in Labels, Goto(label)
  PROVE  PlaceType'
BY DEF TypeOK, PlaceType, Goto

(* The number of results since the last todo call is a number.             *)
LEMMA StaleNat == ASSUME LogType PROVE StaleResults \in Nat
<1> DEFINE stale == {i \in DOMAIN log : ToolAt(i) /\ \A j \in i..Len(log) : ~TodoAt(j)}
<1>1. IsFiniteSet(1..Len(log))
  BY FS_Interval DEF LogType
<1>2. stale \subseteq 1..Len(log)
  BY DEF LogType
<1>3. IsFiniteSet(stale)
  BY <1>1, <1>2, FS_Subset
<1> QED BY <1>3, FS_CardinalityType DEF StaleResults

(* A provider's batch is a sequence of calls.                              *)
LEMMA BatchTypes == FreshBatches \subseteq Seq(Calls)
<1>1. SUFFICES ASSUME NEW cs \in FreshBatches PROVE cs \in Seq(Calls)
  OBVIOUS
<1>2. PICK n \in 1..MaxBatch : cs \in [1..n -> Calls \ Requested]
  BY DEF FreshBatches
<1>3. n \in Nat
  BY <1>2, BoundsAssumption
<1> QED BY <1>2, <1>3

(* The call at hand is a call.                                             *)
LEMMA HeadIsCall ==
  ASSUME TypeOK, index <= Len(resp)
  PROVE  Head1 \in Calls /\ Head1 \in Elems(resp)
BY DEF TypeOK, ResponseType, Head1, Elems

(* Every step keeps the types of the loop's locals.                       *)
LEMMA LocalsStep ==
  ASSUME IInv, [Next]_vars
  PROVE  ResponseType' /\ LoopType' /\ PlaceType'
<1> USE DEF IInv
<1>1. CASE RunUserTurn
  BY <1>1, LeaveTypes, RaiseTypes, KeepTypes, PauseTypes, GotoTypes
  DEF RunUserTurn, Outcomes, Goto, Labels, TypeOK, PlaceType, ResponseType, LoopType, EndLoop
<1>2. CASE RunWhilePending
  BY <1>2, LeaveTypes, RaiseTypes, KeepTypes, PauseTypes, GotoTypes
  DEF RunWhilePending, Outcomes, Goto, Labels, TypeOK, PlaceType, ResponseType, LoopType, EndLoop
<1>3. CASE Resume
  <2>1. ResponseType'
    BY <1>3 DEF Resume, TypeOK, ResponseType, ResultKinds, Head1
  <2>2. LoopType'
    BY <1>3, KeepTypes DEF Resume, TypeOK, LoopType, turn
  <2>3. PlaceType'
    BY <1>3 DEF Resume, Labels, Outcomes, PlaceType
  <2> QED BY <2>1, <2>2, <2>3
<1>4. CASE Begin
  BY <1>4, LeaveTypes, RaiseTypes, KeepTypes, PauseTypes, GotoTypes
  DEF Begin, Outcomes, Goto, Labels, TypeOK, PlaceType, ResponseType, LoopType, EndLoop
<1>5. CASE DrainGuidance
  BY <1>5, LeaveTypes, RaiseTypes, KeepTypes, PauseTypes, GotoTypes
  DEF DrainGuidance, Outcomes, Goto, Labels, TypeOK, PlaceType, ResponseType, LoopType, EndLoop
<1>6. CASE BuildRequest
  BY <1>6, LeaveTypes, RaiseTypes, KeepTypes, PauseTypes, GotoTypes
  DEF BuildRequest, Outcomes, Goto, Labels, TypeOK, PlaceType, ResponseType, LoopType, EndLoop
<1>7. CASE Answer
  <2>1. resp' \in Seq(Calls)
    <3>1. resp' = <<>> \/ resp' \in FreshBatches
      BY <1>7 DEF Answer
    <3> QED BY <3>1, BatchTypes, EmptySeq
  <2>2. ResponseType' /\ LoopType'
    BY <1>7, <2>1 DEF Answer, TypeOK, ResponseType, LoopType
  <2>3. PlaceType'
    BY <1>7, GotoTypes DEF Answer, Labels
  <2> QED BY <2>2, <2>3
<1>8. CASE PromptTooLong
  BY <1>8, LeaveTypes, RaiseTypes, KeepTypes, PauseTypes, GotoTypes
  DEF PromptTooLong, Outcomes, Goto, Labels, TypeOK, PlaceType, ResponseType, LoopType, EndLoop
<1>9. CASE ProviderFails
  BY <1>9, LeaveTypes, RaiseTypes, KeepTypes, PauseTypes, GotoTypes
  DEF ProviderFails, Outcomes, Goto, Labels, TypeOK, PlaceType, ResponseType, LoopType, EndLoop
<1>10. CASE TakeResponse
  <2>1. CASE resp = <<>> /\ EndLoop /\ UNCHANGED locals
    BY <2>1, KeepTypes, GotoTypes DEF EndLoop, Labels
  <2>2. CASE Raise("cancelled")
    BY <2>2, RaiseTypes DEF Outcomes
  <2>3. CASE /\ resp' = <<>> /\ EndLoop
             /\ UNCHANGED <<phase, index, batchEnd, toolChoice, retried, rounds, verified, reminded>>
             /\ UNCHANGED got
    BY <2>3, GotoTypes DEF EndLoop, Labels, TypeOK, ResponseType, LoopType
  <2>4. CASE /\ Goto("exec") /\ index' = 1 /\ verified' = FALSE
             /\ UNCHANGED <<phase, resp, batchEnd, got, toolChoice, retried, rounds, reminded>>
    <3>1. ResponseType'
      BY <2>4 DEF TypeOK, ResponseType
    <3>2. LoopType' /\ PlaceType'
      BY <2>4, GotoTypes DEF Labels, TypeOK, LoopType
    <3> QED BY <3>1, <3>2
  <2> QED BY <1>10, <2>1, <2>2, <2>3, <2>4 DEF TakeResponse
<1>11. CASE EndOfBatch
  <2>1. ResponseType'
    <3>1. resp' = resp \/ resp' = <<>>
      BY <1>11 DEF EndOfBatch
    <3>2. resp' \in Seq(Calls)
      BY <3>1, EmptySeq DEF TypeOK, ResponseType
    <3> QED BY <1>11, <3>2 DEF EndOfBatch, TypeOK, ResponseType
  <2>2. LoopType'
    <3>1. reminded' = reminded \/ reminded' = StaleResults
      BY <1>11 DEF EndOfBatch
    <3>2. reminded' \in Nat
      BY <3>1, StaleNat DEF TypeOK, LoopType
    <3>3. rounds' \in Nat /\ toolChoice' \in {"auto", "none"}
      BY <1>11 DEF EndOfBatch, TypeOK, LoopType
    <3> QED BY <1>11, <3>2, <3>3 DEF EndOfBatch, TypeOK, LoopType
  <2>3. PlaceType'
    BY <1>11, GotoTypes DEF EndOfBatch, EndLoop, Labels
  <2> QED BY <2>1, <2>2, <2>3
<1>12. CASE Deny
  BY <1>12, KeepTypes DEF Deny, turn, TypeOK, PlaceType
<1>13. CASE Ask
  BY <1>13, LeaveTypes, RaiseTypes, KeepTypes, PauseTypes, GotoTypes
  DEF Ask, Outcomes, Goto, Labels, TypeOK, PlaceType, ResponseType, LoopType, EndLoop
<1>14. CASE Start
  BY <1>14, LeaveTypes, RaiseTypes, KeepTypes, PauseTypes, GotoTypes
  DEF Start, Outcomes, Goto, Labels, TypeOK, PlaceType, ResponseType, LoopType, EndLoop
<1>15. CASE Execute
  <2>1. ResponseType'
    BY <1>15 DEF Execute, Perform, ResultOf, TypeOK, ResponseType, ResultKinds, Head1
  <2>2. LoopType'
    BY <1>15, KeepTypes DEF Execute, Perform, ResultOf, TypeOK, LoopType, turn
  <2>3. PlaceType'
    BY <1>15, GotoTypes DEF Execute, Perform, ResultOf, Labels, TypeOK, PlaceType, turn
  <2> QED BY <2>1, <2>2, <2>3
<1>16. CASE Record
  <2>1. CASE Raise("cancelled")
    BY <2>1, RaiseTypes DEF Outcomes
  <2>2. CASE ~Raise("cancelled")
    <3>1. /\ got' = NoResults /\ index' = index + 1
          /\ verified' \in BOOLEAN /\ Goto(IF Pauses(Head1) THEN "skip" ELSE "exec")
          /\ UNCHANGED <<phase, resp, batchEnd, toolChoice, retried, rounds, reminded>>
      BY <1>16, <2>2 DEF Record, TypeOK, LoopType
    <3>2. ResponseType'
      BY <3>1 DEF NoResults, TypeOK, ResponseType
    <3>3. LoopType'
      BY <3>1 DEF TypeOK, LoopType
    <3>4. PlaceType'
      BY <3>1, GotoTypes DEF Labels
    <3> QED BY <3>2, <3>3, <3>4
  <2> QED BY <2>1, <2>2
<1>17. CASE SkipRest
  BY <1>17, LeaveTypes, RaiseTypes, KeepTypes, PauseTypes, GotoTypes
  DEF SkipRest, Outcomes, Goto, Labels, TypeOK, PlaceType, ResponseType, LoopType, EndLoop
<1>18. CASE ParallelRun
  <2>1. ResponseType'
    BY <1>18 DEF ParallelRun, Perform, ResultOf, TypeOK, ResponseType, ResultKinds, Head1
  <2>2. LoopType'
    BY <1>18, KeepTypes DEF ParallelRun, Perform, ResultOf, TypeOK, LoopType, turn
  <2>3. PlaceType'
    BY <1>18, GotoTypes DEF ParallelRun, Perform, ResultOf, Labels, TypeOK, PlaceType, turn
  <2> QED BY <2>1, <2>2, <2>3
<1>19. CASE ParallelJoin
  BY <1>19, LeaveTypes, RaiseTypes, KeepTypes, PauseTypes, GotoTypes
  DEF ParallelJoin, Outcomes, Goto, Labels, TypeOK, PlaceType, ResponseType, LoopType, EndLoop
<1>20. CASE Collect
  <2>1. got' = got \/ got' = NoResults
    BY <1>20 DEF Collect
  <2>2. ResponseType'
    BY <1>20, <2>1 DEF Collect, NoResults, TypeOK, ResponseType
  <2>3. LoopType' /\ PlaceType'
    BY <1>20, GotoTypes DEF Collect, Labels, TypeOK, LoopType
  <2> QED BY <2>2, <2>3
<1>21. CASE Finish
  <2>1. CASE Leave("completed")
    BY <2>1, LeaveTypes DEF Outcomes
  <2>2. CASE Goto("request") /\ phase' = "selfcheck" /\ rounds' = 0 /\ toolChoice' = "auto" /\ retried' = FALSE
             /\ UNCHANGED <<resp, index, batchEnd, got, verified, reminded>>
    BY <2>2, GotoTypes DEF Labels, TypeOK, ResponseType, LoopType
  <2>3. CASE Goto("final") /\ UNCHANGED locals
    BY <2>3, KeepTypes, GotoTypes DEF Labels
  <2> QED BY <1>21, <2>1, <2>2, <2>3 DEF Finish
<1>22. CASE Final
  BY <1>22, LeaveTypes, RaiseTypes, KeepTypes, PauseTypes, GotoTypes
  DEF Final, Outcomes, Goto, Labels, TypeOK, PlaceType, ResponseType, LoopType, EndLoop
<1>23. CASE RunApproved
  <2>1. CASE Leave("cancelled")
    BY <2>1, LeaveTypes DEF Outcomes
  <2>2. CASE ~Leave("cancelled")
    <3>1. ResponseType'
      BY <1>23, <2>2 DEF RunApproved, TypeOK, ResponseType, ResultKinds
    <3>2. LoopType' /\ PlaceType'
      BY <1>23, <2>2, GotoTypes DEF RunApproved, Labels, TypeOK, LoopType
    <3> QED BY <3>1, <3>2
  <2> QED BY <2>1, <2>2
<1>24. CASE Settle
  <2>1. ResponseType'
    BY <1>24 DEF Settle, Withhold, TypeOK, ResponseType, ResultKinds, Head1
  <2>2. LoopType'
    BY <1>24, KeepTypes DEF Settle, Withhold, TypeOK, LoopType, turn
  <2>3. PlaceType'
    BY <1>24, GotoTypes DEF Settle, Withhold, Labels, TypeOK, PlaceType, turn
  <2> QED BY <2>1, <2>2, <2>3
<1>25. CASE ResumeSkip
  BY <1>25, LeaveTypes, RaiseTypes, KeepTypes, PauseTypes, GotoTypes
  DEF ResumeSkip, Outcomes, Goto, Labels, TypeOK, PlaceType, ResponseType, LoopType, EndLoop
<1>26. CASE Cancel
  BY <1>26, LeaveTypes, RaiseTypes, KeepTypes, PauseTypes, GotoTypes
  DEF Cancel, Outcomes, Goto, Labels, TypeOK, PlaceType, ResponseType, LoopType, EndLoop
<1>27. CASE AddGuidance
  BY <1>27, KeepTypes DEF AddGuidance, turn, TypeOK, PlaceType
<1>28. CASE SetMode
  BY <1>28, KeepTypes DEF SetMode, turn, TypeOK, PlaceType
<1>29. CASE CrashAndRestart
  BY <1>29, LeaveTypes, RaiseTypes, KeepTypes, PauseTypes, GotoTypes
  DEF CrashAndRestart, Outcomes, Goto, Labels, TypeOK, PlaceType, ResponseType, LoopType, EndLoop
<1>30. CASE UNCHANGED vars
  BY <1>30, KeepTypes DEF vars, turn, TypeOK, PlaceType
<1> QED BY <1>1, <1>2, <1>3, <1>4, <1>5, <1>6, <1>7, <1>8, <1>9, <1>10, <1>11, <1>12, <1>13, <1>14, <1>15, <1>16, <1>17, <1>18, <1>19, <1>20, <1>21, <1>22, <1>23, <1>24, <1>25, <1>26, <1>27, <1>28, <1>29, <1>30 DEF Next, LoopStep, UserStep

(* A confirmation restored from the log names calls of an open batch.      *)
LEMMA RestoredOpen ==
  ASSUME TypeOK, NEW p \in Restorable
  PROVE  /\ p \in [call : Calls, skipped : SUBSET Calls]
         /\ OpenFor(log, {p.call} \cup p.skipped)
<1>1. PICK a \in OpenBatches : \E k \in DOMAIN log[a].calls :
        p = [call    |-> log[a].calls[k],
             skipped |-> Elems(log[a].calls) \ (Answered(log, a) \cup {log[a].calls[k]})]
  BY DEF Restorable
<1>2. PICK k \in DOMAIN log[a].calls :
        p = [call    |-> log[a].calls[k],
             skipped |-> Elems(log[a].calls) \ (Answered(log, a) \cup {log[a].calls[k]})]
  BY <1>1
<1>3. /\ a \in DOMAIN log /\ log[a].role = "assistant"
      /\ \A j \in (a + 1)..Len(log) : log[j].role = "tool"
  BY DEF OpenBatches, LastAssistant, ToolAt
<1>4. log[a].calls \in Seq(Calls)
  <2>1. log[a] \in Message
    BY <1>3 DEF TypeOK, LogType
  <2>2. log[a].calls = <<>> \/ log[a].calls \in Seq(Calls)
    BY <2>1 DEF Message
  <2> QED BY <2>2, EmptySeq
<1>5. Elems(log[a].calls) \subseteq Calls /\ log[a].calls[k] \in Elems(log[a].calls)
  BY <1>2, <1>4 DEF Elems
<1>6. {p.call} \cup p.skipped \subseteq Elems(log[a].calls)
  BY <1>2, <1>5
<1>7. OpenFor(log, {p.call} \cup p.skipped)
  BY <1>3, <1>6 DEF OpenFor
<1> QED BY <1>2, <1>5, <1>7

(* Every step keeps the types of everything but the locals and the log.    *)
LEMMA OthersStep ==
  ASSUME IInv, [Next]_vars
  PROVE  PendingType' /\ HistoryType' /\ CountType' /\ UserType'
<1> USE DEF IInv
<1>1. CASE RunUserTurn
  <2>1. PendingType' /\ HistoryType'
    BY <1>1 DEF RunUserTurn, TypeOK, PendingType, HistoryType
  <2>2. CountType'
    BY <1>1 DEF RunUserTurn, CountType
  <2>3. UserType'
    BY <1>1 DEF RunUserTurn, TypeOK, UserType
  <2> QED BY <2>1, <2>2, <2>3
<1>2. CASE RunWhilePending
  BY <1>2, ModesAssumption, KindAssumption
  DEF RunWhilePending, TypeOK, PendingType, HistoryType, CountType, UserType, ResponseType, locals, turn, user, AtCall, Head1
<1>3. CASE Resume
  <2>1. HistoryType'
    <3>1. pending.call \in Calls
      BY <1>3 DEF Resume, TypeOK, PendingType
    <3>2. Kind[pending.call] \in Kinds
      BY <3>1, KindAssumption
    <3> QED BY <1>3, <3>2 DEF Resume, TypeOK, HistoryType
  <2>2. PendingType' /\ CountType' /\ UserType'
    BY <1>3 DEF Resume, user, TypeOK, PendingType, CountType, UserType
  <2> QED BY <2>1, <2>2
<1>4. CASE Begin
  BY <1>4, ModesAssumption, KindAssumption
  DEF Begin, TypeOK, PendingType, HistoryType, CountType, UserType, ResponseType, locals, turn, user, AtCall, Head1
<1>5. CASE DrainGuidance
  BY <1>5, ModesAssumption, KindAssumption
  DEF DrainGuidance, TypeOK, PendingType, HistoryType, CountType, UserType, ResponseType, locals, turn, user, AtCall, Head1
<1>6. CASE BuildRequest
  BY <1>6, ModesAssumption, KindAssumption
  DEF BuildRequest, TypeOK, PendingType, HistoryType, CountType, UserType, ResponseType, locals, turn, user, AtCall, Head1
<1>7. CASE Answer
  BY <1>7, ModesAssumption, KindAssumption
  DEF Answer, TypeOK, PendingType, HistoryType, CountType, UserType, ResponseType, locals, turn, user, AtCall, Head1
<1>8. CASE PromptTooLong
  BY <1>8, ModesAssumption, KindAssumption
  DEF PromptTooLong, TypeOK, PendingType, HistoryType, CountType, UserType, ResponseType, locals, turn, user, AtCall, Head1
<1>9. CASE ProviderFails
  BY <1>9, ModesAssumption, KindAssumption
  DEF ProviderFails, TypeOK, PendingType, HistoryType, CountType, UserType, ResponseType, locals, turn, user, AtCall, Head1
<1>10. CASE TakeResponse
  BY <1>10, ModesAssumption, KindAssumption
  DEF TakeResponse, TypeOK, PendingType, HistoryType, CountType, UserType, ResponseType, locals, turn, user, AtCall, Head1
<1>11. CASE EndOfBatch
  BY <1>11, ModesAssumption, KindAssumption
  DEF EndOfBatch, TypeOK, PendingType, HistoryType, CountType, UserType, ResponseType, locals, turn, user, AtCall, Head1
<1>12. CASE Deny
  BY <1>12, ModesAssumption, KindAssumption
  DEF Deny, TypeOK, PendingType, HistoryType, CountType, UserType, ResponseType, locals, turn, user, AtCall, Head1
<1>13. CASE Ask
  BY <1>13, ModesAssumption, KindAssumption
  DEF Ask, TypeOK, PendingType, HistoryType, CountType, UserType, ResponseType, locals, turn, user, AtCall, Head1
<1>14. CASE Start
  BY <1>14, ModesAssumption, KindAssumption
  DEF Start, TypeOK, PendingType, HistoryType, CountType, UserType, ResponseType, locals, turn, user, AtCall, Head1
<1>15. CASE Execute
  <2>1. PICK c \in Calls : runs' = runs \/ runs' = [runs EXCEPT ![c] = @ + 1]
    BY <1>15, HeadIsCall DEF Execute, Perform, IndexInBatch, TypeOK, ResponseType
  <2>2. HistoryType'
    BY <1>15, <2>1 DEF Execute, TypeOK, HistoryType
  <2>3. PendingType' /\ CountType' /\ UserType'
    BY <1>15 DEF Execute, turn, user, TypeOK, PendingType, CountType, UserType
  <2> QED BY <2>2, <2>3
<1>16. CASE Record
  BY <1>16, ModesAssumption, KindAssumption
  DEF Record, TypeOK, PendingType, HistoryType, CountType, UserType, ResponseType, locals, turn, user, AtCall, Head1
<1>17. CASE SkipRest
  BY <1>17, ModesAssumption, KindAssumption
  DEF SkipRest, TypeOK, PendingType, HistoryType, CountType, UserType, ResponseType, locals, turn, user, AtCall, Head1
<1>18. CASE ParallelRun
  <2>1. PICK c \in Calls : runs' = runs \/ runs' = [runs EXCEPT ![c] = @ + 1]
    <3>1. PICK i \in index..batchEnd : got[resp[i]] = "-" /\ Perform(resp[i])
      BY <1>18 DEF ParallelRun
    <3>2. resp[i] \in Calls
      BY <1>18 DEF ParallelRun, IndexInBatch, TypeOK, ResponseType
    <3> QED BY <3>1, <3>2 DEF Perform
  <2>2. HistoryType'
    BY <1>18, <2>1 DEF ParallelRun, TypeOK, HistoryType
  <2>3. PendingType' /\ CountType' /\ UserType'
    BY <1>18 DEF ParallelRun, turn, user, TypeOK, PendingType, CountType, UserType
  <2> QED BY <2>2, <2>3
<1>19. CASE ParallelJoin
  BY <1>19, ModesAssumption, KindAssumption
  DEF ParallelJoin, TypeOK, PendingType, HistoryType, CountType, UserType, ResponseType, locals, turn, user, AtCall, Head1
<1>20. CASE Collect
  BY <1>20, ModesAssumption, KindAssumption
  DEF Collect, TypeOK, PendingType, HistoryType, CountType, UserType, ResponseType, locals, turn, user, AtCall, Head1
<1>21. CASE Finish
  BY <1>21, ModesAssumption, KindAssumption
  DEF Finish, TypeOK, PendingType, HistoryType, CountType, UserType, ResponseType, locals, turn, user, AtCall, Head1
<1>22. CASE Final
  BY <1>22, ModesAssumption, KindAssumption
  DEF Final, TypeOK, PendingType, HistoryType, CountType, UserType, ResponseType, locals, turn, user, AtCall, Head1
<1>23. CASE RunApproved
  <2>1. HistoryType'
    BY <1>23 DEF RunApproved, TypeOK, HistoryType
  <2>2. PendingType' /\ CountType' /\ UserType'
    BY <1>23 DEF RunApproved, user, TypeOK, PendingType, CountType, UserType
  <2> QED BY <2>1, <2>2
<1>24. CASE Settle
  BY <1>24, ModesAssumption, KindAssumption
  DEF Settle, TypeOK, PendingType, HistoryType, CountType, UserType, ResponseType, locals, turn, user, AtCall, Head1
<1>25. CASE ResumeSkip
  BY <1>25, ModesAssumption, KindAssumption
  DEF ResumeSkip, TypeOK, PendingType, HistoryType, CountType, UserType, ResponseType, locals, turn, user, AtCall, Head1
<1>26. CASE Cancel
  BY <1>26, ModesAssumption, KindAssumption
  DEF Cancel, TypeOK, PendingType, HistoryType, CountType, UserType, ResponseType, locals, turn, user, AtCall, Head1
<1>27. CASE AddGuidance
  BY <1>27, ModesAssumption, KindAssumption
  DEF AddGuidance, TypeOK, PendingType, HistoryType, CountType, UserType, ResponseType, locals, turn, user, AtCall, Head1
<1>28. CASE SetMode
  BY <1>28, ModesAssumption, KindAssumption
  DEF SetMode, TypeOK, PendingType, HistoryType, CountType, UserType, ResponseType, locals, turn, user, AtCall, Head1
<1>29. CASE CrashAndRestart
  <2>1. PendingType'
    <3>1. pending' = None \/ pending' \in Restorable
      BY <1>29 DEF CrashAndRestart, Restored
    <3> QED BY <3>1, RestoredOpen DEF PendingType
  <2>2. HistoryType' /\ CountType'
    BY <1>29 DEF CrashAndRestart, TypeOK, HistoryType, CountType
  <2>3. mode' \in Modes
    BY <1>29, ModesAssumption DEF CrashAndRestart
  <2>4. guidance' \in BOOLEAN
    BY <1>29 DEF CrashAndRestart
  <2>5. turns' \in Nat /\ crashes' \in Nat
    BY <1>29 DEF CrashAndRestart, TypeOK, UserType
  <2> QED BY <2>1, <2>2, <2>3, <2>4, <2>5 DEF UserType
<1>30. CASE UNCHANGED vars
  BY <1>30 DEF vars, locals, turn, user, TypeOK, PendingType, HistoryType, CountType, UserType
<1> QED BY <1>1, <1>2, <1>3, <1>4, <1>5, <1>6, <1>7, <1>8, <1>9, <1>10, <1>11, <1>12, <1>13, <1>14, <1>15, <1>16, <1>17, <1>18, <1>19, <1>20, <1>21, <1>22, <1>23, <1>24, <1>25, <1>26, <1>27, <1>28, <1>29, <1>30 DEF Next, LoopStep, UserStep

(* Every step keeps what ties the locals to the place in the loop.         *)
LEMMA PlaceStep ==
  ASSUME IInv, [Next]_vars
  PROVE  PendingPlace' /\ IndexInBatch' /\ ResultsInHand'
<1> USE DEF IInv
<1>1. CASE RunUserTurn
  BY <1>1 DEF RunUserTurn, Goto, locals, turn, user, Waiting,
  TypeOK, PendingType, ResponseType, PendingPlace, IndexInBatch, ResultsInHand
<1>2. CASE RunWhilePending
  BY <1>2 DEF RunWhilePending, Goto, locals, turn, user, Waiting,
  TypeOK, PendingType, ResponseType, PendingPlace, IndexInBatch, ResultsInHand
<1>3. CASE Resume
  BY <1>3 DEF Resume, Goto, locals, turn, user, Waiting,
  TypeOK, PendingType, ResponseType, PendingPlace, IndexInBatch, ResultsInHand
<1>4. CASE Begin
  BY <1>4 DEF Begin, Leave, Goto, locals, turn, user, Waiting,
  TypeOK, PendingType, ResponseType, PendingPlace, IndexInBatch, ResultsInHand
<1>5. CASE DrainGuidance
  BY <1>5 DEF DrainGuidance, Raise, Leave, Goto, locals, turn, user, Waiting,
  TypeOK, PendingType, ResponseType, PendingPlace, IndexInBatch, ResultsInHand
<1>6. CASE BuildRequest
  BY <1>6 DEF BuildRequest, Raise, Leave, Goto, locals, turn, user, Waiting,
  TypeOK, PendingType, ResponseType, PendingPlace, IndexInBatch, ResultsInHand
<1>7. CASE Answer
  BY <1>7 DEF Answer, Goto, locals, turn, user, Waiting,
  TypeOK, PendingType, ResponseType, PendingPlace, IndexInBatch, ResultsInHand
<1>8. CASE PromptTooLong
  BY <1>8 DEF PromptTooLong, Leave, Goto, locals, turn, user, Waiting,
  TypeOK, PendingType, ResponseType, PendingPlace, IndexInBatch, ResultsInHand
<1>9. CASE ProviderFails
  BY <1>9 DEF ProviderFails, Raise, Leave, Goto, locals, turn, user, Waiting,
  TypeOK, PendingType, ResponseType, PendingPlace, IndexInBatch, ResultsInHand
<1>10. CASE TakeResponse
  BY <1>10 DEF TakeResponse, Raise, Leave, EndLoop, Goto, locals, turn, user, Waiting,
  TypeOK, PendingType, ResponseType, PendingPlace, IndexInBatch, ResultsInHand
<1>11. CASE EndOfBatch
  BY <1>11 DEF EndOfBatch, EndLoop, Goto, locals, turn, user, Waiting,
  TypeOK, PendingType, ResponseType, PendingPlace, IndexInBatch, ResultsInHand
<1>12. CASE Deny
  BY <1>12 DEF Deny, AtCall, Head1, Goto, locals, turn, user, Waiting,
  TypeOK, PendingType, ResponseType, PendingPlace, IndexInBatch, ResultsInHand
<1>13. CASE Ask
  <2>1. Waiting' \subseteq Elems(resp)
    BY <1>13 DEF Ask, AtCall, Head1, Waiting, TypeOK, ResponseType, Elems
  <2>2. pc' \in {"idle", "final"} /\ (pc' = "final" => resp' = resp)
    BY <1>13 DEF Ask, Pause, Leave, Goto, locals
  <2> QED BY <2>1, <2>2 DEF PendingPlace, IndexInBatch, ResultsInHand
<1>14. CASE Start
  BY <1>14 DEF Start, Raise, Leave, AtCall, Head1, Goto, locals, turn, user, Waiting,
  TypeOK, PendingType, ResponseType, PendingPlace, IndexInBatch, ResultsInHand
<1>15. CASE Execute
  BY <1>15 DEF Execute, Head1, Perform, ResultOf, ResultKinds, Goto, locals, turn, user, Waiting,
  TypeOK, PendingType, ResponseType, PendingPlace, IndexInBatch, ResultsInHand
<1>16. CASE Record
  BY <1>16 DEF Record, Raise, Leave, Head1, Goto, locals, turn, user, Waiting,
  TypeOK, PendingType, ResponseType, PendingPlace, IndexInBatch, ResultsInHand
<1>17. CASE SkipRest
  BY <1>17 DEF SkipRest, Leave, Pause, Head1, Goto, locals, turn, user, Waiting,
  TypeOK, PendingType, ResponseType, PendingPlace, IndexInBatch, ResultsInHand
<1>18. CASE ParallelRun
  BY <1>18 DEF ParallelRun, Perform, ResultOf, ResultKinds, Goto, locals, turn, user, Waiting,
  TypeOK, PendingType, ResponseType, PendingPlace, IndexInBatch, ResultsInHand
<1>19. CASE ParallelJoin
  BY <1>19 DEF ParallelJoin, Raise, Leave, Goto, locals, turn, user, Waiting,
  TypeOK, PendingType, ResponseType, PendingPlace, IndexInBatch, ResultsInHand
<1>20. CASE Collect
  BY <1>20 DEF Collect, Head1, Goto, locals, turn, user, Waiting,
  TypeOK, PendingType, ResponseType, PendingPlace, IndexInBatch, ResultsInHand
<1>21. CASE Finish
  BY <1>21 DEF Finish, Leave, Goto, locals, turn, user, Waiting,
  TypeOK, PendingType, ResponseType, PendingPlace, IndexInBatch, ResultsInHand
<1>22. CASE Final
  BY <1>22 DEF Final, Leave, Goto, locals, turn, user, Waiting,
  TypeOK, PendingType, ResponseType, PendingPlace, IndexInBatch, ResultsInHand
<1>23. CASE RunApproved
  BY <1>23 DEF RunApproved, Leave, Goto, locals, turn, user, Waiting,
  TypeOK, PendingType, ResponseType, PendingPlace, IndexInBatch, ResultsInHand
<1>24. CASE Settle
  BY <1>24 DEF Settle, Goto, locals, turn, user, Waiting,
  TypeOK, PendingType, ResponseType, PendingPlace, IndexInBatch, ResultsInHand
<1>25. CASE ResumeSkip
  BY <1>25 DEF ResumeSkip, Leave, Goto, locals, turn, user, Waiting,
  TypeOK, PendingType, ResponseType, PendingPlace, IndexInBatch, ResultsInHand
<1>26. CASE Cancel
  BY <1>26 DEF Cancel, Goto, locals, turn, user, Waiting,
  TypeOK, PendingType, ResponseType, PendingPlace, IndexInBatch, ResultsInHand
<1>27. CASE AddGuidance
  BY <1>27 DEF AddGuidance, Goto, locals, turn, user, Waiting,
  TypeOK, PendingType, ResponseType, PendingPlace, IndexInBatch, ResultsInHand
<1>28. CASE SetMode
  BY <1>28 DEF SetMode, Goto, locals, turn, user, Waiting,
  TypeOK, PendingType, ResponseType, PendingPlace, IndexInBatch, ResultsInHand
<1>29. CASE CrashAndRestart
  BY <1>29 DEF CrashAndRestart, Leave, Goto, locals, turn, user, Waiting,
  TypeOK, PendingType, ResponseType, PendingPlace, IndexInBatch, ResultsInHand
<1>30. CASE UNCHANGED vars
  BY <1>30 DEF vars, locals, turn, PendingPlace, IndexInBatch, ResultsInHand, Waiting
<1> QED BY <1>1, <1>2, <1>3, <1>4, <1>5, <1>6, <1>7, <1>8, <1>9, <1>10, <1>11, <1>12, <1>13, <1>14, <1>15, <1>16, <1>17, <1>18, <1>19, <1>20, <1>21, <1>22, <1>23, <1>24, <1>25, <1>26, <1>27, <1>28, <1>29, <1>30 DEF Next, LoopStep, UserStep

(* Every step keeps results with their batch, and the batch open for the   *)
(* results that are still to come.                                         *)
LEMMA LogStep ==
  ASSUME IInv, [Next]_vars
  PROVE  LogType' /\ NoOrphanResult' /\ BatchOpen'
<1> USE DEF IInv
<1>1. CASE RunUserTurn
  BY <1>1, LogSame, OpenSame
  DEF RunUserTurn, Goto, locals, turn, user, TypeOK, Executing, PendingPlace
<1>2. CASE RunWhilePending
  BY <1>2, LogSame, OpenSame
  DEF RunWhilePending, Goto, locals, turn, user, TypeOK, Executing, PendingPlace
<1>3. CASE Resume
  BY <1>3, LogSame, OpenSame
  DEF Resume, Goto, locals, turn, user, TypeOK, Executing, PendingPlace
<1>4. CASE Begin
  <2>1. pending' = None /\ pc' \notin Executing /\ pc' # "resumeSkip"
    BY <1>4 DEF Begin, PendingPlace, Leave, Raise, EndLoop, Goto, Executing
  <2>2. BatchOpen'
    BY <2>1 DEF BatchOpen
  <2>3. CASE UNCHANGED log
    BY <2>2, <2>3, LogSame DEF TypeOK
  <2>4. CASE Log(User("input"))
    BY <2>2, <2>4, AppendOther, MessageTypes, MessageRoles DEF Log, UserKinds
  <2> QED BY <1>4, <2>3, <2>4 DEF Begin
<1>5. CASE DrainGuidance
  <2>1. pending' = None /\ pc' \notin Executing /\ pc' # "resumeSkip"
    BY <1>5 DEF DrainGuidance, PendingPlace, Leave, Raise, EndLoop, Goto, Executing
  <2>2. BatchOpen'
    BY <2>1 DEF BatchOpen
  <2>3. CASE UNCHANGED log
    BY <2>2, <2>3, LogSame DEF TypeOK
  <2>4. CASE Log(User("guidance"))
    BY <2>2, <2>4, AppendOther, MessageTypes, MessageRoles DEF Log, UserKinds
  <2> QED BY <1>5, <2>3, <2>4 DEF DrainGuidance
<1>6. CASE BuildRequest
  BY <1>6, LogSame, OpenSame
  DEF BuildRequest, Raise, Leave, Goto, locals, turn, user, TypeOK, Executing, PendingPlace
<1>7. CASE Answer
  BY <1>7, LogSame, OpenSame
  DEF Answer, Goto, locals, turn, user, TypeOK, Executing, PendingPlace
<1>8. CASE PromptTooLong
  BY <1>8, LogSame, OpenSame
  DEF PromptTooLong, Leave, Goto, locals, turn, user, TypeOK, Executing, PendingPlace
<1>9. CASE ProviderFails
  BY <1>9, LogSame, OpenSame
  DEF ProviderFails, Raise, Leave, Goto, locals, turn, user, TypeOK, Executing, PendingPlace
<1>10. CASE TakeResponse
  <2>0. pending = None /\ pending' = None
    BY <1>10 DEF TakeResponse, PendingPlace
  <2>1. CASE UNCHANGED log /\ pc' \notin Executing
    <3>1. pc' # "resumeSkip"
      BY <1>10, <2>1 DEF TakeResponse, Raise, Leave, EndLoop, Goto
    <3> QED BY <2>0, <2>1, <3>1, LogSame, OpenSame DEF TypeOK
  <2>2. CASE Log(Assistant(resp)) /\ Goto("exec") /\ resp' = resp
    <3>1. resp \in Seq(Calls)
      BY DEF TypeOK, ResponseType
    <3>2. LogType' /\ NoOrphanResult'
      BY <2>2, <3>1, AppendOther, MessageTypes, MessageRoles DEF Log
    <3>3. OpenFor(log', Elems(resp'))
      BY <2>2, <3>1, AppendAssistant DEF Log
    <3>4. BatchOpen'
      BY <2>0, <2>2, <3>3 DEF Goto, BatchOpen
    <3> QED BY <3>2, <3>4
  <2> QED BY <1>10, <2>1, <2>2 DEF TakeResponse, Raise, Leave, EndLoop, Goto, Executing
<1>11. CASE EndOfBatch
  <2>1. pending' = None /\ pc' \notin Executing /\ pc' # "resumeSkip"
    BY <1>11 DEF EndOfBatch, PendingPlace, Leave, Raise, EndLoop, Goto, Executing
  <2>2. BatchOpen'
    BY <2>1 DEF BatchOpen
  <2>3. CASE UNCHANGED log
    BY <2>2, <2>3, LogSame DEF TypeOK
  <2>4. CASE Log(User("reminder"))
    BY <2>2, <2>4, AppendOther, MessageTypes, MessageRoles DEF Log, UserKinds
  <2> QED BY <1>11, <2>3, <2>4 DEF EndOfBatch
<1>12. CASE Deny
  <2>1. pending' = None /\ pc' # "resumeSkip"
    BY <1>12 DEF Deny, AtCall, PendingPlace, Raise, Leave, Pause, Goto, turn
  <2>2. CASE UNCHANGED log /\ pc' \notin Executing
    BY <2>1, <2>2, LogSame, OpenSame DEF TypeOK
  <2>3. CASE Log(Result(Head1, "denied")) /\ resp' = resp
    <3>1. Head1 \in Calls /\ Head1 \in Elems(resp)
      BY <1>12, HeadIsCall DEF Deny, AtCall, IndexInBatch, TypeOK, ResponseType
    <3>2. "denied" \in ResultKinds
      BY <1>12, <3>1 DEF Deny, ResultsInHand, IndexInBatch, Head1, TypeOK, ResponseType, ResultKinds
    <3>3. OpenFor(log, Elems(resp))
      BY <1>12 DEF Deny, AtCall, BatchOpen, Executing
    <3>4. LogType' /\ NoOrphanResult' /\ OpenFor(log', Elems(resp))
      BY <2>3, <3>1, <3>2, <3>3, AppendResult DEF Log
    <3> QED BY <2>1, <2>3, <3>4 DEF BatchOpen
  <2> QED BY <1>12, <2>2, <2>3 DEF Deny, Raise, Leave, Pause, Goto, locals, turn, Executing
<1>13. CASE Ask
  <2>1. LogType' /\ NoOrphanResult'
    BY <1>13, LogSame DEF Ask, TypeOK
  <2>2. pc' \in {"idle", "final"}
    BY <1>13 DEF Ask, Pause, Leave, Goto
  <2>3. Waiting' \subseteq Elems(resp)
    BY <1>13 DEF Ask, AtCall, Head1, Waiting, TypeOK, ResponseType, Elems
  <2>4. OpenFor(log, Waiting')
    BY <1>13, <2>3, OpenMonotone DEF Ask, AtCall, BatchOpen, Executing
  <2> QED BY <1>13, <2>1, <2>2, <2>4 DEF Ask, BatchOpen, Executing
<1>14. CASE Start
  BY <1>14, LogSame, OpenSame
  DEF Start, Raise, Leave, AtCall, Head1, Goto, locals, turn, user, TypeOK, Executing, PendingPlace
<1>15. CASE Execute
  BY <1>15, LogSame, OpenSame
  DEF Execute, Head1, Goto, locals, turn, user, TypeOK, Executing, PendingPlace
<1>16. CASE Record
  <2>1. pending' = None /\ pc' # "resumeSkip"
    BY <1>16 DEF Record, AtCall, PendingPlace, Raise, Leave, Pause, Goto, turn
  <2>2. CASE UNCHANGED log /\ pc' \notin Executing
    BY <2>1, <2>2, LogSame, OpenSame DEF TypeOK
  <2>3. CASE Log(Result(Head1, got[Head1])) /\ resp' = resp
    <3>1. Head1 \in Calls /\ Head1 \in Elems(resp)
      BY <1>16, HeadIsCall DEF Record, AtCall, IndexInBatch, TypeOK, ResponseType
    <3>2. got[Head1] \in ResultKinds
      BY <1>16, <3>1 DEF Record, ResultsInHand, IndexInBatch, Head1, TypeOK, ResponseType, ResultKinds
    <3>3. OpenFor(log, Elems(resp))
      BY <1>16 DEF Record, AtCall, BatchOpen, Executing
    <3>4. LogType' /\ NoOrphanResult' /\ OpenFor(log', Elems(resp))
      BY <2>3, <3>1, <3>2, <3>3, AppendResult DEF Log
    <3> QED BY <2>1, <2>3, <3>4 DEF BatchOpen
  <2> QED BY <1>16, <2>2, <2>3 DEF Record, Raise, Leave, Pause, Goto, locals, turn, Executing
<1>17. CASE SkipRest
  <2>1. pending' = None /\ pc' # "resumeSkip"
    BY <1>17 DEF SkipRest, AtCall, PendingPlace, Raise, Leave, Pause, Goto, turn
  <2>2. CASE UNCHANGED log /\ pc' \notin Executing
    BY <2>1, <2>2, LogSame, OpenSame DEF TypeOK
  <2>3. CASE Log(Result(Head1, "skipped")) /\ resp' = resp /\ index <= Len(resp)
    <3>1. Head1 \in Calls /\ Head1 \in Elems(resp)
      BY <2>3, HeadIsCall DEF SkipRest, TypeOK, ResponseType
    <3>2. "skipped" \in ResultKinds
      BY <1>17, <3>1 DEF SkipRest, ResultsInHand, IndexInBatch, Head1, TypeOK, ResponseType, ResultKinds
    <3>3. OpenFor(log, Elems(resp))
      BY <1>17 DEF SkipRest, AtCall, BatchOpen, Executing
    <3>4. LogType' /\ NoOrphanResult' /\ OpenFor(log', Elems(resp))
      BY <2>3, <3>1, <3>2, <3>3, AppendResult DEF Log
    <3> QED BY <2>1, <2>3, <3>4 DEF BatchOpen
  <2> QED BY <1>17, <2>2, <2>3 DEF SkipRest, Raise, Leave, Pause, Goto, locals, turn, Executing
<1>18. CASE ParallelRun
  BY <1>18, LogSame, OpenSame
  DEF ParallelRun, Goto, locals, turn, user, TypeOK, Executing, PendingPlace
<1>19. CASE ParallelJoin
  BY <1>19, LogSame, OpenSame
  DEF ParallelJoin, Raise, Leave, Goto, locals, turn, user, TypeOK, Executing, PendingPlace
<1>20. CASE Collect
  <2>1. pending' = None /\ pc' # "resumeSkip"
    BY <1>20 DEF Collect, AtCall, PendingPlace, Raise, Leave, Pause, Goto, turn
  <2>2. CASE UNCHANGED log /\ pc' \notin Executing
    BY <2>1, <2>2, LogSame, OpenSame DEF TypeOK
  <2>3. CASE Log(Result(Head1, got[Head1])) /\ resp' = resp
    <3>1. Head1 \in Calls /\ Head1 \in Elems(resp)
      BY <1>20, HeadIsCall DEF Collect, AtCall, IndexInBatch, TypeOK, ResponseType
    <3>2. got[Head1] \in ResultKinds
      BY <1>20, <3>1 DEF Collect, ResultsInHand, IndexInBatch, Head1, TypeOK, ResponseType, ResultKinds
    <3>3. OpenFor(log, Elems(resp))
      BY <1>20 DEF Collect, AtCall, BatchOpen, Executing
    <3>4. LogType' /\ NoOrphanResult' /\ OpenFor(log', Elems(resp))
      BY <2>3, <3>1, <3>2, <3>3, AppendResult DEF Log
    <3> QED BY <2>1, <2>3, <3>4 DEF BatchOpen
  <2> QED BY <1>20, <2>2, <2>3 DEF Collect, Raise, Leave, Pause, Goto, locals, turn, Executing
<1>21. CASE Finish
  <2>1. pending' = None /\ pc' \notin Executing /\ pc' # "resumeSkip"
    BY <1>21 DEF Finish, PendingPlace, Leave, Raise, EndLoop, Goto, Executing
  <2>2. BatchOpen'
    BY <2>1 DEF BatchOpen
  <2>3. CASE UNCHANGED log
    BY <2>2, <2>3, LogSame DEF TypeOK
  <2>4. CASE Log(User("selfcheck"))
    BY <2>2, <2>4, AppendOther, MessageTypes, MessageRoles DEF Log, UserKinds
  <2>5. CASE Log(Assistant(<<>>))
    BY <2>2, <2>5, AppendOther, MessageTypes, MessageRoles, EmptySeq DEF Log
  <2> QED BY <1>21, <2>3, <2>4, <2>5 DEF Finish
<1>22. CASE Final
  <2>1. pc' = "idle" /\ pending' = pending /\ resp \in Seq(Calls) /\ Log(Assistant(resp))
    BY <1>22 DEF Final, Leave, TypeOK, ResponseType
  <2>2. LogType' /\ NoOrphanResult'
    BY <2>1, AppendOther, MessageTypes, MessageRoles DEF Log
  <2>3. OpenFor(log', Elems(resp))
    BY <2>1, AppendAssistant DEF Log
  <2>4. pending' # None => OpenFor(log', Waiting')
    BY <1>22, <2>1, <2>3, OpenMonotone DEF Final, PendingPlace, Waiting
  <2> QED BY <2>1, <2>2, <2>4 DEF BatchOpen, Executing
<1>23. CASE RunApproved
  BY <1>23, LogSame, OpenSame
  DEF RunApproved, Leave, Goto, locals, turn, user, TypeOK, Executing, PendingPlace
<1>24. CASE Settle
  <2>1. /\ pending # None /\ pending' = None /\ pc' = "resumeSkip"
        /\ Log(Result(pending.call, got[pending.call])) /\ got' = Withhold(pending.skipped)
    BY <1>24 DEF Settle, PendingPlace, Goto
  <2>2. pending.call \in Calls /\ got[pending.call] \in ResultKinds
    BY <1>24, <2>1 DEF Settle, ResultsInHand, TypeOK, PendingType, ResponseType
  <2>3. LogType' /\ NoOrphanResult' /\ OpenFor(log', Waiting)
    BY <2>1, <2>2, AppendResult DEF Log, BatchOpen, Waiting
  <2>4. Withheld' \subseteq Waiting
    BY <2>1 DEF Withheld, Withhold, Waiting
  <2> QED BY <2>1, <2>3, <2>4, OpenMonotone DEF BatchOpen, Executing
<1>25. CASE ResumeSkip
  <2>1. pending = None /\ pending' = None
    BY <1>25 DEF ResumeSkip, PendingPlace
  <2>2. CASE UNCHANGED log /\ pc' \notin Executing /\ pc' # "resumeSkip"
    BY <2>1, <2>2, LogSame, OpenSame DEF TypeOK
  <2>3. CASE \E c \in Calls : /\ FirstSkipped(c) /\ Log(Result(c, "skipped"))
                              /\ got' = [got EXCEPT ![c] = "-"] /\ Goto("resumeSkip")
    <3>1. PICK c \in Calls : /\ got[c] = "skipped" /\ Log(Result(c, "skipped"))
                             /\ got' = [got EXCEPT ![c] = "-"] /\ pc' = "resumeSkip"
      BY <2>3 DEF FirstSkipped, Goto
    <3>2. LogType' /\ NoOrphanResult' /\ OpenFor(log', Withheld)
      BY <1>25, <3>1, AppendResult DEF ResumeSkip, BatchOpen, Withheld, Log, ResultKinds
    <3>3. Withheld' \subseteq Withheld
      BY <3>1 DEF Withheld, TypeOK, ResponseType
    <3> QED BY <2>1, <3>1, <3>2, <3>3, OpenMonotone DEF BatchOpen, Executing
  <2> QED BY <1>25, <2>2, <2>3 DEF ResumeSkip, Leave, Goto, Executing
<1>26. CASE Cancel
  BY <1>26, LogSame, OpenSame
  DEF Cancel, Goto, locals, turn, user, TypeOK, Executing, PendingPlace
<1>27. CASE AddGuidance
  BY <1>27, LogSame, OpenSame
  DEF AddGuidance, Goto, locals, turn, user, TypeOK, Executing, PendingPlace
<1>28. CASE SetMode
  BY <1>28, LogSame, OpenSame
  DEF SetMode, Goto, locals, turn, user, TypeOK, Executing, PendingPlace
<1>29. CASE CrashAndRestart
  <2>1. LogType' /\ NoOrphanResult'
    BY <1>29, LogSame DEF CrashAndRestart, TypeOK
  <2>2. pending' # None => OpenFor(log, Waiting')
    BY <1>29, RestoredOpen DEF CrashAndRestart, Restored, Waiting
  <2>3. pc' = "idle" /\ log' = log
    BY <1>29 DEF CrashAndRestart, Leave
  <2> QED BY <2>1, <2>2, <2>3 DEF BatchOpen, Executing
<1>30. CASE UNCHANGED vars
  BY <1>30, LogSame, OpenSame DEF vars, locals, turn, user, TypeOK, BatchOpen, Withheld
<1> QED BY <1>1, <1>2, <1>3, <1>4, <1>5, <1>6, <1>7, <1>8, <1>9, <1>10, <1>11, <1>12, <1>13, <1>14, <1>15, <1>16, <1>17, <1>18, <1>19, <1>20, <1>21, <1>22, <1>23, <1>24, <1>25, <1>26, <1>27, <1>28, <1>29, <1>30 DEF Next, LoopStep, UserStep

-----------------------------------------------------------------------------
LEMMA InitIInv == Init => IInv
<1> SUFFICES ASSUME Init PROVE IInv
  OBVIOUS
<1>1. LogType /\ NoOrphanResult
  BY EmptySeq DEF Init, LogType, NoOrphanResult
<1>2. PendingType /\ HistoryType /\ CountType
  BY DEF Init, PendingType, HistoryType, CountType
<1>3. UserType
  BY ModesAssumption DEF Init, UserType
<1>4. PlaceType /\ LoopType
  BY DEF Init, PlaceType, LoopType, Labels, Outcomes
<1>5. ResponseType
  BY EmptySeq DEF Init, ResponseType, NoResults
<1>6. BatchOpen /\ PendingPlace /\ IndexInBatch /\ ResultsInHand
  BY DEF Init, BatchOpen, PendingPlace, IndexInBatch, ResultsInHand, Executing
<1> QED BY <1>1, <1>2, <1>3, <1>4, <1>5, <1>6 DEF IInv, TypeOK

LEMMA NextIInv == IInv /\ [Next]_vars => IInv'
BY LocalsStep, OthersStep, PlaceStep, LogStep DEF IInv, TypeOK

THEOREM Invariance == Spec => []IInv
BY InitIInv, NextIInv, PTL DEF Spec

(* Every variable keeps its type, whatever the environment does.           *)
THEOREM TypeCorrect == Spec => []TypeOK
BY Invariance, PTL DEF IInv

(* No tool result is ever separated from the assistant message that asked  *)
(* for it: not by guidance, reminders or interruptions, not when a         *)
(* confirmation is answered later, not after a crash and a restart.        *)
THEOREM ResultsStayWithTheirBatch == Spec => []NoOrphanResult
BY Invariance, PTL DEF IInv

(* What an executed tool needed, it had: every execution is let through by *)
(* grants and policy as they stand at that moment, or approved by the user *)
(* for that very call.                                                     *)
LEMMA PerformConsent ==
  ASSUME TypeOK, NEW c \in Calls, Perform(c), NEW d \in Calls, runs'[d] # runs[d]
  PROVE  Verdict(d) \in {"none", "allow"}
<1>1. ResultOf(c) = "ran" /\ d = c
  BY DEF Perform, TypeOK, HistoryType
<1>2. Verdict(c) \in {"none", "allow", "deny", "ask"}
  BY DEF Verdict
<1> QED BY <1>1, <1>2 DEF ResultOf

LEMMA ConsentStep ==
  ASSUME IInv, [Next]_vars, NEW c \in Calls, runs'[c] # runs[c]
  PROVE  Verdict(c) \in {"none", "allow"} \/ (pc = "approved" /\ pending.call = c)
<1> USE DEF IInv
<1>1. CASE Execute
  <2>1. Head1 \in Calls
    BY <1>1, HeadIsCall DEF Execute, IndexInBatch
  <2> QED BY <1>1, <2>1, PerformConsent DEF Execute
<1>2. CASE ParallelRun
  <2>1. PICK i \in index..batchEnd : Perform(resp[i])
    BY <1>2 DEF ParallelRun
  <2>2. resp[i] \in Calls
    BY <1>2 DEF ParallelRun, IndexInBatch, TypeOK, ResponseType
  <2> QED BY <2>1, <2>2, PerformConsent
<1>3. CASE RunApproved
  BY <1>3 DEF RunApproved, TypeOK, HistoryType
<1>4. CASE UNCHANGED runs
  BY <1>4
<1> QED
  BY <1>1, <1>2, <1>3, <1>4
  DEF Next, LoopStep, UserStep, vars, Begin, DrainGuidance, BuildRequest, Answer, PromptTooLong,
      ProviderFails, TakeResponse, EndOfBatch, Deny, Ask, Start, Record, SkipRest, ParallelJoin,
      Collect, Finish, Final, Settle, ResumeSkip, RunUserTurn, RunWhilePending, Resume, Cancel,
      AddGuidance, SetMode, CrashAndRestart

THEOREM ExecutionsHaveConsent == Spec => RunsWithConsent
<1>1. IInv /\ [Next]_vars => [RunsAreConsented]_vars
  BY ConsentStep DEF RunsAreConsented
<1> QED BY <1>1, Invariance, PTL DEF Spec, RunsWithConsent

-----------------------------------------------------------------------------
(* Calls run once.  A response has different calls, those it has not come  *)
(* to have not run, and what has run is in the log - so that the provider, *)
(* who numbers its calls afresh, never asks for it again.                  *)
DistinctCalls == \A i, j \in DOMAIN resp : resp[i] = resp[j] => i = j

NotYetRun ==
  /\ pc = "got" => \A j \in DOMAIN resp : resp[j] \notin Requested
  /\ pc \in {"exec", "execute"} => \A j \in DOMAIN resp : j >= index => runs[resp[j]] = 0
  /\ pc = "record" => \A j \in DOMAIN resp : j > index => runs[resp[j]] = 0
  /\ pc = "parallel" =>
       \A j \in DOMAIN resp : j >= index /\ (j > batchEnd \/ got[resp[j]] = "-") => runs[resp[j]] = 0
  /\ pc = "collect" => \A j \in DOMAIN resp : j > batchEnd => runs[resp[j]] = 0

RunsAreLogged == \A c \in Calls : runs[c] # 0 => c \in Requested

Once == DistinctCalls /\ NotYetRun /\ RunsAreLogged

(* The log only grows, by one message at a time.                           *)
LEMMA LogGrows ==
  ASSUME [Next]_vars
  PROVE  log' = log \/ \E m : log' = Append(log, m)
BY DEF Next, LoopStep, UserStep, vars, Log, Begin, DrainGuidance, BuildRequest, Answer, PromptTooLong,
       ProviderFails, TakeResponse, EndOfBatch, Deny, Ask, Start, Execute, Record, SkipRest, ParallelRun,
       ParallelJoin, Collect, Finish, Final, RunApproved, Settle, ResumeSkip, RunUserTurn,
       RunWhilePending, Resume, Cancel, AddGuidance, SetMode, CrashAndRestart

LEMMA RequestsStay ==
  ASSUME IInv, [Next]_vars
  PROVE  Requested \subseteq Requested'
<1>1. CASE log' = log
  BY <1>1 DEF Requested
<1>2. ASSUME NEW m, log' = Append(log, m) PROVE Requested \subseteq Requested'
  <2>1. log \in Seq(Message \cup {m})
    BY DEF IInv, TypeOK, LogType
  <2>2. \A i \in DOMAIN log : i \in DOMAIN log' /\ log'[i] = log[i]
    BY <1>2, <2>1, AppendProperties
  <2> QED
    BY <2>2 DEF Requested
<1> QED
  BY <1>1, <1>2, LogGrows

(* What a batch that is open asks for has been requested.                  *)
LEMMA OpenIsRequested ==
  ASSUME NEW S, OpenFor(log, S)
  PROVE  S \subseteq Requested
BY DEF OpenFor, Requested

(* An execution concerns a call of the batch that has not run, or the      *)
(* approved one.                                                           *)
LEMMA PerformRuns ==
  ASSUME TypeOK, NEW c \in Calls, Perform(c)
  PROVE  /\ \A d \in Calls : d # c => runs'[d] = runs[d] /\ got'[d] = got[d]
         /\ got'[c] # "-" /\ got'[c] \in ResultKinds
BY DEF Perform, ResultOf, TypeOK, HistoryType, ResponseType, ResultKinds

LEMMA WhatRuns ==
  ASSUME IInv, Once, [Next]_vars, NEW c \in Calls, runs'[c] # runs[c]
  PROVE  /\ c \in Requested
         /\ runs[c] = 0 \/ (pc = "approved" /\ pending.call = c)
<1> USE DEF IInv
<1>0. resp \in Seq(Calls) /\ index \in Nat \ {0} /\ batchEnd \in Nat
  BY DEF TypeOK, ResponseType
<1>1. CASE Execute
  <2>1. Head1 \in Calls /\ Head1 \in Elems(resp) /\ index \in DOMAIN resp /\ pc = "execute"
    BY <1>0, <1>1, HeadIsCall DEF Execute, IndexInBatch
  <2>2. c = Head1
    BY <1>1, <2>1, PerformRuns DEF Execute
  <2>3. runs[Head1] = 0
    BY <1>0, <2>1 DEF Once, NotYetRun, Head1
  <2>4. Head1 \in Requested
    BY <2>1, OpenIsRequested DEF BatchOpen, Executing
  <2> QED
    BY <2>2, <2>3, <2>4
<1>2. CASE ParallelRun
  <2>1. PICK i \in index..batchEnd : got[resp[i]] = "-" /\ Perform(resp[i])
    BY <1>2 DEF ParallelRun
  <2>2. pc = "parallel" /\ i \in DOMAIN resp /\ i >= index
    BY <1>0, <1>2, <2>1 DEF ParallelRun, IndexInBatch
  <2>3. resp[i] \in Calls /\ resp[i] \in Elems(resp)
    BY <1>0, <2>2 DEF Elems
  <2>4. c = resp[i]
    BY <2>1, <2>3, PerformRuns
  <2>5. runs[resp[i]] = 0
    BY <2>1, <2>2 DEF Once, NotYetRun
  <2>6. resp[i] \in Requested
    BY <2>2, <2>3, OpenIsRequested DEF BatchOpen, Executing
  <2> QED
    BY <2>4, <2>5, <2>6
<1>3. CASE RunApproved
  <2>1. pc = "approved" /\ pending # None /\ pending.call = c
    BY <1>3 DEF RunApproved, TypeOK, HistoryType, PendingPlace
  <2>2. c \in Requested
    BY <2>1, OpenIsRequested DEF BatchOpen, Waiting
  <2> QED
    BY <2>1, <2>2
<1>4. CASE UNCHANGED runs
  BY <1>4
<1> QED
  BY <1>1, <1>2, <1>3, <1>4
  DEF Next, LoopStep, UserStep, vars, Begin, DrainGuidance, BuildRequest, Answer, PromptTooLong,
      ProviderFails, TakeResponse, EndOfBatch, Deny, Ask, Start, Record, SkipRest, ParallelJoin,
      Collect, Finish, Final, Settle, ResumeSkip, RunUserTurn, RunWhilePending, Resume, Cancel,
      AddGuidance, SetMode, CrashAndRestart

LEMMA RunsAreLoggedStep ==
  ASSUME IInv, Once, [Next]_vars
  PROVE  RunsAreLogged'
<1>1. ASSUME NEW c \in Calls, runs'[c] # 0 PROVE c \in Requested
  BY <1>1, WhatRuns DEF Once, RunsAreLogged
<1> QED
  BY <1>1, RequestsStay DEF RunsAreLogged

LEMMA DistinctCallsStep ==
  ASSUME IInv, Once, [Next]_vars
  PROVE  DistinctCalls'
<1>1. resp' = resp \/ resp' = <<>> \/ resp' \in FreshBatches
  BY DEF Next, LoopStep, UserStep, vars, locals, turn, user, Log, Leave, Raise, Pause, EndLoop, Goto, Begin,
         DrainGuidance, BuildRequest, Answer, PromptTooLong, ProviderFails, TakeResponse, EndOfBatch, Deny,
         Ask, Start, Execute, Record, SkipRest, ParallelRun, ParallelJoin, Collect, Finish, Final,
         RunApproved, Settle, ResumeSkip, RunUserTurn, RunWhilePending, Resume, Cancel, AddGuidance,
         SetMode, CrashAndRestart
<1>2. CASE resp' \in FreshBatches
  BY <1>2 DEF FreshBatches, DistinctCalls
<1> QED
  BY <1>1, <1>2 DEF Once, DistinctCalls

LEMMA NotYetRunStep ==
  ASSUME IInv, IInv', Once, [Next]_vars
  PROVE  NotYetRun'
<1> USE DEF IInv
<1>0. /\ resp \in Seq(Calls) /\ index \in Nat \ {0} /\ batchEnd \in Nat
      /\ \A j \in DOMAIN resp : resp[j] \in Calls
      /\ \A i, j \in DOMAIN resp : resp[i] = resp[j] => i = j
  BY DEF TypeOK, ResponseType, Once, DistinctCalls
<1>1. CASE pc' \notin {"got", "exec", "execute", "record", "parallel", "collect"}
  BY <1>1 DEF NotYetRun
<1>2. CASE Answer
  <2>1. pc' = "got" /\ Requested' = Requested /\ (resp' = <<>> \/ resp' \in FreshBatches)
    BY <1>2 DEF Answer, Goto, Requested
  <2>2. \A j \in DOMAIN resp' : resp'[j] \notin Requested
    BY <2>1 DEF FreshBatches
  <2> QED
    BY <2>1, <2>2 DEF NotYetRun
<1>3. CASE TakeResponse /\ pc' = "exec"
  <2>1. pc = "got" /\ resp' = resp /\ runs' = runs
    BY <1>3 DEF TakeResponse, EndLoop, Goto, Raise, Leave
  <2>2. \A j \in DOMAIN resp : runs[resp[j]] = 0
    BY <1>0, <2>1 DEF Once, NotYetRun, RunsAreLogged
  <2> QED
    BY <1>3, <2>1, <2>2 DEF NotYetRun
<1>4. CASE Deny
  <2>1. pc = "exec" /\ UNCHANGED <<pc, resp, index, runs>>
    BY <1>4 DEF Deny, AtCall, locals, turn
  <2> QED
    BY <2>1 DEF Once, NotYetRun
<1>5. CASE Start /\ pc' \in {"execute", "parallel"}
  <2>1. pc = "exec" /\ UNCHANGED <<resp, index, runs>>
    BY <1>5 DEF Start, AtCall, locals, Goto, Raise, Leave
  <2> QED
    BY <1>5, <2>1 DEF Once, NotYetRun
<1>6. CASE Execute
  <2>1. /\ pc = "execute" /\ pc' = "record" /\ UNCHANGED <<resp, index>> /\ Perform(Head1)
        /\ index \in DOMAIN resp /\ Head1 \in Calls /\ Head1 = resp[index]
    BY <1>0, <1>6 DEF Execute, Goto, IndexInBatch, Head1
  <2>2. \A d \in Calls : d # Head1 => runs'[d] = runs[d]
    BY <2>1, PerformRuns
  <2>3. ASSUME NEW j \in DOMAIN resp, j > index PROVE runs'[resp[j]] = 0
    <3>1. resp[j] # Head1 /\ resp[j] \in Calls
      BY <1>0, <2>1, <2>3
    <3>2. runs[resp[j]] = 0
      BY <1>0, <2>1, <2>3 DEF Once, NotYetRun
    <3> QED
      BY <2>2, <3>1, <3>2
  <2> QED
    BY <2>1, <2>3 DEF NotYetRun
<1>7. CASE Record /\ pc' = "exec"
  <2>1. pc = "record" /\ resp' = resp /\ runs' = runs /\ index' = index + 1
    BY <1>7 DEF Record, Goto, Raise, Leave
  <2>2. \A j \in DOMAIN resp : j >= index + 1 => runs[resp[j]] = 0
    BY <1>0, <2>1 DEF Once, NotYetRun
  <2> QED
    BY <1>7, <2>1, <2>2 DEF NotYetRun
<1>8. CASE ParallelRun
  <2>1. PICK i \in index..batchEnd : got[resp[i]] = "-" /\ Perform(resp[i])
    BY <1>8 DEF ParallelRun
  <2>2. /\ pc = "parallel" /\ UNCHANGED <<pc, resp, index, batchEnd>> /\ i \in DOMAIN resp
        /\ i >= index /\ i <= batchEnd /\ resp[i] \in Calls
    BY <1>0, <1>8, <2>1 DEF ParallelRun, IndexInBatch, turn
  <2>3. /\ \A d \in Calls : d # resp[i] => runs'[d] = runs[d] /\ got'[d] = got[d]
        /\ got'[resp[i]] # "-"
    BY <2>1, <2>2, PerformRuns
  <2>4. ASSUME NEW j \in DOMAIN resp, j >= index, j > batchEnd \/ got'[resp[j]] = "-"
        PROVE  runs'[resp[j]] = 0
    <3>1. j # i
      BY <1>0, <2>2, <2>3, <2>4
    <3>2. resp[j] # resp[i] /\ resp[j] \in Calls
      BY <1>0, <2>2, <3>1
    <3>3. j > batchEnd \/ got[resp[j]] = "-"
      BY <2>3, <2>4, <3>2
    <3>4. runs[resp[j]] = 0
      BY <2>2, <2>4, <3>3 DEF Once, NotYetRun
    <3> QED
      BY <2>3, <3>2, <3>4
  <2> QED
    BY <2>2, <2>4 DEF NotYetRun
<1>9. CASE ParallelJoin /\ pc' = "collect"
  <2>1. pc = "parallel" /\ UNCHANGED <<resp, index, batchEnd, runs>>
    BY <1>9 DEF ParallelJoin, Goto, locals, Raise, Leave
  <2>2. ASSUME NEW j \in DOMAIN resp, j > batchEnd PROVE runs[resp[j]] = 0
    <3>1. j >= index
      BY <1>0, <2>1, <2>2 DEF IndexInBatch
    <3> QED
      BY <2>1, <2>2, <3>1 DEF Once, NotYetRun
  <2> QED
    BY <1>9, <2>1, <2>2 DEF NotYetRun
<1>10. CASE Collect
  <2>1. /\ pc = "collect" /\ UNCHANGED <<resp, batchEnd, runs>> /\ index' = index + 1
        /\ pc' = "collect" \/ (pc' = "exec" /\ index = batchEnd)
    BY <1>10 DEF Collect, Goto
  <2>2. \A j \in DOMAIN resp : j > batchEnd => runs[resp[j]] = 0
    BY <2>1 DEF Once, NotYetRun
  <2>3. CASE pc' = "collect"
    BY <2>1, <2>2, <2>3 DEF NotYetRun
  <2>4. CASE pc' = "exec" /\ index = batchEnd
    <3>1. \A j \in DOMAIN resp : j >= index + 1 => runs[resp[j]] = 0
      BY <1>0, <2>2, <2>4
    <3> QED
      BY <2>1, <2>4, <3>1 DEF NotYetRun
  <2> QED
    BY <2>1, <2>3, <2>4
<1>11. CASE UNCHANGED <<pc, resp, index, batchEnd, got, runs, log>>
  BY <1>11 DEF Once, NotYetRun, Requested
<1> QED
  BY <1>1, <1>2, <1>3, <1>4, <1>5, <1>6, <1>7, <1>8, <1>9, <1>10, <1>11
  DEF Next, LoopStep, UserStep, vars, locals, turn, user, Leave, Raise, Pause, EndLoop, Goto, Begin,
      DrainGuidance, BuildRequest, PromptTooLong, ProviderFails, TakeResponse, EndOfBatch, Ask, Start,
      Record, SkipRest, ParallelJoin, Finish, Final, RunApproved, Settle, ResumeSkip, RunUserTurn,
      RunWhilePending, Resume, Cancel, AddGuidance, SetMode, CrashAndRestart

LEMMA InitOnce == Init => Once
BY DEF Init, Once, DistinctCalls, NotYetRun, RunsAreLogged

LEMMA NextOnce == IInv /\ Once /\ [Next]_vars => Once'
BY NextIInv, DistinctCallsStep, NotYetRunStep, RunsAreLoggedStep DEF Once

(* A call that has run once runs again only with a new approval of that    *)
(* very call: neither a restart, nor a grant or a mode given later, nor    *)
(* the provider makes the loop repeat it.                                  *)
RunsAreNotRepeated ==
  \A c \in Calls : runs[c] > 0 /\ runs'[c] # runs[c] => pc = "approved" /\ pending.call = c

THEOREM RerunsAreApproved == Spec => RerunNeedsApproval
<1>1. IInv /\ Once /\ [Next]_vars => [RunsAreNotRepeated]_vars
  BY WhatRuns DEF RunsAreNotRepeated
<1> QED
  BY <1>1, InitOnce, NextOnce, Invariance, PTL DEF Spec, RerunNeedsApproval, RunsAreNotRepeated

-----------------------------------------------------------------------------
(* A session nobody cancels, that does not crash, and whose calls are      *)
(* neither denied in every mode nor leave todos open for the self-check.   *)
(* There the history owes exactly what the loop still has to do.           *)
Calm ==
  /\ "cancel" \notin Env /\ "crash" \notin Env
  /\ \A c \in Calls : Kind[c] \notin {"bad", "todoOpen"}

Rest == {resp[j] : j \in {j \in DOMAIN resp : j >= index}}
Due ==
  IF pending # None THEN Waiting
  ELSE IF pc \in Executing THEN Rest
  ELSE IF pc = "resumeSkip" THEN Withheld
  ELSE {}

Steady ==
  /\ phase = "main" /\ cancelled = FALSE
  /\ pc \in {"finish", "final"} => resp = <<>>
  /\ pending # None => pending.call \notin pending.skipped

OwesWhatIsDue == Unbroken(log) /\ Owed(log, Len(log)) = Due

-----------------------------------------------------------------------------
(* What a history owes after one more message.                             *)
Waits(l, a, n, c) ==
  /\ l[a].role = "assistant" /\ c \in Elems(l[a].calls)
  /\ \A j \in (a + 1)..n : l[j].role # "assistant" /\ c \notin Elems(l[j].calls)

LEMMA OwedIsWaitedFor ==
  ASSUME NEW l, NEW n \in Nat, NEW c
  PROVE  c \in Owed(l, n) <=> \E a \in 1..n : Waits(l, a, n, c)
BY DEF Owed, Waits

LEMMA OwedBefore ==
  ASSUME NEW S, NEW l \in Seq(S), NEW m \in S, NEW n \in 0..Len(l)
  PROVE  Owed(Append(l, m), n) = Owed(l, n)
<1> DEFINE w == Append(l, m)
<1>1. \A i \in 1..n : w[i] = l[i]
  BY AppendProperties
<1> HIDE DEF w
<1>2. ASSUME NEW c PROVE c \in Owed(w, n) <=> c \in Owed(l, n)
  <2>1. \A a \in 1..n : Waits(w, a, n, c) <=> Waits(l, a, n, c)
    BY <1>1 DEF Waits
  <2> QED
    BY <2>1, OwedIsWaitedFor
<1>3. Owed(w, n) = Owed(l, n)
  BY <1>2
<1> QED
  BY <1>3 DEF w

LEMMA OwedAfter ==
  ASSUME NEW S, NEW l \in Seq(S), NEW m \in S
  PROVE  Owed(Append(l, m), Len(l) + 1) =
           IF m.role = "assistant" THEN Elems(m.calls) ELSE Owed(l, Len(l)) \ Elems(m.calls)
<1> DEFINE w == Append(l, m)
           n == Len(l)
<1>1. n \in Nat /\ w[n + 1] = m /\ \A i \in 1..n : w[i] = l[i]
  BY AppendProperties, LenProperties
<1> HIDE DEF w, n
<1>2. ASSUME NEW c
      PROVE  c \in Owed(w, n + 1) <=>
               c \in (IF m.role = "assistant" THEN Elems(m.calls) ELSE Owed(l, n) \ Elems(m.calls))
  <2>1. Waits(w, n + 1, n + 1, c) <=> m.role = "assistant" /\ c \in Elems(m.calls)
    BY <1>1 DEF Waits
  <2>2. ASSUME NEW a \in 1..n
        PROVE  Waits(w, a, n + 1, c) <=>
                 Waits(l, a, n, c) /\ m.role # "assistant" /\ c \notin Elems(m.calls)
    <3>1. (a + 1)..(n + 1) = ((a + 1)..n) \cup {n + 1}
      BY <1>1
    <3> QED
      BY <1>1, <3>1 DEF Waits
  <2>3. c \in Owed(w, n + 1) <=> \E a \in 1..(n + 1) : Waits(w, a, n + 1, c)
    BY <1>1, OwedIsWaitedFor
  <2>4. 1..(n + 1) = (1..n) \cup {n + 1}
    BY <1>1
  <2>5. c \in Owed(l, n) <=> \E a \in 1..n : Waits(l, a, n, c)
    BY <1>1, OwedIsWaitedFor
  <2> QED
    BY <2>1, <2>2, <2>3, <2>4, <2>5
<1>3. Owed(w, n + 1) = IF m.role = "assistant" THEN Elems(m.calls) ELSE Owed(l, n) \ Elems(m.calls)
  BY <1>2
<1> QED
  BY <1>3 DEF w, n

LEMMA UnbrokenAfter ==
  ASSUME NEW S, NEW l \in Seq(S), NEW m \in S, Unbroken(l),
         IF m.role = "tool" THEN Elems(m.calls) \subseteq Owed(l, Len(l)) ELSE Owed(l, Len(l)) = {}
  PROVE  Unbroken(Append(l, m))
<1> DEFINE w == Append(l, m)
           n == Len(l)
<1>1. /\ n \in Nat /\ w[n + 1] = m /\ \A i \in 1..n : w[i] = l[i]
      /\ DOMAIN w = 1..(n + 1) /\ DOMAIN l = 1..n
  BY AppendProperties, LenProperties
<1>2. \A i \in 0..n : Owed(w, i) = Owed(l, i)
  BY OwedBefore
<1> HIDE DEF w, n
<1>3. ASSUME NEW i \in DOMAIN w
      PROVE  IF w[i].role = "tool" THEN Elems(w[i].calls) \subseteq Owed(w, i - 1) ELSE Owed(w, i - 1) = {}
  <2>1. Owed(w, i - 1) = Owed(l, i - 1)
    BY <1>1, <1>2
  <2>2. CASE i \in DOMAIN l
    BY <1>1, <2>1, <2>2 DEF Unbroken
  <2>3. CASE i = n + 1
    BY <1>1, <2>1, <2>3 DEF n
  <2> QED
    BY <1>1, <2>2, <2>3
<1>4. Unbroken(w)
  BY <1>3 DEF Unbroken
<1> QED
  BY <1>4 DEF w

LEMMA OwedAtFirst == Owed(<<>>, 0) = {} /\ Unbroken(<<>>)
BY DEF Owed, Unbroken

-----------------------------------------------------------------------------
(* What one step says, and what is due after it.                           *)
Silent    == log' = log /\ Due' = Due
UserSays  == Due = {} /\ Due' = {} /\ \E k \in UserKinds : log' = Append(log, User(k))
ModelSays ==
  Due = {} /\ \E cs \in Seq(Calls) :
    /\ Elems(cs) \cap Requested = {} /\ log' = Append(log, Assistant(cs)) /\ Due' = Elems(cs)
Answers   ==
  \E c \in Due, k \in ResultKinds : log' = Append(log, Result(c, k)) /\ Due' = Due \ {c}
Converses == Silent \/ UserSays \/ ModelSays \/ Answers

LEMMA CalmHasNoOpenTodo ==
  ASSUME Calm, TypeOK
  PROVE  UnfinishedTodos = FALSE
<1>1. \A i \in DOMAIN log : \A c \in Elems(log[i].calls) : c \in Calls
  BY DEF TypeOK, LogType, Message, Elems
<1> QED
  BY <1>1 DEF Calm, UnfinishedTodos

(* Outside of a confirmation the loop raises nothing but a limit.          *)
LEMMA CalmRaise ==
  ASSUME Steady, NEW what, Raise(what)
  PROVE  /\ pc' = "finish" /\ resp' = <<>> /\ phase' = "main"
BY DEF Raise, Goto, Steady

LEMMA CalmPause ==
  ASSUME Steady, Pause
  PROVE  pc' = "idle" /\ phase' = "main"
BY DEF Pause, Leave, Steady

LEMMA CalmEndLoop ==
  ASSUME Steady, EndLoop
  PROVE  pc' = "finish"
BY DEF EndLoop, Goto, Steady

(* Nothing is due at the places between the batches.                       *)
LEMMA NothingDue ==
  ASSUME pending = None, pc \notin Executing \cup {"resumeSkip"}
  PROVE  Due = {}
BY DEF Due

LEMMA NothingDueThen ==
  ASSUME pending' = None, pc' \notin Executing \cup {"resumeSkip"}
  PROVE  Due' = {}
BY DEF Due

LEMMA RestIsDue ==
  ASSUME PendingPlace, pc \in Executing
  PROVE  pending = None /\ Due = Rest
BY DEF PendingPlace, Due, Executing

LEMMA RestIsDueThen ==
  ASSUME pending' = None, pc' \in Executing
  PROVE  Due' = Rest'
BY DEF Due

LEMMA RestSame ==
  ASSUME UNCHANGED <<resp, index>>
  PROVE  Rest' = Rest
BY DEF Rest

(* Past the call that was answered, one call less is left.                 *)
LEMMA RestShrinks ==
  ASSUME TypeOK, DistinctCalls, index <= Len(resp), resp' = resp, index' = index + 1
  PROVE  Head1 \in Rest /\ Rest' = Rest \ {Head1}
<1>1. resp \in Seq(Calls) /\ index \in Nat \ {0} /\ index \in DOMAIN resp
  BY DEF TypeOK, ResponseType
<1>2. Head1 \in Rest
  BY <1>1 DEF Rest, Head1
<1>3. ASSUME NEW j \in DOMAIN resp, j >= index
      PROVE  resp[j] # Head1 <=> j >= index + 1
  BY <1>1, <1>3 DEF DistinctCalls, Head1
<1>4. ASSUME NEW c PROVE c \in Rest' <=> c \in Rest /\ c # Head1
  <2>1. c \in Rest' <=> \E j \in DOMAIN resp : j >= index + 1 /\ resp[j] = c
    BY DEF Rest
  <2>2. c \in Rest <=> \E j \in DOMAIN resp : j >= index /\ resp[j] = c
    BY DEF Rest
  <2>3. \A j \in DOMAIN resp : j >= index + 1 => j >= index
    BY <1>1
  <2> QED
    BY <1>3, <2>1, <2>2, <2>3
<1> QED
  BY <1>2, <1>4

LEMMA NothingLeft ==
  ASSUME TypeOK, index > Len(resp)
  PROVE  Rest = {}
BY DEF TypeOK, ResponseType, Rest

LEMMA RestAtFirst ==
  ASSUME resp \in Seq(Calls), resp' = resp, index' = 1
  PROVE  Rest' = Elems(resp)
<1>1. \A j \in DOMAIN resp : j >= 1
  OBVIOUS
<1> QED
  BY <1>1 DEF Rest, Elems

-----------------------------------------------------------------------------
(* Each action says what is due.                                           *)
Ready == Calm /\ IInv /\ Once /\ Steady

LEMMA BatchStarts ==
  ASSUME Ready, TakeResponse
  PROVE  Converses
<1>1. pending = None /\ pending' = None /\ pc = "got" /\ cancelled = FALSE /\ resp \in Seq(Calls)
  BY DEF TakeResponse, Ready, Steady, IInv, PendingPlace, TypeOK, ResponseType
<1>2. Due = {}
  BY <1>1, NothingDue DEF Executing
<1>3. CASE EndLoop /\ UNCHANGED log
  <2>1. pc' = "finish"
    BY <1>3, CalmEndLoop DEF Ready
  <2> QED
    BY <1>1, <1>2, <1>3, <2>1, NothingDueThen DEF Converses, Silent, Executing
<1>4. CASE Log(Assistant(resp)) /\ Goto("exec") /\ index' = 1 /\ resp' = resp
  <2>1. Due' = Elems(resp)
    BY <1>1, <1>4, RestAtFirst, RestIsDueThen DEF Goto, Executing
  <2>2. Elems(resp) \cap Requested = {}
    BY <1>1 DEF Ready, Once, NotYetRun, Elems
  <2> QED
    BY <1>1, <1>2, <1>4, <2>1, <2>2 DEF Converses, ModelSays, Log
<1> QED
  BY <1>1, <1>3, <1>4 DEF TakeResponse

LEMMA BatchEnds ==
  ASSUME Ready, EndOfBatch
  PROVE  Converses
<1>1. pending = None /\ pending' = None /\ Due = {}
  BY RestIsDue, NothingLeft DEF EndOfBatch, Ready, IInv, Executing
<1>2. pc' \in {"request", "finish"}
  BY CalmEndLoop DEF EndOfBatch, Goto, Ready
<1>3. Due' = {}
  BY <1>1, <1>2, NothingDueThen DEF Executing
<1>4. log' = log \/ log' = Append(log, User("reminder"))
  BY DEF EndOfBatch, Log
<1> QED
  BY <1>1, <1>3, <1>4 DEF Converses, Silent, UserSays, UserKinds

LEMMA ConfirmationAsked ==
  ASSUME Ready, Ask
  PROVE  Converses
<1>1. /\ resp \in Seq(Calls) /\ index \in Nat \ {0} /\ index \in DOMAIN resp /\ pc = "exec" /\ log' = log
      /\ pending' = [call |-> resp[index], skipped |-> {resp[j] : j \in (index + 1)..Len(resp)}]
  BY DEF Ask, AtCall, Head1, Ready, IInv, TypeOK, ResponseType
<1>2. pending' # None
  BY <1>1, CallsAssumption DEF None
<1>3. Waiting' = Rest
  <2>1. \A j \in DOMAIN resp : j >= index <=> j = index \/ j \in (index + 1)..Len(resp)
    BY <1>1
  <2>2. Waiting' = {resp[index]} \cup {resp[j] : j \in (index + 1)..Len(resp)}
    BY <1>1 DEF Waiting
  <2>3. (index + 1)..Len(resp) \subseteq DOMAIN resp
    BY <1>1
  <2>4. ASSUME NEW c PROVE c \in Waiting' <=> c \in Rest
    BY <1>1, <2>1, <2>2, <2>3 DEF Rest
  <2> QED
    BY <2>4
<1>4. Due' = Rest /\ Due = Rest
  BY <1>1, <1>2, <1>3, RestIsDue DEF Due, Ready, IInv, Executing
<1> QED
  BY <1>1, <1>4 DEF Converses, Silent

(* A result of the call at hand.                                           *)
LEMMA HeadAnswered ==
  ASSUME Ready, pc \in Executing, index <= Len(resp), NEW k \in ResultKinds,
         Log(Result(Head1, k)), resp' = resp, index' = index + 1, pc' \in Executing, pending' = pending
  PROVE  Answers
<1>1. pending = None /\ Due = Rest
  BY RestIsDue DEF Ready, IInv
<1>2. Head1 \in Rest /\ Rest' = Rest \ {Head1}
  BY RestShrinks DEF Ready, IInv, Once
<1>3. Due' = Rest'
  BY <1>1, RestIsDueThen
<1> QED
  BY <1>1, <1>2, <1>3 DEF Answers, Log

LEMMA ResultRecorded ==
  ASSUME Ready, Record \/ Collect
  PROVE  Converses
<1>1. /\ pc \in Executing /\ pc' \in Executing /\ index <= Len(resp) /\ got[resp[index]] # "-"
      /\ Log(Result(Head1, got[Head1])) /\ resp' = resp /\ index' = index + 1 /\ pending' = pending
  <2>1. CASE Record
    BY <2>1 DEF Record, Ready, Steady, IInv, IndexInBatch, ResultsInHand, Executing, Goto
  <2>2. CASE Collect
    <3>1. index \in index..batchEnd
      BY <2>2 DEF Collect, Ready, IInv, IndexInBatch, TypeOK, ResponseType
    <3> QED
      BY <2>2, <3>1 DEF Collect, Ready, IInv, IndexInBatch, ResultsInHand, Executing, Goto
  <2> QED
    BY <2>1, <2>2
<1>2. got[Head1] \in ResultKinds
  <2>1. Head1 \in Calls
    BY <1>1, HeadIsCall DEF Ready, IInv
  <2> QED
    BY <1>1, <2>1 DEF Head1, Ready, IInv, TypeOK, ResponseType
<1> QED
  BY <1>1, <1>2, HeadAnswered DEF Converses

LEMMA RestSkipped ==
  ASSUME Ready, SkipRest
  PROVE  Converses
<1>1. pc = "skip" /\ pending' = pending /\ pending = None /\ Due = Rest
  BY RestIsDue DEF SkipRest, Ready, IInv, Executing
<1>2. CASE index <= Len(resp) /\ Log(Result(Head1, "skipped")) /\ index' = index + 1 /\ Goto("skip") /\ resp' = resp
  BY <1>1, <1>2, HeadAnswered DEF Converses, Goto, Executing, ResultKinds
<1>3. CASE index > Len(resp) /\ Pause /\ UNCHANGED log
  <2>1. Rest = {} /\ pc' = "idle"
    BY <1>3, NothingLeft, CalmPause DEF Ready, IInv
  <2> QED
    BY <1>1, <1>3, <2>1, NothingDueThen DEF Converses, Silent, Executing
<1> QED
  BY <1>2, <1>3 DEF SkipRest

LEMMA ConfirmationSettled ==
  ASSUME Ready, Settle
  PROVE  Converses
<1>1. /\ pending # None /\ pending' = None /\ pc = "settle" /\ pc' = "resumeSkip"
      /\ log' = Append(log, Result(pending.call, got[pending.call])) /\ got' = Withhold(pending.skipped)
  BY DEF Settle, Ready, IInv, PendingPlace, Goto, Log
<1>2. pending.call \in Calls /\ pending.skipped \subseteq Calls /\ pending.call \notin pending.skipped
  BY <1>1 DEF Ready, Steady, IInv, TypeOK, PendingType
<1>3. got[pending.call] \in ResultKinds
  BY <1>1, <1>2 DEF Ready, IInv, ResultsInHand, TypeOK, ResponseType
<1>4. Due = Waiting
  BY <1>1 DEF Due
<1>5. Withheld' = pending.skipped
  BY <1>1, <1>2 DEF Withheld, Withhold
<1>6. Due' = Withheld'
  BY <1>1 DEF Due, Executing
<1>7. Due' = Due \ {pending.call} /\ pending.call \in Due
  BY <1>2, <1>4, <1>5, <1>6 DEF Waiting
<1> QED
  BY <1>1, <1>3, <1>7 DEF Converses, Answers

LEMMA WithheldAnswered ==
  ASSUME Ready, ResumeSkip
  PROVE  Converses
<1>1. pending = None /\ pending' = None /\ pc = "resumeSkip"
  BY DEF ResumeSkip, Ready, IInv, PendingPlace
<1>2. Due = Withheld
  BY <1>1 DEF Due, Executing
<1>3. ASSUME NEW c \in Calls, FirstSkipped(c), Log(Result(c, "skipped")), got' = [got EXCEPT ![c] = "-"],
             Goto("resumeSkip")
      PROVE  Converses
  <2>1. c \in Withheld /\ Withheld' = Withheld \ {c}
    BY <1>3 DEF FirstSkipped, Withheld, Ready, IInv, TypeOK, ResponseType
  <2>2. Due' = Withheld'
    BY <1>1, <1>3 DEF Due, Goto, Executing
  <2> QED
    BY <1>2, <1>3, <2>1, <2>2 DEF Converses, Answers, Log, ResultKinds
<1>4. CASE got = NoResults /\ UNCHANGED log /\ pc' \in {"idle", "request"}
  <2>1. Withheld = {}
    BY <1>4 DEF Withheld, NoResults
  <2> QED
    BY <1>1, <1>2, <1>4, <2>1, NothingDueThen DEF Converses, Silent, Executing
<1> QED
  BY <1>3, <1>4 DEF ResumeSkip, Leave, Goto

(* The other steps.                                                        *)
LEMMA TurnBegins ==
  ASSUME Ready, Begin \/ DrainGuidance
  PROVE  Converses
<1>1. /\ pending = None /\ pending' = None /\ pc \in {"begin", "request"} /\ pc' \in {"request", "build"}
      /\ log' = log \/ log' = Append(log, User("input")) \/ log' = Append(log, User("guidance"))
  BY DEF Begin, DrainGuidance, Ready, Steady, IInv, PendingPlace, Goto, Log
<1>2. Due = {} /\ Due' = {}
  BY <1>1, NothingDue, NothingDueThen DEF Executing
<1> QED
  BY <1>1, <1>2 DEF Converses, Silent, UserSays, UserKinds

LEMMA TurnFinishes ==
  ASSUME Ready, Finish \/ Final
  PROVE  Converses
<1>1. pc \in {"finish", "final"} /\ resp = <<>> /\ pending' = pending
  BY DEF Finish, Final, Ready, Steady
<1>2. pending = None
  <2>1. ASSUME pending # None PROVE FALSE
    <3>1. Waiting \subseteq Elems(resp)
      BY <1>1, <2>1 DEF Ready, IInv, PendingPlace
    <3> QED
      BY <1>1, <3>1 DEF Waiting, Elems
  <2> QED
    BY <2>1
<1>3. pc' \in {"final", "idle"} /\ (log' = log \/ log' = Append(log, Assistant(<<>>)))
  BY <1>1, CalmHasNoOpenTodo DEF Finish, Final, Ready, Steady, IInv, Goto, Leave, Log
<1>4. Due = {} /\ Due' = {}
  BY <1>1, <1>2, <1>3, NothingDue, NothingDueThen DEF Executing
<1>5. <<>> \in Seq(Calls) /\ Elems(<<>>) = {}
  BY DEF Elems
<1> QED
  BY <1>3, <1>4, <1>5 DEF Converses, Silent, ModelSays

(* Between batches, while a request is built and answered.                 *)
LEMMA RequestMade ==
  ASSUME Ready, BuildRequest \/ Answer \/ PromptTooLong \/ ProviderFails \/ RunUserTurn
  PROVE  Converses
<1>1. /\ pending = None /\ pending' = None /\ log' = log
      /\ pc \in {"build", "inflight", "idle"} /\ pc' \in {"idle", "finish", "inflight", "got", "request", "begin"}
  BY CalmRaise DEF BuildRequest, Answer, PromptTooLong, ProviderFails, RunUserTurn, Ready, IInv, PendingPlace,
                   Goto, Leave, Raise
<1>2. Due = {} /\ Due' = {}
  BY <1>1, NothingDue, NothingDueThen DEF Executing
<1> QED
  BY <1>1, <1>2 DEF Converses, Silent

(* While a batch is executed.                                              *)
LEMMA BatchGoesOn ==
  ASSUME Ready, Start \/ Execute \/ ParallelRun \/ ParallelJoin
  PROVE  Converses
<1>1. /\ pending = None /\ pending' = None /\ log' = log /\ pc \in Executing /\ pc' \in Executing
      /\ UNCHANGED <<resp, index>> /\ Due = Rest
  BY RestIsDue DEF Start, AtCall, Execute, ParallelRun, ParallelJoin, Ready, Steady, IInv, Goto, Executing, locals, turn
<1>2. Due' = Rest'
  BY <1>1, RestIsDueThen
<1> QED
  BY <1>1, <1>2, RestSame DEF Converses, Silent

(* While a confirmation is answered, and where nothing moves.              *)
LEMMA NothingSaid ==
  ASSUME Ready, Resume \/ RunApproved \/ RunWhilePending \/ AddGuidance \/ SetMode \/ UNCHANGED vars
  PROVE  Converses
<1>1. log' = log /\ pending' = pending
  BY DEF Resume, RunApproved, RunWhilePending, AddGuidance, SetMode, vars
<1>2. CASE pending # None
  BY <1>1, <1>2 DEF Due, Waiting, Converses, Silent
<1>3. CASE pending = None /\ UNCHANGED <<pc, resp, index, got>>
  BY <1>1, <1>3 DEF Due, Rest, Withheld, Converses, Silent
<1> QED
  BY <1>2, <1>3 DEF Resume, RunApproved, RunWhilePending, AddGuidance, SetMode, vars, locals, turn, Ready, IInv,
                    PendingPlace

LEMMA EveryStepConverses ==
  ASSUME Ready, [Next]_vars
  PROVE  Converses
<1>1. ~Cancel /\ ~CrashAndRestart
  BY DEF Cancel, CrashAndRestart, Ready, Calm
<1>2. ~Deny
  <2>1. ASSUME Deny PROVE FALSE
    <3>1. Head1 \in Calls
      BY <2>1, HeadIsCall DEF Deny, AtCall, Ready, IInv
    <3>2. Kind[Head1] = "bad"
      BY <2>1 DEF Deny, Verdict
    <3> QED
      BY <3>1, <3>2 DEF Ready, Calm
  <2> QED
    BY <2>1
<1> QED
  BY <1>1, <1>2, BatchStarts, BatchEnds, ConfirmationAsked, ResultRecorded, RestSkipped, ConfirmationSettled,
     WithheldAnswered, TurnBegins, TurnFinishes, RequestMade, BatchGoesOn, NothingSaid
  DEF Next, LoopStep, UserStep

LEMMA SteadyStep ==
  ASSUME Ready, [Next]_vars
  PROVE  Steady'
<1>1. ~Cancel /\ ~CrashAndRestart /\ UnfinishedTodos = FALSE
  BY CalmHasNoOpenTodo DEF Cancel, CrashAndRestart, Ready, Calm, IInv
<1>2. cancelled' = FALSE
  BY <1>1 DEF Ready, Steady, Next, LoopStep, UserStep, vars, turn, Begin, DrainGuidance, BuildRequest, Answer,
       PromptTooLong, ProviderFails, TakeResponse, EndOfBatch, Deny, Ask, Start, Execute, Record, SkipRest,
       ParallelRun, ParallelJoin, Collect, Finish, Final, RunApproved, Settle, ResumeSkip, RunUserTurn,
       RunWhilePending, Resume, AddGuidance, SetMode
<1>3. phase' = "main" /\ (pc' \in {"finish", "final"} => resp' = <<>>)
  BY <1>1 DEF Ready, Steady, Next, LoopStep, UserStep, vars, locals, turn, Leave, Raise, Pause, EndLoop, Goto,
       Begin, DrainGuidance, BuildRequest, Answer, PromptTooLong, ProviderFails, TakeResponse, EndOfBatch, Deny,
       Ask, Start, Execute, Record, SkipRest, ParallelRun, ParallelJoin, Collect, Finish, Final, RunApproved,
       Settle, ResumeSkip, RunUserTurn, RunWhilePending, Resume, AddGuidance, SetMode
<1>4. pending' # None => pending'.call \notin pending'.skipped
  <2>1. CASE Ask
    <3>1. /\ resp \in Seq(Calls) /\ index \in Nat /\ index \in DOMAIN resp
          /\ pending'.call = resp[index] /\ pending'.skipped = {resp[j] : j \in (index + 1)..Len(resp)}
      BY <2>1 DEF Ask, AtCall, Head1, Ready, IInv, TypeOK, ResponseType
    <3>2. \A j \in (index + 1)..Len(resp) : j \in DOMAIN resp /\ j # index
      BY <3>1
    <3> QED
      BY <3>1, <3>2 DEF Ready, Once, DistinctCalls
  <2>2. CASE pending' = pending \/ pending' = None
    BY <2>2 DEF Ready, Steady
  <2> QED
    BY <1>1, <2>1, <2>2
    DEF Next, LoopStep, UserStep, vars, Begin, DrainGuidance, BuildRequest, Answer, PromptTooLong, ProviderFails,
        TakeResponse, EndOfBatch, Deny, Start, Execute, Record, SkipRest, ParallelRun, ParallelJoin, Collect,
        Finish, Final, RunApproved, Settle, ResumeSkip, RunUserTurn, RunWhilePending, Resume, AddGuidance, SetMode
<1> QED
  BY <1>2, <1>3, <1>4 DEF Steady

-----------------------------------------------------------------------------
(* What the conversation makes of the history.                             *)
LEMMA MessagesOwe ==
  ASSUME LogType, NEW m \in Message, log' = Append(log, m)
  PROVE  /\ Owed(log', Len(log')) =
              IF m.role = "assistant" THEN Elems(m.calls) ELSE Owed(log, Len(log)) \ Elems(m.calls)
         /\ Unbroken(log) /\ (IF m.role = "tool" THEN Elems(m.calls) \subseteq Owed(log, Len(log))
                                                ELSE Owed(log, Len(log)) = {}) => Unbroken(log')
<1>1. log \in Seq(Message)
  BY DEF LogType
<1>2. Len(log') = Len(log) + 1
  BY <1>1, AppendProperties
<1>3. Owed(log', Len(log')) =
        IF m.role = "assistant" THEN Elems(m.calls) ELSE Owed(log, Len(log)) \ Elems(m.calls)
  <2>1. Owed(Append(log, m), Len(log) + 1) =
          IF m.role = "assistant" THEN Elems(m.calls) ELSE Owed(log, Len(log)) \ Elems(m.calls)
    BY <1>1, OwedAfter
  <2> QED
    BY <1>2, <2>1
<1>4. ASSUME Unbroken(log), IF m.role = "tool" THEN Elems(m.calls) \subseteq Owed(log, Len(log))
                                               ELSE Owed(log, Len(log)) = {}
      PROVE  Unbroken(log')
  <2>1. Unbroken(Append(log, m))
    BY <1>1, <1>4, UnbrokenAfter
  <2> QED
    BY <2>1
<1> QED
  BY <1>3, <1>4

LEMMA ConversationOwes ==
  ASSUME LogType, OwesWhatIsDue, Converses
  PROVE  OwesWhatIsDue'
<1>0. Unbroken(log) /\ Owed(log, Len(log)) = Due
  BY DEF OwesWhatIsDue
<1>1. CASE Silent
  BY <1>0, <1>1 DEF Silent, OwesWhatIsDue
<1>2. CASE UserSays
  <2>1. PICK k \in UserKinds : log' = Append(log, User(k))
    BY <1>2 DEF UserSays
  <2>2. User(k) \in Message /\ User(k).role = "user" /\ Elems(User(k).calls) = {}
    BY MessageTypes DEF User, Elems
  <2>3. Unbroken(log') /\ Owed(log', Len(log')) = {}
    BY <1>0, <1>2, <2>1, <2>2, MessagesOwe DEF UserSays
  <2> QED
    BY <1>2, <2>3 DEF UserSays, OwesWhatIsDue
<1>3. CASE ModelSays
  <2>1. PICK cs \in Seq(Calls) : log' = Append(log, Assistant(cs)) /\ Due' = Elems(cs)
    BY <1>3 DEF ModelSays
  <2>2. Assistant(cs) \in Message /\ Assistant(cs).role = "assistant" /\ Assistant(cs).calls = cs
    BY MessageTypes, MessageRoles
  <2>3. Unbroken(log') /\ Owed(log', Len(log')) = Elems(cs)
    BY <1>0, <1>3, <2>1, <2>2, MessagesOwe DEF ModelSays
  <2> QED
    BY <2>1, <2>3 DEF OwesWhatIsDue
<1>4. CASE Answers /\ Due \subseteq Calls
  <2>1. PICK c \in Due, k \in ResultKinds : log' = Append(log, Result(c, k)) /\ Due' = Due \ {c}
    BY <1>4 DEF Answers
  <2>2. Result(c, k) \in Message /\ Result(c, k).role = "tool" /\ Elems(Result(c, k).calls) = {c}
    BY <1>4, <2>1, MessageTypes, MessageRoles
  <2>3. Unbroken(log') /\ Owed(log', Len(log')) = Due \ {c}
    BY <1>0, <2>1, <2>2, MessagesOwe
  <2> QED
    BY <2>1, <2>3 DEF OwesWhatIsDue
<1>5. Due \subseteq Calls
  <2>1. \A a \in DOMAIN log : Elems(log[a].calls) \subseteq Calls
    BY DEF LogType, Message, Elems
  <2>2. Owed(log, Len(log)) \subseteq Calls
    BY <2>1 DEF Owed, LogType
  <2> QED
    BY <1>0, <2>2
<1> QED
  BY <1>1, <1>2, <1>3, <1>4, <1>5 DEF Converses

(* In the abstract protocol: an utterance, a request, or an answer.        *)
LEMMA RequestsAppended ==
  ASSUME LogType, NEW m \in Message, log' = Append(log, m)
  PROVE  Requested' = Requested \cup Elems(m.calls)
<1>1. /\ log \in Seq(Message) /\ DOMAIN log' = DOMAIN log \cup {Len(log) + 1}
      /\ log'[Len(log) + 1] = m /\ \A i \in DOMAIN log : log'[i] = log[i]
  BY AppendProperties DEF LogType
<1>2. ASSUME NEW c PROVE c \in Requested' <=> c \in Requested \/ c \in Elems(m.calls)
  <2>1. c \in Requested' <=> \E i \in DOMAIN log' : c \in Elems(log'[i].calls)
    BY DEF Requested
  <2>2. c \in Requested <=> \E i \in DOMAIN log : c \in Elems(log[i].calls)
    BY DEF Requested
  <2> QED
    BY <1>1, <2>1, <2>2
<1> QED
  BY <1>2

Said == Cardinality({i \in DOMAIN log : log[i].role # "tool"})

LEMMA UtterancesCounted ==
  ASSUME LogType, NEW m \in Message, log' = Append(log, m)
  PROVE  Said' = IF m.role = "tool" THEN Said ELSE Said + 1
<1> DEFINE before == {i \in DOMAIN log : log[i].role # "tool"}
           after  == {i \in DOMAIN log' : log'[i].role # "tool"}
<1>1. /\ DOMAIN log = 1..Len(log) /\ DOMAIN log' = DOMAIN log \cup {Len(log) + 1} /\ Len(log) \in Nat
      /\ log'[Len(log) + 1] = m /\ \A i \in DOMAIN log : log'[i] = log[i]
  BY AppendProperties DEF LogType
<1>2. after = IF m.role = "tool" THEN before ELSE before \cup {Len(log) + 1}
  BY <1>1
<1>3. IsFiniteSet(before)
  <2>1. before \subseteq 1..Len(log)
    BY <1>1
  <2>2. IsFiniteSet(1..Len(log))
    BY <1>1, FS_Interval
  <2> QED
    BY <2>1, <2>2, FS_Subset
<1>4. Len(log) + 1 \notin before
  BY <1>1
<1> HIDE DEF before, after
<1>5. Cardinality(after) = IF m.role = "tool" THEN Cardinality(before) ELSE Cardinality(before) + 1
  BY <1>2, <1>3, <1>4, FS_AddElement
<1> QED
  BY <1>5 DEF Said, before, after

LEMMA ConversationIsProtocol ==
  ASSUME LogType, OwesWhatIsDue, OwesWhatIsDue', Converses
  PROVE  [Protocol!Next]_(Protocol!protocolVars)
<1>0. Owed(log, Len(log)) = Due /\ Owed(log, Len(log))' = Due' /\ Said = Cardinality({i \in DOMAIN log : log[i].role # "tool"})
  BY DEF OwesWhatIsDue, Said
<1>1. CASE Silent
  BY <1>1 DEF Silent, Requested, Protocol!protocolVars
<1>2. CASE UserSays
  <2>1. PICK k \in UserKinds : log' = Append(log, User(k))
    BY <1>2 DEF UserSays
  <2>2. User(k) \in Message /\ User(k).role = "user" /\ Elems(User(k).calls) = {}
    BY MessageTypes DEF User, Elems
  <2>3. Requested' = Requested /\ Said' = Said + 1
    BY <2>1, <2>2, RequestsAppended, UtterancesCounted
  <2>4. Protocol!Say
    BY <1>0, <1>2, <2>3 DEF UserSays, Said, Protocol!Say
  <2> QED
    BY <2>4 DEF Protocol!Next
<1>3. CASE ModelSays
  <2>1. PICK cs \in Seq(Calls) :
          Elems(cs) \cap Requested = {} /\ log' = Append(log, Assistant(cs)) /\ Due' = Elems(cs)
    BY <1>3 DEF ModelSays
  <2>2. /\ Assistant(cs) \in Message /\ Assistant(cs).role = "assistant" /\ Assistant(cs).calls = cs
        /\ Elems(cs) \subseteq Calls
    BY MessageTypes, MessageRoles DEF Elems
  <2>3. Requested' = Requested \cup Elems(cs) /\ Said' = Said + 1
    BY <2>1, <2>2, RequestsAppended, UtterancesCounted
  <2>4. CASE Elems(cs) = {}
    <3>1. Protocol!Say
      BY <1>0, <1>3, <2>1, <2>3, <2>4 DEF ModelSays, Said, Protocol!Say
    <3> QED
      BY <3>1 DEF Protocol!Next
  <2>5. CASE Elems(cs) # {}
    <3>1. Elems(cs) \in SUBSET (Calls \ Requested)
      BY <2>1, <2>2
    <3>2. Protocol!Request
      BY <1>0, <1>3, <2>1, <2>3, <2>5, <3>1 DEF ModelSays, Said, Protocol!Request
    <3> QED
      BY <3>2 DEF Protocol!Next
  <2> QED
    BY <2>4, <2>5
<1>4. CASE Answers
  <2>1. PICK c \in Due, k \in ResultKinds : log' = Append(log, Result(c, k)) /\ Due' = Due \ {c}
    BY <1>4 DEF Answers
  <2>2. c \in Requested /\ c \in Calls
    <3>1. \A a \in DOMAIN log : Elems(log[a].calls) \subseteq Calls
      BY DEF LogType, Message, Elems
    <3>2. Owed(log, Len(log)) \subseteq Calls \cap Requested
      BY <3>1 DEF Owed, Requested, LogType
    <3> QED
      BY <1>0, <2>1, <3>2
  <2>3. Result(c, k) \in Message /\ Result(c, k).role = "tool" /\ Elems(Result(c, k).calls) = {c}
    BY <2>1, <2>2, MessageTypes, MessageRoles
  <2>4. Requested' = Requested /\ Said' = Said
    BY <2>1, <2>2, <2>3, RequestsAppended, UtterancesCounted
  <2>5. Protocol!Settle
    BY <1>0, <2>1, <2>4 DEF Said, Protocol!Settle
  <2> QED
    BY <2>5 DEF Protocol!Next
<1> QED
  BY <1>1, <1>2, <1>3, <1>4 DEF Converses

LEMMA InitCalm == Init => Steady /\ OwesWhatIsDue
BY OwedAtFirst DEF Init, Steady, OwesWhatIsDue, Due, Executing

LEMMA NextCalm ==
  ASSUME Calm, IInv, Once, Steady, OwesWhatIsDue, [Next]_vars
  PROVE  Steady' /\ OwesWhatIsDue'
BY SteadyStep, EveryStepConverses, ConversationOwes DEF Ready, IInv, TypeOK

LEMMA InitProtocol == Init => Protocol!Init
<1> SUFFICES ASSUME Init PROVE Protocol!Init
  OBVIOUS
<1>1. Requested = {} /\ {i \in DOMAIN log : log[i].role # "tool"} = {}
  BY DEF Init, Requested
<1>2. Owed(log, Len(log)) = {}
  BY OwedAtFirst DEF Init
<1> QED
  BY <1>1, <1>2, FS_EmptySet DEF Protocol!Init

LEMMA CalmInvariance == ASSUME Calm PROVE Spec => [](IInv /\ Once /\ Steady /\ OwesWhatIsDue)
<1>1. Init => IInv /\ Once /\ Steady /\ OwesWhatIsDue
  BY InitIInv, InitOnce, InitCalm
<1>2. IInv /\ Once /\ Steady /\ OwesWhatIsDue /\ [Next]_vars => (IInv /\ Once /\ Steady /\ OwesWhatIsDue)'
  BY NextIInv, NextOnce, NextCalm
<1> QED
  BY <1>1, <1>2, PTL DEF Spec

(* Between turns of such a session the history can be sent, or all it owes *)
(* is the pending confirmation and the calls behind it.                    *)
THEOREM HistoriesAreUsable == ASSUME Calm PROVE Spec => []HistoryUsable
<1>1. OwesWhatIsDue => HistoryUsable
  BY DEF OwesWhatIsDue, HistoryUsable, Sendable, Due, Waiting, Executing
<1> QED
  BY <1>1, CalmInvariance, PTL

(* The log of such a session is a conversation as providers require it:    *)
(* each message an utterance when nothing is owed, a request for new       *)
(* calls, or the one answer to a call that is owed.                        *)
THEOREM ProtocolIsKept == ASSUME Calm PROVE Spec => ImplementsProtocol
<1>1. IInv /\ Once /\ Steady /\ OwesWhatIsDue /\ [Next]_vars => [Protocol!Next]_(Protocol!protocolVars)
  <2> SUFFICES ASSUME IInv, Once, Steady, OwesWhatIsDue, [Next]_vars
               PROVE  [Protocol!Next]_(Protocol!protocolVars)
    OBVIOUS
  <2>1. Converses /\ OwesWhatIsDue'
    BY EveryStepConverses, NextCalm DEF Ready
  <2> QED
    BY <2>1, ConversationIsProtocol DEF IInv, TypeOK
<1> QED
  BY <1>1, InitProtocol, CalmInvariance, PTL DEF Spec, ImplementsProtocol, Protocol!Spec
-----------------------------------------------------------------------------
(* The history check, for histories of any length. First, induction: a set *)
(* of numbers that is not empty has a least one, since the strict subsets  *)
(* of finite sets are well founded, and so are the intervals 1..n.         *)
LEMMA LeastNumber ==
  ASSUME NEW T \in SUBSET Nat, T # {}
  PROVE  \E n \in T : \A m \in T : n <= m
<1> DEFINE below == {1..n : n \in T}
<1>1. below \subseteq FiniteSubsetsOf(Nat) /\ below # {}
  <2>1. \A n \in T : 1..n \subseteq Nat /\ IsFiniteSet(1..n)
    BY FS_Interval
  <2> QED BY <2>1 DEF FiniteSubsetsOf
<1>2. IsWellFoundedOn(StrictSubsetOrdering(Nat), FiniteSubsetsOf(Nat))
  BY FS_StrictSubsetOrderingWellFounded
<1> HIDE DEF below
<1>3. \E x \in below : \A y \in below : ~ (<<y, x>> \in StrictSubsetOrdering(Nat))
  BY <1>1, <1>2, WFMin, Zenon
<1> USE DEF below
<1>4. PICK n \in T : \A m \in T : ~ (<<1..m, 1..n>> \in StrictSubsetOrdering(Nat))
  BY <1>3
<1>5. ASSUME NEW m \in T, m < n  PROVE FALSE
  <2>1. 1..m \subseteq 1..n /\ n \in 1..n /\ n \notin 1..m
    BY <1>5
  <2>2. 1..m \subseteq Nat /\ 1..n \subseteq Nat /\ 1..m # 1..n
    BY <2>1
  <2>3. <<1..m, 1..n>> \in StrictSubsetOrdering(Nat)
    BY <2>1, <2>2 DEF StrictSubsetOrdering
  <2> QED BY <2>3, <1>4
<1> QED BY <1>5

(* Induction on numbers up to n, about a set instead of a predicate.       *)
LEMMA UpTo ==
  ASSUME NEW n \in Nat, NEW T,
         0 \in T, \A k \in 1..n : k - 1 \in T => k \in T
  PROVE  0..n \subseteq T
<1> DEFINE missing == (0..n) \ T
<1>1. SUFFICES ASSUME missing # {}  PROVE FALSE
  OBVIOUS
<1>2. missing \in SUBSET Nat
  OBVIOUS
<1>3. PICK k \in missing : \A m \in missing : k <= m
  <2> HIDE DEF missing
  <2> QED BY <1>1, <1>2, LeastNumber
<1>4. k \in 0..n /\ k \notin T
  BY <1>3
<1>5. k \in 1..n /\ k - 1 \in 0..n
  BY <1>4
<1>6. k - 1 \notin missing
  <2> HIDE DEF missing
  <2> QED BY <1>3, <1>5
<1>7. k - 1 \in T
  BY <1>5, <1>6
<1> QED BY <1>4, <1>5, <1>7

(* What a history owes, message by message.                                *)
OwedThen(l, n, owed) ==
  IF l[n].role = "assistant" THEN Elems(l[n].calls) ELSE owed \ Elems(l[n].calls)
Fits(l, i) ==
  IF l[i].role = "tool" THEN Elems(l[i].calls) \subseteq Owed(l, i - 1) ELSE Owed(l, i - 1) = {}

LEMMA OwedStep ==
  ASSUME NEW l, NEW n \in Nat
  PROVE  Owed(l, 0) = {} /\ Owed(l, n + 1) = OwedThen(l, n + 1, Owed(l, n))
<1>1. Owed(l, 0) = {}
  BY DEF Owed
<1>2. ASSUME NEW c  PROVE c \in Owed(l, n + 1) <=> c \in OwedThen(l, n + 1, Owed(l, n))
  <2>1. c \in Owed(l, n + 1) <=> \E a \in 1..(n + 1) : Waits(l, a, n + 1, c)
    BY OwedIsWaitedFor
  <2>2. c \in Owed(l, n) <=> \E a \in 1..n : Waits(l, a, n, c)
    BY OwedIsWaitedFor
  <2>3. Waits(l, n + 1, n + 1, c) <=> l[n + 1].role = "assistant" /\ c \in Elems(l[n + 1].calls)
    BY DEF Waits
  <2>4. ASSUME NEW a \in 1..n
        PROVE  Waits(l, a, n + 1, c) <=> Waits(l, a, n, c) /\ l[n + 1].role # "assistant" /\ c \notin Elems(l[n + 1].calls)
    <3>1. (a + 1)..(n + 1) = ((a + 1)..n) \cup {n + 1}
      OBVIOUS
    <3> QED BY <3>1 DEF Waits
  <2>5. 1..(n + 1) = (1..n) \cup {n + 1}
    OBVIOUS
  <2> QED BY <2>1, <2>2, <2>3, <2>4, <2>5 DEF OwedThen
<1>3. Owed(l, n + 1) = OwedThen(l, n + 1, Owed(l, n))
  BY <1>2
<1> QED BY <1>1, <1>3

(* The loop, message by message.                                           *)
Replaying(l, n, g) == g = [i \in 0..n |-> IF i = 0 THEN NothingOwed ELSE Check(g[i - 1], l[i])]

LEMMA ReplayingExists ==
  ASSUME NEW l, NEW n \in Nat
  PROVE  \E g : Replaying(l, n, g)
<1> DEFINE T == {k \in 0..n : \E g : Replaying(l, k, g)}
<1>1. 0 \in T
  <2>1. Replaying(l, 0, [j \in 0..0 |-> NothingOwed])
    BY DEF Replaying
  <2> QED BY <2>1
<1>2. ASSUME NEW k \in 1..n, k - 1 \in T  PROVE k \in T
  <2>1. PICK g : Replaying(l, k - 1, g)
    BY <1>2
  <2> DEFINE h == [j \in 0..k |-> IF j = k THEN Check(g[k - 1], l[k]) ELSE g[j]]
  <2>2. Replaying(l, k, h)
    BY <2>1 DEF Replaying
  <2> QED BY <2>2
<1> HIDE DEF T
<1>3. 0..n \subseteq T
  BY <1>1, <1>2, UpTo
<1>4. n \in T
  BY <1>3
<1> QED BY <1>4 DEF T

LEMMA ReplayStep ==
  ASSUME NEW l, Len(l) \in Nat
  PROVE  /\ Replay(l)[0] = NothingOwed
         /\ \A k \in 1..Len(l) : Replay(l)[k] = Check(Replay(l)[k - 1], l[k])
<1>1. PICK g : Replaying(l, Len(l), g)
  BY ReplayingExists
<1> DEFINE r == CHOOSE g1 : g1 = [i \in 0..Len(l) |-> IF i = 0 THEN NothingOwed ELSE Check(g1[i - 1], l[i])]
<1>2. Replaying(l, Len(l), r)
  BY <1>1 DEF Replaying
<1>3. Replay(l) = r
  BY Zenon DEF Replay
<1> HIDE DEF r
<1>4. r[0] = NothingOwed /\ \A k \in 1..Len(l) : r[k] = Check(r[k - 1], l[k])
  BY <1>2 DEF Replaying
<1> QED BY <1>3, <1>4

(* The fields of what Check makes of a state and a message.                *)
LEMMA CheckFields ==
  ASSUME NEW st, NEW m \in Message
  PROVE  /\ Check(st, m).owed = IF m.role = "assistant" THEN Elems(m.calls) ELSE st.owed \ Elems(m.calls)
         /\ Check(st, m).ok <=> st.ok /\ (IF m.role = "tool" THEN Elems(m.calls) \subseteq st.owed ELSE st.owed = {})
<1> DEFINE fits == st.ok /\ (IF m.role = "tool" THEN Elems(m.calls) \subseteq st.owed ELSE st.owed = {})
           left == IF m.role = "assistant" THEN Elems(m.calls) ELSE st.owed \ Elems(m.calls)
<1>1. Check(st, m) = [owed |-> left, ok |-> fits]
  BY DEF Check
<1> HIDE DEF fits, left
<1>2. Check(st, m).owed = left /\ Check(st, m).ok = fits
  BY <1>1
<1> USE DEF fits, left
<1> QED BY <1>2, Zenon

LEMMA HistoryShape ==
  ASSUME NEW l \in Histories
  PROVE  /\ Len(l) \in Nat /\ DOMAIN l = 1..Len(l)
         /\ \A i \in 1..Len(l) : l[i] \in Message
         /\ \A i \in 1..Len(l) : l[i].role = "tool" => \E c : l[i].calls = <<c>> /\ Elems(l[i].calls) = {c}
<1>1. l \in Seq(Message) /\ \A i \in DOMAIN l : l[i].role = "tool" => Len(l[i].calls) = 1
  BY DEF Histories
<1>2. Len(l) \in Nat /\ DOMAIN l = 1..Len(l) /\ \A i \in 1..Len(l) : l[i] \in Message
  BY <1>1, LenProperties
<1>3. ASSUME NEW i \in 1..Len(l), l[i].role = "tool"  PROVE \E c : l[i].calls = <<c>> /\ Elems(l[i].calls) = {c}
  <2> DEFINE s == l[i].calls
  <2>1. s \in Seq(Calls) /\ Len(s) = 1
    BY <1>1, <1>2, <1>3 DEF Message
  <2> HIDE DEF s
  <2>2. s = <<s[1]>> /\ DOMAIN s = {1}
    BY <2>1
  <2>3. Elems(s) = {s[1]}
    BY <2>2 DEF Elems
  <2> QED BY <2>2, <2>3 DEF s
<1> QED BY <1>2, <1>3

(* The loop keeps what is owed, and stays valid as long as each message    *)
(* fits what is owed before it.                                            *)
LEMMA LoopIsUnrolled ==
  ASSUME NEW l \in Histories
  PROVE  Accepted(l) <=> Sendable(l)
<1> DEFINE n == Len(l)
           r == Replay(l)
           T == {k \in 0..n : r[k].owed = Owed(l, k) /\ (r[k].ok <=> \A i \in 1..k : Fits(l, i))}
<1>1. n \in Nat /\ DOMAIN l = 1..n /\ \A i \in 1..n : l[i] \in Message
  BY HistoryShape
<1>2. r[0] = NothingOwed /\ \A k \in 1..n : r[k] = Check(r[k - 1], l[k])
  BY <1>1, ReplayStep
<1>3. Accepted(l) <=> r[n].ok /\ r[n].owed = {}
  BY DEF Accepted
<1>4. Sendable(l) <=> (\A i \in 1..n : Fits(l, i)) /\ Owed(l, n) = {}
  BY <1>1 DEF Sendable, Unbroken, Fits
<1> HIDE DEF n, r
<1>5. 0 \in T
  <2>1. r[0].owed = Owed(l, 0)
    BY <1>2, OwedStep DEF NothingOwed
  <2>2. r[0].ok <=> \A i \in 1..0 : Fits(l, i)
    <3>1. r[0].ok = TRUE /\ 1..0 = {}
      BY <1>2 DEF NothingOwed
    <3> QED BY <3>1
  <2> QED BY <1>1, <2>1, <2>2
<1>6. ASSUME NEW k \in 1..n, k - 1 \in T  PROVE k \in T
  <2> DEFINE st == r[k - 1]
             m == l[k]
  <2>1. st.owed = Owed(l, k - 1) /\ (st.ok <=> \A i \in 1..(k - 1) : Fits(l, i))
    BY <1>6
  <2>2. r[k] = Check(st, m) /\ m \in Message /\ k - 1 \in Nat /\ (k - 1) + 1 = k
    BY <1>1, <1>2
  <2>3. Owed(l, k) = OwedThen(l, k, Owed(l, k - 1))
    BY <2>2, OwedStep
  <2>4. (\A i \in 1..k : Fits(l, i)) <=> (\A i \in 1..(k - 1) : Fits(l, i)) /\ Fits(l, k)
    <3>1. 1..k = (1..(k - 1)) \cup {k}
      BY <2>2
    <3> QED BY <3>1
  <2>5. r[k].owed = Owed(l, k) /\ (r[k].ok <=> st.ok /\ Fits(l, k))
    <3> HIDE DEF st
    <3>1. /\ r[k].owed = OwedThen(l, k, st.owed)
          /\ r[k].ok <=> st.ok /\ (IF m.role = "tool" THEN Elems(m.calls) \subseteq st.owed ELSE st.owed = {})
      <4> HIDE DEF m
      <4>1. /\ r[k].owed = IF m.role = "assistant" THEN Elems(m.calls) ELSE st.owed \ Elems(m.calls)
            /\ r[k].ok <=> st.ok /\ (IF m.role = "tool" THEN Elems(m.calls) \subseteq st.owed ELSE st.owed = {})
        <5>1. m \in Message /\ r[k] = Check(st, m)
          BY <2>2
        <5>2. /\ Check(st, m).owed = IF m.role = "assistant" THEN Elems(m.calls) ELSE st.owed \ Elems(m.calls)
              /\ Check(st, m).ok <=> st.ok /\ (IF m.role = "tool" THEN Elems(m.calls) \subseteq st.owed ELSE st.owed = {})
          BY <5>1, CheckFields, Zenon
        <5> QED BY <5>1, <5>2, Zenon
      <4> USE DEF m
      <4> QED BY <4>1, Zenon DEF OwedThen
    <3>2. Fits(l, k) <=> IF m.role = "tool" THEN Elems(m.calls) \subseteq st.owed ELSE st.owed = {}
      BY <2>1, Zenon DEF Fits
    <3> QED BY <2>1, <2>3, <3>1, <3>2, Zenon
  <2>6. r[k].ok <=> \A i \in 1..k : Fits(l, i)
    <3> HIDE DEF st
    <3> QED BY <2>1, <2>4, <2>5
  <2> QED BY <2>5, <2>6
<1> HIDE DEF T
<1>7. 0..n \subseteq T
  BY <1>1, <1>5, <1>6, UpTo
<1>8. n \in T
  BY <1>1, <1>7
<1>9. r[n].owed = Owed(l, n) /\ (r[n].ok <=> \A i \in 1..n : Fits(l, i))
  BY <1>8 DEF T
<1> QED BY <1>3, <1>4, <1>9

(* A message's calls are as many as its list is long.                      *)
LEMMA CallsAreCounted ==
  ASSUME NEW l \in Histories, NEW a \in 1..Len(l), l[a].role = "assistant"
  PROVE  /\ Len(l[a].calls) \in Nat /\ IsFiniteSet(Elems(l[a].calls))
         /\ Cardinality(Elems(l[a].calls)) = Len(l[a].calls)
<1> DEFINE s == l[a].calls
           m == Len(s)
<1>1. DOMAIN l = 1..Len(l) /\ l[a] \in Message
  BY HistoryShape
<1>2. s \in Seq(Calls)
  BY <1>1 DEF Message
<1>3. \A j, k \in DOMAIN s : s[j] = s[k] => j = k
  BY <1>1 DEF Histories
<1> HIDE DEF s
<1>4. m \in Nat /\ DOMAIN s = 1..m /\ s \in [1..m -> Calls] /\ Elems(s) = {s[k] : k \in 1..m}
  BY <1>2 DEF Elems
<1> HIDE DEF m
<1> DEFINE f == [k \in 1..m |-> s[k]]
<1>5. f \in [1..m -> Elems(s)] /\ \A k \in 1..m : f[k] = s[k]
  BY <1>4
<1>6. \A c \in Elems(s) : \E k \in 1..m : f[k] = c
  BY <1>4, <1>5
<1>7. \A j, k \in 1..m : f[j] = f[k] => j = k
  BY <1>3, <1>4, <1>5
<1> HIDE DEF f
<1>8. DOMAIN f = 1..m
  BY <1>5
<1>9. f \in Bijection(1..m, Elems(s))
  BY <1>5, <1>6, <1>7, <1>8, Zenon DEF Bijection, Injection, Surjection, IsInjective
<1>10. ExistsBijection(1..m, Elems(s))
  BY <1>9, Zenon DEF ExistsBijection
<1>11. IsFiniteSet(1..m) /\ Cardinality(1..m) = m
  BY <1>4, FS_Interval
<1>12. IsFiniteSet(Elems(s)) /\ Cardinality(Elems(s)) = m
  BY <1>10, <1>11, FS_Bijection
<1> QED BY <1>4, <1>12 DEF s, m

(* Behind a batch of an accepted history stand its results: each pays one  *)
(* of the calls, and all are paid when the window ends.                    *)
Paid(l, a, k) == UNION {Elems(l[i].calls) : i \in (a + 1)..(a + k)}
PaidUpTo(l, a, k) ==
  /\ a + k <= Len(l)
  /\ \A i \in (a + 1)..(a + k) : l[i].role = "tool"
  /\ Paid(l, a, k) \subseteq Elems(l[a].calls)
  /\ Owed(l, a + k) = Elems(l[a].calls) \ Paid(l, a, k)
  /\ IsFiniteSet(Owed(l, a + k)) /\ Cardinality(Owed(l, a + k)) = Len(l[a].calls) - k

LEMMA BatchIsPaid ==
  ASSUME NEW l \in Histories, Sendable(l), NEW a \in 1..Len(l), l[a].role = "assistant",
         NEW k \in 0..Len(l[a].calls)
  PROVE  PaidUpTo(l, a, k)
<1> DEFINE n == Len(l)
           E == Elems(l[a].calls)
           m == Len(l[a].calls)
           T == {p \in 0..m : PaidUpTo(l, a, p)}
<1>1. /\ n \in Nat /\ DOMAIN l = 1..n
      /\ \A i \in 1..n : l[i].role = "tool" => \E c : Elems(l[i].calls) = {c}
  BY HistoryShape
<1>2. m \in Nat /\ IsFiniteSet(E) /\ Cardinality(E) = m
  BY CallsAreCounted
<1>3. (\A i \in 1..n : Fits(l, i)) /\ Owed(l, n) = {}
  BY <1>1 DEF Sendable, Unbroken, Fits
<1> HIDE DEF n, E, m
<1>4. 0 \in T
  <2>1. Owed(l, a) = E
    <3>1. a - 1 \in Nat /\ (a - 1) + 1 = a
      BY <1>1 DEF n
    <3> QED BY <3>1, OwedStep DEF OwedThen, E
  <2>2. a + 0 = a /\ a <= n /\ (a + 1)..(a + 0) = {}
    BY <1>1 DEF n
  <2>3. Paid(l, a, 0) = {}
    BY <2>2 DEF Paid
  <2>4. PaidUpTo(l, a, 0)
    BY <1>2, <2>1, <2>2, <2>3 DEF PaidUpTo, E, m, n
  <2> QED BY <1>2, <2>4
<1>5. ASSUME NEW p \in 1..m, p - 1 \in T  PROVE p \in T
  <2> DEFINE i == a + p
             O == Owed(l, i - 1)
  <2>1. PaidUpTo(l, a, p - 1)
    BY <1>5
  <2>2. p \in Nat /\ i - 1 = a + (p - 1) /\ i \in Nat /\ i - 1 \in Nat /\ (i - 1) + 1 = i /\ a \in Nat
    BY <1>1, <1>2 DEF n
  <2>3. /\ i - 1 <= n /\ \A j \in (a + 1)..(i - 1) : l[j].role = "tool"
        /\ Paid(l, a, p - 1) \subseteq E /\ O = E \ Paid(l, a, p - 1)
        /\ IsFiniteSet(O) /\ Cardinality(O) = m - (p - 1)
    BY <2>1, <2>2 DEF PaidUpTo, E, m, n
  <2> HIDE DEF O
  <2>4. O # {}
    <3>1. m - (p - 1) # 0
      BY <1>2
    <3> QED BY <2>3, <3>1, FS_EmptySet
  <2>5. i \in 1..n
    <3>1. i - 1 # n
      BY <1>3, <2>4 DEF O
    <3> QED BY <1>1, <2>2, <2>3, <3>1
  <2>6. l[i].role = "tool" /\ Elems(l[i].calls) \subseteq O
    BY <1>3, <2>4, <2>5 DEF Fits, O
  <2>7. PICK c : Elems(l[i].calls) = {c}
    BY <1>1, <2>5, <2>6
  <2>8. Owed(l, i) = O \ {c} /\ c \in O
    <3>1. Owed(l, i) = OwedThen(l, i, O)
      BY <2>2, OwedStep DEF O
    <3> QED BY <2>6, <2>7, <3>1 DEF OwedThen
  <2>9. IsFiniteSet(O \ {c}) /\ Cardinality(O \ {c}) = m - p
    <3>1. IsFiniteSet(O \ {c}) /\ Cardinality(O \ {c}) = Cardinality(O) - 1
      BY <2>3, <2>8, FS_RemoveElement
    <3> QED BY <1>2, <2>3, <3>1
  <2>10. (a + 1)..i = ((a + 1)..(i - 1)) \cup {i}
    BY <2>2
  <2>11. Paid(l, a, p) = Paid(l, a, p - 1) \cup {c}
    <3>1. Paid(l, a, p) = UNION {Elems(l[j].calls) : j \in (a + 1)..i}
      BY DEF Paid
    <3>2. Paid(l, a, p - 1) = UNION {Elems(l[j].calls) : j \in (a + 1)..(i - 1)}
      BY <2>2 DEF Paid
    <3> QED BY <2>7, <2>10, <3>1, <3>2
  <2>12. Owed(l, i) = E \ Paid(l, a, p) /\ Paid(l, a, p) \subseteq E
    BY <2>3, <2>8, <2>11
  <2>13. \A j \in (a + 1)..i : l[j].role = "tool"
    BY <2>3, <2>6, <2>10
  <2>14. PaidUpTo(l, a, p)
    <3>1. i <= n
      BY <1>1, <2>5
    <3>2. IsFiniteSet(Owed(l, i)) /\ Cardinality(Owed(l, i)) = m - p
      BY <2>8, <2>9, Zenon
    <3> QED BY <2>12, <2>13, <3>1, <3>2, Zenon DEF PaidUpTo, E, m, n
  <2> QED BY <1>2, <2>14
<1> HIDE DEF T
<1>6. 0..m \subseteq T
  BY <1>2, <1>4, <1>5, UpTo
<1> QED BY <1>6 DEF T, m

(* What is sendable is what a provider asks for ...                        *)
LEMMA SendableIsWellFormed ==
  ASSUME NEW l \in Histories, Sendable(l)
  PROVE  WellFormed(l)
<1> DEFINE n == Len(l)
<1>1. n \in Nat /\ DOMAIN l = 1..n
  BY HistoryShape
<1>2. \A i \in 1..n : Fits(l, i)
  BY <1>1 DEF Sendable, Unbroken, Fits
<1>3. ASSUME NEW a \in 1..n, l[a].role = "assistant"
      PROVE  /\ Window(l, a) \subseteq 1..n
             /\ \A i \in Window(l, a) : l[i].role = "tool"
             /\ UNION {Elems(l[i].calls) : i \in Window(l, a)} = Elems(l[a].calls)
  <2> DEFINE m == Len(l[a].calls)
  <2>1. m \in Nat
    BY <1>3, CallsAreCounted
  <2>2. PaidUpTo(l, a, m)
    BY <1>3, <2>1, BatchIsPaid
  <2>3. Window(l, a) = (a + 1)..(a + m)
    BY DEF Window
  <2> HIDE DEF m
  <2>4. a + m <= n /\ \A i \in (a + 1)..(a + m) : l[i].role = "tool"
    BY <2>2 DEF PaidUpTo
  <2>5. Owed(l, a + m) = {}
    <3>1. IsFiniteSet(Owed(l, a + m)) /\ Cardinality(Owed(l, a + m)) = m - m
      BY <2>2 DEF PaidUpTo, m
    <3>2. m - m = 0
      BY <2>1
    <3> QED BY <3>1, <3>2, FS_EmptySet
  <2>6. Paid(l, a, m) = Elems(l[a].calls)
    BY <2>2, <2>5 DEF PaidUpTo
  <2>7. UNION {Elems(l[i].calls) : i \in Window(l, a)} = Elems(l[a].calls)
    BY <2>3, <2>6 DEF Paid
  <2>8. Window(l, a) \subseteq 1..n
    BY <1>1, <2>1, <2>3, <2>4
  <2> QED BY <2>3, <2>4, <2>7, <2>8
<1>4. ASSUME NEW i \in 1..n, l[i].role = "tool"
      PROVE  \E a \in 1..n : l[a].role = "assistant" /\ i \in Window(l, a)
  <2>1. PICK c : Elems(l[i].calls) = {c}
    BY <1>4, HistoryShape
  <2>2. c \in Owed(l, i - 1) /\ i - 1 \in Nat
    BY <1>1, <1>2, <1>4, <2>1 DEF Fits
  <2>3. PICK a \in 1..(i - 1) : Waits(l, a, i - 1, c)
    BY <2>2, OwedIsWaitedFor
  <2>4. a \in 1..n /\ a < i /\ l[a].role = "assistant" /\ c \in Elems(l[a].calls)
    BY <1>1, <2>3 DEF Waits
  <2>5. PICK j \in Window(l, a) : c \in Elems(l[j].calls)
    BY <1>3, <2>4
  <2>6. Len(l[a].calls) \in Nat
    BY <2>4, CallsAreCounted
  <2>7. j \in (a + 1)..(a + Len(l[a].calls)) /\ j \notin (a + 1)..(i - 1)
    BY <2>3, <2>5 DEF Window, Waits
  <2>8. i \in Window(l, a)
    BY <1>1, <2>4, <2>6, <2>7 DEF Window
  <2> QED BY <2>4, <2>8
<1> QED BY <1>1, <1>3, <1>4 DEF WellFormed

(* The results of a well-formed batch are of different calls.              *)
LEMMA ResultsDiffer ==
  ASSUME NEW l \in Histories, WellFormed(l), NEW a \in 1..Len(l), l[a].role = "assistant",
         NEW i \in Window(l, a), NEW j \in Window(l, a), NEW c,
         c \in Elems(l[i].calls), c \in Elems(l[j].calls)
  PROVE  i = j
<1> DEFINE W == Window(l, a)
           E == Elems(l[a].calls)
           m == Len(l[a].calls)
<1>1. Len(l) \in Nat /\ DOMAIN l = 1..Len(l)
  BY HistoryShape
<1>2. /\ W \subseteq 1..Len(l) /\ \A p \in W : l[p].role = "tool"
      /\ UNION {Elems(l[p].calls) : p \in W} = E
  BY <1>1 DEF WellFormed
<1>3. m \in Nat /\ IsFiniteSet(E) /\ Cardinality(E) = m
  BY CallsAreCounted
<1>4. IsFiniteSet(W) /\ Cardinality(W) = m
  <2>1. W = (a + 1)..(a + m) /\ a + 1 \in Int /\ a + m \in Int
    BY <1>1, <1>3 DEF Window
  <2>2. IsFiniteSet((a + 1)..(a + m)) /\ Cardinality((a + 1)..(a + m)) = IF a + 1 > a + m THEN 0 ELSE (a + m) - (a + 1) + 1
    BY <2>1, FS_Interval
  <2>3. (IF a + 1 > a + m THEN 0 ELSE (a + m) - (a + 1) + 1) = m
    BY <1>1, <1>3
  <2> QED BY <2>1, <2>2, <2>3
<1>5. \A p \in W : \E d : Elems(l[p].calls) = {d}
  BY <1>2, HistoryShape
<1> HIDE DEF W, E, m
<1> DEFINE answered(p) == CHOOSE d : Elems(l[p].calls) = {d}
           f == [p \in W |-> answered(p)]
<1>6. \A p \in W : Elems(l[p].calls) = {answered(p)}
  BY <1>5
<1> HIDE DEF answered
<1>7. DOMAIN f = W /\ \A p \in W : f[p] = answered(p)
  OBVIOUS
<1>8. f \in [W -> E] /\ \A d \in E : \E p \in W : f[p] = d
  <2>1. \A p \in W : answered(p) \in E
    BY <1>2, <1>6
  <2>2. ASSUME NEW d \in E  PROVE \E p \in W : f[p] = d
    <3>1. PICK p \in W : d \in Elems(l[p].calls)
      BY <1>2
    <3> QED BY <1>6, <1>7, <3>1
  <2> QED BY <2>1, <2>2
<1> HIDE DEF f
<1>9. f \in Surjection(W, E)
  BY <1>8, Zenon DEF Surjection
<1>10. f \in Injection(W, E)
  BY <1>3, <1>4, <1>9, FS_SurjSameCardinalityImpliesInj
<1>11. \A p, q \in W : f[p] = f[q] => p = q
  BY <1>7, <1>10, Zenon DEF Injection, IsInjective
<1>12. i \in W /\ j \in W /\ f[i] = c /\ f[j] = c
  BY <1>6, <1>7 DEF W
<1> QED BY <1>11, <1>12

(* ... and the other way round.                                            *)
LEMMA WellFormedIsSendable ==
  ASSUME NEW l \in Histories, WellFormed(l)
  PROVE  Sendable(l)
<1> DEFINE n == Len(l)
<1>1. n \in Nat /\ DOMAIN l = 1..n
  BY HistoryShape
<1>2. \A a \in 1..n : l[a].role = "assistant" =>
        /\ Window(l, a) \subseteq 1..n
        /\ \A i \in Window(l, a) : l[i].role = "tool"
        /\ UNION {Elems(l[i].calls) : i \in Window(l, a)} = Elems(l[a].calls)
  BY <1>1 DEF WellFormed
<1>3. \A i \in 1..n : l[i].role = "tool" => \E a \in 1..n : l[a].role = "assistant" /\ i \in Window(l, a)
  BY <1>1 DEF WellFormed
<1>4. ASSUME NEW p \in 0..n, p = n \/ l[p + 1].role # "tool"  PROVE Owed(l, p) = {}
  <2>1. SUFFICES ASSUME NEW c \in Owed(l, p)  PROVE FALSE
    OBVIOUS
  <2>2. p \in Nat
    BY <1>1
  <2>3. PICK a \in 1..p : Waits(l, a, p, c)
    BY <2>2, OwedIsWaitedFor
  <2>4. a \in 1..n /\ l[a].role = "assistant" /\ c \in Elems(l[a].calls)
    BY <1>1, <2>3 DEF Waits
  <2>5. PICK j \in Window(l, a) : c \in Elems(l[j].calls)
    <3>1. c \in UNION {Elems(l[i].calls) : i \in Window(l, a)}
      BY <1>2, <2>4, Zenon
    <3> QED BY <3>1
  <2>6. Len(l[a].calls) \in Nat
    BY <2>4, CallsAreCounted
  <2>7. j \in 1..n /\ j \in (a + 1)..(a + Len(l[a].calls)) /\ j \notin (a + 1)..p
    BY <1>2, <2>3, <2>4, <2>5 DEF Window, Waits
  <2>8. p < n /\ p + 1 \in Window(l, a)
    BY <1>1, <2>2, <2>6, <2>7 DEF Window
  <2>9. l[p + 1].role = "tool"
    BY <1>2, <2>4, <2>8
  <2> QED BY <1>1, <1>4, <2>8, <2>9
<1>5. ASSUME NEW i \in 1..n, l[i].role = "tool"  PROVE Elems(l[i].calls) \subseteq Owed(l, i - 1)
  <2>1. SUFFICES ASSUME NEW c \in Elems(l[i].calls)  PROVE c \in Owed(l, i - 1)
    OBVIOUS
  <2>2. PICK a \in 1..n : l[a].role = "assistant" /\ i \in Window(l, a)
    BY <1>3, <1>5
  <2>3. Len(l[a].calls) \in Nat
    BY <2>2, CallsAreCounted
  <2>4. i - 1 \in Nat /\ a \in 1..(i - 1) /\ i \in (a + 1)..(a + Len(l[a].calls))
    BY <1>1, <2>2, <2>3 DEF Window
  <2>5. c \in Elems(l[a].calls)
    BY <1>2, <2>2
  <2>6. ASSUME NEW j \in (a + 1)..(i - 1)  PROVE l[j].role # "assistant" /\ c \notin Elems(l[j].calls)
    <3>1. j \in Window(l, a) /\ j # i
      BY <2>3, <2>4 DEF Window
    <3>2. l[j].role = "tool"
      BY <1>2, <2>2, <3>1
    <3>3. c \notin Elems(l[j].calls)
      BY <2>2, <3>1, ResultsDiffer
    <3> QED BY <3>2, <3>3
  <2>7. Waits(l, a, i - 1, c)
    BY <2>2, <2>5, <2>6 DEF Waits
  <2> QED BY <2>4, <2>7, OwedIsWaitedFor
<1>6. ASSUME NEW i \in 1..n, l[i].role # "tool"  PROVE Owed(l, i - 1) = {}
  <2>1. i - 1 \in 0..n /\ (i - 1) + 1 = i
    BY <1>1
  <2> QED BY <1>4, <1>6, <2>1
<1>7. Owed(l, n) = {}
  <2>1. n \in 0..n
    BY <1>1
  <2> QED BY <1>4, <2>1, Zenon
<1>8. Unbroken(l)
  BY <1>1, <1>5, <1>6, Zenon DEF Unbroken
<1> QED BY <1>7, <1>8 DEF Sendable

(* The loop of validate_tool_call_sequence accepts a history, of whatever  *)
(* length, exactly when each batch is followed at once by its results and  *)
(* no result stands elsewhere; and Sendable, its form without the loop,    *)
(* which the specifications use, accepts the same.                         *)
THEOREM CheckAcceptsWhatIsWellFormed ==
  \A l \in Histories : (Accepted(l) <=> WellFormed(l)) /\ (Sendable(l) <=> Accepted(l))
BY LoopIsUnrolled, SendableIsWellFormed, WellFormedIsSendable
=============================================================================
