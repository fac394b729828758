-------------------------- MODULE CompactionProofs --------------------------
(***************************************************************************)
(* Compaction for every number of messages, compactions and restarts:      *)
(* what a request shows of a compacted history is what the provider        *)
(* accepts, no message falls between summaries, and an open circuit stops  *)
(* the calls.                                                              *)
(***************************************************************************)
EXTENDS CompactionProperties, SequenceTheorems, TLAPS

Sources == {<<>>} \cup ({"l4"} \X Nat \X Nat \X Nat) \cup ({"view"} \X Nat \X Nat)
Checkpoint == [base : Nat, start : Nat \ {0}, covered : Nat, source : Sources, at : Nat, id : Nat]
Runtime == [failures : Nat, open : BOOLEAN, latest : Nat, source : Sources]
Running ==
  [stage : {"programmatic", "l4", "summarize", "record_success", "record_failure"},
   trigger : AllTriggers, round : {"first", "stronger"}, seen : Nat, base : Nat, version : Nat,
   before : Nat, attempts : Nat, calls : Nat,
   reason : Errors \cup {"none", "duplicate_source", "circuit_open"}, checkpoint : Nat]

TypeOK ==
  /\ setting \in Settings /\ messages \in Seq(Message) /\ checkpoints \in Seq(Checkpoint)
  /\ version \in Nat /\ stored \in Runtime /\ live \in Runtime
  /\ job \in [Actors -> {NoJob} \cup Running]
  /\ clock \in Nat /\ jobs \in Nat /\ restarts \in Nat

(* Every tool result answers a call.                                       *)
ResultsAnswer == \A i \in DOMAIN messages : messages[i].role = "tool" => Elems(messages[i].calls) # {}

(* A checkpoint builds on an earlier one, takes in more than it, and what  *)
(* follows it was a legal history when the summary was made.               *)
Begins(cs, k) == IF k = 0 THEN 1 ELSE cs[k].start

Builds(cs, ms, k) ==
  /\ cs[k].base \in 0..(k - 1) /\ cs[k].covered + 1 = cs[k].start /\ Begins(cs, cs[k].base) <= cs[k].covered
  /\ \E n \in cs[k].start..Len(ms) : Sendable(SubSeq(ms, cs[k].start, n))

Chained ==
  /\ \A k \in DOMAIN checkpoints : Builds(checkpoints, messages, k)
  /\ \A i, j \in DOMAIN checkpoints : i # j => checkpoints[i].id # checkpoints[j].id

(* One checkpoint is newer than all the others.                            *)
IsLatest(i) == \A j \in DOMAIN checkpoints \ {i} : NewerThan(i, j)
HasLatest   == checkpoints # <<>> => \E i \in DOMAIN checkpoints : IsLatest(i)

(* A compaction works on what was in the file when it started, the user's  *)
(* is the manual one, and none but that asks for a summary while the       *)
(* circuit is open.                                                        *)
Grounded(a) ==
  job[a] # NoJob =>
    /\ job[a].base \in 0..Len(checkpoints) /\ job[a].seen \in 0..Len(messages)
    /\ a = "user" <=> job[a].trigger = "manual"
Heeds(a) == job[a].stage = "summarize" /\ a # "user" => live.open = FALSE

IInv ==
  /\ TypeOK /\ ResultsAnswer /\ Chained /\ HasLatest
  /\ \A a \in Actors : Grounded(a) /\ Heeds(a)

-----------------------------------------------------------------------------
(* The tail of a history.                                                  *)

(* After m messages the assistant message a still waits for c.             *)
Waits(l, a, m, c) ==
  /\ l[a].role = "assistant" /\ c \in Elems(l[a].calls)
  /\ \A j \in (a + 1)..m : l[j].role # "assistant" /\ c \notin Elems(l[j].calls)

LEMMA OwedIsWaitedFor ==
  ASSUME NEW l, NEW m \in Nat, NEW c
  PROVE  c \in Owed(l, m) <=> \E a \in 1..m : Waits(l, a, m, c)
BY DEF Owed, Waits

LEMMA TailMembers ==
  ASSUME NEW S, NEW l \in Seq(S), NEW i \in 1..Len(l), NEW n \in i..Len(l)
  PROVE  /\ SubSeq(l, i, n) \in Seq(S) /\ Len(SubSeq(l, i, n)) = n - i + 1
         /\ \A k \in 1..(n - i + 1) : SubSeq(l, i, n)[k] = l[k + i - 1]
BY SubSeqProperties

(* A tail owes what its own assistant messages wait for.                   *)
LEMMA OwedByTail ==
  ASSUME NEW S, NEW l \in Seq(S), NEW i \in 1..Len(l), NEW n \in i..Len(l), NEW m \in (i - 1)..n, NEW c
  PROVE  c \in Owed(SubSeq(l, i, n), m - i + 1) <=> \E a \in i..m : Waits(l, a, m, c)
<1> DEFINE t == SubSeq(l, i, n)
<1>1. \A k \in 1..(n - i + 1) : t[k] = l[k + i - 1]
  BY TailMembers
<1>2. m - i + 1 \in Nat
  OBVIOUS
<1> HIDE DEF t
<1>3. ASSUME NEW a \in 1..(m - i + 1), Waits(t, a, m - i + 1, c)
      PROVE  a + i - 1 \in i..m /\ Waits(l, a + i - 1, m, c)
  <2>1. t[a] = l[a + i - 1] /\ a + i - 1 \in i..m
    BY <1>1, <1>3
  <2>2. ASSUME NEW j \in (a + i)..m PROVE l[j].role # "assistant" /\ c \notin Elems(l[j].calls)
    <3>1. j - i + 1 \in (a + 1)..(m - i + 1) /\ j - i + 1 \in 1..(n - i + 1) /\ (j - i + 1) + i - 1 = j
      BY <2>2
    <3>2. t[j - i + 1] = l[j]
      BY <1>1, <3>1
    <3> QED
      BY <1>3, <3>1, <3>2 DEF Waits
  <2>3. (a + i - 1) + 1 = a + i
    OBVIOUS
  <2> QED
    BY <1>3, <2>1, <2>2, <2>3 DEF Waits
<1>4. ASSUME NEW a \in i..m, Waits(l, a, m, c)
      PROVE  a - i + 1 \in 1..(m - i + 1) /\ Waits(t, a - i + 1, m - i + 1, c)
  <2>1. a - i + 1 \in 1..(m - i + 1) /\ a - i + 1 \in 1..(n - i + 1) /\ (a - i + 1) + i - 1 = a
    BY <1>4
  <2>2. t[a - i + 1] = l[a]
    BY <1>1, <2>1
  <2>3. ASSUME NEW j \in ((a - i + 1) + 1)..(m - i + 1)
        PROVE  t[j].role # "assistant" /\ c \notin Elems(t[j].calls)
    <3>1. j + i - 1 \in (a + 1)..m /\ j \in 1..(n - i + 1)
      BY <2>3
    <3>2. t[j] = l[j + i - 1]
      BY <1>1, <3>1
    <3> QED
      BY <1>4, <3>1, <3>2 DEF Waits
  <2> QED
    BY <1>4, <2>1, <2>2, <2>3 DEF Waits
<1> QED
  BY <1>2, <1>3, <1>4, OwedIsWaitedFor DEF t

LEMMA TailOwesLess ==
  ASSUME NEW S, NEW l \in Seq(S), NEW i \in 1..Len(l), NEW n \in i..Len(l), NEW m \in (i - 1)..n
  PROVE  Owed(SubSeq(l, i, n), m - i + 1) \subseteq Owed(l, m)
<1> SUFFICES ASSUME NEW c \in Owed(SubSeq(l, i, n), m - i + 1) PROVE c \in Owed(l, m)
  OBVIOUS
<1>1. PICK a \in i..m : Waits(l, a, m, c)
  BY OwedByTail
<1>2. a \in 1..m /\ m \in Nat
  OBVIOUS
<1> QED
  BY <1>1, <1>2, OwedIsWaitedFor

LEMMA NothingOwedAtFirst ==
  ASSUME NEW l PROVE Owed(l, 0) = {}
BY OwedIsWaitedFor

(* No batch of calls is cut: the first message of a tail that was a legal  *)
(* history is no tool result, so whatever a later result answers was       *)
(* requested in the tail.                                                  *)
LEMMA TailStaysSendable ==
  ASSUME NEW S, NEW l \in Seq(S), NEW i \in 1..Len(l), NEW n0 \in i..Len(l),
         \A j \in 1..Len(l) : l[j].role = "tool" => Elems(l[j].calls) # {},
         Sendable(SubSeq(l, i, n0)), Sendable(l)
  PROVE  Sendable(SubSeq(l, i, Len(l)))
<1> DEFINE n == Len(l)
           t == SubSeq(l, i, n)
           t0 == SubSeq(l, i, n0)
<1>1. /\ Len(t) = n - i + 1 /\ DOMAIN t = 1..(n - i + 1)
      /\ \A k \in 1..(n - i + 1) : t[k] = l[k + i - 1]
  <2>1. t \in Seq(S) /\ Len(t) = n - i + 1
    BY TailMembers
  <2> QED
    BY <2>1, TailMembers
<1>2. 1 \in DOMAIN t0 /\ t0[1] = l[i]
  <2>1. t0 \in Seq(S) /\ Len(t0) = n0 - i + 1 /\ \A k \in 1..(n0 - i + 1) : t0[k] = l[k + i - 1]
    BY TailMembers
  <2> HIDE DEF t0
  <2> QED
    BY <2>1
<1>3. l[i].role # "tool"
  <2>1. ASSUME l[i].role = "tool" PROVE Elems(l[i].calls) \subseteq Owed(t0, 0)
    <3>1. Elems(t0[1].calls) \subseteq Owed(t0, 1 - 1)
      <4> HIDE DEF t0
      <4> QED
        BY <1>2, <2>1 DEF Sendable, Unbroken, t0
    <3> QED
      BY <3>1, <1>2
  <2> QED
    BY <2>1, NothingOwedAtFirst
<1>4. ASSUME NEW k \in DOMAIN t
      PROVE  IF t[k].role = "tool" THEN Elems(t[k].calls) \subseteq Owed(t, k - 1) ELSE Owed(t, k - 1) = {}
  <2> DEFINE j == k + i - 1
  <2>1. j \in i..n /\ j \in DOMAIN l /\ j - 1 \in (i - 1)..n /\ (j - 1) - i + 1 = k - 1 /\ j - 1 \in Nat
    BY <1>1, <1>4
  <2>2. t[k] = l[j]
    BY <1>1, <1>4
  <2>3. n \in i..Len(l)
    OBVIOUS
  <2>4. IF l[j].role = "tool" THEN Elems(l[j].calls) \subseteq Owed(l, j - 1) ELSE Owed(l, j - 1) = {}
    BY <2>1 DEF Sendable, Unbroken
  <2> HIDE DEF j
  <2>5. CASE l[j].role # "tool"
    <3>1. Owed(t, (j - 1) - i + 1) \subseteq Owed(l, j - 1)
      BY <2>1, <2>3, TailOwesLess
    <3> QED
      BY <3>1, <2>1, <2>2, <2>4, <2>5
  <2>6. CASE l[j].role = "tool"
    <3> SUFFICES ASSUME NEW c \in Elems(l[j].calls) PROVE c \in Owed(t, (j - 1) - i + 1)
      BY <2>1, <2>2, <2>6
    <3>1. PICK a \in 1..(j - 1) : Waits(l, a, j - 1, c)
      BY <2>1, <2>4, <2>6, OwedIsWaitedFor
    <3>2. ASSUME a < i PROVE FALSE
      <4>1. j # i
        BY <1>3, <2>6
      <4>2. i - 1 \in Nat /\ a \in 1..(i - 1) /\ i \in DOMAIN l /\ \A q \in (a + 1)..(i - 1) : q \in (a + 1)..(j - 1)
        BY <2>1, <3>1, <3>2, <4>1
      <4>3. Waits(l, a, i - 1, c)
        BY <3>1, <4>2 DEF Waits
      <4>4. c \in Owed(l, i - 1)
        BY <4>2, <4>3, OwedIsWaitedFor
      <4>5. Owed(l, i - 1) = {}
        BY <1>3, <4>2 DEF Sendable, Unbroken
      <4> QED
        BY <4>4, <4>5
    <3>3. a \in i..(j - 1)
      BY <3>1, <3>2, <2>1
    <3> QED
      BY <3>1, <3>3, <2>1, <2>3, OwedByTail
  <2> QED
    BY <2>5, <2>6, <2>2
<1>5. Owed(t, Len(t)) = {}
  <2>1. n \in i..Len(l) /\ n \in (i - 1)..n /\ Len(t) = n - i + 1
    BY <1>1
  <2>2. Owed(t, n - i + 1) \subseteq Owed(l, n)
    BY <2>1, TailOwesLess
  <2> QED
    BY <2>1, <2>2 DEF Sendable
<1> QED
  BY <1>4, <1>5 DEF Sendable, Unbroken

-----------------------------------------------------------------------------
(* Types.                                                                  *)

LEMMA InitTypes == Init => TypeOK
BY DEF Init, TypeOK, Fresh, Runtime, Sources

LEMMA JobKind ==
  ASSUME TypeOK, NEW a \in Actors
  PROVE  job[a] # NoJob <=> job[a] \in Running
BY DEF TypeOK, NoJob, Running

LEMMA JobAtWork ==
  ASSUME TypeOK, NEW a \in Actors, job[a].stage # "none"
  PROVE  job[a] \in Running /\ job[a] # NoJob
BY DEF TypeOK, NoJob, Running

LEMMA RuntimeMoves ==
  ASSUME NEW r \in Runtime
  PROVE  /\ Failure(r) \in Runtime /\ Success(r) \in Runtime
         /\ \A n \in Nat : CountFailure(r, n) \in Runtime
         /\ \A k \in Nat, s \in Sources : Checkpointed(r, k, s) \in Runtime
<1>1. Failure(r) \in Runtime
  <2> DEFINE opened == r.open \/ r.failures + 1 >= FailureLimit
  <2>1. opened \in BOOLEAN
    OBVIOUS
  <2>2. r.failures + 1 \in Nat
    BY DEF Runtime
  <2>3. Failure(r) = [r EXCEPT !.failures = r.failures + 1, !.open = opened]
    BY DEF Failure, Runtime
  <2> HIDE DEF opened
  <2> QED
    BY <2>1, <2>2, <2>3 DEF Runtime
<1>2. Success(r) \in Runtime
  BY DEF Runtime, Success
<1>3. \A k \in Nat, s \in Sources : Checkpointed(r, k, s) \in Runtime
  BY DEF Runtime, Checkpointed
<1> QED
  BY <1>1, <1>2, <1>3 DEF CountFailure

LEMMA SourceTypes ==
  ASSUME NEW j \in Running
  PROVE  L4Source(j) \in Sources /\ ViewSource(j) \in Sources
BY DEF Running, L4Source, ViewSource, Sources

LEMMA WhatConverseAdds ==
  ASSUME TypeOK, Converse
  PROVE  /\ \E m \in Message : messages' = Append(messages, m) /\ (m.role = "tool" => Elems(m.calls) # {})
         /\ UNCHANGED <<checkpoints, version, stored, live, job, clock, jobs, restarts>>
<1>1. \A c \in Calls : /\ Result(c, "ran") \in Message /\ Elems(Result(c, "ran").calls) # {}
                      /\ Assistant(<<c>>) \in Message
  BY DEF Result, Assistant, Message, ResultKinds, Elems
<1>2. User("input") \in Message /\ Assistant(<<>>) \in Message
  BY DEF User, Assistant, Message, UserKinds
<1>3. \A c : User("input").role # "tool" /\ Assistant(c).role # "tool"
  BY DEF User, Assistant
<1>4. Owed(messages, Len(messages)) \subseteq Calls
  <2>1. Len(messages) \in Nat /\ DOMAIN messages = 1..Len(messages)
    BY DEF TypeOK
  <2> SUFFICES ASSUME NEW c \in Owed(messages, Len(messages)) PROVE c \in Calls
    OBVIOUS
  <2>2. PICK a \in 1..Len(messages) : Waits(messages, a, Len(messages), c)
    BY <2>1, OwedIsWaitedFor
  <2>3. messages[a] \in Message /\ messages[a].role = "assistant"
    BY <2>1, <2>2 DEF TypeOK, Waits
  <2>4. messages[a].calls \in Seq(Calls)
    BY <2>3 DEF Message
  <2> QED
    BY <2>2, <2>4 DEF Waits, Elems
<1> QED
  BY <1>1, <1>2, <1>3, <1>4 DEF Converse, Appended

LEMMA ConverseTypes ==
  ASSUME TypeOK, Converse, UNCHANGED setting
  PROVE  TypeOK'
<1>1. PICK m \in Message : messages' = Append(messages, m)
  BY WhatConverseAdds
<1>2. messages' \in Seq(Message)
  BY <1>1 DEF TypeOK
<1>3. UNCHANGED <<checkpoints, version, stored, live, job, clock, jobs, restarts>>
  BY WhatConverseAdds
<1> QED
  BY <1>2, <1>3 DEF TypeOK

(* What Start and the steps of a compaction leave as it is.                *)
JobStep(a, j) ==
  /\ j \in {NoJob} \cup Running /\ job' = [job EXCEPT ![a] = j]
  /\ UNCHANGED <<setting, messages>>

LEMMA LatestIsThere ==
  ASSUME TypeOK, HasLatest
  PROVE  /\ Latest \in 0..Len(checkpoints) /\ (checkpoints # <<>> => IsLatest(Latest))
         /\ checkpoints # <<>> <=> Latest # 0
<1>1. CASE checkpoints = <<>>
  BY <1>1 DEF Latest
<1>2. CASE checkpoints # <<>>
  <2>1. PICK i \in DOMAIN checkpoints : IsLatest(i)
    BY <1>2 DEF HasLatest
  <2>2. Latest \in DOMAIN checkpoints /\ IsLatest(Latest)
    BY <1>2, <2>1 DEF Latest, IsLatest
  <2>3. DOMAIN checkpoints = 1..Len(checkpoints) /\ Len(checkpoints) \in Nat
    BY DEF TypeOK
  <2> QED
    BY <2>2, <2>3, <1>2
<1> QED
  BY <1>1, <1>2

LEMMA WhatStartDoes ==
  ASSUME TypeOK, HasLatest, NEW a \in Actors, NEW trigger \in setting.triggers, Start(a, trigger), UNCHANGED setting
  PROVE  \E j \in Running :
           /\ JobStep(a, j) /\ j.stage = "programmatic" /\ j.base \in 0..Len(checkpoints)
           /\ j.seen \in 0..Len(messages) /\ (a = "user" <=> j.trigger = "manual")
           /\ jobs' \in Nat /\ job[a] = NoJob /\ UNCHANGED <<file, live, clock, restarts>>
<1> DEFINE j == [stage |-> "programmatic", trigger |-> trigger, round |-> "first",
        seen |-> Len(messages), base |-> Latest, version |-> version,
        before |-> live.failures, attempts |-> 0, calls |-> 0, reason |-> "none",
        checkpoint |-> 0]
<1>1. trigger \in AllTriggers
  BY SettingsAssumption DEF TypeOK
<1>2. Len(messages) \in Nat /\ Latest \in 0..Len(checkpoints) /\ Latest \in Nat /\ Len(checkpoints) \in Nat
  BY LatestIsThere DEF TypeOK
<1>3. live.failures \in Nat /\ version \in Nat
  BY DEF TypeOK, Runtime
<1>4. j \in Running
  BY <1>1, <1>2, <1>3 DEF Running
<1>5. job' = [job EXCEPT ![a] = j] /\ jobs' \in Nat /\ (a = "user" <=> trigger = "manual") /\ job[a] = NoJob
  BY DEF Start, TypeOK
<1>6. UNCHANGED <<file, live, clock, restarts>> /\ UNCHANGED <<setting, messages>>
  BY DEF Start, file
<1>7. j.stage = "programmatic" /\ j.base = Latest /\ j.seen = Len(messages) /\ j.trigger = trigger
  OBVIOUS
<1>8. JobStep(a, j)
  BY <1>4, <1>5, <1>6 DEF JobStep
<1> HIDE DEF j
<1> QED
  BY <1>2, <1>4, <1>5, <1>6, <1>7, <1>8

-----------------------------------------------------------------------------
(* The steps of a compaction: what it works on stays, only a call of the   *)
(* summarizer counts as one, and while one is due the circuit is closed    *)
(* unless the user asked for it.                                           *)
Effect(a, j) ==
  /\ JobStep(a, j) /\ UNCHANGED <<jobs, restarts>>
  /\ j # NoJob => /\ job[a] # NoJob /\ j \in Running /\ j.base = job[a].base /\ j.seen = job[a].seen
                  /\ j.trigger = job[a].trigger
                  /\ job[a].stage # "summarize" => j.calls = job[a].calls
  /\ version' \in Nat /\ stored' \in Runtime /\ live' \in Runtime /\ clock' \in Nat
  /\ a = "user" => live' = live \/ live'.open = FALSE
  /\ j.stage = "summarize" /\ a # "user" => live'.open = FALSE

LEMMA FallbackFacts ==
  ASSUME TypeOK, NEW a \in Actors, NEW j \in Running,
         NEW reason \in Errors \cup {"duplicate_source", "circuit_open"}, Fallback(a, j, reason)
  PROVE  \E d \in Running :
           /\ job' = [job EXCEPT ![a] = d] /\ d.base = j.base /\ d.seen = j.seen /\ d.trigger = j.trigger
           /\ d.calls = j.calls /\ d.stage \in {"programmatic", "l4", "record_failure"}
<1> DEFINE stage == IF j.round = "stronger" THEN "record_failure"
                 ELSE CASE reason = "prompt_too_long"          -> "programmatic"
                        [] reason \in {"timeout", "no_summary"} -> "l4"
                        [] OTHER                               -> "record_failure"
           round == IF reason \in Errors THEN "stronger" ELSE j.round
           d == [j EXCEPT !.reason = reason, !.attempts = 0, !.round = round, !.stage = stage]
<1>1. stage \in {"programmatic", "l4", "record_failure"}
  OBVIOUS
<1>2. round \in {"first", "stronger"}
  BY DEF Running
<1>3. job' = [job EXCEPT ![a] = d]
  BY DEF Fallback, Running
<1> HIDE DEF stage, round
<1>4. d \in Running
  BY <1>1, <1>2 DEF Running
<1>5. d.base = j.base /\ d.seen = j.seen /\ d.trigger = j.trigger /\ d.calls = j.calls /\ d.stage = stage
  BY DEF Running
<1> QED
  BY <1>1, <1>3, <1>4, <1>5

LEMMA WhatProgrammaticDoes ==
  ASSUME IInv, NEW a \in Actors, Programmatic(a), UNCHANGED setting
  PROVE  \E j : Effect(a, j) /\ UNCHANGED checkpoints
<1> DEFINE c == job[a]
<1>1. TypeOK /\ c.stage = "programmatic" /\ c \in Running /\ c # NoJob /\ UNCHANGED <<messages, checkpoints, clock, jobs, restarts>>
  BY JobAtWork DEF IInv, Programmatic
<1>2. stored' \in Runtime
  <2>1. ViewSource(c) \in Sources /\ stored' = [stored EXCEPT !.source = ViewSource(c)]
    BY <1>1, SourceTypes DEF Programmatic
  <2> QED
    BY <2>1, <1>1 DEF TypeOK, Runtime
<1>3. Success(live) \in Runtime /\ Success(live).open = FALSE /\ live \in Runtime /\ clock \in Nat
  BY <1>1, RuntimeMoves DEF TypeOK, Success, Runtime
<1>4. version \in Nat /\ version + 1 \in Nat
  BY <1>1 DEF TypeOK
<1>5. PICK changed \in BOOLEAN :
        LET v == IF changed THEN version + 1 ELSE version IN
        /\ version' = v
        /\ \/ Finish(a) /\ live' = IF Manual(a) THEN live ELSE Success(live)
           \/ /\ \/ job' = [job EXCEPT ![a].stage = "record_success"]
                 \/ job' = [job EXCEPT ![a].stage = "l4", ![a].version = IF changed THEN v ELSE @]
              /\ UNCHANGED live
  BY DEF Programmatic, StrongerEnough
<1>6. version' \in Nat
  BY <1>4, <1>5
<1>7. CASE Finish(a) /\ live' = IF Manual(a) THEN live ELSE Success(live)
  <2>1. job' = [job EXCEPT ![a] = NoJob] /\ NoJob.stage # "summarize"
    BY <1>7 DEF Finish, NoJob
  <2>2. live' \in Runtime /\ (live' = live \/ live'.open = FALSE)
    BY <1>3, <1>7
  <2>3. Effect(a, NoJob)
    BY <2>1, <2>2, <1>1, <1>2, <1>3, <1>6 DEF Effect, JobStep
  <2> QED
    BY <2>3, <1>1
<1>8. ASSUME NEW d \in Running, UNCHANGED live, job' = [job EXCEPT ![a] = d],
             d.base = c.base, d.seen = c.seen, d.trigger = c.trigger, d.calls = c.calls,
             d.stage \in {"record_success", "l4"}
      PROVE  \E j : Effect(a, j) /\ UNCHANGED checkpoints
  <2>1. Effect(a, d)
    <3> HIDE DEF c
    <3> QED
      BY <1>1, <1>2, <1>3, <1>6, <1>8 DEF Effect, JobStep, c
  <2> QED
    BY <2>1, <1>1
<1>9. CASE UNCHANGED live /\ job' = [job EXCEPT ![a].stage = "record_success"]
  <2> DEFINE d == [c EXCEPT !.stage = "record_success"]
  <2>1. job' = [job EXCEPT ![a] = d]
    BY <1>1, <1>9 DEF TypeOK
  <2>2. d \in Running /\ d.base = c.base /\ d.seen = c.seen /\ d.trigger = c.trigger /\ d.calls = c.calls
        /\ d.stage \in {"record_success", "l4"}
    BY <1>1 DEF Running
  <2> HIDE DEF d
  <2> QED
    BY <1>8, <1>9, <2>1, <2>2
<1>10. CASE UNCHANGED live /\ job' = [job EXCEPT ![a].stage = "l4",
                ![a].version = IF changed THEN (IF changed THEN version + 1 ELSE version) ELSE @]
  <2> DEFINE d == [c EXCEPT !.stage = "l4", !.version = IF changed THEN version + 1 ELSE @]
  <2>1. job' = [job EXCEPT ![a] = d]
    BY <1>1, <1>10 DEF TypeOK
  <2>2. d \in Running /\ d.base = c.base /\ d.seen = c.seen /\ d.trigger = c.trigger /\ d.calls = c.calls
        /\ d.stage \in {"record_success", "l4"}
    BY <1>1, <1>4 DEF Running
  <2> HIDE DEF d
  <2> QED
    BY <1>8, <1>10, <2>1, <2>2
<1> QED
  BY <1>5, <1>7, <1>9, <1>10

LEMMA WhatEnterL4Does ==
  ASSUME IInv, NEW a \in Actors, EnterL4(a), UNCHANGED setting
  PROVE  \E j : Effect(a, j) /\ UNCHANGED checkpoints
<1> DEFINE c == job[a]
<1>1. /\ TypeOK /\ c.stage = "l4" /\ c \in Running /\ c # NoJob /\ (a = "user" <=> c.trigger = "manual")
      /\ UNCHANGED <<messages, checkpoints, version, stored, live, clock, jobs, restarts>>
  BY JobAtWork DEF IInv, EnterL4, Grounded, file
<1>2. version \in Nat /\ stored \in Runtime /\ live \in Runtime /\ clock \in Nat
  BY <1>1 DEF TypeOK
<1>3. ASSUME NEW reason \in {"duplicate_source", "circuit_open"}, Fallback(a, c, reason)
      PROVE  \E j : Effect(a, j) /\ UNCHANGED checkpoints
  <2>1. PICK d \in Running :
           /\ job' = [job EXCEPT ![a] = d] /\ d.base = c.base /\ d.seen = c.seen /\ d.trigger = c.trigger
           /\ d.calls = c.calls /\ d.stage \in {"programmatic", "l4", "record_failure"}
    BY <1>1, <1>3, FallbackFacts
  <2>2. Effect(a, d)
    BY <2>1, <1>1, <1>2 DEF Effect, JobStep
  <2> QED
    BY <2>2, <1>1
<1>4. CASE (Manual(a) \/ ~live.open) /\ job' = [job EXCEPT ![a].stage = "summarize"]
  <2> DEFINE d == [c EXCEPT !.stage = "summarize"]
  <2>1. job' = [job EXCEPT ![a] = d]
    BY <1>1, <1>4 DEF TypeOK
  <2>2. d \in Running /\ d.base = c.base /\ d.seen = c.seen /\ d.trigger = c.trigger /\ d.calls = c.calls
    BY <1>1 DEF Running
  <2>3. a # "user" => live.open = FALSE
    BY <1>1, <1>2, <1>4 DEF Manual, Runtime
  <2>4. Effect(a, d)
    <3> HIDE DEF d, c
    <3> QED
      BY <2>1, <2>2, <2>3, <1>1, <1>2 DEF Effect, JobStep, c
  <2> QED
    BY <2>4, <1>1
<1> QED
  BY <1>3, <1>4 DEF EnterL4

LEMMA WhatSummaryFailsDoes ==
  ASSUME IInv, NEW a \in Actors, SummaryFails(a), UNCHANGED setting
  PROVE  \E j : Effect(a, j) /\ UNCHANGED checkpoints
<1> DEFINE c == job[a]
           d == [c EXCEPT !.attempts = @ + 1, !.calls = OneMore(@)]
<1>1. /\ TypeOK /\ c.stage = "summarize" /\ c \in Running /\ c # NoJob /\ (a = "user" <=> c.trigger = "manual")
      /\ UNCHANGED <<messages, checkpoints, version, stored, clock, jobs, restarts>>
  BY JobAtWork DEF IInv, SummaryFails, Grounded, file
<1>2. version \in Nat /\ stored \in Runtime /\ live \in Runtime /\ clock \in Nat /\ Failure(live) \in Runtime
  BY <1>1, RuntimeMoves DEF TypeOK
<1>3. d \in Running /\ d.base = c.base /\ d.seen = c.seen /\ d.trigger = c.trigger /\ d.stage = "summarize"
  <2>1. c.attempts + 1 \in Nat /\ OneMore(c.calls) \in Nat
    BY <1>1 DEF Running, OneMore
  <2> QED
    BY <1>1, <2>1 DEF Running
<1>4. PICK reason \in IF Boundaries(c.base, c.seen) = {} THEN {"no_summary"} ELSE setting.refusals :
        IF d.attempts <= Retries(reason)
        THEN job' = [job EXCEPT ![a] = d] /\ UNCHANGED live
        ELSE /\ Fallback(a, d, reason)
             /\ live' = IF Manual(a) THEN live ELSE Failure(live)
  BY DEF SummaryFails
<1>5. reason \in Errors
  BY <1>1, <1>4, SettingsAssumption DEF TypeOK, Errors
<1> HIDE DEF d
<1>6. CASE job' = [job EXCEPT ![a] = d] /\ UNCHANGED live
  <2>1. a # "user" => live.open = FALSE
    BY <1>1 DEF IInv, Heeds
  <2>2. Effect(a, d)
    BY <2>1, <1>1, <1>2, <1>3, <1>6 DEF Effect, JobStep
  <2> QED
    BY <2>2, <1>1
<1>7. CASE Fallback(a, d, reason) /\ live' = IF Manual(a) THEN live ELSE Failure(live)
  <2>1. PICK e \in Running :
           /\ job' = [job EXCEPT ![a] = e] /\ e.base = d.base /\ e.seen = d.seen /\ e.trigger = d.trigger
           /\ e.calls = d.calls /\ e.stage \in {"programmatic", "l4", "record_failure"}
    BY <1>1, <1>3, <1>5, <1>7, FallbackFacts
  <2>2. live' \in Runtime /\ (a = "user" => live' = live)
    BY <1>1, <1>2, <1>7 DEF Manual
  <2>3. Effect(a, e)
    BY <2>1, <2>2, <1>1, <1>2, <1>3 DEF Effect, JobStep
  <2> QED
    BY <2>3, <1>1
<1> QED
  BY <1>4, <1>6, <1>7

(* The recording of a result ends the compaction.                          *)
LEMMA RecordingEffect ==
  ASSUME IInv, NEW a \in Actors, Finish(a), UNCHANGED <<setting, messages, checkpoints, version, clock, jobs, restarts>>,
         stored' \in Runtime, live' \in Runtime, a = "user" => live' = live \/ live'.open = FALSE
  PROVE  \E j : Effect(a, j) /\ UNCHANGED checkpoints
<1>1. job' = [job EXCEPT ![a] = NoJob] /\ NoJob.stage # "summarize"
  BY DEF Finish, NoJob
<1>2. version' \in Nat /\ clock' \in Nat
  BY DEF IInv, TypeOK
<1>3. Effect(a, NoJob)
  BY <1>1, <1>2 DEF Effect, JobStep
<1> QED
  BY <1>3

LEMMA WhatRecordSuccessDoes ==
  ASSUME IInv, NEW a \in Actors, RecordSuccess(a), UNCHANGED setting
  PROVE  \E j : Effect(a, j) /\ UNCHANGED checkpoints
<1> DEFINE c == job[a]
           k == IF c.checkpoint # 0 THEN c.checkpoint ELSE Success(stored).latest
<1>1. TypeOK /\ c.stage = "record_success" /\ c \in Running /\ UNCHANGED <<messages, checkpoints, version, clock, jobs, restarts>>
  BY JobAtWork DEF IInv, RecordSuccess
<1>2. /\ Success(live) \in Runtime /\ Success(live).open = FALSE /\ live \in Runtime
      /\ Success(stored) \in Runtime /\ L4Source(c) \in Sources
  BY <1>1, RuntimeMoves, SourceTypes DEF TypeOK, Success, Runtime
<1>3. k \in Nat
  BY <1>1, <1>2 DEF Running, Runtime
<1>4. stored' \in Runtime
  <2>1. stored' = [Success(stored) EXCEPT !.source = L4Source(c), !.latest = k]
    BY <1>2 DEF RecordSuccess, Runtime
  <2> HIDE DEF k
  <2> QED
    BY <2>1, <1>2, <1>3 DEF Runtime
<1>5. live' \in Runtime /\ (live' = live \/ live'.open = FALSE)
  BY <1>2 DEF RecordSuccess
<1>6. Finish(a)
  BY DEF RecordSuccess
<1> QED
  BY <1>1, <1>4, <1>5, <1>6, RecordingEffect

LEMMA WhatRecordFailureDoes ==
  ASSUME IInv, NEW a \in Actors, RecordFailure(a), UNCHANGED setting
  PROVE  \E j : Effect(a, j) /\ UNCHANGED checkpoints
<1> DEFINE c == job[a]
           s == [stored EXCEPT !.source = L4Source(c)]
<1>1. /\ TypeOK /\ c.stage = "record_failure" /\ c \in Running /\ c # NoJob /\ (a = "user" <=> c.trigger = "manual")
      /\ UNCHANGED <<messages, checkpoints, version, clock, jobs, restarts>>
  BY JobAtWork DEF IInv, RecordFailure, Grounded
<1>2. s \in Runtime /\ Failure(s) \in Runtime
  <2>1. L4Source(c) \in Sources /\ stored \in Runtime
    BY <1>1, SourceTypes DEF TypeOK
  <2>2. s \in Runtime
    BY <2>1 DEF Runtime
  <2> QED
    BY <2>2, RuntimeMoves
<1>3. stored' \in Runtime
  BY <1>2 DEF RecordFailure
<1>4. c.before \in Nat /\ live \in Runtime
  BY <1>1 DEF TypeOK, Running
<1>5. live' \in Runtime /\ (a = "user" => live' = live)
  BY <1>1, <1>4, RuntimeMoves DEF RecordFailure, Manual
<1>6. Finish(a)
  BY DEF RecordFailure
<1> QED
  BY <1>1, <1>3, <1>5, <1>6, RecordingEffect

(* A summary adds a checkpoint.                                            *)
LEMMA WhatSummarizedDoes ==
  ASSUME IInv, NEW a \in Actors, Summarized(a), UNCHANGED setting
  PROVE  /\ \E j : Effect(a, j)
         /\ \E k \in Checkpoint : /\ checkpoints' = Append(checkpoints, k)
              /\ k.base = job[a].base /\ k.start \in Boundaries(job[a].base, job[a].seen)
              /\ k.covered = k.start - 1
              /\ \A i \in DOMAIN checkpoints : checkpoints[i].id # k.id
<1> DEFINE c == job[a]
<1>1. /\ TypeOK /\ c.stage = "summarize" /\ c \in Running /\ c # NoJob
      /\ UNCHANGED <<messages, version, jobs, restarts>>
  BY JobAtWork DEF IInv, Summarized
<1>2. L4Source(c) \in Sources /\ stored \in Runtime /\ live \in Runtime /\ Success(live) \in Runtime /\ version \in Nat
  BY <1>1, RuntimeMoves, SourceTypes DEF TypeOK
<1>3. PICK start \in Boundaries(c.base, c.seen), t \in Seconds, id \in 1..MaxJobs :
        /\ clock' = clock + t
        /\ checkpoints' = checkpoints \o
             <<[base |-> c.base, start |-> start, covered |-> start - 1,
                source |-> L4Source(c), at |-> clock', id |-> id]>>
        /\ \A i \in DOMAIN checkpoints : checkpoints[i].id # id
  BY DEF Summarized
<1> DEFINE k == [base |-> c.base, start |-> start, covered |-> start - 1,
                 source |-> L4Source(c), at |-> clock', id |-> id]
<1>4. clock' \in Nat
  BY <1>1, <1>3, SecondsAssumption DEF TypeOK
<1>5. From(c.base) \in Nat
  <2>1. c.base = 0 \/ c.base \in DOMAIN checkpoints
    <3>1. c.base \in 0..Len(checkpoints) /\ DOMAIN checkpoints = 1..Len(checkpoints) /\ Len(checkpoints) \in Nat
      BY <1>1 DEF IInv, Grounded, TypeOK
    <3> QED
      BY <3>1
  <2>2. \A i \in DOMAIN checkpoints : checkpoints[i].start \in Nat
    <3>1. \A i \in DOMAIN checkpoints : checkpoints[i] \in Checkpoint
      BY <1>1 DEF TypeOK
    <3> QED
      BY <3>1 DEF Checkpoint
  <2> QED
    BY <2>1, <2>2 DEF From
<1>6. start \in Nat \ {0} /\ start - 1 \in Nat
  <2>1. start \in (From(c.base) + 1)..c.seen /\ c.seen \in Nat
    BY <1>1, <1>3 DEF Boundaries, Running
  <2> QED
    BY <2>1, <1>5
<1>7. k \in Checkpoint /\ k.id = id /\ k.start = start /\ k.base = c.base /\ k.covered = start - 1
  <2>1. c.base \in Nat /\ id \in Nat
    BY <1>1, BoundsAssumption DEF Running
  <2> QED
    BY <1>2, <1>4, <1>6, <2>1 DEF Checkpoint
<1>8. checkpoints' = Append(checkpoints, k) /\ checkpoints \in Seq(Checkpoint)
  <2> HIDE DEF k
  <2>1. checkpoints' = checkpoints \o <<k>>
    BY <1>3 DEF k
  <2>2. checkpoints \in Seq(Checkpoint) /\ k \in Checkpoint
    BY <1>1, <1>7 DEF TypeOK
  <2> QED
    BY <2>1, <2>2, AppendIsConcat
<1>9. Len(checkpoints') \in Nat
  <2> HIDE DEF k
  <2> QED
    BY <1>7, <1>8
<1> DEFINE n == Len(checkpoints')
           d == [c EXCEPT !.stage = "record_success", !.calls = OneMore(c.calls), !.checkpoint = n]
<1>10. d \in Running /\ d.base = c.base /\ d.seen = c.seen /\ d.trigger = c.trigger /\ d.stage = "record_success"
  <2>1. OneMore(c.calls) \in Nat
    BY <1>1 DEF Running, OneMore
  <2> HIDE DEF n
  <2> QED
    BY <1>1, <1>9, <2>1 DEF Running, n
<1>11. job' = [job EXCEPT ![a] = d]
  <2>1. job' = [job EXCEPT ![a].stage = "record_success", ![a].calls = OneMore(@), ![a].checkpoint = n]
    BY DEF Summarized
  <2> HIDE DEF n
  <2> QED
    BY <2>1, <1>1 DEF TypeOK, Running
<1>12. stored' \in Runtime /\ live' \in Runtime /\ live'.open = FALSE
  <2>1. stored' = Checkpointed(stored, n, L4Source(c)) /\ live' = Checkpointed(Success(live), n, L4Source(c))
    BY DEF Summarized
  <2> HIDE DEF n
  <2>2. stored' \in Runtime /\ live' \in Runtime
    BY <2>1, <1>2, <1>9, RuntimeMoves DEF n
  <2> QED
    BY <2>1, <2>2, <1>2 DEF Checkpointed, Success, Runtime
<1>13. Effect(a, d)
  <2> HIDE DEF d
  <2> QED
    BY <1>1, <1>2, <1>4, <1>10, <1>11, <1>12 DEF Effect, JobStep
<1>14. k.start \in Boundaries(c.base, c.seen) /\ k.covered = k.start - 1 /\ \A i \in DOMAIN checkpoints : checkpoints[i].id # k.id
  BY <1>3, <1>7
<1> HIDE DEF k, d, n
<1> QED
  BY <1>7, <1>8, <1>13, <1>14

-----------------------------------------------------------------------------
(* What each kind of step keeps.                                           *)

LEMMA EffectKeepsJobs ==
  ASSUME IInv, NEW a \in Actors, NEW j, Effect(a, j), checkpoints' \in Seq(Checkpoint),
         Len(checkpoints) <= Len(checkpoints')
  PROVE  TypeOK' /\ ResultsAnswer' /\ (\A b \in Actors : Grounded(b) /\ Heeds(b))'
<1>1. /\ TypeOK /\ j \in {NoJob} \cup Running /\ job' = [job EXCEPT ![a] = j] /\ UNCHANGED <<setting, messages>>
      /\ Len(checkpoints) \in Nat /\ Len(checkpoints') \in Nat
  BY DEF IInv, Effect, JobStep, TypeOK
<1>2. TypeOK'
  BY <1>1 DEF TypeOK, Effect
<1>3. ResultsAnswer'
  BY <1>1 DEF IInv, ResultsAnswer
<1>4. job'[a] = j /\ \A b \in Actors : b # a => job'[b] = job[b]
  BY <1>1 DEF TypeOK
<1>5. ASSUME NEW b \in Actors, job'[b] # NoJob
      PROVE  /\ job'[b].base \in 0..Len(checkpoints') /\ job'[b].seen \in 0..Len(messages')
             /\ b = "user" <=> job'[b].trigger = "manual"
  <2>1. /\ job[b] # NoJob /\ job'[b].base = job[b].base /\ job'[b].seen = job[b].seen
        /\ job'[b].trigger = job[b].trigger
    <3>1. CASE b = a
      BY <1>4, <1>5, <3>1 DEF Effect
    <3>2. CASE b # a
      BY <1>4, <1>5, <3>2
    <3> QED
      BY <3>1, <3>2
  <2>2. /\ job[b].base \in 0..Len(checkpoints) /\ job[b].seen \in 0..Len(messages)
        /\ b = "user" <=> job[b].trigger = "manual"
    BY <2>1 DEF IInv, Grounded
  <2> QED
    BY <2>1, <2>2, <1>1
<1>6. ASSUME NEW b \in Actors, job'[b].stage = "summarize", b # "user"
      PROVE  live'.open = FALSE
  <2>1. CASE b = a
    BY <1>4, <1>6, <2>1 DEF Effect
  <2>2. CASE b # a
    <3>1. a = "user" /\ live.open = FALSE
      BY <1>4, <1>6, <2>2, ActorsAssumption DEF IInv, Heeds
    <3> QED
      BY <3>1 DEF Effect
  <2> QED
    BY <2>1, <2>2
<1> QED
  BY <1>2, <1>3, <1>5, <1>6 DEF Grounded, Heeds

LEMMA SameCheckpoints ==
  ASSUME IInv, UNCHANGED <<messages, checkpoints>>
  PROVE  Chained' /\ HasLatest'
<1>1. Chained'
  BY DEF IInv, Chained
<1>2. HasLatest'
  BY DEF IInv, HasLatest, IsLatest, NewerThan, SequenceOf
<1> QED
  BY <1>1, <1>2

LEMMA CheckpointFacts ==
  ASSUME TypeOK, NEW k \in DOMAIN checkpoints
  PROVE  /\ checkpoints[k].base \in Nat /\ checkpoints[k].start \in Nat \ {0} /\ checkpoints[k].covered \in Nat
         /\ checkpoints[k].at \in Nat /\ checkpoints[k].id \in Nat
<1>1. checkpoints[k] \in Checkpoint
  BY DEF TypeOK
<1> QED
  BY <1>1 DEF Checkpoint

(* The history grows: what a summary was made of is still there.           *)
LEMMA MoreMessages ==
  ASSUME IInv, NEW m \in Message, m.role = "tool" => Elems(m.calls) # {},
         messages' = Append(messages, m), UNCHANGED <<checkpoints, live, job>>
  PROVE  ResultsAnswer' /\ Chained' /\ HasLatest' /\ (\A b \in Actors : Grounded(b) /\ Heeds(b))'
<1>1. messages \in Seq(Message) /\ Len(messages) \in Nat
  BY DEF IInv, TypeOK
<1>2. /\ Len(messages') = Len(messages) + 1 /\ DOMAIN messages' = 1..(Len(messages) + 1)
      /\ messages'[Len(messages) + 1] = m /\ \A i \in 1..Len(messages) : messages'[i] = messages[i]
  BY <1>1
<1>3. ResultsAnswer'
  BY <1>1, <1>2 DEF IInv, ResultsAnswer
<1>4. (\A b \in Actors : Grounded(b) /\ Heeds(b))'
  BY <1>1, <1>2 DEF IInv, Grounded, Heeds
<1>5. HasLatest'
  BY DEF IInv, HasLatest, IsLatest, NewerThan, SequenceOf
<1>6. ASSUME NEW k \in DOMAIN checkpoints, NEW n \in checkpoints[k].start..Len(messages)
      PROVE  SubSeq(messages', checkpoints[k].start, n) = SubSeq(messages, checkpoints[k].start, n)
  <2> DEFINE s == checkpoints[k].start
  <2>1. s \in Nat \ {0}
    BY CheckpointFacts DEF IInv
  <2> HIDE DEF s
  <2>2. messages' \in Seq(Message)
    BY <1>1
  <2>3. s \in 1..Len(messages) /\ s \in 1..Len(messages') /\ n \in s..Len(messages) /\ n \in s..Len(messages')
    BY <2>1, <1>1, <1>2, <1>6 DEF s
  <2>4. /\ SubSeq(messages, s, n) \in Seq(Message) /\ Len(SubSeq(messages, s, n)) = n - s + 1
        /\ \A i \in 1..(n - s + 1) : SubSeq(messages, s, n)[i] = messages[i + s - 1]
    BY <1>1, <2>3, TailMembers
  <2>5. /\ SubSeq(messages', s, n) \in Seq(Message) /\ Len(SubSeq(messages', s, n)) = n - s + 1
        /\ \A i \in 1..(n - s + 1) : SubSeq(messages', s, n)[i] = messages'[i + s - 1]
    BY <2>2, <2>3, TailMembers
  <2>6. \A i \in 1..(n - s + 1) : SubSeq(messages', s, n)[i] = SubSeq(messages, s, n)[i]
    <3> TAKE i \in 1..(n - s + 1)
    <3>1. i + s - 1 \in 1..Len(messages)
      BY <2>1, <2>3, <1>1
    <3> QED
      BY <3>1, <1>2, <2>4, <2>5
  <2> QED
    BY <2>4, <2>5, <2>6, SeqEqual DEF s
<1>7. Chained'
  <2>1. ASSUME NEW k \in DOMAIN checkpoints PROVE Builds(checkpoints, messages', k)
    <3>1. Builds(checkpoints, messages, k)
      BY DEF IInv, Chained
    <3>2. PICK n \in checkpoints[k].start..Len(messages) : Sendable(SubSeq(messages, checkpoints[k].start, n))
      BY <3>1 DEF Builds
    <3>3. checkpoints[k].start \in Nat
      BY CheckpointFacts DEF IInv
    <3>4. n \in checkpoints[k].start..Len(messages')
      BY <1>1, <1>2, <3>2, <3>3
    <3>5. Sendable(SubSeq(messages', checkpoints[k].start, n))
      BY <1>6, <3>2
    <3> QED
      BY <3>1, <3>4, <3>5 DEF Builds
  <2> QED
    BY <2>1 DEF IInv, Chained
<1> QED
  BY <1>3, <1>4, <1>5, <1>7

(* A checkpoint is added: the newest is either that one or the one before. *)
LEMMA OneMoreCheckpoint ==
  ASSUME IInv, NEW a \in Actors, job[a] # NoJob, UNCHANGED messages, NEW c \in Checkpoint,
         checkpoints' = Append(checkpoints, c), c.base = job[a].base,
         c.start \in Boundaries(job[a].base, job[a].seen), c.covered = c.start - 1,
         \A i \in DOMAIN checkpoints : checkpoints[i].id # c.id
  PROVE  Chained' /\ HasLatest' /\ checkpoints' \in Seq(Checkpoint) /\ Len(checkpoints) <= Len(checkpoints')
<1> DEFINE n == Len(checkpoints)
           K == n + 1
<1>1. checkpoints \in Seq(Checkpoint) /\ n \in Nat /\ DOMAIN checkpoints = 1..n
  BY DEF IInv, TypeOK
<1>2. /\ checkpoints' \in Seq(Checkpoint) /\ Len(checkpoints') = K /\ DOMAIN checkpoints' = 1..K
      /\ checkpoints'[K] = c /\ \A i \in 1..n : checkpoints'[i] = checkpoints[i]
  BY <1>1
<1>3. c.at \in Nat /\ c.id \in Nat /\ c.start \in Nat
  BY DEF Checkpoint
<1>4. \A i \in 1..n : checkpoints[i].at \in Nat /\ checkpoints[i].id \in Nat
  BY <1>1, CheckpointFacts DEF IInv
<1> HIDE DEF n
<1>5. \A i \in 1..K : i \in 1..n \/ i = K
  BY <1>1
<1>6. K \notin 1..n
  BY <1>1
<1>7. \A k \in 0..n : Begins(checkpoints', k) = Begins(checkpoints, k)
  BY <1>1, <1>2 DEF Begins
<1>8. \A k \in 1..n : Builds(checkpoints', messages, k)
  <2> TAKE k \in 1..n
  <2>1. Builds(checkpoints, messages, k)
    BY <1>1 DEF IInv, Chained
  <2>2. checkpoints[k].base \in 0..n
    BY <1>1, <2>1 DEF Builds
  <2>3. checkpoints'[k] = checkpoints[k] /\ Begins(checkpoints', checkpoints[k].base) = Begins(checkpoints, checkpoints[k].base)
    BY <1>2, <1>7, <2>2
  <2> QED
    BY <2>1, <2>3 DEF Builds
<1>9. Builds(checkpoints', messages, K)
  <2>1. c.base \in 0..n /\ job[a].seen \in 0..Len(messages)
    BY DEF IInv, Grounded, n
  <2>2. c.start \in (Begins(checkpoints, c.base) + 1)..job[a].seen /\ Sendable(SubSeq(messages, c.start, job[a].seen))
    BY DEF Boundaries, Begins, From
  <2>3. Begins(checkpoints', c.base) = Begins(checkpoints, c.base)
    BY <1>7, <2>1
  <2>4. Begins(checkpoints, c.base) \in Nat
    <3>1. \A i \in 1..n : checkpoints[i].start \in Nat
      BY <1>1, CheckpointFacts DEF IInv
    <3> QED
      BY <2>1, <1>1, <3>1 DEF Begins
  <2>5. Len(messages) \in Nat
    BY DEF IInv, TypeOK
  <2>6. c.covered + 1 = c.start /\ Begins(checkpoints, c.base) <= c.covered /\ c.base \in 0..(K - 1)
    BY <1>1, <1>3, <2>1, <2>2, <2>4
  <2>7. job[a].seen \in c.start..Len(messages)
    BY <1>3, <2>1, <2>2, <2>4, <2>5
  <2>8. \E m \in c.start..Len(messages) : Sendable(SubSeq(messages, c.start, m))
    BY <2>2, <2>7
  <2> HIDE DEF K
  <2> QED
    BY <1>2, <2>3, <2>6, <2>8 DEF Builds
<1>10. \A i, j \in 1..K : i # j => checkpoints'[i].id # checkpoints'[j].id
  <2>1. \A i, j \in 1..n : i # j => checkpoints[i].id # checkpoints[j].id
    BY <1>1 DEF IInv, Chained
  <2>2. \A i \in 1..n : checkpoints[i].id # c.id
    BY <1>1
  <2> QED
    BY <1>2, <1>5, <2>1, <2>2
<1>11. Chained'
  <2>1. \A k \in 1..K : Builds(checkpoints', messages', k)
    BY <1>5, <1>8, <1>9
  <2> QED
    BY <1>2, <1>10, <2>1 DEF Chained
<1> DEFINE Beats(x, y) == x.at > y.at \/ (x.at = y.at /\ x.id > y.id)
<1>12. HasLatest'
  <2>1. SUFFICES \E i \in 1..K : \A j \in (1..K) \ {i} : Beats(checkpoints'[i], checkpoints'[j])
    BY <1>2 DEF HasLatest, IsLatest, NewerThan, SequenceOf
  <2>2. CASE n = 0
    BY <1>1, <1>5, <2>2
  <2>3. CASE n # 0
    <3>1. PICK i \in 1..n : \A j \in (1..n) \ {i} : Beats(checkpoints[i], checkpoints[j])
      <4>1. checkpoints # <<>>
        BY <1>1, <2>3
      <4>2. PICK i \in DOMAIN checkpoints : IsLatest(i)
        BY <4>1 DEF IInv, HasLatest
      <4>3. \A j \in DOMAIN checkpoints \ {i} : Beats(checkpoints[i], checkpoints[j])
        BY <4>2, <1>4, <1>1 DEF IsLatest, NewerThan, SequenceOf
      <4> QED
        BY <1>1, <4>2, <4>3
    <3>2. CASE Beats(c, checkpoints[i])
      <4>1. \A j \in 1..n : Beats(c, checkpoints[j])
        <5> TAKE j \in 1..n
        <5>1. CASE j = i
          BY <3>2, <5>1
        <5>2. CASE j # i
          <6>1. Beats(checkpoints[i], checkpoints[j])
            BY <3>1, <5>2
          <6> QED
            BY <3>2, <6>1, <1>3, <1>4
        <5> QED
          BY <5>1, <5>2
      <4>2. K \in 1..K
        BY <1>1
      <4>3. \A j \in (1..K) \ {K} : Beats(checkpoints'[K], checkpoints'[j])
        BY <1>2, <1>5, <4>1
      <4> QED
        BY <4>2, <4>3
    <3>3. CASE ~Beats(c, checkpoints[i])
      <4>1. checkpoints[i].id # c.id
        BY <1>1
      <4>2. Beats(checkpoints[i], c)
        BY <3>3, <4>1, <1>3, <1>4
      <4>3. i \in 1..K
        BY <1>1
      <4>4. \A j \in (1..K) \ {i} : Beats(checkpoints'[i], checkpoints'[j])
        BY <1>2, <1>5, <3>1, <4>2
      <4> QED
        BY <4>3, <4>4
    <3> QED
      BY <3>2, <3>3
  <2> QED
    BY <2>2, <2>3
<1>13. n <= Len(checkpoints')
  BY <1>1, <1>2
<1> QED
  BY <1>2, <1>11, <1>12, <1>13 DEF n

-----------------------------------------------------------------------------
LEMMA InitInvariant == Init => IInv
<1> SUFFICES ASSUME Init PROVE IInv
  OBVIOUS
<1>1. messages = <<>> /\ checkpoints = <<>> /\ \A a \in Actors : job[a] = NoJob /\ NoJob.stage = "none"
  BY DEF Init, NoJob
<1>2. ResultsAnswer /\ Chained /\ HasLatest
  BY <1>1 DEF ResultsAnswer, Chained, HasLatest
<1>3. \A a \in Actors : Grounded(a) /\ Heeds(a)
  BY <1>1 DEF Grounded, Heeds
<1> QED
  BY <1>2, <1>3, InitTypes DEF IInv

(* What a step of a compaction does, the parts above taken together.       *)
LEMMA WhatWorkDoes ==
  ASSUME IInv, NEW a \in Actors, Work(a), UNCHANGED setting
  PROVE  (\E j : Effect(a, j) /\ (UNCHANGED checkpoints \/ Summarized(a)))
BY WhatProgrammaticDoes, WhatEnterL4Does, WhatSummaryFailsDoes, WhatSummarizedDoes, WhatRecordSuccessDoes,
   WhatRecordFailureDoes DEF Work

LEMMA WorkInvariant ==
  ASSUME IInv, NEW a \in Actors, Work(a), UNCHANGED setting
  PROVE  IInv'
<1>1. PICK j : Effect(a, j) /\ (UNCHANGED checkpoints \/ Summarized(a))
  BY WhatWorkDoes
<1>2. checkpoints \in Seq(Checkpoint) /\ Len(checkpoints) \in Nat /\ UNCHANGED messages
  BY <1>1 DEF IInv, TypeOK, Effect, JobStep
<1>3. Chained' /\ HasLatest' /\ checkpoints' \in Seq(Checkpoint) /\ Len(checkpoints) <= Len(checkpoints')
  <2>1. CASE UNCHANGED checkpoints
    BY <1>2, <2>1, SameCheckpoints
  <2>2. CASE Summarized(a)
    <3>1. job[a] # NoJob
      BY <2>2, JobAtWork DEF Summarized, IInv
    <3> QED
      BY <1>2, <2>2, <3>1, WhatSummarizedDoes, OneMoreCheckpoint
  <2> QED
    BY <1>1, <2>1, <2>2
<1> QED
  BY <1>1, <1>3, EffectKeepsJobs DEF IInv

LEMMA StartInvariant ==
  ASSUME IInv, NEW a \in Actors, NEW trigger \in setting.triggers, Start(a, trigger), UNCHANGED setting
  PROVE  IInv'
<1>1. PICK j \in Running :
        /\ JobStep(a, j) /\ j.stage = "programmatic" /\ j.base \in 0..Len(checkpoints)
        /\ j.seen \in 0..Len(messages) /\ (a = "user" <=> j.trigger = "manual")
        /\ jobs' \in Nat /\ job[a] = NoJob /\ UNCHANGED <<file, live, clock, restarts>>
  BY WhatStartDoes DEF IInv
<1>2. /\ TypeOK /\ job' = [job EXCEPT ![a] = j]
      /\ UNCHANGED <<setting, messages, checkpoints, version, stored, live, clock, restarts>>
  BY <1>1 DEF IInv, JobStep, file
<1>3. TypeOK'
  BY <1>1, <1>2 DEF TypeOK
<1>4. ResultsAnswer'
  BY <1>2 DEF IInv, ResultsAnswer
<1>5. job'[a] = j /\ \A b \in Actors : b # a => job'[b] = job[b]
  BY <1>2 DEF TypeOK
<1>6. (\A b \in Actors : Grounded(b) /\ Heeds(b))'
  BY <1>1, <1>2, <1>5 DEF IInv, Grounded, Heeds
<1> QED
  BY <1>2, <1>3, <1>4, <1>6, SameCheckpoints DEF IInv

LEMMA NextInvariant == IInv /\ [Next]_<<vars, setting>> => IInv'
<1> SUFFICES ASSUME IInv, [Next]_<<vars, setting>> PROVE IInv'
  OBVIOUS
<1>1. CASE Converse /\ UNCHANGED setting
  <2>1. TypeOK'
    BY <1>1, ConverseTypes DEF IInv
  <2>2. PICK m \in Message : messages' = Append(messages, m) /\ (m.role = "tool" => Elems(m.calls) # {})
    BY <1>1, WhatConverseAdds DEF IInv
  <2>3. UNCHANGED <<checkpoints, live, job>>
    BY <1>1 DEF Converse
  <2> QED
    BY <2>1, <2>2, <2>3, MoreMessages DEF IInv
<1>2. ASSUME NEW a \in Actors, Work(a), UNCHANGED setting PROVE IInv'
  BY <1>2, WorkInvariant
<1>3. ASSUME NEW a \in Actors, NEW t \in setting.triggers, Start(a, t), UNCHANGED setting PROVE IInv'
  BY <1>3, StartInvariant
<1>4. CASE Expire /\ UNCHANGED setting
  <2>1. UNCHANGED <<setting, messages, checkpoints, version, stored, job, clock, jobs, restarts>>
    BY <1>4 DEF Expire, file
  <2>2. live' \in Runtime /\ live'.open = FALSE
    BY <1>4 DEF IInv, TypeOK, Expire, Runtime
  <2>3. TypeOK'
    BY <2>1, <2>2 DEF IInv, TypeOK
  <2>4. ResultsAnswer' /\ (\A b \in Actors : Grounded(b) /\ Heeds(b))'
    BY <2>1, <2>2 DEF IInv, ResultsAnswer, Grounded, Heeds
  <2> QED
    BY <2>1, <2>3, <2>4, SameCheckpoints DEF IInv
<1>5. CASE Restart /\ UNCHANGED setting
  <2>1. UNCHANGED <<setting, messages, checkpoints, version, stored, clock, jobs>> /\ live' = stored
    BY <1>5 DEF Restart, file
  <2>2. job' = [a \in Actors |-> NoJob] /\ NoJob.stage = "none" /\ restarts' \in Nat
    BY <1>5 DEF IInv, TypeOK, Restart, NoJob
  <2>3. TypeOK'
    BY <2>1, <2>2 DEF IInv, TypeOK
  <2>4. ResultsAnswer' /\ (\A b \in Actors : Grounded(b) /\ Heeds(b))'
    BY <2>1, <2>2 DEF IInv, ResultsAnswer, Grounded, Heeds
  <2> QED
    BY <2>1, <2>3, <2>4, SameCheckpoints DEF IInv
<1>6. CASE UNCHANGED <<vars, setting>>
  <2>1. UNCHANGED <<setting, messages, checkpoints, version, stored, live, job, clock, jobs, restarts>>
    BY <1>6 DEF vars
  <2>2. TypeOK'
    BY <2>1 DEF IInv, TypeOK
  <2>3. ResultsAnswer' /\ (\A b \in Actors : Grounded(b) /\ Heeds(b))'
    BY <2>1 DEF IInv, ResultsAnswer, Grounded, Heeds
  <2> QED
    BY <2>1, <2>2, <2>3, SameCheckpoints DEF IInv
<1> QED
  BY <1>1, <1>2, <1>3, <1>4, <1>5, <1>6 DEF Next

LEMMA Invariance == Spec => []IInv
BY InitInvariant, NextInvariant, PTL DEF Spec

-----------------------------------------------------------------------------
(* Every reachable state of every instance is well-typed.                  *)
THEOREM TypeCorrect == Spec => []TypeOK
BY Invariance, PTL DEF IInv

(* Whenever the session is compacted, by whom and after whatever failure   *)
(* or restart, no message falls between a summary and the tail behind it   *)
(* (llm_compact.py, _tail_boundary and covered_message_ids).               *)
THEOREM NoMessageIsLost == Spec => []NothingFallsBetween
<1>1. IInv => NothingFallsBetween
  <2> SUFFICES ASSUME IInv, NEW k \in DOMAIN checkpoints
               PROVE  LET base == checkpoints[k].base IN
                      /\ base = 0 \/ From(base) <= checkpoints[k].covered
                      /\ checkpoints[k].covered + 1 = checkpoints[k].start
    BY DEF NothingFallsBetween
  <2>1. Builds(checkpoints, messages, k)
    BY DEF IInv, Chained
  <2> QED
    BY <2>1 DEF Builds, Begins, From
<1> QED
  BY <1>1, Invariance, PTL

(* What a request shows of a history the provider accepts is a history it  *)
(* accepts, though the boundary was chosen when the history was shorter    *)
(* (llm_compact.py, _tail_boundary; context_builder.py).                   *)
THEOREM CompactedIsSendable == Spec => []TailIsSendable
<1>1. IInv => TailIsSendable
  <2> SUFFICES ASSUME IInv PROVE TailIsSendable
    OBVIOUS
  <2> DEFINE n == Len(messages)
             k == Latest
  <2>1. messages \in Seq(Message) /\ n \in Nat /\ DOMAIN messages = 1..n
    BY DEF IInv, TypeOK
  <2>2. CASE k = 0
    <3>1. TailOf(k, n) = SubSeq(messages, 1, n)
      BY <2>2 DEF TailOf, From
    <3>2. SubSeq(messages, 1, n) = messages
      BY <2>1
    <3> QED
      BY <2>2, <3>1, <3>2 DEF TailIsSendable
  <2>3. CASE k # 0
    <3> DEFINE s == checkpoints[k].start
    <3>1. k \in DOMAIN checkpoints
      <4>1. k \in 0..Len(checkpoints) /\ DOMAIN checkpoints = 1..Len(checkpoints)
        BY LatestIsThere DEF IInv, TypeOK
      <4> QED
        BY <2>3, <4>1
    <3> HIDE DEF k
    <3>2. From(k) = s /\ TailOf(k, n) = SubSeq(messages, s, n)
      BY <2>3 DEF From, TailOf
    <3>3. PICK n0 \in s..n : Sendable(SubSeq(messages, s, n0))
      BY <3>1 DEF IInv, Chained, Builds
    <3>4. s \in 1..n
      BY <2>1, <3>1, <3>3, CheckpointFacts DEF IInv
    <3>5. \A j \in 1..Len(messages) : messages[j].role = "tool" => Elems(messages[j].calls) # {}
      BY <2>1 DEF IInv, ResultsAnswer
    <3>6. Sendable(messages) => Sendable(SubSeq(messages, s, n))
      <4> HIDE DEF s
      <4> QED
        BY <2>1, <3>3, <3>4, <3>5, TailStaysSendable
    <3>7. s <= n
      BY <3>4, <2>1
    <3> QED
      BY <3>2, <3>6, <3>7 DEF TailIsSendable, k
  <2> QED
    BY <2>2, <2>3
<1> QED
  BY <1>1, Invariance, PTL

ClosedCircuitCalls ==
  \A a \in Actors :
    /\ job[a] # NoJob /\ job'[a] # NoJob
    /\ ~Manual(a) /\ live.open
    => job'[a].calls = job[a].calls

(* While the circuit is open no compaction but the user's calls the        *)
(* summarizer, also not in the fallback that follows the failure which     *)
(* opened it (llm_compact.py, compact; runtime_state.py).                  *)
THEOREM OpenCircuitStopsCalls == Spec => CircuitStopsCalls
<1>1. ASSUME IInv, [Next]_<<vars, setting>> PROVE [ClosedCircuitCalls]_vars
  <2> SUFFICES ASSUME NEW a \in Actors, job[a] # NoJob, job'[a] # NoJob, ~Manual(a), live.open, Next
               PROVE  job'[a].calls = job[a].calls
    BY <1>1 DEF ClosedCircuitCalls, vars
  <2>1. TypeOK /\ job[a] \in Running /\ job \in [Actors -> {NoJob} \cup Running]
    BY <1>1, JobKind DEF IInv, TypeOK
  <2>2. a # "user" /\ job[a].stage # "summarize"
    <3>1. a # "user"
      BY <1>1 DEF IInv, Grounded, Manual
    <3>2. live.open # FALSE
      OBVIOUS
    <3> QED
      BY <1>1, <3>1, <3>2 DEF IInv, Heeds
  <2>3. ASSUME NEW b \in Actors, Work(b), UNCHANGED setting PROVE job'[a].calls = job[a].calls
    <3>1. PICK j : Effect(b, j)
      BY <1>1, <2>3, WhatWorkDoes
    <3>2. job' = [job EXCEPT ![b] = j]
      BY <3>1 DEF Effect, JobStep
    <3>3. CASE b = a
      BY <2>1, <2>2, <3>1, <3>2, <3>3 DEF Effect
    <3>4. CASE b # a
      BY <2>1, <3>2, <3>4
    <3> QED
      BY <3>3, <3>4
  <2>4. ASSUME NEW b \in Actors, NEW t \in setting.triggers, Start(b, t), UNCHANGED setting
        PROVE  job'[a].calls = job[a].calls
    <3>1. \E j : job' = [job EXCEPT ![b] = j] /\ job[b] = NoJob
      BY <2>4 DEF Start
    <3>2. b # a
      BY <3>1
    <3> QED
      BY <2>1, <3>1, <3>2
  <2>5. CASE Converse \/ Expire
    BY <2>5 DEF Converse, Expire
  <2>6. CASE Restart
    BY <2>6 DEF Restart
  <2> QED
    BY <2>3, <2>4, <2>5, <2>6 DEF Next
<1>2. Spec => [][ClosedCircuitCalls]_vars
  BY <1>1, Invariance, PTL DEF Spec
<1> QED
  BY <1>2 DEF CircuitStopsCalls, ClosedCircuitCalls
=============================================================================
