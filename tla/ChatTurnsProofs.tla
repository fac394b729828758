-------------------------- MODULE ChatTurnsProofs --------------------------
(***************************************************************************)
(* Chat turns for every number of turns, calls and sessions: the UI is     *)
(* busy exactly while a turn is, a turn writes to one session, an          *)
(* interrupted one starts nothing, the question on the screen is the one   *)
(* that is pending, and an idle session's history can be sent.             *)
(***************************************************************************)
EXTENDS ChatTurnsProperties, SequenceTheorems, TLAPS

Entry     ==
  [role : {"user", "assistant", "tool"}, calls : Seq(Calls), how : UserKinds \cup ResultKinds \cup {"reply"},
   turn : Nat, note : Nat]
Object    == [session : Sessions, pending : Guarded \cup {None}]
Locations == {"off", "ready", "begin", "approved", "settle", "resumed", "ask", "build", "inflight",
              "got", "exec", "record", "finish", "left", "done"}
Turn ==
  [token : Nat, kind : {"message", "allow", "deny"}, request : Guarded \cup {None},
   co : {"queued", "waiting", "ended"}, killed : BOOLEAN, pc : Locations, obj : Nat,
   cancelled : BOOLEAN, call : Calls \cup {None}, out : Guarded \cup {None, "raised"},
   asks : Nat, runs : Nat]

TypeOK ==
  /\ setting \in Settings /\ logs \in [Sessions -> Seq(Entry)]
  /\ objects \in Seq(Object) /\ current \in DOMAIN objects
  /\ busy \in BOOLEAN /\ token \in Nat /\ shown \in Guarded \cup {None}
  /\ guidance \in Seq(Nat) /\ notes \in Nat /\ active \in Nat /\ turns \in Seq(Turn)

(* One turn: its thread runs between its coroutine's start and end, or     *)
(* longer when it was interrupted; it has a session object and what its    *)
(* position needs; and it was told of the interruption (streaming).        *)
Sound(r, streaming, n) ==
  /\ r.co = "queued" => r.pc = "off"
  /\ r.co = "waiting" => r.pc # "off"
  /\ r.co = "ended" /\ r.killed = FALSE => r.pc = "done"
  /\ r.pc \notin {"left", "done"} => r.out = None
  /\ r.pc \notin {"off", "ready", "done"} \/ (streaming = TRUE /\ r.pc = "ready") => r.obj \in 1..n
  /\ r.kind # "message" => r.request \in Guarded
  /\ r.pc \in {"approved", "settle"} => r.kind = "allow"
  /\ r.pc \in {"got", "exec", "record"} => r.call \in Calls
  /\ streaming = TRUE /\ r.killed = TRUE => r.cancelled = TRUE \/ r.pc = "off"

(* A turn that runs for the UI.                                            *)
Alive(r) == r.co # "ended" /\ r.killed = FALSE

(* Tokens grow, and the last one given belongs to the turn that runs.      *)
Exact(ts, b, tk) ==
  /\ \A t \in DOMAIN ts :
       /\ ts[t].token <= tk
       /\ ts[t].killed = TRUE => ts[t].token < tk
       /\ Alive(ts[t]) => ts[t].token = tk /\ b = TRUE
  /\ \A t, u \in DOMAIN ts : t < u => ts[t].token < ts[u].token
  /\ b = TRUE => \E t \in DOMAIN ts : Alive(ts[t])

(* The cancellation flag Esc Esc sets is that of the turn that runs.       *)
Holds == setting.streaming = TRUE =>
  \A t \in DOMAIN turns : Alive(turns[t]) /\ turns[t].co = "waiting" => active = t

(* A message was written by a turn whose thread started, to the session of *)
(* that turn's object.                                                     *)
Owner(ts, os, s, t) ==
  t # 0 =>
    /\ t \in DOMAIN ts /\ ts[t].pc \notin {"off", "ready"}
    /\ ts[t].obj \in DOMAIN os /\ os[ts[t].obj].session = s
Owned == \A s \in Sessions : \A i \in DOMAIN logs[s] : Owner(turns, objects, s, logs[s][i].turn)

(* All turns but the last are over.  Between turns the question shown is   *)
(* pending; a turn that is about to report has stored what it reports.     *)
Quiet(streaming) == {"off", "done"} \cup (IF streaming = TRUE THEN {} ELSE {"ready"})

AnswerableAfter(r, os, question, streaming) ==
  /\ question # None => os[1].pending = question /\ r.pc \in Quiet(streaming)
  /\ r.pc \in {"left", "done"} /\ r.out \notin {None, "raised"} => os[1].pending = r.out

Over(r) == r.co # "waiting" /\ r.pc \in {"off", "done"}

Answerable ==
  Len(objects) = 1 /\ Undisputed =>
    /\ \A t \in DOMAIN turns : t # Len(turns) => Over(turns[t])
    /\ turns = <<>> => shown = None
    /\ turns # <<>> => AnswerableAfter(turns[Len(turns)], objects, shown, setting.streaming)

IInv ==
  /\ TypeOK /\ \A t \in DOMAIN turns : Sound(turns[t], setting.streaming, Len(objects))
  /\ Exact(turns, busy, token) /\ Holds /\ Owned /\ Answerable
-----------------------------------------------------------------------------
(* Facts about single steps.                                               *)

LEMMA TurnIsTurn ==
  ASSUME TypeOK, NEW t \in DOMAIN turns
  PROVE  turns[t] \in Turn /\ t \in Nat \ {0}
BY DEF TypeOK

LEMMA WhatIsSaid ==
  ASSUME NEW t \in Nat, NEW n \in Nat
  PROVE  /\ \A how \in {"input", "guidance"} : Say(User(how), t, n) \in Entry /\ Say(User(how), t, n).turn = t
         /\ Say(Assistant(<<>>), t, n) \in Entry /\ Say(Assistant(<<>>), t, n).turn = t
         /\ \A c \in Calls : Say(Assistant(<<c>>), t, n) \in Entry /\ Say(Assistant(<<c>>), t, n).turn = t
         /\ \A c \in Calls, how \in {"ran", "denied"} :
              Say(Result(c, how), t, n) \in Entry /\ Say(Result(c, how), t, n).turn = t
<1>1. <<>> \in Seq(Calls) /\ \A c \in Calls : <<c>> \in Seq(Calls)
  OBVIOUS
<1>2. \A how \in {"input", "guidance"} : Say(User(how), t, n) \in Entry /\ Say(User(how), t, n).turn = t
  BY <1>1 DEF Say, User, Entry, UserKinds, ResultKinds
<1>3. Say(Assistant(<<>>), t, n) \in Entry /\ Say(Assistant(<<>>), t, n).turn = t
  BY <1>1 DEF Say, Assistant, Entry, UserKinds, ResultKinds
<1>4. ASSUME NEW c \in Calls PROVE Say(Assistant(<<c>>), t, n) \in Entry /\ Say(Assistant(<<c>>), t, n).turn = t
  BY <1>1 DEF Say, Assistant, Entry, UserKinds, ResultKinds
<1>5. ASSUME NEW c \in Calls, NEW how \in {"ran", "denied"}
      PROVE  Say(Result(c, how), t, n) \in Entry /\ Say(Result(c, how), t, n).turn = t
  BY <1>1 DEF Say, Result, Entry, UserKinds, ResultKinds
<1> QED
  BY <1>2, <1>3, <1>4, <1>5

(* What a thread's step may do to its turn, its object and its log.        *)
Works(t, r) ==
  /\ turns[t].pc \notin {"off", "done"} /\ r.pc \notin {"off", "ready"}
  /\ r \in Turn /\ turns' = [turns EXCEPT ![t] = r]
  /\ r.token = turns[t].token /\ r.co = turns[t].co /\ r.killed = turns[t].killed
  /\ r.cancelled = turns[t].cancelled /\ r.kind = turns[t].kind /\ r.request = turns[t].request
  /\ turns[t].pc # "ready" => r.obj = turns[t].obj
  /\ turns[t].cancelled = TRUE => r.asks = turns[t].asks /\ r.runs = turns[t].runs
  /\ Sound(r, setting.streaming, Len(objects))
  /\ UNCHANGED <<setting, current, busy, token, notes>>

(* A step of the agent loop: the bookkeeping of the runner is untouched.   *)
Loops(t, r) ==
  /\ Works(t, r)
  /\ turns[t].pc \notin {"ready", "left"} /\ r.pc # "done" /\ UNCHANGED <<shown, active>>
  /\ guidance' \in Seq(Nat)
  /\ \/ UNCHANGED logs
     \/ \E ms \in Seq(Entry) : Write(t, ms) /\ \A i \in DOMAIN ms : ms[i].turn = t
  /\ \E p \in Guarded \cup {None} :
       /\ SetPending(t, p) \/ (UNCHANGED objects /\ p = Pending(t))
       /\ r.pc = "left" /\ r.out \notin {None, "raised"} => r.out = p

LEMMA SoundTurn ==
  ASSUME IInv, NEW t \in DOMAIN turns
  PROVE  /\ turns[t] \in Turn /\ t \in Nat \ {0} /\ Sound(turns[t], setting.streaming, Len(objects))
         /\ Len(objects) \in Nat /\ DOMAIN objects = 1..Len(objects)
BY TurnIsTurn DEF IInv, TypeOK

(* The same turn, at another place.                                        *)
Same(q, r) ==
  /\ r.token = q.token /\ r.co = q.co /\ r.killed = q.killed /\ r.cancelled = q.cancelled
  /\ r.kind = q.kind /\ r.request = q.request /\ r.obj = q.obj

LEMMA StepTurn ==
  ASSUME NEW q \in Turn, NEW pc \in Locations
  PROVE  LET r == [q EXCEPT !.pc = pc]
         IN  /\ r \in Turn /\ Same(q, r) /\ r.pc = pc /\ r.out = q.out /\ r.call = q.call
             /\ r.asks = q.asks /\ r.runs = q.runs
BY DEF Turn, Same

LEMMA LeftTurn ==
  ASSUME NEW q \in Turn, NEW out \in Guarded \cup {None, "raised"}
  PROVE  LET r == [q EXCEPT !.pc = "left", !.out = out]
         IN  /\ r \in Turn /\ Same(q, r) /\ r.pc = "left" /\ r.out = out /\ r.call = q.call
             /\ r.asks = q.asks /\ r.runs = q.runs
BY DEF Turn, Same, Locations

LEMMA CountedTurn ==
  ASSUME NEW q \in Turn, NEW pc \in Locations
  PROVE  /\ LET r == [q EXCEPT !.pc = pc, !.runs = @ + 1]
            IN  r \in Turn /\ Same(q, r) /\ r.pc = pc /\ r.out = q.out /\ r.call = q.call
         /\ LET r == [q EXCEPT !.pc = pc, !.asks = @ + 1]
            IN  r \in Turn /\ Same(q, r) /\ r.pc = pc /\ r.out = q.out /\ r.call = q.call
<1>1. q.runs + 1 \in Nat /\ q.asks + 1 \in Nat
  BY DEF Turn
<1> DEFINE n == q.runs + 1
           m == q.asks + 1
<1>2. n \in Nat /\ m \in Nat
  BY <1>1
<1> HIDE DEF n, m
<1>3. LET r == [q EXCEPT !.pc = pc, !.runs = n]
      IN  r \in Turn /\ Same(q, r) /\ r.pc = pc /\ r.out = q.out /\ r.call = q.call
  BY <1>2 DEF Turn, Same
<1>4. LET r == [q EXCEPT !.pc = pc, !.asks = m]
      IN  r \in Turn /\ Same(q, r) /\ r.pc = pc /\ r.out = q.out /\ r.call = q.call
  BY <1>2 DEF Turn, Same
<1> QED
  BY <1>3, <1>4 DEF n, m

LEMMA PendingIsGuarded ==
  ASSUME IInv, NEW t \in DOMAIN turns, turns[t].pc \notin {"off", "done", "ready"}
  PROVE  /\ turns[t].obj \in DOMAIN objects /\ objects[turns[t].obj] \in Object
         /\ Pending(t) \in Guarded \cup {None} /\ Session(t) \in Sessions
<1>1. turns[t].obj \in DOMAIN objects
  BY SoundTurn DEF Sound
<1>2. objects[turns[t].obj] \in Object
  BY <1>1 DEF IInv, TypeOK
<1> QED
  BY <1>1, <1>2 DEF Pending, Session, Object

LEMMA OneMessage ==
  ASSUME NEW t, NEW m \in Entry, m.turn = t, Write(t, <<m>>)
  PROVE  \E ms \in Seq(Entry) : Write(t, ms) /\ \A i \in DOMAIN ms : ms[i].turn = t
<1>1. <<m>> \in Seq(Entry) /\ \A i \in DOMAIN <<m>> : <<m>>[i] = m
  OBVIOUS
<1> QED
  BY <1>1

(* What the thread's position asks of the turn.                            *)
Fits(r, q) ==
  /\ r.pc \notin {"off", "ready", "done"}
  /\ r.pc # "left" => r.out = None
  /\ r.pc \in {"approved", "settle"} => r.kind = "allow"
  /\ r.pc \in {"got", "exec", "record"} => r.call \in Calls
  /\ q.cancelled = TRUE => r.asks = q.asks /\ r.runs = q.runs

LEMMA FitsIsSound ==
  ASSUME IInv, NEW t \in DOMAIN turns, turns[t].pc \notin {"off", "done", "ready", "left"},
         NEW r, r \in Turn, turns' = [turns EXCEPT ![t] = r], Same(turns[t], r), Fits(r, turns[t]),
         UNCHANGED <<setting, Shared>>
  PROVE  Works(t, r)
<1>1. Sound(r, setting.streaming, Len(objects))
  BY SoundTurn DEF Sound, Same, Fits
<1> QED
  BY <1>1 DEF Works, Same, Fits, Shared, ui

(* A step that leaves the confirmations alone.                             *)
LEMMA LeavesPending ==
  ASSUME IInv, NEW t \in DOMAIN turns, turns[t].pc \notin {"off", "done", "ready", "left"},
         NEW r, r \in Turn, turns' = [turns EXCEPT ![t] = r], Same(turns[t], r), Fits(r, turns[t]),
         r.pc = "left" => r.out \in {None, "raised", Pending(t)},
         UNCHANGED <<setting, objects, Shared>>, guidance' \in Seq(Nat),
         UNCHANGED logs \/ \E ms \in Seq(Entry) : Write(t, ms) /\ \A i \in DOMAIN ms : ms[i].turn = t
  PROVE  Loops(t, r)
<1>1. Works(t, r)
  BY FitsIsSound
<1>2. Pending(t) \in Guarded \cup {None}
  BY PendingIsGuarded
<1>3. r.pc = "left" /\ r.out \notin {None, "raised"} => r.out = Pending(t)
  OBVIOUS
<1>4. turns[t].pc \notin {"ready", "left"} /\ r.pc # "done" /\ UNCHANGED <<shown, active>>
  BY DEF Fits, Shared
<1> QED
  BY <1>1, <1>2, <1>3, <1>4 DEF Loops

(* A step that sets the confirmation of its session.                       *)
LEMMA SetsPending ==
  ASSUME IInv, NEW t \in DOMAIN turns, turns[t].pc \notin {"off", "done", "ready", "left"},
         NEW r, r \in Turn, turns' = [turns EXCEPT ![t] = r], Same(turns[t], r), Fits(r, turns[t]),
         NEW p \in Guarded \cup {None}, SetPending(t, p), r.pc = "left" => r.out = p,
         UNCHANGED <<setting, guidance, Shared>>,
         UNCHANGED logs \/ \E ms \in Seq(Entry) : Write(t, ms) /\ \A i \in DOMAIN ms : ms[i].turn = t
  PROVE  Loops(t, r)
<1>1. Works(t, r)
  BY FitsIsSound
<1>2. turns[t].pc \notin {"ready", "left"} /\ r.pc # "done" /\ UNCHANGED <<shown, active>>
  BY DEF Fits, Shared
<1>3. guidance' \in Seq(Nat)
  BY DEF IInv, TypeOK
<1> QED
  BY <1>1, <1>2, <1>3 DEF Loops

(* The thread goes on to pc and has written ms or nothing.                 *)
LEMMA GoesOn ==
  ASSUME IInv, NEW t \in DOMAIN turns, turns[t].pc \notin {"off", "done", "ready", "left"}, turns[t].out = None,
         NEW pc \in Locations \ {"off", "done", "ready", "left"}, Step(t, pc),
         pc \in {"approved", "settle"} => turns[t].kind = "allow",
         pc \in {"got", "exec", "record"} => turns[t].call \in Calls,
         UNCHANGED <<setting, Shared>>, guidance' \in Seq(Nat),
         UNCHANGED logs \/ \E ms \in Seq(Entry) : Write(t, ms) /\ \A i \in DOMAIN ms : ms[i].turn = t,
         UNCHANGED objects \/ (SetPending(t, None) /\ UNCHANGED guidance)
  PROVE  \E r : Loops(t, r)
<1> DEFINE r == [turns[t] EXCEPT !.pc = pc]
<1>1. turns[t] \in Turn
  BY SoundTurn
<1>2. /\ r \in Turn /\ Same(turns[t], r) /\ r.pc = pc /\ r.out = None /\ r.call = turns[t].call
      /\ r.asks = turns[t].asks /\ r.runs = turns[t].runs
  BY <1>1, StepTurn
<1>3. turns' = [turns EXCEPT ![t] = r]
  BY DEF Step, Update
<1> HIDE DEF r
<1>4. Fits(r, turns[t]) /\ r.pc # "left"
  BY <1>2 DEF Fits, Same
<1>5. CASE UNCHANGED objects
  BY <1>2, <1>3, <1>4, <1>5, LeavesPending
<1>6. CASE SetPending(t, None) /\ UNCHANGED guidance
  BY <1>2, <1>3, <1>4, <1>6, SetsPending
<1> QED
  BY <1>5, <1>6

LEMMA WhatResumedDoes ==
  ASSUME IInv, NEW t \in DOMAIN turns, Resumed(t), UNCHANGED setting
  PROVE  \E r : Loops(t, r)
<1>1. /\ turns[t] \in Turn /\ turns[t].pc = "resumed" /\ turns[t].out = None /\ guidance' \in Seq(Nat)
      /\ UNCHANGED <<logs, objects, Shared, guidance>>
  BY SoundTurn DEF Resumed, Sound, IInv, TypeOK
<1>2. CASE Left(t, "raised")
  BY <1>1, <1>2, LeftTurn, LeavesPending DEF Left, Update, Fits
<1>3. CASE Step(t, "ask")
  BY <1>1, <1>3, GoesOn DEF Locations
<1> QED
  BY <1>2, <1>3 DEF Resumed

LEMMA AtWork ==
  ASSUME IInv, NEW t \in DOMAIN turns,
         turns[t].pc \in {"begin", "approved", "settle", "resumed", "ask", "build", "inflight",
                         "got", "exec", "record", "finish"}
  PROVE  /\ turns[t] \in Turn /\ turns[t].out = None /\ guidance \in Seq(Nat)
         /\ turns[t].pc \notin {"off", "done", "ready", "left"} /\ t \in Nat
BY SoundTurn DEF Sound, IInv, TypeOK

LEMMA WhatRunApprovedDoes ==
  ASSUME IInv, NEW t \in DOMAIN turns, RunApproved(t), UNCHANGED setting
  PROVE  \E r : Loops(t, r)
<1>1. /\ turns[t] \in Turn /\ turns[t].pc = "approved" /\ turns[t].out = None /\ guidance' \in Seq(Nat)
      /\ UNCHANGED <<logs, objects, Shared, guidance>>
  BY AtWork DEF RunApproved
<1>2. CASE Left(t, "raised")
  BY <1>1, <1>2, LeftTurn, LeavesPending DEF Left, Update, Fits
<1>3. CASE ~turns[t].cancelled /\ Update(t, [turns[t] EXCEPT !.pc = "settle", !.runs = @ + 1])
  <2> DEFINE r == [turns[t] EXCEPT !.pc = "settle", !.runs = @ + 1]
  <2>1. r \in Turn /\ Same(turns[t], r) /\ r.pc = "settle" /\ r.out = None
    <3>1. turns[t] \in Turn /\ turns[t].out = None
      BY <1>1
    <3>2. "settle" \in Locations
      BY DEF Locations
    <3> QED
      BY <3>1, <3>2, CountedTurn
  <2>2. turns' = [turns EXCEPT ![t] = r] /\ turns[t].cancelled # TRUE
    BY <1>3 DEF Update
  <2> HIDE DEF r
  <2>3. r.kind = "allow"
    BY <1>1, <2>1, SoundTurn DEF Sound, Same
  <2> QED
    BY <1>1, <2>1, <2>2, <2>3, LeavesPending DEF Fits
<1> QED
  BY <1>2, <1>3 DEF RunApproved

LEMMA WhatSettleDoes ==
  ASSUME IInv, NEW t \in DOMAIN turns, Settle(t), UNCHANGED setting
  PROVE  \E r : Loops(t, r)
<1>1. /\ turns[t] \in Turn /\ turns[t].pc = "settle" /\ turns[t].out = None /\ t \in Nat
      /\ UNCHANGED <<Shared, guidance>> /\ SetPending(t, None) /\ Step(t, "resumed")
  BY AtWork DEF Settle
<1>2. turns[t].request \in Calls
  BY <1>1, SoundTurn, ChatAssumption DEF Sound
<1>3. /\ Say(Result(turns[t].request, "ran"), t, 0) \in Entry
      /\ Say(Result(turns[t].request, "ran"), t, 0).turn = t
  BY <1>1, <1>2, WhatIsSaid
<1>4. Write(t, <<Say(Result(turns[t].request, "ran"), t, 0)>>)
  BY DEF Settle
<1>5. \E ms \in Seq(Entry) : Write(t, ms) /\ \A i \in DOMAIN ms : ms[i].turn = t
  BY <1>3, <1>4, OneMessage
<1>6. guidance' \in Seq(Nat)
  BY <1>1, AtWork
<1> QED
  BY <1>1, <1>5, <1>6, GoesOn DEF Locations

LEMMA WhatAskDoes ==
  ASSUME IInv, NEW t \in DOMAIN turns, Ask(t), UNCHANGED setting
  PROVE  \E r : Loops(t, r)
<1>1. /\ turns[t] \in Turn /\ turns[t].pc = "ask" /\ turns[t].out = None /\ t \in Nat /\ guidance \in Seq(Nat)
      /\ UNCHANGED <<objects, Shared>>
  BY AtWork DEF Ask
<1>2. CASE Step(t, "finish") /\ UNCHANGED <<logs, guidance>>
  BY <1>1, <1>2, GoesOn DEF Locations
<1>3. CASE /\ Write(t, [i \in DOMAIN guidance |-> Say(User("guidance"), t, guidance[i])])
           /\ guidance' = <<>> /\ Step(t, "build")
  <2> DEFINE ms == [i \in DOMAIN guidance |-> Say(User("guidance"), t, guidance[i])]
  <2>1. \A i \in DOMAIN guidance : guidance[i] \in Nat
    BY <1>1
  <2>2. \A i \in DOMAIN ms : ms[i] \in Entry /\ ms[i].turn = t
    BY <1>1, <2>1, WhatIsSaid
  <2>3. ms \in Seq(Entry)
    <3>1. DOMAIN ms = 1..Len(guidance) /\ Len(guidance) \in Nat
      BY <1>1
    <3> QED
      BY <2>2, <3>1
  <2>4. Write(t, ms)
    BY <1>3
  <2> HIDE DEF ms
  <2>5. guidance' \in Seq(Nat)
    BY <1>3
  <2> QED
    BY <1>1, <1>3, <2>2, <2>3, <2>4, <2>5, GoesOn DEF Locations
<1> QED
  BY <1>2, <1>3 DEF Ask

LEMMA WhatBuildRequestDoes ==
  ASSUME IInv, NEW t \in DOMAIN turns, BuildRequest(t), UNCHANGED setting
  PROVE  \E r : Loops(t, r)
<1>1. /\ turns[t] \in Turn /\ turns[t].pc = "build" /\ turns[t].out = None /\ guidance' \in Seq(Nat)
      /\ UNCHANGED <<logs, objects, Shared, guidance>>
  BY AtWork DEF BuildRequest
<1>2. CASE Left(t, "raised")
  BY <1>1, <1>2, LeftTurn, LeavesPending DEF Left, Update, Fits
<1>3. CASE Step(t, "finish")
  BY <1>1, <1>3, GoesOn DEF Locations
<1>4. CASE ~turns[t].cancelled /\ Update(t, [turns[t] EXCEPT !.pc = "inflight", !.asks = @ + 1])
  <2> DEFINE r == [turns[t] EXCEPT !.pc = "inflight", !.asks = @ + 1]
  <2>1. r \in Turn /\ Same(turns[t], r) /\ r.pc = "inflight" /\ r.out = None
    <3>1. turns[t] \in Turn /\ turns[t].out = None
      BY <1>1
    <3>2. "inflight" \in Locations
      BY DEF Locations
    <3> QED
      BY <3>1, <3>2, CountedTurn
  <2>2. turns' = [turns EXCEPT ![t] = r] /\ turns[t].cancelled # TRUE
    BY <1>4 DEF Update
  <2> HIDE DEF r
  <2> QED
    BY <1>1, <2>1, <2>2, LeavesPending DEF Fits
<1> QED
  BY <1>2, <1>3, <1>4 DEF BuildRequest

LEMMA WhatAnswerDoes ==
  ASSUME IInv, NEW t \in DOMAIN turns, Answer(t), UNCHANGED setting
  PROVE  \E r : Loops(t, r)
<1>1. /\ turns[t] \in Turn /\ turns[t].pc = "inflight" /\ turns[t].out = None /\ guidance' \in Seq(Nat)
      /\ UNCHANGED <<logs, objects, Shared, guidance>>
  BY AtWork DEF Answer
<1>2. CASE Left(t, "raised")
  BY <1>1, <1>2, LeftTurn, LeavesPending DEF Left, Update, Fits
<1>3. CASE Step(t, "finish")
  BY <1>1, <1>3, GoesOn DEF Locations
<1>4. ASSUME NEW c \in Calls, Update(t, [turns[t] EXCEPT !.pc = "got", !.call = c])
      PROVE  \E r : Loops(t, r)
  <2> DEFINE r == [turns[t] EXCEPT !.pc = "got", !.call = c]
  <2>1. /\ r \in Turn /\ Same(turns[t], r) /\ r.pc = "got" /\ r.out = None /\ r.call = c
        /\ r.asks = turns[t].asks /\ r.runs = turns[t].runs
    BY <1>1 DEF Turn, Same, Locations
  <2>2. turns' = [turns EXCEPT ![t] = r]
    BY <1>4 DEF Update
  <2> HIDE DEF r
  <2> QED
    BY <1>1, <2>1, <2>2, LeavesPending DEF Fits
<1> QED
  BY <1>2, <1>3, <1>4 DEF Answer

LEMMA WhatTakeResponseDoes ==
  ASSUME IInv, NEW t \in DOMAIN turns, TakeResponse(t), UNCHANGED setting
  PROVE  \E r : Loops(t, r)
<1>1. /\ turns[t] \in Turn /\ turns[t].pc = "got" /\ turns[t].out = None /\ t \in Nat /\ guidance' \in Seq(Nat)
      /\ UNCHANGED <<objects, Shared, guidance>>
  BY AtWork DEF TakeResponse
<1>2. turns[t].call \in Calls
  BY <1>1, SoundTurn DEF Sound
<1>3. CASE Step(t, "finish") /\ UNCHANGED logs
  BY <1>1, <1>3, GoesOn DEF Locations
<1>4. CASE Write(t, <<Say(Assistant(<<turns[t].call>>), t, 0)>>) /\ Step(t, "exec")
  <2>1. Say(Assistant(<<turns[t].call>>), t, 0) \in Entry /\ Say(Assistant(<<turns[t].call>>), t, 0).turn = t
    BY <1>1, <1>2, WhatIsSaid
  <2>2. \E ms \in Seq(Entry) : Write(t, ms) /\ \A i \in DOMAIN ms : ms[i].turn = t
    BY <1>4, <2>1, OneMessage
  <2> QED
    BY <1>1, <1>2, <1>4, <2>2, GoesOn DEF Locations
<1> QED
  BY <1>3, <1>4 DEF TakeResponse

LEMMA WhatExecDoes ==
  ASSUME IInv, NEW t \in DOMAIN turns, Exec(t), UNCHANGED setting
  PROVE  \E r : Loops(t, r)
<1>1. /\ turns[t] \in Turn /\ turns[t].pc = "exec" /\ turns[t].out = None /\ guidance' \in Seq(Nat)
      /\ UNCHANGED <<logs, Shared, guidance>>
  BY AtWork DEF Exec
<1>2. CASE turns[t].call \in Guarded /\ SetPending(t, turns[t].call) /\ Left(t, turns[t].call)
  <2> DEFINE r == [turns[t] EXCEPT !.pc = "left", !.out = turns[t].call]
  <2>1. /\ r \in Turn /\ Same(turns[t], r) /\ r.pc = "left" /\ r.out = turns[t].call
        /\ r.asks = turns[t].asks /\ r.runs = turns[t].runs
    <3>1. turns[t].call \in Guarded \cup {None, "raised"}
      BY <1>2
    <3> QED
      BY <1>1, <3>1, LeftTurn
  <2>2. turns' = [turns EXCEPT ![t] = r]
    BY <1>2 DEF Left, Update
  <2> HIDE DEF r
  <2>3. Fits(r, turns[t])
    BY <2>1 DEF Fits
  <2> QED
    BY <1>1, <1>2, <2>1, <2>2, <2>3, SetsPending
<1>3. CASE Step(t, "finish") /\ UNCHANGED objects
  BY <1>1, <1>3, GoesOn DEF Locations
<1>4. CASE /\ ~turns[t].cancelled /\ UNCHANGED objects
           /\ Update(t, [turns[t] EXCEPT !.pc = "record", !.runs = @ + 1])
  <2> DEFINE r == [turns[t] EXCEPT !.pc = "record", !.runs = @ + 1]
  <2>1. r \in Turn /\ Same(turns[t], r) /\ r.pc = "record" /\ r.out = None /\ r.call = turns[t].call
    <3>1. turns[t] \in Turn /\ turns[t].out = None
      BY <1>1
    <3>2. "record" \in Locations
      BY DEF Locations
    <3> QED
      BY <3>1, <3>2, CountedTurn
  <2>2. turns' = [turns EXCEPT ![t] = r] /\ turns[t].cancelled # TRUE
    BY <1>4 DEF Update
  <2> HIDE DEF r
  <2>3. r.call \in Calls
    BY <1>1, <2>1, SoundTurn DEF Sound
  <2> QED
    BY <1>1, <1>4, <2>1, <2>2, <2>3, LeavesPending DEF Fits
<1> QED
  BY <1>2, <1>3, <1>4 DEF Exec

LEMMA WhatRecordDoes ==
  ASSUME IInv, NEW t \in DOMAIN turns, Record(t), UNCHANGED setting
  PROVE  \E r : Loops(t, r)
<1>1. /\ turns[t] \in Turn /\ turns[t].pc = "record" /\ turns[t].out = None /\ t \in Nat /\ guidance' \in Seq(Nat)
      /\ UNCHANGED <<objects, Shared, guidance>>
  BY AtWork DEF Record
<1>2. turns[t].call \in Calls
  BY <1>1, SoundTurn DEF Sound
<1>3. CASE Step(t, "finish") /\ UNCHANGED logs
  BY <1>1, <1>3, GoesOn DEF Locations
<1>4. CASE Write(t, <<Say(Result(turns[t].call, "ran"), t, 0)>>) /\ Step(t, "ask")
  <2>1. Say(Result(turns[t].call, "ran"), t, 0) \in Entry /\ Say(Result(turns[t].call, "ran"), t, 0).turn = t
    BY <1>1, <1>2, WhatIsSaid
  <2>2. \E ms \in Seq(Entry) : Write(t, ms) /\ \A i \in DOMAIN ms : ms[i].turn = t
    BY <1>4, <2>1, OneMessage
  <2> QED
    BY <1>1, <1>4, <2>2, GoesOn DEF Locations
<1> QED
  BY <1>3, <1>4 DEF Record

LEMMA WhatFinishDoes ==
  ASSUME IInv, NEW t \in DOMAIN turns, Finish(t), UNCHANGED setting
  PROVE  \E r : Loops(t, r)
<1>1. /\ turns[t] \in Turn /\ turns[t].pc = "finish" /\ turns[t].out = None /\ t \in Nat /\ guidance' \in Seq(Nat)
      /\ UNCHANGED <<objects, Shared, guidance>> /\ Left(t, None)
  BY AtWork DEF Finish
<1>2. \E ms \in Seq(Entry) : Write(t, ms) /\ \A i \in DOMAIN ms : ms[i].turn = t
  <2>1. /\ Say(Assistant(<<>>), t, 0) \in Entry /\ Say(Assistant(<<>>), t, 0).turn = t
    BY <1>1, WhatIsSaid
  <2>2. Write(t, <<Say(Assistant(<<>>), t, 0)>>)
    BY DEF Finish
  <2> QED
    BY <2>1, <2>2, OneMessage
<1> DEFINE r == [turns[t] EXCEPT !.pc = "left", !.out = None]
<1>3. turns' = [turns EXCEPT ![t] = r]
  BY <1>1 DEF Left, Update
<1>4. /\ r \in Turn /\ Same(turns[t], r) /\ r.pc = "left" /\ r.out = None
      /\ r.asks = turns[t].asks /\ r.runs = turns[t].runs
  <2>1. turns[t] \in Turn
    BY <1>1
  <2> QED
    BY <2>1, LeftTurn
<1> HIDE DEF r
<1>5. Fits(r, turns[t])
  BY <1>4 DEF Fits
<1> QED
  BY <1>1, <1>2, <1>3, <1>4, <1>5, LeavesPending

LEMMA WhatBeginDoes ==
  ASSUME IInv, NEW t \in DOMAIN turns, Begin(t), UNCHANGED setting
  PROVE  \E r : Loops(t, r)
<1>1. /\ turns[t] \in Turn /\ turns[t].pc = "begin" /\ turns[t].out = None /\ t \in Nat /\ guidance' \in Seq(Nat)
      /\ UNCHANGED <<Shared, guidance>>
  BY AtWork DEF Begin
<1>2. Pending(t) \in Guarded \cup {None}
  BY <1>1, PendingIsGuarded
<1>3. CASE Left(t, Pending(t)) /\ UNCHANGED <<logs, objects>>
  BY <1>1, <1>2, <1>3, LeftTurn, LeavesPending DEF Left, Update, Fits
<1>4. CASE Left(t, "raised") /\ UNCHANGED <<logs, objects>>
  BY <1>1, <1>4, LeftTurn, LeavesPending DEF Left, Update, Fits
<1>5. CASE Left(t, None) /\ UNCHANGED <<logs, objects>>
  BY <1>1, <1>5, LeftTurn, LeavesPending DEF Left, Update, Fits
<1>6. CASE Write(t, <<Say(User("input"), t, 0)>>) /\ Step(t, "ask") /\ UNCHANGED objects
  <2>1. Say(User("input"), t, 0) \in Entry /\ Say(User("input"), t, 0).turn = t
    BY <1>1, WhatIsSaid
  <2>2. \E ms \in Seq(Entry) : Write(t, ms) /\ \A i \in DOMAIN ms : ms[i].turn = t
    BY <1>6, <2>1, OneMessage
  <2> QED
    BY <1>1, <1>6, <2>2, GoesOn DEF Locations
<1>7. CASE /\ turns[t].kind = "deny" /\ Pending(t) = turns[t].request /\ SetPending(t, None)
           /\ Write(t, <<Say(Result(Pending(t), "denied"), t, 0)>>) /\ Step(t, "resumed")
  <2>1. Pending(t) \in Calls
    BY <1>7, SoundTurn, ChatAssumption DEF Sound
  <2>2. Say(Result(Pending(t), "denied"), t, 0) \in Entry /\ Say(Result(Pending(t), "denied"), t, 0).turn = t
    BY <1>1, <2>1, WhatIsSaid
  <2>3. \E ms \in Seq(Entry) : Write(t, ms) /\ \A i \in DOMAIN ms : ms[i].turn = t
    BY <1>7, <2>2, OneMessage
  <2> QED
    BY <1>1, <1>7, <2>3, GoesOn DEF Locations
<1>8. CASE turns[t].kind = "allow" /\ Step(t, "approved") /\ UNCHANGED <<logs, objects>>
  BY <1>1, <1>8, GoesOn DEF Locations
<1> QED
  BY <1>3, <1>4, <1>5, <1>6, <1>7, <1>8 DEF Begin

LEMMA WhatTheLoopDoes ==
  ASSUME IInv, NEW t \in DOMAIN turns, UNCHANGED setting,
         \/ Begin(t) \/ RunApproved(t) \/ Settle(t) \/ Resumed(t) \/ Ask(t) \/ BuildRequest(t)
         \/ Answer(t) \/ TakeResponse(t) \/ Exec(t) \/ Record(t) \/ Finish(t)
  PROVE  \E r : Loops(t, r)
BY WhatBeginDoes, WhatRunApprovedDoes, WhatSettleDoes, WhatResumedDoes, WhatAskDoes, WhatBuildRequestDoes,
   WhatAnswerDoes, WhatTakeResponseDoes, WhatExecDoes, WhatRecordDoes, WhatFinishDoes

-----------------------------------------------------------------------------
(* What a step keeps, whatever else it does.                               *)

LEMMA TurnsAfter ==
  ASSUME TypeOK, NEW t \in DOMAIN turns, NEW r \in Turn, turns' = [turns EXCEPT ![t] = r]
  PROVE  /\ turns' \in Seq(Turn) /\ DOMAIN turns' = DOMAIN turns /\ Len(turns') = Len(turns)
         /\ DOMAIN turns = 1..Len(turns) /\ Len(turns) \in Nat /\ turns # <<>> /\ turns' # <<>>
         /\ turns'[t] = r /\ \A u \in DOMAIN turns : u # t => turns'[u] = turns[u]
<1>1. turns \in Seq(Turn)
  BY DEF TypeOK
<1>2. /\ turns' \in Seq(Turn) /\ DOMAIN turns' = DOMAIN turns /\ Len(turns') = Len(turns)
      /\ DOMAIN turns = 1..Len(turns) /\ Len(turns) \in Nat
      /\ turns'[t] = r /\ \A u \in DOMAIN turns : u # t => turns'[u] = turns[u]
  BY <1>1
<1>3. turns # <<>> /\ turns' # <<>>
  BY <1>1, <1>2
<1> QED
  BY <1>2, <1>3

LEMMA SoundKept ==
  ASSUME IInv, NEW t \in DOMAIN turns, NEW r \in Turn, turns' = [turns EXCEPT ![t] = r],
         Sound(r, setting.streaming, Len(objects)), UNCHANGED setting, Len(objects') = Len(objects)
  PROVE  (\A u \in DOMAIN turns : Sound(turns[u], setting.streaming, Len(objects)))'
<1>1. /\ DOMAIN turns' = DOMAIN turns /\ turns'[t] = r
      /\ \A u \in DOMAIN turns : u # t => turns'[u] = turns[u]
  BY TurnsAfter DEF IInv
<1> SUFFICES ASSUME NEW u \in DOMAIN turns' PROVE Sound(turns'[u], setting'.streaming, Len(objects'))
  OBVIOUS
<1>2. Sound(turns[u], setting.streaming, Len(objects))
  BY <1>1 DEF IInv
<1>3. CASE u = t
  BY <1>1, <1>3
<1>4. CASE u # t
  BY <1>1, <1>2, <1>4
<1> QED
  BY <1>3, <1>4

(* No turn gets another token, is interrupted or ends.                     *)
LEMMA ExactKept ==
  ASSUME IInv, NEW t \in DOMAIN turns, NEW r \in Turn, turns' = [turns EXCEPT ![t] = r],
         r.token = turns[t].token, r.killed = turns[t].killed, r.co # "ended" <=> turns[t].co # "ended",
         UNCHANGED <<busy, token>>
  PROVE  Exact(turns, busy, token)'
<1>1. /\ DOMAIN turns' = DOMAIN turns /\ turns'[t] = r
      /\ \A u \in DOMAIN turns : u # t => turns'[u] = turns[u]
  BY TurnsAfter DEF IInv
<1>2. \A u \in DOMAIN turns : /\ turns'[u].token = turns[u].token /\ turns'[u].killed = turns[u].killed
                              /\ Alive(turns'[u]) <=> Alive(turns[u])
  BY <1>1 DEF Alive
<1>3. Exact(turns, busy, token)
  BY DEF IInv
<1>4. \A u \in DOMAIN turns' :
        /\ turns'[u].token <= token'
        /\ turns'[u].killed = TRUE => turns'[u].token < token'
        /\ Alive(turns'[u]) => turns'[u].token = token' /\ busy' = TRUE
  BY <1>1, <1>2, <1>3 DEF Exact
<1>5. \A u, v \in DOMAIN turns' : u < v => turns'[u].token < turns'[v].token
  BY <1>1, <1>2, <1>3 DEF Exact
<1>6. busy' = TRUE => \E u \in DOMAIN turns' : Alive(turns'[u])
  BY <1>1, <1>2, <1>3 DEF Exact
<1> QED
  BY <1>4, <1>5, <1>6 DEF Exact

(* The turn that runs is the last.                                         *)
LEMMA AliveIsLast ==
  ASSUME IInv, NEW t \in DOMAIN turns, Alive(turns[t])
  PROVE  /\ t = Len(turns) /\ turns[t].token = token /\ busy = TRUE
         /\ \A u \in DOMAIN turns : Alive(turns[u]) => u = t
<1>1. Exact(turns, busy, token) /\ DOMAIN turns = 1..Len(turns) /\ Len(turns) \in Nat
  BY DEF IInv, TypeOK
<1>2. \A u \in DOMAIN turns : turns[u].token \in Nat
  BY TurnIsTurn DEF IInv, Turn
<1>3. token \in Nat
  BY DEF IInv, TypeOK
<1>4. ASSUME NEW u \in DOMAIN turns, Alive(turns[u]) PROVE u = Len(turns) /\ turns[u].token = token /\ busy = TRUE
  <2>1. turns[u].token = token /\ busy = TRUE
    BY <1>1, <1>4 DEF Exact
  <2>2. ASSUME u < Len(turns) PROVE FALSE
    <3>1. Len(turns) \in DOMAIN turns
      BY <1>1
    <3>2. turns[u].token < turns[Len(turns)].token /\ turns[Len(turns)].token <= token
      BY <1>1, <2>2, <3>1 DEF Exact
    <3> QED
      BY <1>2, <1>3, <2>1, <3>1, <3>2
  <2> QED
    BY <1>1, <2>1, <2>2
<1> QED
  BY <1>4

LEMMA HoldsKept ==
  ASSUME IInv, NEW t \in DOMAIN turns, NEW r \in Turn, turns' = [turns EXCEPT ![t] = r],
         r.killed = turns[t].killed, r.co = turns[t].co \/ r.co = "ended",
         UNCHANGED setting, active' = active \/ (active = t /\ r.co = "ended")
  PROVE  Holds'
<1> SUFFICES ASSUME setting'.streaming = TRUE, NEW u \in DOMAIN turns', Alive(turns'[u]), turns'[u].co = "waiting"
             PROVE  active' = u
  BY DEF Holds
<1>1. /\ DOMAIN turns' = DOMAIN turns /\ turns'[t] = r
      /\ \A v \in DOMAIN turns : v # t => turns'[v] = turns[v]
  BY TurnsAfter DEF IInv
<1>2. Alive(turns[u]) /\ turns[u].co = "waiting"
  BY <1>1 DEF Alive
<1>3. active = u
  BY <1>1, <1>2 DEF IInv, Holds
<1>4. ~(active = t /\ r.co = "ended")
  BY <1>1, <1>3
<1> QED
  BY <1>3, <1>4

(* Turns and objects go on, nothing is written.                            *)
LEMMA OwnerKept ==
  ASSUME IInv, NEW s \in Sessions, NEW w, Owner(turns, objects, s, w),
         \A u \in DOMAIN turns :
           /\ u \in DOMAIN turns'
           /\ turns[u].pc \notin {"off", "ready"} => turns'[u].pc \notin {"off", "ready"} /\ turns'[u].obj = turns[u].obj,
         \A i \in DOMAIN objects : i \in DOMAIN objects' /\ objects'[i].session = objects[i].session
  PROVE  Owner(turns', objects', s, w)
BY DEF Owner

LEMMA OwnedKept ==
  ASSUME IInv, UNCHANGED logs,
         \A u \in DOMAIN turns :
           /\ u \in DOMAIN turns'
           /\ turns[u].pc \notin {"off", "ready"} => turns'[u].pc \notin {"off", "ready"} /\ turns'[u].obj = turns[u].obj,
         \A i \in DOMAIN objects : i \in DOMAIN objects' /\ objects'[i].session = objects[i].session
  PROVE  Owned'
BY OwnerKept DEF IInv, Owned

LEMMA UndisputedBefore ==
  ASSUME TypeOK, Undisputed', turns' \in Seq(Turn), Len(turns) <= Len(turns'),
         \A u \in DOMAIN turns : /\ turns[u].killed = TRUE => turns'[u].killed = TRUE
                                 /\ turns'[u].pc = "off" => turns[u].pc = "off"
  PROVE  Undisputed
<1>1. /\ turns \in Seq(Turn) /\ DOMAIN turns = 1..Len(turns) /\ Len(turns) \in Nat
      /\ DOMAIN turns' = 1..Len(turns') /\ Len(turns') \in Nat
  BY DEF TypeOK
<1> SUFFICES ASSUME NEW u \in DOMAIN turns, turns[u].killed PROVE u = Len(turns) \/ turns[u].pc = "off"
  BY DEF Undisputed, Turns
<1>2. turns[u].killed = TRUE
  OBVIOUS
<1>3. u \in DOMAIN turns'
  BY <1>1
<1>4. turns'[u].killed = TRUE
  BY <1>2
<1>5. u = Len(turns') \/ turns'[u].pc = "off"
  BY <1>3, <1>4 DEF Undisputed, Turns
<1>6. CASE u = Len(turns')
  <2>1. u \in 1..Len(turns) /\ Len(turns) <= u
    BY <1>1, <1>6
  <2>2. u = Len(turns)
    BY <1>1, <2>1
  <2> QED
    BY <2>2
<1>7. CASE turns'[u].pc = "off"
  BY <1>7
<1> QED
  BY <1>5, <1>6, <1>7

(* A step of the last turn.                                                *)
LEMMA AnswerableKept ==
  ASSUME IInv, NEW t \in DOMAIN turns, NEW r \in Turn, turns' = [turns EXCEPT ![t] = r],
         r.killed = turns[t].killed, r.pc = "off" => turns[t].pc = "off",
         UNCHANGED setting, Len(objects') = Len(objects),
         Over(turns[t]) => Alive(turns[t]) \/ (Over(r) /\ UNCHANGED <<objects, shown>>),
         Len(objects) = 1 /\ AnswerableAfter(turns[t], objects, shown, setting.streaming)
            => AnswerableAfter(r, objects', shown', setting.streaming)
  PROVE  Answerable'
<1>1. /\ turns' \in Seq(Turn) /\ DOMAIN turns' = DOMAIN turns /\ Len(turns') = Len(turns) /\ turns'[t] = r
      /\ turns # <<>> /\ turns' # <<>> /\ Len(turns) \in Nat
      /\ \A u \in DOMAIN turns : u # t => turns'[u] = turns[u]
  BY TurnsAfter DEF IInv
<1> SUFFICES ASSUME Len(objects') = 1, Undisputed'
             PROVE  /\ \A u \in DOMAIN turns' : u # Len(turns') => Over(turns'[u])
                    /\ turns' # <<>>
                    /\ AnswerableAfter(turns'[Len(turns')], objects', shown', setting'.streaming)
  BY DEF Answerable
<1>2. Undisputed
  <2>1. \A u \in DOMAIN turns : /\ turns[u].killed = TRUE => turns'[u].killed = TRUE
                                /\ turns'[u].pc = "off" => turns[u].pc = "off"
    BY <1>1
  <2>2. Len(turns) <= Len(turns') /\ TypeOK
    BY <1>1 DEF IInv
  <2> QED
    BY <1>1, <2>1, <2>2, UndisputedBefore
<1>3. /\ \A u \in DOMAIN turns : u # Len(turns) => Over(turns[u])
      /\ AnswerableAfter(turns[Len(turns)], objects, shown, setting.streaming)
  BY <1>1, <1>2 DEF IInv, Answerable
<1>4. CASE t = Len(turns)
  <2>1. AnswerableAfter(r, objects', shown', setting.streaming)
    BY <1>3, <1>4
  <2>2. \A u \in DOMAIN turns' : u # Len(turns') => Over(turns'[u])
    BY <1>1, <1>3, <1>4
  <2> QED
    BY <1>1, <1>4, <2>1, <2>2
<1>5. CASE t # Len(turns)
  <2>1. Over(r) /\ UNCHANGED <<objects, shown>>
    BY <1>3, <1>5, AliveIsLast
  <2>2. \A u \in DOMAIN turns' : u # Len(turns') => Over(turns'[u])
    BY <1>1, <1>3, <2>1
  <2>3. turns'[Len(turns')] = turns[Len(turns)]
    <3>1. Len(turns) \in DOMAIN turns
      BY <1>1, TurnsAfter DEF IInv
    <3> QED
      BY <1>1, <1>5, <3>1
  <2> QED
    BY <1>1, <1>3, <2>1, <2>2, <2>3
<1> QED
  BY <1>4, <1>5

-----------------------------------------------------------------------------
(* The agent loop.                                                         *)

LEMMA ObjectsAfterLoop ==
  ASSUME IInv, NEW t \in DOMAIN turns, NEW r, Loops(t, r)
  PROVE  \E p \in Guarded \cup {None} :
           /\ objects' \in Seq(Object) /\ Len(objects') = Len(objects) /\ DOMAIN objects' = DOMAIN objects
           /\ \A i \in DOMAIN objects : objects'[i].session = objects[i].session
           /\ objects'[turns[t].obj].pending = p
           /\ r.pc = "left" /\ r.out \notin {None, "raised"} => r.out = p
<1>1. turns[t].pc \notin {"off", "done", "ready"}
  BY DEF Loops, Works
<1>2. turns[t].obj \in DOMAIN objects /\ objects[turns[t].obj] \in Object /\ objects \in Seq(Object)
  BY <1>1, PendingIsGuarded DEF IInv, TypeOK
<1>3. PICK p \in Guarded \cup {None} :
        /\ SetPending(t, p) \/ (UNCHANGED objects /\ p = Pending(t))
        /\ r.pc = "left" /\ r.out \notin {None, "raised"} => r.out = p
  BY DEF Loops
<1>4. CASE UNCHANGED objects /\ p = Pending(t)
  BY <1>2, <1>3, <1>4 DEF Pending
<1>5. CASE SetPending(t, p)
  <2> DEFINE o == [objects[turns[t].obj] EXCEPT !.pending = p]
  <2>1. o \in Object /\ o.session = objects[turns[t].obj].session /\ o.pending = p
    BY <1>2 DEF Object
  <2>2. objects' = [objects EXCEPT ![turns[t].obj] = o]
    BY <1>5 DEF SetPending
  <2> HIDE DEF o
  <2>3. objects' \in Seq(Object) /\ Len(objects') = Len(objects) /\ DOMAIN objects' = DOMAIN objects
    BY <1>2, <2>1, <2>2
  <2>4. /\ \A i \in DOMAIN objects : objects'[i].session = objects[i].session
        /\ objects'[turns[t].obj].pending = p
    BY <1>2, <2>1, <2>2
  <2> QED
    BY <1>3, <2>3, <2>4
<1> QED
  BY <1>3, <1>4, <1>5

LEMMA LogsAfterLoop ==
  ASSUME IInv, NEW t \in DOMAIN turns, NEW r, Loops(t, r)
  PROVE  /\ logs' \in [Sessions -> Seq(Entry)]
         /\ \A s \in Sessions : \A i \in DOMAIN logs'[s] :
              \/ i \in DOMAIN logs[s] /\ logs'[s][i] = logs[s][i]
              \/ s = Session(t) /\ logs'[s][i].turn = t
<1>1. logs \in [Sessions -> Seq(Entry)]
  BY DEF IInv, TypeOK
<1>2. CASE UNCHANGED logs
  BY <1>1, <1>2
<1>3. ASSUME NEW ms \in Seq(Entry), Write(t, ms), \A i \in DOMAIN ms : ms[i].turn = t
      PROVE  /\ logs' \in [Sessions -> Seq(Entry)]
             /\ \A s \in Sessions : \A i \in DOMAIN logs'[s] :
                  \/ i \in DOMAIN logs[s] /\ logs'[s][i] = logs[s][i]
                  \/ s = Session(t) /\ logs'[s][i].turn = t
  <2> DEFINE l == logs[Session(t)]
             w == l \o ms
  <2>1. Session(t) \in Sessions
    BY PendingIsGuarded DEF Loops, Works
  <2>2. l \in Seq(Entry)
    BY <1>1, <2>1
  <2>3. logs' = [logs EXCEPT ![Session(t)] = w]
    BY <1>3 DEF Write
  <2>4. /\ w \in Seq(Entry) /\ DOMAIN l = 1..Len(l) /\ Len(l) \in Nat /\ DOMAIN ms = 1..Len(ms) /\ Len(ms) \in Nat
        /\ DOMAIN w = 1..(Len(l) + Len(ms))
        /\ \A i \in 1..(Len(l) + Len(ms)) : w[i] = IF i <= Len(l) THEN l[i] ELSE ms[i - Len(l)]
    <3> HIDE DEF l
    <3>1. l \o ms \in Seq(Entry) /\ Len(l \o ms) = Len(l) + Len(ms)
      BY <2>2, ConcatProperties
    <3>2. \A i \in 1..(Len(l) + Len(ms)) : (l \o ms)[i] = IF i <= Len(l) THEN l[i] ELSE ms[i - Len(l)]
      BY <2>2, ConcatProperties
    <3> QED
      BY <2>2, <3>1, <3>2
  <2> HIDE DEF w
  <2>5. ASSUME NEW i \in DOMAIN w
        PROVE  (i \in DOMAIN l /\ w[i] = l[i]) \/ w[i].turn = t
    <3> HIDE DEF l
    <3>1. CASE i <= Len(l)
      BY <2>4, <2>5, <3>1
    <3>2. CASE ~(i <= Len(l))
      <4>1. w[i] = ms[i - Len(l)] /\ i - Len(l) \in DOMAIN ms
        BY <2>4, <2>5, <3>2
      <4> QED
        BY <1>3, <4>1
    <3> QED
      BY <3>1, <3>2
  <2>6. logs' \in [Sessions -> Seq(Entry)]
    BY <1>1, <2>1, <2>3, <2>4
  <2>7. ASSUME NEW s \in Sessions, NEW i \in DOMAIN logs'[s]
        PROVE  \/ i \in DOMAIN logs[s] /\ logs'[s][i] = logs[s][i]
               \/ s = Session(t) /\ logs'[s][i].turn = t
    <3>1. CASE s = Session(t)
      BY <1>1, <2>1, <2>3, <2>5, <2>7, <3>1
    <3>2. CASE s # Session(t)
      BY <1>1, <2>1, <2>3, <2>7, <3>2
    <3> QED
      BY <3>1, <3>2
  <2> QED
    BY <2>6, <2>7
<1> QED
  BY <1>2, <1>3 DEF Loops

LEMMA LoopInvariant ==
  ASSUME IInv, NEW t \in DOMAIN turns, NEW r, Loops(t, r)
  PROVE  IInv'
<1>1. /\ r \in Turn /\ turns' = [turns EXCEPT ![t] = r] /\ turns[t].pc \notin {"off", "done", "ready", "left"}
      /\ UNCHANGED <<setting, current, busy, token, notes, shown, active>> /\ guidance' \in Seq(Nat)
      /\ r.pc \notin {"off", "ready", "done"}
  BY DEF Loops, Works
<1>2. /\ r.token = turns[t].token /\ r.co = turns[t].co /\ r.killed = turns[t].killed
      /\ r.obj = turns[t].obj /\ Sound(r, setting.streaming, Len(objects))
  BY <1>1 DEF Loops, Works
<1>3. /\ turns' \in Seq(Turn) /\ DOMAIN turns' = DOMAIN turns /\ turns'[t] = r
      /\ \A u \in DOMAIN turns : u # t => turns'[u] = turns[u]
  BY <1>1, TurnsAfter DEF IInv
<1>4. PICK p \in Guarded \cup {None} :
        /\ objects' \in Seq(Object) /\ Len(objects') = Len(objects) /\ DOMAIN objects' = DOMAIN objects
        /\ \A i \in DOMAIN objects : objects'[i].session = objects[i].session
        /\ objects'[turns[t].obj].pending = p
        /\ r.pc = "left" /\ r.out \notin {None, "raised"} => r.out = p
  BY ObjectsAfterLoop
<1>5. TypeOK'
  BY <1>1, <1>3, <1>4, LogsAfterLoop DEF IInv, TypeOK
<1>6. (\A u \in DOMAIN turns : Sound(turns[u], setting.streaming, Len(objects)))'
  BY <1>1, <1>2, <1>4, SoundKept
<1>7. Exact(turns, busy, token)'
  BY <1>1, <1>2, ExactKept
<1>8. Holds'
  BY <1>1, <1>2, HoldsKept
<1>9. Owned'
  <2>1. \A u \in DOMAIN turns :
          /\ u \in DOMAIN turns'
          /\ turns[u].pc \notin {"off", "ready"} => turns'[u].pc \notin {"off", "ready"} /\ turns'[u].obj = turns[u].obj
    BY <1>1, <1>2, <1>3
  <2>2. ASSUME NEW s \in Sessions, NEW i \in DOMAIN logs'[s]
        PROVE  Owner(turns', objects', s, logs'[s][i].turn)
    <3>1. CASE i \in DOMAIN logs[s] /\ logs'[s][i] = logs[s][i]
      <4>1. Owner(turns, objects, s, logs[s][i].turn)
        BY <3>1 DEF IInv, Owned
      <4> QED
        BY <1>4, <2>1, <3>1, <4>1, OwnerKept
    <3>2. CASE s = Session(t) /\ logs'[s][i].turn = t
      <4>1. turns[t].obj \in DOMAIN objects /\ objects[turns[t].obj].session = s
        BY <1>1, <3>2, PendingIsGuarded DEF Session
      <4> QED
        BY <1>1, <1>2, <1>3, <1>4, <3>2, <4>1 DEF Owner
    <3> QED
      BY <3>1, <3>2, LogsAfterLoop
  <2> QED
    BY <2>2 DEF Owned
<1>10. Answerable'
  <2>1. ASSUME Len(objects) = 1, AnswerableAfter(turns[t], objects, shown, setting.streaming)
        PROVE  AnswerableAfter(r, objects', shown', setting.streaming)
    <3>1. turns[t].obj = 1
      <4>1. turns[t].obj \in DOMAIN objects /\ DOMAIN objects = 1..Len(objects)
        BY <1>1, PendingIsGuarded, SoundTurn
      <4> QED
        BY <2>1, <4>1
    <3>2. shown = None
      BY <1>1, <2>1 DEF AnswerableAfter, Quiet
    <3> QED
      BY <1>1, <1>4, <3>1, <3>2 DEF AnswerableAfter
  <2>2. ~Over(turns[t])
    BY <1>1 DEF Over
  <2> QED
    BY <1>1, <1>2, <1>4, <2>1, <2>2, AnswerableKept
<1> QED
  BY <1>5, <1>6, <1>7, <1>8, <1>9, <1>10 DEF IInv

-----------------------------------------------------------------------------
(* The runner: a step that moves one turn and writes nothing.              *)
LEMMA RunnerKeeps ==
  ASSUME IInv, NEW t \in DOMAIN turns, NEW r \in Turn, turns' = [turns EXCEPT ![t] = r],
         UNCHANGED <<setting, logs, objects, current, guidance, notes, token>>,
         busy' \in BOOLEAN, shown' \in Guarded \cup {None}, active' \in Nat,
         r.killed = turns[t].killed, r.pc = "off" => turns[t].pc = "off",
         turns[t].pc \notin {"off", "ready"} => r.obj = turns[t].obj /\ r.pc \notin {"off", "ready"},
         Sound(r, setting.streaming, Len(objects)),
         Over(turns[t]) => Alive(turns[t]) \/ (Over(r) /\ UNCHANGED shown),
         Len(objects) = 1 /\ AnswerableAfter(turns[t], objects, shown, setting.streaming)
            => AnswerableAfter(r, objects, shown', setting.streaming),
         Exact(turns, busy, token)', Holds'
  PROVE  IInv'
<1>1. /\ turns' \in Seq(Turn) /\ DOMAIN turns' = DOMAIN turns /\ turns'[t] = r
      /\ \A u \in DOMAIN turns : u # t => turns'[u] = turns[u]
  BY TurnsAfter DEF IInv
<1>2. TypeOK'
  BY <1>1 DEF IInv, TypeOK
<1>3. (\A u \in DOMAIN turns : Sound(turns[u], setting.streaming, Len(objects)))'
  BY SoundKept
<1>4. Owned'
  <2>1. \A u \in DOMAIN turns :
          /\ u \in DOMAIN turns'
          /\ turns[u].pc \notin {"off", "ready"} => turns'[u].pc \notin {"off", "ready"} /\ turns'[u].obj = turns[u].obj
    BY <1>1
  <2>2. \A i \in DOMAIN objects : i \in DOMAIN objects' /\ objects'[i].session = objects[i].session
    OBVIOUS
  <2> QED
    BY <2>1, <2>2, OwnedKept
<1>5. Answerable'
  <2>1. Len(objects) = 1 /\ AnswerableAfter(turns[t], objects, shown, setting.streaming)
           => AnswerableAfter(r, objects', shown', setting.streaming)
    OBVIOUS
  <2> QED
    BY <2>1, AnswerableKept
<1> QED
  BY <1>2, <1>3, <1>4, <1>5 DEF IInv

LEMMA RunnerTypes ==
  ASSUME IInv
  PROVE  /\ busy \in BOOLEAN /\ shown \in Guarded \cup {None} /\ active \in Nat /\ current \in DOMAIN objects
         /\ DOMAIN objects = 1..Len(objects) /\ Len(objects) \in Nat /\ setting.streaming \in BOOLEAN
BY ChatAssumption DEF IInv, TypeOK

LEMMA CoStartInvariant ==
  ASSUME IInv, NEW t \in DOMAIN turns, CoStart(t), UNCHANGED setting
  PROVE  IInv'
<1> DEFINE q == turns[t]
           o == IF setting.streaming THEN current ELSE q.obj
           r == [q EXCEPT !.co = "waiting", !.pc = "ready", !.obj = o]
<1>1. /\ q \in Turn /\ t \in Nat /\ Sound(q, setting.streaming, Len(objects)) /\ q.co = "queued" /\ q.killed # TRUE
      /\ UNCHANGED <<logs, objects, current, busy, token, guidance, notes>>
  BY SoundTurn DEF CoStart, ui
<1>2. q.killed = FALSE /\ q.pc = "off" /\ Alive(q) /\ q.obj \in Nat
  BY <1>1 DEF Turn, Sound, Alive
<1>3. o \in Nat
  BY <1>2, RunnerTypes
<1> HIDE DEF o
<1>4. /\ r \in Turn /\ r.co = "waiting" /\ r.pc = "ready" /\ r.obj = o /\ r.out = q.out /\ r.call = q.call
      /\ r.token = q.token /\ r.killed = q.killed /\ r.cancelled = q.cancelled
      /\ r.kind = q.kind /\ r.request = q.request
  <2>1. "ready" \in Locations
    BY DEF Locations
  <2>2. r = [q EXCEPT !.co = "waiting", !.pc = "ready", !.obj = o]
    OBVIOUS
  <2>3. "waiting" \in {"queued", "waiting", "ended"} /\ q \in Turn
    BY <1>1
  <2> HIDE DEF q, r
  <2> QED
    BY <1>3, <2>1, <2>2, <2>3 DEF Turn
<1>5. turns' = [turns EXCEPT ![t] = r]
  <2>1. CASE setting.streaming
    BY <2>1 DEF CoStart, Update, o
  <2>2. CASE ~setting.streaming
    <3>1. r = [q EXCEPT !.co = "waiting", !.pc = "ready"]
      BY <1>1, <2>2 DEF Turn, o
    <3> QED
      BY <2>2, <3>1 DEF CoStart, Update
  <2> QED
    BY <2>1, <2>2
<1>6. /\ setting.streaming = TRUE => shown' = None /\ active' = t /\ o \in 1..Len(objects)
      /\ setting.streaming # TRUE => shown' = shown /\ active' = active
  BY RunnerTypes DEF CoStart, o
<1> HIDE DEF r
<1>7. Sound(r, setting.streaming, Len(objects))
  BY <1>1, <1>2, <1>4, <1>6 DEF Sound
<1>8. Exact(turns, busy, token)'
  BY <1>1, <1>4, <1>5, ExactKept
<1>9. Holds'
  <2> SUFFICES ASSUME setting'.streaming = TRUE, NEW u \in DOMAIN turns', Alive(turns'[u])
               PROVE  active' = u
    BY DEF Holds
  <2>1. u \in DOMAIN turns /\ Alive(turns[u])
    BY <1>1, <1>2, <1>4, <1>5, TurnsAfter DEF Alive, IInv
  <2>2. u = t
    BY <1>2, <2>1, AliveIsLast
  <2> QED
    BY <1>6, <2>2
<1>10. ASSUME AnswerableAfter(q, objects, shown, setting.streaming)
       PROVE  AnswerableAfter(r, objects, shown', setting.streaming)
  BY <1>4, <1>6, <1>10 DEF AnswerableAfter, Quiet
<1>11. busy' \in BOOLEAN /\ shown' \in Guarded \cup {None} /\ active' \in Nat
  BY <1>1, <1>6, RunnerTypes
<1> QED
  BY <1>1, <1>2, <1>4, <1>5, <1>7, <1>8, <1>9, <1>10, <1>11, RunnerKeeps

LEMMA CoReturnInvariant ==
  ASSUME IInv, NEW t \in DOMAIN turns, CoReturn(t), UNCHANGED setting
  PROVE  IInv'
<1> DEFINE q == turns[t]
           r == [q EXCEPT !.co = "ended"]
<1>1. /\ q \in Turn /\ Sound(q, setting.streaming, Len(objects)) /\ q.co = "waiting" /\ q.pc = "done" /\ q.killed # TRUE
      /\ UNCHANGED <<logs, objects, current, token, guidance, notes>> /\ turns' = [turns EXCEPT ![t] = r]
  BY SoundTurn DEF CoReturn, FinishChatTurn, Update
<1>2. q.killed = FALSE /\ Alive(q)
  BY <1>1 DEF Turn, Alive
<1>3. /\ r \in Turn /\ r.co = "ended" /\ r.pc = "done" /\ r.obj = q.obj /\ r.out = q.out /\ r.call = q.call
      /\ r.token = q.token /\ r.killed = q.killed /\ r.cancelled = q.cancelled
      /\ r.kind = q.kind /\ r.request = q.request
  BY <1>1 DEF Turn
<1>4. busy' = FALSE
  BY <1>2, AliveIsLast DEF CoReturn, FinishChatTurn
<1>5. /\ shown' = shown \/ (shown' = q.out /\ q.out # "raised")
      /\ active' \in Nat
  BY RunnerTypes DEF CoReturn, Release, Report
<1> HIDE DEF r
<1>6. Sound(r, setting.streaming, Len(objects))
  BY <1>1, <1>3 DEF Sound
<1>7. /\ DOMAIN turns' = DOMAIN turns /\ turns'[t] = r
      /\ \A u \in DOMAIN turns : u # t => turns'[u] = turns[u]
  BY <1>1, <1>3, TurnsAfter DEF IInv
<1>8. \A u \in DOMAIN turns' : ~Alive(turns'[u])
  <2>1. ~Alive(r)
    BY <1>3 DEF Alive
  <2>2. \A u \in DOMAIN turns : u # t => ~Alive(turns[u])
    BY <1>2, AliveIsLast
  <2> QED
    BY <1>7, <2>1, <2>2
<1>9. Exact(turns, busy, token)'
  <2>1. Exact(turns, busy, token)
    BY DEF IInv
  <2>2. \A u \in DOMAIN turns : turns'[u].token = turns[u].token /\ turns'[u].killed = turns[u].killed
    BY <1>3, <1>7
  <2>3. \A u \in DOMAIN turns' : turns'[u].token <= token' /\ (turns'[u].killed = TRUE => turns'[u].token < token')
    BY <1>1, <1>7, <2>1, <2>2 DEF Exact
  <2>4. \A u, v \in DOMAIN turns' : u < v => turns'[u].token < turns'[v].token
    BY <1>7, <2>1, <2>2 DEF Exact
  <2> QED
    BY <1>4, <1>8, <2>3, <2>4 DEF Exact
<1>10. Holds'
  BY <1>8 DEF Holds
<1>11. ASSUME AnswerableAfter(q, objects, shown, setting.streaming)
       PROVE  AnswerableAfter(r, objects, shown', setting.streaming)
  BY <1>1, <1>3, <1>5, <1>11 DEF AnswerableAfter, Quiet
<1>12. busy' \in BOOLEAN /\ shown' \in Guarded \cup {None}
  BY <1>1, <1>4, <1>5, RunnerTypes DEF Turn
<1> QED
  BY <1>1, <1>2, <1>3, <1>5, <1>6, <1>9, <1>10, <1>11, <1>12, RunnerKeeps

LEMMA CoUnwindInvariant ==
  ASSUME IInv, NEW t \in DOMAIN turns, CoUnwind(t), UNCHANGED setting
  PROVE  IInv'
<1> DEFINE q == turns[t]
           r == [q EXCEPT !.co = "ended"]
<1>1. /\ q \in Turn /\ Sound(q, setting.streaming, Len(objects)) /\ q.co # "ended" /\ q.killed = TRUE
      /\ UNCHANGED <<logs, objects, current, token, shown, guidance, notes>> /\ turns' = [turns EXCEPT ![t] = r]
  <2>1. q \in Turn /\ Sound(q, setting.streaming, Len(objects)) /\ q.co # "ended" /\ q.killed
    BY SoundTurn DEF CoUnwind
  <2>2. q.killed = TRUE
    BY <2>1
  <2>3. UNCHANGED <<logs, objects, current, token, shown, guidance, notes>> /\ turns' = [turns EXCEPT ![t] = r]
    BY DEF CoUnwind, FinishChatTurn, Update, ui
  <2> QED
    BY <2>1, <2>2, <2>3
<1>2. /\ r \in Turn /\ r.co = "ended" /\ r.pc = q.pc /\ r.obj = q.obj /\ r.out = q.out /\ r.call = q.call
      /\ r.token = q.token /\ r.killed = q.killed /\ r.cancelled = q.cancelled
      /\ r.kind = q.kind /\ r.request = q.request
  BY <1>1 DEF Turn
<1>3. busy' = busy
  <2>1. q.token < token /\ q.token \in Nat /\ token \in Nat
    BY <1>1 DEF IInv, Exact, TypeOK, Turn
  <2>2. q.token # token
    BY <2>1
  <2> QED
    BY <2>2 DEF CoUnwind, FinishChatTurn, ui
<1>4. active' = active \/ (active = t /\ active' = 0)
  BY DEF CoUnwind, Release
<1> HIDE DEF r
<1>5. Sound(r, setting.streaming, Len(objects))
  BY <1>1, <1>2 DEF Sound
<1>6. /\ DOMAIN turns' = DOMAIN turns /\ turns'[t] = r
      /\ \A u \in DOMAIN turns : u # t => turns'[u] = turns[u]
  BY <1>1, <1>2, TurnsAfter DEF IInv
<1>7. \A u \in DOMAIN turns :
        /\ turns'[u].token = turns[u].token /\ turns'[u].killed = turns[u].killed
        /\ Alive(turns'[u]) <=> Alive(turns[u])
  BY <1>1, <1>2, <1>6 DEF Alive
<1>8. Exact(turns, busy, token)'
  <2>1. Exact(turns, busy, token)
    BY DEF IInv
  <2>2. \A u \in DOMAIN turns' :
          /\ turns'[u].token <= token' /\ (turns'[u].killed = TRUE => turns'[u].token < token')
          /\ Alive(turns'[u]) => turns'[u].token = token' /\ busy' = TRUE
    BY <1>1, <1>3, <1>6, <1>7, <2>1 DEF Exact
  <2>3. \A u, v \in DOMAIN turns' : u < v => turns'[u].token < turns'[v].token
    BY <1>6, <1>7, <2>1 DEF Exact
  <2>4. busy' = TRUE => \E u \in DOMAIN turns' : Alive(turns'[u])
    BY <1>3, <1>6, <1>7, <2>1 DEF Exact
  <2> QED
    BY <2>2, <2>3, <2>4 DEF Exact
<1>9. Holds'
  BY <1>1, <1>2, <1>4, HoldsKept
<1>10. Over(q) => Over(r)
  BY <1>2 DEF Over
<1>11. ASSUME AnswerableAfter(q, objects, shown, setting.streaming)
       PROVE  AnswerableAfter(r, objects, shown', setting.streaming)
  BY <1>1, <1>2, <1>11 DEF AnswerableAfter
<1>12. busy' \in BOOLEAN /\ shown' \in Guarded \cup {None} /\ active' \in Nat
  BY <1>1, <1>3, <1>4, RunnerTypes
<1> QED
  BY <1>1, <1>2, <1>5, <1>8, <1>9, <1>10, <1>11, <1>12, RunnerKeeps

(* A runner's step of the thread: the coroutine and the UI are untouched.  *)
LEMMA RunnerThread ==
  ASSUME IInv, NEW t \in DOMAIN turns, turns[t].pc \in {"ready", "left"},
         NEW r \in Turn, turns' = [turns EXCEPT ![t] = r], r.pc \in {"begin", "done"},
         UNCHANGED <<setting, logs, objects, current, busy, guidance, notes, token>>,
         r.token = turns[t].token, r.co = turns[t].co, r.killed = turns[t].killed, r.cancelled = turns[t].cancelled,
         r.kind = turns[t].kind, r.request = turns[t].request, r.out = turns[t].out,
         turns[t].pc # "ready" => r.obj = turns[t].obj,
         r.pc = "begin" => turns[t].pc = "ready" /\ r.obj \in DOMAIN objects,
         shown' \in Guarded \cup {None}, active' \in Nat, active' = active \/ setting.streaming # TRUE,
         AnswerableAfter(turns[t], objects, shown, setting.streaming)
            => AnswerableAfter(r, objects, shown', setting.streaming)
  PROVE  IInv'
<1>1. Sound(r, setting.streaming, Len(objects))
  BY SoundTurn DEF Sound
<1>2. Exact(turns, busy, token)'
  BY ExactKept
<1>3. Holds'
  <2>1. CASE active' = active
    BY <2>1, HoldsKept
  <2>2. CASE setting.streaming # TRUE
    BY <2>2 DEF Holds
  <2> QED
    BY <2>1, <2>2
<1>4. ~Over(turns[t]) /\ r.pc \notin {"off", "ready"}
  BY DEF Over
<1>5. busy' \in BOOLEAN
  BY RunnerTypes
<1> QED
  BY <1>1, <1>2, <1>3, <1>4, <1>5, RunnerKeeps

LEMMA ThreadStartInvariant ==
  ASSUME IInv, NEW t \in DOMAIN turns, ThreadStart(t), UNCHANGED setting
  PROVE  IInv'
<1> DEFINE q == turns[t]
<1>1. /\ q \in Turn /\ t \in Nat /\ Sound(q, setting.streaming, Len(objects)) /\ q.pc = "ready"
      /\ UNCHANGED <<logs, objects, current, busy, token, guidance, notes>>
  BY SoundTurn DEF ThreadStart, ui
<1>2. CASE setting.streaming
  <2> DEFINE r == [q EXCEPT !.pc = "begin"]
  <2>1. turns' = [turns EXCEPT ![t] = r] /\ UNCHANGED <<shown, active>>
    BY <1>2 DEF ThreadStart, Update
  <2>2. /\ r \in Turn /\ r.co = q.co /\ r.pc = "begin" /\ r.obj = q.obj /\ r.out = q.out
        /\ r.token = q.token /\ r.killed = q.killed /\ r.cancelled = q.cancelled
        /\ r.kind = q.kind /\ r.request = q.request
    BY <1>1 DEF Turn, Locations
  <2> HIDE DEF r
  <2>3. r.obj \in DOMAIN objects
    BY <1>1, <1>2, <2>2, RunnerTypes DEF Sound
  <2>4. ASSUME AnswerableAfter(q, objects, shown, setting.streaming)
        PROVE  AnswerableAfter(r, objects, shown', setting.streaming)
    BY <1>1, <1>2, <2>1, <2>2, <2>4, RunnerTypes DEF AnswerableAfter, Quiet
  <2>5. shown' \in Guarded \cup {None} /\ active' \in Nat
    BY <2>1, RunnerTypes
  <2> QED
    BY <1>1, <2>1, <2>2, <2>3, <2>4, <2>5, RunnerThread
<1>3. CASE ~setting.streaming
  <2> DEFINE r == [q EXCEPT !.pc = "begin", !.obj = current]
  <2>1. turns' = [turns EXCEPT ![t] = r] /\ shown' = None /\ active' = t
    BY <1>3 DEF ThreadStart, Update
  <2>2. current \in Nat /\ current \in DOMAIN objects
    BY RunnerTypes
  <2>3. /\ r \in Turn /\ r.co = q.co /\ r.pc = "begin" /\ r.obj = current /\ r.out = q.out
        /\ r.token = q.token /\ r.killed = q.killed /\ r.cancelled = q.cancelled
        /\ r.kind = q.kind /\ r.request = q.request
    BY <1>1, <2>2 DEF Turn, Locations
  <2> HIDE DEF r
  <2>4. ASSUME AnswerableAfter(q, objects, shown, setting.streaming)
        PROVE  AnswerableAfter(r, objects, shown', setting.streaming)
    BY <2>1, <2>3 DEF AnswerableAfter
  <2>5. shown' \in Guarded \cup {None} /\ active' \in Nat /\ setting.streaming # TRUE
    BY <1>1, <1>3, <2>1
  <2> QED
    BY <1>1, <2>1, <2>2, <2>3, <2>4, <2>5, RunnerThread
<1> QED
  BY <1>2, <1>3

LEMMA DoneTurn ==
  ASSUME NEW q \in Turn
  PROVE  LET r == [q EXCEPT !.pc = "done"]
         IN  /\ r \in Turn /\ r.co = q.co /\ r.pc = "done" /\ r.obj = q.obj /\ r.out = q.out
             /\ r.token = q.token /\ r.killed = q.killed /\ r.cancelled = q.cancelled
             /\ r.kind = q.kind /\ r.request = q.request
BY DEF Turn, Locations

LEMMA ThreadDroppedInvariant ==
  ASSUME IInv, NEW t \in DOMAIN turns, ThreadDropped(t), UNCHANGED setting
  PROVE  IInv'
<1> DEFINE q == turns[t]
           r == [q EXCEPT !.pc = "done"]
<1>1. /\ q \in Turn /\ Sound(q, setting.streaming, Len(objects)) /\ q.pc = "ready"
      /\ UNCHANGED <<logs, objects, current, busy, token, shown, active, guidance, notes>>
      /\ turns' = [turns EXCEPT ![t] = r]
  BY SoundTurn DEF ThreadDropped, Update, ui
<1>2. /\ r \in Turn /\ r.co = q.co /\ r.pc = "done" /\ r.obj = q.obj /\ r.out = q.out
      /\ r.token = q.token /\ r.killed = q.killed /\ r.cancelled = q.cancelled
      /\ r.kind = q.kind /\ r.request = q.request
  BY <1>1, DoneTurn
<1> HIDE DEF r
<1>3. ASSUME AnswerableAfter(q, objects, shown, setting.streaming)
      PROVE  AnswerableAfter(r, objects, shown', setting.streaming)
  BY <1>1, <1>2, <1>3 DEF AnswerableAfter, Quiet, Sound
<1>4. shown' \in Guarded \cup {None} /\ active' \in Nat
  BY <1>1, RunnerTypes
<1> QED
  BY <1>1, <1>2, <1>3, <1>4, RunnerThread

LEMMA ThreadLeavesInvariant ==
  ASSUME IInv, NEW t \in DOMAIN turns, ThreadLeaves(t), UNCHANGED setting
  PROVE  IInv'
<1> DEFINE q == turns[t]
           r == [q EXCEPT !.pc = "done"]
<1>1. /\ q \in Turn /\ q.pc = "left"
      /\ UNCHANGED <<logs, objects, current, busy, token, guidance, notes>> /\ turns' = [turns EXCEPT ![t] = r]
  BY SoundTurn DEF ThreadLeaves, Update, ui
<1>2. /\ r \in Turn /\ r.co = q.co /\ r.pc = "done" /\ r.obj = q.obj /\ r.out = q.out
      /\ r.token = q.token /\ r.killed = q.killed /\ r.cancelled = q.cancelled
      /\ r.kind = q.kind /\ r.request = q.request
  BY <1>1, DoneTurn
<1>3. /\ shown' = shown \/ (shown' = q.out /\ q.out # "raised")
      /\ active' \in Nat /\ (active' = active \/ setting.streaming # TRUE)
  <2>1. CASE setting.streaming
    BY <2>1, RunnerTypes DEF ThreadLeaves
  <2>2. CASE ~setting.streaming
    <3>1. Release(t) /\ Report(t) /\ setting.streaming # TRUE
      BY <2>2 DEF ThreadLeaves
    <3>2. active' \in Nat
      BY <3>1, RunnerTypes DEF Release
    <3>3. shown' = shown \/ (shown' = q.out /\ q.out # "raised")
      BY <3>1 DEF Report
    <3> QED
      BY <3>1, <3>2, <3>3
  <2> QED
    BY <2>1, <2>2
<1> HIDE DEF r
<1>4. ASSUME AnswerableAfter(q, objects, shown, setting.streaming)
      PROVE  AnswerableAfter(r, objects, shown', setting.streaming)
  BY <1>1, <1>2, <1>3, <1>4 DEF AnswerableAfter, Quiet
<1>5. shown' \in Guarded \cup {None}
  BY <1>1, <1>3, RunnerTypes DEF Turn
<1> QED
  BY <1>1, <1>2, <1>3, <1>4, <1>5, RunnerThread

-----------------------------------------------------------------------------
(* The UI.                                                                 *)

LEMMA InitInvariant == Init => IInv
<1> SUFFICES ASSUME Init PROVE IInv
  OBVIOUS
<1>1. \A l \in Past \cup {<<>>} : l \in Seq(Entry) /\ \A i \in DOMAIN l : l[i].turn = 0
  <2>1. Say(User("input"), 0, 0) \in Entry /\ Say(User("input"), 0, 0).turn = 0
    BY WhatIsSaid
  <2>2. \A cs \in {<<>>} \cup {<<c>> : c \in Guarded} :
          Say(Assistant(cs), 0, 0) \in Entry /\ Say(Assistant(cs), 0, 0).turn = 0
    BY WhatIsSaid, ChatAssumption
  <2>3. ASSUME NEW l \in Past PROVE l \in Seq(Entry) /\ \A i \in DOMAIN l : l[i].turn = 0
    <3>1. PICK cs \in {<<>>} \cup {<<c>> : c \in Guarded} :
            l = <<Say(User("input"), 0, 0), Say(Assistant(cs), 0, 0)>>
      BY DEF Past
    <3>2. PICK m, n \in Entry : l = <<m, n>> /\ m.turn = 0 /\ n.turn = 0
      BY <2>1, <2>2, <3>1
    <3> QED
      BY <3>2
  <2>4. <<>> \in Seq(Entry) /\ \A i \in DOMAIN <<>> : <<>>[i].turn = 0
    OBVIOUS
  <2> QED
    BY <2>3, <2>4
<1>2. logs \in [Sessions -> Seq(Entry)] /\ \A s \in Sessions : \A i \in DOMAIN logs[s] : logs[s][i].turn = 0
  <2>1. logs \in [Sessions -> Past \cup {<<>>}]
    BY DEF Init
  <2> QED
    BY <1>1, <2>1
<1>3. objects \in Seq(Object) /\ current \in DOMAIN objects
  <2>1. [session |-> First, pending |-> None] \in Object
    BY ChatAssumption DEF Object
  <2> QED
    BY <2>1 DEF Init
<1>4. turns = <<>> /\ turns \in Seq(Turn) /\ DOMAIN turns = {}
  BY DEF Init
<1>5. TypeOK
  <2>1. busy \in BOOLEAN /\ token \in Nat /\ shown \in Guarded \cup {None} /\ setting \in Settings
    BY DEF Init
  <2>2. guidance \in Seq(Nat) /\ notes \in Nat /\ active \in Nat
    BY DEF Init
  <2> QED
    BY <1>2, <1>3, <1>4, <2>1, <2>2 DEF TypeOK
<1>6. Exact(turns, busy, token) /\ Holds
  BY <1>4 DEF Exact, Holds, Init
<1>7. Owned
  BY <1>2 DEF Owned, Owner
<1>8. Answerable
  BY <1>4 DEF Answerable, Init
<1> QED
  BY <1>4, <1>5, <1>6, <1>7, <1>8 DEF IInv

(* The session left behind by nothing: a turn is started.                  *)
LEMMA IdleIsOver ==
  ASSUME IInv, busy = FALSE, turns # <<>>, turns[Len(turns)].killed = TRUE => turns[Len(turns)].pc = "off"
  PROVE  Over(turns[Len(turns)])
<1> DEFINE n == Len(turns)
<1>1. n \in DOMAIN turns
  BY DEF IInv, TypeOK
<1>2. turns[n] \in Turn /\ Sound(turns[n], setting.streaming, Len(objects))
  BY <1>1, SoundTurn
<1>3. ~Alive(turns[n])
  BY <1>1, AliveIsLast
<1> HIDE DEF n
<1>4. CASE turns[n].killed = TRUE
  <2>1. turns[n].pc = "off" /\ turns[n].co # "waiting"
    BY <1>2, <1>4 DEF Sound, n
  <2> QED
    BY <2>1 DEF Over, n
<1>5. CASE turns[n].killed # TRUE
  <2>1. turns[n].killed = FALSE
    BY <1>2, <1>5 DEF Turn
  <2>2. turns[n].co = "ended"
    BY <1>3, <2>1 DEF Alive
  <2>3. turns[n].pc = "done"
    BY <1>2, <2>1, <2>2 DEF Sound
  <2> QED
    BY <2>2, <2>3 DEF Over, n
<1> QED
  BY <1>4, <1>5 DEF n

LEMMA StartTurnInvariant ==
  ASSUME IInv, NEW kind \in {"message", "allow", "deny"}, NEW request \in Guarded \cup {None},
         kind # "message" => request \in Guarded, ~busy, StartTurn(kind, request),
         UNCHANGED <<setting, logs, objects, current, shown, guidance, notes, active>>
  PROVE  IInv'
<1> DEFINE r == NewTurn(token', kind, request)
           n == Len(turns) + 1
<1>1. /\ turns \in Seq(Turn) /\ token \in Nat /\ token' = token + 1 /\ busy' = TRUE /\ busy = FALSE
      /\ turns' = Append(turns, r) /\ Len(turns) \in Nat /\ DOMAIN turns = 1..Len(turns)
  BY DEF StartTurn, IInv, TypeOK
<1>2. /\ r \in Turn /\ r.token = token + 1 /\ r.co = "queued" /\ r.killed = FALSE /\ r.pc = "off" /\ r.out = None
      /\ r.kind = kind /\ r.request = request
  BY <1>1 DEF NewTurn, Turn, Locations
<1> HIDE DEF r
<1>3. /\ turns' \in Seq(Turn) /\ Len(turns') = n /\ DOMAIN turns' = 1..n /\ turns'[n] = r
      /\ \A u \in DOMAIN turns : turns'[u] = turns[u] /\ u \in DOMAIN turns' /\ u < n
      /\ \A u \in DOMAIN turns' : u # n => u \in DOMAIN turns
  BY <1>1, <1>2
<1>4. turns' # <<>>
  BY <1>1, <1>3
<1>5. TypeOK'
  BY <1>1, <1>3 DEF IInv, TypeOK
<1>6. (\A u \in DOMAIN turns : Sound(turns[u], setting.streaming, Len(objects)))'
  <2>1. Sound(r, setting.streaming, Len(objects))
    BY <1>2 DEF Sound
  <2>2. \A u \in DOMAIN turns : Sound(turns[u], setting.streaming, Len(objects))
    BY DEF IInv
  <2> SUFFICES ASSUME NEW u \in DOMAIN turns' PROVE Sound(turns'[u], setting'.streaming, Len(objects'))
    OBVIOUS
  <2>3. CASE u = n
    BY <1>3, <2>1, <2>3
  <2>4. CASE u # n
    BY <1>3, <2>2, <2>4
  <2> QED
    BY <2>3, <2>4
<1>7. \A u \in DOMAIN turns : ~Alive(turns[u]) /\ turns[u].token \in Nat /\ turns[u].token <= token
  <2>1. \A u \in DOMAIN turns : ~Alive(turns[u])
    BY <1>1, AliveIsLast
  <2>2. \A u \in DOMAIN turns : turns[u].token \in Nat
    BY TurnIsTurn DEF IInv, Turn
  <2> QED
    BY <2>1, <2>2 DEF IInv, Exact
<1>8. Exact(turns, busy, token)'
  <2>1. Exact(turns, busy, token)
    BY DEF IInv
  <2>2. ASSUME NEW u \in DOMAIN turns'
        PROVE  /\ turns'[u].token <= token'
               /\ turns'[u].killed = TRUE => turns'[u].token < token'
               /\ Alive(turns'[u]) => turns'[u].token = token' /\ busy' = TRUE
    <3>1. CASE u = n
      BY <1>1, <1>2, <1>3, <3>1
    <3>2. CASE u # n
      BY <1>1, <1>3, <1>7, <3>2
    <3> QED
      BY <3>1, <3>2
  <2>3. ASSUME NEW u \in DOMAIN turns', NEW v \in DOMAIN turns', u < v
        PROVE  turns'[u].token < turns'[v].token
    <3>1. u \in DOMAIN turns
      BY <1>1, <1>3, <2>3
    <3>2. CASE v = n
      BY <1>1, <1>2, <1>3, <1>7, <3>1, <3>2
    <3>3. CASE v # n
      BY <1>3, <2>1, <2>3, <3>1, <3>3 DEF Exact
    <3> QED
      BY <3>2, <3>3
  <2>4. Alive(turns'[n]) /\ n \in DOMAIN turns'
    BY <1>1, <1>2, <1>3 DEF Alive
  <2> QED
    BY <2>2, <2>3, <2>4 DEF Exact
<1>9. Holds'
  <2> SUFFICES ASSUME NEW u \in DOMAIN turns', Alive(turns'[u]), turns'[u].co = "waiting" PROVE FALSE
    BY DEF Holds
  <2>1. u # n
    BY <1>2, <1>3
  <2> QED
    BY <1>3, <1>7, <2>1
<1>10. Owned'
  <2>1. \A u \in DOMAIN turns :
          /\ u \in DOMAIN turns'
          /\ turns[u].pc \notin {"off", "ready"} => turns'[u].pc \notin {"off", "ready"} /\ turns'[u].obj = turns[u].obj
    BY <1>3
  <2>2. \A i \in DOMAIN objects : i \in DOMAIN objects' /\ objects'[i].session = objects[i].session
    OBVIOUS
  <2> QED
    BY <2>1, <2>2, OwnedKept
<1>11. Answerable'
  <2> SUFFICES ASSUME Len(objects) = 1, Undisputed'
               PROVE  /\ \A u \in DOMAIN turns' : u # Len(turns') => Over(turns'[u])
                      /\ AnswerableAfter(turns'[Len(turns')], objects, shown, setting.streaming)
    BY <1>4 DEF Answerable
  <2>1. Undisputed
    <3>1. \A u \in DOMAIN turns :
            /\ turns[u].killed = TRUE => turns'[u].killed = TRUE
            /\ turns'[u].pc = "off" => turns[u].pc = "off"
      BY <1>3
    <3>2. Len(turns) <= Len(turns') /\ TypeOK
      BY <1>1, <1>3 DEF IInv
    <3> QED
      BY <1>3, <3>1, <3>2, UndisputedBefore
  <2>2. \A u \in DOMAIN turns : u # Len(turns) => Over(turns[u])
    BY <2>1 DEF IInv, Answerable
  <2>3. ASSUME turns # <<>> PROVE Over(turns[Len(turns)])
    <3>1. Len(turns) \in DOMAIN turns
      BY <1>1, <2>3
    <3>2. turns[Len(turns)].killed = TRUE => turns[Len(turns)].pc = "off"
      <4>1. Len(turns) \in DOMAIN turns' /\ turns'[Len(turns)] = turns[Len(turns)] /\ Len(turns) # Len(turns')
        <5>1. Len(turns) < n
          BY <1>3, <3>1
        <5> QED
          BY <1>3, <3>1, <5>1
      <4> QED
        BY <4>1 DEF Undisputed, Turns
    <3> QED
      BY <1>1, <2>3, <3>2, IdleIsOver
  <2>4. \A u \in DOMAIN turns' : u # Len(turns') => Over(turns'[u])
    <3>1. \A u \in DOMAIN turns : Over(turns[u])
      BY <1>1, <2>2, <2>3
    <3> QED
      BY <1>3, <3>1
  <2>5. shown # None => objects[1].pending = shown
    <3>1. CASE turns = <<>>
      BY <2>1, <3>1 DEF IInv, Answerable
    <3>2. CASE turns # <<>>
      BY <2>1, <3>2 DEF IInv, Answerable, AnswerableAfter
    <3> QED
      BY <3>1, <3>2
  <2>6. AnswerableAfter(turns'[Len(turns')], objects, shown, setting.streaming)
    BY <1>2, <1>3, <2>5 DEF AnswerableAfter, Quiet
  <2> QED
    BY <2>4, <2>6
<1> QED
  BY <1>5, <1>6, <1>8, <1>9, <1>10, <1>11 DEF IInv

LEMMA QueueGuidanceInvariant ==
  ASSUME IInv, QueueGuidance, UNCHANGED setting
  PROVE  IInv'
<1>1. UNCHANGED <<logs, objects, current, busy, token, shown, active, turns>>
  BY DEF QueueGuidance, ui
<1>2. notes' \in Nat /\ guidance' \in Seq(Nat)
  BY DEF QueueGuidance, IInv, TypeOK
<1>3. TypeOK'
  BY <1>1, <1>2 DEF IInv, TypeOK
<1>4. (\A u \in DOMAIN turns : Sound(turns[u], setting.streaming, Len(objects)))'
  BY <1>1 DEF IInv
<1>5. Exact(turns, busy, token)' /\ Holds'
  BY <1>1 DEF IInv, Holds
<1>6. Owned'
  BY <1>1 DEF IInv, Owned
<1>7. Answerable'
  BY <1>1 DEF IInv, Answerable, Undisputed, Turns
<1> QED
  BY <1>3, <1>4, <1>5, <1>6, <1>7 DEF IInv

LEMMA ResumeSessionInvariant ==
  ASSUME IInv, ResumeSession, UNCHANGED setting
  PROVE  IInv'
<1>1. UNCHANGED <<logs, busy, token, shown, guidance, notes, active, turns>>
  BY DEF ResumeSession, ui
<1>2. objects \in Seq(Object) /\ current \in DOMAIN objects /\ Len(objects) \in Nat /\ DOMAIN objects = 1..Len(objects)
  BY DEF IInv, TypeOK
<1>3. PICK o \in Object : objects' = Append(objects, o)
  <2>1. PICK s \in Sessions :
          objects' = Append(objects, [session |-> s,
            pending |-> IF Unanswered(logs[s]) = {} THEN None ELSE CHOOSE c \in Unanswered(logs[s]) : TRUE])
    BY DEF ResumeSession
  <2> DEFINE p == IF Unanswered(logs[s]) = {} THEN None ELSE CHOOSE c \in Unanswered(logs[s]) : TRUE
  <2>2. p \in Guarded \cup {None}
    <3>1. Unanswered(logs[s]) \subseteq Guarded
      BY DEF Unanswered
    <3> QED
      BY <3>1
  <2>3. objects' = Append(objects, [session |-> s, pending |-> p])
    BY <2>1
  <2> HIDE DEF p
  <2> QED
    BY <2>2, <2>3 DEF Object
<1>4. /\ objects' \in Seq(Object) /\ Len(objects') = Len(objects) + 1 /\ DOMAIN objects' = 1..(Len(objects) + 1)
      /\ \A i \in DOMAIN objects : i \in DOMAIN objects' /\ objects'[i] = objects[i]
  BY <1>2, <1>3
<1>5. current' \in DOMAIN objects'
  BY <1>2, <1>4 DEF ResumeSession
<1>6. TypeOK'
  BY <1>1, <1>4, <1>5 DEF IInv, TypeOK
<1>7. (\A u \in DOMAIN turns : Sound(turns[u], setting.streaming, Len(objects)))'
  <2> SUFFICES ASSUME NEW u \in DOMAIN turns PROVE Sound(turns[u], setting.streaming, Len(objects'))
    BY <1>1
  <2>1. Sound(turns[u], setting.streaming, Len(objects))
    BY DEF IInv
  <2>2. \A i \in 1..Len(objects) : i \in 1..Len(objects')
    BY <1>2, <1>4
  <2> QED
    BY <2>1, <2>2 DEF Sound
<1>8. Exact(turns, busy, token)' /\ Holds'
  BY <1>1 DEF IInv, Holds
<1>9. Owned'
  BY <1>1, <1>4, OwnedKept
<1>10. Answerable'
  <2>1. Len(objects') # 1
    <3>1. current \in 1..Len(objects)
      BY <1>2
    <3> QED
      BY <1>2, <1>4, <3>1
  <2> QED
    BY <2>1 DEF Answerable
<1> QED
  BY <1>6, <1>7, <1>8, <1>9, <1>10 DEF IInv

(* Esc Esc: the turn that runs is killed, and told if the provider         *)
(* streams.                                                                *)
LEMMA InterruptInvariant ==
  ASSUME IInv, Interrupt, UNCHANGED setting
  PROVE  IInv'
<1> DEFINE after(u) == [turns[u] EXCEPT !.killed = @ \/ turns[u].token = token, !.cancelled = @ \/ u = active]
<1>1. /\ UNCHANGED <<logs, objects, current, shown, guidance, notes, active>>
      /\ busy = TRUE /\ busy' = FALSE /\ token' = token + 1 /\ token \in Nat
      /\ turns' = [u \in DOMAIN turns |-> after(u)]
  BY DEF Interrupt, IInv, TypeOK
<1>2. turns \in Seq(Turn) /\ DOMAIN turns = 1..Len(turns) /\ Len(turns) \in Nat
  BY DEF IInv, TypeOK
<1>3. ASSUME NEW u \in DOMAIN turns
      PROVE  /\ after(u) \in Turn
             /\ after(u).token = turns[u].token /\ after(u).co = turns[u].co /\ after(u).pc = turns[u].pc
             /\ after(u).obj = turns[u].obj /\ after(u).out = turns[u].out /\ after(u).call = turns[u].call
             /\ after(u).kind = turns[u].kind /\ after(u).request = turns[u].request
             /\ after(u).asks = turns[u].asks /\ after(u).runs = turns[u].runs
  <2>1. turns[u] \in Turn
    BY <1>2
  <2> QED
    BY <2>1 DEF Turn
<1>4. ASSUME NEW u \in DOMAIN turns
      PROVE  /\ (after(u).killed = TRUE) <=> (turns[u].killed = TRUE \/ turns[u].token = token)
             /\ (after(u).cancelled = TRUE) <=> (turns[u].cancelled = TRUE \/ u = active)
  <2>1. turns[u] \in Turn
    BY <1>2
  <2> QED
    BY <2>1 DEF Turn
<1> HIDE DEF after
<1>5. /\ turns' \in Seq(Turn) /\ Len(turns') = Len(turns) /\ DOMAIN turns' = DOMAIN turns
      /\ \A u \in DOMAIN turns : turns'[u] = after(u)
  BY <1>1, <1>2, <1>3
<1>6. TypeOK'
  <2>1. busy' \in BOOLEAN
    BY <1>1
  <2>2. token' \in Nat
    BY <1>1
  <2> QED
    BY <1>1, <1>5, <2>1, <2>2 DEF IInv, TypeOK
<1>7. \A u \in DOMAIN turns : turns[u].token \in Nat /\ turns[u].token <= token
  BY TurnIsTurn DEF IInv, Turn, Exact
<1>8. \A u \in DOMAIN turns : ~Alive(after(u))
  <2> SUFFICES ASSUME NEW u \in DOMAIN turns, after(u).co # "ended", after(u).killed = FALSE PROVE FALSE
    BY DEF Alive
  <2>1. turns[u].co # "ended" /\ turns[u].killed # TRUE /\ turns[u].token # token
    BY <1>3, <1>4
  <2>2. turns[u].killed = FALSE
    BY <2>1, TurnIsTurn DEF IInv, Turn
  <2> QED
    BY <2>1, <2>2, AliveIsLast DEF Alive
<1>9. (\A u \in DOMAIN turns : Sound(turns[u], setting.streaming, Len(objects)))'
  <2> SUFFICES ASSUME NEW u \in DOMAIN turns PROVE Sound(after(u), setting.streaming, Len(objects))
    BY <1>1, <1>5
  <2> DEFINE r == after(u)
  <2>1. Sound(turns[u], setting.streaming, Len(objects)) /\ turns[u] \in Turn
    BY SoundTurn
  <2>2. /\ r.co = turns[u].co /\ r.pc = turns[u].pc /\ r.obj = turns[u].obj /\ r.out = turns[u].out
        /\ r.call = turns[u].call /\ r.kind = turns[u].kind /\ r.request = turns[u].request
    BY <1>3
  <2>3. r.killed = FALSE => turns[u].killed = FALSE
    BY <1>4, <2>1 DEF Turn
  <2>4. ASSUME setting.streaming = TRUE, r.killed = TRUE PROVE r.cancelled = TRUE \/ r.pc = "off"
    <3>1. CASE turns[u].killed = TRUE
      <4>1. turns[u].cancelled = TRUE \/ turns[u].pc = "off"
        BY <2>1, <2>4, <3>1 DEF Sound
      <4> QED
        BY <1>4, <2>2, <4>1
    <3>2. CASE turns[u].killed # TRUE
      <4>1. turns[u].killed = FALSE /\ turns[u].token = token
        BY <1>4, <2>1, <2>4, <3>2 DEF Turn
      <4>2. PICK v \in DOMAIN turns : Alive(turns[v])
        BY <1>1 DEF IInv, Exact
      <4>3. turns[v].token = token /\ v \in Nat /\ u \in Nat
        <5>1. turns[v].token = token
          BY <4>2, AliveIsLast
        <5> QED
          BY <5>1, SoundTurn
      <4>4. u = v
        <5>1. ~(u < v) /\ ~(v < u)
          BY <1>7, <4>1, <4>3 DEF IInv, Exact
        <5> QED
          BY <4>3, <5>1
      <4>5. turns[u].co = "queued" \/ turns[u].co = "waiting"
        BY <2>1, <4>2, <4>4 DEF Alive, Turn
      <4>6. CASE turns[u].co = "queued"
        BY <2>1, <2>2, <4>6 DEF Sound
      <4>7. CASE turns[u].co = "waiting"
        <5>1. active = u
          BY <2>4, <4>2, <4>4, <4>7 DEF IInv, Holds
        <5> QED
          BY <1>4, <5>1
      <4> QED
        BY <4>5, <4>6, <4>7
    <3> QED
      BY <3>1, <3>2
  <2> HIDE DEF r
  <2>5. Sound(r, setting.streaming, Len(objects))
    BY <2>1, <2>2, <2>3, <2>4 DEF Sound
  <2> QED
    BY <2>5 DEF r
<1>10. Exact(turns, busy, token)'
  <2>1. Exact(turns, busy, token)
    BY DEF IInv
  <2>2. \A u \in DOMAIN turns' :
          /\ turns'[u].token <= token'
          /\ turns'[u].killed = TRUE => turns'[u].token < token'
    BY <1>1, <1>3, <1>5, <1>7
  <2>3. \A u \in DOMAIN turns' : ~Alive(turns'[u])
    BY <1>5, <1>8
  <2>4. \A u, v \in DOMAIN turns' : u < v => turns'[u].token < turns'[v].token
    BY <1>3, <1>5, <2>1 DEF Exact
  <2> QED
    BY <1>1, <2>2, <2>3, <2>4 DEF Exact
<1>11. Holds'
  BY <1>5, <1>8 DEF Holds
<1>12. Owned'
  <2>1. \A u \in DOMAIN turns :
          /\ u \in DOMAIN turns'
          /\ turns[u].pc \notin {"off", "ready"} => turns'[u].pc \notin {"off", "ready"} /\ turns'[u].obj = turns[u].obj
    BY <1>3, <1>5
  <2>2. \A i \in DOMAIN objects : i \in DOMAIN objects' /\ objects'[i].session = objects[i].session
    BY <1>1
  <2> QED
    BY <1>1, <2>1, <2>2, OwnedKept
<1>13. Answerable'
  <2> SUFFICES ASSUME Len(objects) = 1, Undisputed'
               PROVE  /\ \A u \in DOMAIN turns' : u # Len(turns') => Over(turns'[u])
                      /\ turns' = <<>> => shown = None
                      /\ turns' # <<>> => AnswerableAfter(turns'[Len(turns')], objects, shown, setting.streaming)
    BY <1>1 DEF Answerable
  <2>1. Undisputed
    <3>1. \A u \in DOMAIN turns :
            /\ turns[u].killed = TRUE => turns'[u].killed = TRUE
            /\ turns'[u].pc = "off" => turns[u].pc = "off"
      BY <1>3, <1>4, <1>5
    <3>2. Len(turns) <= Len(turns') /\ TypeOK
      BY <1>2, <1>5 DEF IInv
    <3> QED
      BY <1>5, <3>1, <3>2, UndisputedBefore
  <2>2. /\ \A u \in DOMAIN turns : u # Len(turns) => Over(turns[u])
        /\ turns = <<>> => shown = None
        /\ turns # <<>> => AnswerableAfter(turns[Len(turns)], objects, shown, setting.streaming)
    BY <2>1 DEF IInv, Answerable
  <2>3. turns = <<>> <=> turns' = <<>>
    BY <1>2, <1>5
  <2>4. \A u \in DOMAIN turns' : u # Len(turns') => Over(turns'[u])
    BY <1>3, <1>5, <2>2 DEF Over
  <2>5. ASSUME turns # <<>> PROVE AnswerableAfter(turns'[Len(turns')], objects, shown, setting.streaming)
    <3>1. Len(turns) \in DOMAIN turns
      BY <1>2, <2>5
    <3> QED
      BY <1>3, <1>5, <2>2, <2>5, <3>1 DEF AnswerableAfter
  <2> QED
    BY <2>2, <2>3, <2>4, <2>5
<1> QED
  BY <1>6, <1>9, <1>10, <1>11, <1>12, <1>13 DEF IInv

LEMMA StepInvariant ==
  ASSUME IInv, Next
  PROVE  IInv'
<1>1. UNCHANGED setting
  BY DEF Next
<1>2. ASSUME NEW t \in DOMAIN turns, CoStep(t) PROVE IInv'
  BY <1>1, <1>2, CoStartInvariant, CoReturnInvariant, CoUnwindInvariant DEF CoStep
<1>3. ASSUME NEW t \in DOMAIN turns, ThreadStep(t) PROVE IInv'
  <2>1. CASE ThreadStart(t) \/ ThreadDropped(t) \/ ThreadLeaves(t)
    BY <1>1, <2>1, ThreadStartInvariant, ThreadDroppedInvariant, ThreadLeavesInvariant
  <2>2. CASE ~(ThreadStart(t) \/ ThreadDropped(t) \/ ThreadLeaves(t))
    BY <1>1, <1>3, <2>2, WhatTheLoopDoes, LoopInvariant DEF ThreadStep
  <2> QED
    BY <2>1, <2>2
<1>4. CASE SubmitMessage
  <2>1. None \in Guarded \cup {None}
    OBVIOUS
  <2> QED
    BY <1>1, <1>4, <2>1, StartTurnInvariant DEF SubmitMessage, Idle
<1>5. CASE SubmitAnswer
  <2>1. shown \in Guarded
    BY <1>5, RunnerTypes DEF SubmitAnswer
  <2>2. PICK answer \in {"allow", "deny"} : StartTurn(answer, shown)
    BY <1>5 DEF SubmitAnswer
  <2> QED
    BY <1>1, <1>5, <2>1, <2>2, StartTurnInvariant DEF SubmitAnswer, Idle
<1>6. CASE QueueGuidance \/ Interrupt \/ ResumeSession
  BY <1>1, <1>6, QueueGuidanceInvariant, InterruptInvariant, ResumeSessionInvariant
<1> QED
  BY <1>2, <1>3, <1>4, <1>5, <1>6 DEF Next, UserStep

LEMMA NextInvariant == IInv /\ [Next]_<<vars, setting>> => IInv'
<1> SUFFICES ASSUME IInv, [Next]_<<vars, setting>> PROVE IInv'
  OBVIOUS
<1>1. CASE Next
  BY <1>1, StepInvariant
<1>2. CASE UNCHANGED <<vars, setting>>
  <2>1. UNCHANGED <<setting, logs, objects, current, busy, token, shown, guidance, notes, active, turns>>
    BY <1>2 DEF vars, ui
  <2> QED
    BY <2>1 DEF IInv, TypeOK, Holds, Owned, Answerable, Undisputed, Turns
<1> QED
  BY <1>1, <1>2

LEMMA Invariance == Spec => []IInv
BY InitInvariant, NextInvariant, PTL DEF Spec

-----------------------------------------------------------------------------
(* Every variable keeps its type; a pending confirmation is of a call that *)
(* asks first (session.py, runtime.py).                                    *)
THEOREM TypeCorrect == Spec => []TypeOK
<1>1. IInv => TypeOK
  BY DEF IInv
<1> QED
  BY <1>1, Invariance, PTL

(* The UI is busy exactly while a turn runs for it, however turns were     *)
(* interrupted (tui.py, _chat_busy).                                       *)
THEOREM OneTurnAtATime == Spec => []BusyIsExact
<1>1. ASSUME IInv PROVE BusyIsExact
  <2>1. \A t \in Turns : Live(t) <=> Alive(turns[t])
    <3> SUFFICES ASSUME NEW t \in DOMAIN turns PROVE Live(t) <=> Alive(turns[t])
      BY DEF Turns
    <3>1. turns[t].killed \in BOOLEAN
      BY <1>1, TurnIsTurn DEF IInv, Turn
    <3> QED
      BY <3>1 DEF Live, Alive
  <2>2. \A t, u \in Turns : Live(t) /\ Live(u) => t = u
    BY <1>1, <2>1, AliveIsLast DEF Turns
  <2>3. busy = TRUE <=> \E t \in Turns : Live(t)
    BY <1>1, <2>1, AliveIsLast DEF Turns, IInv, Exact
  <2> QED
    BY <1>1, <2>2, <2>3, RunnerTypes DEF BusyIsExact
<1> QED
  BY <1>1, Invariance, PTL

(* A turn writes to one session, whatever the user resumes meanwhile       *)
(* (loop.py, self.session; session_commands.py, /resume).                  *)
THEOREM TurnsStayInTheirSession == Spec => []TurnInOneLog
<1>1. IInv => TurnInOneLog
  BY DEF IInv, Owned, Owner, TurnInOneLog
<1> QED
  BY <1>1, Invariance, PTL

(* The question on the screen is the one that is pending, unless threads   *)
(* of interrupted turns meet later turns (runtime.py, last_pending_input). *)
THEOREM QuestionsArePending == Spec => []AnswersFindTheirRequest
<1>1. ASSUME IInv PROVE AnswersFindTheirRequest
  <2> SUFFICES ASSUME Len(objects) = 1, Undisputed, shown # None PROVE objects[current].pending = shown
    BY DEF AnswersFindTheirRequest
  <2>1. current = 1
    BY <1>1, RunnerTypes
  <2>2. objects[1].pending = shown
    BY <1>1 DEF IInv, Answerable, AnswerableAfter
  <2> QED
    BY <2>1, <2>2
<1> QED
  BY <1>1, Invariance, PTL

StoppedTurns == setting.streaming => \A t \in Turns : turns[t].killed =>
                  turns'[t].asks = turns[t].asks /\ turns'[t].runs = turns[t].runs

(* With a provider that streams, a turn asks for nothing and runs nothing  *)
(* once Esc Esc ended it (tui.py, _interrupt_chat_turn).                   *)
THEOREM InterruptionStopsTheTurn == Spec => InterruptedTurnsStop
<1>1. ASSUME IInv, [Next]_<<vars, setting>> PROVE [StoppedTurns]_vars
  <2> SUFFICES ASSUME Next, setting.streaming, NEW u \in DOMAIN turns, turns[u].killed
               PROVE  turns'[u].asks = turns[u].asks /\ turns'[u].runs = turns[u].runs
    BY <1>1 DEF StoppedTurns, vars, Turns
  <2>1. UNCHANGED setting /\ turns \in Seq(Turn) /\ turns[u] \in Turn
    BY <1>1, TurnIsTurn DEF Next, IInv, TypeOK
  <2>2. turns[u].cancelled = TRUE \/ turns[u].pc = "off"
    <3>1. turns[u].killed = TRUE /\ setting.streaming = TRUE
      BY <1>1, RunnerTypes
    <3> QED
      BY <1>1, <3>1, SoundTurn DEF Sound
  <2>3. ASSUME NEW t \in DOMAIN turns, NEW r, Loops(t, r)
        PROVE  turns'[u].asks = turns[u].asks /\ turns'[u].runs = turns[u].runs
    <3>1. turns' = [turns EXCEPT ![t] = r]
      BY <2>3 DEF Loops, Works
    <3>2. CASE u = t
      <4>1. turns[t].pc # "off" /\ (turns[t].cancelled = TRUE => r.asks = turns[t].asks /\ r.runs = turns[t].runs)
        BY <2>3 DEF Loops, Works
      <4> QED
        BY <2>1, <2>2, <3>1, <3>2, <4>1
    <3>3. CASE u # t
      BY <2>1, <3>1, <3>3
    <3> QED
      BY <3>2, <3>3
  <2>4. ASSUME NEW t \in DOMAIN turns, CoStep(t)
        PROVE  turns'[u].asks = turns[u].asks /\ turns'[u].runs = turns[u].runs
    <3>1. CASE CoStart(t)
      BY <2>1, <3>1 DEF CoStart, Update, Turn
    <3>2. CASE CoReturn(t)
      BY <2>1, <3>2 DEF CoReturn, Update, Turn
    <3>3. CASE CoUnwind(t)
      BY <2>1, <3>3 DEF CoUnwind, Update, Turn
    <3> QED
      BY <2>4, <3>1, <3>2, <3>3 DEF CoStep
  <2>5. ASSUME NEW t \in DOMAIN turns, ThreadStep(t)
        PROVE  turns'[u].asks = turns[u].asks /\ turns'[u].runs = turns[u].runs
    <3>1. CASE ThreadStart(t)
      <4>1. CASE turns' = [turns EXCEPT ![t] = [turns[t] EXCEPT !.pc = "begin"]]
        BY <2>1, <4>1 DEF Turn
      <4>2. CASE turns' = [turns EXCEPT ![t] = [turns[t] EXCEPT !.pc = "begin", !.obj = current]]
        BY <2>1, <4>2 DEF Turn
      <4> QED
        BY <3>1, <4>1, <4>2 DEF ThreadStart, Update
    <3>2. CASE ThreadDropped(t)
      BY <2>1, <3>2 DEF ThreadDropped, Update, Turn
    <3>3. CASE ThreadLeaves(t)
      BY <2>1, <3>3 DEF ThreadLeaves, Update, Turn
    <3> QED
      BY <1>1, <2>1, <2>3, <2>5, <3>1, <3>2, <3>3, WhatTheLoopDoes DEF ThreadStep
  <2>6. CASE SubmitMessage \/ SubmitAnswer
    <3>1. PICK r : turns' = Append(turns, r)
      BY <2>6 DEF SubmitMessage, SubmitAnswer, StartTurn
    <3>2. turns'[u] = turns[u]
      BY <2>1, <3>1
    <3> QED
      BY <3>2
  <2>7. CASE Interrupt
    BY <2>1, <2>7 DEF Interrupt, Turn
  <2>8. CASE QueueGuidance \/ ResumeSession
    BY <2>8 DEF QueueGuidance, ResumeSession
  <2> QED
    BY <2>4, <2>5, <2>6, <2>7, <2>8 DEF Next, UserStep
<1>2. Spec => [][StoppedTurns]_vars
  BY <1>1, Invariance, PTL DEF Spec
<1> QED
  BY <1>2 DEF InterruptedTurnsStop, StoppedTurns
-----------------------------------------------------------------------------
(* While nobody interrupts and no session is opened anew, one turn at a    *)
(* time works on the first session, and its history owes what this turn,   *)
(* or the confirmation it has left behind, still has to answer.            *)
Hand(r) == IF r.pc \in {"exec", "record"} THEN {r.call} ELSE {}
Debt(os, ts) == IF os[1].pending # None THEN {os[1].pending} ELSE UNION {Hand(ts[t]) : t \in DOMAIN ts}

(* The debt when at most the turn r has one.                               *)
DebtOf(p, r) == IF p # None THEN {p} ELSE Hand(r)

Loose == {"resumed", "ask", "build", "inflight", "got", "exec", "record", "finish"}
Unhindered(r, p) ==
  /\ r.cancelled = FALSE
  /\ r.pc \in {"approved", "settle"} => p = r.request
  /\ r.pc \in Loose => p = None

Orderly ==
  Undisturbed =>
    /\ objects[1].session = First
    /\ \A t \in DOMAIN turns : Unhindered(turns[t], objects[1].pending)
    /\ Unbroken(logs[First]) /\ Owed(logs[First], Len(logs[First])) = Debt(objects, turns)

-----------------------------------------------------------------------------
(* What a history owes after more messages.                                *)
Waits(l, a, n, c) ==
  /\ l[a].role = "assistant" /\ c \in Elems(l[a].calls)
  /\ \A j \in (a + 1)..n : l[j].role # "assistant" /\ c \notin Elems(l[j].calls)

LEMMA OwedIsWaitedFor ==
  ASSUME NEW l, NEW n \in Nat, NEW c
  PROVE  c \in Owed(l, n) <=> \E a \in 1..n : Waits(l, a, n, c)
BY DEF Owed, Waits

LEMMA OwedSame ==
  ASSUME NEW l, NEW w, NEW n \in Nat, \A i \in 1..n : w[i] = l[i]
  PROVE  Owed(w, n) = Owed(l, n)
<1>1. ASSUME NEW c PROVE c \in Owed(w, n) <=> c \in Owed(l, n)
  <2>1. \A a \in 1..n : Waits(w, a, n, c) <=> Waits(l, a, n, c)
    BY DEF Waits
  <2> QED
    BY <2>1, OwedIsWaitedFor
<1> QED
  BY <1>1

LEMMA OwedOneMore ==
  ASSUME NEW w, NEW n \in Nat
  PROVE  Owed(w, n + 1) =
           IF w[n + 1].role = "assistant" THEN Elems(w[n + 1].calls) ELSE Owed(w, n) \ Elems(w[n + 1].calls)
<1> DEFINE m == w[n + 1]
<1>1. ASSUME NEW c
      PROVE  c \in Owed(w, n + 1) <=>
               c \in (IF m.role = "assistant" THEN Elems(m.calls) ELSE Owed(w, n) \ Elems(m.calls))
  <2>1. Waits(w, n + 1, n + 1, c) <=> m.role = "assistant" /\ c \in Elems(m.calls)
    BY DEF Waits
  <2>2. ASSUME NEW a \in 1..n
        PROVE  Waits(w, a, n + 1, c) <=> Waits(w, a, n, c) /\ m.role # "assistant" /\ c \notin Elems(m.calls)
    <3>1. (a + 1)..(n + 1) = ((a + 1)..n) \cup {n + 1}
      OBVIOUS
    <3> QED
      BY <3>1 DEF Waits
  <2>3. c \in Owed(w, n + 1) <=> \E a \in 1..(n + 1) : Waits(w, a, n + 1, c)
    BY OwedIsWaitedFor
  <2>4. 1..(n + 1) = (1..n) \cup {n + 1}
    OBVIOUS
  <2>5. c \in Owed(w, n) <=> \E a \in 1..n : Waits(w, a, n, c)
    BY OwedIsWaitedFor
  <2> QED
    BY <2>1, <2>2, <2>3, <2>4, <2>5
<1> QED
  BY <1>1

LEMMA AfterOneMessage ==
  ASSUME NEW l \in Seq(Entry), NEW m \in Entry, Unbroken(l),
         IF m.role = "tool" THEN Elems(m.calls) \subseteq Owed(l, Len(l)) ELSE Owed(l, Len(l)) = {}
  PROVE  LET w == l \o <<m>>
         IN  /\ Unbroken(w)
             /\ Owed(w, Len(w)) = IF m.role = "assistant" THEN Elems(m.calls) ELSE Owed(l, Len(l)) \ Elems(m.calls)
<1> DEFINE w == l \o <<m>>
           n == Len(l)
<1>1. /\ n \in Nat /\ Len(w) = n + 1 /\ DOMAIN w = 1..(n + 1) /\ DOMAIN l = 1..n
      /\ w[n + 1] = m /\ \A i \in 1..n : w[i] = l[i]
  <2>1. <<m>> \in Seq(Entry) /\ Len(<<m>>) = 1 /\ <<m>>[1] = m
    OBVIOUS
  <2>2. /\ Len(w) = n + 1 /\ w \in Seq(Entry)
        /\ \A i \in 1..(n + 1) : w[i] = IF i <= n THEN l[i] ELSE <<m>>[i - n]
    BY <2>1, ConcatProperties
  <2>3. n \in Nat /\ DOMAIN l = 1..n
    OBVIOUS
  <2> HIDE DEF w, n
  <2> QED
    BY <2>1, <2>2, <2>3
<1> HIDE DEF w
<1>2. \A i \in 0..n : Owed(w, i) = Owed(l, i)
  BY <1>1, OwedSame
<1>3. Owed(w, n + 1) = IF m.role = "assistant" THEN Elems(m.calls) ELSE Owed(l, n) \ Elems(m.calls)
  <2>1. Owed(w, n) = Owed(l, n)
    BY <1>1, <1>2
  <2> QED
    BY <1>1, <2>1, OwedOneMore
<1>4. ASSUME NEW i \in DOMAIN w
      PROVE  IF w[i].role = "tool" THEN Elems(w[i].calls) \subseteq Owed(w, i - 1) ELSE Owed(w, i - 1) = {}
  <2>1. Owed(w, i - 1) = Owed(l, i - 1)
    BY <1>1, <1>2
  <2>2. CASE i \in DOMAIN l
    BY <1>1, <2>1, <2>2 DEF Unbroken
  <2>3. CASE i = n + 1
    BY <1>1, <2>1, <2>3
  <2> QED
    BY <1>1, <2>2, <2>3
<1>5. Unbroken(w)
  BY <1>4 DEF Unbroken
<1> QED
  BY <1>1, <1>3, <1>5 DEF w

(* Any number of messages of the user, when nothing is owed.               *)
LEMMA AfterUserMessages ==
  ASSUME NEW l \in Seq(Entry), NEW ms \in Seq(Entry), \A i \in DOMAIN ms : ms[i].role = "user",
         Unbroken(l), Owed(l, Len(l)) = {}
  PROVE  Unbroken(l \o ms) /\ Owed(l \o ms, Len(l \o ms)) = {}
<1> DEFINE w == l \o ms
           n == Len(l)
           k == Len(ms)
<1>1. /\ n \in Nat /\ k \in Nat /\ Len(w) = n + k /\ DOMAIN w = 1..(n + k) /\ DOMAIN l = 1..n /\ DOMAIN ms = 1..k
      /\ \A i \in 1..n : w[i] = l[i]
      /\ \A j \in (n + 1)..(n + k) : w[j] = ms[j - n]
  <2>1. /\ Len(w) = n + k /\ w \in Seq(Entry)
        /\ \A i \in 1..(n + k) : w[i] = IF i <= n THEN l[i] ELSE ms[i - n]
    BY ConcatProperties
  <2>2. n \in Nat /\ DOMAIN l = 1..n /\ k \in Nat /\ DOMAIN ms = 1..k
    OBVIOUS
  <2> HIDE DEF w, n, k
  <2> QED
    BY <2>1, <2>2
<1> HIDE DEF w, n, k
<1>2. ASSUME NEW j \in (n + 1)..(n + k) PROVE w[j].role = "user"
  <2>1. j - n \in DOMAIN ms /\ w[j] = ms[j - n]
    BY <1>1
  <2> QED
    BY <2>1
<1>3. \A i \in 0..n : Owed(w, i) = Owed(l, i)
  BY <1>1, OwedSame
<1>4. ASSUME NEW i \in n..(n + k) PROVE Owed(w, i) = {}
  <2>1. Owed(w, n) = {}
    BY <1>1, <1>3 DEF n
  <2>2. ASSUME NEW c, NEW a \in 1..i, Waits(w, a, i, c) PROVE FALSE
    <3>1. a <= n
      BY <1>1, <1>2, <2>2 DEF Waits
    <3>2. Waits(w, a, n, c) /\ a \in 1..n
      BY <1>1, <2>2, <3>1 DEF Waits
    <3>3. c \in Owed(w, n)
      BY <1>1, <3>2, OwedIsWaitedFor
    <3> QED
      BY <2>1, <3>3
  <2>3. i \in Nat
    BY <1>1
  <2> QED
    BY <2>2, <2>3, OwedIsWaitedFor
<1>5. ASSUME NEW i \in DOMAIN w
      PROVE  IF w[i].role = "tool" THEN Elems(w[i].calls) \subseteq Owed(w, i - 1) ELSE Owed(w, i - 1) = {}
  <2>1. CASE i \in DOMAIN l
    <3>1. Owed(w, i - 1) = Owed(l, i - 1) /\ w[i] = l[i]
      BY <1>1, <1>3, <2>1
    <3> QED
      BY <2>1, <3>1 DEF Unbroken
  <2>2. CASE i \notin DOMAIN l
    <3>1. i \in (n + 1)..(n + k) /\ i - 1 \in n..(n + k)
      BY <1>1, <2>2
    <3> QED
      BY <1>2, <1>4, <3>1
  <2> QED
    BY <2>1, <2>2
<1>6. Unbroken(w)
  BY <1>5 DEF Unbroken
<1>7. Owed(w, Len(w)) = {}
  BY <1>1, <1>4
<1> QED
  BY <1>6, <1>7 DEF w

-----------------------------------------------------------------------------
(* The turn that works, its session and its debt.                          *)
LEMMA DebtOfOne ==
  ASSUME NEW os, NEW ts, NEW t \in DOMAIN ts, \A u \in DOMAIN ts : u # t => ts[u].pc \in {"off", "done"}
  PROVE  Debt(os, ts) = DebtOf(os[1].pending, ts[t])
<1>1. \A u \in DOMAIN ts : u # t => Hand(ts[u]) = {}
  BY DEF Hand
<1>2. UNION {Hand(ts[u]) : u \in DOMAIN ts} = Hand(ts[t])
  BY <1>1
<1> QED
  BY <1>2 DEF Debt, DebtOf

LEMMA AtHome ==
  ASSUME IInv, Orderly, Undisturbed, NEW t \in DOMAIN turns, turns[t].pc \notin {"off", "ready", "done"}
  PROVE  /\ turns[t].obj = 1 /\ Session(t) = First /\ Pending(t) = objects[1].pending
         /\ \A u \in DOMAIN turns : u # t => turns[u].pc \in {"off", "done"}
         /\ logs[First] \in Seq(Entry) /\ Unbroken(logs[First])
         /\ Owed(logs[First], Len(logs[First])) = DebtOf(objects[1].pending, turns[t])
         /\ Unhindered(turns[t], objects[1].pending)
<1>1. turns[t].obj = 1
  <2>1. turns[t].obj \in DOMAIN objects /\ DOMAIN objects = 1..Len(objects) /\ Len(objects) = 1
    BY PendingIsGuarded, SoundTurn DEF Undisturbed
  <2> QED
    BY <2>1
<1>2. objects[1].session = First /\ Unhindered(turns[t], objects[1].pending)
  BY DEF Orderly
<1>3. \A u \in DOMAIN turns : u # t => turns[u].pc \in {"off", "done"}
  <2>1. Undisputed
    BY DEF Undisturbed, Undisputed, Turns
  <2>2. \A u \in DOMAIN turns : u # Len(turns) => Over(turns[u])
    BY <2>1 DEF IInv, Answerable, Undisturbed
  <2>3. t = Len(turns)
    BY <2>2 DEF Over
  <2> QED
    BY <2>2, <2>3 DEF Over
<1>4. logs[First] \in Seq(Entry)
  BY ChatAssumption DEF IInv, TypeOK
<1>5. Debt(objects, turns) = DebtOf(objects[1].pending, turns[t])
  BY <1>3, DebtOfOne
<1> QED
  BY <1>1, <1>2, <1>3, <1>4, <1>5 DEF Orderly, Session, Pending

LEMMA WrittenAtHome ==
  ASSUME IInv, Orderly, Undisturbed, NEW t \in DOMAIN turns, turns[t].pc \notin {"off", "ready", "done"},
         NEW ms, Write(t, ms)
  PROVE  logs'[First] = logs[First] \o ms
BY AtHome, ChatAssumption DEF Write, IInv, TypeOK

LEMMA PendingAtHome ==
  ASSUME IInv, Orderly, Undisturbed, NEW t \in DOMAIN turns, turns[t].pc \notin {"off", "ready", "done"},
         NEW p, SetPending(t, p)
  PROVE  objects'[1].pending = p
<1>1. turns[t].obj = 1 /\ 1 \in DOMAIN objects /\ objects[1] \in Object
  BY AtHome, PendingIsGuarded
<1>2. objects' = [objects EXCEPT ![1].pending = p]
  BY <1>1 DEF SetPending
<1> QED
  BY <1>1, <1>2 DEF Object

(* Where a turn goes.                                                      *)
Goes(t, pc) ==
  /\ turns'[t].pc = pc /\ turns'[t].cancelled = turns[t].cancelled
  /\ turns'[t].request = turns[t].request

LEMMA UpdatedTurn ==
  ASSUME IInv, NEW t \in DOMAIN turns, NEW r, Update(t, r)
  PROVE  turns'[t] = r
BY DEF Update, IInv, TypeOK

LEMMA SteppedTurn ==
  ASSUME IInv, NEW t \in DOMAIN turns, NEW pc, Step(t, pc)
  PROVE  Goes(t, pc) /\ turns'[t].call = turns[t].call
<1>1. turns[t] \in Turn
  BY SoundTurn
<1>2. turns'[t] = [turns[t] EXCEPT !.pc = pc]
  BY UpdatedTurn DEF Step
<1> QED
  BY <1>1, <1>2 DEF Turn, Goes

LEMMA LeavingTurn ==
  ASSUME IInv, NEW t \in DOMAIN turns, NEW out, Left(t, out)
  PROVE  Goes(t, "left")
<1>1. turns[t] \in Turn
  BY SoundTurn
<1>2. turns'[t] = [turns[t] EXCEPT !.pc = "left", !.out = out]
  BY UpdatedTurn DEF Left
<1> QED
  BY <1>1, <1>2 DEF Turn, Goes

-----------------------------------------------------------------------------
(* What a thread's step says, and what it then has to answer.              *)
Speaks(d, e) ==
  LET l == logs[First]
  IN  \/ logs'[First] = l /\ e = d
      \/ /\ d = {} /\ e = {}
         /\ \E ms \in Seq(Entry) : logs'[First] = l \o ms /\ \A i \in DOMAIN ms : ms[i].role = "user"
      \/ /\ d = {}
         /\ \E m \in Entry : logs'[First] = l \o <<m>> /\ m.role = "assistant" /\ e = Elems(m.calls)
      \/ \E m \in Entry : /\ logs'[First] = l \o <<m>> /\ m.role = "tool"
                          /\ Elems(m.calls) \subseteq d /\ e = d \ Elems(m.calls)

Behaves(t) ==
  /\ Speaks(DebtOf(objects[1].pending, turns[t]), DebtOf(objects'[1].pending, turns'[t]))
  /\ Unhindered(turns'[t], objects'[1].pending)

LEMMA SpeechIsAnswered ==
  ASSUME logs[First] \in Seq(Entry), Unbroken(logs[First]), NEW d, NEW e, Speaks(d, e),
         Owed(logs[First], Len(logs[First])) = d
  PROVE  Unbroken(logs'[First]) /\ Owed(logs'[First], Len(logs'[First])) = e
<1> DEFINE l == logs[First]
<1>1. CASE logs'[First] = l /\ e = d
  BY <1>1
<1>2. ASSUME d = {}, e = {},
             NEW ms \in Seq(Entry), logs'[First] = l \o ms, \A i \in DOMAIN ms : ms[i].role = "user"
      PROVE  Unbroken(logs'[First]) /\ Owed(logs'[First], Len(logs'[First])) = e
  BY <1>2, AfterUserMessages
<1>3. ASSUME d = {}, NEW m \in Entry, logs'[First] = l \o <<m>>, m.role = "assistant", e = Elems(m.calls)
      PROVE  Unbroken(logs'[First]) /\ Owed(logs'[First], Len(logs'[First])) = e
  BY <1>3, AfterOneMessage
<1>4. ASSUME NEW m \in Entry, logs'[First] = l \o <<m>>, m.role = "tool", Elems(m.calls) \subseteq d,
             e = d \ Elems(m.calls)
      PROVE  Unbroken(logs'[First]) /\ Owed(logs'[First], Len(logs'[First])) = e
  BY <1>4, AfterOneMessage
<1> QED
  BY <1>1, <1>2, <1>3, <1>4 DEF Speaks

(* Nothing is said and nothing becomes due.                                *)
LEMMA BehavesSilently ==
  ASSUME NEW t \in DOMAIN turns, UNCHANGED <<logs, objects>>, Hand(turns'[t]) = Hand(turns[t]),
         Unhindered(turns'[t], objects[1].pending)
  PROVE  Behaves(t)
BY DEF Behaves, Speaks, DebtOf

(* A call is answered that was owed.                                       *)
LEMMA BehavesByAnswering ==
  ASSUME IInv, Orderly, Undisturbed, NEW t \in DOMAIN turns, turns[t].pc \notin {"off", "ready", "done"},
         NEW c \in Calls, NEW how \in {"ran", "denied"}, Write(t, <<Say(Result(c, how), t, 0)>>),
         DebtOf(objects[1].pending, turns[t]) = {c}, objects'[1].pending = None,
         NEW pc \in Loose \ {"exec", "record"}, Goes(t, pc)
  PROVE  Behaves(t)
<1> DEFINE m == Say(Result(c, how), t, 0)
<1>1. m \in Entry /\ m.role = "tool" /\ Elems(m.calls) = {c}
  <2>1. t \in Nat /\ 0 \in Nat
    BY SoundTurn
  <2>2. m \in Entry
    BY <2>1, WhatIsSaid
  <2>3. m.role = "tool" /\ Elems(m.calls) = {c}
    BY DEF Say, User, Assistant, Result, Elems
  <2> QED
    BY <2>2, <2>3
<1>2. logs'[First] = logs[First] \o <<m>>
  BY WrittenAtHome
<1> HIDE DEF m
<1>3. Unhindered(turns'[t], objects'[1].pending)
  BY AtHome DEF Unhindered, Goes, Loose
<1>4. DebtOf(objects'[1].pending, turns'[t]) = {}
  BY DEF DebtOf, Hand, Goes
<1> QED
  BY <1>1, <1>2, <1>3, <1>4 DEF Behaves, Speaks

(* The model's message opens a debt, or says the last word.                *)
LEMMA BehavesByReplying ==
  ASSUME IInv, Orderly, Undisturbed, NEW t \in DOMAIN turns, turns[t].pc \notin {"off", "ready", "done"},
         NEW cs, cs = <<>> \/ \E c \in Calls : cs = <<c>>, Write(t, <<Say(Assistant(cs), t, 0)>>), UNCHANGED objects,
         objects[1].pending = None, Hand(turns[t]) = {}, Hand(turns'[t]) = Elems(cs),
         Unhindered(turns'[t], None)
  PROVE  Behaves(t)
<1> DEFINE m == Say(Assistant(cs), t, 0)
<1>1. m \in Entry /\ m.role = "assistant" /\ m.calls = cs
  <2>1. t \in Nat /\ 0 \in Nat
    BY SoundTurn
  <2>2. m \in Entry
    BY <2>1, WhatIsSaid
  <2>3. m.role = "assistant" /\ m.calls = cs
    BY DEF Say, User, Assistant, Result, Elems
  <2> QED
    BY <2>2, <2>3
<1>2. logs'[First] = logs[First] \o <<m>>
  BY WrittenAtHome
<1> HIDE DEF m
<1> QED
  BY <1>1, <1>2 DEF Behaves, Speaks, DebtOf

(* The user's message or guidance, when nothing is owed.                   *)
LEMMA BehavesByAsking ==
  ASSUME IInv, Orderly, Undisturbed, NEW t \in DOMAIN turns, turns[t].pc \notin {"off", "ready", "done"},
         NEW ms \in Seq(Entry), \A i \in DOMAIN ms : ms[i].role = "user", Write(t, ms), UNCHANGED objects,
         objects[1].pending = None, Hand(turns[t]) = {}, NEW pc \in Loose \ {"exec", "record"}, Goes(t, pc)
  PROVE  Behaves(t)
<1>1. logs'[First] = logs[First] \o ms
  BY WrittenAtHome
<1>2. Unhindered(turns'[t], objects'[1].pending)
  BY AtHome DEF Unhindered, Goes, Loose
<1>3. Hand(turns'[t]) = {}
  BY DEF Hand, Goes
<1> QED
  BY <1>1, <1>2, <1>3 DEF Behaves, Speaks, DebtOf

-----------------------------------------------------------------------------
(* The steps of the agent loop, one after the other.                       *)
LEMMA TheOneAtWork ==
  ASSUME IInv, Orderly, Undisturbed, NEW t \in DOMAIN turns, turns[t].pc \notin {"off", "ready", "done"}
  PROVE  /\ turns[t].cancelled = FALSE /\ t \in Nat
         /\ turns[t].pc \in Loose => objects[1].pending = None
         /\ turns[t].pc \in {"approved", "settle"} =>
              /\ turns[t].request = objects[1].pending /\ turns[t].request \in Calls /\ turns[t].request # None
         /\ turns[t].pc \in {"got", "exec", "record"} => turns[t].call \in Calls /\ turns[t].call # None
<1>1. Unhindered(turns[t], objects[1].pending) /\ Sound(turns[t], setting.streaming, Len(objects)) /\ t \in Nat
  BY AtHome, SoundTurn
<1> QED
  BY <1>1, ChatAssumption DEF Unhindered, Sound, None

LEMMA BeginBehaves ==
  ASSUME IInv, Orderly, Undisturbed, NEW t \in DOMAIN turns, Begin(t)
  PROVE  Behaves(t)
<1>1. turns[t].pc = "begin" /\ turns[t].pc \notin {"off", "ready", "done"} /\ Hand(turns[t]) = {}
  BY DEF Begin, Hand
<1>2. turns[t].cancelled = FALSE /\ t \in Nat /\ Pending(t) = objects[1].pending
  BY <1>1, TheOneAtWork, AtHome
<1>3. ASSUME NEW out, Left(t, out), UNCHANGED <<logs, objects>> PROVE Behaves(t)
  <2>1. Goes(t, "left")
    BY <1>3, LeavingTurn
  <2> QED
    BY <1>1, <1>2, <1>3, <2>1, BehavesSilently DEF Goes, Hand, Unhindered, Loose
<1>4. CASE Pending(t) = None /\ Write(t, <<Say(User("input"), t, 0)>>) /\ Step(t, "ask") /\ UNCHANGED objects
  <2> DEFINE m == Say(User("input"), t, 0)
  <2>1. m \in Entry
    BY <1>2, WhatIsSaid
  <2>2. m.role = "user"
    BY DEF Say, User, Assistant, Result, Elems
  <2>3. Write(t, <<m>>)
    BY <1>4
  <2> HIDE DEF m
  <2>4. <<m>> \in Seq(Entry) /\ \A i \in DOMAIN <<m>> : <<m>>[i].role = "user"
    BY <2>1, <2>2
  <2>5. Goes(t, "ask") /\ "ask" \in Loose \ {"exec", "record"}
    BY <1>4, SteppedTurn DEF Loose
  <2> QED
    BY <1>1, <1>2, <1>4, <2>3, <2>4, <2>5, BehavesByAsking
<1>5. CASE /\ turns[t].kind = "deny" /\ Pending(t) = turns[t].request /\ SetPending(t, None)
           /\ Write(t, <<Say(Result(Pending(t), "denied"), t, 0)>>) /\ Step(t, "resumed")
  <2>1. Pending(t) \in Calls /\ Pending(t) # None
    BY <1>5, SoundTurn, ChatAssumption DEF Sound, None
  <2>2. DebtOf(objects[1].pending, turns[t]) = {Pending(t)}
    BY <1>2, <2>1 DEF DebtOf
  <2>3. Goes(t, "resumed") /\ "resumed" \in Loose \ {"exec", "record"}
    BY <1>5, SteppedTurn DEF Loose
  <2>4. objects'[1].pending = None
    BY <1>1, <1>5, PendingAtHome
  <2> QED
    BY <1>1, <1>5, <2>1, <2>2, <2>3, <2>4, BehavesByAnswering
<1>6. CASE Pending(t) = turns[t].request /\ Step(t, "approved") /\ UNCHANGED <<logs, objects>>
  <2>1. Goes(t, "approved")
    BY <1>6, SteppedTurn
  <2> QED
    BY <1>1, <1>2, <1>6, <2>1, BehavesSilently DEF Goes, Hand, Unhindered, Loose
<1> QED
  BY <1>2, <1>3, <1>4, <1>5, <1>6 DEF Begin

LEMMA RunApprovedBehaves ==
  ASSUME IInv, Orderly, Undisturbed, NEW t \in DOMAIN turns, RunApproved(t)
  PROVE  Behaves(t)
<1>1. turns[t].pc = "approved" /\ turns[t].pc \notin {"off", "ready", "done"} /\ UNCHANGED <<logs, objects>>
  BY DEF RunApproved
<1>2. /\ turns[t].cancelled = FALSE /\ turns[t].request = objects[1].pending
      /\ turns[t] \in Turn
  BY <1>1, TheOneAtWork, SoundTurn
<1>3. turns'[t] = [turns[t] EXCEPT !.pc = "settle", !.runs = @ + 1]
  BY <1>2, UpdatedTurn DEF RunApproved
<1>4. Goes(t, "settle")
  BY <1>2, <1>3 DEF Turn, Goes
<1> QED
  BY <1>1, <1>2, <1>4, BehavesSilently DEF Goes, Hand, Unhindered, Loose

LEMMA SettleBehaves ==
  ASSUME IInv, Orderly, Undisturbed, NEW t \in DOMAIN turns, Settle(t)
  PROVE  Behaves(t)
<1>1. /\ turns[t].pc = "settle" /\ turns[t].pc \notin {"off", "ready", "done"}
      /\ SetPending(t, None) /\ Write(t, <<Say(Result(turns[t].request, "ran"), t, 0)>>) /\ Step(t, "resumed")
  BY DEF Settle
<1>2. /\ turns[t].request = objects[1].pending /\ turns[t].request \in Calls /\ turns[t].request # None
  BY <1>1, TheOneAtWork
<1>3. Goes(t, "resumed") /\ "resumed" \in Loose \ {"exec", "record"}
  BY <1>1, SteppedTurn DEF Loose
<1>4. objects'[1].pending = None /\ DebtOf(objects[1].pending, turns[t]) = {turns[t].request}
  BY <1>1, <1>2, PendingAtHome DEF DebtOf
<1> QED
  BY <1>1, <1>2, <1>3, <1>4, BehavesByAnswering

LEMMA SilentlyBehaves ==
  ASSUME IInv, Orderly, Undisturbed, NEW t \in DOMAIN turns, Resumed(t) \/ BuildRequest(t) \/ Answer(t)
  PROVE  Behaves(t)
<1>1. /\ turns[t].pc \in {"resumed", "build", "inflight"} /\ turns[t].pc \notin {"off", "ready", "done"}
      /\ UNCHANGED <<logs, objects>> /\ Hand(turns[t]) = {} /\ turns[t].pc \in Loose
  BY DEF Resumed, BuildRequest, Answer, Hand, Loose
<1>2. turns[t].cancelled = FALSE /\ objects[1].pending = None /\ turns[t] \in Turn
  BY <1>1, TheOneAtWork, SoundTurn
<1>3. ASSUME NEW pc \in {"left", "ask", "finish", "inflight", "got"}, Goes(t, pc) PROVE Behaves(t)
  BY <1>1, <1>2, <1>3, BehavesSilently DEF Goes, Hand, Unhindered
<1>4. ASSUME Left(t, "raised") PROVE Behaves(t)
  BY <1>3, <1>4, LeavingTurn
<1>5. ASSUME NEW pc \in {"ask", "finish"}, Step(t, pc) PROVE Behaves(t)
  BY <1>3, <1>5, SteppedTurn
<1>6. ASSUME Update(t, [turns[t] EXCEPT !.pc = "inflight", !.asks = @ + 1]) PROVE Behaves(t)
  <2>1. Goes(t, "inflight")
    <3>1. turns'[t] = [turns[t] EXCEPT !.pc = "inflight", !.asks = @ + 1]
      BY <1>6, UpdatedTurn
    <3> QED
      BY <1>2, <3>1 DEF Turn, Goes
  <2> QED
    BY <1>3, <2>1
<1>7. ASSUME NEW c, Update(t, [turns[t] EXCEPT !.pc = "got", !.call = c]) PROVE Behaves(t)
  <2>1. Goes(t, "got")
    <3>1. turns'[t] = [turns[t] EXCEPT !.pc = "got", !.call = c]
      BY <1>7, UpdatedTurn
    <3> QED
      BY <1>2, <3>1 DEF Turn, Goes
  <2> QED
    BY <1>3, <2>1
<1>8. CASE Resumed(t)
  BY <1>4, <1>5, <1>8 DEF Resumed
<1>9. CASE BuildRequest(t)
  BY <1>4, <1>5, <1>6, <1>9 DEF BuildRequest
<1>10. CASE Answer(t)
  BY <1>4, <1>5, <1>7, <1>10 DEF Answer
<1> QED
  BY <1>8, <1>9, <1>10

LEMMA AskBehaves ==
  ASSUME IInv, Orderly, Undisturbed, NEW t \in DOMAIN turns, Ask(t)
  PROVE  Behaves(t)
<1> DEFINE ms == [i \in DOMAIN guidance |-> Say(User("guidance"), t, guidance[i])]
<1>1. /\ turns[t].pc = "ask" /\ turns[t].pc \notin {"off", "ready", "done"} /\ turns[t].pc \in Loose
      /\ Hand(turns[t]) = {} /\ UNCHANGED objects
  BY DEF Ask, Loose, Hand
<1>2. turns[t].cancelled = FALSE /\ objects[1].pending = None /\ t \in Nat /\ guidance \in Seq(Nat)
  BY <1>1, TheOneAtWork DEF IInv, TypeOK
<1>3. Write(t, ms) /\ Step(t, "build")
  BY <1>2 DEF Ask
<1>4. \A i \in DOMAIN guidance : Say(User("guidance"), t, guidance[i]) \in Entry
  BY <1>2, WhatIsSaid
<1>5. ms \in Seq(Entry)
  <2>1. DOMAIN ms = 1..Len(guidance) /\ Len(guidance) \in Nat /\ \A i \in DOMAIN ms : ms[i] \in Entry
    BY <1>2, <1>4
  <2> QED
    BY <2>1
<1>6. \A i \in DOMAIN ms : ms[i].role = "user"
  BY DEF Say, User, Assistant, Result, Elems
<1>7. Goes(t, "build") /\ "build" \in Loose \ {"exec", "record"}
  BY <1>3, SteppedTurn DEF Loose
<1> HIDE DEF ms
<1> QED
  BY <1>1, <1>2, <1>3, <1>5, <1>6, <1>7, BehavesByAsking

LEMMA TakeResponseBehaves ==
  ASSUME IInv, Orderly, Undisturbed, NEW t \in DOMAIN turns, TakeResponse(t)
  PROVE  Behaves(t)
<1>1. /\ turns[t].pc = "got" /\ turns[t].pc \notin {"off", "ready", "done"} /\ turns[t].pc \in Loose
      /\ Hand(turns[t]) = {} /\ UNCHANGED objects
  BY DEF TakeResponse, Loose, Hand
<1>2. turns[t].cancelled = FALSE /\ objects[1].pending = None /\ turns[t].call \in Calls
  BY <1>1, TheOneAtWork
<1> DEFINE cs == <<turns[t].call>>
<1>3. Write(t, <<Say(Assistant(cs), t, 0)>>) /\ Step(t, "exec")
  BY <1>2 DEF TakeResponse
<1>4. Elems(cs) = {turns[t].call} /\ (cs = <<>> \/ \E c \in Calls : cs = <<c>>)
  BY <1>2 DEF Elems
<1>5. Goes(t, "exec") /\ turns'[t].call = turns[t].call
  BY <1>3, SteppedTurn
<1> HIDE DEF cs
<1>6. Hand(turns'[t]) = Elems(cs) /\ Unhindered(turns'[t], None)
  BY <1>2, <1>4, <1>5 DEF Hand, Goes, Unhindered
<1> QED
  BY <1>1, <1>2, <1>3, <1>4, <1>6, BehavesByReplying

LEMMA ExecBehaves ==
  ASSUME IInv, Orderly, Undisturbed, NEW t \in DOMAIN turns, Exec(t)
  PROVE  Behaves(t)
<1>1. /\ turns[t].pc = "exec" /\ turns[t].pc \notin {"off", "ready", "done"} /\ turns[t].pc \in Loose
      /\ Hand(turns[t]) = {turns[t].call} /\ UNCHANGED logs
  BY DEF Exec, Loose, Hand
<1>2. /\ turns[t].cancelled = FALSE /\ objects[1].pending = None /\ turns[t].call # None /\ turns[t] \in Turn
  BY <1>1, TheOneAtWork, SoundTurn
<1>3. CASE SetPending(t, turns[t].call) /\ Left(t, turns[t].call)
  <2>1. objects'[1].pending = turns[t].call
    BY <1>1, <1>3, PendingAtHome
  <2>2. Goes(t, "left")
    BY <1>3, LeavingTurn
  <2>3. DebtOf(objects[1].pending, turns[t]) = DebtOf(objects'[1].pending, turns'[t])
    BY <1>1, <1>2, <2>1 DEF DebtOf
  <2>4. Unhindered(turns'[t], objects'[1].pending)
    BY <1>2, <2>2 DEF Unhindered, Goes, Loose
  <2> QED
    BY <1>1, <2>3, <2>4 DEF Behaves, Speaks
<1>4. CASE Update(t, [turns[t] EXCEPT !.pc = "record", !.runs = @ + 1]) /\ UNCHANGED objects
  <2>1. Goes(t, "record") /\ turns'[t].call = turns[t].call
    <3>1. turns'[t] = [turns[t] EXCEPT !.pc = "record", !.runs = @ + 1]
      BY <1>4, UpdatedTurn
    <3> QED
      BY <1>2, <3>1 DEF Turn, Goes
  <2>2. Hand(turns'[t]) = Hand(turns[t])
    BY <1>1, <2>1 DEF Hand, Goes
  <2>3. Unhindered(turns'[t], objects[1].pending)
    <3>1. turns'[t].pc = "record" /\ turns'[t].cancelled = FALSE
      BY <1>2, <2>1 DEF Goes
    <3> QED
      BY <1>2, <3>1 DEF Unhindered
  <2> QED
    BY <1>1, <1>4, <2>2, <2>3, BehavesSilently
<1> QED
  BY <1>2, <1>3, <1>4 DEF Exec

LEMMA RecordBehaves ==
  ASSUME IInv, Orderly, Undisturbed, NEW t \in DOMAIN turns, Record(t)
  PROVE  Behaves(t)
<1>1. /\ turns[t].pc = "record" /\ turns[t].pc \notin {"off", "ready", "done"} /\ turns[t].pc \in Loose
      /\ Hand(turns[t]) = {turns[t].call} /\ UNCHANGED objects
  BY DEF Record, Loose, Hand
<1>2. /\ turns[t].cancelled = FALSE /\ objects[1].pending = None /\ turns[t].call \in Calls
  BY <1>1, TheOneAtWork
<1>3. Write(t, <<Say(Result(turns[t].call, "ran"), t, 0)>>) /\ Step(t, "ask")
  BY <1>2 DEF Record
<1>4. Goes(t, "ask") /\ "ask" \in Loose \ {"exec", "record"}
  BY <1>3, SteppedTurn DEF Loose
<1>5. DebtOf(objects[1].pending, turns[t]) = {turns[t].call} /\ objects'[1].pending = None
  BY <1>1, <1>2 DEF DebtOf
<1> QED
  BY <1>1, <1>2, <1>3, <1>4, <1>5, BehavesByAnswering

LEMMA FinishBehaves ==
  ASSUME IInv, Orderly, Undisturbed, NEW t \in DOMAIN turns, Finish(t)
  PROVE  Behaves(t)
<1>1. /\ turns[t].pc = "finish" /\ turns[t].pc \notin {"off", "ready", "done"} /\ turns[t].pc \in Loose
      /\ Hand(turns[t]) = {} /\ UNCHANGED objects /\ Left(t, None) /\ Write(t, <<Say(Assistant(<<>>), t, 0)>>)
  BY DEF Finish, Loose, Hand
<1>2. turns[t].cancelled = FALSE /\ objects[1].pending = None
  BY <1>1, TheOneAtWork
<1>3. Goes(t, "left")
  BY <1>1, LeavingTurn
<1>4. Elems(<<>>) = {}
  BY DEF Elems
<1>5. Hand(turns'[t]) = Elems(<<>>) /\ Unhindered(turns'[t], None)
  BY <1>2, <1>3, <1>4 DEF Hand, Goes, Unhindered, Loose
<1> QED
  BY <1>1, <1>2, <1>5, BehavesByReplying

LEMMA TheLoopBehaves ==
  ASSUME IInv, Orderly, Undisturbed, NEW t \in DOMAIN turns,
         \/ Begin(t) \/ RunApproved(t) \/ Settle(t) \/ Resumed(t) \/ Ask(t) \/ BuildRequest(t)
         \/ Answer(t) \/ TakeResponse(t) \/ Exec(t) \/ Record(t) \/ Finish(t)
  PROVE  Behaves(t)
BY BeginBehaves, RunApprovedBehaves, SettleBehaves, SilentlyBehaves, AskBehaves, TakeResponseBehaves,
   ExecBehaves, RecordBehaves, FinishBehaves

-----------------------------------------------------------------------------
(* Every step.                                                             *)
LEMMA InitOrderly == Init => Orderly
<1> SUFFICES ASSUME Init PROVE Orderly
  OBVIOUS
<1>1. objects[1].session = First /\ objects[1].pending = None /\ DOMAIN turns = {} /\ logs[First] = <<>>
  BY ChatAssumption DEF Init
<1>2. Owed(<<>>, 0) = {} /\ Unbroken(<<>>) /\ Len(<<>>) = 0
  BY DEF Owed, Unbroken
<1>3. Debt(objects, turns) = {}
  BY <1>1 DEF Debt
<1> QED
  BY <1>1, <1>2, <1>3 DEF Orderly

LEMMA LoopOrderly ==
  ASSUME IInv, Orderly, NEW t \in DOMAIN turns, NEW r, Loops(t, r), Undisturbed => Behaves(t)
  PROVE  Orderly'
<1>1. /\ r \in Turn /\ turns' = [turns EXCEPT ![t] = r] /\ turns[t].pc \notin {"off", "ready", "done"}
      /\ r.killed = turns[t].killed
  BY DEF Loops, Works
<1>2. /\ DOMAIN turns' = DOMAIN turns /\ turns'[t] = r
      /\ \A u \in DOMAIN turns : u # t => turns'[u] = turns[u]
  BY <1>1, TurnsAfter DEF IInv
<1>3. /\ Len(objects') = Len(objects) /\ DOMAIN objects' = DOMAIN objects
      /\ \A i \in DOMAIN objects : objects'[i].session = objects[i].session
  BY ObjectsAfterLoop
<1> SUFFICES ASSUME Undisturbed' PROVE /\ objects'[1].session = First
                                       /\ \A u \in DOMAIN turns' : Unhindered(turns'[u], objects'[1].pending)
                                       /\ Unbroken(logs'[First])
                                       /\ Owed(logs'[First], Len(logs'[First])) = Debt(objects', turns')
  BY DEF Orderly
<1>4. Undisturbed
  BY <1>1, <1>2, <1>3 DEF Undisturbed, Turns
<1>5. \A u \in DOMAIN turns : u # t => turns[u].pc \in {"off", "done"}
  BY <1>1, <1>4, AtHome
<1>6. Behaves(t) /\ objects[1].session = First /\ 1 \in DOMAIN objects
  BY <1>4, RunnerTypes DEF Orderly, Undisturbed
<1>7. \A u \in DOMAIN turns' : Unhindered(turns'[u], objects'[1].pending)
  <2> SUFFICES ASSUME NEW u \in DOMAIN turns PROVE Unhindered(turns'[u], objects'[1].pending)
    BY <1>2
  <2>1. CASE u = t
    BY <1>6, <2>1 DEF Behaves
  <2>2. CASE u # t
    <3>1. turns'[u] = turns[u] /\ turns[u].pc \in {"off", "done"} /\ turns[u].cancelled = FALSE
      BY <1>2, <1>4, <1>5, <2>2 DEF Orderly, Unhindered
    <3> QED
      BY <3>1 DEF Unhindered, Loose
  <2> QED
    BY <2>1, <2>2
<1>8. Debt(objects', turns') = DebtOf(objects'[1].pending, turns'[t])
  <2>1. t \in DOMAIN turns' /\ \A u \in DOMAIN turns' : u # t => turns'[u].pc \in {"off", "done"}
    BY <1>2, <1>5
  <2> QED
    BY <2>1, DebtOfOne
<1>9. /\ Unbroken(logs'[First])
      /\ Owed(logs'[First], Len(logs'[First])) = DebtOf(objects'[1].pending, turns'[t])
  <2>1. /\ logs[First] \in Seq(Entry) /\ Unbroken(logs[First])
        /\ Owed(logs[First], Len(logs[First])) = DebtOf(objects[1].pending, turns[t])
    BY <1>1, <1>4, AtHome
  <2>2. Speaks(DebtOf(objects[1].pending, turns[t]), DebtOf(objects'[1].pending, turns'[t]))
    BY <1>6 DEF Behaves
  <2> QED
    BY <2>1, <2>2, SpeechIsAnswered
<1> QED
  BY <1>3, <1>6, <1>7, <1>8, <1>9

(* The runner moves a turn that has nothing in hand.                       *)
Resting == {"off", "ready", "begin", "left", "done"}

LEMMA RunnerOrderly ==
  ASSUME IInv, Orderly, NEW t \in DOMAIN turns, NEW r, Update(t, r), UNCHANGED <<logs, objects>>,
         turns[t].pc \in Resting, r.pc \in Resting, r.killed = turns[t].killed, r.cancelled = turns[t].cancelled
  PROVE  Orderly'
<1>1. /\ DOMAIN turns' = DOMAIN turns /\ turns'[t] = r
      /\ \A u \in DOMAIN turns : u # t => turns'[u] = turns[u]
  BY DEF Update, IInv, TypeOK
<1>2. Undisturbed' => Undisturbed
  BY <1>1 DEF Undisturbed, Turns
<1>3. \A u \in DOMAIN turns : Hand(turns'[u]) = Hand(turns[u])
  BY <1>1 DEF Hand, Resting
<1>4. Debt(objects', turns') = Debt(objects, turns)
  BY <1>1, <1>3 DEF Debt
<1>5. ASSUME Undisturbed, NEW u \in DOMAIN turns PROVE Unhindered(turns'[u], objects[1].pending)
  BY <1>1, <1>5 DEF Orderly, Unhindered, Resting, Loose
<1> QED
  BY <1>1, <1>2, <1>4, <1>5 DEF Orderly

LEMMA RunnerStepOrderly ==
  ASSUME IInv, Orderly, NEW t \in DOMAIN turns,
         CoStart(t) \/ CoReturn(t) \/ CoUnwind(t) \/ ThreadStart(t) \/ ThreadDropped(t) \/ ThreadLeaves(t)
  PROVE  Orderly'
<1>1. turns[t] \in Turn /\ Sound(turns[t], setting.streaming, Len(objects))
  BY SoundTurn
<1>2. CASE CoStart(t)
  <2>1. turns[t].pc = "off"
    BY <1>1, <1>2 DEF CoStart, Sound
  <2>2. CASE Update(t, [turns[t] EXCEPT !.co = "waiting", !.pc = "ready", !.obj = current])
    BY <1>1, <1>2, <2>1, <2>2, RunnerOrderly DEF CoStart, Turn, Resting
  <2>3. CASE Update(t, [turns[t] EXCEPT !.co = "waiting", !.pc = "ready"])
    BY <1>1, <1>2, <2>1, <2>3, RunnerOrderly DEF CoStart, Turn, Resting
  <2> QED
    BY <1>2, <2>2, <2>3 DEF CoStart
<1>3. CASE CoReturn(t)
  BY <1>1, <1>3, RunnerOrderly DEF CoReturn, Turn, Resting
<1>4. CASE CoUnwind(t)
  <2>1. turns'[t] = [turns[t] EXCEPT !.co = "ended"] /\ DOMAIN turns' = DOMAIN turns
    BY <1>4 DEF CoUnwind, Update, IInv, TypeOK
  <2>2. turns'[t].killed
    BY <1>1, <1>4, <2>1 DEF CoUnwind, Turn
  <2> QED
    BY <2>1, <2>2 DEF Orderly, Undisturbed, Turns
<1>5. CASE ThreadStart(t)
  <2>1. CASE Update(t, [turns[t] EXCEPT !.pc = "begin"])
    BY <1>1, <1>5, <2>1, RunnerOrderly DEF ThreadStart, Turn, Resting
  <2>2. CASE Update(t, [turns[t] EXCEPT !.pc = "begin", !.obj = current])
    BY <1>1, <1>5, <2>2, RunnerOrderly DEF ThreadStart, Turn, Resting
  <2> QED
    BY <1>5, <2>1, <2>2 DEF ThreadStart
<1>6. CASE ThreadDropped(t)
  BY <1>1, <1>6, RunnerOrderly DEF ThreadDropped, Turn, Resting
<1>7. CASE ThreadLeaves(t)
  BY <1>1, <1>7, RunnerOrderly DEF ThreadLeaves, Turn, Resting
<1> QED
  BY <1>2, <1>3, <1>4, <1>5, <1>6, <1>7

LEMMA StartOrderly ==
  ASSUME IInv, Orderly, NEW kind, NEW request, StartTurn(kind, request), UNCHANGED <<logs, objects>>
  PROVE  Orderly'
<1> DEFINE r == NewTurn(token', kind, request)
           n == Len(turns) + 1
<1>1. r.killed = FALSE /\ r.pc = "off" /\ r.cancelled = FALSE
  BY DEF NewTurn
<1>2. turns' = Append(turns, r) /\ turns \in Seq(Turn)
  BY DEF StartTurn, IInv, TypeOK
<1> HIDE DEF r
<1>3. /\ DOMAIN turns = 1..Len(turns) /\ Len(turns) \in Nat /\ DOMAIN turns' = (DOMAIN turns) \cup {n} /\ turns'[n] = r
      /\ \A u \in DOMAIN turns : turns'[u] = turns[u]
  BY <1>2
<1> HIDE DEF n
<1>4. Undisturbed' => Undisturbed
  BY <1>3 DEF Undisturbed, Turns
<1>5. Hand(turns'[n]) = {} /\ \A u \in DOMAIN turns : Hand(turns'[u]) = Hand(turns[u])
  BY <1>1, <1>3 DEF Hand
<1>6. UNION {Hand(turns'[u]) : u \in DOMAIN turns'} = UNION {Hand(turns[u]) : u \in DOMAIN turns}
  BY <1>3, <1>5
<1>7. Debt(objects', turns') = Debt(objects, turns)
  BY <1>6 DEF Debt
<1>8. ASSUME Undisturbed, NEW u \in DOMAIN turns' PROVE Unhindered(turns'[u], objects[1].pending)
  <2>1. CASE u = n
    BY <1>1, <1>3, <2>1 DEF Unhindered, Loose
  <2>2. CASE u \in DOMAIN turns
    BY <1>3, <1>8, <2>2 DEF Orderly
  <2> QED
    BY <1>3, <2>1, <2>2
<1> QED
  BY <1>4, <1>7, <1>8 DEF Orderly

LEMMA InterruptDisturbs ==
  ASSUME IInv, Interrupt
  PROVE  ~Undisturbed'
<1>1. busy = TRUE /\ turns' = [u \in DOMAIN turns |->
          [turns[u] EXCEPT !.killed = @ \/ turns[u].token = token, !.cancelled = @ \/ u = active]]
  BY DEF Interrupt, IInv, TypeOK
<1>2. PICK v \in DOMAIN turns : Alive(turns[v])
  BY <1>1 DEF IInv, Exact
<1>3. turns[v].token = token /\ turns[v] \in Turn
  BY <1>2, AliveIsLast, SoundTurn
<1>4. v \in DOMAIN turns' /\ turns'[v].killed
  BY <1>1, <1>3 DEF Turn
<1> QED
  BY <1>4 DEF Undisturbed, Turns

LEMMA ResumeDisturbs ==
  ASSUME IInv, ResumeSession
  PROVE  ~Undisturbed'
<1>1. objects \in Seq(Object) /\ current \in DOMAIN objects
  BY DEF IInv, TypeOK
<1>2. \E o : objects' = Append(objects, o)
  BY DEF ResumeSession
<1>3. Len(objects') = Len(objects) + 1 /\ Len(objects) \in Nat /\ Len(objects) # 0
  BY <1>1, <1>2
<1> QED
  BY <1>3 DEF Undisturbed

LEMMA NextOrderly == IInv /\ Orderly /\ [Next]_<<vars, setting>> => Orderly'
<1> SUFFICES ASSUME IInv, Orderly, [Next]_<<vars, setting>> PROVE Orderly'
  OBVIOUS
<1>1. CASE SubmitMessage \/ SubmitAnswer
  BY <1>1, StartOrderly DEF SubmitMessage, SubmitAnswer
<1>2. CASE QueueGuidance \/ UNCHANGED <<vars, setting>>
  <2>1. UNCHANGED <<logs, objects, turns>>
    BY <1>2 DEF QueueGuidance, vars
  <2> QED
    BY <2>1 DEF Orderly, Undisturbed, Turns
<1>3. CASE Interrupt \/ ResumeSession
  BY <1>3, InterruptDisturbs, ResumeDisturbs DEF Orderly
<1>4. ASSUME NEW t \in DOMAIN turns, CoStep(t) PROVE Orderly'
  BY <1>4, RunnerStepOrderly DEF CoStep
<1>5. ASSUME NEW t \in DOMAIN turns, ThreadStep(t), UNCHANGED setting PROVE Orderly'
  <2>1. CASE ThreadStart(t) \/ ThreadDropped(t) \/ ThreadLeaves(t)
    BY <2>1, RunnerStepOrderly
  <2>2. CASE ~(ThreadStart(t) \/ ThreadDropped(t) \/ ThreadLeaves(t))
    BY <1>5, <2>2, WhatTheLoopDoes, TheLoopBehaves, LoopOrderly DEF ThreadStep
  <2> QED
    BY <2>1, <2>2
<1> QED
  BY <1>1, <1>2, <1>3, <1>4, <1>5 DEF Next, UserStep

(* When the UI waits for input and no confirmation is open, the history    *)
(* can be sent (loop.py, _execute_tool_calls; tool_sequence.py), as long   *)
(* as nobody has interrupted a turn or opened another session.             *)
THEOREM IdleHistoriesAreUsable == Spec => []IdleSessionUsable
<1>1. ASSUME IInv, Orderly PROVE IdleSessionUsable
  <2> SUFFICES ASSUME Undisturbed, ~busy, objects[current].pending = None
               PROVE  Sendable(logs[objects[current].session])
    BY DEF IdleSessionUsable
  <2>1. current = 1
    BY <1>1, RunnerTypes DEF Undisturbed
  <2>2. ASSUME NEW t \in DOMAIN turns PROVE Hand(turns[t]) = {}
    <3>1. turns[t] \in Turn /\ Sound(turns[t], setting.streaming, Len(objects)) /\ ~turns[t].killed
      BY <1>1, SoundTurn DEF Undisturbed, Turns
    <3>2. turns[t].killed = FALSE
      BY <3>1 DEF Turn
    <3>3. turns[t].co = "ended"
      BY <1>1, <3>2, AliveIsLast DEF Alive
    <3>4. turns[t].pc = "done"
      BY <3>1, <3>2, <3>3 DEF Sound
    <3> QED
      BY <3>4 DEF Hand
  <2>3. Debt(objects, turns) = {}
    BY <2>1, <2>2 DEF Debt
  <2> QED
    BY <1>1, <2>1, <2>3 DEF Orderly, Sendable
<1> QED
  BY <1>1, InitInvariant, NextInvariant, InitOrderly, NextOrderly, PTL DEF Spec
=============================================================================
