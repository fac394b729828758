-------------------------- MODULE SessionLogProofs --------------------------
(***************************************************************************)
(* SessionLog for every session, every number of events, actors' races,    *)
(* crashes and restarts: whoever reads the file finds what the process     *)
(* that wrote it knew, the task changes only after repeated observations,  *)
(* originals outlive their replacements, and the file is an event log.     *)
(*                                                                         *)
(* What a reader folds out of the file is a recursive function over its    *)
(* prefixes: the first part shows what one event more changes in it.       *)
(***************************************************************************)
EXTENDS SessionLogProperties, SequenceTheorems, FiniteSetTheorems, WellFoundedInduction, TLAPS

(* A set of numbers that is not empty has a least one: the strict subsets  *)
(* of finite sets are well founded, and so are the intervals 1..n.         *)
LEMMA LeastNumber ==
  ASSUME NEW T \in SUBSET Nat, T # {}
  PROVE  \E n \in T : \A m \in T : n <= m
<1> DEFINE below == {1..n : n \in T}
<1>1. below \subseteq FiniteSubsetsOf(Nat) /\ below # {}
  <2>1. \A n \in T : 1..n \subseteq Nat /\ IsFiniteSet(1..n)
    BY FS_Interval
  <2> QED BY <2>1 DEF FiniteSubsetsOf
<1>2. IsWellFoundedOn(StrictSubsetOrdering(Nat), FiniteSubsetsOf(Nat))
  BY FS_StrictSubsetOrderingWellFounded
<1> HIDE DEF below
<1>3. \E x \in below : \A y \in below : ~ (<<y, x>> \in StrictSubsetOrdering(Nat))
  BY <1>1, <1>2, WFMin, Zenon
<1> USE DEF below
<1>4. PICK n \in T : \A m \in T : ~ (<<1..m, 1..n>> \in StrictSubsetOrdering(Nat))
  BY <1>3
<1>5. ASSUME NEW m \in T, m < n  PROVE FALSE
  <2>1. 1..m \subseteq 1..n /\ n \in 1..n /\ n \notin 1..m
    BY <1>5
  <2>2. 1..m \subseteq Nat /\ 1..n \subseteq Nat /\ 1..m # 1..n
    BY <2>1
  <2>3. <<1..m, 1..n>> \in StrictSubsetOrdering(Nat)
    BY <2>1, <2>2 DEF StrictSubsetOrdering
  <2> QED BY <2>3, <1>4
<1> QED BY <1>5

(* Induction on numbers up to n, about a set instead of a predicate.       *)
LEMMA UpTo ==
  ASSUME NEW n \in Nat, NEW T,
         0 \in T, \A k \in 1..n : k - 1 \in T => k \in T
  PROVE  0..n \subseteq T
<1> DEFINE missing == (0..n) \ T
<1>1. SUFFICES ASSUME missing # {}  PROVE FALSE
  OBVIOUS
<1>2. missing \in SUBSET Nat
  OBVIOUS
<1>3. PICK k \in missing : \A m \in missing : k <= m
  <2> HIDE DEF missing
  <2> QED BY <1>1, <1>2, LeastNumber
<1>4. k \in 0..n /\ k \notin T
  BY <1>3
<1>5. k \in 1..n /\ k - 1 \in 0..n
  BY <1>4
<1>6. k - 1 \notin missing
  <2> HIDE DEF missing
  <2> QED BY <1>3, <1>5
<1>7. k - 1 \in T
  BY <1>5, <1>6
<1> QED BY <1>4, <1>5, <1>7
-----------------------------------------------------------------------------
(* Types.                                                                  *)

Observation == [decision : {"same", "new", "uncertain"}, basis : Nat, count : Nat, confirmed : BOOLEAN]
Part == Nat \X Nat
Kinds == {"text", "tool_call", "tool_result"}
Replacement == [part : Part, state : {"micro_compacted", "route_compacted"}]
          \cup [part : Part, state : {"archived"}, archive : Actors \X Part]
Event == [type : {"session_created", "skill_loaded"}]
    \cup [type : {"session_metadata_updated"}, title : Titles]
    \cup [type : MessageTypes, parts : Seq(Kinds), task : Nat]
    \cup [type : {"task_boundary_observed"}, observation : Observation]
    \cup [type : {"compaction_completed"}, replaced : SUBSET Replacement]
Write == [write : {"line", "json"}, event : Event] \cup [write : {"newline", "cut"}]
TaskState == [active : Nat, candidate : Nat, count : Nat]

(* The events the writers compose have the types named here.               *)
LEMMA EventTypes ==
  /\ Created \in Event /\ SkillLoaded \in Event
  /\ \A t \in Titles : Renamed(t) \in Event
  /\ \A h \in Nat : {UserMessage(h), ToolResult(h)} \subseteq Event
  /\ \A r \in [text : BOOLEAN, calls : Nat], h \in Nat : Reply(r, h) \in Event
  /\ \A o \in Observation : Boundary(o) \in Event
  /\ \A parts \in SUBSET Replacement : Compacted(parts) \in Event
<1>1. Created \in Event /\ SkillLoaded \in Event
  BY DEF Event, Created, SkillLoaded
<1>2. \A t \in Titles : Renamed(t) \in Event
  BY DEF Event, Renamed
<1>3. \A h \in Nat : {UserMessage(h), ToolResult(h)} \subseteq Event
  <2>1. <<"text">> \in Seq(Kinds) /\ <<"tool_result">> \in Seq(Kinds)
    BY DEF Kinds
  <2> QED BY <2>1 DEF Event, UserMessage, ToolResult, MessageTypes
<1>6. \A r \in [text : BOOLEAN, calls : Nat], h \in Nat : Reply(r, h) \in Event
  <2> TAKE r \in [text : BOOLEAN, calls : Nat], h \in Nat
  <2> DEFINE text  == IF r.text THEN <<"text">> ELSE <<>>
             calls == [k \in 1..r.calls |-> "tool_call"]
             parts == text \o calls
  <2>1. r.calls \in Nat
    OBVIOUS
  <2>2. text \in Seq(Kinds)
    <3>1. <<"text">> \in Seq(Kinds) /\ <<>> \in Seq(Kinds)
      BY DEF Kinds
    <3> QED BY <3>1
  <2>3. calls \in Seq(Kinds)
    <3> DEFINE n == r.calls
    <3>1. n \in Nat /\ \A k \in 1..n : "tool_call" \in Kinds
      BY <2>1 DEF Kinds
    <3> HIDE DEF n
    <3>2. [k \in 1..n |-> "tool_call"] \in Seq(Kinds)
      BY <3>1, IsASeq
    <3> USE DEF n
    <3> QED BY <3>2
  <2> HIDE DEF text, calls
  <2>4. parts \in Seq(Kinds)
    BY <2>2, <2>3, ConcatProperties
  <2>5. Reply(r, h) = [type |-> "assistant_message", parts |-> parts, task |-> h]
    BY DEF Reply, ReplyParts, text, calls
  <2> HIDE DEF parts
  <2> QED BY <2>4, <2>5 DEF Event, MessageTypes
<1>4. \A o \in Observation : Boundary(o) \in Event
  BY DEF Event, Boundary
<1>5. \A parts \in SUBSET Replacement : Compacted(parts) \in Event
  BY DEF Event, Compacted
<1> QED BY <1>1, <1>2, <1>3, <1>4, <1>5, <1>6

(* What is known of an event by its type.                                  *)
LEMMA EventFields ==
  ASSUME NEW e \in Event
  PROVE  /\ e.type = "task_boundary_observed" => e.observation \in Observation
         /\ e.type = "compaction_completed" => e.replaced \in SUBSET Replacement
         /\ IsMessage(e) => e.parts \in Seq(Kinds)
BY DEF Event, IsMessage, MessageTypes

(* A write call that holds an event holds one of those.                    *)
LEMMA WriteFields ==
  ASSUME NEW c \in Write
  PROVE  Holds(c) => c.event \in Event
BY DEF Write, Holds
-----------------------------------------------------------------------------
(* list_events, event by event.                                            *)

Reading(f, n, g) ==
  g = [k \in 0..n |-> IF k = 0 THEN <<>> ELSE Extended(g[k - 1], f[k])]

(* The recursion defines a reading of every prefix.                        *)
LEMMA ReadingExists ==
  ASSUME NEW f, NEW n \in Nat
  PROVE  \E g : Reading(f, n, g)
<1> DEFINE T == {k \in 0..n : \E g : Reading(f, k, g)}
<1>1. 0 \in T
  <2>1. Reading(f, 0, [j \in 0..0 |-> <<>>])
    BY DEF Reading
  <2> QED BY <2>1
<1>2. ASSUME NEW k \in 1..n, k - 1 \in T  PROVE k \in T
  <2>1. PICK g : Reading(f, k - 1, g)
    BY <1>2
  <2> DEFINE h == [j \in 0..k |-> IF j = k THEN Extended(g[k - 1], f[k]) ELSE g[j]]
  <2>2. Reading(f, k, h)
    BY <2>1 DEF Reading
  <2> QED BY <2>2
<1> HIDE DEF T
<1>3. 0..n \subseteq T
  BY <1>1, <1>2, UpTo
<1>4. n \in T
  BY <1>3
<1> QED BY <1>4 DEF T

(* Events is the last of the readings it is defined by.                    *)
LEMMA EventsAreRead ==
  ASSUME NEW f, Len(f) \in Nat
  PROVE  \E g : Reading(f, Len(f), g) /\ Events(f) = g[Len(f)]
<1>1. PICK g : Reading(f, Len(f), g)
  BY ReadingExists
<1> DEFINE upTo == CHOOSE g1 : g1 = [n \in 0..Len(f) |-> IF n = 0 THEN <<>> ELSE Extended(g1[n - 1], f[n])]
<1>2. Reading(f, Len(f), upTo)
  BY <1>1 DEF Reading
<1>3. Events(f) = upTo[Len(f)]
  BY Zenon DEF Events
<1> QED BY <1>2, <1>3

(* Files that agree on a prefix are read alike up to there.                *)
LEMMA ReadingAgrees ==
  ASSUME NEW f, NEW c, NEW m \in Nat, NEW n \in Nat, NEW g, NEW h, NEW p \in Nat, p <= m, p <= n,
         Reading(f, m, g), Reading(c, n, h), \A k \in 1..p : f[k] = c[k]
  PROVE  g[p] = h[p]
<1> DEFINE T == {k \in 0..p : g[k] = h[k]}
<1>1. 0 \in T
  BY DEF Reading
<1>2. ASSUME NEW k \in 1..p, k - 1 \in T  PROVE k \in T
  <2>1. g[k - 1] = h[k - 1] /\ f[k] = c[k] /\ k \in 0..m /\ k \in 0..n /\ k # 0
    BY <1>2
  <2>2. g[k] = Extended(g[k - 1], f[k])
    BY <2>1 DEF Reading
  <2>3. h[k] = Extended(h[k - 1], c[k])
    BY <2>1 DEF Reading
  <2> QED BY <2>1, <2>2, <2>3
<1> HIDE DEF T
<1>3. 0..p \subseteq T
  BY <1>1, <1>2, UpTo
<1>4. p \in T
  BY <1>3
<1> QED BY <1>4 DEF T

(* A file of typed write calls holds typed events.                         *)
LEMMA EventsType ==
  ASSUME NEW f \in Seq(Write)
  PROVE  Events(f) \in Seq(Event)
<1> DEFINE n == Len(f)
<1>1. n \in Nat /\ \A k \in 1..n : f[k] \in Write
  OBVIOUS
<1>2. PICK g : Reading(f, n, g) /\ Events(f) = g[n]
  BY <1>1, EventsAreRead
<1> HIDE DEF n
<1> DEFINE T == {k \in 0..n : g[k] \in Seq(Event)}
<1>3. 0 \in T
  BY <1>1, <1>2 DEF Reading
<1>4. ASSUME NEW k \in 1..n, k - 1 \in T  PROVE k \in T
  <2>1. g[k] = Extended(g[k - 1], f[k])
    BY <1>1, <1>2 DEF Reading
  <2>2. Holds(f[k]) => f[k].event \in Event
    BY <1>1, WriteFields
  <2>3. g[k - 1] \in Seq(Event) /\ k \in 0..n
    BY <1>1, <1>4
  <2>4. g[k] \in Seq(Event)
    BY <2>1, <2>2, <2>3, AppendProperties DEF Extended
  <2> QED BY <2>3, <2>4
<1> HIDE DEF T
<1>5. 0..n \subseteq T
  BY <1>1, <1>3, <1>4, UpTo
<1>6. n \in T
  BY <1>1, <1>5
<1> QED BY <1>2, <1>6 DEF T

(* One write call more: its event comes last, if it holds one.             *)
LEMMA EventsAppend ==
  ASSUME NEW f \in Seq(Write), NEW c \in Write
  PROVE  Events(Append(f, c)) = IF Holds(c) THEN Append(Events(f), c.event) ELSE Events(f)
<1> DEFINE more == Append(f, c)
           n    == Len(f)
<1>1. n \in Nat /\ Len(more) = n + 1 /\ more[n + 1] = c /\ \A k \in 1..n : more[k] = f[k]
  OBVIOUS
<1> HIDE DEF more, n
<1>2. PICK g : Reading(f, n, g) /\ Events(f) = g[n]
  BY <1>1, EventsAreRead DEF n
<1>3. PICK h : Reading(more, n + 1, h) /\ Events(more) = h[n + 1]
  <2>1. Len(more) \in Nat
    BY <1>1
  <2> QED BY <1>1, <2>1, EventsAreRead
<1>4. h[n] = g[n]
  BY <1>1, <1>2, <1>3, ReadingAgrees
<1>5. h[n + 1] = Extended(h[n], more[n + 1])
  <2>1. n + 1 \in 0..(n + 1) /\ n + 1 # 0 /\ (n + 1) - 1 = n
    BY <1>1
  <2> QED BY <2>1, <1>3 DEF Reading
<1> QED BY <1>1, <1>2, <1>3, <1>4, <1>5 DEF more, Extended
-----------------------------------------------------------------------------
(* replay_runtime_state, event by event.                                   *)

Replaying(l, n, g) ==
  g = [k \in 0..n |-> IF k = 0 THEN NoObservations ELSE Replayed(g[k - 1], l[k])]

(* The recursion defines a replay of every prefix.                         *)
LEMMA ReplayingExists ==
  ASSUME NEW l, NEW n \in Nat
  PROVE  \E g : Replaying(l, n, g)
<1> DEFINE T == {k \in 0..n : \E g : Replaying(l, k, g)}
<1>1. 0 \in T
  <2>1. Replaying(l, 0, [j \in 0..0 |-> NoObservations])
    BY DEF Replaying
  <2> QED BY <2>1
<1>2. ASSUME NEW k \in 1..n, k - 1 \in T  PROVE k \in T
  <2>1. PICK g : Replaying(l, k - 1, g)
    BY <1>2
  <2> DEFINE h == [j \in 0..k |-> IF j = k THEN Replayed(g[k - 1], l[k]) ELSE g[j]]
  <2>2. Replaying(l, k, h)
    BY <2>1 DEF Replaying
  <2> QED BY <2>2
<1> HIDE DEF T
<1>3. 0..n \subseteq T
  BY <1>1, <1>2, UpTo
<1>4. n \in T
  BY <1>3
<1> QED BY <1>4 DEF T

(* ReplayedTask is the last of the states it is defined by.                *)
LEMMA EventsAreReplayed ==
  ASSUME NEW l, Len(l) \in Nat
  PROVE  \E g : Replaying(l, Len(l), g) /\ ReplayedTask(l) = g[Len(l)]
<1>1. PICK g : Replaying(l, Len(l), g)
  BY ReplayingExists
<1> DEFINE after == CHOOSE g1 : g1 = [n \in 0..Len(l) |-> IF n = 0 THEN NoObservations ELSE Replayed(g1[n - 1], l[n])]
<1>2. Replaying(l, Len(l), after)
  BY <1>1 DEF Replaying
<1>3. ReplayedTask(l) = after[Len(l)]
  BY Zenon DEF ReplayedTask
<1> QED BY <1>2, <1>3

(* One event takes a state of the task to a state of the task.             *)
LEMMA ReplayedType ==
  ASSUME NEW s \in TaskState, NEW e \in Event
  PROVE  Replayed(s, e) \in TaskState
<1>1. CASE e.type # "task_boundary_observed"
  BY <1>1 DEF Replayed
<1>2. CASE e.type = "task_boundary_observed"
  <2>1. e.observation \in Observation
    BY <1>2, EventFields
  <2>2. e.observation.basis \in Nat /\ e.observation.count \in Nat
    BY <2>1 DEF Observation
  <2> HIDE DEF Event
  <2> QED BY <1>2, <2>2 DEF Replayed, TaskState, NoTask
<1> QED BY <1>1, <1>2

(* A replay ends with a state of the task.                                 *)
LEMMA ReplayedTaskType ==
  ASSUME NEW l \in Seq(Event)
  PROVE  ReplayedTask(l) \in TaskState
<1> DEFINE n == Len(l)
<1>1. n \in Nat /\ \A k \in 1..n : l[k] \in Event
  OBVIOUS
<1>2. PICK g : Replaying(l, n, g) /\ ReplayedTask(l) = g[n]
  BY <1>1, EventsAreReplayed
<1> HIDE DEF n
<1> DEFINE T == {k \in 0..n : g[k] \in TaskState}
<1>3. 0 \in T
  BY <1>1, <1>2 DEF Replaying, NoObservations, NoTask, TaskState
<1>4. ASSUME NEW k \in 1..n, k - 1 \in T  PROVE k \in T
  <2>1. g[k] = Replayed(g[k - 1], l[k])
    BY <1>1, <1>2 DEF Replaying
  <2>2. g[k - 1] \in TaskState /\ k \in 0..n
    BY <1>1, <1>4
  <2> QED BY <1>1, <2>1, <2>2, ReplayedType
<1> HIDE DEF T
<1>5. 0..n \subseteq T
  BY <1>1, <1>3, <1>4, UpTo
<1>6. n \in T
  BY <1>1, <1>5
<1> QED BY <1>2, <1>6 DEF T

(* One event more is one step of the replay more.                          *)
LEMMA ReplayedTaskAppend ==
  ASSUME NEW l \in Seq(Event), NEW e \in Event
  PROVE  ReplayedTask(Append(l, e)) = Replayed(ReplayedTask(l), e)
<1> DEFINE more == Append(l, e)
           n    == Len(l)
<1>1. n \in Nat /\ Len(more) = n + 1 /\ more[n + 1] = e /\ \A k \in 1..n : more[k] = l[k]
  OBVIOUS
<1>2. PICK g : Replaying(l, n, g) /\ ReplayedTask(l) = g[n]
  BY <1>1, EventsAreReplayed
<1> HIDE DEF more, n
<1>3. PICK h : Replaying(more, n + 1, h) /\ ReplayedTask(more) = h[n + 1]
  <2>1. Len(more) \in Nat
    BY <1>1
  <2> QED BY <1>1, <2>1, EventsAreReplayed
<1> DEFINE T == {k \in 0..n : h[k] = g[k]}
<1>4. 0 \in T
  BY <1>1, <1>2, <1>3 DEF Replaying
<1>5. ASSUME NEW k \in 1..n, k - 1 \in T  PROVE k \in T
  <2>1. h[k - 1] = g[k - 1] /\ more[k] = l[k] /\ k \in 0..n /\ k \in 0..(n + 1) /\ k # 0
    BY <1>1, <1>5
  <2>2. g[k] = Replayed(g[k - 1], l[k])
    BY <2>1, <1>2 DEF Replaying
  <2>3. h[k] = Replayed(h[k - 1], more[k])
    BY <2>1, <1>3 DEF Replaying
  <2> QED BY <2>1, <2>2, <2>3
<1> HIDE DEF T
<1>6. 0..n \subseteq T
  BY <1>1, <1>4, <1>5, UpTo
<1>7. h[n] = g[n]
  <2>1. n \in T
    BY <1>1, <1>6
  <2> QED BY <2>1 DEF T
<1>8. h[n + 1] = Replayed(h[n], more[n + 1])
  <2>1. n + 1 \in 0..(n + 1) /\ n + 1 # 0 /\ (n + 1) - 1 = n
    BY <1>1
  <2> QED BY <2>1, <1>3 DEF Replaying
<1> QED BY <1>1, <1>2, <1>3, <1>7, <1>8 DEF more
-----------------------------------------------------------------------------
(* Messages and counts of a log with one event more.                       *)

LEMMA LogAppend ==
  ASSUME NEW l \in Seq(Event), NEW e \in Event
  PROVE  /\ Append(l, e) \in Seq(Event)
         /\ Len(Append(l, e)) = Len(l) + 1
         /\ DOMAIN Append(l, e) = 1..(Len(l) + 1) /\ DOMAIN l = 1..Len(l)
         /\ Append(l, e)[Len(l) + 1] = e
         /\ \A i \in 1..Len(l) : Append(l, e)[i] = l[i]
BY AppendProperties

LEMMA MessagesAppend ==
  ASSUME NEW l \in Seq(Event), NEW e \in Event
  PROVE  Messages(Append(l, e)) = IF IsMessage(e) THEN Messages(l) \cup {Len(l) + 1} ELSE Messages(l)
<1> DEFINE more == Append(l, e)
           n    == Len(l)
<1>1. /\ DOMAIN more = 1..(n + 1) /\ DOMAIN l = 1..n /\ n \in Nat
      /\ more[n + 1] = e /\ \A i \in 1..n : more[i] = l[i]
  BY LogAppend, LenProperties
<1> HIDE DEF more, n
<1>2. Messages(more) = IF IsMessage(e) THEN Messages(l) \cup {n + 1} ELSE Messages(l)
  BY <1>1 DEF Messages
<1> QED BY <1>2 DEF more, n

LEMMA MessagesFinite ==
  ASSUME NEW l \in Seq(Event)
  PROVE  /\ Messages(l) \subseteq 1..Len(l) /\ IsFiniteSet(Messages(l))
         /\ Cardinality(Messages(l)) \in Nat
<1>1. Len(l) \in Nat /\ DOMAIN l = 1..Len(l)
  BY LenProperties
<1>2. Messages(l) \subseteq 1..Len(l)
  BY <1>1 DEF Messages
<1>3. IsFiniteSet(1..Len(l))
  BY <1>1, FS_Interval
<1>4. IsFiniteSet(Messages(l))
  BY <1>2, <1>3, FS_Subset
<1> QED BY <1>2, <1>4, FS_CardinalityType

(* A log that grows does not lose messages.                                *)
LEMMA MessagesGrow ==
  ASSUME NEW l \in Seq(Event), NEW e \in Event
  PROVE  Cardinality(Messages(l)) <= Cardinality(Messages(Append(l, e)))
<1>1. Messages(l) \subseteq Messages(Append(l, e))
  BY MessagesAppend
<1>2. IsFiniteSet(Messages(Append(l, e)))
  BY LogAppend, MessagesFinite
<1> QED BY <1>1, <1>2, FS_Subset

LEMMA CountAppend ==
  ASSUME NEW l \in Seq(Event), NEW e \in Event, NEW type
  PROVE  /\ CountOf(l, type) \in Nat
         /\ CountOf(Append(l, e), type) = IF e.type = type THEN CountOf(l, type) + 1 ELSE CountOf(l, type)
<1> DEFINE more == Append(l, e)
           n    == Len(l)
           of(s) == {i \in DOMAIN s : s[i].type = type}
<1>1. /\ DOMAIN more = 1..(n + 1) /\ DOMAIN l = 1..n /\ n \in Nat
      /\ more[n + 1] = e /\ \A i \in 1..n : more[i] = l[i]
  BY LogAppend, LenProperties
<1>2. IsFiniteSet(of(l))
  <2>1. IsFiniteSet(1..n) /\ of(l) \subseteq 1..n
    BY <1>1, FS_Interval
  <2> QED BY <2>1, FS_Subset
<1> HIDE DEF more, n
<1>3. of(more) = IF e.type = type THEN of(l) \cup {n + 1} ELSE of(l)
  BY <1>1
<1>4. n + 1 \notin of(l)
  BY <1>1
<1> HIDE DEF of
<1>5. Cardinality(of(l) \cup {n + 1}) = Cardinality(of(l)) + 1 /\ Cardinality(of(l)) \in Nat
  BY <1>2, <1>4, FS_AddElement, FS_CardinalityType
<1>6. CountOf(l, type) = Cardinality(of(l)) /\ CountOf(more, type) = Cardinality(of(more))
  BY DEF CountOf, of
<1> QED BY <1>3, <1>5, <1>6 DEF more
-----------------------------------------------------------------------------
(* A transcript, entry by entry.                                           *)

Showing(l, n, g) ==
  g = [k \in 0..n |-> IF k = 0 THEN <<>> ELSE WithEntries(g[k - 1], l, k)]

(* The recursion defines a transcript of every prefix.                     *)
LEMMA ShowingExists ==
  ASSUME NEW l, NEW n \in Nat
  PROVE  \E g : Showing(l, n, g)
<1> DEFINE T == {k \in 0..n : \E g : Showing(l, k, g)}
<1>1. 0 \in T
  <2>1. Showing(l, 0, [j \in 0..0 |-> <<>>])
    BY DEF Showing
  <2> QED BY <2>1
<1>2. ASSUME NEW k \in 1..n, k - 1 \in T  PROVE k \in T
  <2>1. PICK g : Showing(l, k - 1, g)
    BY <1>2
  <2> DEFINE h == [j \in 0..k |-> IF j = k THEN WithEntries(g[k - 1], l, k) ELSE g[j]]
  <2>2. Showing(l, k, h)
    BY <2>1 DEF Showing
  <2> QED BY <2>2
<1> HIDE DEF T
<1>3. 0..n \subseteq T
  BY <1>1, <1>2, UpTo
<1>4. n \in T
  BY <1>3
<1> QED BY <1>4 DEF T

(* Transcript is the last of those.                                        *)
LEMMA MessagesAreShown ==
  ASSUME NEW l, Len(l) \in Nat
  PROVE  \E g : Showing(l, Len(l), g) /\ Transcript(l) = g[Len(l)]
<1>1. PICK g : Showing(l, Len(l), g)
  BY ShowingExists
<1> DEFINE upTo == CHOOSE g1 : g1 = [n \in 0..Len(l) |-> IF n = 0 THEN <<>> ELSE WithEntries(g1[n - 1], l, n)]
<1>2. Showing(l, Len(l), upTo)
  BY <1>1 DEF Showing
<1>3. Transcript(l) = upTo[Len(l)]
  BY Zenon DEF Transcript
<1> QED BY <1>2, <1>3

(* Parts of messages are found again in a log with one event more.         *)
LEMMA PartsType ==
  ASSUME NEW l \in Seq(Event)
  PROVE  /\ Parts(l) \subseteq Part
         /\ \A m \in Messages(l) : l[m].parts \in Seq(Kinds) /\ DOMAIN l[m].parts \subseteq Nat
         /\ \A m, k : <<m, k>> \in Parts(l) <=> m \in Messages(l) /\ k \in DOMAIN l[m].parts
<1>1. \A m \in Messages(l) : m \in Nat /\ m \in DOMAIN l /\ IsMessage(l[m]) /\ l[m] \in Event
  BY LenProperties DEF Messages
<1>2. \A m \in Messages(l) : l[m].parts \in Seq(Kinds)
  BY <1>1, EventFields
<1>3. \A m \in Messages(l) : DOMAIN l[m].parts \subseteq Nat
  <2> TAKE m \in Messages(l)
  <2>1. DOMAIN l[m].parts = 1..Len(l[m].parts) /\ Len(l[m].parts) \in Nat
    BY <1>2, LenProperties
  <2> QED BY <2>1
<1>4. \A m, k : <<m, k>> \in Parts(l) <=> m \in Messages(l) /\ k \in DOMAIN l[m].parts
  BY DEF Parts
<1>5. \A p \in Parts(l) : \E m \in Messages(l) : p \in {m} \X DOMAIN l[m].parts
  BY DEF Parts
<1>6. Parts(l) \subseteq Part
  BY <1>1, <1>3, <1>5 DEF Part
<1> QED BY <1>2, <1>3, <1>4, <1>6

LEMMA PartsAppend ==
  ASSUME NEW l \in Seq(Event), NEW e \in Event, NEW p \in Parts(l)
  PROVE  p \in Parts(Append(l, e)) /\ Kind(Append(l, e), p) = Kind(l, p)
<1> DEFINE more == Append(l, e)
<1>1. PICK m \in Messages(l) : p \in {m} \X DOMAIN l[m].parts
  BY DEF Parts
<1>2. m \in Messages(more) /\ more[m] = l[m] /\ p[1] = m
  BY <1>1, MessagesAppend, MessagesFinite, LogAppend
<1> HIDE DEF more
<1>3. p \in {m} \X DOMAIN more[m].parts
  BY <1>1, <1>2
<1>4. p \in Parts(more) /\ Kind(more, p) = Kind(l, p)
  BY <1>2, <1>3 DEF Parts, Kind
<1> QED BY <1>4 DEF more

Entry == [part : Part, role : {"tool_call", "user", "assistant", "tool"}, shows : {"status", "content"}]

(* An entry names the part it shows.                                       *)
LEMMA EntryType ==
  ASSUME NEW l, NEW p \in Part
  PROVE  EntryOf(l, p) \in Entry /\ EntryOf(l, p).part = p
<1> DEFINE type == l[p[1]].type
           role == IF Kind(l, p) = "tool_call" THEN "tool_call"
                   ELSE CASE type = "user_message" -> "user" [] type = "assistant_message" -> "assistant"
                          [] OTHER -> "tool"
           shows == IF Kind(l, p) = "tool_result" THEN "status" ELSE "content"
<1>1. role \in {"tool_call", "user", "assistant", "tool"}
  <2> HIDE DEF type
  <2>1. (CASE type = "user_message" -> "user" [] type = "assistant_message" -> "assistant" [] OTHER -> "tool")
          \in {"user", "assistant", "tool"}
    OBVIOUS
  <2> QED BY <2>1
<1>2. shows \in {"status", "content"}
  OBVIOUS
<1>3. EntryOf(l, p) = [part |-> p, role |-> role, shows |-> shows]
  BY DEF EntryOf
<1> HIDE DEF role, shows
<1> QED BY <1>1, <1>2, <1>3 DEF Entry

(* The parts of the first n events that are messages, each shown once and  *)
(* in order.                                                               *)
InOrder(s) == \A i, j \in DOMAIN s : i < j => Before(s[i].part, s[j].part)
Shows(s, p) == \E j \in DOMAIN s : s[j].part = p
Shown(l, n, s) ==
  /\ s \in Seq(Entry)
  /\ \A j \in DOMAIN s : s[j].part \in Parts(l) /\ s[j].part[1] \in 1..n
  /\ \A m \in Messages(l) : m <= n => \A k \in DOMAIN l[m].parts : Shows(s, <<m, k>>)
  /\ InOrder(s)

LEMMA PairFields == \A x, y : <<x, y>>[1] = x /\ <<x, y>>[2] = y
OBVIOUS

(* The entries of message n come after those of the messages before it.    *)
LEMMA ShownMore ==
  ASSUME NEW l \in Seq(Event), NEW n \in 1..Len(l), NEW s, Shown(l, n - 1, s), IsMessage(l[n]),
         NEW more, more = s \o [k \in DOMAIN l[n].parts |-> EntryOf(l, <<n, k>>)]
  PROVE  Shown(l, n, more)
<1> DEFINE t == [k \in DOMAIN l[n].parts |-> EntryOf(l, <<n, k>>)]
           a == Len(s)
           b == Len(l[n].parts)
<1>0. n \in Messages(l) /\ n \in Nat /\ Len(l) \in Nat /\ Messages(l) \subseteq 1..Len(l)
  BY LenProperties, MessagesFinite DEF Messages
<1>1. b \in Nat /\ DOMAIN l[n].parts = 1..b
  BY <1>0, PartsType, LenProperties
<1>2. s \in Seq(Entry) /\ a \in Nat /\ DOMAIN s = 1..a /\ InOrder(s)
  BY LenProperties DEF Shown
<1>3. \A k \in 1..b : <<n, k>> \in Parts(l) /\ <<n, k>> \in Part
  BY <1>0, <1>1, PartsType
<1>4. \A k \in 1..b : EntryOf(l, <<n, k>>) \in Entry /\ EntryOf(l, <<n, k>>).part = <<n, k>>
  BY <1>3, EntryType
<1>5. t = [k \in 1..b |-> EntryOf(l, <<n, k>>)]
  BY <1>1
<1> HIDE DEF a, b
<1>6. t \in Seq(Entry) /\ Len(t) = b /\ \A k \in 1..b : t[k].part = <<n, k>>
  <2>1. [k \in 1..b |-> EntryOf(l, <<n, k>>)] \in Seq(Entry)
    BY <1>1, <1>4, IsASeq
  <2>2. DOMAIN t = 1..b
    BY <1>5
  <2>3. Len(t) = b
    BY <1>1, <1>5, <2>1, <2>2, LenProperties
  <2>4. \A k \in 1..b : t[k] = EntryOf(l, <<n, k>>)
    BY <1>5
  <2> QED BY <1>4, <1>5, <2>1, <2>3, <2>4
<1> HIDE DEF t
<1>7. /\ more \in Seq(Entry) /\ Len(more) = a + b /\ DOMAIN more = 1..(a + b)
      /\ \A i \in 1..a : more[i] = s[i]
      /\ \A k \in 1..b : more[a + k] = t[k]
  <2>1. more = s \o t /\ Len(s) = a
    BY DEF t, a
  <2>2. more \in Seq(Entry) /\ Len(more) = a + b
    BY <1>2, <1>6, <2>1, ConcatProperties
  <2>3. \A i \in 1..(a + b) : more[i] = IF i <= a THEN s[i] ELSE t[i - a]
    <3>1. \A i \in 1..(Len(s) + Len(t)) : (s \o t)[i] = IF i <= Len(s) THEN s[i] ELSE t[i - Len(s)]
      BY <1>2, <1>6, ConcatProperties
    <3> QED BY <1>6, <2>1, <3>1
  <2>4. DOMAIN more = 1..(a + b)
    BY <2>2, LenProperties
  <2>5. \A i \in 1..a : more[i] = s[i]
    BY <1>1, <1>2, <2>3
  <2>6. \A k \in 1..b : more[a + k] = t[k]
    <3> TAKE k \in 1..b
    <3>1. a + k \in 1..(a + b) /\ ~(a + k <= a) /\ (a + k) - a = k
      BY <1>1, <1>2
    <3> QED BY <2>3, <3>1
  <2> QED BY <2>2, <2>4, <2>5, <2>6
<1>8. \A i \in 1..a : more[i].part = s[i].part /\ s[i].part \in Parts(l) /\ s[i].part[1] \in 1..(n - 1)
  BY <1>2, <1>7 DEF Shown
<1>9. \A i \in 1..(a + b) : i \notin 1..a => i - a \in 1..b /\ i = a + (i - a)
  BY <1>1, <1>2
<1>10. \A k \in 1..b : more[a + k].part = <<n, k>>
  BY <1>6, <1>7
<1>11. \A i \in 1..(a + b) : i \notin 1..a => more[i].part = <<n, i - a>> /\ i - a \in 1..b
  BY <1>9, <1>10
<1>12. \A j \in DOMAIN more : more[j].part \in Parts(l) /\ more[j].part[1] \in 1..n
  <2> TAKE j \in DOMAIN more
  <2>1. CASE j \in 1..a
    BY <1>0, <1>8, <2>1
  <2>2. CASE j \notin 1..a
    <3>1. more[j].part = <<n, j - a>> /\ j - a \in 1..b
      BY <1>7, <1>11, <2>2
    <3>2. <<n, j - a>> \in Parts(l)
      BY <1>3, <3>1
    <3>3. n \in 1..n
      BY <1>0
    <3>4. more[j].part[1] = n
      BY <3>1, PairFields, Zenon
    <3> QED BY <3>1, <3>2, <3>3, <3>4, Zenon
  <2> QED BY <2>1, <2>2
<1>13. ASSUME NEW m \in Messages(l), m <= n, NEW k \in DOMAIN l[m].parts  PROVE Shows(more, <<m, k>>)
  <2>1. CASE m = n
    <3>1. k \in 1..b /\ a + k \in 1..(a + b)
      BY <1>1, <1>2, <1>13, <2>1
    <3> QED BY <1>7, <1>10, <2>1, <3>1 DEF Shows
  <2>2. CASE m # n
    <3>1. m <= n - 1
      BY <1>0, <1>13, <2>2
    <3>2. PICK j \in 1..a : s[j].part = <<m, k>>
      BY <1>2, <1>13, <3>1 DEF Shown, Shows
    <3>3. j \in 1..(a + b)
      BY <1>1, <1>2
    <3> QED BY <1>7, <1>8, <3>2, <3>3 DEF Shows
  <2> QED BY <2>1, <2>2
<1>14. InOrder(more)
  <2> SUFFICES ASSUME NEW i \in 1..(a + b), NEW j \in 1..(a + b), i < j
               PROVE  Before(more[i].part, more[j].part)
    BY <1>7 DEF InOrder
  <2>1. CASE j \in 1..a
    <3>1. i \in 1..a
      BY <1>2, <2>1
    <3>2. Before(s[i].part, s[j].part)
      BY <1>2, <2>1, <3>1 DEF InOrder
    <3> QED BY <1>8, <2>1, <3>1, <3>2
  <2>2. CASE j \notin 1..a /\ i \in 1..a
    <3>1. more[i].part[1] < n
      <4>1. more[i].part = s[i].part /\ s[i].part[1] \in 1..(n - 1)
        BY <1>8, <2>2
      <4>2. s[i].part[1] < n
        BY <1>0, <4>1
      <4> QED BY <4>1, <4>2, Zenon
    <3>2. more[j].part = <<n, j - a>>
      BY <1>11, <2>2
    <3>3. more[j].part[1] = n
      BY <3>2, PairFields, Zenon
    <3>4. more[i].part[1] < more[j].part[1]
      BY <3>1, <3>3, Zenon
    <3> QED BY <3>4, Zenon DEF Before
  <2>3. CASE j \notin 1..a /\ i \notin 1..a
    <3>1. more[i].part = <<n, i - a>> /\ more[j].part = <<n, j - a>>
      BY <1>11, <2>3
    <3>2. i - a < j - a
      BY <1>1, <1>2
    <3>3. more[i].part[1] = n /\ more[i].part[2] = i - a
      <4> DEFINE p == more[i].part
                 k == i - a
      <4>1. p = <<n, k>>
        BY <3>1
      <4> HIDE DEF p, k
      <4>2. p[1] = n /\ p[2] = k
        BY <4>1
      <4> QED BY <4>2 DEF p, k
    <3>5. more[j].part[1] = n /\ more[j].part[2] = j - a
      <4> DEFINE p == more[j].part
                 k == j - a
      <4>1. p = <<n, k>>
        BY <3>1
      <4> HIDE DEF p, k
      <4>2. p[1] = n /\ p[2] = k
        BY <4>1
      <4> QED BY <4>2 DEF p, k
    <3>4. more[i].part[1] = more[j].part[1] /\ more[i].part[2] < more[j].part[2]
      BY <3>2, <3>3, <3>5, Zenon
    <3> QED BY <3>4, Zenon DEF Before
  <2> QED BY <2>1, <2>2, <2>3
<1> QED BY <1>7, <1>12, <1>13, <1>14 DEF Shown

LEMMA ShownNext ==
  ASSUME NEW l \in Seq(Event), NEW n \in 1..Len(l), NEW s, Shown(l, n - 1, s)
  PROVE  Shown(l, n, WithEntries(s, l, n))
<1>0. Messages(l) \subseteq Nat /\ n \in Nat /\ Len(l) \in Nat
  BY LenProperties, MessagesFinite
<1>1. CASE ~IsMessage(l[n])
  <2>1. WithEntries(s, l, n) = s
    BY <1>1 DEF WithEntries
  <2>2. \A m \in Messages(l) : m <= n => m <= n - 1
    BY <1>0, <1>1 DEF Messages
  <2>3. \A j \in DOMAIN s : s[j].part[1] \in 1..n
    BY <1>0 DEF Shown
  <2> QED BY <2>1, <2>2, <2>3 DEF Shown
<1>2. CASE IsMessage(l[n])
  <2>1. WithEntries(s, l, n) = s \o [k \in DOMAIN l[n].parts |-> EntryOf(l, <<n, k>>)]
    BY <1>2 DEF WithEntries
  <2> QED BY <1>2, <2>1, ShownMore
<1> QED BY <1>1, <1>2

(* A transcript shows each part of a message once, in order.               *)
LEMMA TranscriptShape ==
  ASSUME NEW l \in Seq(Event)
  PROVE  Shown(l, Len(l), Transcript(l))
<1> DEFINE n == Len(l)
<1>1. n \in Nat /\ DOMAIN l = 1..n /\ Messages(l) \subseteq 1..n
  BY LenProperties, MessagesFinite
<1>2. PICK g : Showing(l, n, g) /\ Transcript(l) = g[n]
  BY <1>1, MessagesAreShown
<1> DEFINE T == {k \in 0..n : Shown(l, k, g[k])}
<1>3. 0 \in T
  <2>1. g[0] = <<>>
    BY <1>1, <1>2 DEF Showing
  <2>2. \A m \in Messages(l) : ~(m <= 0)
    BY <1>1
  <2>3. Shown(l, 0, <<>>)
    BY <2>2 DEF Shown, InOrder
  <2> QED BY <1>1, <2>1, <2>3
<1>4. ASSUME NEW k \in 1..n, k - 1 \in T  PROVE k \in T
  <2>1. k \in 0..n /\ k # 0 /\ k \in 1..Len(l)
    BY <1>1
  <2>2. g[k] = WithEntries(g[k - 1], l, k)
    BY <1>1, <1>2, <2>1 DEF Showing
  <2>3. Shown(l, k - 1, g[k - 1])
    BY <1>4
  <2>4. Shown(l, k, g[k])
    BY <2>1, <2>2, <2>3, ShownNext
  <2> QED BY <2>1, <2>4
<1> HIDE DEF T, n
<1>5. 0..n \subseteq T
  BY <1>1, <1>3, <1>4, UpTo
<1>6. Shown(l, n, g[n])
  <2>1. n \in T
    BY <1>1, <1>5
  <2> QED BY <2>1 DEF T
<1>7. Shown(l, n, Transcript(l))
  BY <1>2, <1>6
<1> QED BY <1>7 DEF n

(* What a list of entries says of the first n messages of a log.           *)
Whole(s, l, n) ==
  LET shown == {s[i].part : i \in DOMAIN s}
  IN /\ shown \subseteq Parts(l)
     /\ \A m \in First(l, n) : {m} \X DOMAIN l[m].parts \subseteq shown
     /\ InOrder(s)

LEMMA TranscriptWhole ==
  ASSUME NEW l \in Seq(Event), NEW n
  PROVE  Whole(Transcript(l), l, n)
<1> DEFINE s == Transcript(l)
           shown == {s[i].part : i \in DOMAIN s}
<1>1. Shown(l, Len(l), s) /\ Messages(l) \subseteq 1..Len(l)
  BY TranscriptShape, MessagesFinite
<1> HIDE DEF s
<1>2. shown \subseteq Parts(l) /\ InOrder(s)
  BY <1>1 DEF Shown
<1>3. ASSUME NEW m \in First(l, n)  PROVE {m} \X DOMAIN l[m].parts \subseteq shown
  <2>1. m \in Messages(l) /\ m <= Len(l)
    BY <1>1, LenProperties DEF First
  <2>2. \A k \in DOMAIN l[m].parts : Shows(s, <<m, k>>)
    BY <1>1, <2>1 DEF Shown
  <2>3. \A k \in DOMAIN l[m].parts : <<m, k>> \in shown
    BY <2>2 DEF Shows
  <2> HIDE DEF shown
  <2> QED BY <2>3
<1>4. Whole(s, l, n)
  BY <1>2, <1>3 DEF Whole
<1> QED BY <1>4 DEF s

(* An event more is none of the first messages, if there were n before.    *)
LEMMA FirstAppend ==
  ASSUME NEW l \in Seq(Event), NEW e \in Event, NEW n \in Nat, n <= Cardinality(Messages(l))
  PROVE  First(Append(l, e), n) \subseteq First(l, n)
<1> DEFINE more == Append(l, e)
           z    == Len(l) + 1
<1>1. /\ z \in Nat /\ \A m \in Messages(l) : m \in Nat /\ m < z
      /\ IsFiniteSet(Messages(l)) /\ Cardinality(Messages(l)) \in Nat
  <2>1. Len(l) \in Nat /\ Messages(l) \subseteq 1..Len(l) /\ IsFiniteSet(Messages(l)) /\ Cardinality(Messages(l)) \in Nat
    BY LenProperties, MessagesFinite
  <2> QED BY <2>1
<1>2. Messages(more) = Messages(l) \/ Messages(more) = Messages(l) \cup {z}
  BY MessagesAppend
<1> HIDE DEF more, z
<1> SUFFICES ASSUME NEW m \in First(more, n)  PROVE m \in First(l, n)
  BY DEF more
<1>3. m \in Messages(more) /\ Cardinality({x \in Messages(more) : x <= m}) <= n
  BY DEF First
<1>4. CASE m \in Messages(l)
  <2>1. {x \in Messages(more) : x <= m} = {x \in Messages(l) : x <= m}
    BY <1>1, <1>2, <1>4
  <2> QED BY <1>3, <1>4, <2>1 DEF First
<1>5. CASE m = z /\ Messages(more) = Messages(l) \cup {z}
  <2>1. {x \in Messages(more) : x <= m} = Messages(l) \cup {z}
    BY <1>1, <1>5
  <2>2. Cardinality(Messages(l) \cup {z}) = Cardinality(Messages(l)) + 1
    <3>1. z \notin Messages(l)
      BY <1>1
    <3> QED BY <1>1, <3>1, FS_AddElement
  <2>3. Cardinality(Messages(l)) + 1 <= n
    BY <1>3, <2>1, <2>2
  <2> QED BY <1>1, <2>3
<1> QED BY <1>2, <1>3, <1>4, <1>5

(* A list of entries that was whole stays so when the log grows.           *)
LEMMA WholeAppend ==
  ASSUME NEW l \in Seq(Event), NEW e \in Event, NEW n \in Nat, n <= Cardinality(Messages(l)),
         NEW s, Whole(s, l, n)
  PROVE  Whole(s, Append(l, e), n)
<1> DEFINE more == Append(l, e)
           shown == {s[i].part : i \in DOMAIN s}
<1>1. shown \subseteq Parts(l) /\ InOrder(s) /\ \A m \in First(l, n) : {m} \X DOMAIN l[m].parts \subseteq shown
  BY DEF Whole
<1>2. Parts(l) \subseteq Parts(more)
  BY PartsAppend
<1>3. \A m \in First(more, n) : m \in First(l, n) /\ more[m] = l[m]
  <2> TAKE m \in First(more, n)
  <2>1. m \in First(l, n)
    BY FirstAppend
  <2>2. m \in 1..Len(l)
    BY <2>1, MessagesFinite DEF First
  <2> QED BY <2>1, <2>2, LogAppend
<1> HIDE DEF more, shown
<1>4. \A m \in First(more, n) : {m} \X DOMAIN more[m].parts \subseteq shown
  <2> TAKE m \in First(more, n)
  <2>1. {m} \X DOMAIN l[m].parts \subseteq shown /\ more[m] = l[m]
    BY <1>1, <1>3
  <2> QED BY <2>1
<1>5. shown \subseteq Parts(more)
  BY <1>1, <1>2
<1>6. Whole(s, more, n)
  BY <1>1, <1>4, <1>5 DEF Whole, shown
<1> QED BY <1>6 DEF more
-----------------------------------------------------------------------------
(* Types of the variables.                                                 *)
Live == [task : TaskState, turn : Nat, known : SUBSET Nat, skills : Nat, prepared : Nat]
Step == {Idle} \cup [stage : {"result", "observation"}, observation : Observation]
Job  == {Idle} \cup [stage : {"archive", "record"}, replaced : SUBSET Replacement]

TypeOK ==
  /\ scene \in Scenes
  /\ file \in Seq(Write)
  /\ writing \in [Actors -> BOOLEAN]
  /\ live \in Live
  /\ up \in BOOLEAN
  /\ step \in Step
  /\ work \in [Actors -> Job]
  /\ archives \in SUBSET (Actors \X Part)
  /\ streak \in [basis : Nat, count : Nat]
  /\ torn \in BOOLEAN /\ raced \in BOOLEAN /\ lost \in BOOLEAN

(* The log of a typed file is a sequence of events.                        *)
LEMMA LogType ==
  ASSUME TypeOK
  PROVE  log \in Seq(Event) /\ Len(log) \in Nat /\ Messages(log) \subseteq Nat
<1>1. log \in Seq(Event)
  BY EventsType DEF TypeOK, log
<1>2. Messages(log) \subseteq 1..Len(log) /\ Len(log) \in Nat
  BY <1>1, MessagesFinite, LenProperties
<1> QED BY <1>1, <1>2

(* What append_event does.                                                 *)
LEMMA AppendEffect ==
  ASSUME TypeOK, NEW a \in Actors, NEW e \in Event, Append_(a, e)
  PROVE  /\ file' \in Seq(Write) /\ writing' \in [Actors -> BOOLEAN] /\ raced' \in BOOLEAN
         /\ log' = Append(log, e)
         /\ read' = <<>>
         /\ UNCHANGED <<scene, up, torn, archives>>
<1>1. PICK c \in Write : c.event = e /\ Holds(c) /\ file' = Append(file, c)
  <2> DEFINE W(w) == [write |-> w, event |-> e]
  <2>1. \A w \in {"line", "json"} : W(w) \in Write /\ Holds(W(w)) /\ W(w).event = e
    BY DEF Write, Holds
  <2>2. file' = Append(file, W("line")) \/ file' = Append(file, W("json"))
    BY DEF Append_, Short
  <2> HIDE DEF W
  <2> QED BY <2>1, <2>2
<1>2. file' \in Seq(Write)
  BY <1>1, AppendProperties DEF TypeOK
<1>3. log' = Append(log, e)
  <2>1. Events(file') = Append(Events(file), e)
    BY <1>1, EventsAppend DEF TypeOK
  <2> QED BY <2>1 DEF log
<1>4. writing' \in [Actors -> BOOLEAN]
  BY DEF Append_, Short, TypeOK
<1>5. raced' \in BOOLEAN
  BY Zenon DEF Append_, TypeOK
<1>6. read' = <<>> /\ UNCHANGED <<scene, up, torn, archives>>
  BY DEF Append_
<1> QED BY <1>2, <1>3, <1>4, <1>5, <1>6

(* A part of an event, or a newline, is no event.                          *)
LEMMA NoEventEffect ==
  ASSUME TypeOK, NEW w \in {"newline", "cut"}, file' = Append(file, [write |-> w])
  PROVE  file' \in Seq(Write) /\ log' = log
<1>1. [write |-> w] \in Write /\ ~Holds([write |-> w])
  BY DEF Write, Holds
<1>2. file' \in Seq(Write)
  BY <1>1, AppendProperties DEF TypeOK
<1>3. Events(file') = Events(file)
  BY <1>1, EventsAppend DEF TypeOK
<1> QED BY <1>2, <1>3 DEF log

(* What a resumed process knows has a type.                                *)
LEMMA ResumedType ==
  ASSUME NEW l \in Seq(Event)
  PROVE  Resumed(l) \in Live
<1>1. ReplayedTask(l) \in TaskState
  BY ReplayedTaskType
<1>2. \A t : CountOf(l, t) \in Nat
  BY EventTypes, CountAppend
<1>3. Messages(l) \subseteq Nat
  BY MessagesFinite, LenProperties
<1> QED BY <1>1, <1>2, <1>3 DEF Resumed, Live

(* The state at the start is typed.                                        *)
LEMMA InitType == Init => TypeOK
<1> SUFFICES ASSUME Init  PROVE TypeOK
  OBVIOUS
<1> DEFINE c == [write |-> "line", event |-> Created]
<1>1. c \in Write
  BY EventTypes DEF Write
<1>2. <<c>> \in Seq(Write)
  BY <1>1
<1>3. Created \in Event /\ <<Created>> \in Seq(Event)
  BY EventTypes
<1>7. live \in Live
  BY <1>3, ResumedType DEF Init
<1>8. file \in Seq(Write)
  BY <1>2 DEF Init
<1>9. step \in Step /\ work \in [Actors -> Job] /\ archives \in SUBSET (Actors \X Part)
  BY DEF Init, Step, Job
<1>10. streak \in [basis : Nat, count : Nat]
  BY DEF Init, NoTask
<1>11. writing \in [Actors -> BOOLEAN] /\ up \in BOOLEAN /\ torn \in BOOLEAN /\ raced \in BOOLEAN /\ lost \in BOOLEAN
  BY DEF Init
<1> QED BY <1>7, <1>8, <1>9, <1>10, <1>11 DEF TypeOK, Init

(* An observation takes a state of the task to a state of the task.        *)
LEMMA ObservedType ==
  ASSUME NEW s \in TaskState, NEW decision, NEW basis \in Nat
  PROVE  Observed(s, decision, basis) \in TaskState
<1> DEFINE n == IF basis = s.candidate THEN s.count + 1 ELSE 1
<1>1. n \in Nat
  BY DEF TaskState
<1> HIDE DEF n
<1>2. /\ [s EXCEPT !.candidate = NoTask, !.count = 0] \in TaskState
      /\ [s EXCEPT !.candidate = basis, !.count = n] \in TaskState
      /\ [active |-> basis, candidate |-> NoTask, count |-> 0] \in TaskState
  BY <1>1 DEF TaskState, NoTask
<1>3. Observed(s, decision, basis) \in {[s EXCEPT !.candidate = NoTask, !.count = 0],
         [s EXCEPT !.candidate = basis, !.count = n], [active |-> basis, candidate |-> NoTask, count |-> 0]}
  BY Zenon DEF Observed, n
<1> QED BY <1>2, <1>3

(* A step of the model appends a message that is not the user's.           *)
LEMMA AnswerEffect ==
  ASSUME TypeOK, Answer
  PROVE  \E e \in Event : IsMessage(e) /\ e.type \notin {"user_message", "skill_loaded"} /\ Append_("turn", e)
<1>1. live.task.active \in Nat
  BY DEF TypeOK, Live, TaskState
<1> DEFINE h == live.task.active
<1>2. scene.replies \subseteq [text : BOOLEAN, calls : Nat]
  BY ScenesAssumption DEF TypeOK
<1>3. (\E r \in scene.replies : Append_("turn", Reply(r, h))) \/ Append_("turn", ToolResult(h))
  BY DEF Answer
<1>4. ASSUME NEW e \in Event, e.type \in {"assistant_message", "tool_result"}
      PROVE  IsMessage(e) /\ e.type \notin {"user_message", "skill_loaded"}
  BY <1>4 DEF IsMessage, MessageTypes
<1> HIDE DEF h
<1>5. ASSUME NEW r \in scene.replies  PROVE Reply(r, h) \in Event /\ Reply(r, h).type = "assistant_message"
  <2>1. Reply(r, h) \in Event
    BY <1>1, <1>2, EventTypes DEF h
  <2> QED BY <2>1 DEF Reply
<1>6. ToolResult(h) \in Event /\ ToolResult(h).type = "tool_result"
  <2>1. ToolResult(h) \in Event
    BY <1>1, EventTypes DEF h
  <2> QED BY <2>1 DEF ToolResult
<1>7. CASE Append_("turn", ToolResult(h))
  BY <1>4, <1>6, <1>7
<1>8. ASSUME NEW r \in scene.replies, Append_("turn", Reply(r, h))
      PROVE  \E e \in Event : IsMessage(e) /\ e.type \notin {"user_message", "skill_loaded"} /\ Append_("turn", e)
  BY <1>4, <1>5, <1>8
<1> QED BY <1>3, <1>7, <1>8

(* What a compaction makes of parts are replacements.                      *)
LEMMA NewTypes ==
  ASSUME TypeOK, NEW a \in Actors, NEW forced, NEW texts \in SUBSET TextParts(log), NEW results \in SUBSET LargeResults(log)
  PROVE  /\ {[part |-> p, state |-> "micro_compacted"] : p \in texts \cap Old(log, live.task.active)} \subseteq Replacement
         /\ {[part |-> p, state |-> "route_compacted"] :
                     p \in (texts \cup results) \cap (Routable(log, live.task.active, forced) \ Old(log, live.task.active))}
               \subseteq Replacement
         /\ {[part |-> p, state |-> "archived", archive |-> <<a, p>>] :
                     p \in results \ Routable(log, live.task.active, forced)} \subseteq Replacement
<1>1. texts \subseteq Part /\ results \subseteq Part
  <2>1. log \in Seq(Event)
    BY LogType
  <2>2. Parts(log) \subseteq Part
    BY <2>1, PartsType
  <2> QED BY <2>2 DEF TextParts, LargeResults, RawParts
<1>2. \A p \in Part : [part |-> p, state |-> "micro_compacted"] \in Replacement
  BY DEF Replacement
<1>3. \A p \in Part : [part |-> p, state |-> "route_compacted"] \in Replacement
  BY DEF Replacement
<1>4. \A p \in Part : [part |-> p, state |-> "archived", archive |-> <<a, p>>] \in Replacement
  BY DEF Replacement
<1> QED BY <1>1, <1>2, <1>3, <1>4

(* Types after an event was appended.                                      *)
LEMMA TypeByAppend ==
  ASSUME TypeOK, NEW a \in Actors, NEW e \in Event, Append_(a, e),
         live' \in Live, step' \in Step, work' \in [Actors -> Job],
         streak' \in [basis : Nat, count : Nat], lost' \in BOOLEAN
  PROVE  TypeOK'
<1>1. file' \in Seq(Write) /\ writing' \in [Actors -> BOOLEAN] /\ raced' \in BOOLEAN
  BY AppendEffect
<1>2. scene' \in Scenes /\ up' \in BOOLEAN /\ torn' \in BOOLEAN /\ archives' \in SUBSET (Actors \X Part)
  BY AppendEffect DEF TypeOK
<1> QED BY <1>1, <1>2 DEF TypeOK

(* Types after a step that leaves the file and the process alone.          *)
LEMMA TypeByStep ==
  ASSUME TypeOK, UNCHANGED <<scene, file, writing, up, torn, raced>>,
         live' \in Live, step' \in Step, work' \in [Actors -> Job], archives' \in SUBSET (Actors \X Part),
         streak' \in [basis : Nat, count : Nat], lost' \in BOOLEAN
  PROVE  TypeOK'
BY DEF TypeOK

(* What the actions make of the runtime state is one.                      *)
LEMMA KnownMore ==
  ASSUME TypeOK
  PROVE  /\ Now \in Nat /\ live.known \cup {Now} \in SUBSET Nat /\ live.task.active \in Nat
         /\ [live EXCEPT !.known = @ \cup {Now}] \in Live
         /\ [live EXCEPT !.turn = @ + 1, !.known = @ \cup {Now}] \in Live
         /\ [live EXCEPT !.skills = @ + 1, !.prepared = live.turn] \in Live
         /\ [live EXCEPT !.prepared = live.turn] \in Live
         /\ \A t \in TaskState : [live EXCEPT !.task = t] \in Live
<1>1. Now \in Nat
  BY LogType DEF Now
<1>2. live \in Live
  BY DEF TypeOK
<1> HIDE DEF Now
<1> DEFINE known == live.known \cup {Now}
<1>3. known \in SUBSET Nat /\ live.task.active \in Nat /\ live.turn + 1 \in Nat /\ live.skills + 1 \in Nat /\ live.turn \in Nat
  BY <1>1, <1>2 DEF Live, TaskState
<1>4. \A k \in SUBSET Nat, n \in Nat :
        /\ [live EXCEPT !.known = k] \in Live
        /\ [live EXCEPT !.turn = n, !.known = k] \in Live
  BY <1>2 DEF Live
<1>5. \A m, n \in Nat :
        /\ [live EXCEPT !.skills = m, !.prepared = n] \in Live
        /\ [live EXCEPT !.prepared = n] \in Live
  BY <1>2 DEF Live
<1>6. \A t \in TaskState : [live EXCEPT !.task = t] \in Live
  BY <1>2 DEF Live
<1>7. [live EXCEPT !.known = known] \in Live /\ [live EXCEPT !.turn = live.turn + 1, !.known = known] \in Live
  <2> HIDE DEF known, Live
  <2> QED BY <1>3, <1>4
<1>8. [live EXCEPT !.skills = live.skills + 1, !.prepared = live.turn] \in Live /\ [live EXCEPT !.prepared = live.turn] \in Live
  <2> HIDE DEF known, Live
  <2> QED BY <1>3, <1>5
<1> QED BY <1>1, <1>3, <1>6, <1>7, <1>8

(* Types after each kind of step.                                          *)
LEMMA TurnType ==
  ASSUME TypeOK, Turn
  PROVE  TypeOK'
<1> USE KnownMore, EventTypes
<1>0. /\ live \in Live /\ step \in Step /\ work \in [Actors -> Job] /\ archives \in SUBSET (Actors \X Part)
      /\ streak \in [basis : Nat, count : Nat] /\ lost \in BOOLEAN /\ "turn" \in Actors /\ Idle \in Step
  BY DEF TypeOK, Actors, Step
<1>1. CASE Ask
  <2>1. UserMessage(live.task.active) \in Event /\ Append_("turn", UserMessage(live.task.active))
    BY <1>1 DEF Ask
  <2>2. live' \in Live /\ UNCHANGED <<step, work, streak, lost>>
    BY <1>1 DEF Ask
  <2> QED BY <1>0, <2>1, <2>2, TypeByAppend
<1>2. CASE PrepareSkills
  <2>1. live' \in Live /\ UNCHANGED <<step, work, streak, lost>>
    BY <1>2 DEF PrepareSkills
  <2>2. CASE Append_("turn", SkillLoaded)
    BY <1>0, <2>1, <2>2, TypeByAppend
  <2>3. CASE UNCHANGED <<scene, file, writing, up, archives, read, crashes, torn, raced>>
    BY <1>0, <2>1, <2>3, TypeByStep
  <2> QED BY <1>2, <2>2, <2>3 DEF PrepareSkills
<1>3. CASE Answer
  <2>1. PICK e \in Event : Append_("turn", e)
    BY <1>3, AnswerEffect
  <2>2. live' \in Live /\ UNCHANGED <<step, work, streak, lost>>
    BY <1>3 DEF Answer
  <2> QED BY <1>0, <2>1, <2>2, TypeByAppend
<1>4. CASE Observe
  <2>1. PICK decision \in {"same", "new", "uncertain"}, basis \in live.known :
           LET t == Observed(live.task, decision, basis) IN
             /\ live' = [live EXCEPT !.task = t]
             /\ step' = [stage |-> "result",
                      observation |-> [decision |-> decision, basis |-> basis, count |-> t.count,
                                       confirmed |-> t.active # live.task.active]]
             /\ streak' = IF decision # "new" THEN [basis |-> NoTask, count |-> 0]
                    ELSE [basis |-> basis, count |-> IF basis # streak.basis THEN 1
                                                      ELSE IF streak.count = 2 THEN 2 ELSE streak.count + 1]
    BY <1>4 DEF Observe
  <2> DEFINE t == Observed(live.task, decision, basis)
  <2>2. basis \in Nat /\ live.task \in TaskState
    BY <1>0 DEF Live
  <2>3. t \in TaskState
    BY <2>2, ObservedType
  <2>4. live' \in Live
    BY <2>1, <2>3
  <2> DEFINE confirmed == t.active # live.task.active
  <2>5. confirmed \in BOOLEAN /\ t.count \in Nat
    BY <2>3 DEF TaskState
  <2>6. step' = [stage |-> "result",
                 observation |-> [decision |-> decision, basis |-> basis, count |-> t.count, confirmed |-> confirmed]]
    BY <2>1
  <2> HIDE DEF t, confirmed
  <2>7. step' \in Step
    BY <2>2, <2>5, <2>6 DEF Step, Observation
  <2>8. streak' \in [basis : Nat, count : Nat]
    <3>1. CASE decision # "new"
      BY <2>1, <3>1 DEF NoTask
    <3>2. CASE decision = "new"
      <4> DEFINE n == IF basis # streak.basis THEN 1 ELSE IF streak.count = 2 THEN 2 ELSE streak.count + 1
      <4>1. n \in Nat
        BY <1>0
      <4>2. streak' = [basis |-> basis, count |-> n]
        BY <2>1, <3>2
      <4> HIDE DEF n
      <4> QED BY <2>2, <4>1, <4>2
    <3> QED BY <3>1, <3>2
  <2>9. UNCHANGED <<scene, file, writing, up, work, archives, torn, raced, lost>>
    BY <1>4 DEF Observe
  <2> QED BY <1>0, <2>4, <2>7, <2>8, <2>9, TypeByStep
<1>5. CASE WriteResult
  <2>1. ToolResult(live.task.active) \in Event /\ Append_("turn", ToolResult(live.task.active))
    BY <1>5 DEF WriteResult
  <2>2. live' \in Live /\ UNCHANGED <<work, streak, lost>>
    BY <1>5 DEF WriteResult
  <2>3. step' \in Step
    <3>1. step.stage = "result" /\ step' = [step EXCEPT !.stage = "observation"]
      BY <1>5 DEF WriteResult
    <3>2. step \in [stage : {"result", "observation"}, observation : Observation]
      BY <1>0, <3>1 DEF Step, Idle
    <3> QED BY <3>1, <3>2 DEF Step
  <2> QED BY <1>0, <2>1, <2>2, <2>3, TypeByAppend
<1>6. CASE WriteObservation
  <2>1. step.observation \in Observation
    <3>1. step.stage = "observation"
      BY <1>6 DEF WriteObservation
    <3> QED BY <1>0, <3>1 DEF Step, Idle
  <2>2. Boundary(step.observation) \in Event /\ Append_("turn", Boundary(step.observation))
    BY <1>6, <2>1 DEF WriteObservation
  <2>3. step' = Idle /\ UNCHANGED <<live, work, share, streak, lost>>
    BY <1>6 DEF WriteObservation
  <2> QED BY <1>0, <2>2, <2>3, TypeByAppend
<1>7. CASE CancelResult
  BY <1>0, <1>7, TypeByStep DEF CancelResult
<1> QED BY <1>1, <1>2, <1>3, <1>4, <1>5, <1>6, <1>7 DEF Turn

LEMMA UiType ==
  ASSUME TypeOK, Ui
  PROVE  TypeOK'
<1>0. /\ live \in Live /\ step \in Step /\ work \in [Actors -> Job] /\ archives \in SUBSET (Actors \X Part)
      /\ streak \in [basis : Nat, count : Nat] /\ lost \in BOOLEAN /\ "ui" \in Actors
  BY DEF TypeOK, Actors
<1>1. CASE Rename
  <2>1. PICK title \in Titles : Append_("ui", Renamed(title))
    BY <1>1 DEF Rename
  <2>2. Renamed(title) \in Event
    BY EventTypes
  <2>3. UNCHANGED <<live, step, work, streak, lost>>
    BY <1>1 DEF Rename
  <2> QED BY <1>0, <2>1, <2>2, <2>3, TypeByAppend
<1>2. CASE ShareHead
  BY <1>0, <1>2, TypeByStep DEF ShareHead, history
<1>3. CASE ShareEntries
  BY <1>0, <1>3, TypeByStep DEF ShareEntries, history
<1> QED BY <1>1, <1>2, <1>3 DEF Ui

LEMMA WorkType ==
  ASSUME TypeOK, NEW a \in Actors, Work(a)
  PROVE  TypeOK'
<1>0. /\ live \in Live /\ step \in Step /\ work \in [Actors -> Job] /\ archives \in SUBSET (Actors \X Part)
      /\ streak \in [basis : Nat, count : Nat] /\ lost \in BOOLEAN
  BY DEF TypeOK
<1>1. CASE Newline(a)
  <2>1. file' \in Seq(Write)
    BY <1>1, NoEventEffect DEF Newline
  <2>2. writing' \in [Actors -> BOOLEAN]
    BY <1>1 DEF Newline, TypeOK
  <2>3. UNCHANGED <<scene, live, up, step, work, archives, streak, torn, raced, lost>>
    BY <1>1 DEF Newline, history
  <2> QED BY <2>1, <2>2, <2>3 DEF TypeOK
<1>2. CASE Compact(a)
  <2>1. PICK new \in SUBSET Replacement : work' = [work EXCEPT ![a] = [stage |-> "archive", replaced |-> new]]
    <3>1. PICK forced \in BOOLEAN, texts \in SUBSET TextParts(log), results \in SUBSET LargeResults(log) :
            work' = [work EXCEPT ![a] = [stage |-> "archive", replaced |->
                 {[part |-> p, state |-> "micro_compacted"] : p \in texts \cap Old(log, live.task.active)}
            \cup {[part |-> p, state |-> "route_compacted"] :
                     p \in (texts \cup results) \cap (Routable(log, live.task.active, forced) \ Old(log, live.task.active))}
            \cup {[part |-> p, state |-> "archived", archive |-> <<a, p>>] :
                     p \in results \ Routable(log, live.task.active, forced)}]]
      BY <1>2 DEF Compact
    <3> QED BY <3>1, NewTypes
  <2>2. work' \in [Actors -> Job]
    <3>1. [stage |-> "archive", replaced |-> new] \in Job
      BY DEF Job
    <3> QED BY <1>0, <2>1, <3>1
  <2>3. UNCHANGED <<scene, file, writing, live, up, step, archives, streak, torn, raced, lost>>
    BY <1>2 DEF Compact, history
  <2> QED BY <1>0, <2>2, <2>3, TypeByStep
<1>3. CASE Archive(a)
  <2>1. work[a].stage = "archive" /\ work[a] \in Job /\ work' = [work EXCEPT ![a].stage = "record"]
    BY <1>0, <1>3 DEF Archive
  <2>2. work[a] \in [stage : {"archive", "record"}, replaced : SUBSET Replacement]
    BY <2>1 DEF Job, Idle
  <2>3. [work[a] EXCEPT !.stage = "record"] \in Job
    BY <2>2 DEF Job
  <2>4. work' \in [Actors -> Job]
    BY <1>0, <2>1, <2>3
  <2>5. archives' \in SUBSET (Actors \X Part)
    <3>1. work[a].replaced \in SUBSET Replacement
      BY <2>2
    <3>2. \A r \in work[a].replaced : r.state = "archived" => r.archive \in Actors \X Part
      BY <3>1 DEF Replacement
    <3>3. archives' = archives \cup {r.archive : r \in {x \in work[a].replaced : x.state = "archived"}}
      BY <1>3 DEF Archive
    <3> QED BY <1>0, <3>2, <3>3
  <2>6. UNCHANGED <<scene, file, writing, live, up, step, streak, torn, raced, lost>>
    BY <1>3 DEF Archive, history
  <2> QED BY <1>0, <2>4, <2>5, <2>6, TypeByStep
<1>4. CASE RecordCompaction(a)
  <2>1. work[a].stage = "record" /\ work[a] \in Job /\ work' = [work EXCEPT ![a] = Idle]
    BY <1>0, <1>4 DEF RecordCompaction
  <2>2. work[a].replaced \in SUBSET Replacement
    BY <2>1 DEF Job, Idle
  <2>3. Compacted(work[a].replaced) \in Event /\ Append_(a, Compacted(work[a].replaced))
    BY <1>4, <2>2, EventTypes DEF RecordCompaction
  <2>4. work' \in [Actors -> Job]
    BY <1>0, <2>1 DEF Job
  <2>5. UNCHANGED <<live, step, streak, lost>>
    BY <1>4 DEF RecordCompaction
  <2> QED BY <1>0, <2>3, <2>4, <2>5, TypeByAppend
<1> QED BY <1>1, <1>2, <1>3, <1>4 DEF Work

LEMMA CrashType ==
  ASSUME TypeOK, Crash
  PROVE  TypeOK'
<1>1. file' \in Seq(Write)
  <2>1. file' = file \/ file' = Append(file, [write |-> "cut"])
    BY DEF Crash
  <2> QED BY <2>1, NoEventEffect DEF TypeOK
<1>2. torn' \in BOOLEAN /\ lost' \in BOOLEAN
  BY Zenon DEF Crash, TypeOK
<1>3. writing' \in [Actors -> BOOLEAN] /\ up' \in BOOLEAN
  BY DEF Crash
<1>4. step' \in Step /\ work' \in [Actors -> Job]
  BY DEF Crash, Step, Job
<1>5. UNCHANGED <<scene, live, archives, streak, raced>>
  BY DEF Crash
<1> QED BY <1>1, <1>2, <1>3, <1>4, <1>5 DEF TypeOK

LEMMA ResumeType ==
  ASSUME TypeOK, Resume \/ RefuseResume
  PROVE  TypeOK'
<1>1. CASE Resume
  <2>1. live' \in Live
    BY <1>1, LogType, ResumedType DEF Resume
  <2>2. up' \in BOOLEAN /\ UNCHANGED <<scene, file, writing, step, work, archives, streak, torn, raced, lost>>
    BY <1>1 DEF Resume, history
  <2> QED BY <2>1, <2>2 DEF TypeOK
<1>2. CASE RefuseResume
  BY <1>2 DEF RefuseResume, history, TypeOK
<1> QED BY <1>1, <1>2

(* Every variable keeps its type.                                          *)
THEOREM TypeCorrect == Spec => []TypeOK
<1>1. TypeOK /\ [Next]_vars => TypeOK'
  <2> SUFFICES ASSUME TypeOK, [Next]_vars  PROVE TypeOK'
    OBVIOUS
  <2>1. CASE Next
    BY <2>1, TurnType, UiType, WorkType, CrashType, ResumeType DEF Next
  <2>2. CASE UNCHANGED vars
    BY <2>2 DEF vars, history, TypeOK
  <2> QED BY <2>1, <2>2
<1> QED BY <1>1, InitType, PTL DEF Spec
-----------------------------------------------------------------------------
(* What the process counts is what the log holds.                          *)
Remembers(s, l) ==
  /\ s.turn = CountOf(l, "user_message")
  /\ s.known = Messages(l)
  /\ s.skills = CountOf(l, "skill_loaded")
  /\ Len(l) >= 1
Remembered == Remembers(live, log)

LEMMA RememberAppend ==
  ASSUME NEW l \in Seq(Event), NEW e \in Event, NEW s, NEW t, Remembers(s, l),
         t.turn = IF e.type = "user_message" THEN s.turn + 1 ELSE s.turn,
         t.known = IF IsMessage(e) THEN s.known \cup {Len(l) + 1} ELSE s.known,
         t.skills = IF e.type = "skill_loaded" THEN s.skills + 1 ELSE s.skills
  PROVE  Remembers(t, Append(l, e))
<1> DEFINE more == Append(l, e)
<1>1. CountOf(more, "user_message") = IF e.type = "user_message" THEN CountOf(l, "user_message") + 1 ELSE CountOf(l, "user_message")
  BY CountAppend
<1>2. CountOf(more, "skill_loaded") = IF e.type = "skill_loaded" THEN CountOf(l, "skill_loaded") + 1 ELSE CountOf(l, "skill_loaded")
  BY CountAppend
<1>3. Messages(more) = IF IsMessage(e) THEN Messages(l) \cup {Len(l) + 1} ELSE Messages(l)
  BY MessagesAppend
<1>4. Len(more) >= 1
  BY LogAppend, LenProperties
<1> HIDE DEF more
<1>5. t.turn = CountOf(more, "user_message")
  BY <1>1 DEF Remembers
<1>6. t.known = Messages(more)
  BY <1>3 DEF Remembers
<1>7. t.skills = CountOf(more, "skill_loaded")
  BY <1>2 DEF Remembers
<1>8. Remembers(t, more)
  BY <1>4, <1>5, <1>6, <1>7 DEF Remembers
<1> QED BY <1>8 DEF more

(* What the events of this model are for the counts.                       *)
LEMMA EventKinds ==
  /\ \A h : /\ UserMessage(h).type = "user_message" /\ IsMessage(UserMessage(h))
            /\ ToolResult(h).type = "tool_result" /\ IsMessage(ToolResult(h))
  /\ SkillLoaded.type = "skill_loaded" /\ ~IsMessage(SkillLoaded)
  /\ \A t : Renamed(t).type = "session_metadata_updated" /\ ~IsMessage(Renamed(t))
  /\ \A o : Boundary(o).type = "task_boundary_observed" /\ ~IsMessage(Boundary(o)) /\ Boundary(o).observation = o
  /\ \A parts : Compacted(parts).type = "compaction_completed" /\ ~IsMessage(Compacted(parts)) /\ Compacted(parts).replaced = parts
<1>1. \A h : /\ UserMessage(h).type = "user_message" /\ IsMessage(UserMessage(h))
            /\ ToolResult(h).type = "tool_result" /\ IsMessage(ToolResult(h))
  BY DEF UserMessage, ToolResult, IsMessage, MessageTypes
<1>2. SkillLoaded.type = "skill_loaded" /\ ~IsMessage(SkillLoaded)
  BY DEF SkillLoaded, IsMessage, MessageTypes
<1>3. \A t : Renamed(t).type = "session_metadata_updated" /\ ~IsMessage(Renamed(t))
  BY DEF Renamed, IsMessage, MessageTypes
<1>4. \A o : Boundary(o).type = "task_boundary_observed" /\ ~IsMessage(Boundary(o)) /\ Boundary(o).observation = o
  BY DEF Boundary, IsMessage, MessageTypes
<1>5. \A parts : Compacted(parts).type = "compaction_completed" /\ ~IsMessage(Compacted(parts)) /\ Compacted(parts).replaced = parts
  BY DEF Compacted, IsMessage, MessageTypes
<1> QED BY <1>1, <1>2, <1>3, <1>4, <1>5

(* The log does not change with a step that appends no event.              *)
Silent == file' = file \/ \E w \in {"newline", "cut"} : file' = Append(file, [write |-> w])

LEMMA SilentEffect ==
  ASSUME TypeOK, Silent
  PROVE  log' = log /\ file' \in Seq(Write)
<1>1. CASE file' = file
  BY <1>1 DEF log, TypeOK
<1>2. CASE \E w \in {"newline", "cut"} : file' = Append(file, [write |-> w])
  BY <1>2, NoEventEffect
<1> QED BY <1>1, <1>2 DEF Silent

LEMMA LogAtInit == Init => log = <<Created>>
<1> SUFFICES ASSUME Init  PROVE log = <<Created>>
  OBVIOUS
<1> DEFINE c == [write |-> "line", event |-> Created]
<1>1. c \in Write /\ Holds(c) /\ c.event = Created
  BY EventTypes DEF Write, Holds
<1>2. <<>> \in Seq(Write) /\ Append(<<>>, c) = <<c>>
  OBVIOUS
<1>3. Events(<<>>) = <<>>
  <2>1. PICK g : Reading(<<>>, 0, g) /\ Events(<<>>) = g[0]
    BY EventsAreRead
  <2> QED BY <2>1 DEF Reading
<1> HIDE DEF c
<1>4. Events(<<c>>) = Append(<<>>, Created)
  BY <1>1, <1>2, <1>3, EventsAppend
<1> QED BY <1>4 DEF Init, log, c

(* A new session knows nothing, as its log says.                           *)
LEMMA RememberInit == Init => Remembered
<1> SUFFICES ASSUME Init  PROVE Remembered
  OBVIOUS
<1>1. log = <<Created>> /\ live = Resumed(<<Created>>)
  BY LogAtInit DEF Init
<1> QED BY <1>1 DEF Remembered, Remembers, Resumed

(* No step makes the process and the log disagree about counts.            *)
LEMMA RememberNext ==
  ASSUME TypeOK, Remembered, [Next]_vars
  PROVE  Remembered'
<1> USE EventKinds, EventTypes
<1>0. /\ live \in Live /\ log \in Seq(Event) /\ Remembers(live, log) /\ live.task.active \in Nat
      /\ live.turn \in Nat /\ live.skills \in Nat
  BY LogType DEF TypeOK, Live, TaskState, Remembered
<1> SUFFICES Remembers(live', log')
  BY DEF Remembered
<1>a. ASSUME UNCHANGED <<live.turn, live.known, live.skills>>, log' = log  PROVE Remembers(live', log')
  BY <1>0, <1>a DEF Remembers
<1>b. ASSUME NEW a \in Actors, NEW e \in Event, Append_(a, e), ~IsMessage(e), e.type \notin {"user_message", "skill_loaded"},
             UNCHANGED live
      PROVE  Remembers(live', log')
  <2>1. log' = Append(log, e)
    BY <1>b, AppendEffect
  <2> QED BY <1>0, <1>b, <2>1, RememberAppend
<1>1. CASE Ask
  <2> DEFINE e == UserMessage(live.task.active)
  <2>1. e \in Event /\ Append_("turn", e) /\ "turn" \in Actors
    BY <1>0, <1>1 DEF Ask, Actors
  <2>2. log' = Append(log, e)
    BY <2>1, AppendEffect
  <2>3. live'.turn = live.turn + 1 /\ live'.known = live.known \cup {Len(log) + 1} /\ live'.skills = live.skills
    BY <1>0, <1>1 DEF Ask, Now, Live
  <2>4. e.type = "user_message" /\ IsMessage(e)
    OBVIOUS
  <2> HIDE DEF e
  <2> QED BY <1>0, <2>1, <2>2, <2>3, <2>4, RememberAppend
<1>2. CASE PrepareSkills
  <2>1. CASE Append_("turn", SkillLoaded) /\ live' = [live EXCEPT !.skills = @ + 1, !.prepared = live.turn]
    <3>1. log' = Append(log, SkillLoaded)
      BY <2>1, AppendEffect DEF Actors
    <3>2. live'.turn = live.turn /\ live'.known = live.known /\ live'.skills = live.skills + 1
      BY <1>0, <2>1 DEF Live
    <3> QED BY <1>0, <3>1, <3>2, RememberAppend
  <2>2. CASE live' = [live EXCEPT !.prepared = live.turn] /\ UNCHANGED file
    <3>1. UNCHANGED <<live.turn, live.known, live.skills>>
      BY <1>0, <2>2 DEF Live
    <3> QED BY <1>a, <2>2, <3>1 DEF log
  <2> QED BY <1>2, <2>1, <2>2 DEF PrepareSkills
<1>3. CASE Answer
  <2>1. PICK e \in Event : IsMessage(e) /\ e.type \notin {"user_message", "skill_loaded"} /\ Append_("turn", e)
    BY <1>3, AnswerEffect
  <2>2. log' = Append(log, e)
    BY <2>1, AppendEffect DEF Actors
  <2>3. live'.turn = live.turn /\ live'.known = live.known \cup {Len(log) + 1} /\ live'.skills = live.skills
    BY <1>0, <1>3 DEF Answer, Now, Live
  <2> QED BY <1>0, <2>1, <2>2, <2>3, RememberAppend
<1>4. CASE Observe
  <2>1. PICK t : live' = [live EXCEPT !.task = t]
    BY <1>4 DEF Observe
  <2>2. UNCHANGED <<live.turn, live.known, live.skills>>
    BY <1>0, <2>1 DEF Live
  <2> QED BY <1>4, <1>a, <2>2 DEF Observe, log
<1>5. CASE WriteResult
  <2> DEFINE e == ToolResult(live.task.active)
  <2>1. e \in Event /\ Append_("turn", e) /\ "turn" \in Actors
    BY <1>0, <1>5 DEF WriteResult, Actors
  <2>2. log' = Append(log, e)
    BY <2>1, AppendEffect
  <2>3. live'.turn = live.turn /\ live'.known = live.known \cup {Len(log) + 1} /\ live'.skills = live.skills
    BY <1>0, <1>5 DEF WriteResult, Now, Live
  <2>4. e.type = "tool_result" /\ IsMessage(e)
    OBVIOUS
  <2> HIDE DEF e
  <2> QED BY <1>0, <2>1, <2>2, <2>3, <2>4, RememberAppend
<1>6. CASE WriteObservation
  <2>1. step.observation \in Observation
    <3>1. step.stage = "observation"
      BY <1>6 DEF WriteObservation
    <3> QED BY <3>1 DEF TypeOK, Step, Idle
  <2>2. Append_("turn", Boundary(step.observation)) /\ UNCHANGED live /\ "turn" \in Actors
    BY <1>6 DEF WriteObservation, Actors
  <2> QED BY <1>b, <2>1, <2>2
<1>7. CASE Rename
  <2>1. PICK title \in Titles : Append_("ui", Renamed(title))
    BY <1>7 DEF Rename
  <2>2. UNCHANGED live /\ "ui" \in Actors
    BY <1>7 DEF Rename, Actors
  <2> QED BY <1>b, <2>1, <2>2
<1>8. ASSUME NEW a \in Actors, RecordCompaction(a)  PROVE Remembers(live', log')
  <2>1. work[a].replaced \in SUBSET Replacement
    <3>1. work[a].stage = "record" /\ work[a] \in Job
      BY <1>8 DEF RecordCompaction, TypeOK
    <3> QED BY <3>1 DEF Job, Idle
  <2>2. Append_(a, Compacted(work[a].replaced)) /\ UNCHANGED live
    BY <1>8 DEF RecordCompaction
  <2> QED BY <1>b, <2>1, <2>2
<1>9. CASE Resume
  <2>1. live' = Resumed(log) /\ log' = log
    BY <1>9 DEF Resume, log
  <2> QED BY <1>0, <2>1 DEF Remembers, Resumed
<1>10. CASE Crash
  <2>1. Silent /\ UNCHANGED live
    BY <1>10 DEF Crash, Silent
  <2> QED BY <1>a, <2>1, SilentEffect
<1>11. ASSUME NEW a \in Actors, Newline(a)  PROVE Remembers(live', log')
  <2>1. Silent /\ UNCHANGED live
    BY <1>11 DEF Newline, Silent
  <2> QED BY <1>a, <2>1, SilentEffect
<1>12. ASSUME NEW a \in Actors, Compact(a) \/ Archive(a)  PROVE Remembers(live', log')
  <2>1. UNCHANGED <<live, file>>
    BY <1>12 DEF Compact, Archive
  <2> QED BY <1>a, <2>1 DEF log
<1>13. CASE CancelResult \/ ShareHead \/ ShareEntries \/ RefuseResume
  <2>1. UNCHANGED <<live, file>>
    BY <1>13 DEF CancelResult, ShareHead, ShareEntries, RefuseResume
  <2> QED BY <1>a, <2>1 DEF log
<1>14. CASE UNCHANGED vars
  <2>1. UNCHANGED <<live, file>>
    BY <1>14 DEF vars
  <2> QED BY <1>a, <2>1 DEF log
<1> QED BY <1>1, <1>2, <1>3, <1>4, <1>5, <1>6, <1>7, <1>8, <1>9, <1>10, <1>11, <1>12, <1>13, <1>14 DEF Next, Turn, Ui, Work
-----------------------------------------------------------------------------
(* The task as the log tells it, the observation about to be written with  *)
(* it; a candidate that is the active task counts for nothing.             *)
Settled(s) == IF s.candidate = s.active THEN [s EXCEPT !.candidate = NoTask, !.count = 0] ELSE s
Told(st, l) == IF st = Idle THEN ReplayedTask(l) ELSE Replayed(ReplayedTask(l), Boundary(st.observation))
Counts(s, k) == s.candidate \notin {s.active, NoTask} => k.basis = s.candidate /\ s.count <= k.count

TaskIsTold ==
  /\ up = FALSE => step = Idle
  /\ lost = FALSE => Settled(live.task) = Settled(Told(step, log)) /\ Counts(live.task, streak)

(* Settled states agree on the task, and on a candidate that counts.       *)
LEMMA SettledFields ==
  ASSUME NEW s \in TaskState, NEW r \in TaskState, Settled(s) = Settled(r)
  PROVE  /\ s.active = r.active
         /\ r.candidate \notin {r.active, NoTask} => s.candidate = r.candidate /\ s.count = r.count
BY DEF Settled, TaskState, NoTask

(* What an observation does to the task is what its event tells.           *)
LEMMA ObservationIsTold ==
  ASSUME NEW s \in TaskState, NEW r \in TaskState, Settled(s) = Settled(r),
         NEW decision \in {"same", "new", "uncertain"}, NEW basis \in Nat \ {0},
         NEW o, o = [decision |-> decision, basis |-> basis, count |-> Observed(s, decision, basis).count,
                     confirmed |-> Observed(s, decision, basis).active # s.active]
  PROVE  Settled(Observed(s, decision, basis)) = Settled(Replayed(r, Boundary(o)))
<1> DEFINE t == Observed(s, decision, basis)
           n == IF basis = s.candidate THEN s.count + 1 ELSE 1
           none == [active |-> s.active, candidate |-> NoTask, count |-> 0]
<1>0. n \in Nat /\ n # 0
  BY DEF TaskState
<1> HIDE DEF n
<1>1. s.active = r.active /\ s.active \in Nat
  BY SettledFields DEF TaskState
<1>2. \A c, k \in Nat : /\ [s EXCEPT !.candidate = c, !.count = k] = [active |-> s.active, candidate |-> c, count |-> k]
                        /\ [r EXCEPT !.candidate = c, !.count = k] = [active |-> s.active, candidate |-> c, count |-> k]
  <2>1. \A x \in TaskState, c, k \in Nat :
           [x EXCEPT !.candidate = c, !.count = k] = [active |-> x.active, candidate |-> c, count |-> k]
    <3> TAKE x \in TaskState, c \in Nat, k \in Nat
    <3> DEFINE y == [x EXCEPT !.candidate = c, !.count = k]
    <3>1. y \in TaskState
      BY DEF TaskState
    <3>2. y.active = x.active /\ y.candidate = c /\ y.count = k
      BY DEF TaskState
    <3> HIDE DEF y
    <3>3. y = [active |-> y.active, candidate |-> y.candidate, count |-> y.count]
      BY <3>1 DEF TaskState
    <3>4. y = [active |-> x.active, candidate |-> c, count |-> k]
      BY <3>2, <3>3
    <3> QED BY <3>4 DEF y
  <2> QED BY <1>1, <2>1
<1>a. NoTask \in Nat /\ 0 \in Nat
  BY DEF NoTask
<1>b. t \in TaskState
  BY ObservedType
<1>c. t.count \in Nat
  BY <1>b DEF TaskState
<1>3. Replayed(r, Boundary(o)) =
        IF t.active # s.active THEN [active |-> basis, candidate |-> NoTask, count |-> 0]
        ELSE IF decision # "new" THEN none
        ELSE [active |-> s.active, candidate |-> basis, count |-> IF t.count = 0 THEN 1 ELSE t.count]
  <2>1. Replayed(r, Boundary(o)) = IF o.confirmed THEN [active |-> o.basis, candidate |-> NoTask, count |-> 0]
       ELSE IF o.decision # "new" THEN [r EXCEPT !.candidate = NoTask, !.count = 0]
       ELSE [r EXCEPT !.candidate = o.basis, !.count = IF o.count = 0 THEN 1 ELSE o.count]
    <3>1. Boundary(o).type = "task_boundary_observed" /\ Boundary(o).observation = o
      BY EventKinds
    <3> HIDE DEF t, none
    <3> QED BY <3>1 DEF Replayed
  <2>2. /\ o.confirmed = (t.active # s.active) /\ o.decision = decision /\ o.basis = basis /\ o.count = t.count
    <3> HIDE DEF t
    <3>1. o = [decision |-> decision, basis |-> basis, count |-> t.count, confirmed |-> t.active # s.active]
      BY DEF t
    <3> DEFINE changed == t.active # s.active
    <3>2. o = [decision |-> decision, basis |-> basis, count |-> t.count, confirmed |-> changed]
      BY <3>1
    <3> HIDE DEF changed
    <3>3. o.confirmed = changed
      BY <3>2
    <3>4. o.decision = decision /\ o.basis = basis /\ o.count = t.count
      BY <3>2
    <3> QED BY <3>3, <3>4, Zenon DEF changed
  <2>3. [r EXCEPT !.candidate = NoTask, !.count = 0] = none
    BY <1>2, <1>a
  <2>4. \A k \in Nat : [r EXCEPT !.candidate = basis, !.count = k] = [active |-> s.active, candidate |-> basis, count |-> k]
    BY <1>2
  <2> HIDE DEF t, none
  <2>5. CASE t.count = 0
    BY <1>a, <2>1, <2>2, <2>3, <2>4, <2>5
  <2>6. CASE t.count # 0
    BY <1>c, <2>1, <2>2, <2>3, <2>4, <2>6
  <2> QED BY <2>5, <2>6
<1>4. CASE decision # "new" \/ basis = s.active
  <2>1. t = none
    BY <1>2, <1>4, <1>a DEF Observed
  <2>2. t.active = s.active /\ t.count = 0
    BY <2>1
  <2>3. Replayed(r, Boundary(o)) = none \/ Replayed(r, Boundary(o)) = [active |-> s.active, candidate |-> s.active, count |-> 1]
    BY <1>3, <1>4, <2>2
  <2>4. Settled([active |-> s.active, candidate |-> s.active, count |-> 1]) = none /\ Settled(none) = none
    BY DEF Settled
  <2> HIDE DEF t, none
  <2> QED BY <2>1, <2>3, <2>4 DEF t
<1>5. CASE decision = "new" /\ basis # s.active /\ n < scene.required
  <2>1. t = [active |-> s.active, candidate |-> basis, count |-> n]
    <3>1. t = [s EXCEPT !.candidate = basis, !.count = n]
      BY <1>5 DEF Observed, n
    <3> HIDE DEF t
    <3> QED BY <1>2, <3>1
  <2> HIDE DEF t
  <2>2. Replayed(r, Boundary(o)) = [active |-> s.active, candidate |-> basis, count |-> n]
    BY <1>0, <1>3, <1>5, <2>1
  <2> QED BY <2>1, <2>2 DEF t
<1>6. CASE decision = "new" /\ basis # s.active /\ ~(n < scene.required)
  <2>1. t = [active |-> basis, candidate |-> NoTask, count |-> 0]
    BY <1>6 DEF Observed, n
  <2> HIDE DEF t
  <2>2. Replayed(r, Boundary(o)) = [active |-> basis, candidate |-> NoTask, count |-> 0]
    BY <1>3, <1>6, <2>1
  <2> QED BY <2>1, <2>2 DEF t
<1> QED BY <1>4, <1>5, <1>6

(* A candidate was named as often as it counts, by the observations that   *)
(* came last.                                                              *)
StreakAfter(k, decision, basis) ==
  IF decision # "new" THEN [basis |-> NoTask, count |-> 0]
  ELSE [basis |-> basis, count |-> IF basis # k.basis THEN 1 ELSE IF k.count = 2 THEN 2 ELSE k.count + 1]

LEMMA CandidateCounts ==
  ASSUME NEW s \in TaskState, NEW k \in [basis : Nat, count : Nat], Counts(s, k), scene \in Scenes,
         NEW decision \in {"same", "new", "uncertain"}, NEW basis \in Nat \ {0}
  PROVE  /\ Counts(Observed(s, decision, basis), StreakAfter(k, decision, basis))
         /\ Observed(s, decision, basis).active # s.active =>
              /\ StreakAfter(k, decision, basis).basis = Observed(s, decision, basis).active
              /\ StreakAfter(k, decision, basis).count >= scene.required
<1> DEFINE t == Observed(s, decision, basis)
           j == StreakAfter(k, decision, basis)
           n == IF basis = s.candidate THEN s.count + 1 ELSE 1
           m == IF basis # k.basis THEN 1 ELSE IF k.count = 2 THEN 2 ELSE k.count + 1
<1>0. scene.required \in {1, 2}
  BY ScenesAssumption
<1>1. CASE decision # "new" \/ basis = s.active
  <2>1. t = [s EXCEPT !.candidate = NoTask, !.count = 0]
    BY <1>1 DEF Observed
  <2>2. t.candidate = NoTask /\ t.active = s.active
    BY <2>1 DEF TaskState
  <2> HIDE DEF t, j
  <2> QED BY <2>2 DEF Counts, t, j
<1>2. CASE decision = "new" /\ basis # s.active
  <2>1. j = [basis |-> basis, count |-> m]
    BY <1>2 DEF StreakAfter
  <2>2. n \in Nat /\ n >= 1 /\ m \in Nat /\ m >= 1
    BY DEF TaskState
  <2>3. basis = s.candidate => k.basis = basis /\ s.count <= k.count
    BY <1>2 DEF Counts, NoTask
  <2>4. n >= scene.required => m >= scene.required
    BY <1>0, <2>3 DEF TaskState
  <2>5. t = IF n < scene.required THEN [s EXCEPT !.candidate = basis, !.count = n]
            ELSE [active |-> basis, candidate |-> NoTask, count |-> 0]
    BY <1>2 DEF Observed
  <2> HIDE DEF n, m, t, j
  <2>6. CASE n < scene.required
    <3>1. t.candidate = basis /\ t.count = n /\ t.active = s.active
      BY <2>5, <2>6 DEF TaskState
    <3>2. n = 1
      BY <1>0, <2>2, <2>6
    <3>3. j.basis = basis /\ n <= j.count
      BY <2>1, <2>2, <3>2
    <3>4. Counts(t, j)
      BY <3>1, <3>3 DEF Counts
    <3> QED BY <3>1, <3>4 DEF t, j
  <2>7. CASE ~(n < scene.required)
    <3>1. t.candidate = NoTask /\ t.active = basis
      BY <2>5, <2>7
    <3>2. j.basis = basis /\ j.count >= scene.required
      BY <1>0, <2>1, <2>2, <2>4, <2>7
    <3>3. Counts(t, j)
      BY <3>1 DEF Counts
    <3> QED BY <3>1, <3>2, <3>3 DEF t, j
  <2> QED BY <2>6, <2>7
<1> QED BY <1>1, <1>2
-----------------------------------------------------------------------------
(* Every step keeps the task told: what the turn holds back is recorded,   *)
(* lost in the open (a crash, a cancelled turn), or replayed.              *)
LEMMA TaskInit == Init => TaskIsTold
<1> SUFFICES ASSUME Init  PROVE TaskIsTold
  OBVIOUS
<1>1. log = <<Created>>
  BY LogAtInit
<1>2. live.task = ReplayedTask(log) /\ step = Idle /\ streak = [basis |-> NoTask, count |-> 0]
  BY <1>1 DEF Init, Resumed
<1>3. ReplayedTask(log) = NoObservations
  <2>1. <<>> \in Seq(Event) /\ Created \in Event /\ Append(<<>>, Created) = <<Created>>
    BY EventTypes
  <2>2. ReplayedTask(<<>>) = NoObservations
    <3>1. PICK g : Replaying(<<>>, 0, g) /\ ReplayedTask(<<>>) = g[0]
      BY EventsAreReplayed
    <3> QED BY <3>1 DEF Replaying
  <2>3. ReplayedTask(<<Created>>) = Replayed(NoObservations, Created)
    BY <2>1, <2>2, ReplayedTaskAppend
  <2> QED BY <1>1, <2>3 DEF Replayed, Created
<1>4. Counts(live.task, streak)
  BY <1>2, <1>3 DEF Counts, NoObservations
<1> QED BY <1>2, <1>4 DEF TaskIsTold, Told, Init

LEMMA TaskNext ==
  ASSUME TypeOK, Remembered, TaskIsTold, [Next]_vars
  PROVE  TaskIsTold'
<1> USE EventKinds, EventTypes
<1> DEFINE r == ReplayedTask(log)
<1>0. /\ live \in Live /\ live.task \in TaskState /\ log \in Seq(Event) /\ r \in TaskState
      /\ streak \in [basis : Nat, count : Nat] /\ step \in Step /\ up \in BOOLEAN /\ lost \in BOOLEAN
      /\ scene \in Scenes /\ work \in [Actors -> Job]
  BY LogType, ReplayedTaskType DEF TypeOK, Live
<1> HIDE DEF r
<1>a. ASSUME UNCHANGED <<live.task, step, up, lost, streak>>, ReplayedTask(log') = r  PROVE TaskIsTold'
  BY <1>a DEF TaskIsTold, Told, r
<1>b. ASSUME NEW a \in Actors, NEW e \in Event, Append_(a, e), e.type # "task_boundary_observed"
      PROVE  ReplayedTask(log') = r /\ up' = up
  <2>1. log' = Append(log, e) /\ up' = up
    BY <1>b, AppendEffect
  <2>2. ReplayedTask(log') = Replayed(r, e)
    BY <1>0, <2>1, ReplayedTaskAppend DEF r
  <2> QED BY <1>b, <2>1, <2>2 DEF Replayed
<1>1. CASE Ask
  <2>1. UNCHANGED <<live.task, step, lost, streak>>
    BY <1>0, <1>1 DEF Ask, Live
  <2>2. ReplayedTask(log') = r /\ up' = up
    <3> DEFINE e == UserMessage(live.task.active)
    <3>1. e \in Event /\ Append_("turn", e) /\ e.type # "task_boundary_observed" /\ "turn" \in Actors
      BY <1>0, <1>1 DEF Ask, TaskState, Actors
    <3> HIDE DEF e
    <3> QED BY <1>b, <3>1
  <2> QED BY <1>a, <2>1, <2>2
<1>2. CASE PrepareSkills
  <2>1. UNCHANGED <<live.task, step, lost, streak>>
    BY <1>0, <1>2 DEF PrepareSkills, Live
  <2>2. ReplayedTask(log') = r /\ up' = up
    <3>1. CASE Append_("turn", SkillLoaded)
      BY <1>b, <3>1 DEF Actors
    <3>2. CASE UNCHANGED <<scene, file, writing, up, archives, read, crashes, torn, raced>>
      BY <3>2 DEF r, log
    <3> QED BY <1>2, <3>1, <3>2 DEF PrepareSkills
  <2> QED BY <1>a, <2>1, <2>2
<1>3. CASE Answer
  <2>1. UNCHANGED <<live.task, step, lost, streak>>
    BY <1>0, <1>3 DEF Answer, Live
  <2>2. PICK e \in Event : IsMessage(e) /\ Append_("turn", e)
    BY <1>3, AnswerEffect
  <2>3. e.type # "task_boundary_observed"
    BY <2>2 DEF IsMessage, MessageTypes
  <2>4. ReplayedTask(log') = r /\ up' = up
    BY <1>b, <2>2, <2>3 DEF Actors
  <2> QED BY <1>a, <2>1, <2>4
<1>4. CASE Observe
  <2>1. PICK decision \in {"same", "new", "uncertain"}, basis \in live.known :
             LET t == Observed(live.task, decision, basis) IN
             /\ live' = [live EXCEPT !.task = t]
             /\ step' = [stage |-> "result",
                      observation |-> [decision |-> decision, basis |-> basis, count |-> t.count,
                                       confirmed |-> t.active # live.task.active]]
             /\ streak' = StreakAfter(streak, decision, basis)
    BY <1>4 DEF Observe, StreakAfter
  <2> DEFINE t == Observed(live.task, decision, basis)
             o == [decision |-> decision, basis |-> basis, count |-> t.count, confirmed |-> t.active # live.task.active]
  <2>2. basis \in Nat \ {0}
    <3>1. live.known \subseteq 1..Len(log) /\ Len(log) \in Nat
      BY <1>0, MessagesFinite, LenProperties DEF Remembered, Remembers
    <3> QED BY <3>1
  <2>3. up = TRUE /\ step = Idle /\ UNCHANGED <<up, lost, log>>
    BY <1>4 DEF Observe, TurnIsFree, TypeOK, log
  <2>4. live'.task = t
    BY <1>0, <2>1 DEF Live
  <2>5. Told(step', log') = Replayed(r, Boundary(o))
    <3>1. step' = [stage |-> "result", observation |-> o]
      BY <2>1
    <3> HIDE DEF o
    <3>2. step' # Idle /\ step'.observation = o
      BY <3>1 DEF Idle
    <3> QED BY <2>3, <3>2 DEF Told, r
  <2>6. ASSUME lost = FALSE  PROVE Settled(live'.task) = Settled(Told(step', log')) /\ Counts(live'.task, streak')
    <3>1. Settled(live.task) = Settled(r) /\ Counts(live.task, streak)
      BY <2>3, <2>6 DEF TaskIsTold, Told, r
    <3>2. Settled(t) = Settled(Replayed(r, Boundary(o)))
      BY <1>0, <2>2, <3>1, ObservationIsTold
    <3>3. Counts(t, StreakAfter(streak, decision, basis))
      BY <1>0, <2>2, <3>1, CandidateCounts
    <3> QED BY <2>1, <2>4, <2>5, <3>2, <3>3
  <2>7. ~(up' = FALSE) /\ lost' = lost
    BY <2>3
  <2> QED BY <2>6, <2>7 DEF TaskIsTold
<1>5. CASE WriteResult
  <2>1. UNCHANGED <<live.task, lost, streak>> /\ up = TRUE
    BY <1>0, <1>5 DEF WriteResult, Live
  <2>2. ReplayedTask(log') = r /\ up' = up
    <3> DEFINE e == ToolResult(live.task.active)
    <3>1. e \in Event /\ Append_("turn", e) /\ e.type # "task_boundary_observed" /\ "turn" \in Actors
      BY <1>0, <1>5 DEF WriteResult, TaskState, Actors
    <3> HIDE DEF e
    <3> QED BY <1>b, <3>1
  <2>3. step # Idle /\ step' # Idle /\ step'.observation = step.observation
    <3>1. step.stage = "result" /\ step' = [step EXCEPT !.stage = "observation"]
      BY <1>5 DEF WriteResult
    <3>2. step \in [stage : {"result", "observation"}, observation : Observation]
      BY <1>0, <3>1 DEF Step, Idle
    <3> QED BY <3>1, <3>2 DEF Idle
  <2>4. Told(step', log') = Told(step, log)
    BY <2>2, <2>3 DEF Told, r
  <2>5. ~(up' = FALSE)
    BY <2>1, <2>2
  <2> QED BY <2>1, <2>4, <2>5 DEF TaskIsTold
<1>6. CASE WriteObservation
  <2>1. step.stage = "observation" /\ step' = Idle /\ UNCHANGED <<live, streak, lost>>
    BY <1>6 DEF WriteObservation
  <2>2. step.observation \in Observation /\ step # Idle
    BY <1>0, <2>1 DEF Step, Idle
  <2>3. log' = Append(log, Boundary(step.observation))
    BY <1>6, <2>2, AppendEffect DEF WriteObservation, Actors
  <2>4. ReplayedTask(log') = Replayed(r, Boundary(step.observation))
    BY <1>0, <2>2, <2>3, ReplayedTaskAppend DEF r
  <2>5. Told(step', log') = Told(step, log)
    BY <2>1, <2>2, <2>4 DEF Told, r
  <2> QED BY <2>1, <2>5 DEF TaskIsTold
<1>7. CASE CancelResult
  <2>1. lost' = TRUE /\ step' = Idle
    BY <1>7 DEF CancelResult
  <2> QED BY <2>1 DEF TaskIsTold
<1>8. CASE Rename
  <2>1. PICK title \in Titles : Append_("ui", Renamed(title))
    BY <1>8 DEF Rename
  <2>2. Renamed(title) \in Event /\ Renamed(title).type # "task_boundary_observed" /\ "ui" \in Actors
    BY DEF Actors
  <2>3. ReplayedTask(log') = r /\ up' = up
    BY <1>b, <2>1, <2>2
  <2>4. UNCHANGED <<live.task, step, lost, streak>>
    BY <1>8 DEF Rename
  <2> QED BY <1>a, <2>3, <2>4
<1>9. ASSUME NEW a \in Actors, RecordCompaction(a)  PROVE TaskIsTold'
  <2> DEFINE e == Compacted(work[a].replaced)
  <2>1. work[a].replaced \in SUBSET Replacement
    <3>1. work[a].stage = "record" /\ work[a] \in Job
      BY <1>0, <1>9 DEF RecordCompaction
    <3> QED BY <3>1 DEF Job, Idle
  <2>2. e \in Event /\ Append_(a, e) /\ e.type # "task_boundary_observed"
    BY <1>9, <2>1 DEF RecordCompaction
  <2> HIDE DEF e
  <2>3. ReplayedTask(log') = r /\ up' = up
    BY <1>b, <2>2
  <2>4. UNCHANGED <<live.task, step, lost, streak>>
    BY <1>9 DEF RecordCompaction
  <2> QED BY <1>a, <2>3, <2>4
<1>10. CASE Resume
  <2>1. live'.task = r /\ log' = log /\ up' = TRUE /\ up = FALSE /\ UNCHANGED <<step, lost, streak>>
    BY <1>0, <1>10 DEF Resume, log, Resumed, r, history
  <2>2. step = Idle
    BY <2>1 DEF TaskIsTold
  <2>3. Told(step', log') = r
    BY <2>1, <2>2 DEF Told, r
  <2>4. ASSUME lost = FALSE  PROVE Counts(r, streak)
    <3>1. Settled(live.task) = Settled(r) /\ Counts(live.task, streak)
      BY <2>2, <2>4 DEF TaskIsTold, Told, r
    <3> QED BY <1>0, <3>1, SettledFields DEF Counts
  <2> QED BY <2>1, <2>2, <2>3, <2>4 DEF TaskIsTold
<1>11. CASE Crash
  <2>1. UNCHANGED <<live, streak>> /\ step' = Idle /\ lost' = (lost \/ step # Idle)
    BY <1>11 DEF Crash
  <2>2. log' = log
    <3>1. Silent
      BY <1>11 DEF Crash, Silent
    <3> QED BY <3>1, SilentEffect
  <2>3. lost' = FALSE => lost = FALSE /\ step = Idle
    BY <1>0, <2>1, Zenon
  <2> QED BY <2>1, <2>2, <2>3 DEF TaskIsTold
<1>12. ASSUME NEW a \in Actors, Newline(a)  PROVE TaskIsTold'
  <2>1. Silent /\ UNCHANGED <<live, step, up, lost, streak>>
    BY <1>12 DEF Newline, Silent, history
  <2>2. log' = log
    BY <2>1, SilentEffect
  <2> QED BY <1>a, <2>1, <2>2 DEF r
<1>13. ASSUME NEW a \in Actors, Compact(a) \/ Archive(a)  PROVE TaskIsTold'
  <2>1. UNCHANGED <<live, step, up, lost, streak, file>>
    BY <1>13 DEF Compact, Archive, history
  <2> QED BY <1>a, <2>1 DEF r, log
<1>14. CASE ShareHead \/ ShareEntries \/ RefuseResume
  <2>1. UNCHANGED <<live, step, up, lost, streak, file>>
    BY <1>14 DEF ShareHead, ShareEntries, RefuseResume, history
  <2> QED BY <1>a, <2>1 DEF r, log
<1>15. CASE UNCHANGED vars
  <2>1. UNCHANGED <<live, step, up, lost, streak, file>>
    BY <1>15 DEF vars, history
  <2> QED BY <1>a, <2>1 DEF r, log
<1> QED BY <1>1, <1>2, <1>3, <1>4, <1>5, <1>6, <1>7, <1>8, <1>9, <1>10, <1>11, <1>12, <1>13, <1>14, <1>15
        DEF Next, Turn, Ui, Work
-----------------------------------------------------------------------------
(* What a step does to the file, to what is read of it and to archives.    *)
StepKind ==
  \/ \E a \in Actors, e \in Event : Append_(a, e) /\ e.type # "compaction_completed" /\ UNCHANGED work
  \/ \E a \in Actors : RecordCompaction(a)
  \/ \E a \in Actors : Compact(a) \/ Archive(a)
  \/ UNCHANGED <<file, read, writing, torn, raced, work, archives>>
  \/ \E a \in Actors : Newline(a)
  \/ Crash
  \/ Resume \/ RefuseResume

(* Every step is one of these.                                             *)
LEMMA StepKinds ==
  ASSUME TypeOK, [Next]_vars
  PROVE  StepKind
<1> USE EventTypes, EventKinds
<1>0. live.task.active \in Nat /\ "turn" \in Actors /\ "ui" \in Actors
  BY DEF TypeOK, Live, TaskState, Actors
<1>a. ASSUME NEW a \in Actors, NEW e \in Event, Append_(a, e), e.type # "compaction_completed", UNCHANGED work
      PROVE  StepKind
  BY <1>a DEF StepKind
<1>1. CASE Ask
  <2>1. UserMessage(live.task.active) \in Event /\ Append_("turn", UserMessage(live.task.active)) /\ UNCHANGED work
    BY <1>0, <1>1 DEF Ask
  <2>2. UserMessage(live.task.active).type # "compaction_completed"
    OBVIOUS
  <2> QED BY <1>0, <1>a, <2>1, <2>2
<1>2. CASE PrepareSkills
  <2>1. CASE Append_("turn", SkillLoaded)
    <3>1. SkillLoaded \in Event /\ SkillLoaded.type # "compaction_completed"
      OBVIOUS
    <3> QED BY <1>0, <1>2, <1>a, <2>1, <3>1 DEF PrepareSkills
  <2>2. CASE UNCHANGED <<scene, file, writing, up, archives, read, crashes, torn, raced>>
    BY <1>2, <2>2 DEF StepKind, PrepareSkills
  <2> QED BY <1>2, <2>1, <2>2 DEF PrepareSkills
<1>3. CASE Answer
  <2>1. PICK e \in Event : IsMessage(e) /\ Append_("turn", e)
    BY <1>3, AnswerEffect
  <2>2. e.type # "compaction_completed"
    BY <2>1 DEF IsMessage, MessageTypes
  <2> QED BY <1>0, <1>3, <1>a, <2>1, <2>2 DEF Answer
<1>4. CASE WriteResult
  <2>1. ToolResult(live.task.active) \in Event /\ Append_("turn", ToolResult(live.task.active)) /\ UNCHANGED work
    BY <1>0, <1>4 DEF WriteResult
  <2>2. ToolResult(live.task.active).type # "compaction_completed"
    OBVIOUS
  <2> QED BY <1>0, <1>a, <2>1, <2>2
<1>5. CASE WriteObservation
  <2>1. step.stage = "observation" /\ Append_("turn", Boundary(step.observation)) /\ UNCHANGED work
    BY <1>5 DEF WriteObservation
  <2>2. step.observation \in Observation
    BY <2>1 DEF TypeOK, Step, Idle
  <2>3. Boundary(step.observation) \in Event /\ Boundary(step.observation).type # "compaction_completed"
    BY <2>2
  <2> QED BY <1>0, <1>a, <2>1, <2>3
<1>6. CASE Rename
  <2>1. PICK title \in Titles : Append_("ui", Renamed(title))
    BY <1>6 DEF Rename
  <2>2. Renamed(title) \in Event /\ Renamed(title).type # "compaction_completed" /\ UNCHANGED work
    BY <1>6 DEF Rename
  <2> QED BY <1>0, <1>a, <2>1, <2>2
<1>7. CASE Observe \/ CancelResult \/ ShareHead \/ ShareEntries
  BY <1>7 DEF StepKind, Observe, CancelResult, ShareHead, ShareEntries, history
<1>8. CASE UNCHANGED vars
  BY <1>8 DEF StepKind, vars, history
<1>9. CASE Crash \/ Resume \/ RefuseResume \/ \E a \in Actors : Newline(a) \/ Compact(a) \/ Archive(a) \/ RecordCompaction(a)
  BY <1>9 DEF StepKind
<1> QED BY <1>1, <1>2, <1>3, <1>4, <1>5, <1>6, <1>7, <1>8, <1>9 DEF Next, Turn, Ui, Work

(* The end of a compaction appends what it has replaced.                   *)
LEMMA RecordEffect ==
  ASSUME TypeOK, NEW a \in Actors, RecordCompaction(a)
  PROVE  /\ work[a].stage = "record" /\ work[a] # Idle /\ work[a].replaced \in SUBSET Replacement
         /\ Compacted(work[a].replaced) \in Event /\ Append_(a, Compacted(work[a].replaced))
         /\ work' = [work EXCEPT ![a] = Idle]
<1>1. work[a].stage = "record" /\ work[a] \in Job /\ Append_(a, Compacted(work[a].replaced)) /\ work' = [work EXCEPT ![a] = Idle]
  BY DEF RecordCompaction, TypeOK
<1>2. work[a].replaced \in SUBSET Replacement /\ work[a] # Idle
  BY <1>1 DEF Job, Idle
<1>3. Compacted(work[a].replaced) \in Event
  BY <1>2, EventTypes
<1> QED BY <1>1, <1>2, <1>3

(* The log only grows, an event at a time.                                 *)
LEMMA LogGrows ==
  ASSUME TypeOK, [Next]_vars
  PROVE  log' = log \/ \E e \in Event : log' = Append(log, e)
<1>1. ASSUME NEW a \in Actors, NEW e \in Event, Append_(a, e)  PROVE log' = Append(log, e)
  BY <1>1, AppendEffect
<1>2. CASE UNCHANGED file
  BY <1>2 DEF log
<1>3. ASSUME Silent  PROVE log' = log
  BY <1>3, SilentEffect
<1>4. ASSUME NEW a \in Actors, Newline(a)  PROVE Silent
  BY <1>4 DEF Newline, Silent
<1>5. ASSUME Crash  PROVE Silent
  BY <1>5 DEF Crash, Silent
<1>6. ASSUME Resume \/ RefuseResume  PROVE UNCHANGED file
  BY <1>6 DEF Resume, RefuseResume
<1>7. ASSUME NEW a \in Actors, RecordCompaction(a)  PROVE \E e \in Event : Append_(a, e)
  BY <1>7, RecordEffect
<1>8. ASSUME NEW a \in Actors, Compact(a) \/ Archive(a)  PROVE UNCHANGED file
  BY <1>8 DEF Compact, Archive
<1> QED BY <1>1, <1>2, <1>3, <1>4, <1>5, <1>6, <1>7, <1>8, StepKinds DEF StepKind
-----------------------------------------------------------------------------
(* Whole lines.                                                            *)

Ends(f, w) == Len(f) > 0 /\ f[Len(f)].write = w
SomeoneWrites == \E a \in Actors : writing[a] = TRUE

(* One write call more: it may cut an event short, or glue one to an event *)
(* whose newline is missing.                                               *)
LEMMA ReadableAppend ==
  ASSUME NEW f \in Seq(Write), NEW c \in Write
  PROVE  Readable(Append(f, c)) <=>
           /\ Readable(f) /\ c.write # "cut"
           /\ Holds(c) => ~Ends(f, "json") /\ ~Ends(f, "cut")
<1> DEFINE more == Append(f, c)
           n    == Len(f)
<1>1. /\ DOMAIN more = 1..(n + 1) /\ DOMAIN f = 1..n /\ n \in Nat
      /\ more[n + 1] = c /\ \A i \in 1..n : more[i] = f[i]
  BY AppendProperties, LenProperties
<1> DEFINE Good(s, i) == s[i].write # "cut" /\ (Holds(s[i]) /\ i > 1 => s[i - 1].write \notin {"json", "cut"})
<1>2. Readable(f) <=> \A i \in 1..n : Good(f, i)
  BY <1>1 DEF Readable
<1>3. Readable(more) <=> \A i \in 1..(n + 1) : Good(more, i)
  <2> HIDE DEF more
  <2> QED BY <1>1 DEF Readable
<1>4. \A i \in 1..n : Good(more, i) <=> Good(f, i)
  <2> HIDE DEF more, n
  <2> TAKE i \in 1..n
  <2>1. more[i] = f[i] /\ (i > 1 => more[i - 1] = f[i - 1])
    BY <1>1
  <2> QED BY <2>1
<1>5. Good(more, n + 1) <=> c.write # "cut" /\ (Holds(c) => ~Ends(f, "json") /\ ~Ends(f, "cut"))
  <2>1. n + 1 > 1 <=> n > 0
    BY <1>1
  <2>2. (n + 1) - 1 = n
    BY <1>1
  <2>3. n > 0 => more[n] = f[n]
    <3>1. n > 0 => n \in 1..n
      BY <1>1
    <3> HIDE DEF more, n
    <3> QED BY <1>1, <3>1
  <2> HIDE DEF more
  <2> QED BY <1>1, <2>1, <2>2, <2>3 DEF Ends
<1> HIDE DEF Good, more, n
<1>6. \A i \in 1..(n + 1) : i \in 1..n \/ i = n + 1
  BY <1>1
<1>7. n + 1 \in 1..(n + 1) /\ 1..n \subseteq 1..(n + 1)
  BY <1>1
<1> QED BY <1>2, <1>3, <1>4, <1>5, <1>6, <1>7 DEF more

(* Without a torn or a raced append, only an event whose newline is being  *)
(* written stands without one.                                             *)
WritesAreWhole ==
  torn = FALSE /\ raced = FALSE =>
    /\ Readable(file) /\ ~Ends(file, "cut")
    /\ Ends(file, "json") => SomeoneWrites

LEMMA EndsAppend ==
  ASSUME NEW f \in Seq(Write), NEW c \in Write, NEW w
  PROVE  Ends(Append(f, c), w) <=> c.write = w
<1>1. Len(Append(f, c)) = Len(f) + 1 /\ Append(f, c)[Len(f) + 1] = c /\ Len(f) \in Nat
  BY AppendProperties, LenProperties
<1> QED BY <1>1 DEF Ends

LEMMA WholeByAppend ==
  ASSUME TypeOK, WritesAreWhole, NEW a \in Actors, NEW e \in Event, Append_(a, e)
  PROVE  WritesAreWhole'
<1> SUFFICES ASSUME torn' = FALSE, raced' = FALSE
             PROVE  /\ Readable(file') /\ ~Ends(file', "cut")
                    /\ Ends(file', "json") => SomeoneWrites'
  BY DEF WritesAreWhole
<1>1. torn = FALSE
  BY AppendEffect
<1>2. raced = FALSE /\ ~ \E b \in Actors \ {a} : writing[b]
  <2>1. raced' = (raced \/ \E b \in Actors \ {a} : writing[b])
    BY DEF Append_
  <2> QED BY <2>1, Zenon DEF TypeOK
<1>3. writing[a] = FALSE /\ \A b \in Actors : writing[b] \in BOOLEAN
  BY Zenon DEF Append_, TypeOK
<1>4. ~SomeoneWrites
  BY <1>2, <1>3, Zenon DEF SomeoneWrites
<1>5. Readable(file) /\ ~Ends(file, "cut") /\ ~Ends(file, "json")
  BY <1>1, <1>2, <1>4 DEF WritesAreWhole
<1>6. CASE file' = Append(file, [write |-> "line", event |-> e])
  <2> DEFINE c == [write |-> "line", event |-> e]
  <2>1. c \in Write /\ c.write = "line"
    BY DEF Write
  <2> HIDE DEF c
  <2>2. file \in Seq(Write) /\ file' = Append(file, c)
    BY <1>6 DEF TypeOK, c
  <2>3. Readable(file')
    BY <1>5, <2>1, <2>2, ReadableAppend
  <2>4. ~Ends(file', "cut") /\ ~Ends(file', "json")
    BY <2>1, <2>2, EndsAppend
  <2> QED BY <2>3, <2>4
<1>7. CASE /\ file' = Append(file, [write |-> "json", event |-> e])
           /\ writing' = [writing EXCEPT ![a] = TRUE]
  <2> DEFINE c == [write |-> "json", event |-> e]
  <2>1. c \in Write /\ c.write = "json"
    BY DEF Write
  <2> HIDE DEF c
  <2>2. file \in Seq(Write) /\ file' = Append(file, c)
    BY <1>7 DEF TypeOK, c
  <2>3. Readable(file')
    BY <1>5, <2>1, <2>2, ReadableAppend
  <2>4. ~Ends(file', "cut")
    BY <2>1, <2>2, EndsAppend
  <2>5. SomeoneWrites'
    <3>1. writing'[a] = TRUE
      BY <1>7 DEF TypeOK
    <3> QED BY <3>1 DEF SomeoneWrites
  <2> QED BY <2>3, <2>4, <2>5
<1> QED BY <1>6, <1>7 DEF Append_, Short

(* Every step keeps the lines whole.                                       *)
LEMMA WholeNext ==
  ASSUME TypeOK, WritesAreWhole, [Next]_vars
  PROVE  WritesAreWhole'
<1>1. ASSUME NEW a \in Actors, NEW e \in Event, Append_(a, e)  PROVE WritesAreWhole'
  BY <1>1, WholeByAppend
<1>a. ASSUME UNCHANGED <<file, writing, torn, raced>>  PROVE WritesAreWhole'
  BY <1>a DEF WritesAreWhole, SomeoneWrites
<1>2. ASSUME NEW a \in Actors, Newline(a)  PROVE WritesAreWhole'
  <2> DEFINE c == [write |-> "newline"]
  <2>1. c \in Write /\ c.write = "newline" /\ ~Holds(c)
    BY DEF Write, Holds
  <2> HIDE DEF c
  <2>2. file \in Seq(Write) /\ file' = Append(file, c) /\ UNCHANGED <<torn, raced>>
    BY <1>2 DEF TypeOK, c, Newline, history
  <2>3. Readable(file) => Readable(file')
    BY <2>1, <2>2, ReadableAppend
  <2>4. ~Ends(file', "cut") /\ ~Ends(file', "json")
    BY <2>1, <2>2, EndsAppend
  <2> QED BY <2>2, <2>3, <2>4 DEF WritesAreWhole
<1>3. CASE Crash
  <2> SUFFICES ASSUME torn' = FALSE, raced' = FALSE
               PROVE  /\ Readable(file') /\ ~Ends(file', "cut")
                      /\ Ends(file', "json") => SomeoneWrites'
    BY DEF WritesAreWhole
  <2>1. torn' = (torn \/ file' # file \/ \E a \in Actors : writing[a])
    BY <1>3 DEF Crash
  <2>2. torn = FALSE /\ file' = file /\ ~ \E a \in Actors : writing[a]
    BY <2>1, Zenon DEF TypeOK
  <2>3. ~SomeoneWrites
    BY <2>2, Zenon DEF SomeoneWrites
  <2>4. raced = FALSE
    BY <1>3 DEF Crash
  <2> QED BY <2>2, <2>3, <2>4 DEF WritesAreWhole
<1>4. CASE Resume \/ RefuseResume
  <2>1. UNCHANGED <<file, writing, torn, raced>>
    BY <1>4 DEF Resume, RefuseResume, history
  <2> QED BY <1>a, <2>1
<1>5. ASSUME NEW a \in Actors, RecordCompaction(a)  PROVE WritesAreWhole'
  BY <1>1, <1>5, RecordEffect
<1>6. ASSUME NEW a \in Actors, Compact(a) \/ Archive(a)  PROVE WritesAreWhole'
  <2>1. UNCHANGED <<file, writing, torn, raced>>
    BY <1>6 DEF Compact, Archive, history
  <2> QED BY <1>a, <2>1
<1> QED BY <1>1, <1>2, <1>3, <1>4, <1>5, <1>6, <1>a, StepKinds DEF StepKind
-----------------------------------------------------------------------------
(* A replacement names a part, and of a tool result it is an archive.      *)
Sound(r, l) == r.part \in Parts(l) /\ (Kind(l, r.part) = "tool_result" => r.state = "archived")
OnDisk(r, kept) == r.state = "archived" => r.archive \in kept

Replaces(l, kept) ==
  \A i \in DOMAIN l : l[i].type = "compaction_completed" => \A r \in l[i].replaced : Sound(r, l) /\ OnDisk(r, kept)
WillReplace(job, l, kept) ==
  job # Idle => \A r \in job.replaced : Sound(r, l) /\ (job.stage = "record" => OnDisk(r, kept))
ReplacedAreArchived == Replaces(log, archives) /\ \A a \in Actors : WillReplace(work[a], log, archives)

LEMMA SoundAppend ==
  ASSUME NEW l \in Seq(Event), NEW e \in Event, NEW r, Sound(r, l)
  PROVE  Sound(r, Append(l, e))
<1>1. r.part \in Parts(l)
  BY DEF Sound
<1>2. r.part \in Parts(Append(l, e)) /\ Kind(Append(l, e), r.part) = Kind(l, r.part)
  BY <1>1, PartsAppend
<1> QED BY <1>1, <1>2 DEF Sound

(* Replacements that were sound stay so when the log grows.                *)
LEMMA ReplacesAppend ==
  ASSUME NEW l \in Seq(Event), NEW e \in Event, NEW kept, Replaces(l, kept),
         e.type = "compaction_completed" => \A r \in e.replaced : Sound(r, l) /\ OnDisk(r, kept)
  PROVE  Replaces(Append(l, e), kept)
<1> DEFINE more == Append(l, e)
<1>1. /\ DOMAIN more = 1..(Len(l) + 1) /\ DOMAIN l = 1..Len(l) /\ Len(l) \in Nat
      /\ more[Len(l) + 1] = e /\ \A i \in 1..Len(l) : more[i] = l[i]
  BY LogAppend, LenProperties
<1>2. \A r : Sound(r, l) => Sound(r, more)
  BY SoundAppend
<1> HIDE DEF more
<1> SUFFICES ASSUME NEW i \in DOMAIN more, more[i].type = "compaction_completed", NEW r \in more[i].replaced
             PROVE  Sound(r, more) /\ OnDisk(r, kept)
  BY DEF Replaces, more
<1>3. CASE i \in 1..Len(l)
  <2>1. Sound(r, l) /\ OnDisk(r, kept)
    BY <1>1, <1>3 DEF Replaces
  <2> QED BY <1>2, <2>1
<1>4. CASE i = Len(l) + 1
  <2>1. Sound(r, l) /\ OnDisk(r, kept)
    BY <1>1, <1>4
  <2> QED BY <1>2, <2>1
<1> QED BY <1>1, <1>3, <1>4

LEMMA WillReplaceAppend ==
  ASSUME NEW l \in Seq(Event), NEW e \in Event, NEW kept, NEW job, WillReplace(job, l, kept)
  PROVE  WillReplace(job, Append(l, e), kept)
BY SoundAppend DEF WillReplace

(* What a compaction is about to record.                                   *)
LEMMA CompactEffect ==
  ASSUME TypeOK, NEW a \in Actors, Compact(a)
  PROVE  \E new : /\ work' = [work EXCEPT ![a] = [stage |-> "archive", replaced |-> new]]
                  /\ \A r \in new : Sound(r, log)
<1> DEFINE old == Old(log, live.task.active)
           Micro(T) == {[part |-> p, state |-> "micro_compacted"] : p \in T \cap old}
           Route(T, R, P) == {[part |-> p, state |-> "route_compacted"] : p \in (T \cup R) \cap (P \ old)}
           Kept(R, P) == {[part |-> p, state |-> "archived", archive |-> <<a, p>>] : p \in R \ P}
<1>1. PICK forced \in BOOLEAN, texts \in SUBSET TextParts(log), results \in SUBSET LargeResults(log) :
        work' = [work EXCEPT ![a] = [stage |-> "archive", replaced |->
          Micro(texts) \cup Route(texts, results, Routable(log, live.task.active, forced))
            \cup Kept(results, Routable(log, live.task.active, forced))]]
  BY DEF Compact
<1> DEFINE route == Routable(log, live.task.active, forced)
           new == Micro(texts) \cup Route(texts, results, route) \cup Kept(results, route)
<1>2. \A p \in old \cup route : p \in Parts(log) /\ Kind(log, p) = "text"
  BY DEF Old, Routable, TextParts, RawParts
<1>3. \A p \in results : p \in Parts(log)
  BY DEF LargeResults, RawParts
<1> HIDE DEF old, route
<1>4. ASSUME NEW p \in old  PROVE Sound([part |-> p, state |-> "micro_compacted"], log)
  BY <1>2, <1>4 DEF Sound
<1>5. ASSUME NEW p \in route  PROVE Sound([part |-> p, state |-> "route_compacted"], log)
  BY <1>2, <1>5 DEF Sound
<1>6. ASSUME NEW p \in results  PROVE Sound([part |-> p, state |-> "archived", archive |-> <<a, p>>], log)
  BY <1>3, <1>6 DEF Sound
<1> HIDE DEF Micro, Route, Kept
<1>7. ASSUME NEW r \in Micro(texts)  PROVE Sound(r, log)
  BY <1>4, <1>7 DEF Micro
<1>8. ASSUME NEW r \in Route(texts, results, route)  PROVE Sound(r, log)
  BY <1>5, <1>8 DEF Route
<1>9. ASSUME NEW r \in Kept(results, route)  PROVE Sound(r, log)
  BY <1>6, <1>9 DEF Kept
<1>10. \A r \in new : Sound(r, log)
  BY <1>7, <1>8, <1>9
<1>11. work' = [work EXCEPT ![a] = [stage |-> "archive", replaced |-> new]]
  BY <1>1 DEF route
<1> HIDE DEF new
<1> QED BY <1>10, <1>11

(* Every step keeps replacements sound, and archives before the event that *)
(* names them.                                                             *)
LEMMA ArchivedNext ==
  ASSUME TypeOK, ReplacedAreArchived, [Next]_vars
  PROVE  ReplacedAreArchived'
<1>0. log \in Seq(Event) /\ work \in [Actors -> Job]
  BY LogType DEF TypeOK
<1>1. ASSUME NEW a \in Actors, NEW e \in Event, Append_(a, e),
             e.type = "compaction_completed" => \A r \in e.replaced : Sound(r, log) /\ OnDisk(r, archives),
             work' = work \/ work' = [work EXCEPT ![a] = Idle]
      PROVE  ReplacedAreArchived'
  <2>1. log' = Append(log, e) /\ archives' = archives
    BY <1>1, AppendEffect
  <2>2. Replaces(log', archives')
    BY <1>0, <1>1, <2>1, ReplacesAppend DEF ReplacedAreArchived
  <2>3. ASSUME NEW b \in Actors  PROVE WillReplace(work'[b], log', archives')
    <3>1. CASE work'[b] = work[b]
      BY <1>0, <2>1, <3>1, WillReplaceAppend DEF ReplacedAreArchived
    <3>2. CASE work'[b] = Idle
      BY <3>2 DEF WillReplace
    <3> QED BY <1>0, <1>1, <3>1, <3>2
  <2> QED BY <2>2, <2>3 DEF ReplacedAreArchived
<1>2. ASSUME NEW a \in Actors, RecordCompaction(a)  PROVE ReplacedAreArchived'
  <2> DEFINE e == Compacted(work[a].replaced)
  <2>1. e \in Event /\ Append_(a, e) /\ work[a].stage = "record" /\ work[a] # Idle /\ work' = [work EXCEPT ![a] = Idle]
    BY <1>2, RecordEffect
  <2>2. \A r \in work[a].replaced : Sound(r, log) /\ OnDisk(r, archives)
    BY <2>1 DEF ReplacedAreArchived, WillReplace
  <2>3. e.replaced = work[a].replaced
    BY EventKinds
  <2> HIDE DEF e
  <2> QED BY <1>1, <2>1, <2>2, <2>3
<1>3. ASSUME NEW a \in Actors, Compact(a)  PROVE ReplacedAreArchived'
  <2>1. PICK new : /\ work' = [work EXCEPT ![a] = [stage |-> "archive", replaced |-> new]]
                   /\ \A r \in new : Sound(r, log)
    BY <1>3, CompactEffect
  <2>2. log' = log /\ archives' = archives
    BY <1>3 DEF Compact, log
  <2>3. WillReplace([stage |-> "archive", replaced |-> new], log, archives)
    BY <2>1 DEF WillReplace
  <2>4. \A b \in Actors : WillReplace(work'[b], log, archives)
    <3> TAKE b \in Actors
    <3>1. work'[b] = work[b] \/ work'[b] = [stage |-> "archive", replaced |-> new]
      BY <1>0, <2>1
    <3> QED BY <2>3, <3>1 DEF ReplacedAreArchived
  <2> QED BY <2>2, <2>4 DEF ReplacedAreArchived
<1>4. ASSUME NEW a \in Actors, Archive(a)  PROVE ReplacedAreArchived'
  <2> DEFINE job == work[a]
  <2>1. /\ job.stage = "archive" /\ work' = [work EXCEPT ![a] = [job EXCEPT !.stage = "record"]]
        /\ archives' = archives \cup {r.archive : r \in {x \in job.replaced : x.state = "archived"}}
        /\ log' = log
    BY <1>4 DEF Archive, log
  <2>2. job \in [stage : {"archive", "record"}, replaced : SUBSET Replacement]
    BY <1>0, <2>1 DEF Job, Idle
  <2> DEFINE done == [job EXCEPT !.stage = "record"]
  <2>3. done.replaced = job.replaced /\ job # Idle
    BY <2>1, <2>2 DEF Idle
  <2>4. \A r \in job.replaced : Sound(r, log) /\ OnDisk(r, archives')
    BY <2>1, <2>3 DEF ReplacedAreArchived, WillReplace, OnDisk
  <2>5. WillReplace(done, log, archives')
    BY <2>3, <2>4 DEF WillReplace
  <2>6. archives \subseteq archives'
    BY <2>1
  <2>7. Replaces(log, archives')
    BY <2>6 DEF ReplacedAreArchived, Replaces, OnDisk
  <2> HIDE DEF done, job
  <2>8. \A b \in Actors : WillReplace(work'[b], log, archives')
    <3> TAKE b \in Actors
    <3>1. work'[b] = work[b] \/ work'[b] = done
      BY <1>0, <2>1 DEF done
    <3>2. WillReplace(work[b], log, archives')
      BY <2>6 DEF ReplacedAreArchived, WillReplace, OnDisk
    <3> QED BY <2>5, <3>1, <3>2
  <2> QED BY <2>1, <2>7, <2>8 DEF ReplacedAreArchived
<1>a. ASSUME log' = log, UNCHANGED archives, work' = work \/ work' = [b \in Actors |-> Idle]  PROVE ReplacedAreArchived'
  <2>1. \A b \in Actors : WillReplace(work'[b], log, archives)
    <3> TAKE b \in Actors
    <3>1. work'[b] = work[b] \/ work'[b] = Idle
      BY <1>a
    <3> QED BY <3>1 DEF ReplacedAreArchived, WillReplace
  <2> QED BY <1>a, <2>1 DEF ReplacedAreArchived
<1>5. CASE UNCHANGED <<file, read, writing, torn, raced, work, archives>>
  BY <1>5, <1>a DEF log
<1>6. ASSUME NEW a \in Actors, Newline(a)  PROVE ReplacedAreArchived'
  <2>1. Silent /\ UNCHANGED <<work, archives>>
    BY <1>6 DEF Newline, Silent
  <2> QED BY <1>a, <2>1, SilentEffect
<1>7. CASE Crash
  <2>1. Silent /\ UNCHANGED archives /\ work' = [b \in Actors |-> Idle]
    BY <1>7 DEF Crash, Silent
  <2> QED BY <1>a, <2>1, SilentEffect
<1>8. CASE Resume \/ RefuseResume
  <2>1. UNCHANGED <<file, work, archives>>
    BY <1>8 DEF Resume, RefuseResume
  <2> QED BY <1>a, <2>1 DEF log
<1> QED BY <1>1, <1>2, <1>3, <1>4, <1>5, <1>6, <1>7, <1>8, StepKinds DEF StepKind

LEMMA ArchivedInit == Init => ReplacedAreArchived
<1> SUFFICES ASSUME Init  PROVE ReplacedAreArchived
  OBVIOUS
<1>1. log = <<Created>>
  BY LogAtInit
<1>2. Replaces(log, archives)
  <2>1. \A i \in DOMAIN log : log[i] = Created
    BY <1>1
  <2> QED BY <2>1 DEF Replaces, Created
<1>3. \A a \in Actors : WillReplace(work[a], log, archives)
  BY DEF Init, WillReplace
<1> QED BY <1>2, <1>3 DEF ReplacedAreArchived

(* A part that is not raw has a sound replacement.                         *)
LEMMA ArchivedOriginals ==
  ASSUME TypeOK, ReplacedAreArchived
  PROVE  OriginalsAreKept
<1> SUFFICES ASSUME NEW p \in Parts(log), Kind(log, p) = "tool_result", PartState(log, p) # "raw"
             PROVE  \E i \in DOMAIN log : log[i].type = "compaction_completed"
                      /\ \E r \in log[i].replaced : r.part = p /\ r.state = "archived" /\ r.archive \in archives
  BY DEF OriginalsAreKept
<1>1. PICK i \in DOMAIN log : log[i].type = "compaction_completed" /\ \E r \in log[i].replaced : r.part = p
  BY DEF PartState
<1>2. PICK r \in log[i].replaced : r.part = p
  BY <1>1
<1>3. Sound(r, log) /\ OnDisk(r, archives)
  BY <1>1 DEF ReplacedAreArchived, Replaces
<1> QED BY <1>1, <1>2, <1>3 DEF Sound, OnDisk
-----------------------------------------------------------------------------
(* Transcripts.                                                            *)

(* An export counts no more messages than the log holds, and shows all     *)
(* parts of the first ones.                                                *)
Promised(n, l) == n \in Nat /\ n <= Cardinality(Messages(l))
ShareIsWhole ==
  /\ share.stage \in {"entries", "done"} => Promised(share.record.messages, log)
  /\ share.stage = "done" => Whole(share.entries, log, share.record.messages)

(* What the catalog counts in a file.                                      *)
LEMMA RecordOf ==
  ASSUME NEW f, CatalogRecord(f).status = "ok"
  PROVE  /\ Readable(f)
         /\ CatalogRecord(f).messages = Cardinality(Messages(Events(f)))
         /\ CatalogRecord(f).turns = CountOf(Events(f), "user_message")
BY DEF CatalogRecord, Counted

(* A log that grows keeps the promise, and what was shown of it.           *)
LEMMA ShareByLog ==
  ASSUME TypeOK, ShareIsWhole, [Next]_vars, UNCHANGED share
  PROVE  ShareIsWhole'
<1> DEFINE n == share.record.messages
<1>0. log \in Seq(Event) /\ Cardinality(Messages(log)) \in Nat
  BY LogType, MessagesFinite
<1>1. PICK l : l = log'
  OBVIOUS
<1>2. l = log \/ \E e \in Event : l = Append(log, e)
  BY <1>1, LogGrows
<1>3. ASSUME Promised(n, log)  PROVE Promised(n, l)
  <2>1. CASE l = log
    BY <1>3, <2>1
  <2>2. ASSUME NEW e \in Event, l = Append(log, e)  PROVE Promised(n, l)
    <3>1. Cardinality(Messages(log)) <= Cardinality(Messages(l)) /\ Cardinality(Messages(l)) \in Nat
      BY <1>0, <2>2, MessagesGrow, LogAppend, MessagesFinite
    <3> HIDE DEF n
    <3> QED BY <1>0, <1>3, <3>1 DEF Promised
  <2> QED BY <1>2, <2>1, <2>2
<1>4. ASSUME Promised(n, log), Whole(share.entries, log, n)  PROVE Whole(share.entries, l, n)
  <2>1. CASE l = log
    BY <1>4, <2>1
  <2>2. ASSUME NEW e \in Event, l = Append(log, e)  PROVE Whole(share.entries, l, n)
    <3>1. n \in Nat /\ n <= Cardinality(Messages(log))
      BY <1>4 DEF Promised
    <3> HIDE DEF n
    <3> QED BY <1>0, <1>4, <2>2, <3>1, WholeAppend
  <2> QED BY <1>2, <2>1, <2>2
<1>5. /\ share.stage \in {"entries", "done"} => Promised(n, l)
      /\ share.stage = "done" => Whole(share.entries, l, n)
  BY <1>3, <1>4 DEF ShareIsWhole
<1> QED BY <1>1, <1>5 DEF ShareIsWhole

(* Every step keeps the promise: the log does not lose messages.           *)
LEMMA ShareNext ==
  ASSUME TypeOK, ShareIsWhole, [Next]_vars
  PROVE  ShareIsWhole'
<1>0. log \in Seq(Event) /\ Cardinality(Messages(log)) \in Nat
  BY LogType, MessagesFinite
<1>1. CASE UNCHANGED share
  BY <1>1, ShareByLog
<1>2. CASE ShareHead
  <2>1. log' = log
    BY <1>2 DEF ShareHead, log
  <2>2. CASE share' = [stage |-> "refused"]
    BY <2>2 DEF ShareIsWhole
  <2>3. CASE CatalogRecord(file).status = "ok" /\ share' = [stage |-> "entries", record |-> CatalogRecord(file)]
    <3>1. share'.record.messages = Cardinality(Messages(log)) /\ share'.stage = "entries"
      BY <2>3, RecordOf DEF log
    <3>2. Promised(share'.record.messages, log)
      BY <1>0, <3>1 DEF Promised
    <3> QED BY <2>1, <3>1, <3>2 DEF ShareIsWhole
  <2> QED BY <1>2, <2>2, <2>3 DEF ShareHead
<1>3. CASE ShareEntries
  <2>0. log' = log
    BY <1>3 DEF ShareEntries, log
  <2>1. CASE share' = [stage |-> "refused"]
    BY <2>1 DEF ShareIsWhole
  <2>2. CASE share' = [stage |-> "done", record |-> share.record, entries |-> Transcript(log)]
    <3>1. Promised(share.record.messages, log)
      BY <1>3 DEF ShareEntries, ShareIsWhole
    <3>2. Whole(Transcript(log), log, share.record.messages)
      BY <1>0, TranscriptWhole
    <3>3. share'.stage = "done" /\ share'.record = share.record /\ share'.entries = Transcript(log)
      BY <2>2
    <3> QED BY <2>0, <3>1, <3>2, <3>3 DEF ShareIsWhole
  <2> QED BY <1>3, <2>1, <2>2 DEF ShareEntries
<1>4. CASE Crash
  <2>1. share' = Idle \/ share' = share
    BY <1>4 DEF Crash
  <2>2. CASE share' = Idle
    BY <2>2 DEF ShareIsWhole, Idle
  <2> QED BY <1>1, <2>1, <2>2
<1>5. CASE Turn \/ Rename \/ Resume \/ RefuseResume \/ UNCHANGED vars
  <2>1. UNCHANGED share
    BY <1>5 DEF Turn, Ask, PrepareSkills, Answer, Observe, WriteResult, WriteObservation, CancelResult,
                Rename, Resume, RefuseResume, vars
  <2> QED BY <1>1, <2>1
<1>6. ASSUME NEW a \in Actors, Work(a)  PROVE UNCHANGED share
  BY <1>6 DEF Work, Newline, Compact, Archive, RecordCompaction
<1> QED BY <1>1, <1>2, <1>3, <1>4, <1>5, <1>6 DEF Next, Ui
-----------------------------------------------------------------------------
(* The invariant holds at the start ...                                    *)
LEMMA WholeInit == Init => WritesAreWhole
<1> SUFFICES ASSUME Init  PROVE Readable(file) /\ ~Ends(file, "cut") /\ ~Ends(file, "json")
  BY DEF WritesAreWhole
<1> DEFINE first == [write |-> "line", event |-> Created]
<1>1. Len(file) = 1 /\ file[1].write = "line" /\ DOMAIN file = 1..1
  <2>1. file = <<first>>
    BY DEF Init
  <2>2. first.write = "line"
    OBVIOUS
  <2> HIDE DEF first
  <2> QED BY <2>1, <2>2
<1>2. \A i \in DOMAIN file : i = 1
  BY <1>1
<1> QED BY <1>1, <1>2 DEF Readable, Ends

LEMMA ShareInit == Init => ShareIsWhole
BY DEF Init, ShareIsWhole, Idle

(* The inductive invariant. What one reader of the file finds rests on     *)
(* what the others do: the task is told only if the counts agree on which  *)
(* message an observation names, and originals are found only because an   *)
(* archive is on disk before its event.                                    *)
IInv == TypeOK /\ Remembered /\ TaskIsTold /\ WritesAreWhole /\ ReplacedAreArchived /\ ShareIsWhole

(* ... and every step keeps it.                                            *)
LEMMA Invariance == Spec => []IInv
<1>1. Init => IInv
  BY InitType, RememberInit, TaskInit, WholeInit, ArchivedInit, ShareInit DEF IInv
<1>2. IInv /\ [Next]_vars => IInv'
  <2> SUFFICES ASSUME IInv, [Next]_vars  PROVE IInv'
    OBVIOUS
  <2>1. TypeOK /\ Remembered /\ TaskIsTold /\ WritesAreWhole /\ ReplacedAreArchived /\ ShareIsWhole
    BY DEF IInv
  <2>2. Remembered'
    BY <2>1, RememberNext
  <2>3. TaskIsTold'
    BY <2>1, TaskNext
  <2>4. WritesAreWhole'
    BY <2>1, WholeNext
  <2>5. ReplacedAreArchived'
    BY <2>1, ArchivedNext
  <2>6. ShareIsWhole'
    BY <2>1, ShareNext
  <2>7. TypeOK'
    <3>1. CASE UNCHANGED vars
      BY <2>1, <3>1 DEF vars, TypeOK
    <3>2. CASE Next
      BY <2>1, <3>2, TurnType, UiType, WorkType, CrashType, ResumeType DEF Next
    <3> QED BY <3>1, <3>2
  <2> QED BY <2>2, <2>3, <2>4, <2>5, <2>6, <2>7 DEF IInv
<1> QED BY <1>1, <1>2, PTL DEF Spec

-----------------------------------------------------------------------------
(* What the invariant says to a reader.                                    *)

(* A state known by its fields.                                            *)
LEMMA LiveKnown ==
  ASSUME NEW s \in Live, NEW r \in Live,
         Settled(s.task) = Settled(r.task), s.turn = r.turn, s.known = r.known, s.skills = r.skills
  PROVE  Known(s) = Known(r)
<1> DEFINE known(x) == [task |-> Settled(x.task), turn |-> x.turn, known |-> x.known, skills |-> x.skills, prepared |-> 0]
<1>1. ASSUME NEW x \in Live  PROVE Known(x) = known(x)
  <2> DEFINE y == [x EXCEPT !.prepared = 0]
             t == Settled(x.task)
  <2>1. y \in Live /\ y.task = x.task /\ y.turn = x.turn /\ y.known = x.known /\ y.skills = x.skills /\ y.prepared = 0
    BY DEF Live
  <2>2. Known(x) = [y EXCEPT !.task = t]
    BY DEF Known, Settled
  <2>3. y = [task |-> y.task, turn |-> y.turn, known |-> y.known, skills |-> y.skills, prepared |-> y.prepared]
    BY <2>1 DEF Live
  <2> HIDE DEF y, t
  <2>4. [y EXCEPT !.task = t] = [task |-> t, turn |-> y.turn, known |-> y.known, skills |-> y.skills, prepared |-> y.prepared]
    BY <2>3
  <2>5. Known(x) = [task |-> t, turn |-> x.turn, known |-> x.known, skills |-> x.skills, prepared |-> 0]
    BY <2>1, <2>2, <2>4
  <2> QED BY <2>5 DEF t
<1>2. known(s) = known(r)
  OBVIOUS
<1> HIDE DEF known
<1> QED BY <1>1, <1>2

(* A process that resumes finds the task, the counts and the messages.     *)
LEMMA ResumeFinds ==
  ASSUME IInv
  PROVE  ResumeKnows
<1> SUFFICES ASSUME up, step = Idle, ~lost  PROVE Known(live) = Known(Resumed(log))
  BY DEF ResumeKnows
<1>1. log \in Seq(Event) /\ live \in Live /\ Resumed(log) \in Live
  BY LogType, ResumedType DEF IInv, TypeOK
<1>2. Remembers(live, log)
  BY DEF IInv, Remembered
<1>3. Settled(live.task) = Settled(ReplayedTask(log))
  BY DEF IInv, TypeOK, TaskIsTold, Told
<1>4. /\ Resumed(log).task = ReplayedTask(log) /\ Resumed(log).turn = CountOf(log, "user_message")
      /\ Resumed(log).known = Messages(log) /\ Resumed(log).skills = CountOf(log, "skill_loaded")
  BY DEF Resumed
<1>5. /\ live.turn = CountOf(log, "user_message") /\ live.known = Messages(log)
      /\ live.skills = CountOf(log, "skill_loaded")
  BY <1>2 DEF Remembers
<1> HIDE DEF log
<1> QED BY <1>1, <1>3, <1>4, <1>5, LiveKnown

(* The session list finds the counts.                                      *)
LEMMA CatalogFinds ==
  ASSUME IInv
  PROVE  CatalogCounts
<1> SUFFICES ASSUME Readable(file)
             PROVE  CatalogRecord(file).status = "ok"
                    /\ CatalogRecord(file).messages = Cardinality(live.known) /\ CatalogRecord(file).turns = live.turn
  BY DEF CatalogCounts
<1>1. live.turn = CountOf(log, "user_message") /\ live.known = Messages(log) /\ Len(log) >= 1
  BY DEF IInv, Remembered, Remembers
<1>2. Events(file) # <<>>
  BY <1>1 DEF log
<1>3. CatalogRecord(file).status = "ok"
  BY <1>2 DEF CatalogRecord
<1> QED BY <1>1, <1>3, RecordOf DEF log

LEMMA TranscriptFinds ==
  ASSUME IInv
  PROVE  TranscriptIsWhole
BY DEF IInv, ShareIsWhole, TranscriptIsWhole, Whole, InOrder

LEMMA FileFinds ==
  ASSUME IInv
  PROVE  FileIsReadable
BY DEF IInv, TypeOK, WritesAreWhole, FileIsReadable

(* Whoever reads the file finds what the process knows: a process that     *)
(* resumes the session finds the task, the turn, the messages and skills,  *)
(* the session list counts the same messages and turns, a transcript shows *)
(* every part of the messages its session record counts, once and in       *)
(* order, and without a torn or a raced append the file can be read        *)
(* (AgentSession.resume, runtime_replay.py, catalog.py, transcript.py).    *)
THEOREM ReadersFindTheSession == Spec => []LiveIsReplayed
<1>1. IInv => LiveIsReplayed
  BY ResumeFinds, CatalogFinds, TranscriptFinds, FileFinds DEF LiveIsReplayed
<1> QED BY <1>1, Invariance, PTL

(* A tool result that compaction has replaced has its original on disk,    *)
(* however the actors' steps, crashes and restarts fall (compaction.py,    *)
(* archive.py).                                                            *)
THEOREM OriginalsOutliveReplacements == Spec => []OriginalsAreKept
<1>1. IInv => OriginalsAreKept
  BY ArchivedOriginals DEF IInv
<1> QED BY <1>1, Invariance, PTL

-----------------------------------------------------------------------------
(* Who changes the task.                                                   *)
(* An observation that switches the task ends a streak that is long        *)
(* enough.                                                                 *)
LEMMA ObserveSwitches ==
  ASSUME IInv, Observe
  PROVE  SwitchesOnRepeats
<1> SUFFICES ASSUME ~lost, live'.task.active # live.task.active
             PROVE  streak' = [basis |-> live'.task.active, count |-> streak'.count] /\ streak'.count >= scene.required
  BY DEF SwitchesOnRepeats
<1>1. /\ live \in Live /\ live.task \in TaskState /\ streak \in [basis : Nat, count : Nat] /\ scene \in Scenes
      /\ Counts(live.task, streak)
  BY DEF IInv, TypeOK, TaskIsTold, Live
<1>2. PICK decision \in {"same", "new", "uncertain"}, basis \in live.known :
        /\ live' = [live EXCEPT !.task = Observed(live.task, decision, basis)]
        /\ streak' = StreakAfter(streak, decision, basis)
  BY DEF Observe, StreakAfter
<1>3. basis \in Nat \ {0}
  <2>1. log \in Seq(Event) /\ live.known = Messages(log)
    BY LogType DEF IInv, Remembered, Remembers
  <2> QED BY <2>1, MessagesFinite
<1>4. live'.task = Observed(live.task, decision, basis)
  BY <1>1, <1>2 DEF Live
<1>5. /\ StreakAfter(streak, decision, basis).basis = Observed(live.task, decision, basis).active
      /\ StreakAfter(streak, decision, basis).count >= scene.required
  BY <1>1, <1>3, <1>4, CandidateCounts
<1>6. StreakAfter(streak, decision, basis) = [basis |-> StreakAfter(streak, decision, basis).basis,
                                              count |-> StreakAfter(streak, decision, basis).count]
  BY DEF StreakAfter
<1> QED BY <1>2, <1>4, <1>5, <1>6

(* No other step of a running process changes the task.                    *)
LEMMA OthersDoNotSwitch ==
  ASSUME IInv, [Next]_vars, ~Observe, up, up'
  PROVE  live'.task.active = live.task.active
<1>0. live \in Live
  BY DEF IInv, TypeOK
<1>1. CASE UNCHANGED live
  BY <1>1
<1>2. CASE Ask \/ Answer \/ PrepareSkills \/ WriteResult
  <2>1. live'.task = live.task
    BY <1>0, <1>2 DEF Ask, Answer, PrepareSkills, WriteResult, Live
  <2> QED BY <2>1
<1>3. CASE WriteObservation \/ CancelResult \/ Rename \/ ShareHead \/ ShareEntries \/ Crash \/ UNCHANGED vars
  <2>1. UNCHANGED live
    BY <1>3 DEF WriteObservation, CancelResult, Rename, ShareHead, ShareEntries, Crash, vars
  <2> QED BY <1>1, <2>1
<1>4. ASSUME NEW a \in Actors, Work(a)  PROVE UNCHANGED live
  BY <1>4 DEF Work, Newline, Compact, Archive, RecordCompaction
<1>5. CASE Resume \/ RefuseResume
  BY <1>5 DEF Resume, RefuseResume
<1> QED BY <1>1, <1>2, <1>3, <1>4, <1>5 DEF Next, Turn, Ui

(* The task changes only when the model has said "new" about one message   *)
(* as often in a row as required, across restarts as well: the streak a    *)
(* new process counts on from is the one its log replays                   *)
(* (task_boundary.py).                                                     *)
THEOREM TaskNeedsRepeats == Spec => SwitchNeedsRepeats
<1>1. IInv /\ [Next]_vars => [SwitchesOnRepeats]_vars
  <2> SUFFICES ASSUME IInv, [Next]_vars  PROVE SwitchesOnRepeats
    OBVIOUS
  <2>1. CASE Observe
    BY <2>1, ObserveSwitches
  <2>2. CASE ~Observe
    BY <2>2, OthersDoNotSwitch DEF SwitchesOnRepeats
  <2> QED BY <2>1, <2>2
<1> QED BY <1>1, Invariance, PTL DEF Spec, SwitchNeedsRepeats

-----------------------------------------------------------------------------
(* The abstract event log.                                                 *)
(* An append is one event more to a reader.                                *)
LEMMA GrowsOnAppend ==
  ASSUME IInv, NEW a \in Actors, NEW e \in Event, Append_(a, e)
  PROVE  Abstract!Grow
<1>1. file \in Seq(Write) /\ TypeOK /\ log \in Seq(Event)
  BY LogType DEF IInv, TypeOK
<1>2. log' = Append(log, e) /\ read' = <<>>
  BY <1>1, AppendEffect
<1>3. Len(log') = Len(log) + 1 /\ SubSeq(log', 1, Len(log)) = log
  <2> HIDE DEF log
  <2>1. \A l \in Seq(Event) : Len(Append(l, e)) = Len(l) + 1 /\ SubSeq(Append(l, e), 1, Len(l)) = l
    OBVIOUS
  <2> QED BY <1>1, <1>2, <2>1
<1>4. \E c \in Write : file' = Append(file, c)
  <2>1. \A w \in {"line", "json"} : [write |-> w, event |-> e] \in Write
    BY DEF Write
  <2> QED BY <2>1 DEF Append_, Short
<1>5. Readable(file') => Readable(file)
  BY <1>1, <1>4, ReadableAppend
<1>6. Readable(file') \in {Readable(file), FALSE}
  <2>1. Readable(file') \in BOOLEAN /\ Readable(file) \in BOOLEAN
    BY DEF Readable
  <2> QED BY <1>5, <2>1
<1> QED BY <1>2, <1>3, <1>6 DEF Abstract!Grow

(* A session starts with the event that creates it.                        *)
LEMMA EventLogInit == Init => Abstract!Init
<1> SUFFICES ASSUME Init  PROVE Abstract!Init
  OBVIOUS
<1>1. Len(log) = 1
  BY LogAtInit
<1>2. Readable(file) = TRUE
  <2>1. Readable(file)
    BY WholeInit DEF WritesAreWhole, Init
  <2> QED BY <2>1 DEF Readable
<1> QED BY <1>1, <1>2 DEF Abstract!Init, Init

(* Every step is one of the event log or changes nothing of it: the        *)
(* newline of a long event is not seen, a torn event damages the log.      *)
LEMMA EventLogNext ==
  ASSUME IInv, [Next]_vars
  PROVE  [Abstract!Next]_(Abstract!vars)
<1>0. TypeOK /\ file \in Seq(Write)
  BY DEF IInv, TypeOK
<1>a. ASSUME UNCHANGED <<file, read>>  PROVE UNCHANGED Abstract!vars
  BY <1>a DEF Abstract!vars, log
<1>1. ASSUME NEW a \in Actors, NEW e \in Event, Append_(a, e)  PROVE Abstract!Next
  BY <1>1, GrowsOnAppend DEF Abstract!Next
<1>2. ASSUME NEW a \in Actors, RecordCompaction(a)  PROVE Abstract!Next
  BY <1>0, <1>1, <1>2, RecordEffect
<1>3. ASSUME NEW a \in Actors, Compact(a) \/ Archive(a)  PROVE UNCHANGED Abstract!vars
  <2>1. UNCHANGED <<file, read>>
    BY <1>3 DEF Compact, Archive
  <2> QED BY <1>a, <2>1
<1>4. ASSUME NEW a \in Actors, Newline(a)  PROVE UNCHANGED Abstract!vars
  <2>1. file' = Append(file, [write |-> "newline"]) /\ UNCHANGED read
    BY <1>4 DEF Newline
  <2>2. log' = log
    BY <1>0, <2>1, NoEventEffect
  <2>3. [write |-> "newline"] \in Write /\ ~Holds([write |-> "newline"])
    BY DEF Write, Holds
  <2>4. Readable(file') <=> Readable(file)
    BY <1>0, <2>1, <2>3, ReadableAppend
  <2>5. Readable(file') = Readable(file)
    BY <2>4 DEF Readable
  <2> QED BY <2>1, <2>2, <2>5 DEF Abstract!vars
<1>5. CASE Crash
  <2>1. CASE UNCHANGED file
    <3>1. UNCHANGED <<file, read>>
      BY <1>5, <2>1 DEF Crash
    <3> QED BY <1>a, <3>1
  <2>2. CASE file' = Append(file, [write |-> "cut"])
    <3>1. log' = log /\ UNCHANGED read
      BY <1>0, <1>5, <2>2, NoEventEffect DEF Crash
    <3>2. [write |-> "cut"] \in Write
      BY DEF Write
    <3>3. ~Readable(file')
      BY <1>0, <2>2, <3>2, ReadableAppend
    <3>4. Readable(file') = FALSE
      BY <3>3 DEF Readable
    <3> QED BY <3>1, <3>4 DEF Abstract!Next, Abstract!Damage
  <2> QED BY <1>5, <2>1, <2>2 DEF Crash
<1>6. CASE Resume \/ RefuseResume
  <2>1. UNCHANGED file /\ read' = ListEvents(file)
    BY <1>6 DEF Resume, RefuseResume
  <2>2. ListEvents(file) = IF Readable(file) THEN log ELSE Corrupt
    BY DEF ListEvents, log
  <2> QED BY <2>1, <2>2 DEF Abstract!Next, Abstract!Read, log
<1>7. CASE UNCHANGED <<file, read, writing, torn, raced, work, archives>>
  BY <1>7, <1>a
<1> QED BY <1>0, <1>1, <1>2, <1>3, <1>4, <1>5, <1>6, <1>7, StepKinds DEF StepKind

(* The JSONL file is an event log: it only grows, and a reader gets all of *)
(* it in order or is told that it is damaged, never a part                 *)
(* (context/store.py, list_events).                                        *)
THEOREM FileIsAnEventLog == Spec => ImplementsEventLog
<1>1. Spec => Abstract!Init /\ [][Abstract!Next]_(Abstract!vars)
  <2>1. IInv /\ [Next]_vars => [Abstract!Next]_(Abstract!vars)
    BY EventLogNext
  <2> QED BY <2>1, EventLogInit, Invariance, PTL DEF Spec
<1> QED BY <1>1 DEF ImplementsEventLog, Abstract!Spec
=============================================================================
