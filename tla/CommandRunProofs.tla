-------------------------- MODULE CommandRunProofs --------------------------
(***************************************************************************)
(* CommandRun for every command, every way of running it and every size of *)
(* pipe, read and limit: a result is the truth about the command, and one  *)
(* that is neither an error nor truncated is complete.                     *)
(***************************************************************************)
EXTENDS CommandRunProperties, TLAPS

Stops  == {"interrupted", "timed out"}
Errors == {None, "arguments", "failed"} \cup Stops
Places == {"start", "wait", "terminate", "grace", "collect", "kill", "join", "done"}

Tags ==
  /\ scene \in Scenes /\ pc \in Places /\ root \in {"none", "running", "gone"}
  /\ reader \in {"none", "reading", "done"} /\ dropped \in BOOLEAN
  /\ signalled \in BOOLEAN /\ late \in BOOLEAN /\ cancelled \in BOOLEAN
  /\ error \in Errors

Amounts ==
  /\ rootLeft \in 0..scene.writes /\ helperLeft \in 0..scene.helperWrites
  /\ pipe \in Nat /\ buffer \in Nat /\ kept \in Nat

TypeOK == Tags /\ Amounts

(* What is known of the process at each place of the caller.               *)
Located ==
  /\ pc = "start" => root = "none" /\ reader = "none"
  /\ pc \in {"start", "wait"} => error = None /\ signalled = FALSE
  /\ pc \in {"wait", "terminate", "grace", "kill"} => root # "none"
  /\ pc \in {"terminate", "grace", "kill"} => error \in Stops
  /\ pc \in {"collect", "join"} => root = "gone"
  /\ pc \in {"terminate", "grace", "collect"} => scene.path = "token"
  /\ pc \in {"kill", "join"} => Bounded
  /\ pc = "done" => root # "running"

(* A command is signalled and stopped for a reason only, and a local one   *)
(* with all of its group.                                                  *)
Reasons ==
  /\ signalled = TRUE => error \in Stops
  /\ error = "timed out" => late = TRUE
  /\ error = "interrupted" => cancelled = TRUE
  /\ scene.path = "local" /\ signalled = TRUE => helper # "running"

(* The result is the truth about the state it was made in, which the       *)
(* programs that go on do not change.                                      *)
Settled ==
  IF pc # "done" THEN result = NoResult
  ELSE /\ result.error = error
       /\ result.ok => code = "zero" /\ error = None /\ root = "gone"
       /\ result.kept <= scene.limit

(* Nothing is lost on the way but what the draining thread throws away,    *)
(* and it is done only when nothing can follow.                            *)
Conserved ==
  /\ Bounded => kept <= scene.limit
  /\ ~Bounded => reader = "none"
  /\ reader = "none" => buffer = 0 /\ dropped = FALSE
  /\ reader = "done" => buffer = 0 /\ EOF
  /\ dropped = FALSE => Written = pipe + buffer + kept

IInv == TypeOK /\ Located /\ Reasons /\ Settled /\ Conserved
-----------------------------------------------------------------------------
LEMMA SceneType ==
  ASSUME NEW s \in Scenes
  PROVE  /\ s.limit \in Nat \ {0} /\ s.writes \in Nat /\ s.helperWrites \in Nat
         /\ s.path \in {"plain", "token", "local", "docker"}
         /\ s.refused \in {"no", "arguments", "failed"}
         /\ s.onTerm \in {"dies", "ignores", "exits"}
BY CommandAssumption

(* The ways a process is stopped leave it gone or signalled.               *)
LEMMA Stopping ==
  ASSUME TypeOK, root # "none", Terminated \/ Killed \/ GroupKilled
  PROVE  /\ root' \in {"running", "gone"} /\ signalled' \in BOOLEAN
         /\ UNCHANGED <<rootLeft, helperLeft>>
         /\ Killed \/ GroupKilled => root' = "gone"
         /\ GroupKilled => (~Contained => helper' # "running")
         /\ helper' = "running" => helper = "running"
         /\ root' = "running" => root = "running"
<1>1. CASE Terminated
  <2>1. scene.onTerm \in {"dies", "ignores", "exits"}  BY SceneType DEF TypeOK, Tags
  <2>2. root' \in {"running", "gone"} /\ (root' = "running" => root = "running")
    BY <1>1, <2>1 DEF Terminated, TypeOK, Tags
  <2>3. signalled' \in BOOLEAN /\ UNCHANGED <<helper, rootLeft, helperLeft>>
    BY <1>1 DEF Terminated, TypeOK, Tags
  <2>4. Killed \/ GroupKilled => root' = "gone"  BY DEF Killed, GroupKilled
  <2>5. GroupKilled => (~Contained => helper' # "running")  BY DEF GroupKilled, InGroup
  <2> QED BY <2>2, <2>3, <2>4, <2>5
<1>2. CASE Killed \/ GroupKilled  BY <1>2 DEF Killed, GroupKilled, InGroup
<1> QED BY <1>1, <1>2

LEMMA InitIInv == Init => IInv
<1> SUFFICES ASSUME Init PROVE IInv  OBVIOUS
<1>1. TypeOK
  <2>1. scene.writes \in Nat /\ scene.helperWrites \in Nat  BY SceneType DEF Init
  <2>2. Amounts  BY <2>1 DEF Init, Amounts
  <2>3. Tags  BY DEF Init, Tags, Places, Errors, Stops
  <2> QED BY <2>2, <2>3 DEF TypeOK
<1>2. Located /\ Reasons /\ Settled  BY DEF Init, Located, Reasons, Settled, Stops, None
<1>3. Conserved
  <2>1. scene.writes \in Nat /\ scene.helperWrites \in Nat /\ scene.limit \in Nat
    BY SceneType DEF Init
  <2> QED BY <2>1 DEF Init, Conserved, Written
<1> QED BY <1>1, <1>2, <1>3 DEF IInv
-----------------------------------------------------------------------------
LEMMA TagsSame ==
  ASSUME Tags, UNCHANGED <<scene, pc, root, reader, dropped, signalled, late, cancelled, error>>
  PROVE  Tags'
BY Zenon DEF Tags

LEMMA TagsStep == IInv /\ Next => Tags'
<1> SUFFICES ASSUME IInv, Next PROVE Tags'  OBVIOUS
<1> USE DEF IInv, TypeOK, Places, Errors, Stops
<1>1. CASE RefuseArguments \/ Refuse
  BY <1>1 DEF Tags, RefuseArguments, Refuse, Refusal, Returns, programs, draining, clock
<1>2. CASE Start  BY <1>2 DEF Tags, Start, clock
<1>3. CASE TimePasses \/ Cancel
  BY <1>3 DEF Tags, TimePasses, Cancel, programs, draining
<1>4. CASE Communicates  BY <1>4 DEF Tags, Communicates, programs, draining, clock
<1>5. CASE PlainEnds \/ Collects \/ Joins \/ JoinTimesOut
  BY <1>5 DEF Tags, PlainEnds, Collects, Joins, JoinTimesOut, Returns, programs, draining, clock
<1>6. CASE Polls \/ Waits
  BY <1>6 DEF Tags, Polls, Waits, programs, draining, clock
<1>7. ASSUME PlainTimesOut \/ Terminate \/ Grace \/ Kills PROVE Tags'
  <2>1. UNCHANGED programs \/ Terminated \/ Killed \/ GroupKilled
    BY <1>7 DEF PlainTimesOut, Terminate, Grace, Kills
  <2>2. root # "none"  BY <1>7 DEF PlainTimesOut, Terminate, Grace, Kills, Located
  <2>3. root' \in {"none", "running", "gone"} /\ signalled' \in BOOLEAN
    BY <2>1, <2>2, Stopping DEF programs, Tags
  <2>4. /\ UNCHANGED <<scene, reader, dropped, late, cancelled>>
        /\ pc' \in Places /\ error' \in Errors
    BY <1>7 DEF PlainTimesOut, Terminate, Grace, Kills, Returns, draining, clock, Tags
  <2> QED BY <2>3, <2>4 DEF Tags
<1>8. CASE Fills
  <2>1. UNCHANGED <<scene, pc, root, reader, dropped, signalled, late, cancelled, error>>
    BY <1>8 DEF Fills, programs, clock
  <2> QED BY <2>1, TagsSame
<1>9. CASE Drains
  <2>1. dropped' = (dropped \/ Cuts)  BY <1>9, Zenon DEF Drains
  <2>2. reader' \in {"none", "reading", "done"}  BY <1>9 DEF Drains
  <2>3. UNCHANGED <<scene, pc, root, signalled, late, cancelled, error>>
    BY <1>9 DEF Drains, programs, clock
  <2>4. dropped' \in BOOLEAN  BY <2>1
  <2> QED BY <2>2, <2>3, <2>4 DEF Tags
<1>10. CASE RootWrites \/ HelperWrites \/ RootEnds \/ HelperEnds
  BY <1>10 DEF Tags, RootWrites, HelperWrites, RootEnds, HelperEnds, draining, clock
<1> QED BY <1>1, <1>2, <1>3, <1>4, <1>5, <1>6, <1>7, <1>8, <1>9, <1>10
        DEF Next, Caller, Drainer, Root, Helper

LEMMA AmountsStep == IInv /\ Next => Amounts'
<1> SUFFICES ASSUME IInv, Next PROVE Amounts'  OBVIOUS
<1>1. Amounts /\ scene.writes \in Nat /\ scene.helperWrites \in Nat /\ scene.limit \in Nat
  BY SceneType DEF IInv, TypeOK, Tags
<1>2. CASE UNCHANGED <<scene, rootLeft, helperLeft, pipe, buffer, kept>>
  BY <1>1, <1>2 DEF Amounts
<1>3. CASE \/ RefuseArguments \/ Refuse \/ Start \/ TimePasses \/ Cancel \/ PlainEnds \/ Collects
           \/ Joins \/ JoinTimesOut \/ Polls \/ Waits \/ RootEnds \/ HelperEnds
  BY <1>2, <1>3 DEF RefuseArguments, Refuse, Refusal, Start, TimePasses, Cancel, PlainEnds, Collects,
     Joins, JoinTimesOut, Polls, Waits, RootEnds, HelperEnds, programs, draining
<1>4. ASSUME PlainTimesOut \/ Terminate \/ Grace \/ Kills PROVE Amounts'
  <2>1. UNCHANGED <<rootLeft, helperLeft>>
    BY <1>4 DEF PlainTimesOut, Terminate, Grace, Kills, Terminated, Killed, GroupKilled, programs
  <2>2. UNCHANGED <<scene, pipe, buffer, kept>>
    BY <1>4 DEF PlainTimesOut, Terminate, Grace, Kills, draining
  <2> QED BY <1>2, <2>1, <2>2
<1>5. CASE Communicates \/ Fills
  <2>1. /\ UNCHANGED <<scene, rootLeft, helperLeft>> /\ pipe > 0 /\ pipe' = pipe - 1
        /\ \/ kept' = kept + 1 /\ buffer' = buffer
           \/ kept' = kept /\ buffer' = buffer + 1
    BY <1>5 DEF Communicates, Fills, programs, draining
  <2> QED BY <1>1, <2>1 DEF Amounts
<1>6. CASE Drains
  <2>1. /\ UNCHANGED <<scene, rootLeft, helperLeft, pipe>> /\ buffer' = 0
        /\ kept' = kept + Least(buffer, Room)
    BY <1>6 DEF Drains, programs
  <2> QED BY <1>1, <2>1 DEF Amounts, Least, Room
<1>7. CASE RootWrites \/ HelperWrites
  <2>1. /\ UNCHANGED <<scene, buffer, kept>> /\ pipe' = pipe + 1
        /\ \/ rootLeft > 0 /\ rootLeft' = rootLeft - 1 /\ helperLeft' = helperLeft
           \/ helperLeft > 0 /\ helperLeft' = helperLeft - 1 /\ rootLeft' = rootLeft
    BY <1>7 DEF RootWrites, HelperWrites, draining
  <2> QED BY <1>1, <2>1 DEF Amounts
<1> QED BY <1>3, <1>4, <1>5, <1>6, <1>7 DEF Next, Caller, Drainer, Root, Helper

LEMMA LocatedStep == IInv /\ Next => Located'
<1> SUFFICES ASSUME IInv, Next PROVE Located'  OBVIOUS
<1> USE DEF IInv, Stops, Bounded, Contained
<1>1. CASE RefuseArguments \/ Refuse
  BY <1>1 DEF Located, RefuseArguments, Refuse, Refusal, Returns, programs, draining, clock
<1>2. CASE Start  BY <1>2 DEF Located, Start, clock
<1>3. CASE TimePasses \/ Cancel \/ Communicates
  BY <1>3 DEF Located, TimePasses, Cancel, Communicates, programs, draining
<1>4. CASE PlainEnds \/ Collects \/ Joins \/ JoinTimesOut
  BY <1>4 DEF Located, PlainEnds, Collects, Joins, JoinTimesOut, Returns, programs, draining, clock,
              EOF, Open, HoldsPipe
<1>5. CASE Polls \/ Waits
  BY <1>5 DEF Located, Polls, Waits, programs, draining, clock
<1>6. ASSUME PlainTimesOut \/ Terminate \/ Grace \/ Kills PROVE Located'
  <2>1. root # "none" /\ pc \in {"wait", "terminate", "grace", "kill"}
    BY <1>6 DEF PlainTimesOut, Terminate, Grace, Kills, Located
  <2>2. CASE PlainTimesOut
    <3>1. pc' = "done" /\ root' # "running"
      BY <2>1, <2>2, Stopping DEF PlainTimesOut, Returns, programs
    <3> QED BY <3>1 DEF Located
  <2>3. CASE Terminate
    <3>1. /\ pc' = "grace" /\ root' # "none" /\ UNCHANGED <<error, scene>>
          /\ pc = "terminate"
      BY <2>1, <2>3, Stopping DEF Terminate
    <3> QED BY <3>1 DEF Located
  <2>4. CASE Grace \/ Kills
    <3>1. root' = "gone"  BY <2>1, <2>4, Stopping DEF Grace, Kills, TypeOK, Tags, programs
    <3>2. \/ pc = "grace" /\ pc' = "collect"
          \/ pc = "kill" /\ pc' = "join"
      BY <2>4 DEF Grace, Kills
    <3>3. scene' = scene  BY <2>4 DEF Grace, Kills
    <3> QED BY <3>1, <3>2, <3>3 DEF Located
  <2> QED BY <1>6, <2>2, <2>3, <2>4
<1>7. CASE Fills \/ Drains
  BY <1>7 DEF Located, Fills, Drains, Reads, programs, clock
<1>8. CASE RootWrites \/ HelperWrites \/ RootEnds \/ HelperEnds
  BY <1>8 DEF Located, RootWrites, HelperWrites, RootEnds, HelperEnds, draining, clock
<1> QED BY <1>1, <1>2, <1>3, <1>4, <1>5, <1>6, <1>7, <1>8 DEF Next, Caller, Drainer, Root, Helper

LEMMA ReasonsStep == IInv /\ Next => Reasons'
<1> SUFFICES ASSUME IInv, Next PROVE Reasons'  OBVIOUS
<1> USE DEF IInv, Stops
<1>1. CASE RefuseArguments \/ Refuse \/ Start
  <2>1. signalled' = FALSE /\ error' \notin Stops
    BY <1>1 DEF Located, RefuseArguments, Refuse, Refusal, Start, programs, None
  <2> QED BY <2>1 DEF Reasons
<1>2. CASE TimePasses \/ Cancel
  BY <1>2 DEF Reasons, TimePasses, Cancel, programs
<1>3. CASE Communicates \/ PlainEnds \/ Collects \/ Joins \/ JoinTimesOut
  BY <1>3 DEF Reasons, Communicates, PlainEnds, Collects, Joins, JoinTimesOut, programs, clock
<1>4. CASE Polls \/ Waits
  BY <1>4 DEF Reasons, Located, Polls, Waits, programs, clock
<1>5. ASSUME PlainTimesOut \/ Terminate \/ Grace \/ Kills PROVE Reasons'
  <2>1. root # "none" /\ UNCHANGED <<late, cancelled, scene>>
    BY <1>5 DEF PlainTimesOut, Terminate, Grace, Kills, Located, clock
  <2>2. error' \in Stops /\ (error' = "timed out" => late) /\ (error' = "interrupted" => cancelled)
    BY <1>5 DEF PlainTimesOut, Terminate, Grace, Kills, Located, Reasons
  <2>3. CASE PlainTimesOut \/ Terminate \/ Grace
    <3>1. scene.path # "local"  BY <2>3 DEF PlainTimesOut, Terminate, Grace, Located
    <3> QED BY <2>1, <2>2, <3>1 DEF Reasons
  <2>4. CASE Kills
    <3>1. scene.path = "local" /\ signalled' => helper' # "running"
      BY <2>1, <2>4, Stopping DEF Kills, Reasons, programs, Contained
    <3> QED BY <2>1, <2>2, <3>1 DEF Reasons
  <2> QED BY <1>5, <2>3, <2>4
<1>6. CASE Fills \/ Drains  BY <1>6 DEF Reasons, Fills, Drains, programs, clock
<1>7. CASE RootWrites \/ HelperWrites \/ RootEnds \/ HelperEnds
  BY <1>7 DEF Reasons, RootWrites, HelperWrites, RootEnds, HelperEnds, clock
<1> QED BY <1>1, <1>2, <1>3, <1>4, <1>5, <1>6, <1>7 DEF Next, Caller, Drainer, Root, Helper

(* What a result is made of.                                               *)
LEMMA ResultFields ==
  ASSUME NEW why, NEW units, NEW more
  PROVE  LET r == Result(why, units, more) IN
         /\ r.error = why /\ r.kept = units /\ r.truncated = more
         /\ r.ok => code = "zero" /\ why = None
BY DEF Result, Ok

LEMMA SettledStep == IInv /\ Next => Settled'
<1> SUFFICES ASSUME IInv, Next PROVE Settled'  OBVIOUS
<1>0. scene.limit \in Nat  BY SceneType DEF IInv, TypeOK, Tags
<1> USE DEF IInv
<1>1. CASE RefuseArguments \/ Refuse
  <2>1. PICK why \in {"arguments", "failed"} :
          result' = Result(why, 0, FALSE) /\ error' = why /\ pc' = "done" /\ scene' = scene
    BY <1>1 DEF RefuseArguments, Refuse, Refusal, Returns
  <2>2. result'.error = error' /\ result'.kept = 0  BY <2>1 DEF Result
  <2>3. ~result'.ok  BY <2>1 DEF Result, Ok, None
  <2>4. result'.kept <= scene'.limit
    <3>1. scene' = scene  BY <2>1
    <3> QED BY <1>0, <2>2, <3>1
  <2> QED BY <2>1, <2>2, <2>3, <2>4 DEF Settled
<1>2. CASE pc # "done" /\ pc' # "done" /\ UNCHANGED result  BY <1>2 DEF Settled
<1>3. CASE PlainEnds \/ Collects
  <2>1. /\ result' = Result(error', Least(kept, scene.limit), kept > scene.limit)
        /\ pc' = "done" /\ UNCHANGED <<scene, root, code, error>>
    BY <1>3 DEF PlainEnds, Collects, Returns, Truncated, programs, Located
  <2>2. root = "gone"
    BY <1>3 DEF PlainEnds, Collects, EOF, Open, HoldsPipe, Located, TypeOK, Tags
  <2>3. Least(kept, scene.limit) <= scene.limit  BY <1>0 DEF Least, TypeOK, Amounts
  <2> QED BY <2>1, <2>2, <2>3, ResultFields DEF Settled
<1>4. CASE PlainTimesOut
  <2>1. /\ result' = [ok |-> FALSE, error |-> "timed out", kept |-> 0, truncated |-> FALSE]
        /\ pc' = "done" /\ error' = "timed out" /\ scene' = scene
    BY <1>4 DEF PlainTimesOut, Returns
  <2>2. ~result'.ok /\ result'.error = error'  BY <2>1
  <2>3. result'.kept = 0 /\ scene'.limit = scene.limit  BY <2>1
  <2>4. result'.kept <= scene'.limit  BY <1>0, <2>3
  <2> QED BY <2>1, <2>2, <2>4 DEF Settled
<1>5. CASE Joins \/ JoinTimesOut
  <2>1. /\ result' = Result(error', kept, dropped)
        /\ pc' = "done" /\ UNCHANGED <<scene, root, code, error>>
    BY <1>5 DEF Joins, JoinTimesOut, Returns, programs
  <2>2. root = "gone" /\ kept <= scene.limit
    BY <1>5 DEF Joins, JoinTimesOut, Located, Conserved
  <2> QED BY <2>1, <2>2, ResultFields DEF Settled
<1>6. CASE Start \/ Communicates \/ Polls \/ Terminate \/ Grace \/ Waits \/ Kills
  <2>1. pc # "done" /\ pc' # "done" /\ UNCHANGED result
    BY <1>6 DEF Start, Communicates, Polls, Terminate, Grace, Waits, Kills
  <2> QED BY <1>2, <2>1
<1>7. CASE TimePasses \/ Cancel \/ Fills \/ Drains \/ RootWrites \/ HelperWrites \/ HelperEnds
  BY <1>7 DEF Settled, TimePasses, Cancel, Fills, Drains, RootWrites, HelperWrites, HelperEnds, programs
<1>8. CASE RootEnds
  BY <1>8 DEF Settled, RootEnds, Located
<1> QED BY <1>1, <1>3, <1>4, <1>5, <1>6, <1>7, <1>8 DEF Next, Caller, Drainer, Root, Helper

(* Once nobody holds the pipe nobody will.                                 *)
LEMMA PipeStaysClosed ==
  ASSUME IInv, Next, ~Open, pc # "start" PROVE ~Open' /\ pipe' \in {pipe, pipe - 1}
<1> USE DEF IInv, Open, HoldsPipe, Contained
<1>1. CASE RefuseArguments \/ Refuse \/ Start
  BY <1>1 DEF RefuseArguments, Refuse, Refusal, Start
<1>2. CASE TimePasses \/ Cancel \/ PlainEnds \/ Collects \/ Joins \/ JoinTimesOut \/ Polls \/ Waits
  BY <1>2 DEF TimePasses, Cancel, PlainEnds, Collects, Joins, JoinTimesOut, Polls, Waits, programs
<1>3. CASE Communicates \/ Fills \/ Drains
  BY <1>3 DEF Communicates, Fills, Drains, programs
<1>4. ASSUME PlainTimesOut \/ Terminate \/ Grace \/ Kills PROVE ~Open' /\ pipe' = pipe
  <2>1. UNCHANGED programs \/ Terminated \/ Killed \/ GroupKilled
    BY <1>4 DEF PlainTimesOut, Terminate, Grace, Kills
  <2>2. root # "none" /\ UNCHANGED <<scene, pipe>>
    BY <1>4 DEF PlainTimesOut, Terminate, Grace, Kills, Located
  <2>3. (root' = "running" => root = "running") /\ (helper' = "running" => helper = "running")
    BY <2>1, <2>2, Stopping DEF programs
  <2> QED BY <2>2, <2>3
<1>5. CASE RootWrites \/ RootEnds \/ HelperWrites \/ HelperEnds
  BY <1>5 DEF RootWrites, RootEnds, HelperWrites, HelperEnds
<1> QED BY <1>1, <1>2, <1>3, <1>4, <1>5 DEF Next, Caller, Drainer, Root, Helper

(* The programs write into the pipe, the caller or its thread empties it.  *)
LEMMA ConservedStep == IInv /\ Next => Conserved'
<1> SUFFICES ASSUME IInv, Next PROVE Conserved'  OBVIOUS
<1>1. /\ Amounts /\ scene.writes \in Nat /\ scene.helperWrites \in Nat /\ scene.limit \in Nat
      /\ Conserved /\ Located
  BY SceneType DEF IInv, TypeOK, Tags
<1>2. scene' = scene
  BY DEF Next, Caller, Drainer, Root, Helper, RefuseArguments, Refuse, Refusal, Start, Communicates,
     PlainEnds, PlainTimesOut, Polls, Terminate, Grace, Collects, Waits, Kills, Joins, JoinTimesOut,
     Fills, Drains, RootWrites, RootEnds, HelperWrites, HelperEnds, TimePasses, Cancel
<1>3. Bounded' = Bounded  BY <1>2 DEF Bounded, Contained
<1>4. ASSUME UNCHANGED <<rootLeft, helperLeft, pipe, draining, kept>> PROVE Conserved'
  <2>1. UNCHANGED <<rootLeft, helperLeft, pipe, reader, buffer, dropped, kept>>  BY <1>4 DEF draining
  <2>2. Written' = Written  BY <1>2, <2>1 DEF Written
  <2>3. reader = "done" => EOF'
    <3> SUFFICES ASSUME reader = "done" PROVE EOF'  OBVIOUS
    <3>1. EOF /\ pc # "start"  BY <1>1 DEF Conserved, Located
    <3>2. ~Open'  BY <3>1, PipeStaysClosed DEF EOF
    <3> QED BY <2>1, <3>1, <3>2 DEF EOF
  <2> QED BY <1>1, <1>2, <1>3, <2>1, <2>2, <2>3 DEF Conserved
<1>5. CASE \/ RefuseArguments \/ Refuse \/ TimePasses \/ Cancel \/ PlainEnds \/ Collects
           \/ Joins \/ JoinTimesOut \/ Polls \/ Waits \/ RootEnds \/ HelperEnds
  BY <1>4, <1>5 DEF RefuseArguments, Refuse, Refusal, TimePasses, Cancel, PlainEnds, Collects,
     Joins, JoinTimesOut, Polls, Waits, RootEnds, HelperEnds, programs
<1>6. CASE PlainTimesOut \/ Terminate \/ Grace \/ Kills
  <2>1. UNCHANGED <<rootLeft, helperLeft>>
    BY <1>6 DEF PlainTimesOut, Terminate, Grace, Kills, Terminated, Killed, GroupKilled, programs
  <2>2. UNCHANGED <<pipe, draining, kept>>
    BY <1>6 DEF PlainTimesOut, Terminate, Grace, Kills
  <2> QED BY <1>4, <2>1, <2>2
<1>7. CASE Start
  <2>1. /\ UNCHANGED <<rootLeft, helperLeft, pipe, buffer, dropped, kept>> /\ reader = "none"
        /\ reader' = IF Bounded THEN "reading" ELSE "none"
    BY <1>1, <1>7 DEF Start, Located
  <2>2. Written' = Written  BY <1>2, <2>1 DEF Written
  <2>3. buffer = 0 /\ dropped = FALSE /\ Written = pipe + buffer + kept  BY <1>1, <2>1 DEF Conserved
  <2>4. Bounded => kept <= scene.limit  BY <1>1 DEF Conserved
  <2> QED BY <1>2, <1>3, <2>1, <2>2, <2>3, <2>4 DEF Conserved
<1>8. CASE Communicates
  <2>1. /\ UNCHANGED <<rootLeft, helperLeft, reader, buffer, dropped>> /\ ~Bounded
        /\ pipe > 0 /\ pipe' = pipe - 1 /\ kept' = kept + 1
    BY <1>1, <1>8 DEF Communicates, programs, draining, Located, Bounded, Contained
  <2>2. Written' = Written  BY <1>2, <2>1 DEF Written
  <2>3. reader = "none" /\ reader' = "none"  BY <1>1, <2>1 DEF Conserved
  <2>4. dropped = FALSE => Written = pipe + buffer + kept  BY <1>1 DEF Conserved
  <2>5. dropped' = FALSE => Written' = pipe' + buffer' + kept'
    BY <1>1, <2>1, <2>2, <2>4 DEF Amounts
  <2>6. buffer' = 0 /\ dropped' = FALSE  BY <1>1, <2>1, <2>3 DEF Conserved
  <2> QED BY <1>3, <2>1, <2>3, <2>5, <2>6 DEF Conserved
<1>9. CASE Fills
  <2>1. /\ UNCHANGED <<rootLeft, helperLeft, reader, dropped, kept>> /\ reader = "reading"
        /\ pipe > 0 /\ pipe' = pipe - 1 /\ buffer' = buffer + 1
    BY <1>9 DEF Fills, Reads, programs
  <2>2. Written' = Written  BY <1>2, <2>1 DEF Written
  <2>3. dropped = FALSE => Written = pipe + buffer + kept  BY <1>1 DEF Conserved
  <2>4. dropped' = FALSE => Written' = pipe' + buffer' + kept'
    BY <1>1, <2>1, <2>2, <2>3 DEF Amounts
  <2>5. Bounded /\ kept <= scene.limit  BY <1>1, <2>1 DEF Conserved
  <2> QED BY <1>2, <1>3, <2>1, <2>4, <2>5 DEF Conserved
<1>10. CASE Drains
  <2>1. /\ UNCHANGED <<rootLeft, helperLeft, pipe, root, helper>> /\ reader = "reading"
        /\ buffer' = 0 /\ kept' = kept + Least(buffer, Room)
        /\ buffer = ReadSize \/ EOF
        /\ reader' = IF buffer = 0 THEN "done" ELSE "reading"
    BY <1>10 DEF Drains, Reads, programs
  <2>2. dropped' = FALSE => dropped = FALSE /\ ~(buffer > Room)
    <3> SUFFICES ASSUME dropped' = FALSE PROVE dropped = FALSE /\ ~Cuts  BY DEF Cuts
    <3>1. dropped' = (dropped \/ Cuts) /\ dropped \in BOOLEAN
      BY <1>10 DEF Drains, IInv, TypeOK, Tags
    <3> QED BY <3>1
  <2>3. Written' = Written  BY <1>2, <2>1 DEF Written
  <2>4. Bounded /\ kept <= scene.limit  BY <1>1, <2>1 DEF Conserved
  <2>5. Room \in Nat /\ kept + Room = scene.limit  BY <1>1, <2>4 DEF Room, Amounts
  <2>6. Least(buffer, Room) \in Nat /\ Least(buffer, Room) <= Room
        /\ (~(buffer > Room) => Least(buffer, Room) = buffer)
    BY <1>1, <2>5 DEF Amounts, Least
  <2>7. kept' <= scene.limit  BY <1>1, <2>1, <2>5, <2>6 DEF Amounts
  <2>8. dropped = FALSE => Written = pipe + buffer + kept  BY <1>1 DEF Conserved
  <2>9. dropped' = FALSE => Written' = pipe' + buffer' + kept'
    BY <1>1, <2>1, <2>2, <2>3, <2>6, <2>8 DEF Amounts
  <2>10. reader' = "done" => EOF'
    BY <1>2, <2>1, CommandAssumption DEF EOF, Open, HoldsPipe, Contained
  <2>11. reader' # "none"  BY <2>1
  <2> QED BY <1>2, <1>3, <2>1, <2>4, <2>7, <2>9, <2>10, <2>11 DEF Conserved
<1>11. CASE RootWrites \/ HelperWrites
  <2>1. /\ UNCHANGED <<reader, buffer, dropped, kept>> /\ pipe' = pipe + 1
        /\ \/ rootLeft > 0 /\ rootLeft' = rootLeft - 1 /\ helperLeft' = helperLeft
           \/ helperLeft > 0 /\ helperLeft' = helperLeft - 1 /\ rootLeft' = rootLeft
    BY <1>11 DEF RootWrites, HelperWrites, draining
  <2>2. Written' = Written + 1 /\ Written \in Nat  BY <1>1, <1>2, <2>1 DEF Written, Amounts
  <2>3. dropped = FALSE => Written = pipe + buffer + kept  BY <1>1 DEF Conserved
  <2>4. dropped' = FALSE => Written' = pipe' + buffer' + kept'
    BY <1>1, <2>1, <2>2, <2>3 DEF Amounts
  <2>5. reader # "done"
    <3>1. Open
      BY <1>11 DEF RootWrites, HelperWrites, Open, HoldsPipe
    <3> QED BY <1>1, <3>1 DEF Conserved, EOF
  <2> QED BY <1>1, <1>2, <1>3, <2>1, <2>4, <2>5 DEF Conserved
<1> QED BY <1>5, <1>6, <1>7, <1>8, <1>9, <1>10, <1>11 DEF Next, Caller, Drainer, Root, Helper

LEMMA Stutter == IInv /\ UNCHANGED vars => IInv'
<1> SUFFICES ASSUME IInv, UNCHANGED vars PROVE IInv'  OBVIOUS
<1>1. UNCHANGED <<scene, pc, root, code, helper, rootLeft, helperLeft, signalled, pipe, reader,
                  buffer, dropped, kept, late, cancelled, error, result>>
  BY DEF vars, programs, draining, clock
<1>2. Tags' /\ Amounts'  BY <1>1 DEF IInv, TypeOK, Tags, Amounts
<1>3. Located' /\ Reasons'  BY <1>1 DEF IInv, Located, Reasons, Bounded, Contained
<1>4. Settled'  BY <1>1 DEF IInv, Settled
<1>5. Conserved'
  BY <1>1 DEF IInv, Conserved, Bounded, Contained, EOF, Open, HoldsPipe, Written
<1> QED BY <1>2, <1>3, <1>4, <1>5 DEF IInv, TypeOK

LEMMA Invariance == Spec => []IInv
<1>1. IInv /\ [Next]_vars => IInv'
  BY TagsStep, AmountsStep, LocatedStep, ReasonsStep, SettledStep, ConservedStep, Stutter
  DEF IInv, TypeOK
<1> QED BY <1>1, InitIInv, PTL DEF Spec
-----------------------------------------------------------------------------
(* Every variable keeps its type.                                          *)
THEOREM TypeCorrect == Spec => []TypeOK
BY Invariance, PTL DEF IInv

(* What a tool is told of a command is true, whatever the command did with *)
(* its signals, when the deadline came and who is still running.           *)
THEOREM ResultsAreHonest == Spec => []ResultIsHonest
<1>1. ASSUME IInv PROVE ResultIsHonest
  <2> SUFFICES ASSUME result # NoResult PROVE ResultIsHonest!2
    BY DEF ResultIsHonest
  <2>1. /\ result.error = error /\ result.kept <= scene.limit
        /\ result.ok => code = "zero" /\ error = None /\ root = "gone"
    BY <1>1 DEF IInv, Settled
  <2>2. result.ok \/ Answer = "output" => result.ok
    BY DEF Answer
  <2>3. error = None => signalled = FALSE
    BY <1>1 DEF IInv, Reasons, Stops, None, TypeOK, Tags
  <2>4. /\ error = "timed out" => late
        /\ error = "interrupted" => cancelled
    BY <1>1 DEF IInv, Reasons
  <2>5. scene.path = "local" /\ signalled => helper # "running"
    BY <1>1 DEF IInv, Reasons, TypeOK, Tags
  <2> QED BY <2>1, <2>2, <2>3, <2>4, <2>5
<1> QED BY <1>1, Invariance, PTL

(* An answer that is neither an error nor truncated is all there is, or    *)
(* one of the programs is still there and holds the pipe.                  *)
CompleteOrOpen ==
  pc # "done" /\ pc' = "done" /\ result'.error = None /\ ~result'.truncated =>
    result'.kept = Written' \/ Open

LEMMA CompleteStep == IInv /\ Next => CompleteOrOpen
<1> SUFFICES ASSUME IInv, Next, pc # "done", pc' = "done", result'.error = None, ~result'.truncated
             PROVE  result'.kept = Written' \/ Open
  BY DEF CompleteOrOpen
<1>1. CASE RefuseArguments \/ Refuse
  <2>1. PICK why \in {"arguments", "failed"} : result' = Result(why, 0, FALSE)
    BY <1>1 DEF RefuseArguments, Refuse, Refusal, Returns
  <2>2. result'.error = why  BY <2>1 DEF Result
  <2> QED BY <2>2 DEF None
<1>2. CASE PlainTimesOut
  <2>1. result'.error = "timed out"  BY <1>2 DEF PlainTimesOut, Returns
  <2> QED BY <2>1 DEF None
<1>3. CASE PlainEnds \/ Collects
  <2>1. /\ result' = Result(error', Least(kept, scene.limit), kept > scene.limit)
        /\ EOF /\ scene.path \in {"plain", "token"}
    BY <1>3 DEF PlainEnds, Collects, Returns, Truncated, IInv, Located
  <2>2. UNCHANGED <<scene, rootLeft, helperLeft>>  BY <1>3 DEF PlainEnds, Collects, programs
  <2>3. result'.kept = Least(kept, scene.limit) /\ ~(kept > scene.limit)
    BY <2>1 DEF Result
  <2>4. kept \in Nat /\ scene.limit \in Nat
    BY SceneType DEF IInv, TypeOK, Tags, Amounts
  <2>5. result'.kept = kept  BY <2>3, <2>4 DEF Least
  <2>6. reader = "none" /\ buffer = 0 /\ pipe = 0 /\ Written = pipe + buffer + kept
    BY <2>1 DEF IInv, Conserved, Bounded, Contained, EOF
  <2>7. Written' = Written  BY <2>2 DEF Written
  <2> QED BY <2>4, <2>5, <2>6, <2>7
<1>4. CASE Joins
  <2>1. result' = Result(error, kept, dropped) /\ reader = "done"
    BY <1>4 DEF Joins, Returns
  <2>2. UNCHANGED <<scene, rootLeft, helperLeft>>  BY <1>4 DEF Joins, programs
  <2>3. result'.kept = kept /\ result'.truncated = dropped  BY <2>1 DEF Result
  <2>4. dropped = FALSE  BY <2>3 DEF IInv, TypeOK, Tags
  <2>5. buffer = 0 /\ pipe = 0 /\ Written = pipe + buffer + kept
    BY <2>1, <2>4 DEF IInv, Conserved, EOF
  <2>6. Written' = Written /\ kept \in Nat  BY <2>2 DEF Written, IInv, TypeOK, Amounts
  <2> QED BY <2>3, <2>5, <2>6
<1>5. CASE JoinTimesOut  BY <1>5 DEF JoinTimesOut, Blocked
<1>6. CASE Start \/ Communicates \/ Polls \/ Terminate \/ Grace \/ Waits \/ Kills
  BY <1>6 DEF Start, Communicates, Polls, Terminate, Grace, Waits, Kills
<1>7. CASE TimePasses \/ Cancel \/ Fills \/ Drains \/ RootWrites \/ HelperWrites \/ RootEnds \/ HelperEnds
  BY <1>7 DEF TimePasses, Cancel, Fills, Drains, RootWrites, HelperWrites, RootEnds, HelperEnds
<1> QED BY <1>1, <1>2, <1>3, <1>4, <1>5, <1>6, <1>7 DEF Next, Caller, Drainer, Root, Helper

(* Whenever a result is neither an error nor marked as truncated, nothing  *)
(* the programs wrote is missing, unless one of them still holds the pipe  *)
(* (subprocess.py, execution.py).                                          *)
THEOREM OutputIsComplete == Spec => NothingLostSilently
<1>1. Spec => [][CompleteOrOpen]_vars
  BY CompleteStep, Invariance, PTL DEF Spec
<1> QED BY <1>1 DEF NothingLostSilently, CompleteOrOpen
=============================================================================
