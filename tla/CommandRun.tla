----------------------------- MODULE CommandRun -----------------------------
(***************************************************************************)
(* One command of a tool or of the workflow (utils/subprocess.py,          *)
(* execution.py, utils/execution_sandbox.py): a process and perhaps one it *)
(* left in the background, the pipe their output goes to, the one or two   *)
(* threads that empty it, the deadline and the user's interrupt.           *)
(*                                                                         *)
(* The ways a command is run: "plain" (subprocess.run), "token" (polling,  *)
(* when there is a cancellation token), "local" and "docker" (the          *)
(* backends).  Under "docker" the process is the docker client and the     *)
(* other one what runs in the container: it is in no process group of the  *)
(* host and writes through the client.  Output is counted in units; stdout *)
(* and stderr are one pipe.  The tools that run commands (shell,           *)
(* python_exec, diagnostics) differ in the command only.                   *)
(***************************************************************************)
EXTENDS Naturals, FiniteSets

CONSTANTS Scenes,     \* bound: the commands, how they are run and what happens
          PipeSize,   \* units the pipe holds
          ReadSize    \* units one read of the draining thread asks for

ASSUME CommandAssumption ==
  /\ PipeSize \in Nat \ {0} /\ ReadSize \in Nat \ {0}
  /\ \A s \in Scenes :
       /\ s.path \in {"plain", "token", "local", "docker"}
       /\ s.limit \in Nat \ {0} /\ {s.writes, s.helperWrites} \subseteq Nat
       /\ {s.ends, s.helper, s.helperEnds} \subseteq BOOLEAN
       /\ s.refused \in {"no", "arguments", "failed"}
       /\ s.onTerm \in {"dies", "ignores", "exits"}
       /\ s.path = "docker" => s.helper /\ s.writes = 0

None == "none"
NoResult == [ok |-> FALSE, error |-> "none yet", kept |-> 0, truncated |-> FALSE]

VARIABLES
  scene,      \* never changed
  pc,         \* where the call is
  root,       \* the process: "none", "running" or "gone"
  code,       \* its exit code: None, "zero", "nonzero", "signal"
  helper,     \* the process in the background, or the container's
  rootLeft, helperLeft,   \* units each is still going to write
  pipe,       \* units in the pipe
  reader,     \* the draining thread: "none", "reading", "done"
  buffer,     \* units its read has and has not returned
  kept,       \* units of output the caller has
  dropped,    \* the draining thread dropped some
  late,       \* the deadline has passed
  cancelled,  \* the token is set
  error,      \* why the caller stops the command
  signalled,  \* it was sent a signal while it ran
  result

programs == <<root, code, helper, rootLeft, helperLeft, signalled>>
draining == <<reader, buffer, dropped>>
clock    == <<late, cancelled>>
vars == <<scene, pc, programs, pipe, draining, kept, clock, error, result>>

Contained == scene.path = "docker"
Bounded   == scene.path = "local" \/ Contained
UnderWay  == pc \notin {"start", "done"}

Init ==
  /\ scene \in Scenes
  /\ pc = "start" /\ root = "none" /\ code = None /\ helper = "none"
  /\ rootLeft = scene.writes /\ helperLeft = scene.helperWrites
  /\ pipe = 0 /\ reader = "none" /\ buffer = 0 /\ kept = 0 /\ dropped = FALSE
  /\ late = FALSE /\ cancelled = FALSE /\ error = None /\ signalled = FALSE /\ result = NoResult
-----------------------------------------------------------------------------
(* What the tool sees.                                                     *)

Least(m, n) == IF m < n THEN m ELSE n
(* A plausible bug: the exit code alone decides.                           *)
OkByCode(why) == code = "zero"

Ok(why)     == code = "zero" /\ why = None
Result(why, units, more) ==
  [ok |-> Ok(why), error |-> why, kept |-> units, truncated |-> more]

Returns(r) == result' = r /\ pc' = "done"

(* What the tool answers the model.                                        *)
Answer == IF result.error # None THEN "error" ELSE IF ~result.ok THEN "exit code" ELSE "output"

(* truncate: of everything that was read.                                  *)
Truncated(why) == Result(why, Least(kept, scene.limit), kept > scene.limit)
-----------------------------------------------------------------------------
(* The programs.                                                           *)

HoldsPipe(p) == p = "running"
Open == HoldsPipe(root) \/ (~Contained /\ HoldsPipe(helper))
EOF  == pipe = 0 /\ ~Open

(* A background process whose output nobody can read any more only ends.   *)
RootWrites ==
  /\ root = "running" /\ rootLeft > 0 /\ pipe < PipeSize
  /\ rootLeft' = rootLeft - 1 /\ pipe' = pipe + 1
  /\ UNCHANGED <<scene, pc, root, code, helper, helperLeft, signalled, draining, kept, clock, error, result>>

RootEnds ==
  /\ root = "running" /\ rootLeft = 0 /\ scene.ends
  /\ Contained => helper = "gone"
  /\ root' = "gone" /\ code' \in {"zero", "nonzero"}
  /\ UNCHANGED <<scene, pc, helper, rootLeft, helperLeft, signalled, pipe, draining, kept, clock, error, result>>

HelperWrites ==
  /\ helper = "running" /\ helperLeft > 0 /\ pipe < PipeSize
  /\ IF Contained THEN root = "running" ELSE UnderWay \/ Bounded
  /\ helperLeft' = helperLeft - 1 /\ pipe' = pipe + 1
  /\ UNCHANGED <<scene, pc, root, code, helper, rootLeft, signalled, draining, kept, clock, error, result>>

HelperEnds ==
  /\ helper = "running" /\ scene.helperEnds
  /\ helperLeft = 0 \/ ~(UnderWay \/ Bounded) \/ (Contained /\ root = "gone")
  /\ helper' = "gone"
  /\ UNCHANGED <<scene, pc, root, code, rootLeft, helperLeft, signalled, pipe, draining, kept, clock, error, result>>

(* SIGTERM and SIGKILL to the process, and SIGKILL to its group.           *)
Terminated ==
  /\ signalled' = (root = "running" \/ signalled)
  /\ CASE root # "running" \/ scene.onTerm = "ignores" -> UNCHANGED <<root, code>>
       [] scene.onTerm = "dies"  -> root' = "gone" /\ code' = "signal"
       [] scene.onTerm = "exits" -> root' = "gone" /\ code' = "zero"
  /\ UNCHANGED <<helper, rootLeft, helperLeft>>

Killed ==
  /\ root' = "gone" /\ code' = "signal" /\ signalled' = TRUE
  /\ UNCHANGED <<helper, rootLeft, helperLeft>>

(* A plausible bug: only the process itself is killed.                     *)
InNoGroup == FALSE

InGroup == ~Contained
GroupKilled ==
  /\ root' = "gone" /\ code' = "signal" /\ signalled' = TRUE
  /\ helper' = IF InGroup /\ helper = "running" THEN "gone" ELSE helper
  /\ UNCHANGED <<rootLeft, helperLeft>>
-----------------------------------------------------------------------------
(* A timeout or a limit that is not positive is refused by the tool; a     *)
(* directory outside the sandbox, or a program the system cannot start, is *)
(* an error result.                                                        *)
Refusal(why) ==
  /\ pc = "start" /\ scene.refused = why
  /\ Returns(Result(why, 0, FALSE)) /\ error' = why
  /\ UNCHANGED <<scene, programs, pipe, draining, kept, clock>>

RefuseArguments == Refusal("arguments")
Refuse          == Refusal("failed")

Start ==
  /\ pc = "start" /\ scene.refused = "no"
  /\ root' = "running" /\ helper' = IF scene.helper THEN "running" ELSE "none"
  /\ reader' = IF Bounded THEN "reading" ELSE "none"
  /\ pc' = "wait"
  /\ UNCHANGED <<scene, code, rootLeft, helperLeft, signalled, pipe, buffer, dropped, kept, clock, error, result>>

TimePasses ==
  /\ UnderWay /\ ~late /\ late' = TRUE
  /\ UNCHANGED <<scene, pc, programs, pipe, draining, kept, cancelled, error, result>>
Cancel ==
  /\ scene.path = "token" /\ UnderWay /\ ~cancelled /\ cancelled' = TRUE
  /\ UNCHANGED <<scene, pc, programs, pipe, draining, kept, late, error, result>>
-----------------------------------------------------------------------------
(* subprocess.run: reads until nobody holds the pipe, or the deadline.     *)
Communicates ==
  /\ pc = "collect" \/ (pc = "wait" /\ scene.path = "plain")
  /\ pipe > 0 /\ pipe' = pipe - 1 /\ kept' = kept + 1
  /\ UNCHANGED <<scene, pc, programs, draining, clock, error, result>>

PlainEnds ==
  /\ pc = "wait" /\ scene.path = "plain" /\ EOF
  /\ Returns(Truncated(None))
  /\ UNCHANGED <<scene, programs, pipe, draining, kept, clock, error>>

PlainTimesOut ==
  /\ pc = "wait" /\ scene.path = "plain" /\ late
  /\ IF root = "running" THEN Killed ELSE UNCHANGED programs
  /\ Returns([ok |-> FALSE, error |-> "timed out", kept |-> 0, truncated |-> FALSE])
  /\ error' = "timed out"
  /\ UNCHANGED <<scene, pipe, draining, kept, clock>>
-----------------------------------------------------------------------------
(* _run_command_with_cancellation: looks at the process, the token and the *)
(* deadline in turn, and reads only when the process is gone.              *)
Polls ==
  /\ pc = "wait" /\ scene.path = "token"
  /\ \/ root = "gone" /\ pc' = "collect" /\ UNCHANGED error
     \/ root = "running" /\ cancelled /\ pc' = "terminate" /\ error' = "interrupted"
     \/ root = "running" /\ ~cancelled /\ late /\ pc' = "terminate" /\ error' = "timed out"
  /\ UNCHANGED <<scene, programs, pipe, draining, kept, clock, result>>

Terminate ==
  /\ pc = "terminate" /\ Terminated /\ pc' = "grace"
  /\ UNCHANGED <<scene, pipe, draining, kept, clock, error, result>>

Grace ==
  /\ pc = "grace"
  /\ IF root = "running" THEN Killed ELSE UNCHANGED programs
  /\ pc' = "collect"
  /\ UNCHANGED <<scene, pipe, draining, kept, clock, error, result>>

Collects ==
  /\ pc = "collect" /\ EOF
  /\ Returns(Truncated(error))
  /\ UNCHANGED <<scene, programs, pipe, draining, kept, clock, error>>
-----------------------------------------------------------------------------
(* _run_bounded: a thread drains the pipe while the caller waits for the   *)
(* process, up to the deadline.                                            *)
Waits ==
  /\ pc = "wait" /\ Bounded
  /\ \/ root = "gone" /\ pc' = "join" /\ UNCHANGED error
     \/ root = "running" /\ late /\ pc' = "kill" /\ error' = "timed out"
  /\ UNCHANGED <<scene, programs, pipe, draining, kept, clock, result>>

Kills ==
  /\ pc = "kill"
  /\ IF root = "running" THEN GroupKilled ELSE UNCHANGED programs
  /\ pc' = "join"
  /\ UNCHANGED <<scene, pipe, draining, kept, clock, error, result>>

(* A plausible bug: the thread stops when it has enough.                   *)
ReadsUpToLimit == reader = "reading" /\ kept < scene.limit
Room == IF scene.limit > kept THEN scene.limit - kept ELSE 0
(* A plausible bug: a read that fits in part is cut without a word.        *)
CutsWhenFull == Room = 0 /\ buffer > 0

(* A read returns when it has all it asked for or nobody holds the pipe;   *)
(* what is beyond the limit is read and thrown away.                       *)
Reads == reader = "reading"
Cuts  == buffer > Room
Fills ==
  /\ Reads /\ pipe > 0 /\ buffer < ReadSize
  /\ pipe' = pipe - 1 /\ buffer' = buffer + 1
  /\ UNCHANGED <<scene, pc, programs, reader, dropped, kept, clock, error, result>>
Drains ==
  /\ Reads /\ (buffer = ReadSize \/ EOF)
  /\ kept' = kept + Least(buffer, Room) /\ dropped' = (dropped \/ Cuts)
  /\ buffer' = 0 /\ reader' = IF buffer = 0 THEN "done" ELSE "reading"
  /\ UNCHANGED <<scene, pc, programs, pipe, clock, error, result>>

Joins ==
  /\ pc = "join" /\ reader = "done"
  /\ Returns(Result(error, kept, dropped))
  /\ UNCHANGED <<scene, programs, pipe, draining, kept, clock, error>>

(* A plausible bug: the caller joins the thread without a timeout.         *)
NeverBlocked == FALSE

(* The second of join(timeout=1) passes while the thread waits for output. *)
Blocked == reader = "reading" /\ pipe = 0 /\ buffer < ReadSize /\ Open
JoinTimesOut ==
  /\ pc = "join" /\ Blocked
  /\ Returns(Result(error, kept, dropped))
  /\ UNCHANGED <<scene, programs, pipe, draining, kept, clock, error>>
-----------------------------------------------------------------------------
Caller == \/ RefuseArguments \/ Refuse \/ Start \/ Communicates \/ PlainEnds \/ PlainTimesOut
          \/ Polls \/ Terminate \/ Grace \/ Collects
          \/ Waits \/ Kills \/ Joins \/ JoinTimesOut
Drainer == Fills \/ Drains
Root    == RootWrites \/ RootEnds
Helper  == HelperWrites \/ HelperEnds

Next == Caller \/ Drainer \/ Root \/ Helper \/ TimePasses \/ Cancel

Spec == Init /\ [][Next]_vars

(* The caller and the draining thread run, the deadline comes, and the     *)
(* programs go on as far as they are going to.                             *)
FairSpec == /\ Spec /\ WF_vars(Caller) /\ WF_vars(Drainer) /\ WF_vars(TimePasses)
            /\ WF_vars(Root) /\ WF_vars(Helper)
=============================================================================
