------------------------ MODULE CompactionProperties ------------------------
(***************************************************************************)
(* What compaction promises: the provider can be sent what is left, no     *)
(* message falls between summaries, and an open circuit stops the calls.   *)
(***************************************************************************)
EXTENDS Compaction

(* Whatever was compacted, and whenever: if the whole history is one the   *)
(* provider accepts, so is the tail a request shows of it, and the tail is *)
(* not empty.                                                              *)
TailIsSendable ==
  LET n == Len(messages) IN
  /\ Sendable(messages) => Sendable(TailOf(Latest, n))
  /\ Latest # 0 => From(Latest) <= n

(* Every message is in the tail of the latest checkpoint or was in what    *)
(* one of the summaries it builds on was made from: each summary takes in  *)
(* at least one message more than its base, and none is left out.          *)
NothingFallsBetween ==
  \A k \in DOMAIN checkpoints :
    LET base == checkpoints[k].base IN
    /\ base = 0 \/ From(base) <= checkpoints[k].covered
    /\ checkpoints[k].covered + 1 = checkpoints[k].start

(* A compaction the circuit was opened by does not call the summarizer     *)
(* again, even in its own fallback.                                        *)
CircuitStopsCalls ==
  [][\A a \in Actors :
       /\ job[a] # NoJob /\ job'[a] # NoJob
       /\ ~Manual(a) /\ live.open
       => job'[a].calls = job[a].calls]_vars
=============================================================================
