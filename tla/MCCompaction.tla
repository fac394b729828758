---------------------------- MODULE MCCompaction ----------------------------
(***************************************************************************)
(* An instance of Compaction for TLC: the loop's own compactions with      *)
(* every failure and interruptions, and a manual compaction beside         *)
(* them while the turn goes on, with a restart in either case.             *)
(***************************************************************************)
EXTENDS CompactionProperties

CONSTANT c1

OneCall == {c1}

SomeSettings ==
  {[triggers |-> {"auto", "prompt_too_long"}, refusals |-> {"prompt_too_long", "timeout"},
    events   |-> {"restart", "interrupt"}],
   [triggers |-> {"auto", "manual"}, refusals |-> {"timeout"}, events |-> {"restart"}]}
=============================================================================
