---------------------------- MODULE MCPytestFix ----------------------------
(* Two source files, a test file and one kept from git: the first test     *)
(* wants src repaired, the second wants other adapted to that, by a change *)
(* or by removing it.                                                      *)
EXTENDS PytestFixProperties

MCFiles == {"src", "other", "test", "local", "record"}
MCOriginal == [f \in MCFiles |-> IF f = "record" THEN None ELSE "a"]
MCFailing(t) ==
  {x \in Tests : \/ x = "t1" /\ t["test"] = "a" /\ t["src"] # "b"
                 \/ x = "t2" /\ t["src"] = "b" /\ t["other"] = "a"}
=============================================================================
