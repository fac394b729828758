---------------------------- MODULE MCSessionLog ----------------------------
EXTENDS SessionLogProperties

Most(users, calls, results, observations, compactions, titles, skills, crash) ==
  [session_created |-> 1, user_message |-> users, assistant_message |-> calls, tool_result |-> results,
   task_boundary_observed |-> observations, compaction_completed |-> compactions,
   session_metadata_updated |-> titles, skill_loaded |-> skills, crash |-> crash]

Answering(text, calls) == [text |-> text, calls |-> calls]

\* a session whose task changes and that is resumed; one whose task changes
\* and of which messages are compacted; one that the loop and /compact compact
\* together; one renamed and shared during a turn
MCScenes ==
  {[env |-> {"boundary", "cancel", "tear"}, replies |-> {Answering(FALSE, 1)}, required |-> 2, long |-> {},
    most |-> Most(2, 1, 2, 2, 0, 0, 0, 1)],
   [env |-> {"boundary", "compact"}, replies |-> {Answering(TRUE, 1)}, required |-> 1, long |-> {},
    most |-> Most(2, 1, 1, 1, 1, 0, 0, 1)],
   [env |-> {"compact"}, replies |-> {Answering(TRUE, 1)}, required |-> 1, long |-> {},
    most |-> Most(1, 1, 2, 0, 2, 0, 0, 1)],
   [env |-> {"rename", "share", "skills", "tear"}, replies |-> {Answering(FALSE, 0), Answering(TRUE, 2)}, required |-> 2,
    long |-> {"tool_result", "user_message"}, most |-> Most(2, 1, 1, 0, 0, 1, 1, 1)]}
=============================================================================
