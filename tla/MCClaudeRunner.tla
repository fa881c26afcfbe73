--------------------------- MODULE MCClaudeRunner ---------------------------
(* ClaudeRunner with the constants of the code, for TLC. *)
EXTENDS ClaudeRunner

(* Runs that fail at once, take a while, or nearly use up their timeout.   *)
SomeDurations == {0, 1, 30, 290, 599}
SomeLeads == {0, 1}
=============================================================================
