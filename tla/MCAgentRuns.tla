---------------------------- MODULE MCAgentRuns ----------------------------
(* TLC instance of AgentRuns: two concurrent runs, one of which streams. *)
EXTENDS AgentRuns, TLC

CONSTANTS r1, r2   \* two run ids
TwoRuns == {r1, r2}
OneStreams == (r1 :> 1) @@ (r2 :> 0)
=============================================================================
