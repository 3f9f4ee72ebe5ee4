-------------------------- MODULE MCAgentNetwork --------------------------
(* Small instances of AgentNetwork and of its composition with the commands: *)
(* rounds and tabs are interchangeable.                                      *)
EXTENDS AgentNetworkCommands, TLC

Interchangeable == Permutations(Round) \cup Permutations(Tab)
=============================================================================
