------------------------ MODULE MCAgentConversation ------------------------
(* Small instances of AgentConversation: messages and submitters are         *)
(* interchangeable, so safety runs identify states up to renaming them.      *)
EXTENDS AgentConversation, TLC

Interchangeable == Permutations(Turn) \cup Permutations(Submitter)
=============================================================================
