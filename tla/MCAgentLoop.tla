----------------------------- MODULE MCAgentLoop -----------------------------
(* AgentLoop for TLC: sources and error lists are interchangeable. *)
EXTENDS AgentLoop, TLC

MCSymmetry == Permutations(Source) \cup Permutations(Error)
=============================================================================
