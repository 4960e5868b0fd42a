--------------------------- MODULE MC_AgentBridge ---------------------------
(* TLC's instance of AgentBridge: the sessions are interchangeable. *)
EXTENDS AgentBridge, TLC

Symmetry == Permutations(Sessions)
=============================================================================
