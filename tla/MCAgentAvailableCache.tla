------------------------ MODULE MCAgentAvailableCache ------------------------
(* AgentAvailableCache with interchangeable readers. *)
EXTENDS AgentAvailableCache, TLC

Symmetry == Permutations(Readers)
=============================================================================
