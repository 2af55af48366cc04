---------------------------- MODULE MCAgentAdmin ----------------------------
(* Requests are interchangeable, and so are names, contents and features. *)
EXTENDS AgentAdmin, TLC

Symmetry == Permutations(Requests) \union Permutations(Names)
            \union Permutations(Texts) \union Permutations(Features)
=============================================================================
