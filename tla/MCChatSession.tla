--------------------------- MODULE MCChatSession ---------------------------
(* Requests are interchangeable: nothing orders them or names one of them. *)
EXTENDS ChatSession, TLC

Symmetry == Permutations(Requests)
=============================================================================
