------------------------- MODULE MCMessageFeedback -------------------------
(* Requests are interchangeable: nothing orders them or names one of them. *)
EXTENDS MessageFeedback, TLC

Symmetry == Permutations(Requests)
=============================================================================
