-------------------------- MODULE MCMessageMemory --------------------------
(* Requests are interchangeable, and so are texts. *)
EXTENDS MessageMemory, TLC

Symmetry == Permutations(Requests) \union Permutations(Texts)
=============================================================================
