---------------------------- MODULE MCUserAgents ----------------------------
(* Requests are interchangeable: nothing orders them or names one of them. *)
EXTENDS UserAgents, TLC

Symmetry == Permutations(Requests)
=============================================================================
