------------------------------ MODULE MCUsers -------------------------------
(* Instances of Users for TLC. *)
EXTENDS Users, TLC

Symmetric == Permutations(Requests)
=============================================================================
