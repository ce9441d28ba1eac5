----------------------------- MODULE MCModules ------------------------------
(* Modules for TLC.  Requests and users are interchangeable.               *)
EXTENDS Modules, TLC

Symmetry == Permutations(Requests) \cup Permutations(Users)

=============================================================================
