------------------------------- MODULE MCSetup ------------------------------
(* Requests are interchangeable, and so are emails.                             *)
EXTENDS Setup, TLC

SetupSymmetry == Permutations(Requests) \cup Permutations(Emails)
=============================================================================
