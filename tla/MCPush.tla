------------------------------- MODULE MCPush -------------------------------
(* Instances of Push for TLC. *)
EXTENDS Push, TLC

Symmetric == Permutations(Requests)
=============================================================================
