------------------------------ MODULE MCOutbox ------------------------------
(* The dispatcher instantiated for TLC: two dispatchers and a lease so short   *)
(* that they hold the same event.  Symmetry would be unsound with liveness.    *)
EXTENDS Outbox
=============================================================================
