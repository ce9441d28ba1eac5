------------------------------ MODULE MCWizard ------------------------------
(* The wizard instantiated for TLC: one installer and one visitor.             *)
EXTENDS Wizard

=============================================================================
