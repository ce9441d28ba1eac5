------------------------------- MODULE MCDoor --------------------------------
(* Instances of Door for TLC: a delegated key that was given every scope, and a
   service key that may run maintenance and deactivate users.                  *)
EXTENDS Door

CONSTANTS ann, delegated, service

MCKeyOwner == delegated :> ann @@ service :> Nobody
MCKeyScopes == delegated :> ServiceSuperAdminScopes @@ service :> {"maintenance:run", "users:deactivate"}
MCKeyCap == delegated :> "admin" @@ service :> "super_admin"
MCCalled == {"deactivateUserRoute", "maintenanceRunRoute", "maintenanceStatusRoute",
             "setupEnvironmentRoute"}

Symmetric == Permutations(Requests)
=============================================================================
