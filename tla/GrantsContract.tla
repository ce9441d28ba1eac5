--------------------------- MODULE GrantsContract ---------------------------
(***************************************************************************)
(* What modules and categories promise about who has a module, without     *)
(* transactions, locks or requests under way.  A user is given the module  *)
(* by an administrator or an invitation, or as one of several when it is   *)
(* assigned to a category; only a gift to a user brings a revoked grant    *)
(* back, an assignment never does.  Taking the module from the category    *)
(* takes it from nobody.  An uninstallation takes the module, the          *)
(* assignment and all the grants at once, and the next installation starts *)
(* with none.                                                              *)
(***************************************************************************)
CONSTANT Users

VARIABLES
    installed,  \* the module is in the registry
    assigned,   \* it is in the template of the category
    grant       \* the row of user_modules of each user

vars == <<installed, assigned, grant>>

Init ==
    /\ installed = FALSE
    /\ assigned = FALSE
    /\ grant = [u \in Users |-> "none"]

Install ==
    /\ ~installed
    /\ installed' = TRUE
    /\ UNCHANGED <<assigned, grant>>

Uninstall ==
    /\ installed
    /\ installed' = FALSE
    /\ assigned' = FALSE
    /\ grant' = [u \in Users |-> "none"]

Give(u) ==
    /\ installed
    /\ grant' = [grant EXCEPT ![u] = "live"]
    /\ UNCHANGED <<installed, assigned>>

Revoke(u) ==
    /\ grant[u] = "live"
    /\ grant' = [grant EXCEPT ![u] = "revoked"]
    /\ UNCHANGED <<installed, assigned>>

\* An assignment that finds the template row, which is then taken away, gives the module
\* nevertheless.
Assign(receivers) ==
    /\ installed
    /\ \A u \in receivers : grant[u] = "none"
    /\ grant' = [u \in Users |-> IF u \in receivers THEN "live" ELSE grant[u]]
    /\ assigned' \in {assigned, TRUE}
    /\ UNCHANGED installed

Unassign ==
    /\ assigned' = FALSE
    /\ UNCHANGED <<installed, grant>>

Next ==
    \/ Install \/ Uninstall \/ Unassign
    \/ \E u \in Users : Give(u) \/ Revoke(u)
    \/ \E receivers \in SUBSET Users : Assign(receivers)

Spec == Init /\ [][Next]_vars
=============================================================================
