--------------------------- MODULE SetupContract ----------------------------
(***************************************************************************)
(* What POST /setup/super-admin promises the wizard that calls it, without *)
(* Auth users, locks or transactions: setup is open while there is no      *)
(* active super_admin, an attempt that finds it open creates one, and the  *)
(* account whose token lifetime was recorded last is not taken back: the   *)
(* settings refer to it.  Any other may still be withdrawn: one whose      *)
(* attempt was not answered, or was answered without a lifetime to record, *)
(* or one that a later record has superseded.                              *)
(***************************************************************************)
CONSTANT Accounts

VARIABLES
    account,    \* the super_admin of each account: "none", "active", "deactivated"
    recorded    \* the account in whose name the token lifetime was recorded last

vars == <<account, recorded>>

Active == {u \in Accounts : account[u] = "active"}
Open == Active = {}

Init ==
    /\ account = [u \in Accounts |-> "none"]
    /\ recorded = {}

Create(u) ==
    /\ Open
    /\ account[u] = "none"
    /\ account' = [account EXCEPT ![u] = "active"]
    /\ UNCHANGED recorded

Record(u) ==
    /\ account[u] # "none"
    /\ recorded' = {u}
    /\ UNCHANGED account

Withdraw(u) ==
    /\ u \notin recorded
    /\ account' = [account EXCEPT ![u] = "none"]
    /\ UNCHANGED recorded

\* The recovery path: the sole super_admin is deactivated in the database.
Deactivate(u) ==
    /\ account[u] = "active"
    /\ account' = [account EXCEPT ![u] = "deactivated"]
    /\ UNCHANGED recorded

Next == \E u \in Accounts : Create(u) \/ Record(u) \/ Withdraw(u) \/ Deactivate(u)

Spec == Init /\ [][Next]_vars
=============================================================================
