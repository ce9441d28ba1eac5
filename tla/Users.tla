------------------------------- MODULE Users --------------------------------
(***************************************************************************)
(* Roles and deactivation (packages/core/src/users/service.ts, with the    *)
(* caller as packages/core/src/auth/caller.ts and guard.ts see it).        *)
(*                                                                         *)
(* A request is resolved first: the role of its caller is read, the scopes *)
(* of the route are checked against it, and it is not read again.  The     *)
(* handler then works in a READ COMMITTED transaction under an advisory    *)
(* lock: it reads the target, compares it with the root, counts the active *)
(* super_admins and writes.  The root is the oldest active super_admin.    *)
(*                                                                         *)
(* Profiles also appear without that lock: an invitation adds a user, and  *)
(* /setup adds a super_admin when it has found no active one, which        *)
(* setup.ts calls the recovery path of an instance whose sole super_admin  *)
(* has been deactivated in the database.                                   *)
(*                                                                         *)
(* Profiles are numbered by created_at, taken to be the order in which     *)
(* they appear: user 1 is the one the first setup made.  PATCHes without a *)
(* role change no state modelled here.                                     *)
(***************************************************************************)
EXTENDS Integers, FiniteSets

CONSTANTS
    Requests,          \* concurrent requests
    MaxUsers,          \* bound: profiles ever created
    MaxFaults,         \* bound: transactions that are rolled back
    MaxInterventions   \* bound: super_admins lost in the database

Users == 1..MaxUsers
Roles == {"super_admin", "admin", "user"}
Deactivated == "deactivated"
Nobody == "nobody"
Unread == "unread"

ASSUME UsersAssumption ==
    /\ MaxUsers \in Nat \ {0}
    /\ MaxFaults \in Nat
    /\ MaxInterventions \in Nat
    /\ Nobody \notin Requests

VARIABLES
    population,      \* the profiles are 1..population
    role,            \* profiles.role
    active,          \* profiles with deactivated_at null
    roleLock,        \* the advisory lock core_users_roles
    at,              \* where each request is
    request,         \* what it carries
    setupChecked,    \* a transaction of /setup has found no active super_admin
    faults,
    interventions

profiles == <<population, role, active>>
vars == <<population, role, active, roleLock, at, request,
          setupChecked, faults, interventions>>

\* The session's user and the role read for it when the request was resolved;
\* the user of the route; the role of the PATCH, or Deactivated for the DELETE;
\* the role of the target as getUserFrom read it.
Request == [caller : Users, as : Roles, target : Users,
            next : Roles \cup {Deactivated}, current : Roles \cup {Unread}]

NoRequest == [caller |-> 1, as |-> "user", target |-> 1, next |-> "user", current |-> Unread]

\* The stages of a transaction: the next statement of each.
InTransaction == {"read", "root", "count", "write"}

TypeOK ==
    /\ population \in Users
    /\ role \in [Users -> Roles]
    /\ active \subseteq 1..population
    /\ roleLock \in Requests \cup {Nobody}
    /\ at \in [Requests -> InTransaction \cup {"idle", "waiting"}]
    /\ request \in [Requests -> Request]
    /\ setupChecked \in BOOLEAN
    /\ faults \in 0..MaxFaults
    /\ interventions \in 0..MaxInterventions
    \* The advisory lock lasts exactly as long as the transaction.
    /\ \A r \in Requests : roleLock = r <=> at[r] \in InTransaction

Init ==
    /\ population = 1
    /\ role = [u \in Users |-> IF u = 1 THEN "super_admin" ELSE "user"]
    /\ active = {1}
    /\ roleLock = Nobody
    /\ at = [r \in Requests |-> "idle"]
    /\ request = [r \in Requests |-> NoRequest]
    /\ setupChecked = FALSE
    /\ faults = 0
    /\ interventions = 0

-----------------------------------------------------------------------------
as(r) == request[r].as
target(r) == request[r].target
next(r) == request[r].next
current(r) == request[r].current

SuperAdmins == {u \in active : role[u] = "super_admin"}

\* rootUserId(db) === u: the oldest active super_admin.
IsRoot(u) == u \in SuperAdmins /\ \A v \in SuperAdmins : u <= v

\* Mutant of LockFree: withRoleLock without the advisory lock.
NoLock == TRUE

LockFree == roleLock = Nobody

\* COMMIT or ROLLBACK.
Unlocked == Nobody

\* Mutant of AdminMay: scopes alone decide.
ScopeOnly(r) == TRUE

\* Admins never change a super_admin role.
AdminMay(r) == "super_admin" \notin {current(r), next(r)}

\* assertRoleChangeAllowed returns before it asks for the root.
SettledEarly(r) == next(r) = current(r) \/ (as(r) = "admin" /\ AdminMay(r))

\* Mutant of Enough: the super_admins are not counted.
Uncounted == TRUE

\* "activeSuperAdmins(db) <= 1" does not hold.
Enough == \E u, v \in SuperAdmins : u # v

-----------------------------------------------------------------------------
(* The request.                                                            *)

\* resolveCaller and authorize: an active caller, users:write for a PATCH
\* and users:deactivate for a DELETE.
Resolve(r, u, t, n) ==
    /\ at[r] = "idle"
    /\ u \in active
    /\ role[u] \in (IF n = Deactivated THEN {"super_admin"} ELSE {"super_admin", "admin"})
    /\ t \in 1..population
    /\ at' = [at EXCEPT ![r] = "waiting"]
    /\ request' = [request EXCEPT ![r] =
        [caller |-> u, as |-> role[u], target |-> t, next |-> n, current |-> Unread]]
    /\ UNCHANGED <<profiles, roleLock, setupChecked, faults, interventions>>

GoTo(r, stage) == at' = [at EXCEPT ![r] = stage]

\* COMMIT or ROLLBACK, and the answer.
End(r) ==
    /\ GoTo(r, "idle")
    /\ roleLock' = Unlocked
    /\ request' = [request EXCEPT ![r] = NoRequest]

\* withRoleLock: BEGIN and pg_advisory_xact_lock.
Lock(r) ==
    /\ at[r] = "waiting"
    /\ LockFree
    /\ roleLock' = r
    /\ GoTo(r, "read")
    /\ UNCHANGED <<profiles, request, setupChecked, faults, interventions>>

\* getUserFrom.
Read(r) ==
    /\ at[r] = "read"
    /\ request' = [request EXCEPT ![r].current = role[target(r)]]
    /\ GoTo(r, "root")
    /\ UNCHANGED <<profiles, roleLock, setupChecked, faults, interventions>>

\* The role is the one it has, or an admin's change that needs no more checks.
SkipChecks(r) ==
    /\ at[r] = "root"
    /\ SettledEarly(r)
    /\ GoTo(r, "write")
    /\ UNCHANGED <<profiles, roleLock, request, setupChecked, faults, interventions>>

\* insufficient_scope.
Forbid(r) ==
    /\ at[r] = "root"
    /\ ~SettledEarly(r) /\ as(r) # "super_admin"
    /\ End(r)
    /\ UNCHANGED <<profiles, setupChecked, faults, interventions>>

\* rootUserId: the root is a conflict, and only a super_admin has to be counted.
CheckRoot(r) ==
    /\ at[r] = "root"
    /\ ~SettledEarly(r) /\ as(r) = "super_admin"
    /\ IF IsRoot(target(r))
       THEN End(r)
       ELSE /\ GoTo(r, IF current(r) = "super_admin" THEN "count" ELSE "write")
            /\ UNCHANGED <<roleLock, request>>
    /\ UNCHANGED <<profiles, setupChecked, faults, interventions>>

\* activeSuperAdmins: the last one is a conflict.
Count(r) ==
    /\ at[r] = "count"
    /\ IF Enough
       THEN GoTo(r, "write") /\ UNCHANGED <<roleLock, request>>
       ELSE End(r)
    /\ UNCHANGED <<profiles, setupChecked, faults, interventions>>

\* The UPDATE and the COMMIT.
Write(r) ==
    /\ at[r] = "write"
    /\ \/ /\ next(r) = Deactivated
          /\ active' = active \ {target(r)}
          /\ UNCHANGED role
       \/ /\ next(r) # Deactivated
          /\ role' = [role EXCEPT ![target(r)] = next(r)]
          /\ UNCHANGED active
    /\ End(r)
    /\ UNCHANGED <<population, setupChecked, faults, interventions>>

\* A statement fails or the process dies: the transaction is rolled back.
Fail(r) ==
    /\ at[r] \in InTransaction
    /\ faults < MaxFaults
    /\ faults' = faults + 1
    /\ End(r)
    /\ UNCHANGED <<profiles, setupChecked, interventions>>

-----------------------------------------------------------------------------
(* The writers that do not take the lock.                                  *)

\* A new profile, the youngest one.
Create(newRole) ==
    /\ population < MaxUsers
    /\ population' = population + 1
    /\ role' = [role EXCEPT ![population + 1] = newRole]
    /\ active' = active \cup {population + 1}
    /\ UNCHANGED <<roleLock, at, request, faults, interventions>>

\* redeemInvitation inserts the profile of a new account.
Join == Create("user") /\ UNCHANGED setupChecked

\* createFirstSuperAdmin, of module Setup: under a lock of its own it looks for
\* an active super_admin.
CheckSetup ==
    /\ SuperAdmins = {}
    /\ setupChecked' = TRUE
    /\ UNCHANGED <<profiles, roleLock, at, request, faults, interventions>>

\* It inserts the profile and commits, or is rolled back.
EndSetup ==
    /\ setupChecked
    /\ setupChecked' = FALSE
    /\ \/ Create("super_admin")
       \/ UNCHANGED <<profiles, roleLock, at, request, faults, interventions>>

\* The sole super_admin is deactivated in the database.
Intervene(u) ==
    /\ interventions < MaxInterventions
    /\ SuperAdmins = {u}
    /\ active' = active \ {u}
    /\ interventions' = interventions + 1
    /\ UNCHANGED <<population, role, roleLock, at, request, setupChecked, faults>>

-----------------------------------------------------------------------------
Step(r) ==
    \/ Read(r) \/ Forbid(r) \/ SkipChecks(r) \/ CheckRoot(r) \/ Count(r)
    \/ Write(r)

Next ==
    \/ \E r \in Requests :
        \/ \E u, t \in Users, n \in Roles \cup {Deactivated} : Resolve(r, u, t, n)
        \/ Lock(r) \/ Step(r) \/ Fail(r)
    \/ Join \/ CheckSetup \/ EndSetup
    \/ \E u \in Users : Intervene(u)

Spec == Init /\ [][Next]_vars
-----------------------------------------------------------------------------
(* Properties.                                                             *)

\* The root is neither demoted nor deactivated by a request, however requests
\* interleave (users/service.ts: "the root ... cannot be demoted or deactivated").
RootIsKept ==
    [][\A u \in Users : IsRoot(u) /\ interventions' = interventions => u \in SuperAdmins']_vars

\* The request takes the role of super_admin away from its target.
Demotes(r) == current(r) = "super_admin" /\ next(r) # "super_admin"

\* What a request has decided by is still so when it writes, whatever others have done
\* since: its target has the role it read, and a super_admin, active or not, loses it
\* only while two are active (users/service.ts: "two concurrent requests cannot both
\* pass the 'last super_admin' check").
DecisionsStillHold ==
    \A r \in Requests : at[r] = "write" =>
        /\ role[target(r)] = current(r)
        /\ Demotes(r) => Cardinality(SuperAdmins) > 1

\* Somebody becomes or ceases to be super_admin only by a request that is
\* `entitled` to, or by /setup.
SuperAdminChanges(entitled) ==
    \A u \in Users :
        role'[u] # role[u] /\ "super_admin" \in {role[u], role'[u]} =>
            \/ population' = u /\ population # u
            \/ \E r \in Requests : at[r] = "write" /\ at'[r] = "idle" /\ target(r) = u /\ r \in entitled

ResolvedAsSuperAdmin == {r \in Requests : as(r) = "super_admin"}

\* A request resolved for an admin never changes a super_admin role, nor when
\* the target is promoted while the request is under way.  (A super_admin that is
\* demoted meanwhile does: the role of the caller is not read again under the lock.)
AdminsLeaveSuperAdmins == [][SuperAdminChanges(ResolvedAsSuperAdmin)]_vars

-----------------------------------------------------------------------------
(* The inductive invariant.                                                *)

\* What the statements read is still so, because of the lock.
ReadInv == \A r \in Requests :
    /\ at[r] # "idle" => target(r) <= population
    /\ at[r] \in {"root", "count", "write"} => current(r) = role[target(r)]

\* What the checks found is still so, although profiles appear and the sole
\* super_admin may go without the lock.
CheckInv == \A r \in Requests :
    /\ at[r] \in {"count", "write"} =>
        /\ next(r) = current(r) \/ AdminMay(r) \/ as(r) = "super_admin"
        /\ Demotes(r) => ~IsRoot(target(r))
    /\ at[r] = "write" /\ Demotes(r) => Enough

IndInv == TypeOK /\ ReadInv /\ CheckInv
=============================================================================
