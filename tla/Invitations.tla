---------------------------- MODULE Invitations -----------------------------
(***************************************************************************)
(* Invitations and their redemption                                        *)
(* (packages/core/src/invitations/service.ts and the Auth adapter          *)
(* apps/admin/src/lib/invitations.ts).                                     *)
(*                                                                         *)
(* Redeeming is a saga over two stores.  The request reads the invitation  *)
(* without a lock, finds or creates the Auth user over HTTP, and then runs *)
(* one transaction that locks the invitation, checks it again and writes   *)
(* the profile, the category membership, the module grants, used_at and    *)
(* the event.  If the transaction fails, it deletes the Auth user it       *)
(* created; profile, membership and grants go with it (on delete cascade). *)
(*                                                                         *)
(* What an invitation gives, its category and its modules, is a set of     *)
(* perks.  A refused preflight changes nothing and is left out, so is a    *)
(* request whose email is not the invitation's.                            *)
(***************************************************************************)
EXTENDS Integers, Sequences, FiniteSets

CONSTANTS
    Invitations,   \* rows of public.invitations
    EmailOf,       \* the address an invitation is bound to
    PerksOf,       \* the category and the modules it gives
    Redeemers,     \* concurrent executions of redeemInvitation
    MaxAccounts,   \* bound: ids of auth.users are 1..MaxAccounts
    Members,       \* email of each account that exists, with a profile, at the start
    MaxFaults      \* bound: crashes, failed calls and lost answers

Accounts == 1..MaxAccounts
Emails == {EmailOf[i] : i \in Invitations} \cup {Members[u] : u \in DOMAIN Members}
Perks == UNION {PerksOf[i] : i \in Invitations}

NoEmail == "no account"
Nobody == "nobody"

ASSUME InvitationsAssumption ==
    /\ Invitations # {}
    /\ MaxAccounts \in Nat \ {0}
    /\ MaxFaults \in Nat
    /\ DOMAIN Members = 1..Cardinality(DOMAIN Members)
    /\ DOMAIN Members \subseteq Accounts
    /\ \A u, v \in DOMAIN Members : Members[u] = Members[v] => u = v
    /\ NoEmail \notin Emails
    /\ Nobody \notin Redeemers

VARIABLES
    row,          \* state of each row; expires_at apart
    expired,      \* invitations whose expires_at has passed
    locked,       \* whose transaction holds the row ("for update")
    redemptions,  \* payload.user_id of the invitation.redeemed events of a row
    email,        \* auth.users
    fresh,        \* the next id of auth.users
    profile,      \* public.profiles
    access,       \* memberships and unrevoked grants of each account
    at,           \* where each redeemer is in redeemInvitation
    inv,          \* the invitation its token belongs to
    user,         \* its userId
    created,      \* createdUserId is not null
    faults

rows == <<row, expired, locked, redemptions>>
accounts == <<email, fresh, profile, access>>
locals == <<inv, user, created>>
vars == <<row, expired, locked, redemptions, email, fresh, profile, access,
          at, inv, user, created, faults>>

Stages == {"idle", "find", "create", "refind", "lock", "check", "write", "undo"}

TypeOK ==
    /\ row \in [Invitations -> {"absent", "pending", "revoked", "used", "purged"}]
    /\ expired \subseteq Invitations
    /\ locked \in [Invitations -> Redeemers \cup {Nobody}]
    /\ redemptions \in [Invitations -> Seq(Accounts)]
    /\ email \in [Accounts -> Emails \cup {NoEmail}]
    /\ fresh \in 1..(MaxAccounts + 1)
    /\ profile \in [Accounts -> {"none", "active", "deactivated"}]
    /\ access \in [Accounts -> SUBSET Perks]
    /\ at \in [Redeemers -> Stages]
    /\ inv \in [Redeemers -> Invitations]
    /\ user \in [Redeemers -> Accounts]
    /\ created \in [Redeemers -> BOOLEAN]
    /\ faults \in 0..MaxFaults
    \* The foreign keys: access hangs from a profile, a profile from an Auth user.
    /\ \A u \in Accounts : access[u] # {} => profile[u] # "none"
    /\ \A u \in Accounts : profile[u] # "none" => email[u] # NoEmail

Init ==
    /\ row = [i \in Invitations |-> "absent"]
    /\ expired = {}
    /\ locked = [i \in Invitations |-> Nobody]
    /\ redemptions = [i \in Invitations |-> <<>>]
    /\ email = [u \in Accounts |-> IF u \in DOMAIN Members THEN Members[u] ELSE NoEmail]
    /\ fresh = Cardinality(DOMAIN Members) + 1
    /\ profile = [u \in Accounts |-> IF u \in DOMAIN Members THEN "active" ELSE "none"]
    /\ access = [u \in Accounts |-> {}]
    /\ at = [r \in Redeemers |-> "idle"]
    /\ inv = [r \in Redeemers |-> CHOOSE i \in Invitations : TRUE]
    /\ user = [r \in Redeemers |-> 1]
    /\ created = [r \in Redeemers |-> FALSE]
    /\ faults = 0

-----------------------------------------------------------------------------
\* assertRedeemable: not used, not revoked, not expired.
Redeemable(i) == row[i] = "pending" /\ i \notin expired

\* Mutant of StillRedeemable: the preflight is trusted.
PreflightTrusted(i) == TRUE

\* The check under the row lock; the row may also have been purged meanwhile.
StillRedeemable(i) == Redeemable(i)

Registered(e) == {u \in Accounts : email[u] = e}

\* Mutant of Owned: a failed redemption deletes whatever account it used.
AnyOwned(r) == TRUE

\* Mutant of Owned: a failed redemption deletes nothing.
NeverOwned(r) == FALSE

\* The account is this call's to delete.
Owned(r) == created[r]

\* Mutant of Unlocked: the transaction is not rolled back.
StillLocked(r) == locked

\* ROLLBACK or COMMIT.
Unlocked(r) == [i \in Invitations |-> IF locked[i] = r THEN Nobody ELSE locked[i]]

\* The transaction throws: it is rolled back and the catch block runs.
Abort(r) ==
    /\ locked' = Unlocked(r)
    /\ at' = [at EXCEPT ![r] = IF Owned(r) THEN "undo" ELSE "idle"]
    /\ UNCHANGED <<row, expired, redemptions, accounts, locals>>

\* auth.users loses a row; everything that references it goes too.
DeleteAccount(u) ==
    /\ email' = [email EXCEPT ![u] = NoEmail]
    /\ profile' = [profile EXCEPT ![u] = "none"]
    /\ access' = [access EXCEPT ![u] = {}]
    /\ UNCHANGED fresh

Fault == faults < MaxFaults /\ faults' = faults + 1

-----------------------------------------------------------------------------
(* The invitation itself: POST and DELETE /invitations, time, and the      *)
(* purge.  An UPDATE or DELETE of a row waits for the lock on it.          *)

Create(i) ==
    /\ row[i] = "absent"
    /\ row' = [row EXCEPT ![i] = "pending"]
    /\ UNCHANGED <<expired, locked, redemptions, accounts, at, locals, faults>>

Revoke(i) ==
    /\ row[i] = "pending"
    /\ locked[i] = Nobody
    /\ row' = [row EXCEPT ![i] = "revoked"]
    /\ UNCHANGED <<expired, locked, redemptions, accounts, at, locals, faults>>

Expire(i) ==
    /\ row[i] \notin {"absent", "purged"}
    /\ i \notin expired
    /\ expired' = expired \cup {i}
    /\ UNCHANGED <<row, locked, redemptions, accounts, at, locals, faults>>

\* Thirty days after its creation, if used, revoked or expired.
Purge(i) ==
    /\ row[i] \in {"used", "revoked"} \/ (row[i] = "pending" /\ i \in expired)
    /\ locked[i] = Nobody
    /\ row' = [row EXCEPT ![i] = "purged"]
    /\ UNCHANGED <<expired, locked, redemptions, accounts, at, locals, faults>>

(* What administrators do to accounts meanwhile.                           *)

DeactivateUser(u) ==
    /\ profile[u] = "active"
    /\ profile' = [profile EXCEPT ![u] = "deactivated"]
    /\ UNCHANGED <<rows, email, fresh, access, at, locals, faults>>

RevokeAccess(u, p) ==
    /\ p \in access[u]
    /\ access' = [access EXCEPT ![u] = @ \ {p}]
    /\ UNCHANGED <<rows, email, fresh, profile, at, locals, faults>>

-----------------------------------------------------------------------------
(* redeemInvitation.                                                       *)

\* The read without a lock.
Preflight(r) ==
    /\ at[r] = "idle"
    /\ \E i \in Invitations : Redeemable(i) /\ inv' = [inv EXCEPT ![r] = i]
    /\ at' = [at EXCEPT ![r] = "find"]
    /\ created' = [created EXCEPT ![r] = FALSE]
    /\ UNCHANGED <<rows, accounts, user, faults>>

\* findUserByEmail, before createUser or after it said "already registered".
FindUser(r) ==
    /\ at[r] \in {"find", "refind"}
    /\ \E u \in Registered(EmailOf[inv[r]]) : user' = [user EXCEPT ![r] = u]
    /\ at' = [at EXCEPT ![r] = "lock"]
    /\ UNCHANGED <<rows, accounts, inv, created, faults>>

UserNotFound(r) ==
    /\ at[r] \in {"find", "refind"}
    /\ Registered(EmailOf[inv[r]]) = {}
    /\ at' = [at EXCEPT ![r] = IF @ = "find" THEN "create" ELSE "idle"]
    /\ UNCHANGED <<rows, accounts, locals, faults>>

Register(e) ==
    /\ Registered(e) = {}
    /\ fresh <= MaxAccounts
    /\ email' = [email EXCEPT ![fresh] = e]
    /\ fresh' = fresh + 1
    /\ UNCHANGED <<profile, access>>

CreateUser(r) ==
    /\ at[r] = "create"
    /\ Register(EmailOf[inv[r]])
    /\ user' = [user EXCEPT ![r] = fresh]
    /\ created' = [created EXCEPT ![r] = TRUE]
    /\ at' = [at EXCEPT ![r] = "lock"]
    /\ UNCHANGED <<rows, inv, faults>>

\* "already been registered": another request was first.
CreateUserTaken(r) ==
    /\ at[r] = "create"
    /\ Registered(EmailOf[inv[r]]) # {}
    /\ at' = [at EXCEPT ![r] = "refind"]
    /\ UNCHANGED <<rows, accounts, locals, faults>>

\* Any other error of the Auth API ends the request.
CreateUserRefused(r) ==
    /\ at[r] = "create"
    /\ at' = [at EXCEPT ![r] = "idle"]
    /\ UNCHANGED <<rows, accounts, locals, faults>>

\* The Auth user is created and the answer is lost: "createUser failed".
CreateUserUnacknowledged(r) ==
    /\ at[r] = "create"
    /\ Fault
    /\ Register(EmailOf[inv[r]])
    /\ at' = [at EXCEPT ![r] = "idle"]
    /\ UNCHANGED <<rows, locals>>

\* "select ... for update" returns; assertRedeemable again.
LockInvitation(r) ==
    /\ at[r] = "lock"
    /\ locked[inv[r]] = Nobody
    /\ StillRedeemable(inv[r])
    /\ locked' = [locked EXCEPT ![inv[r]] = r]
    /\ at' = [at EXCEPT ![r] = "check"]
    /\ UNCHANGED <<row, expired, redemptions, accounts, locals, faults>>

LockedTooLate(r) ==
    /\ at[r] = "lock"
    /\ locked[inv[r]] = Nobody
    /\ ~StillRedeemable(inv[r])
    /\ Abort(r)
    /\ UNCHANGED faults

\* select deactivated_at: a deactivated account is a conflict.
CheckProfile(r) ==
    /\ at[r] = "check"
    /\ profile[user[r]] # "deactivated"
    /\ at' = [at EXCEPT ![r] = "write"]
    /\ UNCHANGED <<rows, accounts, locals, faults>>

AccountDeactivated(r) ==
    /\ at[r] = "check"
    /\ profile[user[r]] = "deactivated"
    /\ Abort(r)
    /\ UNCHANGED faults

\* The writes, and COMMIT.  They take locks on the account, so that a deletion of it
\* comes before them or after the commit.
Write(r) ==
    /\ email[user[r]] # NoEmail
    /\ profile' = [profile EXCEPT ![user[r]] = IF @ = "none" THEN "active" ELSE @]
    /\ access' = [access EXCEPT ![user[r]] = @ \cup PerksOf[inv[r]]]
    /\ row' = [row EXCEPT ![inv[r]] = "used"]
    /\ redemptions' = [redemptions EXCEPT ![inv[r]] = Append(@, user[r])]
    /\ locked' = Unlocked(r)
    /\ UNCHANGED <<expired, email, fresh>>

WriteAndCommit(r) ==
    /\ at[r] = "write"
    /\ Write(r)
    /\ at' = [at EXCEPT ![r] = "idle"]
    /\ UNCHANGED <<locals, faults>>

\* COMMIT happens and its acknowledgement is lost: the catch block runs.
CommitUnacknowledged(r) ==
    /\ at[r] = "write"
    /\ Fault
    /\ Write(r)
    /\ at' = [at EXCEPT ![r] = IF Owned(r) THEN "undo" ELSE "idle"]
    /\ UNCHANGED locals

\* The account is gone: the insert into profiles violates its foreign key.
AccountGone(r) ==
    /\ at[r] = "write"
    /\ email[user[r]] = NoEmail
    /\ Abort(r)
    /\ UNCHANGED faults

\* The pool has no connection, or the database refuses a statement.
StatementFails(r) ==
    /\ at[r] \in {"lock", "check", "write"}
    /\ Fault
    /\ Abort(r)

\* The catch block deletes the account this call created ...
Undo(r) ==
    /\ at[r] = "undo"
    /\ DeleteAccount(user[r])
    /\ at' = [at EXCEPT ![r] = "idle"]
    /\ UNCHANGED <<rows, locals, faults>>

\* ... and swallows the error if it cannot.
UndoFails(r) ==
    /\ at[r] = "undo"
    /\ Fault
    /\ at' = [at EXCEPT ![r] = "idle"]
    /\ UNCHANGED <<rows, accounts, locals>>

\* The process dies: the database rolls its transaction back, Auth keeps what it has.
Crash(r) ==
    /\ at[r] # "idle"
    /\ Fault
    /\ locked' = Unlocked(r)
    /\ at' = [at EXCEPT ![r] = "idle"]
    /\ UNCHANGED <<row, expired, redemptions, accounts, locals>>

-----------------------------------------------------------------------------
Step(r) ==
    \/ FindUser(r) \/ UserNotFound(r)
    \/ CreateUser(r) \/ CreateUserTaken(r) \/ CreateUserRefused(r)
    \/ LockInvitation(r) \/ LockedTooLate(r)
    \/ CheckProfile(r) \/ AccountDeactivated(r)
    \/ WriteAndCommit(r) \/ AccountGone(r)
    \/ Undo(r)

Failure(r) ==
    \/ CreateUserUnacknowledged(r)
    \/ CommitUnacknowledged(r)
    \/ StatementFails(r)
    \/ UndoFails(r)
    \/ Crash(r)

Next ==
    \/ \E i \in Invitations : Create(i) \/ Revoke(i) \/ Expire(i) \/ Purge(i)
    \/ \E u \in Accounts : DeactivateUser(u) \/ \E p \in Perks : RevokeAccess(u, p)
    \/ \E r \in Redeemers : Preflight(r) \/ Step(r) \/ Failure(r)

Spec == Init /\ [][Next]_vars

\* A request that has started runs on, unless its process dies.
FairSpec == Spec /\ \A r \in Redeemers : SF_vars(Step(r))

-----------------------------------------------------------------------------
(* Properties.                                                             *)

\* service.ts:9 "redemption is single-use": however many requests carry the token, one
\* account gets what it gives, once.
SingleUse == \A i \in Invitations : Len(redemptions[i]) <= 1

\* A revocation that was answered holds: no request that read the invitation before it
\* redeems the invitation after it.
RevokedIsNotRedeemed ==
    [][\A i \in Invitations : row[i] = "revoked" => redemptions'[i] = redemptions[i]]_vars

\* "Never leave an Auth user behind when the database transaction fails": without a
\* fault, an Auth user without a profile belongs to a request still under way.
NoOrphans ==
    faults = 0 => \A u \in Accounts :
        email[u] # NoEmail /\ profile[u] = "none" =>
            \E r \in Redeemers : at[r] # "idle" /\ user[r] = u /\ created[r]

\* A request that fails never deletes an account it found.
MembersSurvive == \A u \in DOMAIN Members : email[u] = Members[u]

\* Requests that wait for each other's row lock are all answered.
EveryRequestEnds == \A r \in Redeemers : at[r] # "idle" ~> at[r] = "idle"

\* task-03 "una carrera de email no puede borrar una cuenta existente": an account that
\* has a profile keeps it.
AccountsWithProfileSurvive ==
    [][\A u \in Accounts : profile[u] # "none" => profile'[u] # "none"]_vars

\* A redeemer past the re-check holds the row's lock, and the row is still pending.
LockInv == \A r \in Redeemers :
    at[r] \in {"check", "write"} => locked[inv[r]] = r /\ row[inv[r]] = "pending"

\* A row that is not used has given nothing.
RedemptionInv == \A i \in Invitations :
    row[i] \in {"absent", "pending"} => redemptions[i] = <<>>

\* What a redeemer calls its own is an account it created, after the members' ones.
OwnInv ==
    /\ \A u \in DOMAIN Members : u < fresh
    /\ \A r \in Redeemers :
        /\ created[r] => user[r] \notin DOMAIN Members
        /\ at[r] \in {"find", "create", "refind"} => ~created[r]
        /\ at[r] = "undo" => created[r]

\* The inductive invariant behind the theorems of InvitationsProofs.
IndInv ==
    /\ TypeOK
    /\ LockInv
    /\ RedemptionInv
    /\ OwnInv
    /\ SingleUse
    /\ MembersSurvive
    /\ NoOrphans
=============================================================================
