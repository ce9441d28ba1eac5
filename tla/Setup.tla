------------------------------- MODULE Setup --------------------------------
(***************************************************************************)
(* Setup: the creation of the first super_admin                            *)
(* (packages/core/src/auth/setup.ts, the route                             *)
(* apps/admin/src/app/api/v1/setup/super-admin/route.ts and                *)
(* apps/admin/src/lib/setup-orphan.ts).                                    *)
(*                                                                         *)
(* POST /setup/super-admin is public.  It creates the Auth user over HTTP  *)
(* and only then, in a transaction under an advisory lock, checks that no  *)
(* active super_admin exists and inserts the profile.  If the transaction  *)
(* fails it deletes the user.  If the email is taken, by a user without a  *)
(* profile who never signed in and while setup is open, it deletes that    *)
(* user, an orphan of a failed install, and tries once more.  Afterwards   *)
(* it signs in and, if it could measure the lifetime of its token, records *)
(* it in the settings in the name of the new super_admin: as long as the   *)
(* settings name that profile it cannot be deleted.                        *)
(***************************************************************************)
EXTENDS Integers, FiniteSets

CONSTANTS
    Requests,       \* concurrent executions of the route
    Emails,         \* addresses they ask for
    MaxAccounts,    \* bound: ids of auth.users are 1..MaxAccounts
    MaxFaults,      \* bound: crashes, failed calls and lost answers
    MaxRecoveries   \* bound: times an operator deactivates the super_admin

Accounts == 1..MaxAccounts
NoEmail == "no account"
Nobody == "nobody"

ASSUME SetupAssumption ==
    /\ MaxAccounts \in Nat \ {0}
    /\ MaxFaults \in Nat
    /\ MaxRecoveries \in Nat
    /\ NoEmail \notin Emails
    /\ Nobody \notin Requests

VARIABLES
    email,        \* auth.users
    fresh,        \* the next id of auth.users
    profile,      \* public.profiles: a super_admin, active or deactivated
    signedIn,     \* last_sign_in_at is not null
    audited,      \* settings.updated_by refers to the profile
    answered,     \* history: the accounts there are whose setup was answered 201
    named,        \* history: those the settings refer to, or have referred to
    setupLock,    \* the advisory lock core_setup
    at,           \* where each request is
    wants,        \* its email
    user,         \* the Auth user it created, or the one it found
    orphan,       \* that one has no profile and never signed in
    faults,
    recoveries

histories == <<answered, named>>
accounts == <<email, fresh, profile, signedIn, audited, histories>>
locals == <<wants, user, orphan>>
vars == <<email, fresh, profile, signedIn, audited, answered, named, setupLock,
          at, wants, user, orphan, faults, recoveries>>

Stages == {"idle", "create", "find", "open", "delete", "retry",
           "lock", "check", "insert", "undo", "signIn", "record"}

TypeOK ==
    /\ email \in [Accounts -> Emails \cup {NoEmail}]
    /\ fresh \in 1..(MaxAccounts + 1)
    /\ profile \in [Accounts -> {"none", "active", "deactivated"}]
    /\ signedIn \subseteq Accounts
    /\ audited \subseteq Accounts /\ answered \subseteq Accounts /\ named \subseteq Accounts
    /\ setupLock \in Requests \cup {Nobody}
    /\ at \in [Requests -> Stages]
    /\ wants \in [Requests -> Emails]
    /\ user \in [Requests -> Accounts]
    /\ orphan \in [Requests -> BOOLEAN]
    /\ faults \in 0..MaxFaults
    /\ recoveries \in 0..MaxRecoveries
    \* The advisory lock lasts exactly as long as the transaction.
    /\ \A r \in Requests : setupLock = r <=> at[r] \in {"check", "insert"}

Init ==
    /\ email = [u \in Accounts |-> NoEmail]
    /\ fresh = 1
    /\ profile = [u \in Accounts |-> "none"]
    /\ signedIn = {}
    /\ audited = {} /\ answered = {} /\ named = {}
    /\ setupLock = Nobody
    /\ at = [r \in Requests |-> "idle"]
    /\ wants \in [Requests -> Emails]
    /\ user = [r \in Requests |-> 1]
    /\ orphan = [r \in Requests |-> FALSE]
    /\ faults = 0
    /\ recoveries = 0

-----------------------------------------------------------------------------
SuperAdmins == {u \in Accounts : profile[u] = "active"}

Registered(e) == {u \in Accounts : email[u] = e}

\* Mutant of NoSuperAdmin: the check in the transaction is missing.
Unchecked == TRUE

\* "SELECT id FROM profiles WHERE role = 'super_admin' AND deactivated_at IS NULL".
NoSuperAdmin == SuperAdmins = {}

\* isRecoverableOrphan: what findAuthUser has read, and setup is open.
Recoverable(r) == orphan[r] /\ SuperAdmins = {}

\* COMMIT or ROLLBACK.
Unlocked(r) == IF setupLock = r THEN Nobody ELSE setupLock

\* Mutant of Deletable: settings.updated_by "on delete set null".
AnyDeletable(u) == email[u] # NoEmail

\* The user exists and nothing but cascading rows refers to its profile.
Deletable(u) == email[u] # NoEmail /\ u \notin audited

\* deleteUser: the row of auth.users and, by cascade, the profile.
DeleteAccount(u) ==
    /\ email' = [email EXCEPT ![u] = NoEmail]
    /\ profile' = [profile EXCEPT ![u] = "none"]
    /\ signedIn' = signedIn \ {u}
    /\ answered' = answered \ {u} /\ named' = named \ {u}
    /\ UNCHANGED <<fresh, audited>>

Fault == faults < MaxFaults /\ faults' = faults + 1

\* Mutant of AfterRollback: no deleteUser in the catch block.
WithoutUndo == "idle"

\* Where a transaction that fails leads.
AfterRollback == "undo"

Goto(r, stage) == at' = [at EXCEPT ![r] = stage]

-----------------------------------------------------------------------------
Post(r) ==
    /\ at[r] = "idle"
    /\ \E e \in Emails : wants' = [wants EXCEPT ![r] = e]
    /\ Goto(r, "create")
    /\ UNCHANGED <<accounts, setupLock, user, orphan, faults, recoveries>>

Register(e) ==
    /\ Registered(e) = {}
    /\ fresh <= MaxAccounts
    /\ email' = [email EXCEPT ![fresh] = e]
    /\ fresh' = fresh + 1
    /\ UNCHANGED <<profile, signedIn, audited, histories>>

\* createUser, or its retry after an orphan was deleted.
CreateUser(r) ==
    /\ at[r] \in {"create", "retry"}
    /\ Register(wants[r])
    /\ user' = [user EXCEPT ![r] = fresh]
    /\ Goto(r, "lock")
    /\ UNCHANGED <<setupLock, wants, orphan, faults, recoveries>>

\* The Auth user is created and the answer is lost: the request fails.
CreateUserUnacknowledged(r) ==
    /\ at[r] \in {"create", "retry"}
    /\ Fault
    /\ Register(wants[r])
    /\ Goto(r, "idle")
    /\ UNCHANGED <<setupLock, locals, recoveries>>

\* "already been registered": look at that user, unless this was the retry.
EmailTaken(r) ==
    /\ at[r] \in {"create", "retry"}
    /\ Registered(wants[r]) # {}
    /\ Goto(r, IF at[r] = "create" THEN "find" ELSE "idle")
    /\ UNCHANGED <<accounts, setupLock, locals, faults, recoveries>>

FindAuthUser(r) ==
    /\ at[r] = "find"
    /\ \E u \in Registered(wants[r]) :
        /\ user' = [user EXCEPT ![r] = u]
        /\ orphan' = [orphan EXCEPT ![r] = profile[u] = "none" /\ u \notin signedIn]
    /\ Goto(r, "open")
    /\ UNCHANGED <<accounts, setupLock, wants, faults, recoveries>>

AuthUserVanished(r) ==
    /\ at[r] = "find"
    /\ Registered(wants[r]) = {}
    /\ Goto(r, "idle")
    /\ UNCHANGED <<accounts, setupLock, locals, faults, recoveries>>

\* hasActiveSuperAdmin, in a statement of its own; otherwise a conflict.
CheckOpen(r) ==
    /\ at[r] = "open"
    /\ Goto(r, IF Recoverable(r) THEN "delete" ELSE "idle")
    /\ UNCHANGED <<accounts, setupLock, locals, faults, recoveries>>

DeleteOrphan(r) ==
    /\ at[r] = "delete"
    /\ Deletable(user[r])
    /\ DeleteAccount(user[r])
    /\ Goto(r, "retry")
    /\ UNCHANGED <<setupLock, locals, faults, recoveries>>

\* "setup orphan cleanup failed"
OrphanNotDeleted(r) ==
    /\ at[r] = "delete"
    /\ ~Deletable(user[r])
    /\ Goto(r, "idle")
    /\ UNCHANGED <<accounts, setupLock, locals, faults, recoveries>>

\* BEGIN and pg_advisory_xact_lock.
Lock(r) ==
    /\ at[r] = "lock"
    /\ setupLock = Nobody
    /\ setupLock' = r
    /\ Goto(r, "check")
    /\ UNCHANGED <<accounts, locals, faults, recoveries>>

Check(r) ==
    /\ at[r] = "check"
    /\ NoSuperAdmin
    /\ Goto(r, "insert")
    /\ UNCHANGED <<accounts, setupLock, locals, faults, recoveries>>

\* 409 already_setup
AlreadySetup(r) ==
    /\ at[r] = "check"
    /\ ~NoSuperAdmin
    /\ setupLock' = Unlocked(r)
    /\ Goto(r, AfterRollback)
    /\ UNCHANGED <<accounts, locals, faults, recoveries>>

\* INSERT INTO profiles, and COMMIT.
Insert(r) ==
    /\ email[user[r]] # NoEmail
    /\ profile' = [profile EXCEPT ![user[r]] = "active"]
    /\ setupLock' = Unlocked(r)
    /\ UNCHANGED <<email, fresh, signedIn, audited, histories>>

InsertAndCommit(r) ==
    /\ at[r] = "insert"
    /\ Insert(r)
    /\ Goto(r, "signIn")
    /\ UNCHANGED <<locals, faults, recoveries>>

\* COMMIT happens and its acknowledgement is lost: the catch block runs.
CommitUnacknowledged(r) ==
    /\ at[r] = "insert"
    /\ Fault
    /\ Insert(r)
    /\ Goto(r, AfterRollback)
    /\ UNCHANGED <<locals, recoveries>>

\* The user is gone: the insert violates its foreign key.
UserGone(r) ==
    /\ at[r] = "insert"
    /\ email[user[r]] = NoEmail
    /\ setupLock' = Unlocked(r)
    /\ Goto(r, AfterRollback)
    /\ UNCHANGED <<accounts, locals, faults, recoveries>>

\* The catch block: deleteUser, whose own error is swallowed.
Undo(r) ==
    /\ at[r] = "undo"
    /\ IF Deletable(user[r]) THEN DeleteAccount(user[r]) ELSE UNCHANGED accounts
    /\ Goto(r, "idle")
    /\ UNCHANGED <<setupLock, locals, faults, recoveries>>

UndoFails(r) ==
    /\ at[r] = "undo"
    /\ Fault
    /\ Goto(r, "idle")
    /\ UNCHANGED <<accounts, setupLock, locals, recoveries>>

SignIn(r) ==
    /\ at[r] = "signIn"
    /\ email[user[r]] # NoEmail
    /\ signedIn' = signedIn \cup {user[r]}
    /\ Goto(r, "record")
    /\ UNCHANGED <<email, fresh, profile, audited, histories, setupLock, locals,
                   faults, recoveries>>

\* recordJwtExpiry in the name of u, whose profile the row of the settings refers to.
RecordLifetime(u) ==
    /\ profile[u] # "none"
    /\ audited' = {u}
    /\ named' = named \cup {u}
    /\ UNCHANGED <<email, fresh, profile, signedIn>>

\* The lifetime of the token is recorded, then 201.
RecordJwtExpiry(r) ==
    /\ at[r] = "record"
    /\ RecordLifetime(user[r])
    /\ answered' = answered \cup {user[r]}
    /\ Goto(r, "idle")
    /\ UNCHANGED <<setupLock, locals, faults, recoveries>>

\* The token tells no lifetime: 201 all the same, and nothing is recorded.
AnswerUnrecorded(r) ==
    /\ at[r] = "record"
    /\ answered' = answered \cup {user[r]}
    /\ Goto(r, "idle")
    /\ UNCHANGED <<email, fresh, profile, signedIn, audited, named, setupLock, locals,
                   faults, recoveries>>

\* Its account is gone: "signIn failed", or a foreign key error.
LateFailure(r) ==
    /\ at[r] \in {"signIn", "record"}
    /\ email[user[r]] = NoEmail
    /\ Goto(r, "idle")
    /\ UNCHANGED <<accounts, setupLock, locals, faults, recoveries>>

Crash(r) ==
    /\ at[r] # "idle"
    /\ Fault
    /\ setupLock' = Unlocked(r)
    /\ Goto(r, "idle")
    /\ UNCHANGED <<accounts, locals, recoveries>>

\* The sole super_admin is deactivated in the database: setup opens again.
Reopen(u) ==
    /\ profile[u] = "active"
    /\ recoveries < MaxRecoveries
    /\ profile' = [profile EXCEPT ![u] = "deactivated"]
    /\ recoveries' = recoveries + 1
    /\ UNCHANGED <<email, fresh, signedIn, audited, histories, setupLock, at, locals, faults>>

\* refreshJwtObservation: a render of the wizard records the lifetime that its own
\* session's token has, in the name of that session's user, who may have signed in at the
\* login page.
PageRecords(u) ==
    /\ RecordLifetime(u)
    /\ UNCHANGED <<answered, setupLock, at, locals, faults, recoveries>>

-----------------------------------------------------------------------------
Step(r) ==
    \/ CreateUser(r) \/ EmailTaken(r)
    \/ FindAuthUser(r) \/ AuthUserVanished(r)
    \/ CheckOpen(r) \/ DeleteOrphan(r) \/ OrphanNotDeleted(r)
    \/ Lock(r) \/ Check(r) \/ AlreadySetup(r)
    \/ InsertAndCommit(r) \/ UserGone(r) \/ Undo(r)
    \/ SignIn(r) \/ RecordJwtExpiry(r) \/ AnswerUnrecorded(r) \/ LateFailure(r)

Failure(r) ==
    \/ CreateUserUnacknowledged(r)
    \/ CommitUnacknowledged(r)
    \/ UndoFails(r)
    \/ Crash(r)

Next ==
    \/ \E r \in Requests : Post(r) \/ Step(r) \/ Failure(r)
    \/ \E u \in Accounts : Reopen(u) \/ PageRecords(u)

Spec == Init /\ [][Next]_vars

-----------------------------------------------------------------------------
(* Properties.                                                             *)

\* setup.ts:4-12: however many requests run at once, and whatever emails they carry,
\* one of them creates the super_admin.
OneSuperAdmin == Cardinality(SuperAdmins) <= 1

\* setup.ts:7 "the Auth user is deleted so no orphan is left": without a fault, an Auth
\* user without a profile belongs to a request still under way.
NoOrphans ==
    faults = 0 => \A u \in Accounts :
        email[u] # NoEmail /\ profile[u] = "none" =>
            \E r \in Requests : at[r] \in {"lock", "check", "insert", "undo"} /\ user[r] = u

\* setup.ts:7 deletes only what the failed attempt made: an account whose setup was
\* answered 201 is taken back by no compensation, not even its own run late, only by a
\* recovery that took it for an orphan before it had a profile.  Once the settings have
\* named an account, nobody takes it back until an operator has opened setup again.
AnsweredSetupIsKept ==
    [][\A u \in Accounts : profile[u] # "none" /\ profile'[u] = "none" =>
           /\ u \in answered => \E r \in Requests : at[r] = "delete" /\ user[r] = u
           /\ recoveries = 0 => u \notin named]_vars

\* A request between its check and its insert: the check still holds.
CheckHolds == \A r \in Requests : at[r] = "insert" => SuperAdmins = {}

\* What OneSuperAdmin says, without counting.
AtMostOne == \A u, v \in SuperAdmins : u = v

\* A profile hangs from an Auth user.
ProfilesHaveUsers == \A u \in Accounts : profile[u] # "none" => email[u] # NoEmail

\* The profile the settings refer to exists: it cannot be deleted.
RecordedAccountsExist ==
    \A u \in audited : email[u] # NoEmail /\ profile[u] # "none"

\* A request whose user has no profile yet, and one that has registered its user.
Pending(r) == at[r] \in {"lock", "check", "insert"}
Owns(r) == at[r] \in {"lock", "check", "insert", "undo", "signIn", "record"}

\* Such a user is the request's own, and its setup was not answered.
PendingUsers ==
    /\ \A u \in Accounts : u >= fresh => profile[u] = "none" /\ u \notin answered
    /\ \A r \in Requests : Owns(r) => user[r] < fresh /\ user[r] \notin answered
    /\ \A r \in Requests : Pending(r) => profile[user[r]] = "none"
    /\ \A r, s \in Requests : Owns(r) /\ Owns(s) /\ user[r] = user[s] => r = s

\* Until setup is opened again there is one account with a profile, and the settings
\* that have named it still do.
NamedInv ==
    recoveries = 0 => /\ \A u \in Accounts : profile[u] # "deactivated"
                      /\ named \subseteq audited

\* What the wizard relies on: whichever requests race, crash or clean up after each
\* other, the route creates and withdraws super_admins as its contract says.
Contract == INSTANCE SetupContract WITH account <- profile, recorded <- audited

ImplementsContract == Contract!Spec

\* The inductive invariant behind the theorems of SetupProofs.
IndInv ==
    /\ TypeOK
    /\ CheckHolds
    /\ AtMostOne
    /\ ProfilesHaveUsers
    /\ PendingUsers
    /\ RecordedAccountsExist
    /\ NamedInv
    /\ NoOrphans
=============================================================================
