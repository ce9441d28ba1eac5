---------------------------- MODULE Credentials -----------------------------
(***************************************************************************)
(* Delegated API keys and devices (packages/core/src/api-keys/service.ts   *)
(* and packages/core/src/devices/service.ts), how a request is resolved    *)
(* with them (packages/core/src/auth/caller.ts) and how a deactivation     *)
(* revokes them (deactivateUser in packages/core/src/users/service.ts).    *)
(*                                                                         *)
(* The handlers of keys and devices run without a transaction, statement   *)
(* by statement; a revocation reads the row first and updates it later.    *)
(* The deactivation is one READ COMMITTED transaction: its updates lock    *)
(* the rows they meet, but a row inserted after them is not met, and the   *)
(* foreign key of the new row does not wait for the profile.               *)
(*                                                                         *)
(* Rows are told apart by the key, and for devices by the push token.      *)
(* Service keys belong to no user and are left out; so are expiry, which   *)
(* is a condition of the statement that tests revocation, and the purge.   *)
(***************************************************************************)
EXTENDS Integers, FiniteSets

CONSTANTS
    Requests,    \* concurrent requests
    Users,
    Admins,      \* those whose role is admin or super_admin
    SuperAdmins, \* those whose role is super_admin
    Keys,        \* keys that are ever issued
    Tokens,      \* push tokens of phones
    NoUser, NoKey, NoToken

ASSUME CredentialsAssumption ==
    /\ SuperAdmins \subseteq Admins /\ Admins \subseteq Users
    /\ NoUser \notin Users /\ NoKey \notin Keys /\ NoToken \notin Tokens

VARIABLES
    active,         \* profiles with deactivated_at null
    keyOwner,       \* api_keys.user_id, NoUser before the key is issued
    keyRevoked,     \* api_keys with revoked_at
    deviceOwner,    \* devices.user_id
    deviceRevoked,  \* devices with revoked_at
    leaving,        \* the user a transaction deactivates
    step,           \* its next statement
    doomedKeys,     \* the rows it has updated and not yet committed
    doomedDevices,
    at,             \* where each request is
    caller,         \* its user
    key,            \* the key it presents, or the one it is to revoke
    token,          \* the device it is to revoke
    owner,          \* whose it was when its row was read
    late            \* it arrived when its user or its key was already refused

rows == <<active, keyOwner, keyRevoked, deviceOwner, deviceRevoked>>
deactivation == <<leaving, step, doomedKeys, doomedDevices>>
requests == <<at, caller, key, token, owner, late>>
vars == <<active, keyOwner, keyRevoked, deviceOwner, deviceRevoked,
          leaving, step, doomedKeys, doomedDevices, at, caller, key, token, owner, late>>

TypeOK ==
    /\ active \subseteq Users
    /\ keyOwner \in [Keys -> Users \cup {NoUser}]
    /\ keyRevoked \subseteq {k \in Keys : keyOwner[k] # NoUser}
    /\ deviceOwner \in [Tokens -> Users \cup {NoUser}]
    /\ deviceRevoked \subseteq {d \in Tokens : deviceOwner[d] # NoUser}
    /\ leaving \in Users \cup {NoUser}
    /\ step \in {"none", "keys", "devices", "commit"}
    /\ doomedKeys \subseteq {k \in Keys : keyOwner[k] = leaving}
    /\ doomedDevices \subseteq {d \in Tokens : deviceOwner[d] = leaving}
    /\ at \in [Requests -> {"idle", "key", "profile", "handler", "revokeKey", "revokeDevice"}]
    /\ caller \in [Requests -> Users \cup {NoUser}]
    /\ key \in [Requests -> Keys \cup {NoKey}]
    /\ token \in [Requests -> Tokens \cup {NoToken}]
    /\ owner \in [Requests -> Users \cup {NoUser}]
    /\ late \in [Requests -> BOOLEAN]

Init ==
    /\ active = Users
    /\ keyOwner = [k \in Keys |-> NoUser]
    /\ keyRevoked = {}
    /\ deviceOwner = [d \in Tokens |-> NoUser]
    /\ deviceRevoked = {}
    /\ leaving = NoUser
    /\ step = "none"
    /\ doomedKeys = {}
    /\ doomedDevices = {}
    /\ at = [r \in Requests |-> "idle"]
    /\ caller = [r \in Requests |-> NoUser]
    /\ key = [r \in Requests |-> NoKey]
    /\ token = [r \in Requests |-> NoToken]
    /\ owner = [r \in Requests |-> NoUser]
    /\ late = [r \in Requests |-> FALSE]

-----------------------------------------------------------------------------
\* Mutant of Usable: revocation is looked up only when the key is listed.
Issued(k) == keyOwner[k] # NoUser

\* resolveApiKey: "key_hash = $1 and revoked_at is null".
Usable(k) == keyOwner[k] # NoUser /\ k \notin keyRevoked

\* getRole and isActive; both look at deactivated_at.
Known(u) == u \in active

\* Mutant of KeyVisible: any caller finds any key.
AnyKey(u, k) == keyOwner[k] # NoUser

\* findVisibleKey: the owner and the super_admins.
KeyVisible(u, k) == keyOwner[k] # NoUser /\ (u \in SuperAdmins \/ keyOwner[k] = u)

\* revokeDevice: the owner and the admins.
DeviceVisible(u, d) == deviceOwner[d] # NoUser /\ (u \in Admins \/ deviceOwner[d] = u)

LiveKeysOf(u) == {k \in Keys : keyOwner[k] = u /\ k \notin keyRevoked}
LiveDevicesOf(u) == {d \in Tokens : deviceOwner[d] = u /\ d \notin deviceRevoked}

\* The answer.
End(r) ==
    /\ at' = [at EXCEPT ![r] = "idle"]
    /\ caller' = [caller EXCEPT ![r] = NoUser]
    /\ key' = [key EXCEPT ![r] = NoKey]
    /\ token' = [token EXCEPT ![r] = NoToken]
    /\ owner' = [owner EXCEPT ![r] = NoUser]
    /\ late' = [late EXCEPT ![r] = FALSE]

-----------------------------------------------------------------------------
(* resolveCaller.                                                          *)

\* A session: Supabase vouches for the user.
Arrive(r, u) ==
    /\ at[r] = "idle"
    /\ at' = [at EXCEPT ![r] = "profile"]
    /\ caller' = [caller EXCEPT ![r] = u]
    /\ late' = [late EXCEPT ![r] = u \notin active]
    /\ UNCHANGED <<rows, deactivation, key, token, owner>>

\* A machine token that was issued at some time.
Present(r, k) ==
    /\ at[r] = "idle"
    /\ keyOwner[k] # NoUser
    /\ at' = [at EXCEPT ![r] = "key"]
    /\ key' = [key EXCEPT ![r] = k]
    /\ late' = [late EXCEPT ![r] = k \in keyRevoked \/ keyOwner[k] \notin active]
    /\ UNCHANGED <<rows, deactivation, caller, token, owner>>

\* resolveApiKey, or unauthorized.
ResolveKey(r) ==
    /\ at[r] = "key"
    /\ IF Usable(key[r])
       THEN /\ at' = [at EXCEPT ![r] = "profile"]
            /\ caller' = [caller EXCEPT ![r] = keyOwner[key[r]]]
            /\ UNCHANGED <<key, token, owner, late>>
       ELSE End(r)
    /\ UNCHANGED <<rows, deactivation>>

\* The role and the state of the profile, or unauthorized.
ReadProfile(r) ==
    /\ at[r] = "profile"
    /\ IF Known(caller[r])
       THEN at' = [at EXCEPT ![r] = "handler"] /\ UNCHANGED <<caller, key, token, owner, late>>
       ELSE End(r)
    /\ UNCHANGED <<rows, deactivation>>

-----------------------------------------------------------------------------
(* The handlers.                                                           *)

\* createApiKey, of a delegated key.
CreateApiKey(r, k) ==
    /\ at[r] = "handler"
    /\ keyOwner[k] = NoUser
    /\ keyOwner' = [keyOwner EXCEPT ![k] = caller[r]]
    /\ End(r)
    /\ UNCHANGED <<active, keyRevoked, deviceOwner, deviceRevoked, deactivation>>

\* revokeApiKey: findVisibleKey; a key that is revoked already is done.
FindKey(r, k) ==
    /\ at[r] = "handler"
    /\ IF KeyVisible(caller[r], k) /\ k \notin keyRevoked
       THEN /\ at' = [at EXCEPT ![r] = "revokeKey"]
            /\ key' = [key EXCEPT ![r] = k]
            /\ UNCHANGED <<caller, token, owner, late>>
       ELSE End(r)
    /\ UNCHANGED <<rows, deactivation>>

\* revokeApiKey: the update, which waits for the row.
RevokeApiKey(r) ==
    /\ at[r] = "revokeKey"
    /\ key[r] \notin doomedKeys
    /\ keyRevoked' = keyRevoked \cup {key[r]}
    /\ End(r)
    /\ UNCHANGED <<active, keyOwner, deviceOwner, deviceRevoked, deactivation>>

\* registerDevice: the token is the caller's now, and no longer revoked.
RegisterDevice(r, d) ==
    /\ at[r] = "handler"
    /\ d \notin doomedDevices
    /\ deviceOwner' = [deviceOwner EXCEPT ![d] = caller[r]]
    /\ deviceRevoked' = deviceRevoked \ {d}
    /\ End(r)
    /\ UNCHANGED <<active, keyOwner, keyRevoked, deactivation>>

\* revokeDevice: the row is read and its owner compared with the caller.
FindDevice(r, d) ==
    /\ at[r] = "handler"
    /\ IF DeviceVisible(caller[r], d) /\ d \notin deviceRevoked
       THEN /\ at' = [at EXCEPT ![r] = "revokeDevice"]
            /\ token' = [token EXCEPT ![r] = d]
            /\ owner' = [owner EXCEPT ![r] = deviceOwner[d]]
            /\ UNCHANGED <<caller, key, late>>
       ELSE End(r)
    /\ UNCHANGED <<rows, deactivation>>

\* revokeDevice: the update by id, which waits for the row.
RevokeDevice(r) ==
    /\ at[r] = "revokeDevice"
    /\ token[r] \notin doomedDevices
    /\ deviceRevoked' = deviceRevoked \cup {token[r]}
    /\ End(r)
    /\ UNCHANGED <<active, keyOwner, keyRevoked, deviceOwner, deactivation>>

\* publishPending: the update of the tokens that the push service calls invalid,
\* which waits for their rows.
RevokeInvalid(S) ==
    /\ S \cap doomedDevices = {}
    /\ deviceRevoked' = deviceRevoked \cup {d \in S : deviceOwner[d] # NoUser}
    /\ UNCHANGED <<active, keyOwner, keyRevoked, deviceOwner, deactivation, requests>>

-----------------------------------------------------------------------------
(* deactivateUser, of module Users, statement by statement.                *)

\* The profile, unless it is the last active super_admin's; nobody sees it before
\* the commit.
BeginDeactivation(u) ==
    /\ step = "none"
    /\ u \in SuperAdmins => Cardinality(SuperAdmins \cap active) > 1
    /\ leaving' = u
    /\ step' = "keys"
    /\ UNCHANGED <<rows, requests, doomedKeys, doomedDevices>>

DoomKeys ==
    /\ step = "keys"
    /\ doomedKeys' = LiveKeysOf(leaving)
    /\ step' = "devices"
    /\ UNCHANGED <<rows, requests, leaving, doomedDevices>>

DoomDevices ==
    /\ step = "devices"
    /\ doomedDevices' = LiveDevicesOf(leaving)
    /\ step' = "commit"
    /\ UNCHANGED <<rows, requests, leaving, doomedKeys>>

\* COMMIT or ROLLBACK.
Done ==
    /\ leaving' = NoUser
    /\ step' = "none"
    /\ doomedKeys' = {}
    /\ doomedDevices' = {}

CommitDeactivation ==
    /\ step = "commit"
    /\ active' = active \ {leaving}
    /\ keyRevoked' = keyRevoked \cup doomedKeys
    /\ deviceRevoked' = deviceRevoked \cup doomedDevices
    /\ Done
    /\ UNCHANGED <<keyOwner, deviceOwner, requests>>

RollbackDeactivation ==
    /\ step # "none"
    /\ Done
    /\ UNCHANGED <<rows, requests>>

-----------------------------------------------------------------------------
Next ==
    \/ \E r \in Requests :
        \/ \E u \in Users : Arrive(r, u)
        \/ ResolveKey(r) \/ ReadProfile(r)
        \/ \E k \in Keys : Present(r, k) \/ CreateApiKey(r, k) \/ FindKey(r, k)
        \/ \E d \in Tokens : RegisterDevice(r, d) \/ FindDevice(r, d)
        \/ RevokeApiKey(r) \/ RevokeDevice(r)
    \/ \E S \in SUBSET Tokens : RevokeInvalid(S)
    \/ \E u \in Users : BeginDeactivation(u)
    \/ DoomKeys \/ DoomDevices \/ CommitDeactivation \/ RollbackDeactivation

Spec == Init /\ [][Next]_vars
-----------------------------------------------------------------------------
(* Properties.                                                             *)

\* A request that arrives with a key revoked by then, or for a user deactivated
\* by then, never reaches a handler, although key, role and state are read one
\* after the other (auth/caller.ts: "a revoked key stops working on the very
\* next call").
StaleCallersAreRefused ==
    \A r \in Requests : at[r] \in {"handler", "revokeKey", "revokeDevice"} => ~late[r]

\* The step revokes keys only for their owner, for a super_admin or with the owner.
RevocationsAreEntitled ==
    \A k \in keyRevoked' \ keyRevoked :
        \/ keyOwner[k] = leaving
        \/ \E r \in Requests : /\ at[r] = "revokeKey" /\ key[r] = k
                            /\ caller[r] \in SuperAdmins \cup {keyOwner[k]}

\* A key is revoked by its owner, by a super_admin or with its owner, although
\* its row is read in one statement and updated in another.
KeysAreRevokedByTheirOwner == [][RevocationsAreEntitled]_vars

-----------------------------------------------------------------------------
(* The inductive invariant.                                                *)

\* A transaction has a user, and rows only while it lasts.
DeactivationInv ==
    /\ step # "none" => leaving \in Users
    /\ step = "none" => doomedKeys = {} /\ doomedDevices = {}

\* Who carries a key or a token carries one that exists; a resolved request has
\* a user; and what made a request late still holds where it is refused.
RequestInv == \A r \in Requests :
    /\ at[r] \in {"key", "revokeKey"} => key[r] \in Keys /\ keyOwner[key[r]] \in Users
    /\ at[r] = "revokeDevice" => /\ token[r] \in Tokens /\ deviceOwner[token[r]] \in Users
                             /\ caller[r] \in Admins \cup {owner[r]}
    /\ at[r] \notin {"idle", "key"} => caller[r] \in Users
    /\ at[r] = "key" /\ late[r] => key[r] \in keyRevoked \/ keyOwner[key[r]] \notin active
    /\ at[r] = "profile" /\ late[r] => caller[r] \notin active
    /\ at[r] = "revokeKey" => caller[r] \in SuperAdmins \cup {keyOwner[key[r]]}

IndInv == TypeOK /\ DeactivationInv /\ RequestInv /\ StaleCallersAreRefused
=============================================================================
