-------------------------------- MODULE Door ---------------------------------
(***************************************************************************)
(* The door every /api/v1 route goes through (withDoor in                  *)
(* packages/core/src/api/door.ts): who calls (auth/caller.ts), may it      *)
(* (auth/guard.ts), has it any budget left (api/rate-limit.ts), is the     *)
(* body well formed, and then the handler.  Requests of one process and of *)
(* many run concurrently; every read of the database is a step of its own. *)
(*                                                                         *)
(* Handlers are modelled by their modules; here they are entered and       *)
(* answered.  Keys are issued; that they are revoked or expire is one of   *)
(* the outcomes of looking them up (module Credentials has the rest).      *)
(* Preflights and CORS headers touch no state and are left out.            *)
(*                                                                         *)
(* Windows are numbered minutes of one clock.  A row of                    *)
(* rate_limit_counters expires when its window ends, and rate_limit.purge  *)
(* may delete it at any time after that.                                   *)
(***************************************************************************)
EXTENDS Routes

CONSTANTS
    Requests,   \* concurrent requests
    Users, Addresses,
    Keys,       \* keys that were issued
    KeyOwner,   \* the user of a delegated key, Nobody of a service key
    KeyScopes,  \* api_keys.scopes
    KeyCap,     \* api_keys.role_cap of the service keys
    Called,     \* the routes that are called
    Nobody,     \* the anonymous caller
    MaxArrivals, MaxWindow

Callers == Users \cup Keys \cup {Nobody}

\* keyId and userId are different uuids; a key-paid route needs an instance key.
ASSUME DoorAssumption ==
    /\ Users \cap Keys = {} /\ Nobody \notin Users \cup Keys
    /\ KeyOwner \in [Keys -> Users \cup {Nobody}]
    /\ KeyScopes \in [Keys -> SUBSET ServiceSuperAdminScopes]
    /\ KeyCap \in [Keys -> {"admin", "super_admin"}]
    /\ Called \subseteq DOMAIN Table
    /\ \A n \in Called :
        /\ Table[n].bucket \in {"user", "key", "ip"}
        /\ Table[n].limit \in Nat
        /\ Table[n].bucket = "key" => "maintenance:run" \in Table[n].needs
        /\ "maintenance:run" \in Table[n].needs => Table[n].inner = "instanceKey"
    /\ MaxArrivals \in Nat /\ MaxWindow \in Nat

Windows == 0..MaxWindow
Buckets == {"user", "key", "ip"} \X (Callers \cup Addresses)
Limits == {Table[n].limit : n \in Called}

VARIABLES
    roles,     \* profiles.role, "gone" of a deactivated user
    window,    \* the minute it is
    count,     \* rate_limit_counters, 0 where there is no row
    at,        \* where each request is
    route,     \* what it asks for
    caller,    \* the credential it presents, then the caller it stands for
    address,   \* where it comes from
    role,      \* the role that was read, or the cap of the key
    slot,      \* the window it is counted in
    arrivals,  \* how many requests there were
    held,      \* history: the roles its user had since it arrived
    admitted,  \* history: whom the current window admitted, by bucket and limit
    spent      \* history: requests counted, by window and by who is behind them

profiles == <<roles, held>>
counters == <<window, count, admitted, spent>>
requests == <<at, route, caller, address, role, slot, arrivals>>
vars == <<roles, window, count, at, route, caller, address, role, slot,
          arrivals, held, admitted, spent>>

Stages == {"idle", "token", "key", "profile", "roleRead", "activeRead", "guard",
           "count", "refused", "body", "handler"}

TypeOK ==
    /\ roles \in [Users -> Ranks \cup {"gone"}]
    /\ window \in Windows
    /\ count \in [Buckets -> [Windows -> Nat]]
    /\ at \in [Requests -> Stages]
    /\ route \in [Requests -> Called \cup {"none"}]
    /\ caller \in [Requests -> Callers]
    /\ address \in [Requests -> Addresses \cup {Nobody}]
    /\ role \in [Requests -> Ranks \cup {"gone"}]
    /\ slot \in [Requests -> Windows]
    /\ arrivals \in Nat
    /\ held \in [Requests -> SUBSET Ranks]
    /\ admitted \in [Buckets -> [Limits -> Nat]]
    /\ spent \in [Callers \cup Addresses -> [Windows -> Nat]]

Init ==
    /\ roles \in [Users -> Ranks]
    /\ window = 0
    /\ count = [b \in Buckets |-> [w \in Windows |-> 0]]
    /\ at = [r \in Requests |-> "idle"]
    /\ route = [r \in Requests |-> "none"]
    /\ caller = [r \in Requests |-> Nobody]
    /\ address = [r \in Requests |-> Nobody]
    /\ role = [r \in Requests |-> "gone"]
    /\ slot = [r \in Requests |-> 0]
    /\ arrivals = 0
    /\ held = [r \in Requests |-> {}]
    /\ admitted = [b \in Buckets |-> [l \in Limits |-> 0]]
    /\ spent = [p \in Callers \cup Addresses |-> [w \in Windows |-> 0]]

-----------------------------------------------------------------------------
Needs(r) == Table[route[r]].needs

\* The human behind a credential, if there is one.
UserOf(c) == IF c \in Users THEN c ELSE IF c \in Keys THEN KeyOwner[c] ELSE Nobody

\* Mutant of Available: the roleCap of a delegated key is not applied.
WithoutCap(c, rank) == IF c \in Users THEN SessionScopes[rank] ELSE KeyScopes[c]

\* authorize: a session has the scopes of its role, a key those of its own that
\* its cap allows.  The cap of a delegated key is the role of its owner now.
Available(c, rank) ==
    IF c \in Users THEN SessionScopes[rank] ELSE KeyScopes[c] \cap RoleCapFloor[rank]

\* Mutant of Identity: every key collapses into one bucket.
KeysTogether(r, kind) ==
    CASE kind = "ip" -> address[r]
      [] kind = "user" -> UserOf(caller[r])
      [] OTHER -> Nobody

\* identityFor; Nobody is the bucket 'anonymous'.
Identity(r, kind) ==
    CASE kind = "ip" -> address[r]
      [] kind = "user" -> IF UserOf(caller[r]) # Nobody THEN UserOf(caller[r]) ELSE caller[r]
      [] OTHER -> IF caller[r] \in Keys THEN caller[r] ELSE Nobody

BucketOf(r) == LET kind == Table[route[r]].bucket IN <<kind, Identity(r, kind)>>

\* Who is behind a counted request: an address where the address pays, else the
\* user, the service key, or anybody who does not say.
Party(r) ==
    IF Table[route[r]].bucket = "ip" THEN address[r]
    ELSE IF UserOf(caller[r]) # Nobody THEN UserOf(caller[r])
    ELSE caller[r]

To(r, stage) == at' = [at EXCEPT ![r] = stage]

\* The answer.
End(r) ==
    /\ To(r, "idle")
    /\ route' = [route EXCEPT ![r] = "none"]
    /\ caller' = [caller EXCEPT ![r] = Nobody]
    /\ address' = [address EXCEPT ![r] = Nobody]
    /\ role' = [role EXCEPT ![r] = "gone"]
    /\ slot' = [slot EXCEPT ![r] = 0]
    /\ held' = [held EXCEPT ![r] = {}]
    /\ UNCHANGED <<roles, arrivals>>

-----------------------------------------------------------------------------
(* Who calls: resolveCaller.                                               *)

\* Some routes ask nobody who they are; some callers do not say.
Arrive(r, n, c, a) ==
    /\ at[r] = "idle"
    /\ arrivals < MaxArrivals
    /\ arrivals' = arrivals + 1
    /\ LET says == IF Table[n].inner = "token" THEN Nobody ELSE c IN
        /\ To(r, IF says = Nobody THEN "guard" ELSE IF says \in Keys THEN "key" ELSE "token")
        /\ caller' = [caller EXCEPT ![r] = says]
        /\ held' = [held EXCEPT ![r] = IF UserOf(says) = Nobody THEN {}
                                       ELSE {roles[UserOf(says)]} \ {"gone"}]
    /\ route' = [route EXCEPT ![r] = n]
    /\ address' = [address EXCEPT ![r] = a]
    /\ UNCHANGED <<roles, counters, role, slot>>

\* A credential nobody accepts is 401, but an anonymous caller on public routes.
Unauthorized(r) ==
    /\ IF Needs(r) = {}
       THEN /\ To(r, "guard")
            /\ caller' = [caller EXCEPT ![r] = Nobody]
            /\ UNCHANGED <<profiles, route, address, role, slot, arrivals>>
       ELSE End(r)
    /\ UNCHANGED counters

\* getUser: Supabase vouches for the token, or not.
Verify(r) ==
    /\ at[r] = "token"
    /\ \/ /\ To(r, "profile")
          /\ UNCHANGED <<profiles, counters, route, caller, address, role, slot, arrivals>>
       \/ Unauthorized(r)

\* resolveApiKey: the key, or none that is neither revoked nor expired.
ResolveKey(r) ==
    /\ at[r] = "key"
    /\ \/ /\ IF UserOf(caller[r]) = Nobody
             THEN To(r, "guard") /\ role' = [role EXCEPT ![r] = KeyCap[caller[r]]]
             ELSE To(r, "profile") /\ UNCHANGED role
          /\ UNCHANGED <<profiles, counters, route, caller, address, slot, arrivals>>
       \/ Unauthorized(r)

\* getRole and isActive run side by side; both look at deactivated_at.
ReadRole(r) ==
    /\ at[r] \in {"profile", "activeRead"}
    /\ IF roles[UserOf(caller[r])] = "gone" THEN Unauthorized(r)
       ELSE /\ To(r, IF at[r] = "profile" THEN "roleRead" ELSE "guard")
            /\ role' = [role EXCEPT ![r] = roles[UserOf(caller[r])]]
            /\ UNCHANGED <<profiles, counters, route, caller, address, slot, arrivals>>

ReadActive(r) ==
    /\ at[r] \in {"profile", "roleRead"}
    /\ IF roles[UserOf(caller[r])] = "gone" THEN Unauthorized(r)
       ELSE /\ To(r, IF at[r] = "profile" THEN "activeRead" ELSE "guard")
            /\ UNCHANGED <<profiles, counters, route, caller, address, role, slot, arrivals>>

-----------------------------------------------------------------------------
(* May it: authorize.  And is there any budget left: checkRateLimit.       *)

Authorized(r) ==
    Needs(r) # {} => caller[r] # Nobody /\ Needs(r) \subseteq Available(caller[r], role[r])

\* The window is taken from the clock here and used when the upsert runs.
WindowStart == window

Guard(r) ==
    /\ at[r] = "guard"
    /\ IF Authorized(r)
       THEN /\ To(r, "count")
            /\ slot' = [slot EXCEPT ![r] = WindowStart]
            /\ UNCHANGED <<profiles, route, caller, address, role, arrivals>>
       ELSE End(r)
    /\ UNCHANGED counters

Within(n, limit) == n <= limit

\* storage.increment: one statement adds the row or raises it.
Increment(r) ==
    /\ count' = [count EXCEPT ![BucketOf(r)][slot[r]] = @ + 1]
    /\ spent' = [spent EXCEPT ![Party(r)][slot[r]] = @ + 1]
    /\ UNCHANGED window

Admit(r) ==
    /\ at[r] = "count"
    /\ Within(count[BucketOf(r)][slot[r]] + 1, Table[route[r]].limit)
    /\ Increment(r)
    /\ admitted' = IF slot[r] # window THEN admitted
                   ELSE [admitted EXCEPT ![BucketOf(r)][Table[route[r]].limit] = @ + 1]
    /\ To(r, "body")
    /\ UNCHANGED <<profiles, route, caller, address, role, slot, arrivals>>

\* 429.
Refuse(r) ==
    /\ at[r] = "count"
    /\ ~Within(count[BucketOf(r)][slot[r]] + 1, Table[route[r]].limit)
    /\ Increment(r)
    /\ To(r, "refused")
    /\ UNCHANGED <<profiles, admitted, route, caller, address, role, slot, arrivals>>

\* The upsert committed and its result was lost: 500.
LoseResult(r) ==
    /\ at[r] = "count"
    /\ Increment(r)
    /\ End(r)
    /\ UNCHANGED admitted

-----------------------------------------------------------------------------
(* The body, the handler's own check, and the answer.                      *)

\* assertInstanceKey; assertSuperAdmin and the status; 409 already_setup.
Admissible(r) ==
    LET check == Table[route[r]].inner IN
    /\ check = "instanceKey" =>
        caller[r] \in Keys /\ KeyOwner[caller[r]] = Nobody /\ role[r] = "super_admin"
    /\ check = "superAdmin" => caller[r] \in Users /\ role[r] = "super_admin"
    /\ check = "uninstalled" => \A u \in Users : roles[u] # "super_admin"

Enter(r) ==
    /\ at[r] = "body"
    /\ Admissible(r)
    /\ To(r, "handler")
    /\ UNCHANGED <<profiles, counters, route, caller, address, role, slot, arrivals>>

\* Every answer: of the handler, of a check, of a body that does not parse, of a
\* rate limit, and the 500 of a statement that failed on the way.
Answer(r) ==
    /\ at[r] # "idle"
    /\ End(r)
    /\ UNCHANGED counters

-----------------------------------------------------------------------------
(* What goes on around it.                                                 *)

\* Roles are assigned and users deactivated (module Users).
SetRole(u, rank) ==
    /\ roles[u] \notin {rank, "gone"}
    /\ roles' = [roles EXCEPT ![u] = rank]
    /\ held' = [r \in Requests |-> IF at[r] # "idle" /\ UserOf(caller[r]) = u
                                   THEN held[r] \cup ({rank} \ {"gone"}) ELSE held[r]]
    /\ UNCHANGED <<counters, requests>>

Tick ==
    /\ window < MaxWindow
    /\ window' = window + 1
    /\ admitted' = [b \in Buckets |-> [l \in Limits |-> 0]]
    /\ UNCHANGED <<profiles, count, spent, requests>>

\* Mutant of Expired: the purge looks at the start of the window.
Started(w) == w <= window

Expired(w) == w < window

\* rate_limit.purge: one statement.
Purge ==
    /\ count' = [b \in Buckets |-> [w \in Windows |-> IF Expired(w) THEN 0 ELSE count[b][w]]]
    /\ UNCHANGED <<profiles, window, admitted, spent, requests>>

Next ==
    \/ \E r \in Requests :
        \/ \E n \in Called, c \in Callers, a \in Addresses : Arrive(r, n, c, a)
        \/ Verify(r) \/ ResolveKey(r) \/ ReadRole(r) \/ ReadActive(r) \/ Guard(r)
        \/ Admit(r) \/ Refuse(r) \/ LoseResult(r) \/ Enter(r) \/ Answer(r)
    \/ \E u \in Users, rank \in Ranks \cup {"gone"} : SetRole(u, rank)
    \/ Tick \/ Purge

Spec == Init /\ [][Next]_vars
-----------------------------------------------------------------------------
(* Properties.                                                             *)

\* However requests, the clock and the purge interleave, no bucket admits more
\* requests to routes of one limit in a window than the limit, as long as the
\* window lasts (api/rate-limit-storage.ts: "concurrent callers must never lose
\* an increment").
BudgetHolds == \A b \in Buckets, l \in Limits : admitted[b][l] <= l

\* Who is told 429 has itself made more requests than the limit in that minute:
\* nobody else's requests, whatever key or address they use, count against it.
RefusedHasSpent ==
    \A r \in Requests : at[r] = "refused" => spent[Party(r)][slot[r]] > Table[route[r]].limit

\* The role that entitles a request was its user's while it was under way: a
\* request is counted only if it may have what it asks for ("unauthorized
\* callers never consume rate-limit budget"), and what a handler does for a
\* delegated key its owner could have done, maintenance is run only by instance
\* keys, and what is for the super_admin is done for one.
AuthorityWasHeld == \A r \in Requests :
    /\ at[r] \in {"count", "refused", "body", "handler"} /\ Needs(r) # {} =>
        \E rank \in IF UserOf(caller[r]) = Nobody THEN {role[r]} ELSE held[r] :
            caller[r] # Nobody /\ Needs(r) \subseteq Available(caller[r], rank)
    /\ at[r] = "handler" =>
        /\ UserOf(caller[r]) # Nobody =>
            Needs(r) = {} \/ \E rank \in held[r] : Needs(r) \subseteq SessionScopes[rank]
        /\ "maintenance:run" \in Needs(r) =>
            UserOf(caller[r]) = Nobody /\ KeyCap[caller[r]] = "super_admin"
        /\ Table[route[r]].inner = "superAdmin" => "super_admin" \in held[r]

-----------------------------------------------------------------------------
(* The inductive invariant.                                                *)

Resolved == {"guard", "count", "refused", "body", "handler"}
Counted == {"count", "refused", "body", "handler"}

\* Who is resolved where; what is known of its role; and what the guard and the
\* handler's check have found stays so.
CallerInv == \A r \in Requests :
    /\ at[r] # "idle" => route[r] \in Called /\ address[r] \in Addresses
    /\ at[r] = "key" => caller[r] \in Keys
    /\ at[r] \in {"token", "profile", "roleRead", "activeRead"} => UserOf(caller[r]) \in Users
    /\ at[r] # "idle" /\ UserOf(caller[r]) # Nobody =>
        roles[UserOf(caller[r])] \in held[r] \cup {"gone"}
    /\ at[r] \in Resolved \cup {"roleRead"} /\ UserOf(caller[r]) # Nobody => role[r] \in held[r]
    /\ at[r] \in Resolved /\ caller[r] \in Keys /\ UserOf(caller[r]) = Nobody =>
        role[r] = KeyCap[caller[r]]
    /\ at[r] \in Counted => Authorized(r) /\ slot[r] <= window
    /\ at[r] = "handler" =>
        /\ Table[route[r]].inner = "instanceKey" =>
            caller[r] \in Keys /\ KeyOwner[caller[r]] = Nobody /\ role[r] = "super_admin"
        /\ Table[route[r]].inner = "superAdmin" => caller[r] \in Users /\ role[r] = "super_admin"

\* Whom a window admitted it has counted.
BudgetInv ==
    \A b \in Buckets, l \in Limits :
        admitted[b][l] <= l /\ admitted[b][l] <= count[b][window]

\* Who is behind a bucket.
OwnerOf(b) ==
    IF b[1] = "key" /\ b[2] \in Keys /\ KeyOwner[b[2]] # Nobody THEN KeyOwner[b[2]] ELSE b[2]

\* What a bucket counted, its owner spent.
SpentInv == \A b \in Buckets, w \in Windows : count[b][w] <= spent[OwnerOf(b)][w]

IndInv == TypeOK /\ CallerInv /\ BudgetInv /\ SpentInv /\ RefusedHasSpent
=============================================================================
