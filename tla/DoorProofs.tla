----------------------------- MODULE DoorProofs ------------------------------
(***************************************************************************)
(* Theorems about the door for any number of requests, users, keys,        *)
(* addresses and windows, any routes and any limits.  The argument about   *)
(* authority: the role that a request acts with is one of those its user   *)
(* had while it was under way.  About budgets: an open window is never     *)
(* purged, so that its row has counted whoever was admitted; and whatever  *)
(* a bucket counts was asked for by the one party that owns it.            *)
(***************************************************************************)
EXTENDS Door, TLAPS

RequestsTyped ==
    /\ at \in [Requests -> Stages]
    /\ route \in [Requests -> Called \cup {"none"}]
    /\ caller \in [Requests -> Callers]
    /\ address \in [Requests -> Addresses \cup {Nobody}]
    /\ role \in [Requests -> Ranks \cup {"gone"}]
    /\ slot \in [Requests -> Windows]
    /\ held \in [Requests -> SUBSET Ranks]

CountersTyped ==
    /\ window \in Windows
    /\ count \in [Buckets -> [Windows -> Nat]]
    /\ admitted \in [Buckets -> [Limits -> Nat]]
    /\ spent \in [Callers \cup Addresses -> [Windows -> Nat]]

RolesTyped == roles \in [Users -> Ranks \cup {"gone"}] /\ arrivals \in Nat

\* What is said of one request.
Sound(r) ==
    /\ at[r] # "idle" => route[r] \in Called /\ address[r] \in Addresses
    /\ at[r] = "key" => caller[r] \in Keys
    /\ at[r] \in {"token", "profile", "roleRead", "activeRead"} => UserOf(caller[r]) \in Users
    /\ at[r] # "idle" /\ UserOf(caller[r]) # Nobody =>
        roles[UserOf(caller[r])] \in held[r] \cup {"gone"}
    /\ at[r] \in Resolved \cup {"roleRead"} /\ UserOf(caller[r]) # Nobody => role[r] \in held[r]
    /\ at[r] \in Resolved /\ caller[r] \in Keys /\ UserOf(caller[r]) = Nobody =>
        role[r] = KeyCap[caller[r]]
    /\ at[r] \in Counted => Authorized(r) /\ slot[r] <= window
    /\ at[r] = "handler" =>
        /\ Table[route[r]].inner = "instanceKey" =>
            caller[r] \in Keys /\ KeyOwner[caller[r]] = Nobody /\ role[r] = "super_admin"
        /\ Table[route[r]].inner = "superAdmin" => caller[r] \in Users /\ role[r] = "super_admin"
    /\ at[r] = "refused" => spent[Party(r)][slot[r]] > Table[route[r]].limit

AllSound == \A r \in Requests : Sound(r)

\* The parts of the inductive invariant.
LEMMA Parts ==
    IndInv <=> /\ RolesTyped /\ CountersTyped /\ RequestsTyped
               /\ BudgetInv /\ SpentInv /\ AllSound
  <1>1. TypeOK <=> RolesTyped /\ CountersTyped /\ RequestsTyped
    BY DEF TypeOK, RolesTyped, CountersTyped, RequestsTyped
  <1>2. CallerInv /\ RefusedHasSpent <=> AllSound
    BY DEF CallerInv, RefusedHasSpent, Sound, AllSound
  <1> QED
    BY <1>1, <1>2 DEF IndInv

\* The same after a step.
LEMMA PartsNext ==
    IndInv' <=> /\ RolesTyped' /\ CountersTyped' /\ RequestsTyped'
                /\ BudgetInv' /\ SpentInv' /\ AllSound'
  BY Parts, PTL

\* A caller is nobody, or there is at most one human behind it.
LEMMA Humans ==
    /\ Nobody \in Callers
    /\ \A c \in Callers : UserOf(c) \in Users \cup {Nobody}
    /\ UserOf(Nobody) = Nobody
    /\ \A c \in Keys : UserOf(c) = KeyOwner[c]
    /\ \A c \in Users : UserOf(c) = c
  BY DoorAssumption DEF Callers, UserOf

\* No session has the scope of the instance keys.
LEMMA SessionsDoNotRun ==
    \A rank \in Ranks : "maintenance:run" \notin SessionScopes[rank]
  BY DEF Ranks, SessionScopes, UserScopes, AdminScopes, SuperAdminScopes

\* Where a key pays, a key calls.
LEMMA KeysPay ==
    ASSUME NEW r \in Requests, RequestsTyped, Sound(r), at[r] = "count",
           Table[route[r]].bucket = "key"
    PROVE  caller[r] \in Keys
  <1>1. route[r] \in Called /\ Authorized(r) /\ "maintenance:run" \in Needs(r)
    BY DoorAssumption DEF Sound, Counted, Needs
  <1>2. caller[r] \in Callers /\ caller[r] # Nobody
        /\ "maintenance:run" \in Available(caller[r], role[r])
    BY <1>1 DEF Authorized, RequestsTyped
  <1>3. CASE caller[r] \in Users
    <2>1. role[r] \in Ranks
      BY <1>2, <1>3, Humans, DoorAssumption DEF Sound, Resolved, RequestsTyped
    <2> QED
      BY <1>2, <1>3, <2>1, SessionsDoNotRun DEF Available
  <1> QED
    BY <1>2, <1>3 DEF Callers

-----------------------------------------------------------------------------
\* The answer leaves a request typed and sound, and what others are unmoved.
LEMMA EndSound ==
    ASSUME RequestsTyped, RolesTyped, NEW r \in Requests, End(r)
    PROVE  RequestsTyped' /\ RolesTyped' /\ Sound(r)'
  <1>1. RequestsTyped'
    BY DoorAssumption DEF RequestsTyped, End, To, Stages, Callers, Windows
  <1>2. at'[r] = "idle"
    BY DEF RequestsTyped, End, To
  <1> QED
    BY <1>1, <1>2 DEF RolesTyped, End, Sound, Resolved, Counted

\* What a request carries.
Carried(r) == <<at[r], route[r], caller[r], address[r], role[r], slot[r], held[r]>>

\* Time goes on and nobody's spending is taken back.
Forward ==
    /\ window' \in Windows /\ window <= window'
    /\ \A p \in Callers \cup Addresses, w \in Windows : spent[p][w] <= spent'[p][w]

\* A step that touches no request and no role leaves a request sound.
LEMMA StillSound ==
    ASSUME RequestsTyped, CountersTyped, CountersTyped', Forward, roles' = roles,
           NEW r \in Requests, Sound(r), UNCHANGED Carried(r)
    PROVE  Sound(r)'
  <1>1. /\ at'[r] = at[r] /\ route'[r] = route[r] /\ caller'[r] = caller[r]
        /\ address'[r] = address[r] /\ role'[r] = role[r] /\ slot'[r] = slot[r]
        /\ held'[r] = held[r]
    BY DEF Carried
  <1>2. Authorized(r)' = Authorized(r)
    BY <1>1 DEF Authorized, Needs, Available
  <1>3. Party(r)' = Party(r)
    BY <1>1 DEF Party, UserOf
  <1>4. ASSUME at[r] = "refused"
        PROVE  spent'[Party(r)][slot[r]] > Table[route[r]].limit
    <2>1. Party(r) \in Callers \cup Addresses /\ slot[r] \in Windows /\ route[r] \in Called
      BY <1>4, Humans DEF Party, RequestsTyped, Sound, Callers
    <2>2. /\ spent[Party(r)][slot[r]] \in Nat /\ spent'[Party(r)][slot[r]] \in Nat
          /\ Table[route[r]].limit \in Nat
      BY <2>1, DoorAssumption DEF CountersTyped
    <2> QED
      BY <1>4, <2>1, <2>2 DEF Sound, Forward
  <1>5. slot[r] \in Nat /\ window \in Nat /\ window' \in Nat
    BY DoorAssumption DEF RequestsTyped, CountersTyped, Windows, Forward
  <1> QED
    BY <1>1, <1>2, <1>3, <1>4, <1>5 DEF Sound, UserOf, Forward

\* A step of one request that touches no counter and no role.
LEMMA OneMoves ==
    ASSUME IndInv, NEW r \in Requests, roles' = roles, arrivals' \in Nat,
           UNCHANGED counters, RequestsTyped', Sound(r)',
           \A q \in Requests \ {r} : UNCHANGED Carried(q)
    PROVE  IndInv'
  <1>1. CountersTyped' /\ BudgetInv' /\ SpentInv' /\ RolesTyped'
    BY Parts DEF counters, CountersTyped, BudgetInv, SpentInv, RolesTyped
  <1>2. Forward
    BY Parts, DoorAssumption DEF counters, Forward, CountersTyped, Windows
  <1>3. AllSound'
    BY <1>1, <1>2, Parts, StillSound DEF AllSound
  <1> QED
    BY <1>1, <1>3, PartsNext

-----------------------------------------------------------------------------
(* The steps of one request that count nothing.                            *)

\* What such a step has to show.
Moves(r) ==
    /\ roles' = roles /\ arrivals' \in Nat /\ UNCHANGED counters
    /\ RequestsTyped' /\ Sound(r)'
    /\ \A q \in Requests \ {r} : UNCHANGED Carried(q)

\* Answering a request only moves that request.
LEMMA EndMoves ==
    ASSUME IndInv, NEW r \in Requests, End(r), UNCHANGED counters
    PROVE  Moves(r)
  <1>1. RequestsTyped' /\ Sound(r)'
    BY Parts, EndSound
  <1> QED
    BY <1>1, Parts DEF Moves, End, To, Carried, RequestsTyped, RolesTyped

\* So does answering that its caller is unknown.
LEMMA UnauthorizedMoves ==
    ASSUME IndInv, NEW r \in Requests, at[r] # "idle", Unauthorized(r)
    PROVE  Moves(r)
  <1>1. CASE Needs(r) # {}
    BY <1>1, EndMoves DEF Unauthorized
  <1>2. CASE Needs(r) = {}
    <2>1. RequestsTyped /\ RolesTyped /\ Sound(r)
      BY Parts DEF AllSound
    <2>2. /\ at' = [at EXCEPT ![r] = "guard"] /\ caller' = [caller EXCEPT ![r] = Nobody]
          /\ UNCHANGED <<roles, held, route, address, role, slot, arrivals>>
      BY <1>2 DEF Unauthorized, To, profiles
    <2>3. RequestsTyped'
      BY <2>1, <2>2, Humans DEF RequestsTyped, Stages
    <2>4. at'[r] = "guard" /\ caller'[r] = Nobody
      BY <2>1, <2>2 DEF RequestsTyped
    <2>5. Sound(r)'
      BY <2>1, <2>2, <2>4, Humans, DoorAssumption DEF Sound, Resolved, Counted, UserOf
    <2> QED
      BY <2>1, <2>2, <2>3, <2>5, <1>2
         DEF Moves, Carried, RequestsTyped, RolesTyped, Unauthorized
  <1> QED
    BY <1>1, <1>2

\* So does the arrival of a request.
LEMMA ArriveMoves ==
    ASSUME IndInv, NEW r \in Requests, NEW n \in Called, NEW c \in Callers, NEW a \in Addresses,
           Arrive(r, n, c, a)
    PROVE  Moves(r)
  <1> DEFINE says == IF Table[n].inner = "token" THEN Nobody ELSE c
             stage == IF says = Nobody THEN "guard" ELSE IF says \in Keys THEN "key" ELSE "token"
             had == IF UserOf(says) = Nobody THEN {} ELSE {roles[UserOf(says)]} \ {"gone"}
  <1>1. RequestsTyped /\ RolesTyped
    BY Parts
  <1>2. /\ at' = [at EXCEPT ![r] = stage] /\ caller' = [caller EXCEPT ![r] = says]
        /\ held' = [held EXCEPT ![r] = had]
        /\ route' = [route EXCEPT ![r] = n] /\ address' = [address EXCEPT ![r] = a]
        /\ UNCHANGED <<roles, role, slot>> /\ UNCHANGED counters
        /\ arrivals' = arrivals + 1
    BY DEF Arrive, To
  <1>3. says \in Callers /\ UserOf(says) \in Users \cup {Nobody}
    BY Humans
  <1>4. had \in SUBSET Ranks /\ stage \in Stages
        /\ (UserOf(says) # Nobody => roles[UserOf(says)] \in had \cup {"gone"})
    BY <1>1, <1>3 DEF RolesTyped, Stages
  <1>5. stage = "token" => UserOf(says) \in Users
    BY <1>3, Humans DEF Callers
  <1>6. stage = "guard" => UserOf(says) = Nobody /\ says \notin Keys
    BY Humans, DoorAssumption
  <1>7. stage = "key" => says \in Keys
    OBVIOUS
  <1>8. stage \in {"guard", "key", "token"}
    OBVIOUS
  <1> HIDE DEF says, stage, had
  <1>9. RequestsTyped'
    BY <1>1, <1>2, <1>3, <1>4 DEF RequestsTyped
  <1>10. /\ at'[r] = stage /\ caller'[r] = says /\ held'[r] = had /\ route'[r] = n
         /\ address'[r] = a /\ roles' = roles
    BY <1>1, <1>2 DEF RequestsTyped
  <1>11. UserOf(caller[r])' = UserOf(says)
    BY <1>10 DEF UserOf
  <1>12. Sound(r)'
    BY <1>4, <1>5, <1>6, <1>7, <1>8, <1>10, <1>11 DEF Sound, Resolved, Counted
  <1> QED
    BY <1>1, <1>2, <1>9, <1>12 DEF Moves, Carried, RequestsTyped, RolesTyped

\* A step that only takes a request to another stage, with another role or slot.
LEMMA StageMoves ==
    ASSUME IndInv, NEW r \in Requests, NEW stage \in Stages, NEW rank \in Ranks \cup {"gone"},
           NEW w \in Windows,
           at' = [at EXCEPT ![r] = stage], role' = [role EXCEPT ![r] = rank],
           slot' = [slot EXCEPT ![r] = w],
           UNCHANGED <<roles, held, route, caller, address, arrivals>>, UNCHANGED counters,
           Sound(r)'
    PROVE  Moves(r)
  <1>1. RequestsTyped /\ RolesTyped
    BY Parts
  <1>2. RequestsTyped'
    BY <1>1 DEF RequestsTyped
  <1> QED
    BY <1>1, <1>2 DEF Moves, Carried, RequestsTyped, RolesTyped

\* Resolution, the guard and the handler's check.
LEMMA PlainMoves ==
    ASSUME IndInv, NEW r \in Requests,
           \/ Verify(r) \/ ResolveKey(r) \/ ReadRole(r) \/ ReadActive(r)
           \/ Guard(r) \/ Enter(r) \/ Answer(r)
    PROVE  Moves(r)
  <1> DEFINE Goes(stage, rank, w) ==
        /\ at' = [at EXCEPT ![r] = stage] /\ role' = [role EXCEPT ![r] = rank]
        /\ slot' = [slot EXCEPT ![r] = w]
        /\ UNCHANGED <<roles, held, route, caller, address, arrivals>> /\ UNCHANGED counters
  <1>1. /\ RequestsTyped /\ RolesTyped /\ CountersTyped /\ Sound(r)
        /\ UserOf(caller[r]) \in Users \cup {Nobody}
        /\ role[r] \in Ranks \cup {"gone"} /\ slot[r] \in Windows
    BY Parts, Humans DEF AllSound, RequestsTyped
  <1>2. role = [role EXCEPT ![r] = role[r]] /\ slot = [slot EXCEPT ![r] = slot[r]]
    BY <1>1 DEF RequestsTyped
  <1>3. ASSUME NEW stage \in Stages, NEW rank \in Ranks \cup {"gone"}, NEW w \in Windows,
               Goes(stage, rank, w)
        PROVE  /\ at'[r] = stage /\ role'[r] = rank /\ slot'[r] = w
               /\ route' = route /\ caller' = caller /\ address' = address /\ held' = held
               /\ roles' = roles /\ window' = window
               /\ UserOf(caller[r])' = UserOf(caller[r])
    BY <1>1, <1>3 DEF RequestsTyped, counters, UserOf
  <1>4. CASE Unauthorized(r) /\ at[r] # "idle"
    BY <1>4, UnauthorizedMoves
  <1>5. CASE Verify(r) /\ ~Unauthorized(r)
    <2>1. Goes("profile", role[r], slot[r]) /\ at[r] = "token"
      BY <1>2, <1>5 DEF Verify, To, profiles
    <2>2. Sound(r)'
      BY <1>1, <1>3, <2>1 DEF Sound, Resolved, Counted, Stages
    <2> QED
      BY <1>1, <2>1, <2>2, StageMoves DEF Stages
  <1>6. CASE ResolveKey(r) /\ ~Unauthorized(r)
    <2>1. at[r] = "key" /\ caller[r] \in Keys /\ UserOf(caller[r]) = KeyOwner[caller[r]]
      BY <1>1, <1>6, Humans DEF ResolveKey, Sound
    <2>2. CASE UserOf(caller[r]) = Nobody
      <3>1. Goes("guard", KeyCap[caller[r]], slot[r])
        BY <1>2, <1>6, <2>2 DEF ResolveKey, To, profiles
      <3>2. KeyCap[caller[r]] \in Ranks \cup {"gone"}
        BY <2>1, DoorAssumption DEF Ranks
      <3>3. Sound(r)'
        BY <1>1, <1>3, <2>1, <2>2, <3>1, <3>2 DEF Sound, Resolved, Counted, Stages
      <3> QED
        BY <1>1, <3>1, <3>2, <3>3, StageMoves DEF Stages
    <2>3. CASE UserOf(caller[r]) # Nobody
      <3>1. Goes("profile", role[r], slot[r])
        BY <1>2, <1>6, <2>3 DEF ResolveKey, To, profiles
      <3>2. Sound(r)'
        BY <1>1, <1>3, <2>1, <2>3, <3>1 DEF Sound, Resolved, Counted, Stages
      <3> QED
        BY <1>1, <3>1, <3>2, StageMoves DEF Stages
    <2> QED
      BY <2>2, <2>3
  <1>7. CASE ReadRole(r) /\ ~Unauthorized(r)
    <2> DEFINE stage == IF at[r] = "profile" THEN "roleRead" ELSE "guard"
               rank == roles[UserOf(caller[r])]
    <2>1. Goes(stage, rank, slot[r]) /\ at[r] \in {"profile", "activeRead"} /\ rank # "gone"
      BY <1>2, <1>7 DEF ReadRole, To, profiles
    <2>2. rank \in Ranks \cup {"gone"} /\ rank \in held[r] /\ UserOf(caller[r]) \in Users
      BY <1>1, <2>1, DoorAssumption DEF Sound, RolesTyped
    <2>3. stage \in Stages /\ stage \in {"roleRead", "guard"}
      BY DEF Stages
    <2> HIDE DEF stage, rank
    <2>4. Sound(r)'
      BY <1>1, <1>3, <2>1, <2>2, <2>3, DoorAssumption DEF Sound, Resolved, Counted
    <2> QED
      BY <1>1, <2>1, <2>2, <2>3, <2>4, StageMoves
  <1>8. CASE ReadActive(r) /\ ~Unauthorized(r)
    <2> DEFINE stage == IF at[r] = "profile" THEN "activeRead" ELSE "guard"
    <2>1. Goes(stage, role[r], slot[r]) /\ at[r] \in {"profile", "roleRead"}
      BY <1>2, <1>8 DEF ReadActive, To, profiles
    <2>2. stage \in Stages /\ stage \in {"activeRead", "guard"}
          /\ (stage = "guard" => at[r] = "roleRead")
      BY <2>1 DEF Stages
    <2>3. UserOf(caller[r]) \in Users
      BY <1>1, <2>1 DEF Sound
    <2> HIDE DEF stage
    <2>4. Sound(r)'
      BY <1>1, <1>3, <2>1, <2>2, <2>3, DoorAssumption DEF Sound, Resolved, Counted
    <2> QED
      BY <1>1, <2>1, <2>2, <2>4, StageMoves
  <1>9. CASE Guard(r) /\ ~Authorized(r)
    BY <1>9, EndMoves DEF Guard
  <1>10. CASE Guard(r) /\ Authorized(r)
    <2>1. Goes("count", role[r], window) /\ at[r] = "guard"
      BY <1>2, <1>10 DEF Guard, To, profiles, WindowStart
    <2>2. Authorized(r)'
      BY <1>1, <1>3, <1>10, <2>1 DEF Authorized, Needs, Available, CountersTyped, Stages
    <2>3. window \in Windows /\ window <= window
      BY <1>1, DoorAssumption DEF CountersTyped, Windows
    <2>4. Sound(r)'
      BY <1>1, <1>3, <2>1, <2>2, <2>3 DEF Sound, Resolved, Counted, Stages
    <2> QED
      BY <1>1, <2>1, <2>3, <2>4, StageMoves DEF Stages
  <1>11. CASE Enter(r)
    <2>1. Goes("handler", role[r], slot[r]) /\ at[r] = "body" /\ Admissible(r)
      BY <1>2, <1>11 DEF Enter, To, profiles
    <2>2. Authorized(r)'
      BY <1>1, <1>3, <2>1 DEF Sound, Counted, Authorized, Needs, Available, Stages
    <2>3. Sound(r)'
      BY <1>1, <1>3, <2>1, <2>2 DEF Sound, Resolved, Counted, Stages, Admissible
    <2> QED
      BY <1>1, <2>1, <2>3, StageMoves DEF Stages
  <1>12. CASE Answer(r)
    BY <1>12, EndMoves DEF Answer
  <1> QED
    BY <1>4, <1>5, <1>6, <1>7, <1>8, <1>9, <1>10, <1>11, <1>12
       DEF Verify, ResolveKey, ReadRole, ReadActive

-----------------------------------------------------------------------------
(* The steps that count.                                                   *)

\* A counted request pays from a bucket that its party owns.
LEMMA OwnBucket ==
    ASSUME IndInv, NEW r \in Requests, at[r] = "count"
    PROVE  /\ BucketOf(r) \in Buckets /\ OwnerOf(BucketOf(r)) = Party(r)
           /\ Party(r) \in Callers \cup Addresses
           /\ route[r] \in Called /\ slot[r] \in Windows
           /\ Table[route[r]].limit \in Limits /\ Table[route[r]].limit \in Nat
  <1>1. RequestsTyped /\ Sound(r) /\ caller[r] \in Callers
    BY Parts DEF AllSound, RequestsTyped
  <1>2. route[r] \in Called /\ address[r] \in Addresses /\ slot[r] \in Windows
    BY <1>1 DEF Sound, RequestsTyped
  <1> DEFINE kind == Table[route[r]].bucket
  <1>3. kind \in {"user", "key", "ip"} /\ Table[route[r]].limit \in Nat
    BY <1>2, DoorAssumption
  <1>4. UserOf(caller[r]) \in Callers
    BY <1>1, Humans DEF Callers
  <1>5. Party(r) \in Callers \cup Addresses
    BY <1>1, <1>2, <1>4 DEF Party
  <1>6. BucketOf(r) = <<kind, Identity(r, kind)>>
    BY DEF BucketOf
  <1>7. CASE kind = "ip"
    <2>1. Identity(r, kind) = address[r] /\ Party(r) = address[r]
      BY <1>7 DEF Identity, Party
    <2> QED
      BY <1>2, <1>3, <1>5, <1>6, <1>7, <2>1 DEF Buckets, OwnerOf, Limits
  <1>8. CASE kind = "user"
    <2>1. Identity(r, kind) = Party(r)
      BY <1>8 DEF Identity, Party
    <2> QED
      BY <1>2, <1>3, <1>5, <1>6, <1>8, <2>1 DEF Buckets, OwnerOf, Limits
  <1>9. CASE kind = "key"
    <2>1. caller[r] \in Keys
      BY <1>1, <1>9, KeysPay
    <2>2. Identity(r, kind) = caller[r]
      BY <1>9, <2>1 DEF Identity
    <2>3. Party(r) = IF KeyOwner[caller[r]] # Nobody THEN KeyOwner[caller[r]] ELSE caller[r]
      BY <1>9, <2>1, Humans DEF Party
    <2>4. BucketOf(r)[1] = "key" /\ BucketOf(r)[2] = caller[r]
      BY <1>6, <1>9, <2>2
    <2> QED
      BY <1>1, <1>2, <1>3, <1>5, <1>6, <1>9, <2>1, <2>2, <2>3, <2>4 DEF Buckets, OwnerOf, Limits
  <1> QED
    BY <1>3, <1>7, <1>8, <1>9

\* The upsert raises one row and one party's spending.
LEMMA Counting ==
    ASSUME IndInv, NEW r \in Requests, at[r] = "count", Increment(r)
    PROVE  /\ window' = window /\ Forward
           /\ count' \in [Buckets -> [Windows -> Nat]]
           /\ spent' \in [Callers \cup Addresses -> [Windows -> Nat]]
           /\ \A b \in Buckets, w \in Windows :
                count'[b][w] = IF b = BucketOf(r) /\ w = slot[r] THEN count[b][w] + 1
                               ELSE count[b][w]
           /\ \A p \in Callers \cup Addresses, w \in Windows :
                spent'[p][w] = IF p = Party(r) /\ w = slot[r] THEN spent[p][w] + 1
                               ELSE spent[p][w]
           /\ \A b \in Buckets, w \in Windows : count'[b][w] <= spent'[OwnerOf(b)][w]
  <1>1. CountersTyped /\ SpentInv
    BY Parts
  <1>2. /\ BucketOf(r) \in Buckets /\ Party(r) \in Callers \cup Addresses
        /\ slot[r] \in Windows /\ OwnerOf(BucketOf(r)) = Party(r)
    BY OwnBucket
  <1>3. /\ count' = [count EXCEPT ![BucketOf(r)][slot[r]] = @ + 1]
        /\ spent' = [spent EXCEPT ![Party(r)][slot[r]] = @ + 1]
        /\ window' = window
    BY DEF Increment
  <1>4. /\ count' \in [Buckets -> [Windows -> Nat]]
        /\ \A b \in Buckets, w \in Windows :
              count'[b][w] = IF b = BucketOf(r) /\ w = slot[r] THEN count[b][w] + 1
                             ELSE count[b][w]
    BY <1>1, <1>2, <1>3 DEF CountersTyped
  <1>5. /\ spent' \in [Callers \cup Addresses -> [Windows -> Nat]]
        /\ \A p \in Callers \cup Addresses, w \in Windows :
              spent'[p][w] = IF p = Party(r) /\ w = slot[r] THEN spent[p][w] + 1
                             ELSE spent[p][w]
    BY <1>1, <1>2, <1>3 DEF CountersTyped
  <1>6. \A b \in Buckets : OwnerOf(b) \in Callers \cup Addresses
    BY DoorAssumption DEF Buckets, OwnerOf, Callers
  <1>7. ASSUME NEW b \in Buckets, NEW w \in Windows
        PROVE  count'[b][w] <= spent'[OwnerOf(b)][w]
    <2>1. count[b][w] \in Nat /\ spent[OwnerOf(b)][w] \in Nat
          /\ count[b][w] <= spent[OwnerOf(b)][w]
      BY <1>1, <1>6 DEF CountersTyped, SpentInv
    <2> QED
      BY <1>2, <1>4, <1>5, <1>6, <2>1
  <1>8. Forward
    <2>1. window \in Windows /\ window <= window
      BY <1>1, DoorAssumption DEF CountersTyped, Windows
    <2>2. \A p \in Callers \cup Addresses, w \in Windows :
            spent[p][w] \in Nat /\ spent[p][w] <= spent'[p][w]
      BY <1>1, <1>5 DEF CountersTyped
    <2> QED
      BY <1>3, <2>1, <2>2 DEF Forward
  <1> QED
    BY <1>3, <1>4, <1>5, <1>7, <1>8

\* A step of one request that counts it.
LEMMA OneCounts ==
    ASSUME IndInv, NEW r \in Requests, at[r] = "count", Increment(r),
           admitted' \in [Buckets -> [Limits -> Nat]], BudgetInv',
           roles' = roles, arrivals' = arrivals, RequestsTyped', Sound(r)',
           \A q \in Requests \ {r} : UNCHANGED Carried(q)
    PROVE  IndInv'
  <1>1. CountersTyped' /\ Forward /\ SpentInv'
    <2>1. SpentInv'
      BY Counting DEF SpentInv, OwnerOf
    <2> QED
      BY <2>1, Parts, Counting DEF CountersTyped
  <1>2. AllSound'
    BY <1>1, Parts, StillSound DEF AllSound
  <1>3. RolesTyped'
    BY Parts DEF RolesTyped
  <1> QED
    BY <1>1, <1>2, <1>3, PartsNext

\* A counter only grows in such a step.
LEMMA BudgetKept ==
    ASSUME IndInv, NEW r \in Requests, at[r] = "count", Increment(r), UNCHANGED admitted
    PROVE  BudgetInv' /\ admitted' \in [Buckets -> [Limits -> Nat]]
  <1>1. CountersTyped /\ BudgetInv
    BY Parts
  <1>2. \A b \in Buckets : count[b][window] \in Nat /\ count'[b][window] \in Nat
                            /\ count[b][window] <= count'[b][window]
    BY <1>1, Counting DEF CountersTyped
  <1>3. \A l \in Limits : l \in Nat
    BY DoorAssumption DEF Limits
  <1>4. window' = window
    BY Counting
  <1>5. ASSUME NEW b \in Buckets, NEW l \in Limits
        PROVE  admitted'[b][l] <= l /\ admitted'[b][l] <= count'[b][window']
    <2>1. admitted[b][l] \in Nat /\ admitted[b][l] <= l /\ admitted[b][l] <= count[b][window]
      BY <1>1 DEF CountersTyped, BudgetInv
    <2> QED
      BY <1>2, <1>3, <1>4, <2>1
  <1> QED
    BY <1>1, <1>5 DEF BudgetInv, CountersTyped

\* An upsert whose answer is lost keeps the invariant.
LEMMA LoseResultStep ==
    ASSUME IndInv, NEW r \in Requests, LoseResult(r)
    PROVE  IndInv'
  <1>1. at[r] = "count" /\ Increment(r) /\ End(r) /\ UNCHANGED admitted
    BY DEF LoseResult
  <1>2. RequestsTyped' /\ Sound(r)'
    BY <1>1, Parts, EndSound
  <1>3. /\ roles' = roles /\ arrivals' = arrivals
        /\ \A q \in Requests \ {r} : UNCHANGED Carried(q)
    BY <1>1, Parts DEF End, To, Carried, RequestsTyped
  <1> QED
    BY <1>1, <1>2, <1>3, BudgetKept, OneCounts

\* To be admitted or refused changes only the stage.
LEMMA CountedMoves ==
    ASSUME IndInv, NEW r \in Requests, Admit(r) \/ Refuse(r)
    PROVE  /\ at[r] = "count" /\ Increment(r) /\ roles' = roles /\ arrivals' = arrivals
           /\ at' = [at EXCEPT ![r] = at'[r]] /\ at'[r] \in {"body", "refused"}
           /\ (at'[r] = "refused" => Refuse(r))
           /\ UNCHANGED <<held, route, caller, address, role, slot>>
           /\ RequestsTyped' /\ \A q \in Requests \ {r} : UNCHANGED Carried(q)
  <1>1. RequestsTyped
    BY Parts
  <1>2. CASE Admit(r)
    <2>1. at' = [at EXCEPT ![r] = "body"] /\ at'[r] = "body"
      BY <1>1, <1>2 DEF Admit, To, RequestsTyped
    <2> QED
      BY <1>1, <1>2, <2>1 DEF Admit, profiles, Carried, RequestsTyped, Stages
  <1>3. CASE Refuse(r)
    <2>1. at' = [at EXCEPT ![r] = "refused"] /\ at'[r] = "refused"
      BY <1>1, <1>3 DEF Refuse, To, RequestsTyped
    <2> QED
      BY <1>1, <1>3, <2>1 DEF Refuse, profiles, Carried, RequestsTyped, Stages
  <1> QED
    BY <1>2, <1>3

\* A request that is counted stays entitled; who is refused has spent the limit.
LEMMA CountedSound ==
    ASSUME IndInv, NEW r \in Requests, Admit(r) \/ Refuse(r)
    PROVE  Sound(r)'
  <1>1. /\ RequestsTyped /\ CountersTyped /\ SpentInv /\ Sound(r)
    BY Parts DEF AllSound
  <1>2. /\ at[r] = "count" /\ Increment(r) /\ roles' = roles
        /\ at'[r] \in {"body", "refused"} /\ (at'[r] = "refused" => Refuse(r))
        /\ held' = held /\ route' = route /\ caller' = caller /\ address' = address
        /\ role' = role /\ slot' = slot
    BY CountedMoves
  <1>3. Authorized(r)' = Authorized(r) /\ Party(r)' = Party(r)
        /\ UserOf(caller[r])' = UserOf(caller[r])
    BY <1>2 DEF Authorized, Needs, Available, Party, UserOf
  <1>4. window' = window
    BY <1>2, Counting
  <1>5. ASSUME Refuse(r)
        PROVE  spent'[Party(r)][slot[r]] > Table[route[r]].limit
    <2>1. ~(count[BucketOf(r)][slot[r]] + 1 <= Table[route[r]].limit)
      BY <1>5 DEF Refuse, Within
    <2>2. /\ count'[BucketOf(r)][slot[r]] = count[BucketOf(r)][slot[r]] + 1
          /\ count'[BucketOf(r)][slot[r]] <= spent'[Party(r)][slot[r]]
          /\ count[BucketOf(r)][slot[r]] \in Nat /\ spent'[Party(r)][slot[r]] \in Nat
          /\ Table[route[r]].limit \in Nat
      BY <1>1, <1>2, OwnBucket, Counting DEF CountersTyped
    <2> QED
      BY <2>1, <2>2
  <1> QED
    BY <1>1, <1>2, <1>3, <1>4, <1>5 DEF Sound, Resolved, Counted

\* A refusal keeps the invariant.
LEMMA RefuseStep ==
    ASSUME IndInv, NEW r \in Requests, Refuse(r)
    PROVE  IndInv'
  <1>1. UNCHANGED admitted
    BY DEF Refuse
  <1> QED
    BY <1>1, CountedMoves, CountedSound, BudgetKept, OneCounts

\* An admission keeps the invariant.
LEMMA AdmitStep ==
    ASSUME IndInv, NEW r \in Requests, Admit(r)
    PROVE  IndInv'
  <1>1. CountersTyped /\ BudgetInv
    BY Parts
  <1>2. at[r] = "count" /\ Increment(r) /\ window' = window
    BY CountedMoves, Counting
  <1>3. CASE slot[r] # window
    <2>1. UNCHANGED admitted
      BY <1>3 DEF Admit
    <2> QED
      BY <1>2, <2>1, CountedMoves, CountedSound, BudgetKept, OneCounts
  <1>4. CASE slot[r] = window
    <2> DEFINE limit == Table[route[r]].limit
    <2>1. /\ BucketOf(r) \in Buckets /\ limit \in Limits /\ limit \in Nat /\ window \in Windows
          /\ count[BucketOf(r)][window] + 1 <= limit
      BY <1>2, <1>4, OwnBucket DEF Admit, Within
    <2>2. admitted' = [admitted EXCEPT ![BucketOf(r)][limit] = @ + 1]
      BY <1>4 DEF Admit
    <2> HIDE DEF limit
    <2>3. /\ admitted' \in [Buckets -> [Limits -> Nat]]
          /\ \A b \in Buckets, l \in Limits :
                admitted'[b][l] = IF b = BucketOf(r) /\ l = limit THEN admitted[b][l] + 1
                                  ELSE admitted[b][l]
      BY <1>1, <2>1, <2>2 DEF CountersTyped
    <2>4. ASSUME NEW b \in Buckets, NEW l \in Limits
          PROVE  admitted'[b][l] <= l /\ admitted'[b][l] <= count'[b][window']
      <3>1. /\ admitted[b][l] \in Nat /\ count[b][window] \in Nat /\ l \in Nat
            /\ admitted[b][l] <= l /\ admitted[b][l] <= count[b][window]
        <4>1. l \in Nat
          BY DoorAssumption DEF Limits
        <4> QED
          BY <1>1, <2>1, <4>1 DEF CountersTyped, BudgetInv
      <3>2. count'[b][window'] = IF b = BucketOf(r) THEN count[b][window] + 1
                                 ELSE count[b][window]
        BY <1>2, <1>4, <2>1, Counting
      <3> QED
        BY <2>1, <2>3, <3>1, <3>2
    <2>5. BudgetInv'
      BY <2>4 DEF BudgetInv
    <2> QED
      BY <1>2, <2>3, <2>5, CountedMoves, CountedSound, OneCounts
  <1> QED
    BY <1>3, <1>4

-----------------------------------------------------------------------------
(* What goes on around the requests.                                       *)

\* The clock and the purge touch no request.
LEMMA TimeSteps ==
    ASSUME IndInv, Tick \/ Purge
    PROVE  IndInv'
  <1>1. RolesTyped /\ CountersTyped /\ RequestsTyped /\ BudgetInv /\ SpentInv /\ AllSound
    BY Parts
  <1>2. UNCHANGED <<profiles, requests>> /\ spent' = spent
    BY DEF Tick, Purge, profiles, requests
  <1>3. CountersTyped' /\ window <= window'
    <2>1. CASE Tick
      BY <1>1, <2>1, DoorAssumption DEF Tick, CountersTyped, Windows
    <2>2. CASE Purge
      BY <1>1, <2>2, DoorAssumption DEF Purge, CountersTyped, Windows
    <2> QED
      BY <2>1, <2>2
  <1>4. BudgetInv'
    <2>1. \A l \in Limits : l \in Nat
      BY DoorAssumption DEF Limits
    <2>2. CASE Tick
      <3>1. \A b \in Buckets, l \in Limits : admitted'[b][l] = 0 /\ count'[b][window'] \in Nat
        BY <1>1, <1>3, <2>2 DEF Tick, CountersTyped
      <3> QED
        BY <2>1, <3>1 DEF BudgetInv
    <2>3. CASE Purge
      <3>1. ~Expired(window) /\ window' = window /\ admitted' = admitted
        BY <1>1, <2>3, DoorAssumption DEF Purge, Expired, CountersTyped, Windows
      <3>2. \A b \in Buckets : count'[b][window] = count[b][window]
        BY <1>1, <2>3, <3>1 DEF Purge, CountersTyped
      <3> QED
        BY <1>1, <3>1, <3>2 DEF BudgetInv
    <2> QED
      BY <2>2, <2>3
  <1>5. SpentInv'
    <2>1. ASSUME NEW b \in Buckets, NEW w \in Windows
          PROVE  count'[b][w] <= spent[OwnerOf(b)][w]
      <3>1. OwnerOf(b) \in Callers \cup Addresses
        BY DoorAssumption DEF Buckets, OwnerOf, Callers
      <3>2. count[b][w] \in Nat /\ spent[OwnerOf(b)][w] \in Nat
            /\ count[b][w] <= spent[OwnerOf(b)][w]
        BY <1>1, <3>1 DEF CountersTyped, SpentInv
      <3>3. count'[b][w] \in {0, count[b][w]}
        BY DEF Tick, Purge
      <3> QED
        BY <3>2, <3>3
    <2> QED
      BY <1>2, <2>1 DEF SpentInv, OwnerOf
  <1>6. Forward
    <2>1. \A p \in Callers \cup Addresses, w \in Windows :
            spent[p][w] \in Nat /\ spent[p][w] <= spent'[p][w]
      BY <1>1, <1>2 DEF CountersTyped
    <2> QED
      BY <1>3, <2>1 DEF Forward, CountersTyped
  <1>7. RolesTyped' /\ RequestsTyped'
    BY <1>1, <1>2 DEF RolesTyped, RequestsTyped, profiles, requests
  <1>8. AllSound'
    BY <1>1, <1>2, <1>3, <1>6, StillSound DEF AllSound, Carried, profiles, requests
  <1> QED
    BY <1>3, <1>4, <1>5, <1>7, <1>8, PartsNext

\* A new role joins those its user had while its requests were under way.
LEMMA SetRoleStep ==
    ASSUME IndInv, NEW u \in Users, NEW rank \in Ranks \cup {"gone"}, SetRole(u, rank)
    PROVE  IndInv'
  <1>1. RolesTyped /\ CountersTyped /\ RequestsTyped /\ BudgetInv /\ SpentInv /\ AllSound
    BY Parts
  <1>2. UNCHANGED <<counters, requests>> /\ roles' = [roles EXCEPT ![u] = rank]
    BY DEF SetRole
  <1>3. \A r \in Requests :
          held'[r] = IF at[r] # "idle" /\ UserOf(caller[r]) = u
                     THEN held[r] \cup ({rank} \ {"gone"}) ELSE held[r]
    BY DEF SetRole
  <1>4. held' \in [Requests -> SUBSET Ranks]
    BY <1>1 DEF SetRole, RequestsTyped
  <1>5. CountersTyped' /\ BudgetInv' /\ SpentInv' /\ RolesTyped' /\ RequestsTyped'
    BY <1>1, <1>2, <1>4 DEF CountersTyped, BudgetInv, SpentInv, RolesTyped, RequestsTyped,
       counters, requests
  <1>6. ASSUME NEW r \in Requests
        PROVE  Sound(r)'
    <2>1. Sound(r) /\ UserOf(caller[r]) \in Users \cup {Nobody}
      BY <1>1, Humans DEF AllSound, RequestsTyped
    <2>2. /\ at' = at /\ route' = route /\ caller' = caller /\ address' = address
          /\ role' = role /\ slot' = slot /\ window' = window /\ spent' = spent
      BY <1>2 DEF counters, requests
    <2>3. /\ Authorized(r)' = Authorized(r) /\ Party(r)' = Party(r)
          /\ UserOf(caller[r])' = UserOf(caller[r])
      BY <2>2 DEF Authorized, Needs, Available, Party, UserOf
    <2>4. held[r] \subseteq held'[r]
      BY <1>3
    <2>5. at[r] # "idle" /\ UserOf(caller[r]) # Nobody =>
            roles'[UserOf(caller[r])] \in held'[r] \cup {"gone"}
      <3>1. CASE UserOf(caller[r]) = u
        BY <1>1, <1>2, <1>3, <3>1 DEF RolesTyped
      <3>2. CASE UserOf(caller[r]) # u
        BY <1>1, <1>2, <2>1, <2>4, <3>2 DEF RolesTyped, Sound
      <3> QED
        BY <3>1, <3>2
    <2> QED
      BY <2>1, <2>2, <2>3, <2>4, <2>5 DEF Sound
  <1> QED
    BY <1>5, <1>6, PartsNext DEF AllSound

-----------------------------------------------------------------------------
(* The invariant.                                                          *)

\* The invariant holds before any request has come.
LEMMA InitStep ==
    ASSUME Init
    PROVE  IndInv
  <1>1. 0 \in Windows /\ window \in Windows
    BY DoorAssumption DEF Init, Windows
  <1>2. CountersTyped
    BY <1>1 DEF Init, CountersTyped
  <1>3. RequestsTyped /\ RolesTyped
    BY <1>1, Humans DEF Init, RequestsTyped, RolesTyped, Stages
  <1>4. BudgetInv
    <2>1. \A l \in Limits : l \in Nat
      BY DoorAssumption DEF Limits
    <2>2. \A b \in Buckets, l \in Limits : admitted[b][l] = 0 /\ count[b][window] = 0
      BY <1>1 DEF Init
    <2> QED
      BY <2>1, <2>2 DEF BudgetInv
  <1>5. SpentInv
    <2>1. ASSUME NEW b \in Buckets, NEW w \in Windows
          PROVE  count[b][w] <= spent[OwnerOf(b)][w]
      <3>1. OwnerOf(b) \in Callers \cup Addresses
        BY DoorAssumption DEF Buckets, OwnerOf, Callers
      <3> QED
        BY <3>1 DEF Init
    <2> QED
      BY <2>1 DEF SpentInv
  <1>6. AllSound
    BY DEF Init, AllSound, Sound, Resolved, Counted
  <1> QED
    BY <1>2, <1>3, <1>4, <1>5, <1>6, Parts

\* Every step keeps the invariant.
LEMMA NextStep ==
    ASSUME IndInv, [Next]_vars
    PROVE  IndInv'
  <1>1. ASSUME NEW r \in Requests, Moves(r)
        PROVE  IndInv'
    BY <1>1, OneMoves DEF Moves
  <1>2. ASSUME NEW r \in Requests, NEW n \in Called, NEW c \in Callers, NEW a \in Addresses,
               Arrive(r, n, c, a)
        PROVE  IndInv'
    BY <1>1, <1>2, ArriveMoves
  <1>3. ASSUME NEW r \in Requests,
               \/ Verify(r) \/ ResolveKey(r) \/ ReadRole(r) \/ ReadActive(r)
               \/ Guard(r) \/ Enter(r) \/ Answer(r)
        PROVE  IndInv'
    BY <1>1, <1>3, PlainMoves
  <1>4. ASSUME NEW r \in Requests, Admit(r) \/ Refuse(r) \/ LoseResult(r)
        PROVE  IndInv'
    BY <1>4, AdmitStep, RefuseStep, LoseResultStep
  <1>5. CASE UNCHANGED vars
    <2>1. /\ UNCHANGED <<roles, arrivals, at, route, caller, address, role, slot, held>>
          /\ UNCHANGED <<window, count, admitted, spent>>
      BY <1>5 DEF vars
    <2>2. TypeOK' /\ BudgetInv' /\ SpentInv'
      BY <2>1 DEF IndInv, TypeOK, BudgetInv, SpentInv, OwnerOf
    <2>3. CallerInv' /\ RefusedHasSpent'
      BY <2>1 DEF IndInv, CallerInv, RefusedHasSpent, Authorized, Needs, Available, Party, UserOf
    <2> QED
      BY <2>2, <2>3 DEF IndInv
  <1> QED
    BY <1>2, <1>3, <1>4, <1>5, TimeSteps, SetRoleStep DEF Next

\* The invariant of the door holds in every reachable state.
LEMMA Invariance == Spec => []IndInv
  BY InitStep, NextStep, PTL DEF Spec

\* Every variable keeps its type: a request is counted in a window that exists
\* and never by less than nothing.
THEOREM TypeCorrectness == Spec => []TypeOK
  <1>1. IndInv => TypeOK
    BY DEF IndInv
  <1> QED
    BY <1>1, Invariance, PTL

\* No bucket admits more than the limit in a window, for any number of
\* concurrent requests, and although old rows are purged meanwhile.
THEOREM BudgetsHold == Spec => []BudgetHolds
  <1>1. IndInv => BudgetHolds
    BY DEF IndInv, BudgetInv, BudgetHolds
  <1> QED
    BY <1>1, Invariance, PTL

\* Who is told 429 has made more requests than the limit in that minute: buckets
\* of different parties do not collide.
THEOREM RefusalsAreEarned == Spec => []RefusedHasSpent
  <1>1. IndInv => RefusedHasSpent
    BY DEF IndInv
  <1> QED
    BY <1>1, Invariance, PTL

\* What a key may reach under the cap of a role, beyond what the role may.
LEMMA CapAddsMaintenance ==
    \A rank \in Ranks : RoleCapFloor[rank] \subseteq SessionScopes[rank] \cup {"maintenance:run"}
  BY DEF Ranks, RoleCapFloor, SessionScopes, ServiceSuperAdminScopes

\* Nobody does with a credential what its user could not do, roles changing or
\* not: a delegated key never runs maintenance and only instance keys do.
THEOREM AuthorityHeld == Spec => []AuthorityWasHeld
  <1>1. ASSUME IndInv, NEW r \in Requests
        PROVE  /\ at[r] \in {"count", "refused", "body", "handler"} /\ Needs(r) # {} =>
                    \E rank \in IF UserOf(caller[r]) = Nobody THEN {role[r]} ELSE held[r] :
                        caller[r] # Nobody /\ Needs(r) \subseteq Available(caller[r], rank)
               /\ at[r] = "handler" =>
                    /\ UserOf(caller[r]) # Nobody =>
                        Needs(r) = {} \/ \E rank \in held[r] : Needs(r) \subseteq SessionScopes[rank]
                    /\ "maintenance:run" \in Needs(r) =>
                        UserOf(caller[r]) = Nobody /\ KeyCap[caller[r]] = "super_admin"
                    /\ Table[route[r]].inner = "superAdmin" => "super_admin" \in held[r]
    <2>1. RequestsTyped /\ Sound(r)
      BY <1>1, Parts DEF AllSound
    <2>2. CASE at[r] \in Counted
      <3>1. Authorized(r) /\ route[r] \in Called /\ caller[r] \in Callers
            /\ (UserOf(caller[r]) # Nobody => role[r] \in held[r])
            /\ (caller[r] \in Keys /\ UserOf(caller[r]) = Nobody => role[r] = KeyCap[caller[r]])
            /\ held[r] \subseteq Ranks
        BY <2>1, <2>2 DEF Sound, Counted, Resolved, RequestsTyped
      <3>2. Needs(r) # {} => caller[r] # Nobody /\ Needs(r) \subseteq Available(caller[r], role[r])
        BY <3>1 DEF Authorized
      <3>3. "maintenance:run" \in Needs(r) => Table[route[r]].inner = "instanceKey"
        BY <3>1, DoorAssumption DEF Needs
      <3>4. ASSUME at[r] = "handler"
            PROVE  /\ Table[route[r]].inner = "instanceKey" =>
                        caller[r] \in Keys /\ KeyOwner[caller[r]] = Nobody
                        /\ role[r] = "super_admin"
                   /\ Table[route[r]].inner = "superAdmin" =>
                        caller[r] \in Users /\ role[r] = "super_admin"
        BY <2>1, <3>4 DEF Sound
      <3>5. ASSUME at[r] = "handler", UserOf(caller[r]) # Nobody, Needs(r) # {}
            PROVE  Needs(r) \subseteq SessionScopes[role[r]]
        <4>1. "maintenance:run" \notin Needs(r)
          BY <3>3, <3>4, <3>5, Humans
        <4>2. role[r] \in Ranks
          BY <3>1, <3>5
        <4>3. Available(caller[r], role[r]) \subseteq SessionScopes[role[r]] \cup {"maintenance:run"}
          BY <4>2, CapAddsMaintenance DEF Available
        <4> QED
          BY <3>2, <3>5, <4>1, <4>3
      <3>6. ASSUME at[r] = "handler", "maintenance:run" \in Needs(r)
            PROVE  UserOf(caller[r]) = Nobody /\ KeyCap[caller[r]] = "super_admin"
        BY <3>1, <3>3, <3>4, <3>6, Humans
      <3>7. ASSUME at[r] = "handler", Table[route[r]].inner = "superAdmin"
            PROVE  "super_admin" \in held[r]
        BY <3>1, <3>4, <3>7, Humans, DoorAssumption
      <3> QED
        BY <3>1, <3>2, <3>5, <3>6, <3>7
    <2>3. CASE at[r] \notin Counted
      BY <2>3 DEF Counted
    <2> QED
      BY <2>2, <2>3
  <1>2. IndInv => AuthorityWasHeld
    BY <1>1 DEF AuthorityWasHeld
  <1> QED
    BY <1>2, Invariance, PTL
=============================================================================
