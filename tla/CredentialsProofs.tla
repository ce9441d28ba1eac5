-------------------------- MODULE CredentialsProofs -------------------------
(***************************************************************************)
(* Theorems about API keys and devices, and about phones and pushes, for   *)
(* any number of requests, users, keys, tokens, phones and dispatchers.    *)
(* The argument: a key is never given another owner and  *)
(* never comes back from revocation, and a profile never comes back from   *)
(* deactivation, so whatever makes a request late is still there when the  *)
(* statement that refuses it is executed.                                  *)
(***************************************************************************)
EXTENDS Push, TLAPS

\* What is said of one request.
Sound(r) ==
    /\ at[r] \in {"key", "revokeKey"} => key[r] \in Keys /\ keyOwner[key[r]] \in Users
    /\ at[r] = "revokeDevice" => /\ token[r] \in Tokens /\ deviceOwner[token[r]] \in Users
                             /\ caller[r] \in Admins \cup {owner[r]}
    /\ at[r] \notin {"idle", "key"} => caller[r] \in Users
    /\ at[r] = "key" /\ late[r] => key[r] \in keyRevoked \/ keyOwner[key[r]] \notin active
    /\ at[r] = "profile" /\ late[r] => caller[r] \notin active
    /\ at[r] = "revokeKey" => caller[r] \in SuperAdmins \cup {keyOwner[key[r]]}
    /\ at[r] \in {"handler", "revokeKey", "revokeDevice"} => ~late[r]

\* What is said of the requests' own variables.
RequestsTyped ==
    /\ at \in [Requests -> {"idle", "key", "profile", "handler", "revokeKey", "revokeDevice"}]
    /\ caller \in [Requests -> Users \cup {NoUser}]
    /\ key \in [Requests -> Keys \cup {NoKey}]
    /\ token \in [Requests -> Tokens \cup {NoToken}]
    /\ owner \in [Requests -> Users \cup {NoUser}]
    /\ late \in [Requests -> BOOLEAN]

\* What is said of the tables.
RowsTyped ==
    /\ active \subseteq Users
    /\ keyOwner \in [Keys -> Users \cup {NoUser}]
    /\ keyRevoked \subseteq {k \in Keys : keyOwner[k] # NoUser}
    /\ deviceOwner \in [Tokens -> Users \cup {NoUser}]
    /\ deviceRevoked \subseteq {d \in Tokens : deviceOwner[d] # NoUser}

\* What is said of the transaction.
DeactivationTyped ==
    /\ leaving \in Users \cup {NoUser}
    /\ step \in {"none", "keys", "devices", "commit"}
    /\ doomedKeys \subseteq {k \in Keys : keyOwner[k] = leaving}
    /\ doomedDevices \subseteq {d \in Tokens : deviceOwner[d] = leaving}
    /\ DeactivationInv

\* The parts of the inductive invariant.
LEMMA Parts ==
    IndInv <=> RowsTyped /\ DeactivationTyped /\ RequestsTyped /\ \A r \in Requests : Sound(r)
  BY DEF IndInv, TypeOK, RowsTyped, DeactivationTyped, RequestsTyped, Sound, RequestInv,
         StaleCallersAreRefused

\* The answer leaves a request typed and sound.
LEMMA EndSound ==
    ASSUME RequestsTyped, NEW r \in Requests, End(r)
    PROVE  RequestsTyped' /\ Sound(r)'
  BY DEF RequestsTyped, End, Sound

\* The tables only ever lose active users and live keys, and keep their owners.
Forward ==
    /\ active' \subseteq active
    /\ keyRevoked \subseteq keyRevoked'
    /\ \A k \in Keys : keyOwner[k] # NoUser => keyOwner'[k] = keyOwner[k]
    /\ \A d \in Tokens : deviceOwner[d] \in Users => deviceOwner'[d] \in Users

\* A request that does not move stays sound when the tables go forward.
LEMMA StillSound ==
    ASSUME RequestsTyped, NEW r \in Requests, Sound(r), Forward,
           at'[r] = at[r], caller'[r] = caller[r], key'[r] = key[r], token'[r] = token[r],
           owner'[r] = owner[r], late'[r] = late[r]
    PROVE  Sound(r)'
  <1>1. at[r] \in {"key", "revokeKey"} => keyOwner'[key[r]] = keyOwner[key[r]]
    BY CredentialsAssumption DEF Sound, Forward
  <1> QED
    BY <1>1 DEF Sound, Forward

\* Every step keeps the tables typed and moves them forward.
LEMMA RowsNext ==
    ASSUME IndInv, [Next]_vars
    PROVE  RowsTyped' /\ Forward
  <1> USE DEF RowsTyped, Forward
  <1>t. RowsTyped /\ DeactivationTyped /\ RequestsTyped /\ \A r \in Requests : Sound(r)
    BY Parts
  <1>1. CASE UNCHANGED rows
    BY <1>1, <1>t DEF rows
  <1>2. ASSUME NEW r \in Requests, NEW k \in Keys, CreateApiKey(r, k) PROVE RowsTyped' /\ Forward
    <2>1. caller[r] \in Users
      BY <1>2, <1>t DEF CreateApiKey, Sound
    <2> QED
      BY <1>2, <2>1, <1>t, CredentialsAssumption DEF CreateApiKey
  <1>3. ASSUME NEW r \in Requests, RevokeApiKey(r) PROVE RowsTyped' /\ Forward
    BY <1>3, <1>t, CredentialsAssumption DEF RevokeApiKey, Sound
  <1>4. ASSUME NEW r \in Requests, NEW d \in Tokens, RegisterDevice(r, d) PROVE RowsTyped' /\ Forward
    <2>1. caller[r] \in Users
      BY <1>4, <1>t DEF RegisterDevice, Sound
    <2> QED
      BY <1>4, <2>1, <1>t, CredentialsAssumption DEF RegisterDevice
  <1>5. ASSUME NEW r \in Requests, RevokeDevice(r) PROVE RowsTyped' /\ Forward
    BY <1>5, <1>t, CredentialsAssumption DEF RevokeDevice, Sound
  <1>6. ASSUME NEW S \in SUBSET Tokens, RevokeInvalid(S) PROVE RowsTyped' /\ Forward
    BY <1>6, <1>t DEF RevokeInvalid
  <1>7. CASE CommitDeactivation
    BY <1>7, <1>t, CredentialsAssumption DEF CommitDeactivation, DeactivationTyped, DeactivationInv
  <1> QED
    BY <1>1, <1>2, <1>3, <1>4, <1>5, <1>6, <1>7
       DEF Next, Arrive, Present, ResolveKey, ReadProfile, FindKey, FindDevice, BeginDeactivation,
           DoomKeys, DoomDevices, RollbackDeactivation, vars, rows

\* Every step keeps the transaction typed; it holds on to the rows it updated.
LEMMA DeactivationNext ==
    ASSUME IndInv, [Next]_vars
    PROVE  DeactivationTyped'
  <1> USE DEF DeactivationTyped, DeactivationInv
  <1>t. RowsTyped /\ DeactivationTyped /\ Forward
    BY Parts, RowsNext
  <1>0. \A k \in doomedKeys : keyOwner'[k] = keyOwner[k]
    BY <1>t, CredentialsAssumption DEF Forward
  <1>1. ASSUME UNCHANGED deactivation, \A d \in doomedDevices : deviceOwner'[d] = deviceOwner[d]
        PROVE  DeactivationTyped'
    BY <1>0, <1>1, <1>t DEF deactivation
  <1>2. ASSUME NEW r \in Requests, NEW d \in Tokens, RegisterDevice(r, d) PROVE DeactivationTyped'
    BY <1>1, <1>2, <1>t DEF RegisterDevice, RowsTyped
  <1>3. ASSUME NEW u \in Users, BeginDeactivation(u) PROVE DeactivationTyped'
    BY <1>3, <1>t DEF BeginDeactivation, rows
  <1>4. CASE DoomKeys
    BY <1>4, <1>t DEF DoomKeys, LiveKeysOf, rows
  <1>5. CASE DoomDevices
    BY <1>5, <1>t DEF DoomDevices, LiveDevicesOf, rows
  <1>6. CASE Done
    BY <1>6 DEF Done
  <1> QED
    BY <1>1, <1>2, <1>3, <1>4, <1>5, <1>6
       DEF Next, Arrive, Present, ResolveKey, ReadProfile, CreateApiKey, FindKey, RevokeApiKey,
           FindDevice, RevokeDevice, RevokeInvalid, CommitDeactivation, RollbackDeactivation, vars, rows, deactivation

\* Every step keeps the requests typed and sound.
LEMMA RequestsNext ==
    ASSUME IndInv, [Next]_vars
    PROVE  RequestsTyped' /\ \A r \in Requests : Sound(r)'
  <1>t. RowsTyped /\ RequestsTyped /\ RowsTyped' /\ Forward /\ \A r \in Requests : Sound(r)
    BY Parts, RowsNext
  <1>1. CASE UNCHANGED requests
    BY <1>1, <1>t, StillSound DEF requests, RequestsTyped
  <1> DEFINE Moves(r) ==
        \/ End(r)
        \/ \E u \in Users : Arrive(r, u)
        \/ ResolveKey(r) \/ ReadProfile(r)
        \/ \E k \in Keys : Present(r, k) \/ FindKey(r, k)
        \/ \E d \in Tokens : FindDevice(r, d)
  <1>2. ASSUME NEW r \in Requests, Moves(r) PROVE RequestsTyped' /\ \A q \in Requests : Sound(q)'
    <2>1. RequestsTyped' /\ Sound(r)'
      <3>1. CASE End(r)
        BY <3>1, <1>t, EndSound
      <3>2. ASSUME NEW u \in Users, Arrive(r, u) PROVE RequestsTyped' /\ Sound(r)'
        BY <3>2, <1>t DEF Arrive, RequestsTyped, Sound, rows
      <3>3. ASSUME NEW k \in Keys, Present(r, k) PROVE RequestsTyped' /\ Sound(r)'
        <4>1. RequestsTyped'
          BY <3>3, <1>t DEF Present, RequestsTyped
        <4>2. at'[r] = "key" /\ key'[r] = k /\ (late'[r] <=> k \in keyRevoked \/ keyOwner[k] \notin active)
          BY <3>3, <1>t DEF Present, RequestsTyped
        <4>3. keyOwner[k] \in Users /\ keyOwner' = keyOwner /\ keyRevoked' = keyRevoked /\ active' = active
          BY <3>3, <1>t DEF Present, RowsTyped, rows
        <4> QED
          BY <4>1, <4>2, <4>3 DEF Sound
      <3>4. CASE ResolveKey(r)
        BY <3>4, <3>1, <1>t DEF ResolveKey, Usable, RequestsTyped, RowsTyped, Sound, rows
      <3>5. CASE ReadProfile(r)
        BY <3>5, <3>1, <1>t DEF ReadProfile, Known, RequestsTyped, RowsTyped, Sound, rows
      <3>6. ASSUME NEW k \in Keys, FindKey(r, k) PROVE RequestsTyped' /\ Sound(r)'
        BY <3>6, <3>1, <1>t DEF FindKey, KeyVisible, RequestsTyped, RowsTyped, Sound, rows
      <3>7. ASSUME NEW d \in Tokens, FindDevice(r, d) PROVE RequestsTyped' /\ Sound(r)'
        BY <3>7, <3>1, <1>t DEF FindDevice, DeviceVisible, RequestsTyped, RowsTyped, Sound, rows
      <3> QED
        BY <1>2, <3>1, <3>2, <3>3, <3>4, <3>5, <3>6, <3>7
    <2>2. ASSUME NEW q \in Requests, q # r
          PROVE  /\ at'[q] = at[q] /\ caller'[q] = caller[q] /\ key'[q] = key[q]
                 /\ token'[q] = token[q] /\ owner'[q] = owner[q] /\ late'[q] = late[q]
      BY <1>2, <1>t, <2>2 DEF End, Arrive, Present, ResolveKey, ReadProfile, FindKey, FindDevice, RequestsTyped
    <2> QED
      BY <2>1, <2>2, <1>t, StillSound
  <1>3. (\E r \in Requests : Moves(r)) \/ UNCHANGED requests
    BY DEF Next, CreateApiKey, RevokeApiKey, RegisterDevice, RevokeDevice, RevokeInvalid,
           BeginDeactivation, DoomKeys, DoomDevices, CommitDeactivation, RollbackDeactivation, vars, requests
  <1> QED
    BY <1>1, <1>2, <1>3

\* It holds at first and after every step.
LEMMA Initially == Init => IndInv
  BY CredentialsAssumption DEF Init, IndInv, TypeOK, DeactivationInv, RequestInv, StaleCallersAreRefused

\* Every step of the requests, keys, devices and deactivations keeps the invariant.
LEMMA Inductively ==
    ASSUME IndInv, [Next]_vars
    PROVE  IndInv'
  <1>1. RowsTyped' /\ DeactivationTyped' /\ RequestsTyped' /\ \A r \in Requests : Sound(r)'
    BY RowsNext, DeactivationNext, RequestsNext
  <1> QED
    BY <1>1 DEF IndInv, TypeOK, RowsTyped, DeactivationTyped, RequestsTyped, Sound, RequestInv,
                StaleCallersAreRefused

\* The inductive invariant: types, the transaction, and what made a request late.
THEOREM Invariance == Spec => []IndInv
  <1>1. IndInv /\ [Next]_vars => IndInv'
    BY Inductively
  <1> QED
    BY <1>1, Initially, PTL DEF Spec

\* The tables, the transaction and the requests keep their types.
THEOREM TypeCorrectness == Spec => []TypeOK
  BY Invariance, PTL DEF IndInv

\* Nobody who was refused on arrival reaches a handler.
THEOREM LateCallersAreRefused == Spec => []StaleCallersAreRefused
  BY Invariance, PTL DEF IndInv

\* Keys are revoked by those entitled to, or with their owner.
THEOREM KeyRevocation == Spec => KeysAreRevokedByTheirOwner
  <1>1. ASSUME IndInv, [Next]_vars PROVE RevocationsAreEntitled
    <2>1. CASE UNCHANGED keyRevoked
      BY <2>1 DEF RevocationsAreEntitled
    <2>2. ASSUME NEW r \in Requests, RevokeApiKey(r) PROVE RevocationsAreEntitled
      BY <2>2, <1>1 DEF RevokeApiKey, IndInv, RequestInv, RevocationsAreEntitled
    <2>3. CASE CommitDeactivation
      BY <2>3, <1>1 DEF CommitDeactivation, IndInv, TypeOK, RevocationsAreEntitled
    <2> QED
      BY <1>1, <2>1, <2>2, <2>3
         DEF Next, Arrive, Present, ResolveKey, ReadProfile, CreateApiKey, FindKey, RegisterDevice,
             FindDevice, RevokeDevice, RevokeInvalid, BeginDeactivation, DoomKeys, DoomDevices,
             RollbackDeactivation, vars, rows
  <1>2. IndInv /\ [Next]_vars => [RevocationsAreEntitled]_vars
    BY <1>1
  <1> QED
    BY <1>2, Invariance, PTL DEF Spec, KeysAreRevokedByTheirOwner

-----------------------------------------------------------------------------
(* Phones and pushes.                                                      *)

PhoneStep ==
    \E p \in Phones :
        \/ \E u \in Users : Configure(p, u)
        \/ TokenReady(p) \/ Uninstall(p)
        \/ \E d \in Tokens : NewToken(p, d)

\* A step of the system is a step of the keys and devices, or changes nothing of theirs.
LEMMA StepImplements ==
    ASSUME PushTypeOK, [PushNext]_pushVars
    PROVE  [Next]_vars
  <1>1. CASE PhoneStep
    BY <1>1 DEF PhoneStep, Configure, TokenReady, Uninstall, NewToken
  <1>2. ASSUME NEW x \in posts, PostFails(x) PROVE [Next]_vars
    BY <1>2 DEF PostFails
  <1>3. ASSUME NEW x \in posts, NEW r \in Requests, ArriveFromPhone(r, x) PROVE [Next]_vars
    <2>1. x.user \in Users
      BY DEF PushTypeOK, Post
    <2> QED
      BY <1>3, <2>1 DEF ArriveFromPhone, Next
  <1>4. CASE Server
    <2>1. ASSUME NEW r \in Requests, Register(r) PROVE Next
      <3>1. body[r] \in Tokens
        BY <2>1 DEF Register, PushTypeOK
      <3> QED
        BY <2>1, <3>1 DEF Register, Next
    <2>2. ASSUME NEW r \in Requests, OtherArrival(r) \/ Resolve(r) PROVE Next
      BY <2>2 DEF OtherArrival, Resolve, Next
    <2>3. ASSUME NEW r \in Requests, OtherHandler(r) PROVE Next
      BY <2>3 DEF OtherHandler, Next
    <2>4. CASE Deactivation
      BY <2>4 DEF Deactivation, Next
    <2> QED
      BY <1>4, <2>1, <2>2, <2>3, <2>4 DEF Server
  <1>5. ASSUME NEW w \in Workers, NEW U \in SUBSET Users, ReadRecipients(w, U) PROVE [Next]_vars
    BY <1>5 DEF ReadRecipients
  <1>6. ASSUME NEW w \in Workers, NEW d \in Tokens, NEW answer, SendOne(w, d, answer)
        PROVE  [Next]_vars
    BY <1>6 DEF SendOne
  <1>7. ASSUME NEW w \in Workers, RevokeTokens(w) PROVE [Next]_vars
    <2>1. invalid[w] \in SUBSET Tokens
      BY DEF PushTypeOK
    <2> QED
      BY <1>7, <2>1 DEF RevokeTokens, Next
  <1>8. ASSUME NEW w \in Workers, SendFails(w) PROVE [Next]_vars
    BY <1>8 DEF SendFails
  <1> QED
    BY <1>1, <1>2, <1>3, <1>4, <1>5, <1>6, <1>7, <1>8 DEF PushNext, PhoneStep, pushVars

\* The variables that Push adds keep their types.
LEMMA PushTyped ==
    ASSUME PushTypeOK, [PushNext]_pushVars
    PROVE  PushTypeOK'
  <1> USE DEF PushTypeOK
  <1>1. CASE PhoneStep
    <2>1. ASSUME NEW p \in Phones, NEW u \in Users, Configure(p, u) PROVE PushTypeOK'
      BY <2>1 DEF Configure, dispatchers
    <2>2. ASSUME NEW p \in Phones, TokenReady(p) PROVE PushTypeOK'
      <3>1. [user |-> session[p], token |-> held[p]] \in Post
        BY <2>2 DEF TokenReady, Post
      <3> QED
        BY <2>2, <3>1 DEF TokenReady, dispatchers
    <2>3. ASSUME NEW p \in Phones, Uninstall(p) PROVE PushTypeOK'
      BY <2>3 DEF Uninstall, dispatchers
    <2>4. ASSUME NEW p \in Phones, NEW d \in Tokens, NewToken(p, d) PROVE PushTypeOK'
      <3>1. [user |-> session[p], token |-> d] \in Post
        BY <2>4 DEF NewToken, Post
      <3> QED
        BY <2>4, <3>1 DEF NewToken, dispatchers
    <2> QED
      BY <1>1, <2>1, <2>2, <2>3, <2>4 DEF PhoneStep
  <1>2. ASSUME NEW x \in posts, PostFails(x) PROVE PushTypeOK'
    BY <1>2 DEF PostFails, dispatchers
  <1>3. ASSUME NEW x \in posts, NEW r \in Requests, ArriveFromPhone(r, x) PROVE PushTypeOK'
    <2>1. x.token \in Tokens
      BY DEF Post
    <2> QED
      BY <1>3, <2>1 DEF ArriveFromPhone, dispatchers
  <1>4. CASE BodiesFollow
    BY <1>4 DEF BodiesFollow, phones, dispatchers
  <1>5. ASSUME NEW w \in Workers, NEW U \in SUBSET Users, ReadRecipients(w, U) PROVE PushTypeOK'
    BY <1>5 DEF ReadRecipients, Recipients, phones
  <1>6. ASSUME NEW w \in Workers, NEW d \in Tokens, NEW answer, SendOne(w, d, answer)
        PROVE  PushTypeOK'
    BY <1>6 DEF SendOne, phones
  <1>7. ASSUME NEW w \in Workers, Leave(w) PROVE PushTypeOK'
    BY <1>7 DEF Leave, phones
  <1> QED
    BY <1>1, <1>2, <1>3, <1>4, <1>5, <1>6, <1>7
       DEF PushNext, PhoneStep, Server, RevokeTokens, SendFails, pushVars, phones, dispatchers

\* Tokens are issued once, and what a phone has stored is remembered.
Remembered ==
    /\ \A d \in Tokens : issuedTo[d] \in Phones => issuedTo'[d] = issuedTo[d]
    /\ \A p \in Phones : used[p] \subseteq used'[p]

\* Whose sessions a phone has had, and to which phone a token was issued, is not forgotten.
LEMMA OnlyForward ==
    ASSUME PushTypeOK, [PushNext]_pushVars
    PROVE  Remembered
  <1>1. ASSUME NEW p \in Phones, NEW u \in Users, Configure(p, u) PROVE Remembered
    BY <1>1 DEF Configure, Remembered, PushTypeOK
  <1>2. ASSUME NEW p \in Phones, NEW d \in Tokens, NewToken(p, d) PROVE Remembered
    BY <1>2, PushAssumption DEF NewToken, Remembered, PushTypeOK
  <1>3. ASSUME UNCHANGED <<issuedTo, used>> PROVE Remembered
    BY <1>3 DEF Remembered
  <1> QED
    BY <1>1, <1>2, <1>3
       DEF PushNext, TokenReady, Uninstall, PostFails, ArriveFromPhone, Server, BodiesFollow,
           ReadRecipients, SendOne, RevokeTokens, SendFails, Leave, pushVars, phones

\* A registration that came from a phone goes on doing so.
LEMMA StillFromPhone ==
    ASSUME Remembered, NEW u, NEW d \in Tokens, FromPhone(u, d)
    PROVE  FromPhone(u, d)'
  BY DEF Remembered, FromPhone

\* Phones store and hold what is their own.
LEMMA PhonesNext ==
    ASSUME PushTypeOK, PhoneInv, [PushNext]_pushVars
    PROVE  PhoneInv'
  <1> USE DEF PhoneInv, PushTypeOK
  <1>1. ASSUME NEW p \in Phones, NEW u \in Users, Configure(p, u) PROVE PhoneInv'
    BY <1>1 DEF Configure
  <1>2. ASSUME NEW p \in Phones, NEW d \in Tokens, NewToken(p, d) PROVE PhoneInv'
    <2>1. \A q \in Phones : held[q] # d
      BY <1>2, PushAssumption, CredentialsAssumption DEF NewToken
    <2> QED
      BY <1>2, <2>1 DEF NewToken
  <1>3. ASSUME NEW p \in Phones, Uninstall(p) PROVE PhoneInv'
    BY <1>3 DEF Uninstall
  <1>4. ASSUME UNCHANGED <<held, issuedTo, session, used>> PROVE PhoneInv'
    BY <1>4
  <1> QED
    BY <1>1, <1>2, <1>3, <1>4
       DEF PushNext, TokenReady, PostFails, ArriveFromPhone, Server, BodiesFollow,
           ReadRecipients, SendOne, RevokeTokens, SendFails, Leave, pushVars, phones

\* Threads post what their phone stored.
LEMMA PostsNext ==
    ASSUME PushTypeOK, PhoneInv, RegistrationInv, [PushNext]_pushVars
    PROVE  \A x \in posts' : FromPhone(x.user, x.token)'
  <1> DEFINE Goal == \A x \in posts' : FromPhone(x.user, x.token)'
  <1>0. \A x \in posts : FromPhone(x.user, x.token)'
    <2> TAKE x \in posts
    <2>1. x.token \in Tokens /\ FromPhone(x.user, x.token)
      BY DEF PushTypeOK, Post, RegistrationInv
    <2> QED
      BY <2>1, OnlyForward, StillFromPhone
  <1>1. ASSUME NEW p \in Phones, TokenReady(p) PROVE Goal
    <2>1. FromPhone(session[p], held[p])'
      BY <1>1 DEF TokenReady, PhoneInv, PushTypeOK, FromPhone
    <2> QED
      BY <1>0, <1>1, <2>1 DEF TokenReady
  <1>2. ASSUME NEW p \in Phones, NEW d \in Tokens, NewToken(p, d) PROVE Goal
    <2>1. FromPhone(session[p], d)'
      BY <1>2 DEF NewToken, PhoneInv, PushTypeOK, FromPhone
    <2> QED
      BY <1>0, <1>2, <2>1 DEF NewToken
  <1>3. ASSUME posts' \subseteq posts PROVE Goal
    BY <1>0, <1>3
  <1> QED
    BY <1>1, <1>2, <1>3
       DEF PushNext, Configure, Uninstall, PostFails, ArriveFromPhone, Server, BodiesFollow,
           ReadRecipients, SendOne, RevokeTokens, SendFails, Leave, pushVars, phones

\* A request that registers a token is on its way there, for the user who posted it.
Carries(r) == body[r] # NoToken =>
    at[r] \in {"profile", "handler"} /\ FromPhone(caller[r], body[r])

\* A step of Credentials either moves a request on, with its caller, or ends it, or
\* moves one that carries nothing.
Moved(r) ==
    \/ at'[r] = at[r] /\ caller'[r] = caller[r]
    \/ at'[r] = "idle"
    \/ at[r] = "profile" /\ at'[r] = "handler" /\ caller'[r] = caller[r]
    \/ body[r] = NoToken

\* Every step of Credentials moves a request in one of these ways.
LEMMA ServerMoves ==
    ASSUME IndInv, PushTypeOK, RegistrationInv, Server, NEW r \in Requests
    PROVE  Moved(r)
  <1>t. RequestsTyped /\ Carries(r)
    BY Parts DEF RegistrationInv, Carries
  <1>1. ASSUME NEW q \in Requests, End(q) PROVE Moved(r)
    BY <1>1, <1>t DEF End, Moved, RequestsTyped
  <1>2. ASSUME NEW q \in Requests, OtherArrival(q) PROVE Moved(r)
    BY <1>2, <1>t DEF OtherArrival, Arrive, Present, Moved, RequestsTyped, Carries
  <1>3. ASSUME NEW q \in Requests, Resolve(q) PROVE Moved(r)
    BY <1>1, <1>3, <1>t DEF Resolve, ResolveKey, ReadProfile, Moved, RequestsTyped, Carries
  <1>4. ASSUME NEW q \in Requests, OtherHandler(q) PROVE Moved(r)
    BY <1>1, <1>4, <1>t
       DEF OtherHandler, CreateApiKey, FindKey, FindDevice, RevokeApiKey, RevokeDevice, Moved, RequestsTyped
  <1>5. ASSUME NEW q \in Requests, Register(q) PROVE Moved(r)
    BY <1>1, <1>5 DEF Register, RegisterDevice
  <1>6. CASE Deactivation
    BY <1>6 DEF Deactivation, BeginDeactivation, DoomKeys, DoomDevices, CommitDeactivation,
                RollbackDeactivation, requests, Moved
  <1> QED
    BY <1>2, <1>3, <1>4, <1>5, <1>6 DEF Server

\* The token in the body of a request comes from a phone that stored the session.
LEMMA BodiesNext ==
    ASSUME IndInv, PushTypeOK, RegistrationInv, [PushNext]_pushVars, NEW r \in Requests
    PROVE  Carries(r)'
  <1>t. RequestsTyped /\ Carries(r)
    BY Parts DEF RegistrationInv, Carries
  <1>0. ASSUME NEW u, NEW d \in Tokens, FromPhone(u, d) PROVE FromPhone(u, d)'
    BY <1>0, OnlyForward, StillFromPhone
  <1>1. ASSUME caller'[r] = caller[r], body'[r] = body[r],
               at[r] \in {"profile", "handler"} => at'[r] \in {"profile", "handler"}
        PROVE  Carries(r)'
    <2> SUFFICES ASSUME NEW u, u = caller[r], NEW d \in Tokens, d = body[r]
                 PROVE  Carries(r)'
      BY <1>1 DEF Carries, PushTypeOK
    <2>1. d # NoToken => FromPhone(u, d)'
      BY <1>0, <1>t DEF Carries
    <2>2. u = caller'[r] /\ d = body'[r]
      BY <1>1
    <2>3. FromPhone(u, d)' <=> FromPhone(caller[r], body[r])'
      BY <2>2 DEF FromPhone
    <2> QED
      BY <1>1, <1>t, <2>1, <2>2, <2>3 DEF Carries
  <1>2. ASSUME NEW x \in posts, NEW q \in Requests, ArriveFromPhone(q, x) PROVE Carries(r)'
    <2>1. CASE q # r
      BY <1>1, <1>2, <1>t, <2>1 DEF ArriveFromPhone, Arrive, RequestsTyped, PushTypeOK
    <2>2. CASE q = r
      <3>1. x.token \in Tokens /\ FromPhone(x.user, x.token)
        BY DEF RegistrationInv, PushTypeOK, Post
      <3>2. FromPhone(x.user, x.token)'
        BY <3>1, <1>0
      <3>3. at'[r] = "profile" /\ caller'[r] = x.user /\ body'[r] = x.token
        BY <1>2, <1>t, <2>2 DEF ArriveFromPhone, Arrive, RequestsTyped, PushTypeOK
      <3> QED
        BY <3>2, <3>3 DEF Carries, FromPhone
    <2> QED
      BY <2>1, <2>2
  <1>3. CASE Server
    <2>1. Moved(r)
      BY <1>3, ServerMoves
    <2>2. body'[r] = IF at'[r] = "idle" THEN NoToken ELSE body[r]
      BY <1>3 DEF Server, BodiesFollow
    <2> QED
      BY <1>1, <1>t, <2>1, <2>2 DEF Moved, Carries
  <1>4. CASE UNCHANGED <<requests, body>>
    BY <1>1, <1>4 DEF requests
  <1> QED
    BY <1>2, <1>3, <1>4
       DEF PushNext, Configure, TokenReady, Uninstall, NewToken, PostFails, ReadRecipients, SendOne,
           RevokeTokens, RevokeInvalid, SendFails, Leave, pushVars, vars, requests

\* A device is registered by a request that came from its phone.
LEMMA DevicesNext ==
    ASSUME IndInv, PushTypeOK, RegistrationInv, [PushNext]_pushVars
    PROVE  \A d \in Tokens : deviceOwner'[d] # NoUser => FromPhone(deviceOwner[d], d)'
  <1> SUFFICES ASSUME NEW d \in Tokens, NEW u, u = deviceOwner'[d], u # NoUser
               PROVE  FromPhone(u, d)'
    BY DEF FromPhone
  <1>0. FromPhone(u, d) => FromPhone(u, d)'
    BY OnlyForward, StillFromPhone
  <1>1. CASE deviceOwner'[d] = deviceOwner[d]
    BY <1>0, <1>1 DEF RegistrationInv
  <1>2. ASSUME NEW r \in Requests, Register(r) PROVE FromPhone(u, d)'
    <2>1. CASE body[r] = d
      <3>1. u = caller[r] /\ FromPhone(caller[r], body[r])
        BY <1>2, <2>1, Parts DEF Register, RegisterDevice, RegistrationInv, RowsTyped
      <3> QED
        BY <1>0, <2>1, <3>1
    <2>2. CASE body[r] # d
      BY <1>1, <1>2, <2>2, Parts DEF Register, RegisterDevice, RowsTyped
    <2> QED
      BY <2>1, <2>2
  <1>3. CASE UNCHANGED deviceOwner
    BY <1>1, <1>3
  <1>4. CASE Server
    <2>1. ASSUME NEW r \in Requests, OtherArrival(r) \/ Resolve(r) \/ OtherHandler(r)
          PROVE  UNCHANGED deviceOwner
      BY <2>1 DEF OtherArrival, Arrive, Present, Resolve, ResolveKey, ReadProfile, OtherHandler,
                  CreateApiKey, FindKey, FindDevice, RevokeApiKey, RevokeDevice, rows
    <2>2. CASE Deactivation
      BY <1>3, <2>2 DEF Deactivation, BeginDeactivation, DoomKeys, DoomDevices, CommitDeactivation,
                        RollbackDeactivation, rows
    <2> QED
      BY <1>2, <1>3, <1>4, <2>1, <2>2 DEF Server
  <1> QED
    BY <1>3, <1>4
       DEF PushNext, Configure, TokenReady, Uninstall, NewToken, PostFails, ArriveFromPhone, Arrive,
           ReadRecipients, SendOne, RevokeTokens, RevokeInvalid, SendFails, pushVars, vars, rows

\* A token that is held was held before or has just been issued.
LEMMA HeldNext ==
    ASSUME PushTypeOK, [PushNext]_pushVars
    PROVE  \A d \in Held' : d \in Held \/ issuedTo[d] = NoPhone
  <1>1. ASSUME UNCHANGED held PROVE Held' = Held
    BY <1>1 DEF Held
  <1>2. ASSUME NEW p \in Phones, NEW e \in Tokens, NewToken(p, e)
        PROVE  \A d \in Held' : d \in Held \/ issuedTo[d] = NoPhone
    BY <1>2 DEF NewToken, Held, PushTypeOK
  <1>3. ASSUME NEW p \in Phones, Uninstall(p)
        PROVE  \A d \in Held' : d \in Held
    BY <1>3 DEF Uninstall, Held, PushTypeOK
  <1> QED
    BY <1>1, <1>2, <1>3
       DEF PushNext, Configure, TokenReady, PostFails, ArriveFromPhone, Server, BodiesFollow,
           ReadRecipients, SendOne, RevokeTokens, SendFails, Leave, pushVars, phones

\* What FCM answers NOT_FOUND for is held by no phone, and never will be.
LEMMA DispatchersNext ==
    ASSUME PushTypeOK, RegistrationInv, DispatcherInv, [PushNext]_pushVars
    PROVE  DispatcherInv'
  <1> DEFINE Right(w) ==
        /\ \A d \in audience[w] \cup invalid[w] : issuedTo[d] \in Phones
        /\ (invalid[w] \ refused[w]) \cap Held = {}
  <1>0. \A d \in Tokens : issuedTo[d] \in Phones => issuedTo'[d] \in Phones /\ (d \in Held' => d \in Held)
    BY OnlyForward, HeldNext, PushAssumption DEF Remembered
  <1>1. ASSUME NEW w \in Workers, audience'[w] \subseteq audience[w], invalid'[w] \subseteq invalid[w],
               invalid'[w] \ refused'[w] \subseteq invalid[w] \ refused[w]
        PROVE  Right(w)'
    BY <1>0, <1>1 DEF DispatcherInv, PushTypeOK
  <1>2. ASSUME UNCHANGED dispatchers PROVE DispatcherInv'
    BY <1>1, <1>2 DEF dispatchers, DispatcherInv
  <1>3. ASSUME NEW w \in Workers, NEW U \in SUBSET Users, ReadRecipients(w, U) PROVE DispatcherInv'
    <2>1. \A d \in Recipients(U) : d \in Tokens /\ issuedTo'[d] \in Phones
      BY <1>0, CredentialsAssumption DEF Recipients, RegistrationInv, FromPhone
    <2>2. Right(w)'
      BY <1>3, <2>1 DEF ReadRecipients, PushTypeOK
    <2>3. ASSUME NEW v \in Workers, v # w PROVE Right(v)'
      BY <1>1, <1>3, <2>3 DEF ReadRecipients, PushTypeOK
    <2> QED
      BY <2>2, <2>3 DEF DispatcherInv
  <1>4. ASSUME NEW w \in Workers, NEW d \in Tokens, NEW answer \in Answers(d), SendOne(w, d, answer)
        PROVE  DispatcherInv'
    <2>1. ASSUME NEW v \in Workers, v # w PROVE Right(v)'
      BY <1>1, <1>4, <2>1 DEF SendOne, PushTypeOK
    <2>2. audience'[w] \subseteq audience[w] /\ invalid'[w] \subseteq invalid[w] \cup {d}
      BY <1>4 DEF SendOne, PushTypeOK
    <2>3. issuedTo[d] \in Phones
      BY <1>4 DEF SendOne, DispatcherInv
    <2>4. \A e \in invalid'[w] \ refused'[w] : e \in invalid[w] \ refused[w] \/ (e = d /\ d \notin Held)
      BY <1>4 DEF SendOne, Answers, Invalid, PushTypeOK
    <2>5. Right(w)'
      BY <1>0, <2>2, <2>3, <2>4 DEF DispatcherInv, PushTypeOK
    <2> QED
      BY <2>1, <2>5 DEF DispatcherInv
  <1>5. ASSUME NEW w \in Workers, Leave(w) PROVE DispatcherInv'
    <2>1. ASSUME NEW v \in Workers PROVE Right(v)'
      BY <1>1, <1>5 DEF Leave, PushTypeOK
    <2> QED
      BY <2>1 DEF DispatcherInv
  <1> QED
    BY <1>2, <1>3, <1>4, <1>5
       DEF PushNext, Configure, TokenReady, Uninstall, NewToken, PostFails, ArriveFromPhone, Server,
           BodiesFollow, RevokeTokens, SendFails, pushVars

PushIndInv == IndInv /\ PushInv

\* The invariant of phones and pushes holds at the start.
LEMMA PushInitially == PushInit => PushIndInv
  <1> SUFFICES ASSUME PushInit PROVE PushInv
    BY Initially DEF PushInit, PushIndInv
  <1> USE DEF PushInit, Init
  <1>1. PushTypeOK
    BY DEF PushTypeOK
  <1>2. PhoneInv
    BY DEF PhoneInv
  <1>3. RegistrationInv
    BY DEF RegistrationInv
  <1>4. DispatcherInv
    BY DEF DispatcherInv
  <1> QED
    BY <1>1, <1>2, <1>3, <1>4 DEF PushInv

\* Every step of phones, server and dispatchers keeps it.
LEMMA PushInductively ==
    ASSUME PushIndInv, [PushNext]_pushVars
    PROVE  PushIndInv'
  <1> USE DEF PushIndInv, PushInv
  <1>1. IndInv'
    BY StepImplements, Inductively
  <1>2. PushTypeOK' /\ PhoneInv' /\ DispatcherInv'
    BY PushTyped, PhonesNext, DispatchersNext
  <1>3. RegistrationInv'
    <2>1. \A r \in Requests : Carries(r)'
      BY BodiesNext
    <2> QED
      BY <2>1, PostsNext, DevicesNext DEF RegistrationInv, Carries
  <1> QED
    BY <1>1, <1>2, <1>3

\* The system with phones and dispatchers keeps both invariants.
THEOREM PushInvariance == PushSpec => []PushIndInv
  <1>1. PushIndInv /\ [PushNext]_pushVars => PushIndInv'
    BY PushInductively
  <1> QED
    BY <1>1, PushInitially, PTL DEF PushSpec

\* It is a system of keys and devices: what is proved of Credentials holds in it.
THEOREM PushImplementsCredentials == PushSpec => Spec
  <1>1. PushInit => Init
    BY DEF PushInit
  <1>2. PushIndInv /\ [PushNext]_pushVars => [Next]_vars
    BY StepImplements DEF PushIndInv, PushInv
  <1> QED
    BY <1>1, <1>2, PushInvariance, PTL DEF PushSpec, Spec

\* Phones lose their registration only with their user, to who may, or by a message
\* that FCM refuses.
THEOREM RegistrationsAreKept == PushSpec => PhonesKeepTheirRegistration
  <1>1. ASSUME PushIndInv, [PushNext]_pushVars PROVE LossesAreEntitled
    <2>t. IndInv /\ PushTypeOK /\ DispatcherInv
      BY <1>1 DEF PushIndInv, PushInv
    <2>1. CASE UNCHANGED deviceRevoked
      BY <2>1 DEF LossesAreEntitled
    <2>2. ASSUME NEW r \in Requests, RevokeDevice(r) PROVE LossesAreEntitled
      BY <2>2, <2>t DEF RevokeDevice, IndInv, RequestInv, LossesAreEntitled
    <2>3. CASE CommitDeactivation
      BY <2>3, <2>t DEF CommitDeactivation, IndInv, TypeOK, LossesAreEntitled
    <2>4. ASSUME NEW w \in Workers, RevokeTokens(w) PROVE LossesAreEntitled
      BY <2>4, <2>t DEF RevokeTokens, RevokeInvalid, DispatcherInv, LossesAreEntitled
    <2>5. ASSUME NEW r \in Requests, Register(r) PROVE LossesAreEntitled
      BY <2>5 DEF Register, RegisterDevice, LossesAreEntitled
    <2>6. ASSUME NEW r \in Requests, OtherArrival(r) \/ Resolve(r) PROVE UNCHANGED deviceRevoked
      BY <2>6 DEF OtherArrival, Arrive, Present, Resolve, ResolveKey, ReadProfile, rows
    <2>7. ASSUME NEW r \in Requests, OtherHandler(r) PROVE UNCHANGED deviceRevoked \/ RevokeDevice(r)
      BY <2>7 DEF OtherHandler, CreateApiKey, FindKey, FindDevice, RevokeApiKey, rows
    <2>8. CASE Deactivation
      BY <2>1, <2>3, <2>8 DEF Deactivation, BeginDeactivation, DoomKeys, DoomDevices,
                              RollbackDeactivation, rows
    <2>9. CASE Server
      BY <2>1, <2>2, <2>5, <2>6, <2>7, <2>8, <2>9 DEF Server
    <2> QED
      BY <1>1, <2>1, <2>4, <2>9
         DEF PushNext, Configure, TokenReady, Uninstall, NewToken, PostFails, ArriveFromPhone, Arrive,
             ReadRecipients, SendOne, SendFails, pushVars, vars, rows
  <1>2. PushIndInv /\ [PushNext]_pushVars => [LossesAreEntitled]_pushVars
    BY <1>1
  <1> QED
    BY <1>2, PushInvariance, PTL DEF PushSpec, PhonesKeepTheirRegistration

\* Phones that only users who are deactivated by now have used are sent nothing.
THEOREM SilenceAfterDeactivation == PushSpec => TheDeactivatedAreSentNothing
  <1>1. ASSUME PushIndInv, [PushNext]_pushVars PROVE ReadsReachTheActive
    <2>t. PushTypeOK /\ RegistrationInv
      BY <1>1 DEF PushIndInv, PushInv
    <2>1. ASSUME \A w \in Workers : audience'[w] \subseteq audience[w] PROVE ReadsReachTheActive
      BY <2>1 DEF ReadsReachTheActive
    <2>2. ASSUME NEW w \in Workers, NEW U \in SUBSET Users, ReadRecipients(w, U)
          PROVE  ReadsReachTheActive
      <3>1. \A d \in Recipients(U) : used[issuedTo[d]] \cap active # {}
        BY <2>t, CredentialsAssumption DEF Recipients, RegistrationInv, FromPhone
      <3>2. \A v \in Workers : audience'[v] = audience[v] \/ audience'[v] = Recipients(U)
        BY <2>2, <2>t DEF ReadRecipients, PushTypeOK
      <3> QED
        BY <3>1, <3>2 DEF ReadsReachTheActive
    <2>3. ASSUME NEW w \in Workers, NEW d \in Tokens, NEW answer, SendOne(w, d, answer)
          PROVE  ReadsReachTheActive
      BY <2>1, <2>3, <2>t DEF SendOne, PushTypeOK
    <2>4. ASSUME NEW w \in Workers, Leave(w) PROVE ReadsReachTheActive
      BY <2>1, <2>4, <2>t DEF Leave, PushTypeOK
    <2> QED
      BY <1>1, <2>1, <2>2, <2>3, <2>4
         DEF PushNext, Configure, TokenReady, Uninstall, NewToken, PostFails, ArriveFromPhone, Server,
             BodiesFollow, RevokeTokens, SendFails, pushVars, dispatchers
  <1>2. PushIndInv /\ [PushNext]_pushVars => [ReadsReachTheActive]_pushVars
    BY <1>1
  <1> QED
    BY <1>2, PushInvariance, PTL DEF PushSpec, TheDeactivatedAreSentNothing
=============================================================================
