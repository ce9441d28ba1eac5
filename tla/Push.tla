-------------------------------- MODULE Push --------------------------------
(***************************************************************************)
(* Phones, the devices table and the pushes, together: an installation of  *)
(* the app (FcmRegistrar.kt and PushMessagingService.kt in apps/android)   *)
(* stores a session and registers its FCM token with it, in threads whose  *)
(* requests may fail or be late; the requests are those of module          *)
(* Credentials; and dispatchers read the tokens of an event's recipients,  *)
(* ask FCM to deliver to each of them and revoke the devices whose tokens  *)
(* FCM calls invalid (publishPending in packages/core/src/realtime and     *)
(* packages/core/src/push/fcm.ts).                                         *)
(*                                                                         *)
(* FCM is external: it issues a token to one installation, the token that  *)
(* it replaces is never valid again, and it says UNREGISTERED of no token  *)
(* that is valid.  What becomes of the event is in module Outbox: a        *)
(* dispatcher here is any attempt of any event, and an answer that asks    *)
(* for a retry changes nothing in the tables.                              *)
(***************************************************************************)
EXTENDS Credentials

CONSTANTS
    Phones,   \* installations of the app
    Workers,  \* dispatchers that run at the same time
    NoPhone

ASSUME PushAssumption == NoPhone \notin Phones

VARIABLES
    held,      \* the FCM token of each phone
    issuedTo,  \* the phone each token was issued to
    session,   \* whose session_token is in the phone's preferences
    used,      \* the users whose session it has stored so far, for the properties
    posts,     \* POST /api/v1/devices in a thread of a phone, not yet sent
    body,      \* the push_token in the body of a request that reached the server
    audience,  \* the tokens each dispatcher has still to send to
    invalid,   \* those it will revoke
    refused    \* and among them those FCM refused with the message: INVALID_ARGUMENT

phones == <<held, issuedTo, session, used, posts>>
dispatchers == <<audience, invalid, refused>>
pushVars == <<vars, phones, body, dispatchers>>

\* A request to register a token for the user whose session it carries.
Post == [user : Users, token : Tokens]

PushTypeOK ==
    /\ held \in [Phones -> Tokens \cup {NoToken}]
    /\ issuedTo \in [Tokens -> Phones \cup {NoPhone}]
    /\ session \in [Phones -> Users \cup {NoUser}]
    /\ used \in [Phones -> SUBSET Users]
    /\ posts \subseteq Post
    /\ body \in [Requests -> Tokens \cup {NoToken}]
    /\ audience \in [Workers -> SUBSET Tokens]
    /\ invalid \in [Workers -> SUBSET Tokens]
    /\ refused \in [Workers -> SUBSET Tokens]

PushInit ==
    /\ Init
    /\ held = [p \in Phones |-> NoToken]
    /\ issuedTo = [d \in Tokens |-> NoPhone]
    /\ session = [p \in Phones |-> NoUser]
    /\ used = [p \in Phones |-> {}]
    /\ posts = {}
    /\ body = [r \in Requests |-> NoToken]
    /\ audience = [w \in Workers |-> {}]
    /\ invalid = [w \in Workers |-> {}]
    /\ refused = [w \in Workers |-> {}]

\* The tokens FCM delivers to.
Held == {held[p] : p \in Phones} \ {NoToken}

-----------------------------------------------------------------------------
(* The phone.                                                              *)

\* configure: the session is stored before anything is asked of the instance.
Configure(p, u) ==
    /\ session' = [session EXCEPT ![p] = u]
    /\ used' = [used EXCEPT ![p] = @ \cup {u}]
    /\ UNCHANGED <<vars, held, issuedTo, posts, body, dispatchers>>

\* Firebase issues the first token or another one: onNewToken calls registerToken,
\* which starts a thread with the session stored by then.
NewToken(p, d) ==
    /\ session[p] # NoUser
    /\ issuedTo[d] = NoPhone
    /\ held' = [held EXCEPT ![p] = d]
    /\ issuedTo' = [issuedTo EXCEPT ![d] = p]
    /\ posts' = posts \cup {[user |-> session[p], token |-> d]}
    /\ UNCHANGED <<vars, session, used, body, dispatchers>>

\* configure has fetched the instance's configuration and Firebase hands over the
\* token, if nothing failed before: registerDevice starts a thread with the session
\* stored by then.  A configure that is repeated with the same session is another
\* step of these; two threads with the same session and token count as one.
TokenReady(p) ==
    /\ session[p] # NoUser
    /\ held[p] # NoToken
    /\ posts' = posts \cup {[user |-> session[p], token |-> held[p]]}
    /\ UNCHANGED <<vars, held, issuedTo, session, used, body, dispatchers>>

\* A thread's request fails before it has an effect: the network, or a session that
\* has expired.  Nothing tries it again.
PostFails(x) ==
    /\ posts' = posts \ {x}
    /\ UNCHANGED <<vars, held, issuedTo, session, used, body, dispatchers>>

\* The app is uninstalled: its preferences go, and FCM forgets the token.  What its
\* threads have sent may still arrive.
Uninstall(p) ==
    /\ session[p] # NoUser
    /\ held' = [held EXCEPT ![p] = NoToken]
    /\ session' = [session EXCEPT ![p] = NoUser]
    /\ UNCHANGED <<vars, issuedTo, used, posts, body, dispatchers>>

-----------------------------------------------------------------------------
(* The server: the steps of Credentials, where a phone's request is to     *)
(* register the token in its body and other requests do the rest.          *)

\* The body goes with its request.
BodiesFollow ==
    /\ body' = [r \in Requests |-> IF at'[r] = "idle" THEN NoToken ELSE body[r]]
    /\ UNCHANGED <<phones, dispatchers>>

\* The request of a thread arrives.
ArriveFromPhone(r, x) ==
    /\ Arrive(r, x.user)
    /\ body' = [body EXCEPT ![r] = x.token]
    /\ posts' = posts \ {x}
    /\ UNCHANGED <<held, issuedTo, session, used, dispatchers>>

Resolve(r) == ResolveKey(r) \/ ReadProfile(r)

Register(r) == body[r] # NoToken /\ RegisterDevice(r, body[r])

OtherHandler(r) ==
    \/ /\ body[r] = NoToken
       /\ \/ \E k \in Keys : CreateApiKey(r, k) \/ FindKey(r, k)
          \/ \E d \in Tokens : FindDevice(r, d)
    \/ RevokeApiKey(r) \/ RevokeDevice(r)

OtherArrival(r) == (\E u \in Users : Arrive(r, u)) \/ (\E k \in Keys : Present(r, k))

Deactivation ==
    \/ \E u \in Users : BeginDeactivation(u)
    \/ DoomKeys \/ DoomDevices \/ CommitDeactivation \/ RollbackDeactivation

Server ==
    /\ \/ \E r \in Requests : OtherArrival(r) \/ Resolve(r) \/ Register(r) \/ OtherHandler(r)
       \/ Deactivation
    /\ BodiesFollow

-----------------------------------------------------------------------------
(* The dispatcher.                                                         *)

\* Mutant of Recipients: the revocation of the devices is trusted.
NotRevoked(U) == {d \in Tokens : deviceOwner[d] \in U /\ d \notin deviceRevoked}

\* recipients, of an event to the users of U; without any, nothing is sent.
Recipients(U) == {d \in Tokens : deviceOwner[d] \in U \cap active /\ d \notin deviceRevoked}

ReadRecipients(w, U) ==
    /\ audience[w] = {} /\ invalid[w] = {}
    /\ audience' = [audience EXCEPT ![w] = Recipients(U)]
    /\ UNCHANGED <<vars, phones, body, invalid, refused>>

\* What FCM answers for a token.
Answers(d) ==
    {"OK", "INVALID_ARGUMENT", "other"} \cup (IF d \in Held THEN {} ELSE {"NOT_FOUND"})

\* Mutant of Invalid: what sendOne calls RETRY counts too.
AnyError(answer) == answer # "OK"

\* sendOne and the filter in publishPending.
Invalid(answer) == answer \in {"NOT_FOUND", "INVALID_ARGUMENT"}

\* send, for one of the tokens; the requests of a chunk are concurrent.
SendOne(w, d, answer) ==
    /\ d \in audience[w]
    /\ audience' = [audience EXCEPT ![w] = @ \ {d}]
    /\ invalid' = [invalid EXCEPT ![w] = IF Invalid(answer) THEN @ \cup {d} ELSE @]
    /\ refused' = [refused EXCEPT ![w] = IF answer = "INVALID_ARGUMENT" THEN @ \cup {d} ELSE @]
    /\ UNCHANGED <<vars, phones, body>>

\* The dispatcher is done with the event.
Leave(w) ==
    /\ audience' = [audience EXCEPT ![w] = {}]
    /\ invalid' = [invalid EXCEPT ![w] = {}]
    /\ refused' = [refused EXCEPT ![w] = {}]
    /\ UNCHANGED <<phones, body>>

\* The devices with an invalid token are revoked by token, in one statement.
RevokeTokens(w) == audience[w] = {} /\ invalid[w] # {} /\ RevokeInvalid(invalid[w]) /\ Leave(w)

\* The exchange of the account for an access token fails, a request of a chunk times
\* out and takes the answers of the others with it, or the process ends.
SendFails(w) == audience[w] \cup invalid[w] # {} /\ Leave(w) /\ UNCHANGED vars

-----------------------------------------------------------------------------
PushNext ==
    \/ \E p \in Phones :
        \/ \E u \in Users : Configure(p, u)
        \/ TokenReady(p) \/ Uninstall(p)
        \/ \E d \in Tokens : NewToken(p, d)
    \/ \E x \in posts : PostFails(x) \/ \E r \in Requests : ArriveFromPhone(r, x)
    \/ Server
    \/ \E w \in Workers :
        \/ \E U \in SUBSET Users : ReadRecipients(w, U)
        \/ \E d \in Tokens : \E answer \in Answers(d) : SendOne(w, d, answer)
        \/ RevokeTokens(w) \/ SendFails(w)

PushSpec == PushInit /\ [][PushNext]_pushVars
-----------------------------------------------------------------------------
(* Properties.                                                             *)

\* The revocations of a step, of devices whose phone still holds the token, are
\* those of a deactivation, of a request that may, or of a message FCM refused.
LossesAreEntitled ==
    \A d \in (deviceRevoked' \ deviceRevoked) \cap Held :
        \/ deviceOwner[d] = leaving
        \/ \E r \in Requests : /\ at[r] = "revokeDevice" /\ token[r] = d
                               /\ caller[r] \in Admins \cup {owner[r]}
        \/ \E w \in Workers : d \in refused[w]

\* A phone that FCM delivers to loses its registration only with its user, to an
\* admin or to who owned it when the row was read, or by a message that FCM refuses;
\* that a token is revoked some time after FCM answered for it, and by then may have
\* another owner, takes no registration from a phone.
PhonesKeepTheirRegistration == [][LossesAreEntitled]_pushVars

\* The step sends only to phones that had the session of a user who is active.
ReadsReachTheActive ==
    \A w \in Workers :
        \A d \in audience'[w] \ audience[w] : used[issuedTo[d]] \cap active # {}

\* A phone that only users who are deactivated by now have used is sent nothing,
\* although a device registered while its user is deactivated stays unrevoked, and a
\* late thread registers it after the deactivation.
TheDeactivatedAreSentNothing == [][ReadsReachTheActive]_pushVars

-----------------------------------------------------------------------------
(* The inductive invariant, with that of Credentials.                      *)

\* The token was issued to a phone that has stored a session of the user.
FromPhone(u, d) == issuedTo[d] \in Phones /\ u \in used[issuedTo[d]]

\* What a phone has stored and holds is its own.
PhoneInv == \A p \in Phones :
    /\ session[p] # NoUser => session[p] \in used[p]
    /\ held[p] # NoToken => issuedTo[held[p]] = p

\* A registration is a phone's at every stage: in a thread, in a request, in the table.
RegistrationInv ==
    /\ \A x \in posts : FromPhone(x.user, x.token)
    /\ \A r \in Requests : body[r] # NoToken =>
          at[r] \in {"profile", "handler"} /\ FromPhone(caller[r], body[r])
    /\ \A d \in Tokens : deviceOwner[d] # NoUser => FromPhone(deviceOwner[d], d)

\* Dispatchers send to tokens that were issued, and those FCM does not find stay dead.
DispatcherInv == \A w \in Workers :
    /\ \A d \in audience[w] \cup invalid[w] : issuedTo[d] \in Phones
    /\ (invalid[w] \ refused[w]) \cap Held = {}

PushInv == PushTypeOK /\ PhoneInv /\ RegistrationInv /\ DispatcherInv
=============================================================================
