------------------------------- MODULE Wizard -------------------------------
(***************************************************************************)
(* The entry of the panel and the setup wizard (apps/admin/src/proxy.ts,   *)
(* lib/instance-gate.ts, lib/instance-state.ts, app/page.tsx,              *)
(* app/setup/*, app/(auth)/actions.ts), over what the route that creates   *)
(* the first super_admin promises (SetupContract).                         *)
(*                                                                         *)
(* A GET of "/", "/setup" or "/login" passes the gate of the proxy, which  *)
(* redirects by the instance state it has memoised for a few seconds, and  *)
(* then the page, which redirects by what it reads itself: the two may     *)
(* disagree.  Filling the memo takes two queries; readers overlap, and     *)
(* what they leave behind depends on who finishes last.  The wizard's      *)
(* steps are derived from the database, from a cookie and from the token   *)
(* lifetime that was last observed.                                        *)
(*                                                                         *)
(* One process of the panel is modelled.  The memo's lease is kept as the  *)
(* ticks that are left of it.  The limit browsers put on redirects is left *)
(* out: it would only hide a loop.                                         *)
(***************************************************************************)
EXTENDS Integers

CONSTANTS
    Installers,    \* browsers of people who install the instance
    Visitors,      \* browsers of people without an account
    Admins,        \* accounts of first super_admins
    NoUser,        \* no session
    TTL,           \* POSITIVE_TTL_MS, in ticks
    MaxPanelFaults \* bound: lost answers, failed calls, expired cookies, pages left, recoveries

Browsers == Installers \cup Visitors

ASSUME WizardAssumption ==
    /\ Admins \subseteq Nat
    /\ NoUser \notin Admins
    /\ TTL \in Nat \ {0} /\ MaxPanelFaults \in Nat

VARIABLES
    account, recorded, \* the super_admins: see SetupContract
    configured,    \* the required settings have values
    expiry,        \* the project issues tokens that last 900 s
    observed,      \* security.jwt_expiry is 900
    cached,        \* lastState
    lease,         \* ticks until positiveUntil
    browserAt,     \* where each browser's request is
    path,          \* what it asks for
    waited,        \* ticks since its reader has taken the time
    saw,           \* what the reader's last query has answered
    mine,          \* the account its POST creates
    page,          \* what the browser shows
    session,       \* its user
    smtp,          \* its cookie, "leftover" from an earlier installation
    newcomers,     \* history: browsers whose setup was answered
    since,         \* history: ticks since the instance state last changed, up to TTL
    panelFaults

database == <<account, recorded, configured, expiry, observed>>
memo == <<cached, lease>>
reader == <<waited, saw>>
place == <<browserAt, path, page>>
cookies == <<session, smtp>>
history == <<newcomers, since>>
wizardVars == <<account, recorded, configured, expiry, observed, cached, lease, browserAt, path,
          waited, saw, mine, page, session, smtp, newcomers, since,
          panelFaults>>

Route == INSTANCE SetupContract WITH Accounts <- Admins

Paths == {"/", "/setup", "/login"}
States == {"uninstalled", "incomplete", "complete"}
Steps == {"smtp", "sent", "preferences", "blocked"}
Pages == {"blank", "create", "refused", "login", "panel", "unfinished"} \cup Steps
Positions == {"page", "proxy", "admins", "settings", "answer", "render", "user", "required",
              "observe", "show", "post", "made", "undo"}

WizardTypeOK ==
    /\ account \in [Admins -> {"none", "active", "deactivated"}]
    /\ recorded \subseteq Admins
    /\ configured \in BOOLEAN /\ expiry \in BOOLEAN /\ observed \in BOOLEAN
    /\ cached \in States
    /\ lease \in 0..TTL
    /\ browserAt \in [Browsers -> Positions]
    /\ path \in [Browsers -> Paths]
    /\ waited \in [Browsers -> 0..TTL]
    /\ saw \in [Browsers -> States]
    /\ mine \in [Browsers -> Admins \cup {NoUser}]
    /\ page \in [Browsers -> Pages]
    /\ session \in [Browsers -> Admins \cup {NoUser}]
    /\ smtp \in [Browsers -> {"none", "leftover", "confirmed"}]
    /\ newcomers \subseteq Browsers
    /\ since \in 0..TTL
    /\ panelFaults \in 0..MaxPanelFaults

\* The seed.  Cookies survive a reset of the database.
WizardInit ==
    /\ Route!Init
    /\ configured = FALSE
    /\ expiry \in BOOLEAN
    /\ observed = TRUE
    /\ cached = "uninstalled"
    /\ lease = 0
    /\ browserAt = [b \in Browsers |-> "page"]
    /\ path = [b \in Browsers |-> "/"]
    /\ waited = [b \in Browsers |-> 0]
    /\ saw = [b \in Browsers |-> "uninstalled"]
    /\ mine = [b \in Browsers |-> NoUser]
    /\ page = [b \in Browsers |-> "blank"]
    /\ session = [b \in Browsers |-> NoUser]
    /\ \E left \in {"none", "leftover"} :
           smtp = [b \in Browsers |-> IF b \in Installers THEN left ELSE "none"]
    /\ newcomers = {}
    /\ since = 0
    /\ panelFaults = 0

-----------------------------------------------------------------------------
\* hasActiveSuperAdmin
Installed == ~Route!Open

\* isSetupIncomplete, once there is an admin.
Progress == IF configured THEN "complete" ELSE "incomplete"

Actual == IF Installed THEN Progress ELSE "uninstalled"

SuperAdmin(u) == u \in Route!Active

\* getUser of the session client.
HasSession(b) == session[b] # NoUser

\* entryGate: where the request goes, p itself when it may proceed.
EntryGate(p, state, signedIn) ==
    CASE p = "/setup" /\ state = "uninstalled" -> p
      [] p # "/setup" /\ state = "uninstalled" -> "/setup"
      [] p = "/login" /\ state # "uninstalled" -> p
      [] p # "/login" /\ state # "uninstalled" /\ ~signedIn -> "/login"
      [] p = "/" /\ state # "uninstalled" /\ signedIn -> p
      [] p = "/setup" /\ state = "incomplete" /\ signedIn -> p
      [] p = "/setup" /\ state = "complete" /\ signedIn -> "/"

\* Mutant of LeaseFrom: the time is taken when the answer is stored.
LeaseFromNow(b) == TTL

\* Mutant of LeaseFrom: an answer lengthens the lease that is running.
LeaseExtended(b) == lease + TTL

\* positiveUntil = now + POSITIVE_TTL_MS, with the time taken before the queries.
LeaseFrom(b) == TTL - waited[b]

\* Mutant of LeaseServed: each hit renews the lease.
SlidingLease == TTL

\* A memoised answer is served and its lease runs on.
LeaseServed == lease

\* Mutant of SmtpAfterSetup: the cookie of an earlier installation survives.
SmtpKept(b) == smtp

\* The route's answer drops the confirmation cookie.
SmtpAfterSetup(b) == [smtp EXCEPT ![b] = "none"]

\* Mutant of Observed: a value that was recorded once is not observed again.
ObservedOnce(lifetime) == observed /\ lifetime

\* recordJwtExpiry, on every render of the wizard.
Observed(lifetime) == lifetime

\* The request goes on; the page it will show and the path are kept.
Advance(b, position) ==
    /\ browserAt' = [browserAt EXCEPT ![b] = position]
    /\ UNCHANGED <<path, page>>

\* A GET of p: from a link, the address bar or a redirect.
Get(b, p) ==
    /\ browserAt' = [browserAt EXCEPT ![b] = "proxy"]
    /\ path' = [path EXCEPT ![b] = p]
    /\ page' = [page EXCEPT ![b] = "blank"]

\* The page comes back.
Show(b, p) ==
    /\ browserAt' = [browserAt EXCEPT ![b] = "page"]
    /\ path' = [path EXCEPT ![b] = "/"]
    /\ page' = [page EXCEPT ![b] = p]

PanelFault == panelFaults < MaxPanelFaults /\ panelFaults' = panelFaults + 1

\* A change of the instance state, for the history alone.
Changed == since' = 0 /\ UNCHANGED newcomers

-----------------------------------------------------------------------------
(* The proxy.                                                              *)

Navigate(b, p) ==
    /\ browserAt[b] = "page"
    /\ Get(b, p)
    /\ UNCHANGED <<database, memo, reader, mine, cookies, history>>

\* redirectWithSession, or the page.
Direct(b, state) ==
    LET target == EntryGate(path[b], state, HasSession(b)) IN
    IF target = path[b] THEN Advance(b, "render") ELSE Get(b, target)

\* now < positiveUntil
ServeMemo(b) ==
    /\ browserAt[b] = "proxy"
    /\ lease > 0
    /\ Direct(b, cached)
    /\ lease' = LeaseServed
    /\ UNCHANGED <<database, cached, reader, mine, cookies, history, panelFaults>>

StartReading(b) ==
    /\ browserAt[b] = "proxy"
    /\ lease = 0
    /\ Advance(b, "admins")
    /\ UNCHANGED <<database, memo, reader, mine, cookies, history, panelFaults>>

ReadAdmins(b) ==
    /\ browserAt[b] = "admins"
    /\ Advance(b, IF Installed THEN "settings" ELSE "answer")
    /\ UNCHANGED <<database, memo, reader, mine, cookies, history, panelFaults>>

ReadSettings(b) ==
    /\ browserAt[b] = "settings"
    /\ saw' = [saw EXCEPT ![b] = Progress]
    /\ Advance(b, "answer")
    /\ UNCHANGED <<database, memo, waited, mine, cookies, history, panelFaults>>

\* The answer of the last query arrives; a negative one leaves positiveUntil alone.
Memoise(b) ==
    /\ browserAt[b] = "answer"
    /\ cached' = saw[b]
    /\ lease' = IF saw[b] = "uninstalled" THEN lease ELSE LeaseFrom(b)
    /\ Direct(b, saw[b])
    /\ saw' = [saw EXCEPT ![b] = "uninstalled"]
    /\ waited' = [waited EXCEPT ![b] = 0]
    /\ UNCHANGED <<database, mine, cookies, history, panelFaults>>

-----------------------------------------------------------------------------
(* The pages.                                                              *)

\* Home, with its own reading of the state, query by query.
RenderPanel(b) ==
    /\ browserAt[b] = "render"
    /\ path[b] = "/"
    /\ IF Installed THEN Advance(b, "user") ELSE Get(b, "/setup")
    /\ UNCHANGED <<database, memo, reader, mine, cookies, history, panelFaults>>

GetUser(b) ==
    /\ browserAt[b] = "user"
    /\ IF HasSession(b) THEN Advance(b, "required") ELSE Get(b, "/login")
    /\ UNCHANGED <<database, memo, reader, mine, cookies, history, panelFaults>>

\* isSetupIncomplete: the panel offers a link to the wizard.
ShowPanel(b) ==
    /\ browserAt[b] = "required"
    /\ path[b] = "/"
    /\ Show(b, IF configured THEN "panel" ELSE "unfinished")
    /\ UNCHANGED <<database, memo, reader, mine, cookies, history, panelFaults>>

RenderLogin(b) ==
    /\ browserAt[b] = "render"
    /\ path[b] = "/login"
    /\ Show(b, "login")
    /\ UNCHANGED <<database, memo, reader, mine, cookies, history, panelFaults>>

\* SetupPage: the creation step, the way out, or the steps of the admin.
RenderSetup(b) ==
    /\ browserAt[b] = "render"
    /\ path[b] = "/setup"
    /\ IF Installed THEN Advance(b, "required") ELSE Show(b, "create")
    /\ UNCHANGED <<database, memo, reader, mine, cookies, history, panelFaults>>

CheckRequired(b) ==
    /\ browserAt[b] = "required"
    /\ path[b] = "/setup"
    /\ IF configured THEN Get(b, "/") ELSE Advance(b, "observe")
    /\ UNCHANGED <<database, memo, reader, mine, cookies, history, panelFaults>>

\* recordJwtExpiry, in the name of the session's user, when the lifetime is another one.
Record(b, lifetime) ==
    /\ observed' = Observed(lifetime)
    /\ IF lifetime = observed THEN UNCHANGED <<account, recorded>> ELSE Route!Record(session[b])

\* refreshJwtObservation: the refreshed token is measured; a page cannot keep it.
ObserveExpiry(b) ==
    /\ browserAt[b] = "observe"
    /\ IF HasSession(b) THEN Record(b, expiry) ELSE UNCHANGED <<account, recorded, observed>>
    /\ Advance(b, "show")
    /\ UNCHANGED <<configured, expiry, memo, reader, mine, cookies, history, panelFaults>>

\* The refresh fails: the cookie's token is measured, whose lifetime was set earlier; one
\* that tells no lifetime leaves the record alone.
ObserveOldToken(b) ==
    /\ browserAt[b] = "observe"
    /\ HasSession(b)
    /\ PanelFault
    /\ \/ \E lifetime \in BOOLEAN : Record(b, lifetime)
       \/ UNCHANGED <<account, recorded, observed>>
    /\ Advance(b, "show")
    /\ UNCHANGED <<configured, expiry, memo, reader, mine, cookies, history>>

\* The lifetime that was recorded is another one.
JwtExpiryBlocker == ~observed

\* A screen that says so, step 3, or steps 4 and 5.
ShowStep(b) ==
    /\ browserAt[b] = "show"
    /\ Show(b, CASE JwtExpiryBlocker -> "blocked"
                 [] ~JwtExpiryBlocker /\ smtp[b] = "none" -> "smtp"
                 [] ~JwtExpiryBlocker /\ smtp[b] # "none" -> "preferences")
    /\ UNCHANGED <<database, memo, reader, mine, cookies, history, panelFaults>>

-----------------------------------------------------------------------------
(* Step 2: POST /setup/super-admin.                                        *)

SubmitSetup(b) ==
    /\ browserAt[b] = "page"
    /\ page[b] = "create"
    /\ Advance(b, "post")
    /\ UNCHANGED <<database, memo, reader, mine, cookies, history, panelFaults>>

\* Accounts are numbered in the order they are created.
Unused == {u \in Admins : account[u] = "none" /\ \A c \in Browsers : mine[c] # u}

CreateSuperAdmin(b) ==
    /\ browserAt[b] = "post"
    /\ \E u \in Unused :
        /\ \A v \in Unused : u <= v
        /\ Route!Create(u)
        /\ mine' = [mine EXCEPT ![b] = u]
    /\ Changed
    /\ Advance(b, "made")
    /\ UNCHANGED <<configured, expiry, observed, memo, reader, cookies, panelFaults>>

\* 409, or a failure before anything was created: the form says so.
SetupRefused(b) ==
    /\ browserAt[b] = "post"
    /\ \/ Installed /\ UNCHANGED panelFaults
       \/ PanelFault
    /\ Show(b, "refused")
    /\ UNCHANGED <<database, memo, reader, mine, cookies, history>>

\* The answer sets the session of the new account and drops the confirmation cookie.
SignedIn(b) ==
    /\ session' = [session EXCEPT ![b] = mine[b]]
    /\ smtp' = SmtpAfterSetup(b)
    /\ newcomers' = newcomers \cup {b}

Leave(b) == mine' = [mine EXCEPT ![b] = NoUser]

\* The route records the token's lifetime and answers 201.
SetupAnswered(b) ==
    /\ browserAt[b] = "made"
    /\ Route!Record(mine[b])
    /\ SignedIn(b)
    /\ observed' = Observed(expiry)
    /\ Leave(b)
    /\ Get(b, "/setup")
    /\ UNCHANGED <<configured, expiry, memo, reader, since, panelFaults>>

\* The token tells no lifetime: 201 all the same, and nothing is recorded.
SetupUnmeasured(b) ==
    /\ browserAt[b] = "made"
    /\ PanelFault
    /\ SignedIn(b)
    /\ Leave(b)
    /\ Get(b, "/setup")
    /\ UNCHANGED <<database, memo, reader, since>>

\* recordJwtExpiry fails: the browser gets its session and an error.
SetupUnrecorded(b) ==
    /\ browserAt[b] = "made"
    /\ PanelFault
    /\ SignedIn(b)
    /\ Leave(b)
    /\ Show(b, "refused")
    /\ UNCHANGED <<database, memo, reader, since>>

\* The sign-in fails, the process dies, or the answer is lost.
SetupUnanswered(b) ==
    /\ browserAt[b] = "made"
    /\ PanelFault
    /\ \/ Route!Record(mine[b]) /\ observed' = Observed(expiry)
       \/ UNCHANGED <<account, recorded, observed>>
    /\ Leave(b)
    /\ Show(b, "refused")
    /\ UNCHANGED <<configured, expiry, memo, reader, cookies, history>>

\* The commit was not acknowledged: the catch block deletes the account again.
CreationUnacknowledged(b) ==
    /\ browserAt[b] = "made"
    /\ PanelFault
    /\ Advance(b, "undo")
    /\ UNCHANGED <<database, memo, reader, mine, cookies, history>>

UndoCreation(b) ==
    /\ browserAt[b] = "undo"
    /\ IF mine[b] \in recorded
       THEN UNCHANGED <<account, recorded, session, history>>
       ELSE /\ Route!Withdraw(mine[b])
            /\ session' = [c \in Browsers |-> IF session[c] = mine[b] THEN NoUser ELSE session[c]]
            /\ Changed
    /\ Leave(b)
    /\ Show(b, "refused")
    /\ UNCHANGED <<configured, expiry, observed, memo, reader, smtp, panelFaults>>

-----------------------------------------------------------------------------
(* Sessions: signInAction, signOutAction and signOutAndRestartAction.      *)

\* postLoginPath
AfterLogin == IF configured THEN "/" ELSE "/setup"

SignInAs(b, u) ==
    /\ browserAt[b] = "page"
    /\ page[b] = "login"
    /\ session' = [session EXCEPT ![b] = u]
    /\ Get(b, AfterLogin)
    /\ UNCHANGED <<database, memo, reader, mine, smtp, history, panelFaults>>

SignInAsAdmin(b) == \E u \in Route!Active : SignInAs(b, u)

SignOut(b) ==
    /\ browserAt[b] = "page"
    /\ page[b] \in {"panel", "unfinished", "blocked"}
    /\ session' = [session EXCEPT ![b] = NoUser]
    /\ Get(b, "/login")
    /\ UNCHANGED <<database, memo, reader, mine, smtp, history, panelFaults>>

-----------------------------------------------------------------------------
(* Steps 3 to 5.                                                           *)

\* POST /setup/test-email: the caller's role is super_admin, and the mail leaves.
TestEmailSent(b) == SuperAdmin(session[b])

SendTestEmail(b) ==
    /\ browserAt[b] = "page"
    /\ page[b] = "smtp"
    /\ TestEmailSent(b)
    /\ Show(b, "sent")
    /\ UNCHANGED <<database, memo, reader, mine, cookies, history, panelFaults>>

\* confirmSmtpAction: the button exists once a test was sent.
ConfirmSmtp(b) ==
    /\ browserAt[b] = "page"
    /\ page[b] = "sent"
    /\ SuperAdmin(session[b])
    /\ smtp' = [smtp EXCEPT ![b] = "confirmed"]
    /\ Get(b, "/setup")
    /\ UNCHANGED <<database, memo, reader, mine, session, history, panelFaults>>

ConfirmRefused(b) ==
    /\ browserAt[b] = "page"
    /\ page[b] = "sent"
    /\ ~SuperAdmin(session[b])
    /\ Get(b, "/login")
    /\ UNCHANGED <<database, memo, reader, mine, cookies, history, panelFaults>>

\* backToSmtpAction
BackToSmtp(b) ==
    /\ browserAt[b] = "page"
    /\ page[b] = "preferences"
    /\ PanelFault
    /\ smtp' = [smtp EXCEPT ![b] = "none"]
    /\ Get(b, "/setup")
    /\ UNCHANGED <<database, memo, reader, mine, session, history>>

\* buildSteps writes every required key; public_url is for the super_admin.
SavePreferences(b) ==
    /\ browserAt[b] = "page"
    /\ page[b] = "preferences"
    /\ SuperAdmin(session[b])
    /\ configured' = TRUE
    /\ since' = IF configured THEN since ELSE 0
    /\ UNCHANGED <<account, recorded, expiry, observed, memo, reader, mine, cookies, newcomers>>

FinishInstallation(b) ==
    /\ SavePreferences(b)
    /\ Get(b, "/")
    /\ UNCHANGED panelFaults

\* The answer of the PATCH is lost: the form stays.
FinishUnanswered(b) ==
    /\ SavePreferences(b)
    /\ PanelFault
    /\ UNCHANGED place

-----------------------------------------------------------------------------
(* The environment.                                                        *)

\* The cookie's hour is over.
CookieExpires(b) ==
    /\ smtp[b] # "none"
    /\ PanelFault
    /\ smtp' = [smtp EXCEPT ![b] = "none"]
    /\ UNCHANGED <<database, memo, place, reader, mine, session, history>>

\* Somebody sets the JWT expiry in the Supabase dashboard.
FixExpiry ==
    /\ ~expiry
    /\ expiry' = TRUE
    /\ UNCHANGED <<account, recorded, configured, observed, memo, place, reader, mine,
                   cookies, history, panelFaults>>

Deactivate ==
    /\ PanelFault
    /\ \E u \in Admins : Route!Deactivate(u)
    /\ Changed
    /\ UNCHANGED <<configured, expiry, observed, memo, place, reader, mine, cookies>>

Lower(a, b) == IF a <= b THEN a ELSE b

Reading(b) == browserAt[b] \in {"admins", "settings", "answer"}

Tick ==
    /\ lease > 0 \/ since < TTL \/ \E b \in Browsers : Reading(b) /\ waited[b] < TTL
    /\ lease' = IF lease > 0 THEN lease - 1 ELSE 0
    /\ since' = Lower(since + 1, TTL)
    /\ waited' = [b \in Browsers |->
                     IF Reading(b) THEN Lower(waited[b] + 1, TTL) ELSE waited[b]]
    /\ UNCHANGED <<database, cached, place, saw, mine, cookies, newcomers, panelFaults>>

-----------------------------------------------------------------------------
\* What the server does with a request.
Serve(b) ==
    \/ ServeMemo(b) \/ StartReading(b) \/ ReadAdmins(b) \/ ReadSettings(b) \/ Memoise(b)
    \/ RenderPanel(b) \/ GetUser(b) \/ ShowPanel(b) \/ RenderLogin(b)
    \/ RenderSetup(b) \/ CheckRequired(b)
    \/ ObserveExpiry(b) \/ ShowStep(b)
    \/ CreateSuperAdmin(b) \/ SetupRefused(b) \/ SetupAnswered(b) \/ UndoCreation(b)

PanelFailure(b) ==
    \/ ObserveOldToken(b)
    \/ SetupUnmeasured(b) \/ SetupUnrecorded(b) \/ SetupUnanswered(b)
    \/ CreationUnacknowledged(b)
    \/ FinishUnanswered(b) \/ CookieExpires(b) \/ BackToSmtp(b)

\* The page asks an installer for nothing, or for what it will refuse.
DeadEnd(b) ==
    \/ page[b] \in {"blank", "refused"}
    \/ page[b] = "login" /\ ~Installed
    \/ page[b] = "panel" /\ Actual # "complete"
    \/ page[b] \in {"smtp", "preferences"} /\ ~SuperAdmin(session[b])

\* "Complete the installation"
FollowLink(b) == page[b] = "unfinished" /\ Navigate(b, "/setup") /\ UNCHANGED panelFaults

ComeBack(b) == DeadEnd(b) /\ Navigate(b, "/login") /\ UNCHANGED panelFaults

\* What an installer does: what the page asks for, or starting again.
Proceed(b) ==
    \/ SubmitSetup(b) \/ SignInAsAdmin(b) \/ SignOut(b)
    \/ SendTestEmail(b) \/ ConfirmSmtp(b) \/ ConfirmRefused(b) \/ FinishInstallation(b)
    \/ FollowLink(b) \/ ComeBack(b)

\* Visitors go where they like; an installer leaves a page now and then.
Wander(b) ==
    \E p \in Paths :
        /\ Navigate(b, p)
        /\ IF b \in Installers THEN PanelFault ELSE UNCHANGED panelFaults

WizardNext ==
    \/ \E b \in Browsers : Serve(b) \/ PanelFailure(b) \/ Wander(b)
    \/ \E b \in Installers : Proceed(b)
    \/ FixExpiry \/ Deactivate \/ Tick

WizardSpec == WizardInit /\ [][WizardNext]_wizardVars

\* Time passes, requests are served, the JWT expiry is set right, and installers go on.
WizardFairness ==
    /\ WF_wizardVars(Tick) /\ WF_wizardVars(FixExpiry)
    /\ \A b \in Browsers : WF_wizardVars(Serve(b))
    /\ \A b \in Installers : WF_wizardVars(Proceed(b))

WizardFairSpec == WizardSpec /\ WizardFairness

-----------------------------------------------------------------------------
(* Properties.                                                             *)

\* instance-state.ts:4-10: a memoised positive answer was the state of the instance
\* when its lease began or later, however slow its reader was and whoever else read.
LeasedStateIsRecent ==
    lease > 0 /\ cached \notin {"uninstalled", Actual} => since <= TTL - lease

\* The gate and the pages may send a browser back and forth, while the memo is stale
\* or a slow reader has spoilt it; every navigation ends at a page nevertheless.
EveryNavigationEnds == \A b \in Browsers : browserAt[b] = "proxy" ~> browserAt[b] = "page"

\* route.ts:141 "A fresh install always starts at step 3": a browser whose setup was
\* answered is shown the preferences only after it has confirmed a test email.
SetupStartsAtTheEmail ==
    [][\A b \in newcomers : page'[b] = "preferences" /\ page[b] # "preferences"
           => smtp[b] = "confirmed"]_wizardVars

\* An installation that is unfinished, or that is opened again, is finished: lost
\* answers, an expired cookie, a wrong JWT expiry and other visitors do not prevent it.
InstallationEnds == Actual # "complete" ~> Actual = "complete"

-----------------------------------------------------------------------------
(* The invariant behind the theorems about the wizard.                     *)

\* A POST that has created an account knows it.
MineInv == \A b \in Browsers : browserAt[b] \in {"made", "undo"} => mine[b] \in Admins

\* A positive answer that has not arrived yet was true when its reader took the time, or
\* later; so was the admin that the reader's first query has found.
ReaderInv ==
    \A b \in Browsers :
        /\ saw[b] # "uninstalled" => browserAt[b] = "answer"
        /\ browserAt[b] = "answer" /\ saw[b] \notin {"uninstalled", Actual} => since <= waited[b]
        /\ browserAt[b] = "settings" /\ ~Installed => since <= waited[b]

\* Whoever was answered has no confirmation of an earlier installation.
FreshInv == \A b \in newcomers : smtp[b] # "leftover"

WizardInv == WizardTypeOK /\ MineInv /\ ReaderInv /\ FreshInv /\ LeasedStateIsRecent
=============================================================================
