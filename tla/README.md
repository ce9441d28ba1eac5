# 027Apps in TLA+

A verification development for 027Apps, a self-hosted instance made of a Next.js admin
application with an HTTP API (`/api/v1`), a Postgres database managed by Supabase, Supabase
Auth, Supabase Realtime, push through FCM, and an Android shell. The modules model the
use cases of `packages/core` at the grain at which they can go wrong: one action per SQL
statement, per call to a provider and per transaction boundary, because that is where other
requests, a crash or the clock step in. TLC checks each module on small instances; TLAPS
proves the most important safety properties for every value of the constants.

Contents: [the system](#the-system) · [modules and code](#modules-and-code) ·
[runs](#runs) · [fairness](#fairness) · [proofs](#proofs) ·
[findings](#findings) · [promises the code does not keep](#promises-the-code-does-not-keep) ·
[not modelled](#not-modelled) · [plan](#plan) · [how to run](#how-to-run)

## The system

Every API request goes through the *door* (`core/src/api/door.ts`, wired in
`apps/admin/src/lib/api/door.ts`): its caller is resolved (`auth/caller.ts`) and authorised
(`auth/guard.ts`), it is counted and rate limited, its body is parsed, and a use case runs. Use cases talk to
Postgres through a pool of at most five connections; some run in one transaction
(`runInTransaction`), others statement by statement. The isolation level is always
READ COMMITTED. Nothing is kept in the memory of the process except small caches, so that
all interaction between requests is through rows, row locks and advisory locks.

| Component | State | Operations | What makes it hard | What makes it correct |
|---|---|---|---|---|
| **Outbox and realtime** (`realtime/service.ts`) | `event_outbox`: state, attempts, `claimed_until`, `next_attempt_at`, `hook_applied` | `enqueueEvent` in the producer's transaction; `publishPending`: claim, broadcast, hooks, push, verdict; retention | overlapping dispatchers after a lease ends; a crash at any await; retries of what was done already; verdicts written late | verdicts are true; a verdict is kept; claims are told apart; every event is settled |
| **Maintenance** (`maintenance/service.ts`) | `maintenance_runs`: status, `lease_until`, `finished_at` | `runMaintenance`: reap, insert, cooldown, job, finish | two callers reaping the same dead run; a lease that is never renewed; a skip that is recorded as a run | one runner per job; cooldown between executions; a due job is executed |
| **Invitations** (`invitations/service.ts`) | `invitations`, `auth.users`, `profiles`, memberships, grants | create, expire, revoke, purge, redeem | a saga over HTTP and a transaction with a compensation; racing redemptions; lost answers | redeemed once; no orphan; nobody else's account is deleted; revocation holds |
| **Setup** (`auth/setup.ts`, setup route, `setup-orphan.ts`) | `auth.users`, `profiles`, `settings.updated_by`, advisory lock `core_setup` | `POST /setup/super-admin`, orphan recovery, sign in, record the token lifetime (the route, and every render of the wizard) | a public endpoint that races with itself; compensation and recovery both delete accounts | at most one super_admin; no orphan; which answered accounts are kept, and until when |
| **Users and roles** (`users/service.ts`) | `profiles.role`, `deactivated_at`, advisory lock `core_users_roles` | change a role, deactivate | checks over a set of rows (count, oldest) and two different advisory locks | the root stays; what was checked still holds at the write; admins do not touch super_admins |
| **Credentials** (`api-keys`, `devices`, `auth/caller.ts`) | `api_keys`, `devices`, `profiles` | issue and revoke keys, register and revoke devices, resolve a caller, revoke all at deactivation | reads and updates in different statements without a transaction; a deactivation in the middle | a refused credential reaches no handler; keys are revoked by who may |
| **Phones and push** (`FcmRegistrar.kt`, `push/fcm.ts`, the push in `realtime/service.ts`) | the session and the FCM token of an installation; `devices` | store a session, register a token in a thread, send to an event's recipients, revoke the tokens that FCM calls invalid | threads that are late or fail and are never repeated; a phone that changes hands; an answer of FCM that is acted upon later | a phone that FCM delivers to keeps its registration; phones of the deactivated are sent nothing |
| **Settings and currencies** (`settings`, `currencies`) | `settings`, `currencies`, row locks, the pool | batch of settings, switch a currency | checks over several rows without locks; row locks in request order; a second connection inside a transaction | coherent settings; default currency enabled; every request ends |
| **Categories and grants** (`user-categories/service.ts`) | `user_categories`, members, category modules, `user_modules` | create, rename, delete, members, assign, unassign | grants are materialised for the members of a moment and show at the commit | a grant that was revoked is not revived by an assignment; members get their modules |
| **Module lifecycle** (`modules/service.ts`) | `module_registry`, the tables of the module, its settings, `user_modules` | install, update, activate, deactivate, uninstall, grant, revoke | transactions of many statements that race with each other; a usage count without a lock before a cascading delete | the registry row, the tables and the settings come and go together |
| **Door and rate limit** (`api/door.ts`, `api/rate-limit*.ts`, `auth/guard.ts`, every `api.ts`) | counters per bucket and window; the declared scopes, bucket and limit of each route | resolve, authorise, count, refuse, enter the handler, purge | the role is read once and used until the answer; requests of one identity are counted in several processes; the purge deletes while requests count | nobody acts with a role its user did not have; no bucket admits more than its limit in a window; nobody is refused for what others did |
| **Instance state, gate and wizard** (`instance-state.ts`, `instance-gate.ts`, `proxy.ts`, `app/page.tsx`, `app/setup`, `(auth)/actions.ts`) | a memo of five seconds; the session and the confirmation cookie of each browser; the recorded token lifetime | redirect by the memo and by what the page reads; the five steps; sign in and out | overlapping readers of the state; a gate and a page that disagree; cookies that outlive a step; lost answers | what is served as memoised is recent; every navigation ends; the installation is finished |

The components meet in the database. Invitations and setup insert profiles that the role
checks of *Users* count; every use case enqueues its events in its own transaction
(*Outbox*); *Maintenance* triggers the dispatcher and the purges; deactivation revokes
*Credentials*; push reads devices and the module grants of their owners, and revokes devices.
The wizard is built upon what *Setup* promises, and its pages upon the memo of the proxy.

## Modules and code

`PROJECT.json` maps every definition to the lines it stands for. In each module the rows of
a table are functions from small identifiers, "NULL" and "no such row" are named values, and
each request is a program counter (`at`, or `stage`) with what it has read so far. A guard is
the condition or the early return of the statement; a statement that waits for a lock is an
action that is not enabled. Definitions introduced by "Mutant of" are plausible errors of the
definition after them; nothing else refers to them.

* **`Outbox`** — `publishPending` and `enqueueEvent`. `Claim` is the `UPDATE … FOR UPDATE
  SKIP LOCKED … RETURNING` of a batch; `Resolve`, `Publish`, `RunHooks`, `ReadRecipients`
  and `SendPush` are the awaits of the loop over the batch, `MarkPublished` and
  `GiveUp`/`Retry` the two verdicts (`markFailed` splits on its condition), `Reject` the
  `catch`. A dispatcher keeps what its claim returned (`held`: attempts, `seen`:
  `hook_applied`) and later statements use these copies, as the code does; updates are by
  `event_id` only, so that `SetPublished` and `Retry` say nothing about whose claim it is.
  `MarkPublishedUnacknowledged` is an update whose answer is lost. `Crash` is the death of a
  dispatcher or a rejection of `markFailed`, which leaves the loop. `Uninstall` deletes the
  events of the module by cascade, `Purge` is retention, `ToggleModule` and `ToggleDevice`
  change who is a recipient between the read and the push. Hooks run only in
  a deployment that wires them (the shipped application does not): `HookModules` may be empty.
  `Wire` is `createPushFromSettings`, once per run of the dispatcher: it gives a push provider
  only while push is configured (by default it is not), and `AfterHooks` passes by the push of
  a dispatcher that was given none. `waived` is history: the events that went without.
* **`OutboxContract`** — what producers may rely on: at-least-once delivery with a truthful
  verdict, without leases, clocks or dispatchers. `Outbox` implements it under the mapping
  `status <- state, tries <- attempts, delivered <- broadcast events, accepted <- pushed,
  waived <- waived`. Of an event that asks for push, `published` says that a try had it accepted
  or went without a provider.
* **`Maintenance`** — `runMaintenance` over a list of jobs. `ExpireStale` and `InsertRun` /
  `LeaseTaken` are the two statements of `acquireLease` (the partial unique index is the guard on
  `holder`), then the cooldown is read, and a skip or the end of the job is recorded by `finishRun`.
  Time is in ticks of Postgres' clock; only the age of the youngest finished row is kept, since the
  code reads nothing else, and it is the age that `new Date(String(finished))` leaves of it: the
  milliseconds are gone (`FinishRun` drops any part of `SecondTicks`), and `Date.now()` is the clock
  of another machine (`CheckCooldown` reads it off by up to `MaxSkew`). `Spaced` is what remains of
  the cooldown. `overran` is history: the requests whose row's lease ended while they were at the
  job.
* **`Invitations`** — `redeemInvitation` from the check without a lock to the compensation.
  Perks stand for the category and the modules that an invitation gives. `CreateUserTaken`
  is "email exists" followed by the second search; `CreateUserUnacknowledged` and
  `CommitUnacknowledged` are answers that were lost; `DeleteAccount` follows the foreign keys
  of the migrations (`on delete cascade`).
* **`Setup`** — the setup route with `createFirstSuperAdmin`, and the recovery of orphans by
  read, check and delete. `audited` is `settings.updated_by` of the row of the token lifetime:
  it names the account that recorded it last, and refers to profiles *without* a cascade, which
  protects that account, and only that one, from a late recovery or compensation.
  `RecordJwtExpiry` answers 201 after recording; `AnswerUnrecorded` is the 201 for a token that
  tells no lifetime; `PageRecords` is the wizard, which records on any render whose session
  measures another lifetime than the stored one. Sign-ins at the login page appear only as its
  session. Other rows that refer to a profile (settings the administrator saves later) protect it
  as well; without them the model lets more be deleted than the code.
  `answered` and `named` are history: the accounts whose setup was answered, and those the
  settings have named at some time.
* **`SetupContract`** — what the route promises the wizard: a super_admin is created only
  while there is no active one, and the account that the settings refer to is not taken back; any
  other may be. `Setup` implements it under
  `account <- the profile of the Auth user, recorded <- audited`.
* **`Wizard`** — the entry pages and the wizard over an instance of `SetupContract`. `browserAt` is
  where the request of a browser is: the proxy with its memo (`ServeMemo`, or the two queries and
  `Memoise`), the page with its own reading, query by query (`RenderPanel`, `GetUser`, `ShowPanel`;
  `RenderLogin`; `RenderSetup`, `CheckRequired`, `ObserveExpiry`, `ShowStep`), the POST, or a page
  that is shown. `EntryGate` is the decision table of `instance-gate.ts`. The lease is kept as the
  ticks that are left of it, and `waited` as the age of the time that a reader took before its
  queries. Browsers of installers do what the page asks (`Proceed`; the link of an unfinished panel
  is `FollowLink`) and come back where it asks for nothing; visitors go anywhere. `newcomers` and
  `since` are history. Of the contract's withdrawals the wizard takes only those of its own calls;
  the orphan recovery of another caller is in `Setup`.
* **`Users`** — `updateUser` and `deactivateUser` under `withRoleLock`, split at each
  statement (`Lock`, `Read`, `CheckRoot`, `Count`, `Write`), for a caller whose role was read
  before. `Join` (a redemption) and `CheckSetup`/`EndSetup` add profiles without that lock;
  `Intervene` is the operator of `setup.ts:8` who deactivates the only super_admin in the
  database.
* **`Credentials`** — `resolveCaller` in its statements (`Present`, `ResolveKey`,
  `ReadProfile`), the handlers of keys and devices, and the three updates of a deactivation
  in one transaction, whose rows are locked and not visible until it commits. `owner` is what
  `revokeDevice` has read before its update by id. A last active super_admin is not
  deactivated (`Users`), which is why the deactivation needs one more.
* **`Push`** — extends `Credentials` by what registers devices and what revokes them. A phone
  is the app's preferences (`session`), its FCM token (`held`) and the threads it has started
  (`posts`); a request carries its token in `body`; a dispatcher reads the tokens of the
  recipients, sends to each (`SendOne`, in any order: a chunk is a `Promise.all`) and revokes
  by token in one statement, or loses all answers when one of them is an exception
  (`SendFails`). FCM is external, and three things are assumed of it: a token is issued to one
  installation, one that was replaced or forgotten is never valid again, and it says
  `NOT_FOUND` of no valid token. That the app asks for its configuration again is another
  `TokenReady`; two threads with the same session and token count as one. What becomes of
  the event, with lease and retries, is in `Outbox`, whose `SendPush` has the same outcomes.
  `used` (whose sessions a phone has had) and `refused` are history.
* **`Settings`** — `writeSettings` and `setCurrencyEnabled` in `runInTransaction`, with the
  pool, the row locks and the deadlock detector of Postgres. A batch updates its rows in the
  order of the request body. Of the catalog, the settings that constrain each other are rows:
  the locales, the default currency, and the push provider with its Firebase project, where
  `fcm_project_id` stands for the four public keys (the code asks the same of each) and of the
  service account the project it names is kept. `EncryptionRefused` is a deployment without a
  usable key. `modular` says that a module with settings is installed while the requests run:
  its rows are in the same table, and reading them fails (`ViewRefused`). `overtaken` is a history variable: the requests that another
  commit has passed since they read.
* **`Modules`** — one module and one category: `installModule`, `uninstallModule`,
  `assignModule` and `deleteCategory` statement by statement, the single statements
  (transitions, grants, revocations, members) as one action, a redemption as its commit.
  The variables of the rows are what is committed; `did` and `given` are the rows that an
  open transaction has inserted or deleted, which make the same insert and the foreign keys
  of others wait (`Free`, `Unreferenced`, `Dropping`, `GrantFree`). `owned` stands for the
  tables of the migrations and the settings; module SQL is as in the tests of the
  repository ("create table", "drop table if exists"). `due` and `crossed` are history: to
  whom an assignment owes the module, and whether two uninstallations have overlapped.
* **`GrantsContract`** — who has a module, without transactions and locks: a grant appears by a
  gift to one user (an administrator or a redemption) or by an assignment to several who never
  had one, is revoked for one user, and goes with the module. `Modules` implements it under
  `installed <- the registry row is there, assigned <- template`: each transaction happens to
  the grants at once, when it commits, and every other statement is a stutter. It shows as well
  what assignments do not promise: taking the module from the category takes it from nobody,
  and an assignment that races with that may give a module that is not in the template any more.
* **`Routes`** — the tables: what each of the 50 routes declares to the door (scopes, bucket,
  limit, and the check its handler makes first), and the scopes of roles and keys.
* **`Door`** — `runDoor` over a set of the routes. `Arrive` reads the header; `Verify` and
  `ResolveKey` are the answers of Supabase Auth and of the statement of `resolveApiKey`, `ReadRole`
  and `ReadActive` the two reads of the profile in either order. `Guard` is `authorize` and, in the
  same turn of the event loop, the computation of the window; `Admit`, `Refuse` and `LoseResult` are
  the three ends of the upsert; `Enter` is the handler's own check, and `Answer` every answer.
  `SetRole` changes roles at any time; `Purge` is `rate_limit.purge`. Windows are computed from the
  clock of the process and purged by that of Postgres; `Door` has one clock for both. `held`,
  `admitted` and `spent` are history: the roles a user had during its request, and what was counted
  for whom. The handlers are the other modules.

`MC…` modules only give the constants of the runs values. `…Proofs` modules hold the theorems;
those of `Push`, `Maintenance` and `Wizard` stand next to those of `Credentials`, `Outbox` and
`Setup`, which is why the names of these three modules (`RunsNext`, `WizardTypeOK`) carry their
subject: a module of proofs extends two components.

## Runs

| Run | Question | Bounds, and why they are enough |
|---|---|---|
| `Outbox_two` | Are verdicts truthful and claims distinct when two dispatchers overlap, is the contract implemented, and does every event get its verdict? | One event with module, channel, hooks and push; two attempts; a lease of one tick against a backoff of two, so that a lease ends at any await and the dispatchers hold the event together before and after a backoff; one crash; a push provider for either dispatcher or for none; fairness. Rows interact only in a batch, which is left to the proofs: they cover any number of events and dispatchers. |
| `Maintenance_exclusion` | One runner per job, spacing, and recovery after a crash | Two runners, two jobs in every order of request, two crashes, a call at any time; a job may take less or more than its lease of three ticks. A second of two ticks in a cooldown of three, and clocks that differ by one: the cooldown that is left is the shortest possible, and both shorten it. |
| `Invitations_redeem` | Does redemption keep its promises under races and a fault? | Two redeemers, an invitation of a newcomer and one of a member, three accounts, one fault anywhere (a second only repeats the first: the saga has one compensation). |
| `Invitations_email` | *violation*: does compensation spare the account of the winner? | Two redeemers, one invitation, no fault. |
| `Setup_race` | Is the wizard's contract implemented (at most one super_admin is part of it), with no orphans, and which answered setups are kept? | Two requests, two addresses (equal or different), two faults, one reopening; four accounts, so that both requests may create twice. |
| `Users_roles` | Does the root stay, does what was checked hold at the write (the count of super_admins among it), and do admins leave super_admins alone? | Two requests, three profiles (two super_admins and a third to promote), one recovery. |
| `Push_phones` | Do stale credentials reach a handler, does a phone lose its registration to a late revocation, and are the deactivated sent anything? | Two requests, a super_admin and a user, one key, one phone that changes hands, one dispatcher. One token is enough: once the app is uninstalled, FCM does not find it, and the rows and threads that still name it race with the dispatcher. That a phone gets another token is covered by the theorems, which hold for any numbers. |
| `Settings_batches` | Is what is written coherent, with races, secrets and modules, and does every request end? | Two requests; both locales in either order, so that rows are locked crosswise, a new default currency, and the settings of push in several batches, so that turning it on needs others to have committed; one Firebase project, which a service account may precede; with and without a module; a connection to spare. |
| `Settings_pool` | *violation*: does every request end when there is no spare connection? | Two requests, two connections; the deployed numbers are five and five. |
| `Modules_grants` | Does the registry say what is there, whom does an assignment reach, and does the code implement the contract of grants? | Two requests, two users, one module and one category, any number of failures; requests and users are symmetric. Two requests suffice for every pair of operations; the theorems cover any number. |
| `Door_budget` | Are budgets kept while windows end and rows are purged, and is authority real while roles change? | Two requests, one user, its delegated key with every scope, an instance key, an anonymous caller; four routes, one per kind of bucket and of handler check; limits of one, so that the second request is refused, except the reads; two windows. The theorems cover any routes, limits and numbers. |
| `Wizard_entry` | Is the memo as recent as it says, do redirects end, and is an installation finished whatever goes wrong once? | One installer and one visitor (a visitor is a second reader of the memo, and all readers are alike); two accounts, so that setup happens twice; a lease of two ticks, so that a reader may be late by a part of it or by all of it; one fault anywhere, of which a second one would find the wizard in a state that the first leaves too. |

Deadlock is checked except where the system may really stop, and each such configuration is
one where a bound is exhausted: every invitation is used, revoked or purged; setup is done
and no reopening is left; no administrator is left in `Users`; all connections are waiting in
`Settings_pool`; the requests of `Door_budget` have all come.

What each property says is written above it in its module. The type invariant of `Wizard`
is checked by its run; for all components they are theorems.
The pairs to compare are `HooksRecordedOnce` and `AttemptsAreBounded` (whose bounds grow with
the dispatchers that overlap and with crashes) with `PublishedWasDelivered` and the contract
(which do not depend on them), `MembersSurvive` (true) with `AccountsWithProfileSurvive` (refuted), and `EveryRequestEnds` of `Settings` with and
without a connection to spare.

## Fairness

* `Outbox`, `Maintenance`: weak fairness of the clock, of a started dispatcher or runner
  (its promises settle; a death is the separate, bounded `Crash`) and of the trigger (the
  scheduler of the deployment calls `/maintenance/run` again and again). No fairness is given
  to producers, toggles, purges or crashes.
* `Invitations`, `Settings`: strong fairness of the next step of each request. The steps that
  are not continuously enabled are those that wait for a row lock or for a connection, and
  both queues are first come, first served (Postgres lock queues, the queue of `pg.Pool`), so
  that a request cannot be overtaken for ever.
* `Wizard`: weak fairness of the clock, of what the server does with each request, of whoever
  sets the token lifetime right when the wizard says so, and of installers: they do what the
  page asks of them. Leaving a page, going back, lost answers, expired cookies and recoveries
  are not fair and are bounded: an installer who keeps going away does not finish.
* The safety runs use `Spec` without fairness.

## Proofs

Every proof follows the pattern `Init => IndInv`, `IndInv /\ [Next]_vars => IndInv'`,
`IndInv => property`, with one step per action and, where it matters, one per conjunct. The
inductive invariant stands in the module of the component or at the head of its proofs; TLC
checked each one on a run before it was proved. `Outbox` has a second
invariant (`CountInv`), proved from the first.

| Module | Proved, for every value of the constants | Why the invariant is strengthened |
|---|---|---|
| `OutboxProofs` | types; `PublishedWasDelivered`, `ClaimsAreDistinct`; `ImplementsContract`, and what the contract says of `failed` and of verdicts on its own: `FailedIsExhausted`, `VerdictIsKept`; `HooksRecordedOnce`, `AttemptsAreBounded` | A verdict is written long after the claim: `StageInv` records what each stage of a dispatcher knows about delivery and push (accepted or waived) and that its claim number is at most the row's, which makes `attempts >= MaxAttempts` survive overlaps. The two bounds are proved by counting (`CountInv`): `HookInv` adds up how often a hook was recorded and how many dispatchers may still record it (`MayRecord`), `AttemptsInv` compares the attempts of a pending event with the crashes and the dispatchers that are at its last try (`LastTries`). |
| `OutboxProofs`, of `Maintenance` | types; `OneRunnerPerJob`; `ExecutionsAreSpaced` | Exclusion rests on the row, not on the runner: `LeaseInv` says that a runner at work that has not outlasted its lease is the holder of the row; `AgesInv`: a job that was executed a short while ago does not read as finished longer ago, but for the part of a second that was dropped. |
| `InvitationsProofs` | types; `SingleUse`, `MembersSurvive`, `NoOrphans`; `RevokedIsNotRedeemed` | `LockInv`: past the second check the row is locked and pending; `RedemptionInv`: a pending row has given nothing; `OwnInv`: a request owns only accounts it created. |
| `SetupProofs` | types; `OneSuperAdmin` (no run needs it: it follows from the contract), `AnsweredSetupIsKept`, `NoOrphans`; `ImplementsContract` | `CheckHolds`: between check and insert the lock keeps the check true. `PendingUsers`: an Auth user that a request has registered is its own and its setup was not answered, and up to the insert it has no profile; so no compensation reaches an answered one. `NamedInv`: until setup is opened again nobody but the first super_admin records, so that whom the settings have named they still name. |
| `SetupProofs`, of `Wizard` | types; `LeasedStateIsRecent`; `SetupStartsAtTheEmail`; that it implements `SetupContract` (`KeepsContract`), so that what `Setup` implements and what the wizard is built upon are one specification | `ReaderInv`: a positive answer that a reader holds was the state when the reader took the time, or the state has changed more recently; then the lease it will start ends in time. `MineInv`: a creation that is answered or undone is of an account. `FreshInv`: whoever was answered has no confirmation of an earlier installation. |
| `UsersProofs` | types; `RootIsKept`, `DecisionsStillHold`, `AdminsLeaveSuperAdmins` | `ReadInv`, `CheckInv`: what was read and checked under the lock is still so at the write, although redemptions, setup and the operator change profiles without it. Setup adds a super_admin only when there is none, and then no check under way concerns one. |
| `CredentialsProofs` | types; `StaleCallersAreRefused`, `KeysAreRevokedByTheirOwner`; every behaviour of `Push` is one of `Credentials` (so these hold with phones and dispatchers too); `PhonesKeepTheirRegistration`, `TheDeactivatedAreSentNothing` | `RequestInv`: what made a request late still holds at the statement that refuses it, since key owners never change and revocation and deactivation are final. `RegistrationInv`: whatever names a token, a thread, a request or a row, names a user whose session the phone of that token has stored. `DispatcherInv`: what FCM did not find is held by no phone, and will not be. |
| `SettingsProofs` | types; `CatalogIsCoherent`, `DefaultCurrencyStaysEnabled`; `PushIsConfigured` | `ReadInv`: what a request has read, and therefore the outcome of its batch, is still so until another commit overtakes it (`StillSo`). `KeysInv`: a request that turns push on writes each Firebase key itself or has found it stored, and no commit takes one away, which is why push needs no exception for requests that were overtaken. |
| `ModulesProofs` | types and foreign keys; `RegistryTellsTheTruth`; `MembersAreGiven`, `RevokedStaysRevoked`; `ImplementsGrants` | `Staged` and `Apart`: what a transaction holds follows from its stage, and no other one holds it. `Anchored`: the committed rows it refers to stay until it commits. `Promised`: from its first statement on, an assignment owes the module only to members, and passes what it owes to its grants. `Lone`: an uninstallation that nobody crosses finds the module whole and takes its parts stage by stage. The refinement rests on `Anchored`: the module that an assignment commits to is there, and nobody it gives to has a grant. |
| `DoorProofs` | types; `BudgetHolds`, `RefusedHasSpent`, `AuthorityWasHeld` | `BudgetInv`: the row of the open window has counted at least whom it admitted, because the purge spares it. `SpentInv`: a bucket never counts more than its one owner asked for, since a route that a key pays for needs a scope that no session has (`KeysPay`). `CallerInv`: the role that was read is in `held`, and what guard and handler have found stays so. |

Assumptions are the named `ASSUME`s of the modules, which TLC evaluates in every run. Two of
them are there for the prover alone: that dispatchers are finitely many (`OutboxAssumption`;
the bounds count them), and that backoffs are natural numbers (`BackoffAssumption`; the prover
has no type for `2 ^ n`). `BatchAssumption` of `Settings` is what the schemas of the routes
guarantee of a body.

Only model-checked, because they are out of the prover's reach: every liveness property
(`EveryEventIsSettled`, `DueJobsAreExecuted`, `EveryRequestEnds`, `EveryNavigationEnds`,
`InstallationEnds`), since fairness and `ENABLED` are not supported. Every invariant, action
property and refinement of a passing run is a theorem. No module uses a `RECURSIVE`
operator, behind which the prover has no SMT backend, and nothing is proved by induction over
data, since the library's induction rules take operators as parameters.

## Findings

Two runs show the code doing something else than a document or a comment says.

1. **`Invitations_email`** — the loser of a race for one address deletes the winner's
   account. Two requests redeem the same token for an address without an account. The first
   creates the Auth user; the second finds it and commits; the first then fails its second
   check ("already used") and compensates by deleting the user it created, and with it the
   profile, membership and grants of the redemption that was answered 200
   (`invitations/service.ts:407`; `docs/tasks/sprint-09-core-data/task-03.md:25` rules this
   out). `MembersSurvive` is what does hold: accounts older than the request are safe.
2. **`Settings_pool`** — a currency switch reads the default currency through the pool while
   its transaction holds a connection (`apps/admin/src/lib/api/door.ts:130`, against the
   comment at line 113 there). As many switches as there are connections wait for ever.

## Promises the code does not keep

Met while modelling; no run repeats them, and the properties are stated so that they say what
does hold.

* A dispatcher whose lease ran out may turn the `failed` of its successor into `published`
  (`realtime/service.ts:179` is by id; the header says at line 10 that failed is terminal).
  `PublishedWasDelivered` still makes the late verdict true.
* A late retry verdict clears the lease of the dispatcher that took over
  (`realtime/service.ts:206`), so that a third overlaps.
* The claim does not look at the maximum: after a crash in the last attempt an event is tried
  once more (`realtime/service.ts:218`). `AttemptsAreBounded` counts exactly these.
* An event that asks for push and is dispatched while push is not configured is marked
  published, and is not pushed when it is configured later (`realtime/service.ts:261`);
  `waived` in `PublishedWasDelivered` and in the contract.
* The cooldown may end early, by up to a second that `new Date(String(finished))` drops and by
  the difference between the clocks of the process and of Postgres
  (`maintenance/service.ts:68`): hence `Spaced` in `ExecutionsAreSpaced`.
* A job that outlasts its lease is declared dead while it runs and may run twice
  (`maintenance/service.ts:41`): hence `overran` in `OneRunnerPerJob`.
* A call within the cooldown closes its row as finished, which renews the cooldown
  (`maintenance/service.ts:141`): a scheduler that calls more often than once a minute
  starves every job, although no job is to stay blocked for ever
  (`docs/superpowers/specs/2026-10-26-jobs-mantenimiento.md:73`). `DueJobsAreExecuted` is
  what holds: a job that is asked for when it is due is executed.
* A timed out run has no `finished_at`, so that `maintenance.purge` never deletes it
  (`maintenance/service.ts:45`).
* An account that is deactivated between the read at `invitations/service.ts:341` and the
  writes that follow still gets its membership and grants. The caller stays refused.
* Two overlapping batches may each be coherent and contradict each other
  (`settings/service.ts:190`), and a new default currency may overlap with the switch that
  disables it (`currencies/service.ts:61`): hence `overtaken` in both properties.
  `PushIsConfigured` needs no such exception, since no batch takes a Firebase key away.
* The service account is compared with `fcm_project_id` when it is written and not when the
  id is written alone later (`settings/catalog.ts:298`), where
  `2026-10-26-instance-config.md:85` has them match. `CatalogIsCoherent` is about batches that
  write the account.
* An installed module with settings makes every read of the settings fail: its rows
  (`modules/service.ts:332`) have no entry in the catalog and `rowToView` throws
  (`settings/service.ts:62`), so that `GET /settings` and `GET /instance` are errors and no
  batch of core settings is committed until the module is uninstalled (`ViewRefused`).
* Orphan recovery deletes an account that another request completes between its three calls
  (`setup-super-admin` route, line 65), also one that was answered 201, if its token told no
  lifetime (line 155) and nothing was recorded, or if setup was opened again and a later
  record has taken the place of its own. `AnsweredSetupIsKept` is what holds: nothing else
  deletes an answered account, and none that was recorded goes before a reopening.
* A super_admin that is demoted while its request waits still acts with the role read before
  (`users/service.ts:137`).
* After a recovery the root is somebody else, and the one that setup made can be demoted
  (`users/service.ts:90`). That the last super_admin stays follows from `RootIsKept`; the count
  of the code is what `DecisionsStillHold` is about.
* A key inserted by a request that was resolved before the deactivation survives the update
  that revokes the user's keys (`api-keys/service.ts:153`); it never authenticates anybody,
  because the profile is checked as well, which is what `StaleCallersAreRefused` shows.
* A device is revoked by id after its owner was read: the former owner may revoke the
  registration of the new one (`devices/service.ts:135`).
* FCM says `INVALID_ARGUMENT` of a message as well as of a token; either revokes the device
  (`realtime/service.ts:273`, `push/fcm.ts:110`), so that one message it does not accept takes
  the registration of every recipient. `PhonesKeepTheirRegistration` names this case.
* `FcmRegistrar` is to keep the token registered (line 13 there), but a registration that
  fails, because of the network or of a session that expired after fifteen minutes, is only
  logged (line 60): a phone whose token was replaced is silent until it is configured again.
* Threads of a phone are not ordered: that of its former user may be the last to register it.
  Recipients are read before they are sent to: an event of the former user may be shown to
  the next one. `TheDeactivatedAreSentNothing` is what holds.
* Deactivating a user leaves the rows of `user_modules` as they are (`users/service.ts:205`),
  where `2026-10-26-core-data-model.md:44` has them revoked; a reactivated user has them still.
* An uninstallation that nobody confirmed may take grants with it that were made after the
  count (`modules/service.ts:502`): in `Modules`, `Count`, then `Grant`, then `DeleteModule`.
* Two uninstallations that overlap: the second one reads no applied migrations, and if the
  module is installed again before it deletes the registry row, the tables stay without the
  row (`modules/service.ts:517`; `2026-10-26-core-data-model.md:339` keeps the row as long
  as the DDL is applied). The next installation then fails. Hence `crossed` in
  `RegistryTellsTheTruth`.
* A category is deleted although a module has just been assigned to it, if the assignment
  was under way when the deletion looked (`user-categories/service.ts:199`): `not exists` is
  not evaluated again after the wait for the row. Grants stay, as documented; the template
  row goes by cascade.
* A user who becomes a member while a module is assigned, or later, gets no grant by it: the
  category is a template. `MembersAreGiven` is about members since before the assignment.
* A user has one counter for all routes, whose limits differ: after ten reads in a minute
  every write is refused, and a delegated key shares the counter of its owner (`door.ts:62`
  of core), where `2026-10-26-core-api.md:159` has a separate write budget and a limit per
  endpoint. `RefusedHasSpent` is what holds: a refused party has spent the limit itself.
* Windows are fixed and not sliding (`core-api.md:157`): twice the limit may pass within a
  minute that straddles two windows. An upsert that is delayed past the end of its window and
  past the purge opens its row again and counts from one (`api/rate-limit.ts:31`); hence
  `BudgetHolds` counts requests in the window that is open. Its windows end by the clock that
  purges them: where Postgres' clock is ahead, the purge takes open windows for ended ones
  (`maintenance/service.ts:78`).
* A request acts with the role that was read when it came, also when the user has been demoted
  or deactivated since: `AuthorityWasHeld` says that it had this role while it was under way.
* The state of the installation is cached for five seconds once there is a super_admin, and
  the header says that a negative answer is never cached (`lib/instance-state.ts:5`). A slow
  reader that has seen none overwrites the state after another one has started the five
  seconds (line 55), and "not installed" is served until they end: the gate sends to the
  wizard and the page back to the gate. `EveryNavigationEnds` is what holds, and
  `LeasedStateIsRecent` is about positive answers.

## Not modelled

* Crypto, errors, logging, scrubbing, manifest validation, translations: pure functions or
  read-only catalogues.
* Row level security: policies of single statements, tested against a real Postgres.
* Backup scripts and CI: operations on files outside the running program.
* Of the panel: the pages that only show something, the values with which the wizard's forms
  are filled, the checks of the environment and the messages; the limit of browsers on
  redirects, which would only hide a loop. Of FCM: the signature and the cache of the access
  token, and the size of a chunk. Of the Android app: the configuration of Firebase, the
  notification and the shell around the panel.
* Within modelled components: names and visibility flags; package files and digests; values
  of module settings; key expiry as a clock (a key is accepted or not); device purge; listing
  and viewing; the settings that nothing else constrains. Finished and timed out rows of
  `maintenance_runs` are not kept, so that the growth of the table is not visible.
* Postgres itself is modelled by what the code relies on: row locks until the end of the
  transaction, READ COMMITTED visibility, unique indexes, advisory locks, cascades and the
  deadlock detector.

## Plan

Ordered by importance. Done: `Outbox`, `OutboxContract`, `Maintenance`, `Invitations`,
`Setup`, `SetupContract`, `Users`, `Credentials`, `Push`, `Settings`, `Modules`, `Routes`,
`Door`, `Wizard`, `GrantsContract`, and the proofs of all their safety properties and
refinements. Left:

1. The pool of connections next to `Setup`, whose route holds one while it asks for another.
2. A contract of credentials (who may act as whom, and until when) that `Credentials` and `Door`
   would both refer to.

Runs and proof modules are few by design: a later component takes the place of a run that
another one contains, as `Push_phones` does with the run of `Credentials`, and proofs of small
components share a module.

## How to run

    tlc -workers 2 -config Outbox_two.cfg MCOutbox.tla
    tlapm OutboxProofs.tla

Each configuration is named after its run; `PROJECT.json` says which MC module it belongs to.
