------------------------------ MODULE Settings ------------------------------
(***************************************************************************)
(* Instance settings and currencies: the writes and their transactions     *)
(* (packages/core/src/settings/service.ts, settings/catalog.ts,            *)
(* currencies/service.ts, apps/admin/src/lib/api/door.ts).                 *)
(*                                                                         *)
(* PATCH /settings writes a batch of settings, PATCH /currencies/{code}    *)
(* switches a currency on or off.  Both check, then update, in one READ    *)
(* COMMITTED transaction on one connection of a bounded pool.  An UPDATE   *)
(* locks its row until the end; PostgreSQL breaks a cycle of waits by      *)
(* aborting one of the transactions.  The read of the default currency     *)
(* that the currency route injects goes to the pool, not to the            *)
(* transaction: it needs a second connection while it holds the first.     *)
(* The settings of installed modules are rows of the same table, which the *)
(* answer of PATCH /settings reads, and which have no entry in the catalog.*)
(*                                                                         *)
(* Settings and currencies are rows alike; of the catalog the settings     *)
(* that must agree with each other or with the currencies are kept: the    *)
(* locales, the default currency, and the push provider with its Firebase  *)
(* project.  The project id stands for the four public keys of Firebase.   *)
(* Of the service account, a secret, the project it names is kept; the     *)
(* writes read no more of a stored one than that it is there.              *)
(***************************************************************************)
EXTENDS Integers, Sequences, FiniteSets

CONSTANTS
    Locales,
    English,        \* the locale that cannot be removed
    Currencies,
    SeedCurrency,   \* the default currency of a new instance
    Projects,       \* Firebase projects
    NoProject,      \* null
    Batches,        \* the updates of PATCH /settings requests, in order
    Writers,        \* concurrent requests
    PoolMax         \* new Pool({ max: 5 })

FirebaseKeys == {"fcm_project_id", "fcm_service_account"}
Keys == {"default_locale", "enabled_locales", "default_currency", "provider"} \cup FirebaseKeys
Rows == Keys \cup Currencies
Unlocked == "unlocked"
NoUpdate == <<>>

ASSUME SettingsAssumption ==
    /\ PoolMax \in Nat \ {0}
    /\ Unlocked \notin Writers
    /\ Keys \cap Currencies = {}
    /\ NoUpdate \notin Batches
    /\ English \in Locales
    /\ SeedCurrency \in Currencies
    /\ NoProject \notin Projects

\* What a row may hold: "en is mandatory".
ValueOK(row, value) ==
    CASE row = "default_locale" -> value \in Locales
      [] row = "enabled_locales" -> value \subseteq Locales /\ English \in value
      [] row = "default_currency" -> value \in Currencies
      [] row = "provider" -> value \in {"none", "fcm"}
      [] row \in FirebaseKeys -> value \in Projects \cup {NoProject}
      [] OTHER -> value \in BOOLEAN

\* What the schemas accept: one update or more, and the keys of Firebase are never set to
\* null.  Requests with other values are refused before anything is read.
ASSUME BatchAssumption ==
    \A batch \in Batches :
        /\ Len(batch) \in Nat \ {0} /\ DOMAIN batch = 1..Len(batch)
        /\ \A n \in DOMAIN batch :
            /\ batch[n].row \in Keys /\ ValueOK(batch[n].row, batch[n].value)
            /\ batch[n].value # NoProject

VARIABLES
    stored,     \* committed rows
    modular,    \* a module with settings is installed while the requests run
    lock,       \* whose uncommitted UPDATE a row carries
    connected,  \* requests that hold a connection of the pool
    at,         \* where each request is
    updates,    \* the rows it writes and their values
    done,       \* how many of them it has updated
    seen,       \* the settings it has read
    overtaken   \* history: requests that another commit has passed since they read

vars == <<stored, modular, lock, connected, at, updates, done, seen, overtaken>>

\* The update of a PATCH /currencies/{code} request.
CurrencyUpdates ==
    {<<[row |-> code, value |-> enabled]>> : code \in Currencies, enabled \in BOOLEAN}

Stages == {"idle", "connect", "default", "read", "enabled", "update", "view", "commit"}

TypeOK ==
    /\ DOMAIN stored = Rows /\ \A row \in Rows : ValueOK(row, stored[row])
    /\ modular \in BOOLEAN
    /\ lock \in [Rows -> Writers \cup {Unlocked}]
    /\ connected \subseteq Writers
    /\ overtaken \subseteq connected
    /\ Cardinality(connected) <= PoolMax
    /\ \A row \in Rows : lock[row] # Unlocked => lock[row] \in connected
    /\ at \in [Writers -> Stages]
    /\ updates \in [Writers -> Batches \cup CurrencyUpdates \cup {NoUpdate}]
    /\ done \in [Writers -> Nat]
    /\ DOMAIN seen = Writers
    /\ \A w \in Writers :
        /\ done[w] <= Len(updates[w])
        /\ \A k \in Keys : ValueOK(k, seen[w][k])

\* The seed: English alone, every currency enabled, no push.
Seed == [row \in Rows |-> CASE row = "default_locale" -> English
                          [] row = "enabled_locales" -> {English}
                          [] row = "default_currency" -> SeedCurrency
                          [] row = "provider" -> "none"
                          [] row \in FirebaseKeys -> NoProject
                          [] OTHER -> TRUE]

\* A request that has read nothing, or needs it no more.
Forgotten == [k \in Keys |-> Seed[k]]

Init ==
    /\ stored = Seed
    /\ modular \in BOOLEAN
    /\ lock = [row \in Rows |-> Unlocked]
    /\ connected = {}
    /\ at = [w \in Writers |-> "idle"]
    /\ updates = [w \in Writers |-> NoUpdate]
    /\ done = [w \in Writers |-> 0]
    /\ seen = [w \in Writers |-> Forgotten]
    /\ overtaken = {}

-----------------------------------------------------------------------------
Free == Cardinality(connected) < PoolMax

\* The next row to update.
Target(w) == updates[w][done[w] + 1].row

\* The row the request waits for is another's.
Waits(w, v) == at[w] = "update" /\ v # w /\ lock[Target(w)] = v

\* Each request of some group waits for another of the group.
Deadlocked(w) ==
    \E group \in SUBSET Writers :
        w \in group /\ \A v \in group : \E u \in group : Waits(v, u)

Written(w, row) == \E n \in DOMAIN updates[w] : updates[w][n].row = row
Value(w, row) == updates[w][CHOOSE n \in DOMAIN updates[w] : updates[w][n].row = row].value

\* Mutant of Merged: coherence of what is stored, not of what will be.
OnlySeen(w) == seen[w]

\* The settings as they will be: what was read, under what the batch writes.
Merged(w) == [k \in Keys |-> IF Written(w, k) THEN Value(w, k) ELSE seen[w][k]]

\* validateCoherence of the catalog.
LocaleCoherent(all) == all["default_locale"] \in all["enabled_locales"]

PushCoherent(all) == all["provider"] = "fcm" => \A k \in FirebaseKeys : all[k] # NoProject

\* Mutant of AccountMatches: only a project that is written along is compared.
AccountMatchesBatch(w) ==
    Written(w, "fcm_service_account") /\ Written(w, "fcm_project_id") =>
        Value(w, "fcm_service_account") = Value(w, "fcm_project_id")

\* The account is compared while its plaintext is in hand: when the batch writes it.
AccountMatches(w) ==
    Written(w, "fcm_service_account") =>
        Value(w, "fcm_service_account") = Merged(w)["fcm_project_id"]

CatalogCoherent(w) == LocaleCoherent(Merged(w)) /\ PushCoherent(Merged(w)) /\ AccountMatches(w)

\* Mutant of IsDefault: the currency being disabled is not compared.
NeverDefault(w) == FALSE

\* The currency to disable is the default one.
IsDefault(w) == Target(w) = stored["default_currency"]

\* finally { client.release() }
ReleasedBy(w) == connected \ {w}

\* Mutant of UnlockedBy: the transaction is left open.
StillLockedBy(w) == lock

UnlockedBy(w) == [row \in Rows |-> IF lock[row] = w THEN Unlocked ELSE lock[row]]

\* The transaction has ended, and the request with it.
Finish(w) ==
    /\ lock' = UnlockedBy(w)
    /\ connected' = ReleasedBy(w)
    /\ at' = [at EXCEPT ![w] = "idle"]
    /\ updates' = [updates EXCEPT ![w] = NoUpdate]
    /\ done' = [done EXCEPT ![w] = 0]
    /\ seen' = [seen EXCEPT ![w] = Forgotten]

\* Any error: ROLLBACK, and the request is refused.
Rollback(w) ==
    /\ Finish(w)
    /\ overtaken' = overtaken \ {w}
    /\ UNCHANGED <<stored, modular>>

-----------------------------------------------------------------------------
\* A request of a batch of settings, or of a currency, passes the door.
PatchSettings(w) ==
    /\ at[w] = "idle"
    /\ \E batch \in Batches : updates' = [updates EXCEPT ![w] = batch]
    /\ at' = [at EXCEPT ![w] = "connect"]
    /\ UNCHANGED <<stored, modular, lock, connected, done, seen, overtaken>>

PatchCurrency(w) ==
    /\ at[w] = "idle"
    /\ \E update \in CurrencyUpdates : updates' = [updates EXCEPT ![w] = update]
    /\ at' = [at EXCEPT ![w] = "connect"]
    /\ UNCHANGED <<stored, modular, lock, connected, done, seen, overtaken>>

OfSettings(w) == Target(w) \in Keys

\* runInTransaction: pool.connect() and BEGIN.
Connect(w) ==
    /\ at[w] = "connect"
    /\ Free
    /\ connected' = connected \cup {w}
    /\ at' = [at EXCEPT ![w] = IF OfSettings(w) THEN "read"
                               ELSE IF updates[w][1].value THEN "update" ELSE "default"]
    /\ UNCHANGED <<stored, modular, lock, updates, done, seen, overtaken>>

\* setCurrencyEnabled reads the default currency, on another connection.
CheckDefault(w) ==
    /\ at[w] = "default"
    /\ Free
    /\ ~IsDefault(w)
    /\ at' = [at EXCEPT ![w] = "update"]
    /\ UNCHANGED <<stored, modular, lock, connected, updates, done, seen, overtaken>>

DefaultRefused(w) ==
    /\ at[w] = "default"
    /\ Free
    /\ IsDefault(w)
    /\ Rollback(w)

\* writeSettings: currentSettingsMap and the catalog's coherence.
ReadSettings(w) ==
    /\ at[w] = "read"
    /\ seen' = [seen EXCEPT ![w] = [k \in Keys |-> stored[k]]]
    /\ at' = [at EXCEPT ![w] = "enabled"]
    /\ UNCHANGED <<stored, modular, lock, connected, updates, done, overtaken>>

\* ... and isEnabled of the default currency, on the same connection.
CheckCoherence(w) ==
    /\ at[w] = "enabled"
    /\ CatalogCoherent(w)
    /\ stored[Merged(w)["default_currency"]]
    /\ seen' = [seen EXCEPT ![w] = Forgotten]
    /\ at' = [at EXCEPT ![w] = "update"]
    /\ UNCHANGED <<stored, modular, lock, connected, updates, done, overtaken>>

IncoherentRefused(w) ==
    /\ at[w] = "enabled"
    /\ ~CatalogCoherent(w) \/ ~stored[Merged(w)["default_currency"]]
    /\ Rollback(w)

\* Secrets are encrypted before the first UPDATE; the deployment may have no key for it.
EncryptionRefused(w) ==
    /\ at[w] = "update"
    /\ done[w] = 0
    /\ Written(w, "fcm_service_account")
    /\ Rollback(w)

\* One UPDATE of the transaction: it waits for the row's lock.
UpdateRow(w) ==
    /\ at[w] = "update"
    /\ lock[Target(w)] \in {Unlocked, w}
    /\ lock' = [lock EXCEPT ![Target(w)] = w]
    /\ done' = [done EXCEPT ![w] = @ + 1]
    /\ at' = [at EXCEPT ![w] = IF done[w] + 1 < Len(updates[w]) THEN "update"
                               ELSE IF OfSettings(w) THEN "commit" ELSE "view"]
    /\ UNCHANGED <<stored, modular, connected, updates, seen, overtaken>>

\* PostgreSQL aborts a transaction that waits in a cycle.
DeadlockVictim(w) ==
    /\ Deadlocked(w)
    /\ Rollback(w)

\* The answer of setCurrencyEnabled names the default: a second read off the pool.
ReadDefault(w) ==
    /\ at[w] = "view"
    /\ Free
    /\ at' = [at EXCEPT ![w] = "commit"]
    /\ UNCHANGED <<stored, modular, lock, connected, updates, done, seen, overtaken>>

\* The request has read what it checks.
HasRead(w) == at[w] \in {"enabled", "update", "view", "commit"}

WritesSettings(w) == updates[w][1].row \in Keys

\* The answer of writeSettings is read from every row of the table, and a row without an
\* entry in the catalog is an error.
ViewFails(w) == WritesSettings(w) /\ modular

ViewRefused(w) ==
    /\ at[w] = "commit"
    /\ ViewFails(w)
    /\ Rollback(w)

Commit(w) ==
    /\ at[w] = "commit"
    /\ ~ViewFails(w)
    /\ stored' = [row \in Rows |-> IF Written(w, row) THEN Value(w, row) ELSE stored[row]]
    /\ overtaken' = (overtaken \cup {v \in Writers : HasRead(v)}) \ {w}
    /\ Finish(w)
    /\ UNCHANGED modular

Step(w) ==
    \/ Connect(w)
    \/ CheckDefault(w) \/ DefaultRefused(w)
    \/ ReadSettings(w) \/ CheckCoherence(w) \/ IncoherentRefused(w)
    \/ EncryptionRefused(w)
    \/ UpdateRow(w) \/ DeadlockVictim(w)
    \/ ReadDefault(w) \/ ViewRefused(w) \/ Commit(w)

Next == \E w \in Writers : PatchSettings(w) \/ PatchCurrency(w) \/ Step(w)

Spec == Init /\ [][Next]_vars

\* The queues of the pool and of a row lock are first come, first served: a request
\* that can go on again and again does.
FairSpec == Spec /\ \A w \in Writers : SF_vars(Step(w))

-----------------------------------------------------------------------------
(* Properties.                                                             *)

CommitsUndisturbed(w) ==
    at[w] = "commit" /\ at'[w] = "idle" /\ ~ViewFails(w) /\ w \notin overtaken

\* A settings commit leaves the locales coherent and its account with its project.
CommitsCoherently ==
    \A w \in Writers :
        CommitsUndisturbed(w) /\ WritesSettings(w) =>
            /\ LocaleCoherent(stored')
            /\ Written(w, "fcm_service_account") =>
                  stored'["fcm_service_account"] = stored'["fcm_project_id"]

\* The catalog's "default_locale must be in enabled_locales" and instance-config.md:85 "project_id
\* must match": a batch that no other commit overtakes leaves the locales coherent, also
\* when an earlier race has not, and a service account that it writes belongs to the
\* project.  Two batches that overlap may each pass their check and contradict each other.
CatalogIsCoherent == [][CommitsCoherently]_vars

\* The catalog's "provider=fcm requires all FCM keys" survives every race: a request that
\* turns push on may be overtaken, but not by one that takes a key away.
PushIsConfigured == PushCoherent(stored)

\* A commit leaves an enabled default currency enabled, and a new one is.
CommitsKeepDefault ==
    \A w \in Writers :
        CommitsUndisturbed(w) /\ stored[stored["default_currency"]]
            => stored'[stored'["default_currency"]]

\* currencies/service.ts:3 "the default currency can never be disabled": neither a
\* switch nor a new default does, unless the one overtakes the other.
DefaultCurrencyStaysEnabled == [][CommitsKeepDefault]_vars

\* Requests that wait for connections and for each other's rows are all answered.
EveryRequestEnds == \A w \in Writers : at[w] # "idle" ~> at[w] = "idle"

-----------------------------------------------------------------------------
(* The invariant behind the theorems of SettingsProofs.                    *)

\* What a request writes and how far it is, by its stage.
RequestInv ==
    \A w \in Writers :
        /\ at[w] = "idle" => updates[w] = NoUpdate
        /\ at[w] # "idle" => updates[w] \in Batches \cup CurrencyUpdates
        /\ w \in connected <=> at[w] \notin {"idle", "connect"}
        /\ at[w] \in {"idle", "connect", "default", "read", "enabled"} => done[w] = 0
        /\ at[w] \in {"connect", "update"} => done[w] < Len(updates[w])
        /\ at[w] \in {"default", "view"} => updates[w] \in CurrencyUpdates
        /\ at[w] = "default" => ~updates[w][1].value
        /\ at[w] \in {"read", "enabled"} => updates[w] \in Batches

\* The settings once the request has committed.
Outcome(w) == [k \in Keys |-> IF Written(w, k) THEN Value(w, k) ELSE stored[k]]

\* What a request is to write agrees with itself and with what is stored.
BatchStillSo(w) ==
    /\ LocaleCoherent(Outcome(w))
    /\ stored[Outcome(w)["default_currency"]]
    /\ Written(w, "fcm_service_account") =>
          Value(w, "fcm_service_account") = Outcome(w)["fcm_project_id"]

\* What the request has read is still so.
StillSo(w) ==
    /\ at[w] = "enabled" => \A k \in Keys : seen[w][k] = stored[k]
    /\ at[w] \in {"update", "commit"} /\ updates[w] \in Batches => BatchStillSo(w)
    /\ at[w] \in {"update", "view", "commit"} /\ updates[w] \in CurrencyUpdates =>
          updates[w][1].value \/ updates[w][1].row # stored["default_currency"]

ReadInv == \A w \in Writers \ overtaken : StillSo(w)

TurnsPushOn(w) == Written(w, "provider") /\ Value(w, "provider") = "fcm"

\* A Firebase key that a request has seen stays, overtaken or not: turning push on rests
\* on keys that are stored or written along.
KeyStays(w, k) ==
    /\ at[w] = "enabled" /\ seen[w][k] # NoProject => stored[k] # NoProject
    /\ at[w] \in {"update", "commit"} /\ TurnsPushOn(w) => Written(w, k) \/ stored[k] # NoProject

KeysInv == \A w \in Writers : \A k \in FirebaseKeys : KeyStays(w, k)

IndInv ==
    /\ TypeOK
    /\ IsFiniteSet(connected)
    /\ RequestInv
    /\ ReadInv
    /\ KeysInv
    /\ PushIsConfigured
=============================================================================
