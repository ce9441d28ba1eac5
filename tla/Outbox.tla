------------------------------- MODULE Outbox -------------------------------
(***************************************************************************)
(* The transactional outbox and its dispatcher                             *)
(* (packages/core/src/realtime/service.ts).                                *)
(*                                                                         *)
(* Use cases insert an event in their own transaction; dispatchers run     *)
(* publishPending, which claims a batch of due rows for sixty seconds,     *)
(* and then, row by row: resolves the topic, broadcasts, runs the module   *)
(* hooks, sends push, and records the verdict.  Every database statement   *)
(* and every call to a provider is an action of its own: between two       *)
(* awaits of one dispatcher any other dispatcher, the clock, a crash or    *)
(* the environment may step in.                                            *)
(*                                                                         *)
(* Events are numbered by created_at.  Time is counted in ticks of fifteen *)
(* seconds, and a row keeps the ticks left of its claim and of its backoff *)
(* instead of absolute timestamps (NULL and an expired timestamp are       *)
(* indistinguishable to every query of the code, and are both 0).          *)
(***************************************************************************)
EXTENDS Integers, FiniteSets

CONSTANTS
    N,              \* events 1..N, in created_at order
    Workers,        \* concurrent executions of publishPending
    MaxAttempts,    \* deps.maxAttempts, 8 by default
    BatchLimit,     \* the limit argument of publishPending, 20 by default
    LeaseTicks,     \* claimed_until = now() + 60 seconds
    BackoffUnit,    \* the 15 seconds of the backoff
    BackoffCap,     \* the 60 * 60 seconds of the backoff
    ModuleEvents,   \* events with a module_key
    ChannelEvents,  \* events whose target is channel:<pattern>
    PushEvents,     \* events with notify = {push}
    HookModules,    \* module keys hooks.run may report ({} = hooks not wired)
    Tokens,         \* push tokens
    MaxCrashes      \* bound: dispatchers that die, or whose markFailed rejects

Events == 1..N
NoEvent == 0

ASSUME OutboxAssumption ==
    /\ N \in Nat \ {0}
    /\ IsFiniteSet(Workers)
    /\ MaxAttempts \in Nat \ {0}
    /\ BatchLimit \in Nat \ {0}
    /\ LeaseTicks \in Nat \ {0}
    /\ BackoffUnit \in Nat \ {0}
    /\ BackoffCap \in Nat
    /\ MaxCrashes \in Nat
    /\ ChannelEvents \subseteq ModuleEvents
    /\ ModuleEvents \subseteq Events
    /\ PushEvents \subseteq Events

VARIABLES
    state,        \* event_outbox.state; "absent": not inserted, "gone": deleted
    attempts,     \* event_outbox.attempts
    lease,        \* ticks until claimed_until
    wait,         \* ticks until next_attempt_at
    hookApplied,  \* event_outbox.hook_applied, as how often each key occurs
    module,       \* module_registry.state of the events' module
    live,         \* tokens of unrevoked devices of active profiles
    stage,        \* where each dispatcher is in publishPending
    cur,          \* the event it is dispatching
    held,         \* the attempts number of each row of its batch, 0: none
    seen,         \* hook_applied of each row of its batch, as claimed
    to,           \* the recipients it has read
    wired,        \* whether its deps have a push provider
    broadcast,    \* history: the attempts that reached the transport
    pushed,       \* history: events whose push was accepted by the provider
    waived,       \* history: events a dispatcher without a provider sent no push for
    crashes       \* counts towards MaxCrashes

rowVars == <<state, attempts, lease, wait, hookApplied>>
workerVars == <<stage, cur, held, seen, to, wired>>
envVars == <<module, live, crashes>>
histVars == <<broadcast, pushed, waived>>
vars == <<rowVars, workerVars, envVars, histVars>>

RowStates == {"absent", "pending", "published", "failed", "gone"}
Stages == {"idle", "next", "publish", "hooks", "recipients", "send", "mark", "fail"}

TypeOK ==
    /\ state \in [Events -> RowStates]
    /\ attempts \in [Events -> Nat]
    /\ lease \in [Events -> 0..LeaseTicks]
    /\ wait \in [Events -> Nat]
    /\ hookApplied \in [Events -> [HookModules -> Nat]]
    /\ module \in {"active", "disabled", "gone"}
    /\ live \subseteq Tokens
    /\ stage \in [Workers -> Stages]
    /\ cur \in [Workers -> Events \cup {NoEvent}]
    /\ held \in [Workers -> [Events -> Nat]]
    /\ seen \in [Workers -> [Events -> SUBSET HookModules]]
    /\ to \in [Workers -> SUBSET Tokens]
    /\ wired \in [Workers -> BOOLEAN]
    /\ broadcast \in [Events -> SUBSET Nat]
    /\ pushed \subseteq Events
    /\ waived \subseteq Events
    /\ crashes \in 0..MaxCrashes

Init ==
    /\ state = [e \in Events |-> "absent"]
    /\ attempts = [e \in Events |-> 0]
    /\ lease = [e \in Events |-> 0]
    /\ wait = [e \in Events |-> 0]
    /\ hookApplied = [e \in Events |-> [m \in HookModules |-> 0]]
    /\ module = "active"
    /\ live = Tokens
    /\ stage = [w \in Workers |-> "idle"]
    /\ cur = [w \in Workers |-> NoEvent]
    /\ held = [w \in Workers |-> [e \in Events |-> 0]]
    /\ seen = [w \in Workers |-> [e \in Events |-> {}]]
    /\ to = [w \in Workers |-> {}]
    /\ wired = [w \in Workers |-> FALSE]
    /\ broadcast = [e \in Events |-> {}]
    /\ pushed = {}
    /\ waived = {}
    /\ crashes = 0

-----------------------------------------------------------------------------
(* Helpers.                                                                *)

Lower(a, b) == IF a <= b THEN a ELSE b

\* A row an UPDATE ... WHERE event_id = $1 finds.
Present(e) == state[e] \in {"pending", "published", "failed"}

\* The rows the claim's subquery selects, before ORDER BY and LIMIT.
Due == {e \in Events : state[e] = "pending" /\ wait[e] = 0 /\ lease[e] = 0}

\* FOR UPDATE SKIP LOCKED passes over rows another dispatcher is updating.
Lockable(w) == {e \in Events : \E v \in Workers \ {w} : cur[v] = e}

\* B is what ORDER BY created_at LIMIT BatchLimit keeps of the rows R.
IsBatch(B, R) ==
    /\ B \subseteq R
    /\ Cardinality(B) = Lower(BatchLimit, Cardinality(R))
    /\ \A e \in B, f \in R \ B : e < f

\* Mutant of NextAttempt: the counter saturates, so that it never passes the maximum.
SaturatingAttempt(e) == Lower(attempts[e] + 1, MaxAttempts)

\* The number a claim gives its attempt: attempts = attempts + 1, RETURNING attempts.
NextAttempt(e) == attempts[e] + 1

\* Mutant of Exhausted: one attempt too many.
ExhaustedLate(n) == n > MaxAttempts

\* markFailed's test of the attempts number of the claim.
Exhausted(n) == n >= MaxAttempts

\* min(60 * 60, 2 ** attempts * 15) seconds.
Backoff(n) == Lower(BackoffCap, 2 ^ n * BackoffUnit)

\* Every delay markFailed schedules is a whole number of ticks.
ASSUME BackoffAssumption == \A n \in 1..MaxAttempts : Backoff(n) \in Nat

\* event.notify?.includes("push") && deps.push: push is sent only for an event whose
\* notify asks for it, and only by a dispatcher that was given a provider.
AfterHooks(w, e) == IF e \in PushEvents /\ wired[w] THEN "recipients" ELSE "mark"

\* Mutant of AfterPush: a RETRY of the provider is taken for an answer.
IgnoringRetry(retry) == "mark"

\* A provider that asked for a retry makes the attempt fail.
AfterPush(retry) == IF retry THEN "fail" ELSE "mark"

\* Mutant of AfterReject: a rejected broadcast is logged and forgotten.
LoggedOnly(s) == IF s = "publish" THEN "hooks" ELSE "fail"

\* Whatever await of the try block rejects, the catch block runs.
AfterReject(s) == "fail"

\* Mutant of NewlyApplied: the snapshot of the claim is not consulted.
AllApplied(w, applied) == applied

\* The module keys to append: those the claimed snapshot does not name.
NewlyApplied(w, applied) == applied \ seen[w][cur[w]]

-----------------------------------------------------------------------------
(* The environment: producers, modules, devices, purges, the clock.        *)

\* A use case commits the transaction in which it called enqueueEvent.
Enqueue(e) ==
    /\ state[e] = "absent"
    /\ e \in ModuleEvents => module # "gone"
    /\ state' = [state EXCEPT ![e] = "pending"]
    /\ UNCHANGED <<attempts, lease, wait, hookApplied, workerVars, envVars, histVars>>

\* setModuleState: the only two transitions between installed states used here.
ToggleModule ==
    /\ module # "gone"
    /\ module' = IF module = "active" THEN "disabled" ELSE "active"
    /\ UNCHANGED <<rowVars, workerVars, live, crashes, histVars>>

\* uninstallModule deletes the registry row; event_outbox.module_key cascades.
Uninstall ==
    /\ module # "gone"
    /\ module' = "gone"
    /\ state' = [e \in Events |-> IF e \in ModuleEvents /\ Present(e) THEN "gone" ELSE state[e]]
    /\ UNCHANGED <<attempts, lease, wait, hookApplied, workerVars, live, crashes, histVars>>

\* The outbox.purge job deletes old published and failed rows.
Purge(e) ==
    /\ state[e] \in {"published", "failed"}
    /\ state' = [state EXCEPT ![e] = "gone"]
    /\ UNCHANGED <<attempts, lease, wait, hookApplied, workerVars, envVars, histVars>>

\* registerDevice un-revokes a token; logout or deactivation takes it away.
ToggleDevice(t) ==
    /\ live' = (live \ {t}) \cup ({t} \ live)
    /\ UNCHANGED <<rowVars, workerVars, module, crashes, histVars>>

\* A timestamp fifteen seconds later: the queries only tell whether it has passed.
Before(ticks) == IF ticks > 0 THEN ticks - 1 ELSE 0

\* Mutant of LeaseAfterTick: claimed_until IS NULL alone, claims never expire.
LeaseForever(e) == lease[e]

LeaseAfterTick(e) == Before(lease[e])

Tick ==
    /\ \E e \in Events : lease[e] > 0 \/ wait[e] > 0
    /\ lease' = [e \in Events |-> LeaseAfterTick(e)]
    /\ wait' = [e \in Events |-> Before(wait[e])]
    /\ UNCHANGED <<state, attempts, hookApplied, workerVars, envVars, histVars>>

-----------------------------------------------------------------------------
(* The dispatcher.                                                         *)

\* createPushFromSettings, once per dispatcher and before it claims: there is a provider
\* while the settings hold a service account that decrypts.  An operator stores or
\* removes it at any time, so a dispatcher may have been given either.
Wire(w) == \E provider \in BOOLEAN : wired' = [wired EXCEPT ![w] = provider]

\* The claim: one UPDATE ... RETURNING over a SELECT ... FOR UPDATE SKIP LOCKED.
Claim(w) ==
    /\ stage[w] = "idle"
    /\ Due # {}
    /\ \E skipped \in SUBSET (Due \cap Lockable(w)), B \in SUBSET Due :
         /\ B # {}
         /\ IsBatch(B, Due \ skipped)
         /\ attempts' = [e \in Events |-> IF e \in B THEN NextAttempt(e) ELSE attempts[e]]
         /\ lease' = [e \in Events |-> IF e \in B THEN LeaseTicks ELSE lease[e]]
         /\ held' = [held EXCEPT ![w] = [e \in Events |-> IF e \in B THEN NextAttempt(e) ELSE 0]]
         /\ seen' = [seen EXCEPT ![w] = [e \in Events |->
                        IF e \in B THEN {m \in HookModules : hookApplied[e][m] > 0} ELSE {}]]
    /\ stage' = [stage EXCEPT ![w] = "next"]
    /\ Wire(w)
    /\ UNCHANGED <<state, wait, hookApplied, cur, to, envVars, histVars>>

\* resolveTopic of the next row of the batch.  RETURNING promises no order.  Only
\* a channel needs a query, which finds no row unless its module is active.
Resolve(w, e) ==
    /\ stage[w] = "next"
    /\ held[w][e] > 0
    /\ cur' = [cur EXCEPT ![w] = e]
    /\ \E outcome \in {"publish", "fail"} :
         /\ outcome = "fail" => e \in ChannelEvents
         /\ outcome = "publish" => e \notin ChannelEvents \/ module = "active"
         /\ stage' = [stage EXCEPT ![w] = outcome]
    /\ UNCHANGED <<rowVars, held, seen, to, wired, envVars, histVars>>

\* realtime.publish reaches the transport; its answer may still be an error.
Publish(w) ==
    /\ stage[w] = "publish"
    /\ broadcast' = [broadcast EXCEPT ![cur[w]] = @ \cup {held[w][cur[w]]}]
    /\ \E answer \in {"hooks", "fail"} : stage' = [stage EXCEPT ![w] = answer]
    /\ UNCHANGED <<rowVars, cur, held, seen, to, wired, envVars, pushed, waived>>

\* hooks.run, then the append of the keys missing from the claimed snapshot.
RunHooks(w) ==
    LET e == cur[w] IN
    /\ stage[w] = "hooks"
    /\ \E applied \in SUBSET HookModules :
         hookApplied' = IF Present(e)
                        THEN [hookApplied EXCEPT ![e] = [m \in HookModules |->
                                 IF m \in NewlyApplied(w, applied) THEN @[m] + 1 ELSE @[m]]]
                        ELSE hookApplied
    /\ stage' = [stage EXCEPT ![w] = AfterHooks(w, e)]
    /\ waived' = IF e \in PushEvents /\ ~wired[w] THEN waived \cup {e} ELSE waived
    /\ UNCHANGED <<state, attempts, lease, wait, cur, held, seen, to, wired, envVars,
                   broadcast, pushed>>

\* recipients: a channel whose module is off, or whose members_fn breaks, has none.
ReadRecipients(w) ==
    LET e == cur[w] IN
    /\ stage[w] = "recipients"
    /\ \E tokens \in {live, {}} :
         /\ tokens = {} => live = {} \/ e \in ChannelEvents
         /\ e \in ChannelEvents /\ module # "active" => tokens = {}
         /\ to' = [to EXCEPT ![w] = tokens]
    /\ stage' = [stage EXCEPT ![w] = "send"]
    /\ UNCHANGED <<rowVars, cur, held, seen, wired, envVars, histVars>>

\* push.send and the revocation of the tokens it reports invalid; no tokens, no call.
SendPush(w) ==
    /\ stage[w] = "send"
    /\ \E result \in [to[w] -> {"ok", "invalid", "RETRY"}] :
         LET retry == \E t \in to[w] : result[t] = "RETRY" IN
         /\ live' = live \ {t \in to[w] : result[t] = "invalid"}
         /\ stage' = [stage EXCEPT ![w] = AfterPush(retry)]
         /\ pushed' = IF retry THEN pushed ELSE pushed \cup {cur[w]}
    /\ to' = [to EXCEPT ![w] = {}]
    /\ UNCHANGED <<rowVars, cur, held, seen, wired, module, crashes, broadcast, waived>>

\* A provider or the database rejects before any effect: the catch block.
Reject(w) ==
    /\ stage[w] \in {"publish", "hooks", "recipients", "send", "mark"}
    /\ stage' = [stage EXCEPT ![w] = AfterReject(@)]
    /\ to' = [to EXCEPT ![w] = {}]
    /\ UNCHANGED <<rowVars, cur, held, seen, wired, envVars, histVars>>

\* The dispatcher leaves the row and goes on with the rest of its batch.
NextRow(w) ==
    LET batch == [held[w] EXCEPT ![cur[w]] = 0] IN
    /\ held' = [held EXCEPT ![w] = batch]
    /\ seen' = [seen EXCEPT ![w][cur[w]] = {}]
    /\ cur' = [cur EXCEPT ![w] = NoEvent]
    /\ stage' = [stage EXCEPT ![w] = IF \E e \in Events : batch[e] > 0 THEN "next" ELSE "idle"]
    /\ wired' = [wired EXCEPT ![w] = @ /\ \E e \in Events : batch[e] > 0]
    /\ UNCHANGED to

\* markPublished: an UPDATE by event_id alone.
SetPublished(e) ==
    IF Present(e)
    THEN /\ state' = [state EXCEPT ![e] = "published"]
         /\ lease' = [lease EXCEPT ![e] = 0]
    ELSE UNCHANGED <<state, lease>>

MarkPublished(w) ==
    /\ stage[w] = "mark"
    /\ SetPublished(cur[w])
    /\ NextRow(w)
    /\ UNCHANGED <<attempts, wait, hookApplied, envVars, histVars>>

\* The UPDATE commits but its acknowledgement is lost: the catch block runs.
MarkPublishedUnacknowledged(w) ==
    /\ stage[w] = "mark"
    /\ SetPublished(cur[w])
    /\ stage' = [stage EXCEPT ![w] = "fail"]
    /\ UNCHANGED <<attempts, wait, hookApplied, cur, held, seen, to, wired, envVars, histVars>>

\* markFailed once the claimed attempts reach the maximum: the terminal verdict.
GiveUp(w) ==
    LET e == cur[w] IN
    /\ stage[w] = "fail"
    /\ Exhausted(held[w][e])
    /\ IF Present(e)
       THEN /\ state' = [state EXCEPT ![e] = "failed"]
            /\ lease' = [lease EXCEPT ![e] = 0]
       ELSE UNCHANGED <<state, lease>>
    /\ NextRow(w)
    /\ UNCHANGED <<attempts, wait, hookApplied, envVars, histVars>>

\* markFailed before that: release the claim and schedule the next attempt.
Retry(w) ==
    LET e == cur[w] IN
    /\ stage[w] = "fail"
    /\ ~Exhausted(held[w][e])
    /\ IF Present(e)
       THEN /\ wait' = [wait EXCEPT ![e] = Backoff(held[w][e])]
            /\ lease' = [lease EXCEPT ![e] = 0]
       ELSE UNCHANGED <<wait, lease>>
    /\ NextRow(w)
    /\ UNCHANGED <<state, attempts, hookApplied, envVars, histVars>>

\* The process dies, or markFailed rejects and publishPending with it: the rest
\* of the batch stays claimed until claimed_until passes.
Crash(w) ==
    /\ stage[w] # "idle"
    /\ crashes < MaxCrashes
    /\ crashes' = crashes + 1
    /\ stage' = [stage EXCEPT ![w] = "idle"]
    /\ cur' = [cur EXCEPT ![w] = NoEvent]
    /\ held' = [held EXCEPT ![w] = [e \in Events |-> 0]]
    /\ seen' = [seen EXCEPT ![w] = [e \in Events |-> {}]]
    /\ to' = [to EXCEPT ![w] = {}]
    /\ wired' = [wired EXCEPT ![w] = FALSE]
    /\ UNCHANGED <<rowVars, module, live, histVars>>

-----------------------------------------------------------------------------
Step(w) ==
    \/ \E e \in Events : Resolve(w, e)
    \/ Publish(w)
    \/ RunHooks(w)
    \/ ReadRecipients(w)
    \/ SendPush(w)
    \/ Reject(w)
    \/ MarkPublished(w)
    \/ MarkPublishedUnacknowledged(w)
    \/ GiveUp(w)
    \/ Retry(w)

Environment ==
    \/ \E e \in Events : Enqueue(e) \/ Purge(e)
    \/ ToggleModule
    \/ Uninstall
    \/ \E t \in Tokens : ToggleDevice(t)

Next ==
    \/ Environment
    \/ Tick
    \/ \E w \in Workers : Claim(w) \/ Step(w) \/ Crash(w)

Spec == Init /\ [][Next]_vars

\* The clock runs, a started dispatcher runs on (or dies, which Crash counts),
\* and the maintenance job that calls publishPending keeps being triggered.
Fairness ==
    /\ WF_vars(Tick)
    /\ \A w \in Workers : WF_vars(Step(w)) /\ WF_vars(Claim(w))

FairSpec == Spec /\ Fairness

-----------------------------------------------------------------------------
(* Properties.                                                             *)

\* A row reads "published" only if some attempt reached the transport and, when the
\* event asks for push, the provider accepted that of some attempt (or there was no
\* token to send it to) or some dispatcher found no provider configured: what
\* markPublished records, whichever dispatcher records it and however late.  A provider
\* that is configured later is not asked again: the verdict is kept.
PublishedWasDelivered ==
    \A e \in Events : state[e] = "published" =>
        /\ broadcast[e] # {}
        /\ e \in PushEvents => e \in pushed \cup waived

\* A row reads "failed" only if it was claimed MaxAttempts times: no crash, stale
\* dispatcher or early verdict gives an event up before its attempts are spent.
FailedIsExhausted ==
    \A e \in Events : state[e] = "failed" => attempts[e] >= MaxAttempts

\* No two dispatchers hold a row under the same attempts number: the number the
\* claim returns identifies the claim, even when their leases overlap.
ClaimsAreDistinct ==
    \A v, w \in Workers : v # w =>
        \A e \in Events : held[v][e] > 0 => held[v][e] # held[w][e]

\* A verdict is never withdrawn: once published or failed a row is never claimed
\* or scheduled again, so its attempts no longer grow.
VerdictIsKept ==
    [][\A e \in Events : state[e] \in {"published", "failed"} =>
          /\ state'[e] \in {"published", "failed", "gone"}
          /\ attempts'[e] = attempts[e]]_vars

\* Every committed event gets a verdict, or its module is uninstalled.
EveryEventIsSettled ==
    \A e \in Events : (state[e] = "pending") ~> (state[e] # "pending")

\* hook_applied names a module once: a later attempt does not record it again.  Only
\* dispatchers that hold the event together, after a lease has expired, repeat it, each
\* once at most.
HooksRecordedOnce ==
    \A e \in Events, m \in HookModules : hookApplied[e][m] <= Cardinality(Workers)

\* The claim itself does not look at the number of attempts: beyond the maximum go
\* only those of dispatchers that died and of dispatchers that hold the event together.
AttemptsAreBounded ==
    \A e \in Events : attempts[e] <= MaxAttempts + crashes + Cardinality(Workers) - 1

\* What a dispatcher knows at each stage: it holds the row under a claim the row
\* has counted; past the broadcast the event was delivered; at the mark its push, if it
\* asks for one, was accepted or waived.
WorkerInv(w) ==
    /\ \A e \in Events : held[w][e] <= attempts[e]
    /\ stage[w] \notin {"idle", "next"} => cur[w] \in Events /\ held[w][cur[w]] > 0
    /\ stage[w] \in {"hooks", "recipients", "send", "mark"} => broadcast[cur[w]] # {}
    /\ stage[w] = "mark" /\ cur[w] \in PushEvents => cur[w] \in pushed \cup waived

StageInv == \A w \in Workers : WorkerInv(w)

\* The inductive invariant behind the theorems of OutboxProofs.
IndInv ==
    /\ TypeOK
    /\ StageInv
    /\ ClaimsAreDistinct
    /\ PublishedWasDelivered
    /\ FailedIsExhausted

\* A dispatcher between two batches holds nothing, and between two rows is at none.
RestInv ==
    \A w \in Workers :
        /\ stage[w] = "idle" => \A e \in Events : held[w][e] = 0
        /\ stage[w] \in {"idle", "next"} => cur[w] = NoEvent

\* The dispatchers that may still append the module to hook_applied: they claimed the
\* event before it was there, and their hooks have not run.
MayRecord(e, m) ==
    {w \in Workers :
        /\ held[w][e] > 0
        /\ m \notin seen[w][e]
        /\ cur[w] = e => stage[w] \in {"publish", "hooks"}}

\* Each of them repeats a module once at most, and who claims later is not one of them.
HookInv ==
    \A e \in Events, m \in HookModules :
        hookApplied[e][m] + Cardinality(MayRecord(e, m)) <= Cardinality(Workers)

\* The dispatchers whose claim is, or is beyond, the last attempt.
LastTries(e) == {w \in Workers : held[w][e] >= MaxAttempts}

\* While there is no verdict, every claim from the maximum on is one that a dispatcher
\* still holds or one that a dispatcher died with.
AttemptsInv ==
    \A e \in Events :
        /\ state[e] = "absent" => attempts[e] = 0
        /\ state[e] = "pending" =>
              attempts[e] <= MaxAttempts - 1 + crashes + Cardinality(LastTries(e))

\* The inductive invariant that counts dispatchers.
CountInv == RestInv /\ HookInv /\ AttemptsInv /\ AttemptsAreBounded

\* The dispatcher implements the contract producers rely on, whatever the number of
\* dispatchers, their overlaps and their crashes.
Contract == INSTANCE OutboxContract WITH
    status <- state,
    tries <- attempts,
    delivered <- {e \in Events : broadcast[e] # {}},
    accepted <- pushed,
    waived <- waived

ImplementsContract == Contract!Spec
=============================================================================
