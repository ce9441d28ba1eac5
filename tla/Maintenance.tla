---------------------------- MODULE Maintenance -----------------------------
(***************************************************************************)
(* Maintenance jobs: the lease, the cooldown and the callers               *)
(* (packages/core/src/maintenance/service.ts and api.ts).                  *)
(*                                                                         *)
(* POST /maintenance/run executes runMaintenance: for each requested job,  *)
(* one after the other, it times out a stale lease, tries to insert a      *)
(* "running" row (a partial unique index allows one per job), reads when   *)
(* the job last finished, and either records a cooldown skip or runs the   *)
(* job and records how it ended.  Every statement is an action.            *)
(*                                                                         *)
(* Time is counted in ticks of Postgres' clock.  Of the finished rows of a *)
(* job only the age of the youngest is kept: the code reads nothing else   *)
(* of them, and it reads the whole second alone.  It measures that age by  *)
(* the clock of its own process, which may be ahead or behind.             *)
(***************************************************************************)
EXTENDS Integers, Sequences, FiniteSets

CONSTANTS
    Jobs,           \* MAINTENANCE_JOBS
    Runners,        \* concurrent executions of runMaintenance
    Requests,       \* the job lists callers send
    RunLeaseTicks,  \* lease_until = now() + 5 minutes
    CooldownTicks,  \* COOLDOWN_MS, one minute
    SecondTicks,    \* ticks in a second
    MaxSkew,        \* ticks a process' clock may be off that of Postgres
    MaxRunnerCrashes \* bound: runners that die, or whose own statements reject

ASSUME MaintenanceAssumption ==
    /\ RunLeaseTicks \in Nat \ {0}
    /\ CooldownTicks \in Nat \ {0}
    /\ SecondTicks \in Nat \ {0}
    /\ MaxSkew \in Nat
    /\ SecondTicks + MaxSkew <= CooldownTicks
    /\ MaxRunnerCrashes \in Nat
    /\ Requests \subseteq Seq(Jobs)
    /\ <<>> \notin Requests

NoRun == "none"       \* no row of the job is running
DeadRun == "dead"     \* a row is running, its runner is not

ASSUME RunnerAssumption == NoRun \notin Runners /\ DeadRun \notin Runners

VARIABLES
    at,             \* where each runner is in the loop of runMaintenance
    todo,           \* the jobs it has left, the current one first
    holder,         \* whose row of the job has status "running"
    leaseLeft,      \* ticks until that row's lease_until
    finishedAge,    \* ticks since the second in which the job last finished began
    executedAge,    \* history: ticks since an execution of the job last finished, up to Spaced
    overran,        \* history: runners at work whose row's lease has ended
    runnerCrashes

runVars == <<at, todo, holder, leaseLeft, finishedAge, executedAge, overran, runnerCrashes>>

RunStages == {"idle", "expire", "insert", "cooldown", "skip", "run"}

\* The age from which on a row is cooled down by every clock: ages count no further.
OldAge == CooldownTicks + MaxSkew

\* The shortest time between two executions of a job: the cooldown, less the part of a
\* second the conversion of finished_at drops and what the clocks differ.
Spaced == CooldownTicks - (SecondTicks - 1) - MaxSkew

RunsTypeOK ==
    /\ at \in [Runners -> RunStages]
    /\ todo \in [Runners -> Seq(Jobs)]
    /\ holder \in [Jobs -> Runners \cup {NoRun, DeadRun}]
    /\ leaseLeft \in [Jobs -> 0..RunLeaseTicks]
    /\ finishedAge \in [Jobs -> 0..OldAge]
    /\ executedAge \in [Jobs -> 0..Spaced]
    /\ overran \subseteq Runners
    /\ runnerCrashes \in 0..MaxRunnerCrashes

\* Nothing has run yet: no finished row, which reads as fully cooled down.
RunsInit ==
    /\ at = [r \in Runners |-> "idle"]
    /\ todo = [r \in Runners |-> <<>>]
    /\ holder = [j \in Jobs |-> NoRun]
    /\ leaseLeft = [j \in Jobs |-> 0]
    /\ finishedAge = [j \in Jobs |-> OldAge]
    /\ executedAge = [j \in Jobs |-> Spaced]
    /\ overran = {}
    /\ runnerCrashes = 0

-----------------------------------------------------------------------------
Job(r) == Head(todo[r])

\* Mutant of Stale: any running row is taken over.
AlwaysStale(j) == holder[j] # NoRun

\* Mutant of Stale: a running row is never taken over.
NeverStale(j) == FALSE

\* status = 'running' and lease_until < now().
Stale(j) == holder[j] # NoRun /\ leaseLeft[j] = 0

\* Mutant of CooledDown: one tick short.
CooledDownEarly(j, skew) == finishedAge[j] + skew + 1 >= CooldownTicks

\* Date.now() is a cooldown past the latest finished_at, or more, on a process whose
\* clock is ahead by skew.
CooledDown(j, skew) == finishedAge[j] + skew >= CooldownTicks

Older(age, most) == IF age < most THEN age + 1 ELSE age

Left(ticks) == IF ticks > 0 THEN ticks - 1 ELSE 0

\* The runner goes on with the rest of its jobs, or answers the request.
NextJob(r) ==
    /\ overran' = overran \ {r}
    /\ todo' = [todo EXCEPT ![r] = Tail(@)]
    /\ at' = [at EXCEPT ![r] = IF Len(todo[r]) > 1 THEN "expire" ELSE "idle"]

\* A runner that inserted a row and has not recorded how it ended.
Working(r) == at[r] \in {"cooldown", "skip", "run"}

-----------------------------------------------------------------------------
\* POST /maintenance/run passes the door with a list of known jobs.
Request(r) ==
    /\ at[r] = "idle"
    /\ \E jobs \in Requests : todo' = [todo EXCEPT ![r] = jobs]
    /\ at' = [at EXCEPT ![r] = "expire"]
    /\ UNCHANGED <<holder, leaseLeft, finishedAge, executedAge, overran, runnerCrashes>>

\* acquireLease, first statement: time out the running row of a dead runner.
ExpireStale(r) ==
    /\ at[r] = "expire"
    /\ holder' = IF Stale(Job(r)) THEN [holder EXCEPT ![Job(r)] = NoRun] ELSE holder
    /\ at' = [at EXCEPT ![r] = "insert"]
    /\ UNCHANGED <<todo, leaseLeft, finishedAge, executedAge, overran, runnerCrashes>>

\* acquireLease, second statement: INSERT ... ON CONFLICT DO NOTHING.
InsertRun(r) ==
    /\ at[r] = "insert"
    /\ holder[Job(r)] = NoRun
    /\ holder' = [holder EXCEPT ![Job(r)] = r]
    /\ leaseLeft' = [leaseLeft EXCEPT ![Job(r)] = RunLeaseTicks]
    /\ at' = [at EXCEPT ![r] = "cooldown"]
    /\ UNCHANGED <<todo, finishedAge, executedAge, overran, runnerCrashes>>

\* ... and somebody else's row is running: skipped, reason "lease".
SkipLeased(r) ==
    /\ at[r] = "insert"
    /\ holder[Job(r)] # NoRun
    /\ NextJob(r)
    /\ UNCHANGED <<holder, leaseLeft, finishedAge, executedAge, runnerCrashes>>

\* cooledDown reads the latest finished_at of the job, by whatever clock it has.
CheckCooldown(r) ==
    /\ at[r] = "cooldown"
    /\ \E skew \in -MaxSkew..MaxSkew :
         at' = [at EXCEPT ![r] = IF CooledDown(Job(r), skew) THEN "run" ELSE "skip"]
    /\ UNCHANGED <<todo, holder, leaseLeft, finishedAge, executedAge, overran, runnerCrashes>>

\* finishRun: an UPDATE by run_id and job, whatever the row's status has become; it
\* sets finished_at = now() on every path.  cooledDown reads it through String(finished),
\* which drops the milliseconds: to it the row is older by that part of a second.
FinishRun(r) ==
    /\ \E dropped \in 0..SecondTicks - 1 :
         finishedAge' = [finishedAge EXCEPT ![Job(r)] = dropped]
    /\ holder' = IF holder[Job(r)] = r THEN [holder EXCEPT ![Job(r)] = NoRun] ELSE holder
    /\ NextJob(r)
    /\ UNCHANGED <<leaseLeft, runnerCrashes>>

\* The cooldown skip: the inserted row is closed as "ok".
FinishSkip(r) ==
    /\ at[r] = "skip"
    /\ FinishRun(r)
    /\ UNCHANGED executedAge

\* runJob has returned or thrown: the row is closed as "ok" or "failed".
FinishJob(r) ==
    /\ at[r] = "run"
    /\ FinishRun(r)
    /\ executedAge' = [executedAge EXCEPT ![Job(r)] = 0]

\* The process dies, or a statement outside the try block rejects: the request ends
\* and the row it inserted keeps running until its lease expires.
RunnerDies(r) ==
    /\ at[r] # "idle"
    /\ runnerCrashes < MaxRunnerCrashes
    /\ runnerCrashes' = runnerCrashes + 1
    /\ at' = [at EXCEPT ![r] = "idle"]
    /\ todo' = [todo EXCEPT ![r] = <<>>]
    /\ holder' = IF holder[Job(r)] = r THEN [holder EXCEPT ![Job(r)] = DeadRun] ELSE holder
    /\ overran' = overran \ {r}
    /\ UNCHANGED <<leaseLeft, finishedAge, executedAge>>

\* A lease is not renewed: a job may outlast it.
RunsTick ==
    /\ leaseLeft' = [j \in Jobs |-> Left(leaseLeft[j])]
    /\ finishedAge' = [j \in Jobs |-> Older(finishedAge[j], OldAge)]
    /\ executedAge' = [j \in Jobs |-> Older(executedAge[j], Spaced)]
    /\ overran' = overran \cup {r \in Runners : Working(r) /\ leaseLeft[Job(r)] <= 1}
    /\ UNCHANGED <<at, todo, holder, runnerCrashes>>

Statement(r) ==
    \/ ExpireStale(r)
    \/ InsertRun(r)
    \/ SkipLeased(r)
    \/ CheckCooldown(r)
    \/ FinishSkip(r)
    \/ FinishJob(r)

RunsNext ==
    \/ \E r \in Runners : Request(r) \/ Statement(r) \/ RunnerDies(r)
    \/ RunsTick

RunsSpec == RunsInit /\ [][RunsNext]_runVars

\* The scheduler keeps calling, whoever serves the call; a runner that has started
\* runs on (or dies, which RunnerDies counts); the clock runs.
RunsFairness ==
    /\ WF_runVars(\E r \in Runners : Request(r))
    /\ \A r \in Runners : WF_runVars(Statement(r))
    /\ WF_runVars(RunsTick)

RunsFairSpec == RunsSpec /\ RunsFairness

-----------------------------------------------------------------------------
(* Properties.                                                             *)

\* Two requests execute the same job at the same time only if one of them has been at it past
\* the end of its lease: a lease that runs excludes, whoever dies and whatever is reaped.
OneRunnerPerJob ==
    \A r, s \in Runners \ overran :
        r # s /\ at[r] = "run" /\ at[s] = "run" => Job(r) # Job(s)

\* An execution of a job starts no sooner than Spaced after the previous one finished,
\* whoever runs them, also when runs overlap, are skipped or outlast their leases.
ExecutionsAreSpaced ==
    [][\A r \in Runners : at[r] # "run" /\ at'[r] = "run" =>
          executedAge[Job(r)] >= Spaced]_runVars

Executing(j) == \E r \in Runners : at[r] = "run" /\ Job(r) = j

\* A call asks for a job that is due: its last run is a cooldown old by any clock, nobody
\* is at work on it, and if a row still reads "running", its lease has passed.
DueCall(j) ==
    /\ finishedAge[j] = OldAge
    /\ \A r \in Runners : Working(r) => Job(r) # j
    /\ holder[j] = NoRun \/ leaseLeft[j] = 0
    /\ \E r \in Runners : Request(r) /\ \E i \in DOMAIN todo'[r] : todo'[r][i] = j

\* A job that is asked for again and again when it is due is executed again and again,
\* whatever other calls come in between, whichever runners died holding its lease and
\* whichever outlasted it.
DueJobsAreExecuted ==
    \A j \in Jobs : []<><<DueCall(j)>>_runVars => []<>Executing(j)

\* A request under way has a job to work on.
TodoInv == \A r \in Runners : at[r] # "idle" => todo[r] # <<>>

\* A job executed a short while ago does not read as finished longer ago, but for the
\* dropped part of a second.
AgesInv ==
    \A j \in Jobs :
        executedAge[j] < Spaced => finishedAge[j] <= executedAge[j] + SecondTicks - 1

\* A runner at work holds the one running row of its job, until the lease of the row
\* ends: before, nobody else times it out or inserts one.
LeaseInv ==
    \A r \in Runners \ overran : Working(r) =>
        holder[Job(r)] = r /\ leaseLeft[Job(r)] > 0

\* The inductive invariant behind the theorems about runs (OutboxProofs).
RunsInv == RunsTypeOK /\ TodoInv /\ AgesInv /\ LeaseInv
=============================================================================
