---------------------------- MODULE OutboxProofs ----------------------------
(***************************************************************************)
(* Proofs about the outbox dispatcher, for every number of events,         *)
(* dispatchers, attempts and crashes.  One invariant, IndInv, carries all  *)
(* of them: what a dispatcher may assume at each stage (StageInv) is what  *)
(* makes its verdict true whenever it is recorded, because the facts it    *)
(* relies on (the broadcast happened, the attempts were counted) never     *)
(* become false again, whoever else has touched the row in between.  Hooks *)
(* and attempts are bounded by counting the dispatchers that hold an event *)
(* (HookInv, AttemptsInv).  The last part is about the runs of maintenance *)
(* jobs (Maintenance), which start the dispatcher.                         *)
(***************************************************************************)
EXTENDS Outbox, Maintenance, SequenceTheorems, FiniteSetTheorems, TLAPS

USE OutboxAssumption, BackoffAssumption
    DEF NextAttempt, Exhausted, AfterPush, AfterReject, LeaseAfterTick

\* Leaving a row keeps the dispatcher's own variables well typed.
LEMMA NextRowType ==
    ASSUME TypeOK, NEW w \in Workers, cur[w] \in Events, NextRow(w)
    PROVE  /\ held' \in [Workers -> [Events -> Nat]]
           /\ seen' \in [Workers -> [Events -> SUBSET HookModules]]
           /\ cur' \in [Workers -> Events \cup {NoEvent}]
           /\ stage' \in [Workers -> Stages]
           /\ to' \in [Workers -> SUBSET Tokens]
           /\ wired' \in [Workers -> BOOLEAN]
  <1> USE DEF TypeOK, NextRow, Stages
  <1>1. held' \in [Workers -> [Events -> Nat]]
    OBVIOUS
  <1>2. seen' \in [Workers -> [Events -> SUBSET HookModules]]
    OBVIOUS
  <1>3. wired' \in [Workers -> BOOLEAN]
    OBVIOUS
  <1>4. QED
    BY <1>1, <1>2, <1>3

\* Past the choice of a row, a dispatcher works on an event it holds a claim of.
LEMMA Busy ==
    ASSUME TypeOK, StageInv, NEW w \in Workers, stage[w] \notin {"idle", "next"}
    PROVE  cur[w] \in Events /\ held[w][cur[w]] \in Nat \ {0}
  BY DEF TypeOK, StageInv, WorkerInv

\* Every step of the environment, the clock or a dispatcher keeps every variable typed.
LEMMA TypeNext == TypeOK /\ StageInv /\ [Next]_vars => TypeOK'
  <1> SUFFICES ASSUME TypeOK, StageInv, [Next]_vars PROVE TypeOK'
    OBVIOUS
  <1> USE DEF TypeOK, RowStates, Stages, NoEvent, rowVars, workerVars, envVars, histVars
  <1>1. ASSUME NEW e \in Events, Enqueue(e) PROVE TypeOK'
    BY <1>1 DEF Enqueue
  <1>2. ASSUME NEW e \in Events, Purge(e) PROVE TypeOK'
    BY <1>2 DEF Purge
  <1>3. CASE ToggleModule
    BY <1>3 DEF ToggleModule
  <1>4. CASE Uninstall
    BY <1>4 DEF Uninstall
  <1>5. ASSUME NEW t \in Tokens, ToggleDevice(t) PROVE TypeOK'
    BY <1>5 DEF ToggleDevice
  <1>6. CASE Tick
    BY <1>6 DEF Tick, Before
  <1>7. ASSUME NEW w \in Workers, Claim(w) PROVE TypeOK'
    BY <1>7 DEF Claim, Due, Wire
  <1>8. ASSUME NEW w \in Workers, NEW e \in Events, Resolve(w, e) PROVE TypeOK'
    BY <1>8 DEF Resolve
  <1>9. ASSUME NEW w \in Workers, Publish(w) PROVE TypeOK'
    <2>a. stage[w] = "publish"
      BY <1>9 DEF Publish
    <2>0. cur[w] \in Events /\ held[w][cur[w]] \in Nat \ {0}
      BY <2>a, Busy
    <2>1. broadcast' \in [Events -> SUBSET Nat]
      BY <1>9, <2>0 DEF Publish
    <2>2. stage' \in [Workers -> Stages]
      BY <1>9, <2>0 DEF Publish
    <2>3. QED
      BY <1>9, <2>1, <2>2 DEF Publish
  <1>10. ASSUME NEW w \in Workers, RunHooks(w) PROVE TypeOK'
    <2>a. stage[w] = "hooks"
      BY <1>10 DEF RunHooks
    <2>0. cur[w] \in Events /\ held[w][cur[w]] \in Nat \ {0}
      BY <2>a, Busy
    <2>1. hookApplied' \in [Events -> [HookModules -> Nat]]
      BY <1>10, <2>0 DEF RunHooks
    <2>2. stage' \in [Workers -> Stages]
      BY <1>10, <2>0 DEF RunHooks, AfterHooks
    <2>3. waived' \subseteq Events
      BY <1>10, <2>0 DEF RunHooks
    <2>4. QED
      BY <1>10, <2>1, <2>2, <2>3 DEF RunHooks
  <1>11. ASSUME NEW w \in Workers, ReadRecipients(w) PROVE TypeOK'
    BY <1>11 DEF ReadRecipients
  <1>12. ASSUME NEW w \in Workers, SendPush(w) PROVE TypeOK'
    <2>a. stage[w] = "send"
      BY <1>12 DEF SendPush
    <2>0. cur[w] \in Events /\ held[w][cur[w]] \in Nat \ {0}
      BY <2>a, Busy
    <2>1. live' \subseteq Tokens /\ stage' \in [Workers -> Stages]
      BY <1>12, <2>0 DEF SendPush
    <2>2. pushed' \subseteq Events
      BY <1>12, <2>0 DEF SendPush
    <2>3. to' \in [Workers -> SUBSET Tokens]
      BY <1>12, <2>0 DEF SendPush
    <2>4. QED
      BY <1>12, <2>1, <2>2, <2>3 DEF SendPush
  <1>13. ASSUME NEW w \in Workers, Reject(w) PROVE TypeOK'
    BY <1>13 DEF Reject
  <1>14. ASSUME NEW w \in Workers, MarkPublished(w) PROVE TypeOK'
    <2>a. stage[w] = "mark"
      BY <1>14 DEF MarkPublished
    <2>0. cur[w] \in Events /\ held[w][cur[w]] \in Nat \ {0}
      BY <2>a, Busy
    <2>1. state' \in [Events -> RowStates] /\ lease' \in [Events -> 0..LeaseTicks]
      <3>1. CASE Present(cur[w])
        <4>1. /\ state' = [state EXCEPT ![cur[w]] = "published"]
              /\ lease' = [lease EXCEPT ![cur[w]] = 0]
          BY <1>14, <3>1 DEF MarkPublished, SetPublished
        <4>2. state' \in [Events -> RowStates]
          BY <2>0, <4>1
        <4>3. lease' \in [Events -> 0..LeaseTicks]
          BY <2>0, <4>1
        <4>4. QED
          BY <4>2, <4>3
      <3>2. CASE ~Present(cur[w])
        BY <1>14, <3>2 DEF MarkPublished, SetPublished, Present
      <3>3. QED
        BY <3>1, <3>2
    <2>2. NextRow(w)
      BY <1>14, <2>0 DEF MarkPublished
    <2>3. QED
      BY <1>14, <2>0, <2>1, <2>2, NextRowType DEF MarkPublished
  <1>15. ASSUME NEW w \in Workers, MarkPublishedUnacknowledged(w) PROVE TypeOK'
    <2>a. stage[w] = "mark"
      BY <1>15 DEF MarkPublishedUnacknowledged
    <2>0. cur[w] \in Events /\ held[w][cur[w]] \in Nat \ {0}
      BY <2>a, Busy
    <2>1. state' \in [Events -> RowStates] /\ lease' \in [Events -> 0..LeaseTicks]
      <3>1. CASE Present(cur[w])
        <4>1. /\ state' = [state EXCEPT ![cur[w]] = "published"]
              /\ lease' = [lease EXCEPT ![cur[w]] = 0]
          BY <1>15, <3>1 DEF MarkPublishedUnacknowledged, SetPublished
        <4>2. state' \in [Events -> RowStates]
          BY <2>0, <4>1
        <4>3. lease' \in [Events -> 0..LeaseTicks]
          BY <2>0, <4>1
        <4>4. QED
          BY <4>2, <4>3
      <3>2. CASE ~Present(cur[w])
        BY <1>15, <3>2 DEF MarkPublishedUnacknowledged, SetPublished, Present
      <3>3. QED
        BY <3>1, <3>2
    <2>2. stage' \in [Workers -> Stages]
      BY <1>15, <2>0 DEF MarkPublishedUnacknowledged
    <2>3. QED
      BY <1>15, <2>1, <2>2 DEF MarkPublishedUnacknowledged
  <1>16. ASSUME NEW w \in Workers, GiveUp(w) PROVE TypeOK'
    <2>a. stage[w] = "fail"
      BY <1>16 DEF GiveUp
    <2>0. cur[w] \in Events /\ held[w][cur[w]] \in Nat \ {0}
      BY <2>a, Busy
    <2>1. state' \in [Events -> RowStates] /\ lease' \in [Events -> 0..LeaseTicks]
      <3>1. CASE Present(cur[w])
        <4>1. /\ state' = [state EXCEPT ![cur[w]] = "failed"]
              /\ lease' = [lease EXCEPT ![cur[w]] = 0]
          BY <1>16, <3>1 DEF GiveUp
        <4>2. state' \in [Events -> RowStates]
          BY <2>0, <4>1
        <4>3. lease' \in [Events -> 0..LeaseTicks]
          BY <2>0, <4>1
        <4>4. QED
          BY <4>2, <4>3
      <3>2. CASE ~Present(cur[w])
        BY <1>16, <3>2 DEF GiveUp, Present
      <3>3. QED
        BY <3>1, <3>2
    <2>2. NextRow(w)
      BY <1>16, <2>0 DEF GiveUp
    <2>3. QED
      BY <1>16, <2>0, <2>1, <2>2, NextRowType DEF GiveUp
  <1>17. ASSUME NEW w \in Workers, Retry(w) PROVE TypeOK'
    <2>a. stage[w] = "fail"
      BY <1>17 DEF Retry
    <2>0. cur[w] \in Events /\ held[w][cur[w]] \in Nat \ {0}
      BY <2>a, Busy
    <2>1. wait' \in [Events -> Nat] /\ lease' \in [Events -> 0..LeaseTicks]
      <3>1. Backoff(held[w][cur[w]]) \in Nat
        <4>1. held[w][cur[w]] < MaxAttempts
          BY <1>17, <2>0 DEF Retry
        <4>2. QED
          BY <2>0, <4>1
      <3>2. CASE Present(cur[w])
        <4>1. /\ wait' = [wait EXCEPT ![cur[w]] = Backoff(held[w][cur[w]])]
              /\ lease' = [lease EXCEPT ![cur[w]] = 0]
          BY <1>17, <3>2 DEF Retry
        <4>2. wait' \in [Events -> Nat]
          BY <2>0, <4>1, <3>1
        <4>3. lease' \in [Events -> 0..LeaseTicks]
          BY <2>0, <4>1
        <4>4. QED
          BY <4>2, <4>3
      <3>3. CASE ~Present(cur[w])
        BY <1>17, <3>3 DEF Retry, Present
      <3>4. QED
        BY <3>2, <3>3
    <2>2. NextRow(w)
      BY <1>17, <2>0 DEF Retry
    <2>3. QED
      BY <1>17, <2>0, <2>1, <2>2, NextRowType DEF Retry
  <1>18. ASSUME NEW w \in Workers, Crash(w) PROVE TypeOK'
    BY <1>18 DEF Crash
  <1>19. CASE UNCHANGED vars
    BY <1>19 DEF vars
  <1>20. QED
    BY <1>1, <1>2, <1>3, <1>4, <1>5, <1>6, <1>7, <1>8, <1>9, <1>10, <1>11,
       <1>12, <1>13, <1>14, <1>15, <1>16, <1>17, <1>18, <1>19
       DEF Next, Environment, Step

\* The facts a dispatcher's knowledge is made of never become false again.
LEMMA Monotone ==
    ASSUME TypeOK, TypeOK', [Next]_vars
    PROVE  /\ \A e \in Events : broadcast[e] \subseteq broadcast'[e]
           /\ pushed \subseteq pushed' /\ waived \subseteq waived'
           /\ \A e \in Events : attempts[e] \in Nat /\ attempts'[e] \in Nat
           /\ \A e \in Events : attempts[e] <= attempts'[e]
  <1>1. ASSUME NEW w \in Workers, Publish(w)
        PROVE  \A e \in Events : broadcast[e] \subseteq broadcast'[e]
    BY <1>1 DEF Publish, TypeOK
  <1>2. ASSUME NEW w \in Workers, SendPush(w) PROVE pushed \subseteq pushed'
    BY <1>2 DEF SendPush
  <1>3. ASSUME NEW w \in Workers, Claim(w)
        PROVE  \A e \in Events : attempts'[e] \in {attempts[e], attempts[e] + 1}
    BY <1>3 DEF Claim, TypeOK
  <1>4. \A e \in Events : attempts[e] \in Nat /\ attempts'[e] \in Nat
    BY DEF TypeOK
  <1> USE DEF Next, Environment, Step, Enqueue, Purge, ToggleModule, Uninstall, ToggleDevice,
              Tick, Claim, Resolve, Publish, RunHooks, ReadRecipients, SendPush, Reject, Crash,
              MarkPublished, MarkPublishedUnacknowledged, GiveUp, Retry, NextRow, vars,
              rowVars, workerVars, envVars, histVars
  <1>5. \A e \in Events : broadcast[e] \subseteq broadcast'[e]
    BY <1>1
  <1>6. pushed \subseteq pushed'
    BY <1>2
  <1>7. \A e \in Events : attempts'[e] \in {attempts[e], attempts[e] + 1}
    BY <1>3
  <1>8. waived \subseteq waived'
    OBVIOUS
  <1> HIDE DEF Next
  <1>9. \A e \in Events : attempts[e] <= attempts'[e]
    BY <1>4, <1>7
  <1>10. QED
    BY <1>4, <1>5, <1>6, <1>8, <1>9

\* A claim takes a number the row had not yet counted, so it is nobody else's.
LEMMA DistinctNext ==
    TypeOK /\ StageInv /\ ClaimsAreDistinct /\ [Next]_vars => ClaimsAreDistinct'
  <1> SUFFICES ASSUME TypeOK, StageInv, ClaimsAreDistinct, [Next]_vars
               PROVE ClaimsAreDistinct'
    OBVIOUS
  <1>1. ASSUME NEW w \in Workers, Claim(w) PROVE ClaimsAreDistinct'
    <2>1. PICK B \in SUBSET Events :
            held' = [held EXCEPT ![w] = [e \in Events |-> IF e \in B THEN attempts[e] + 1 ELSE 0]]
      BY <1>1 DEF Claim, Due
    <2>2. \A e \in Events : held'[w][e] \in {0, attempts[e] + 1}
      BY <2>1 DEF TypeOK
    <2>3. \A v \in Workers \ {w} : held'[v] = held[v]
      BY <2>1 DEF TypeOK
    <2>4. \A v \in Workers, e \in Events :
            held[v][e] \in Nat /\ attempts[e] \in Nat /\ held[v][e] <= attempts[e]
      BY DEF TypeOK, StageInv, WorkerInv
    <2>5. QED
      BY <2>2, <2>3, <2>4 DEF ClaimsAreDistinct
  <1>2. ASSUME NEW w \in Workers, NextRow(w) PROVE ClaimsAreDistinct'
    <2>1. \A v \in Workers, e \in Events : held'[v][e] \in {0, held[v][e]}
      BY <1>2 DEF NextRow, TypeOK
    <2>2. \A v \in Workers, e \in Events : held[v][e] \in Nat
      BY DEF TypeOK
    <2>3. QED
      BY <2>1, <2>2 DEF ClaimsAreDistinct
  <1>3. ASSUME NEW w \in Workers, Crash(w) PROVE ClaimsAreDistinct'
    <2>1. \A v \in Workers, e \in Events : held'[v][e] \in {0, held[v][e]}
      BY <1>3 DEF Crash, TypeOK
    <2>2. \A v \in Workers, e \in Events : held[v][e] \in Nat
      BY DEF TypeOK
    <2>3. QED
      BY <2>1, <2>2 DEF ClaimsAreDistinct
  <1>4. CASE UNCHANGED held
    BY <1>4 DEF ClaimsAreDistinct
  <1>5. QED
    BY <1>1, <1>2, <1>3, <1>4
       DEF Next, Environment, Step, Enqueue, Purge, ToggleModule, Uninstall, ToggleDevice,
           Tick, Resolve, Publish, RunHooks, ReadRecipients, SendPush, Reject,
           MarkPublished, MarkPublishedUnacknowledged, GiveUp, Retry, vars, workerVars

\* "published" is written by a dispatcher at its mark, and what it found there lasts.
LEMMA DeliveredNext ==
    TypeOK /\ StageInv /\ PublishedWasDelivered /\ [Next]_vars => PublishedWasDelivered'
  <1> SUFFICES ASSUME TypeOK, StageInv, PublishedWasDelivered, [Next]_vars
               PROVE PublishedWasDelivered'
    OBVIOUS
  <1>1. /\ \A e \in Events : broadcast[e] \subseteq broadcast'[e]
        /\ pushed \cup waived \subseteq pushed' \cup waived'
    BY TypeNext, Monotone
  <1>2. ASSUME NEW w \in Workers, stage[w] = "mark", SetPublished(cur[w])
        PROVE  PublishedWasDelivered'
    <2>1. \A e \in Events : state'[e] = "published" => state[e] = "published" \/ e = cur[w]
      BY <1>2 DEF SetPublished, TypeOK
    <2>2. broadcast[cur[w]] # {} /\ (cur[w] \in PushEvents => cur[w] \in pushed \cup waived)
      BY <1>2 DEF StageInv, WorkerInv
    <2>3. QED
      BY <1>1, <2>1, <2>2 DEF PublishedWasDelivered
  <1>3. CASE \A e \in Events : state'[e] = "published" => state[e] = "published"
    BY <1>1, <1>3 DEF PublishedWasDelivered
  <1>4. QED
    <2>1. ASSUME NEW w \in Workers, GiveUp(w)
          PROVE  \A e \in Events : state'[e] = "published" => state[e] = "published"
      BY <2>1 DEF GiveUp, TypeOK
    <2>2. ASSUME NEW e \in Events, Enqueue(e) \/ Purge(e)
          PROVE  \A f \in Events : state'[f] = "published" => state[f] = "published"
      BY <2>2 DEF Enqueue, Purge, TypeOK
    <2>3. CASE Uninstall
      BY <1>3, <2>3 DEF Uninstall
    <2>4. CASE UNCHANGED state
      BY <1>3, <2>4
    <2>5. QED
      BY <1>2, <1>3, <2>1, <2>2, <2>3, <2>4
         DEF Next, Environment, Step, ToggleModule, ToggleDevice, Tick, Claim, Resolve, Publish,
             RunHooks, ReadRecipients, SendPush, Reject, Crash, MarkPublished,
             MarkPublishedUnacknowledged, Retry, vars, rowVars

\* "failed" is written under a claim of number MaxAttempts or more, and the row has
\* counted at least as many.
LEMMA ExhaustedNext ==
    TypeOK /\ StageInv /\ FailedIsExhausted /\ [Next]_vars => FailedIsExhausted'
  <1> SUFFICES ASSUME TypeOK, StageInv, FailedIsExhausted, [Next]_vars
               PROVE FailedIsExhausted'
    OBVIOUS
  <1>1. \A e \in Events : attempts[e] \in Nat /\ attempts'[e] \in Nat /\ attempts[e] <= attempts'[e]
    BY TypeNext, Monotone
  <1>2. ASSUME NEW w \in Workers, GiveUp(w) PROVE FailedIsExhausted'
    <2>1. \A e \in Events : state'[e] = "failed" => state[e] = "failed" \/ e = cur[w]
      BY <1>2 DEF GiveUp, TypeOK
    <2>2. cur[w] \in Events /\ held[w][cur[w]] \in Nat
      BY <1>2, Busy DEF GiveUp
    <2>3. held[w][cur[w]] >= MaxAttempts /\ held[w][cur[w]] <= attempts[cur[w]]
      BY <1>2, <2>2 DEF GiveUp, StageInv, WorkerInv
    <2>4. attempts[cur[w]] >= MaxAttempts
      BY <1>1, <2>2, <2>3
    <2>5. QED
      BY <1>1, <2>1, <2>2, <2>4 DEF FailedIsExhausted
  <1>3. CASE \A e \in Events : state'[e] = "failed" => state[e] = "failed"
    BY <1>1, <1>3 DEF FailedIsExhausted
  <1>4. QED
    <2>1. ASSUME NEW w \in Workers, SetPublished(cur[w])
          PROVE  \A e \in Events : state'[e] = "failed" => state[e] = "failed"
      BY <2>1 DEF SetPublished, TypeOK
    <2>2. ASSUME NEW e \in Events, Enqueue(e) \/ Purge(e)
          PROVE  \A f \in Events : state'[f] = "failed" => state[f] = "failed"
      BY <2>2 DEF Enqueue, Purge, TypeOK
    <2>3. CASE Uninstall
      BY <1>3, <2>3 DEF Uninstall
    <2>4. CASE UNCHANGED state
      BY <1>3, <2>4
    <2>5. QED
      BY <1>2, <1>3, <2>1, <2>2, <2>3, <2>4
         DEF Next, Environment, Step, ToggleModule, ToggleDevice, Tick, Claim, Resolve, Publish,
             RunHooks, ReadRecipients, SendPush, Reject, Crash, MarkPublished,
             MarkPublishedUnacknowledged, Retry, vars, rowVars

\* A dispatcher another one's step leaves where it was still knows what it knew.
LEMMA OthersKeep ==
    ASSUME TypeOK, TypeOK', [Next]_vars, NEW v \in Workers, WorkerInv(v),
           stage'[v] = stage[v], cur'[v] = cur[v], held'[v] = held[v]
    PROVE  WorkerInv(v)'
  <1>1. \A e \in Events : held[v][e] \in Nat
    BY DEF TypeOK
  <1>2. QED
    BY <1>1, Monotone DEF WorkerInv

\* Leaving a row: the rest of the batch is still counted, and nothing is being done.
LEMMA NextRowKeeps ==
    ASSUME TypeOK, TypeOK', StageInv, [Next]_vars, NEW w \in Workers, NextRow(w)
    PROVE  StageInv'
  <1>1. \A v \in Workers \ {w} : stage'[v] = stage[v] /\ cur'[v] = cur[v] /\ held'[v] = held[v]
    BY DEF NextRow, TypeOK
  <1>2. \A e \in Events : held'[w][e] \in {0, held[w][e]}
    BY DEF NextRow, TypeOK
  <1>3. stage'[w] \in {"idle", "next"}
    BY DEF NextRow, TypeOK
  <1>4. \A e \in Events : held[w][e] \in Nat /\ held[w][e] <= attempts[e]
    BY DEF TypeOK, StageInv, WorkerInv
  <1>5. WorkerInv(w)'
    BY <1>2, <1>3, <1>4, Monotone DEF WorkerInv
  <1>6. QED
    BY <1>1, <1>5, OthersKeep DEF StageInv

\* Every step leaves each dispatcher with what its stage says it knows.
LEMMA StageNext ==
    TypeOK /\ TypeOK' /\ StageInv /\ [Next]_vars => StageInv'
  <1> SUFFICES ASSUME TypeOK, TypeOK', StageInv, [Next]_vars PROVE StageInv'
    OBVIOUS
  <1>1. ASSUME NEW w \in Workers, WorkerInv(w)',
               \A v \in Workers \ {w} :
                  stage'[v] = stage[v] /\ cur'[v] = cur[v] /\ held'[v] = held[v]
        PROVE  StageInv'
    BY <1>1, OthersKeep DEF StageInv
  <1>2. ASSUME NEW w \in Workers, stage[w] \notin {"idle", "next"}
        PROVE  /\ cur[w] \in Events
               /\ held[w][cur[w]] \in Nat \ {0}
    BY <1>2, Busy
  <1>0. ASSUME NEW w \in Workers, held' = held
        PROVE  \A e \in Events : held'[w][e] <= attempts'[e]
    <2>1. \A e \in Events : held[w][e] \in Nat /\ held[w][e] <= attempts[e]
      BY DEF TypeOK, StageInv, WorkerInv
    <2>2. QED
      BY <1>0, <2>1, Monotone
  <1>3. ASSUME NEW w \in Workers, Claim(w) PROVE StageInv'
    <2>1. \A e \in Events : held'[w][e] \in {0, attempts'[e]}
      BY <1>3 DEF Claim, Due, TypeOK
    <2>2. stage'[w] = "next"
      BY <1>3 DEF Claim, TypeOK
    <2>3. WorkerInv(w)'
      BY <2>1, <2>2, Monotone DEF WorkerInv
    <2>4. QED
      BY <1>1, <1>3, <2>3 DEF Claim, TypeOK
  <1>4. ASSUME NEW w \in Workers, NEW e \in Events, Resolve(w, e) PROVE StageInv'
    <2>1. cur'[w] = e /\ held' = held /\ stage'[w] \in {"publish", "fail"} /\ held[w][e] > 0
      BY <1>4 DEF Resolve, TypeOK
    <2>2. WorkerInv(w)'
      BY <1>0, <2>1 DEF WorkerInv, StageInv
    <2>3. QED
      BY <1>1, <1>4, <2>2 DEF Resolve, TypeOK
  <1>5. ASSUME NEW w \in Workers, Publish(w) PROVE StageInv'
    <2>1. stage[w] = "publish" /\ cur' = cur /\ held' = held /\ stage'[w] \in {"hooks", "fail"}
      BY <1>5 DEF Publish, TypeOK
    <2>2. broadcast'[cur[w]] # {}
      BY <1>2, <1>5, <2>1 DEF Publish, TypeOK
    <2>3. WorkerInv(w)'
      BY <1>0, <1>2, <2>1, <2>2 DEF WorkerInv
    <2>4. QED
      BY <1>1, <1>5, <2>3 DEF Publish, TypeOK
  <1>6. ASSUME NEW w \in Workers, RunHooks(w) PROVE StageInv'
    <2>1. /\ stage[w] = "hooks" /\ cur' = cur /\ held' = held
          /\ stage'[w] = AfterHooks(w, cur[w])
          /\ cur[w] \in PushEvents /\ ~wired[w] => cur[w] \in waived'
      BY <1>6 DEF RunHooks, TypeOK
    <2>2. WorkerInv(w)'
      BY <1>0, <1>2, <2>1, Monotone DEF WorkerInv, StageInv, AfterHooks
    <2>3. QED
      BY <1>1, <1>6, <2>2 DEF RunHooks, TypeOK
  <1>7. ASSUME NEW w \in Workers, ReadRecipients(w) PROVE StageInv'
    <2>1. stage[w] = "recipients" /\ cur' = cur /\ held' = held /\ stage'[w] = "send"
      BY <1>7 DEF ReadRecipients, TypeOK
    <2>2. WorkerInv(w)'
      BY <1>0, <1>2, <2>1, Monotone DEF WorkerInv, StageInv
    <2>3. QED
      BY <1>1, <1>7, <2>2 DEF ReadRecipients, TypeOK
  <1>8. ASSUME NEW w \in Workers, SendPush(w) PROVE StageInv'
    <2>1. /\ stage[w] = "send" /\ cur' = cur /\ held' = held
          /\ stage'[w] \in {"fail", "mark"}
          /\ stage'[w] = "mark" => cur[w] \in pushed'
      BY <1>8 DEF SendPush, TypeOK
    <2>2. WorkerInv(w)'
      BY <1>0, <1>2, <2>1, Monotone DEF WorkerInv, StageInv
    <2>3. QED
      BY <1>1, <1>8, <2>2 DEF SendPush, TypeOK
  <1>9. ASSUME NEW w \in Workers, Reject(w) \/ MarkPublishedUnacknowledged(w) PROVE StageInv'
    <2>1. /\ stage[w] \notin {"idle", "next"} /\ cur' = cur /\ held' = held
          /\ stage'[w] = "fail"
      BY <1>9 DEF Reject, MarkPublishedUnacknowledged, TypeOK
    <2>2. WorkerInv(w)'
      BY <1>0, <1>2, <2>1, Monotone DEF WorkerInv, StageInv
    <2>3. QED
      BY <1>1, <1>9, <2>2 DEF Reject, MarkPublishedUnacknowledged, TypeOK
  <1>10. ASSUME NEW w \in Workers, Crash(w) PROVE StageInv'
    <2>1. stage'[w] = "idle" /\ \A e \in Events : held'[w][e] = 0
      BY <1>10 DEF Crash, TypeOK
    <2>2. WorkerInv(w)'
      BY <2>1, Monotone DEF WorkerInv
    <2>3. QED
      BY <1>1, <1>10, <2>2 DEF Crash, TypeOK
  <1>11. CASE UNCHANGED <<stage, cur, held>>
    BY <1>11, OthersKeep DEF StageInv
  <1>12. QED
    BY <1>3, <1>4, <1>5, <1>6, <1>7, <1>8, <1>9, <1>10, <1>11, NextRowKeeps
       DEF Next, Environment, Step, Enqueue, Purge, ToggleModule, Uninstall, ToggleDevice,
           Tick, MarkPublished, GiveUp, Retry, vars, workerVars

-----------------------------------------------------------------------------
(* Counting dispatchers.                                                   *)

\* What is counted are dispatchers: there are at most as many as there are Workers.
LEMMA Countable ==
    ASSUME NEW S \in SUBSET Workers
    PROVE  IsFiniteSet(S) /\ Cardinality(S) \in Nat /\ Cardinality(S) <= Cardinality(Workers)
  <1>1. IsFiniteSet(S) /\ Cardinality(S) <= Cardinality(Workers)
    BY FS_Subset
  <1>2. Cardinality(S) \in Nat
    BY <1>1, FS_CardinalityType
  <1>3. QED
    BY <1>1, <1>2

\* A set of dispatchers that loses members, and one that loses a certain one.
LEMMA Fewer ==
    ASSUME NEW S \in SUBSET Workers, NEW T \in SUBSET S
    PROVE  /\ Cardinality(T) <= Cardinality(S)
           /\ \A w \in S : w \notin T => Cardinality(T) <= Cardinality(S) - 1
  <1>1. IsFiniteSet(S) /\ IsFiniteSet(T) /\ Cardinality(S) \in Nat /\ Cardinality(T) \in Nat
    BY Countable
  <1>2. Cardinality(T) <= Cardinality(S)
    BY <1>1, FS_Subset
  <1>3. ASSUME NEW w \in S, w \notin T PROVE Cardinality(T) <= Cardinality(S) - 1
    <2>1. IsFiniteSet(S \ {w}) /\ Cardinality(S \ {w}) = Cardinality(S) - 1
      BY <1>1, FS_RemoveElement
    <2>2. T \in SUBSET (S \ {w})
      BY <1>3
    <2>3. Cardinality(T) <= Cardinality(S \ {w})
      BY <2>1, <2>2, FS_Subset
    <2>4. QED
      BY <2>1, <2>3
  <1>4. QED
    BY <1>2, <1>3

\* A set of dispatchers that one joins, or that loses one at most.
LEMMA OneMore ==
    ASSUME NEW S \in SUBSET Workers, NEW T \in SUBSET Workers, NEW w \in Workers
    PROVE  /\ w \notin S /\ T = S \cup {w} => Cardinality(T) = Cardinality(S) + 1
           /\ S \ {w} \subseteq T => Cardinality(S) <= Cardinality(T) + 1
  <1>1. /\ IsFiniteSet(S) /\ IsFiniteSet(T) /\ IsFiniteSet(T \cup {w})
        /\ Cardinality(S) \in Nat /\ Cardinality(T) \in Nat /\ Cardinality(T \cup {w}) \in Nat
    BY Countable
  <1>2. ASSUME w \notin S, T = S \cup {w} PROVE Cardinality(T) = Cardinality(S) + 1
    BY <1>1, <1>2, FS_AddElement
  <1>3. ASSUME S \ {w} \subseteq T PROVE Cardinality(S) <= Cardinality(T) + 1
    <2>1. S \in SUBSET (T \cup {w})
      BY <1>3
    <2>2. Cardinality(S) <= Cardinality(T \cup {w})
      BY <1>1, <2>1, FS_Subset
    <2>3. Cardinality(T \cup {w}) <= Cardinality(T) + 1
      BY <1>1, FS_AddElement
    <2>4. QED
      BY <1>1, <2>2, <2>3
  <1>4. QED
    BY <1>2, <1>3

\* Each statement of a dispatcher leaves the others where they are.
LEMMA RestNext == TypeOK /\ RestInv /\ [Next]_vars => RestInv'
  <1> SUFFICES ASSUME TypeOK, RestInv, [Next]_vars PROVE RestInv'
    OBVIOUS
  <1>1. ASSUME NEW w \in Workers, NextRow(w) PROVE RestInv'
    <2>1. /\ cur'[w] = NoEvent
          /\ stage'[w] = "idle" => \A e \in Events : ~(held'[w][e] > 0)
          /\ \A e \in Events : held'[w][e] \in {0, held[w][e]}
      BY <1>1 DEF NextRow, TypeOK
    <2>2. \A e \in Events : held[w][e] \in Nat
      BY DEF TypeOK
    <2>3. \A v \in Workers \ {w} :
             stage'[v] = stage[v] /\ cur'[v] = cur[v] /\ held'[v] = held[v]
      BY <1>1 DEF NextRow, TypeOK
    <2>4. stage'[w] = "idle" => \A e \in Events : held'[w][e] = 0
      BY <2>1, <2>2
    <2>5. QED
      BY <2>1, <2>3, <2>4 DEF RestInv
  <1>2. ASSUME NEW w \in Workers, Claim(w) PROVE RestInv'
    BY <1>2 DEF Claim, RestInv, TypeOK
  <1>3. ASSUME NEW w \in Workers, Crash(w) PROVE RestInv'
    BY <1>3 DEF Crash, RestInv, TypeOK
  <1>4. ASSUME NEW w \in Workers, NEW e \in Events, Resolve(w, e) PROVE RestInv'
    BY <1>4 DEF Resolve, RestInv, TypeOK
  <1>5. ASSUME NEW w \in Workers, UNCHANGED <<cur, held>>, stage'[w] \notin {"idle", "next"},
               \A v \in Workers \ {w} : stage'[v] = stage[v]
        PROVE  RestInv'
    BY <1>5 DEF RestInv
  <1>6. ASSUME NEW w \in Workers,
               \/ Publish(w) \/ RunHooks(w) \/ ReadRecipients(w) \/ SendPush(w) \/ Reject(w)
               \/ MarkPublishedUnacknowledged(w)
        PROVE  RestInv'
    <2>1. UNCHANGED <<cur, held>>
      BY <1>6 DEF Publish, RunHooks, ReadRecipients, SendPush, Reject,
                  MarkPublishedUnacknowledged
    <2>2. PICK s \in Stages \ {"idle", "next"} : stage' = [stage EXCEPT ![w] = s]
      BY <1>6 DEF Publish, RunHooks, ReadRecipients, SendPush, Reject,
                  MarkPublishedUnacknowledged, AfterHooks, Stages
    <2>3. QED
      BY <1>5, <2>1, <2>2 DEF TypeOK
  <1>7. CASE UNCHANGED <<stage, cur, held>>
    BY <1>7 DEF RestInv
  <1>8. QED
    BY <1>1, <1>2, <1>3, <1>4, <1>6, <1>7
       DEF Next, Environment, Step, Enqueue, Purge, ToggleModule, Uninstall, ToggleDevice,
           Tick, MarkPublished, GiveUp, Retry, vars, workerVars

\* Nobody but a claim lets a dispatcher record a module again.
LEMMA MayRecordShrinks ==
    ASSUME TypeOK, RestInv, [Next]_vars, ~\E w \in Workers : Claim(w),
           NEW e \in Events, NEW m \in HookModules
    PROVE  MayRecord(e, m)' \subseteq MayRecord(e, m)
  <1> SUFFICES ASSUME NEW v \in Workers,
                      held'[v][e] > 0, m \notin seen'[v][e],
                      cur'[v] = e => stage'[v] \in {"publish", "hooks"}
               PROVE  v \in MayRecord(e, m)
    BY DEF MayRecord
  <1> DEFINE Same == /\ held'[v] = held[v] /\ seen'[v] = seen[v]
                     /\ cur'[v] = cur[v] /\ stage'[v] = stage[v]
  <1>1. CASE Same
    BY <1>1 DEF MayRecord
  <1>2. ASSUME NextRow(v) PROVE v \in MayRecord(e, m)
    <2>1. e # cur[v] /\ held'[v][e] = held[v][e] /\ seen'[v][e] = seen[v][e]
      BY <1>2 DEF NextRow, TypeOK
    <2>2. QED
      BY <2>1 DEF MayRecord
  <1>3. ASSUME NEW w \in Workers, w # v, Step(w) \/ Crash(w) PROVE Same
    BY <1>3 DEF Step, Crash, Resolve, Publish, RunHooks, ReadRecipients, SendPush, Reject,
       MarkPublished, MarkPublishedUnacknowledged, GiveUp, Retry, NextRow, TypeOK
  <1>4. ASSUME NEW f \in Events, Resolve(v, f) PROVE v \in MayRecord(e, m)
    <2>1. cur[v] # e
      BY <1>4 DEF Resolve, RestInv, NoEvent, Events
    <2>2. QED
      BY <1>4, <2>1 DEF Resolve, MayRecord
  <1>5. CASE Publish(v) \/ RunHooks(v)
    BY <1>5 DEF Publish, RunHooks, MayRecord
  <1>6. CASE ReadRecipients(v) \/ SendPush(v) \/ Reject(v) \/ MarkPublishedUnacknowledged(v)
    <2>1. UNCHANGED <<cur, held, seen>> /\ stage'[v] \notin {"publish", "hooks"}
      BY <1>6 DEF ReadRecipients, SendPush, Reject, MarkPublishedUnacknowledged, TypeOK
    <2>2. QED
      BY <2>1 DEF MayRecord
  <1>7. ~Crash(v)
    BY DEF Crash, TypeOK
  <1>8. CASE UNCHANGED workerVars
    BY <1>8, <1>1 DEF workerVars
  <1> HIDE DEF Same
  <1>9. QED
    <2>1. ASSUME NEW w \in Workers, Step(w) PROVE v \in MayRecord(e, m)
      <3>1. CASE w # v
        BY <2>1, <3>1, <1>1, <1>3
      <3>2. CASE w = v
        BY <2>1, <3>2, <1>2, <1>4, <1>5, <1>6 DEF Step, MarkPublished, GiveUp, Retry
      <3>3. QED
        BY <3>1, <3>2
    <2>2. ASSUME NEW w \in Workers, Crash(w) PROVE v \in MayRecord(e, m)
      BY <2>2, <1>1, <1>3, <1>7
    <2>3. QED
      BY <2>1, <2>2, <1>8
         DEF Next, Environment, Enqueue, Purge, ToggleModule, Uninstall, ToggleDevice, Tick, vars

\* A dispatcher that records a module is one that might, and is not any more.
LEMMA HookNext == TypeOK /\ StageInv /\ RestInv /\ HookInv /\ [Next]_vars => HookInv'
  <1> SUFFICES ASSUME TypeOK, StageInv, RestInv, HookInv, [Next]_vars,
                      NEW e \in Events, NEW m \in HookModules
               PROVE  hookApplied'[e][m] + Cardinality(MayRecord(e, m)') <= Cardinality(Workers)
    BY DEF HookInv
  <1> DEFINE S == MayRecord(e, m)
             T == MayRecord(e, m)'
             n == hookApplied[e][m]
  <1>1. S \in SUBSET Workers /\ T \in SUBSET Workers
    BY DEF MayRecord
  <1>2. /\ Cardinality(S) \in Nat /\ Cardinality(T) \in Nat /\ Cardinality(Workers) \in Nat
        /\ Cardinality(T) <= Cardinality(Workers)
    BY <1>1, Countable
  <1>3. n \in Nat /\ n + Cardinality(S) <= Cardinality(Workers)
    BY DEF HookInv, TypeOK
  <1>4. ASSUME NEW w \in Workers, Claim(w)
        PROVE  hookApplied'[e][m] + Cardinality(T) <= Cardinality(Workers)
    <2>1. hookApplied' = hookApplied
      BY <1>4 DEF Claim
    <2>2. CASE n = 0
      BY <2>1, <2>2, <1>2
    <2>3. CASE n > 0
      <3>1. \A v \in Workers \ {w} : /\ held'[v] = held[v] /\ seen'[v] = seen[v]
                                    /\ cur'[v] = cur[v] /\ stage'[v] = stage[v]
        BY <1>4 DEF Claim, TypeOK
      <3>2. held'[w][e] > 0 => m \in seen'[w][e]
        <4>1. PICK B \in SUBSET Due :
                 /\ held' = [held EXCEPT ![w] =
                        [f \in Events |-> IF f \in B THEN NextAttempt(f) ELSE 0]]
                 /\ seen' = [seen EXCEPT ![w] = [f \in Events |->
                        IF f \in B THEN {k \in HookModules : hookApplied[f][k] > 0} ELSE {}]]
          BY <1>4 DEF Claim
        <4>2. held'[w][e] > 0 => e \in B
          BY <4>1 DEF TypeOK
        <4>3. e \in B => seen'[w][e] = {k \in HookModules : hookApplied[e][k] > 0}
          BY <4>1 DEF TypeOK
        <4>4. QED
          BY <4>2, <4>3, <2>3
      <3>3. T \in SUBSET S
        BY <3>1, <3>2 DEF MayRecord
      <3>4. Cardinality(T) <= Cardinality(S)
        BY <3>3, <1>1, Fewer
      <3> HIDE DEF n, S, T
      <3>5. QED
        BY <3>4, <2>1, <1>2, <1>3 DEF n
    <2>4. QED
      BY <2>2, <2>3, <1>3
  <1>5. CASE ~\E w \in Workers : Claim(w)
    <2>1. T \in SUBSET S
      BY <1>5, MayRecordShrinks
    <2>2. /\ Cardinality(T) <= Cardinality(S)
          /\ \A w \in S : w \notin T => Cardinality(T) <= Cardinality(S) - 1
      BY <2>1, <1>1, Fewer
    <2>3. CASE hookApplied'[e][m] = n
      <3> HIDE DEF n, S, T
      <3>1. QED
        BY <2>2, <2>3, <1>2, <1>3 DEF T
    <2>4. ASSUME NEW w \in Workers, RunHooks(w), hookApplied'[e][m] # n
          PROVE  hookApplied'[e][m] + Cardinality(T) <= Cardinality(Workers)
      <3>1. stage[w] = "hooks"
        BY <2>4 DEF RunHooks
      <3>2. cur[w] \in Events /\ held[w][cur[w]] > 0
        BY <3>1, Busy
      <3>3. PICK applied \in SUBSET HookModules :
               hookApplied' = IF Present(cur[w])
                              THEN [hookApplied EXCEPT ![cur[w]] = [k \in HookModules |->
                                       IF k \in NewlyApplied(w, applied) THEN @[k] + 1 ELSE @[k]]]
                              ELSE hookApplied
        BY <2>4 DEF RunHooks
      <3>4. hookApplied' = [hookApplied EXCEPT ![cur[w]] = [k \in HookModules |->
                                IF k \in NewlyApplied(w, applied) THEN @[k] + 1 ELSE @[k]]]
        BY <3>3, <2>4
      <3>5. cur[w] = e
        BY <3>4, <2>4, <3>2 DEF TypeOK
      <3>6. hookApplied'[e] = [k \in HookModules |->
                IF k \in NewlyApplied(w, applied) THEN hookApplied[e][k] + 1 ELSE hookApplied[e][k]]
        BY <3>4, <3>5 DEF TypeOK
      <3>7. m \in NewlyApplied(w, applied) /\ hookApplied'[e][m] = n + 1
        BY <3>6, <2>4
      <3>8. w \in S
        BY <3>1, <3>2, <3>5, <3>7 DEF MayRecord, NewlyApplied
      <3>9. w \notin T
        BY <2>4, <3>5 DEF RunHooks, MayRecord, AfterHooks, TypeOK
      <3>10. Cardinality(T) <= Cardinality(S) - 1
        BY <2>2, <3>8, <3>9
      <3> HIDE DEF n, S, T
      <3>11. QED
        BY <3>7, <3>10, <1>2, <1>3
    <2>5. hookApplied'[e][m] # n => \E w \in Workers : RunHooks(w)
      BY <1>5 DEF Next, Environment, Step, Enqueue, Purge, ToggleModule, Uninstall, ToggleDevice,
         Tick, Resolve, Publish, ReadRecipients, SendPush, Reject, MarkPublished,
         MarkPublishedUnacknowledged, GiveUp, Retry, Crash, vars, rowVars
    <2>6. QED
      BY <2>3, <2>4, <2>5
  <1>6. QED
    BY <1>4, <1>5

\* A step other than a claim or a crash lets go only of a claim below the maximum, unless it
\* settles the event.
LEMMA LastTriesKept ==
    ASSUME TypeOK, StageInv, [Next]_vars,
           ~\E w \in Workers : Claim(w) \/ Crash(w),
           NEW e \in Events, state'[e] = "pending"
    PROVE  LastTries(e) \subseteq LastTries(e)'
  <1>1. ASSUME NEW w \in Workers, NextRow(w), e = cur[w] => ~Exhausted(held[w][e])
        PROVE  LastTries(e) \subseteq LastTries(e)'
    <2>1. \A v \in Workers : held'[v][e] = held[v][e] \/ (v = w /\ e = cur[w])
      BY <1>1 DEF NextRow, TypeOK
    <2>2. QED
      BY <1>1, <2>1 DEF LastTries
  <1>2. ASSUME NEW w \in Workers, MarkPublished(w) PROVE e # cur[w] /\ NextRow(w)
    <2>1. cur[w] \in Events
      BY <1>2, Busy DEF MarkPublished
    <2>2. QED
      BY <1>2, <2>1 DEF MarkPublished, SetPublished, Present, TypeOK
  <1>3. ASSUME NEW w \in Workers, GiveUp(w) PROVE e # cur[w] /\ NextRow(w)
    <2>1. cur[w] \in Events
      BY <1>3, Busy DEF GiveUp
    <2>2. QED
      BY <1>3, <2>1 DEF GiveUp, Present, TypeOK
  <1>4. ASSUME NEW w \in Workers, Retry(w) PROVE ~Exhausted(held[w][cur[w]]) /\ NextRow(w)
    BY <1>4 DEF Retry
  <1>5. CASE UNCHANGED held
    BY <1>5 DEF LastTries
  <1>6. QED
    BY <1>1, <1>2, <1>3, <1>4, <1>5
       DEF Next, Environment, Step, Enqueue, Purge, ToggleModule, Uninstall, ToggleDevice,
           Tick, Resolve, Publish, RunHooks, ReadRecipients, SendPush, Reject,
           MarkPublishedUnacknowledged, vars, workerVars

\* Only a producer makes an event pending, and it has no attempts then.
LEMMA PendingBefore ==
    ASSUME TypeOK, [Next]_vars, NEW e \in Events
    PROVE  /\ state'[e] = "pending" => state[e] \in {"pending", "absent"}
           /\ state'[e] = "absent" => state[e] = "absent"
           /\ attempts'[e] # attempts[e] =>
                 state[e] = "pending" /\ state'[e] = "pending" /\ \E w \in Workers : Claim(w)
  <1>1. ASSUME NEW w \in Workers, Claim(w)
        PROVE  state' = state /\ (attempts'[e] # attempts[e] => state[e] = "pending")
    BY <1>1 DEF Claim, Due, TypeOK
  <1>2. ASSUME NEW w \in Workers, Step(w) \/ Crash(w)
        PROVE  attempts' = attempts /\ state'[e] \in {state[e], "published", "failed"}
    BY <1>2 DEF Step, Crash, Resolve, Publish, RunHooks, ReadRecipients, SendPush, Reject,
       MarkPublished, MarkPublishedUnacknowledged, SetPublished, GiveUp, Retry, rowVars, TypeOK
  <1>3. ASSUME NEW f \in Events, Enqueue(f) \/ Purge(f)
        PROVE  /\ attempts' = attempts
               /\ state'[e] = state[e] \/ (state[e] = "absent" /\ state'[e] = "pending")
                     \/ state'[e] = "gone"
    BY <1>3 DEF Enqueue, Purge, TypeOK
  <1>4. CASE Uninstall
    BY <1>4 DEF Uninstall, TypeOK
  <1>5. CASE UNCHANGED <<state, attempts>>
    BY <1>5
  <1>6. QED
    BY <1>1, <1>2, <1>3, <1>4, <1>5
       DEF Next, Environment, ToggleModule, ToggleDevice, Tick, vars, rowVars

\* A claim beyond the maximum is held by who made it; a crash is counted.
LEMMA AttemptsNext ==
    TypeOK /\ TypeOK' /\ StageInv /\ RestInv /\ AttemptsInv /\ [Next]_vars => AttemptsInv'
  <1> SUFFICES ASSUME TypeOK, TypeOK', StageInv, RestInv, AttemptsInv, [Next]_vars,
                      NEW e \in Events
               PROVE  /\ state'[e] = "absent" => attempts'[e] = 0
                      /\ state'[e] = "pending" =>
                            attempts'[e] <= MaxAttempts - 1 + crashes'
                                               + Cardinality(LastTries(e)')
    BY DEF AttemptsInv
  <1> DEFINE S == LastTries(e)
             T == LastTries(e)'
             a == attempts[e]
             b == attempts'[e]
  <1>1. S \in SUBSET Workers /\ T \in SUBSET Workers
    BY DEF LastTries
  <1>2. Cardinality(S) \in Nat /\ Cardinality(T) \in Nat
    BY <1>1, Countable
  <1>3. /\ a \in Nat /\ b \in Nat /\ crashes \in Nat /\ crashes' \in Nat
    BY DEF TypeOK
  <1>4. state'[e] = "absent" => b = 0
    BY PendingBefore DEF AttemptsInv
  <1>5. ASSUME state'[e] = "pending"
        PROVE  b <= MaxAttempts - 1 + crashes' + Cardinality(T)
    <2>1. a <= MaxAttempts - 1 + crashes + Cardinality(S)
      <3>1. state[e] \in {"pending", "absent"}
        BY <1>5, PendingBefore
      <3>2. state[e] = "absent" => a = 0
        BY DEF AttemptsInv
      <3>3. state[e] = "pending" => a <= MaxAttempts - 1 + crashes + Cardinality(S)
        BY DEF AttemptsInv
      <3> HIDE DEF a, S
      <3>4. QED
        BY <3>1, <3>2, <3>3, <1>2, <1>3
    <2>2. ASSUME NEW w \in Workers, Claim(w)
          PROVE  b <= MaxAttempts - 1 + crashes' + Cardinality(T)
      <3>1. PICK B \in SUBSET Due :
               /\ attempts' = [f \in Events |-> IF f \in B THEN NextAttempt(f) ELSE attempts[f]]
               /\ held' = [held EXCEPT ![w] =
                      [f \in Events |-> IF f \in B THEN NextAttempt(f) ELSE 0]]
        BY <2>2 DEF Claim
      <3>2. crashes' = crashes /\ held[w][e] = 0
        BY <2>2 DEF Claim, envVars, RestInv
      <3>3. \A v \in Workers \ {w} : held'[v] = held[v]
        BY <3>1 DEF TypeOK
      <3>4. w \notin S
        BY <3>2 DEF LastTries
      <3>5. CASE e \notin B
        <4>1. b = a /\ held'[w][e] = 0
          BY <3>1, <3>5 DEF TypeOK
        <4>2. T = S
          BY <3>2, <3>3, <4>1 DEF LastTries
        <4>3. QED
          BY <4>1, <4>2, <3>2, <2>1
      <3>6. CASE e \in B
        <4>1. b = a + 1 /\ held'[w][e] = a + 1
          BY <3>1, <3>6 DEF TypeOK
        <4>2. CASE a + 1 >= MaxAttempts
          <5>1. T = S \cup {w}
            BY <3>3, <4>1, <4>2 DEF LastTries
          <5>2. Cardinality(T) = Cardinality(S) + 1
            BY <5>1, <3>4, <1>1, OneMore
          <5> HIDE DEF a, b, S, T
          <5>3. QED
            BY <5>2, <4>1, <3>2, <2>1, <1>2, <1>3
        <4>3. CASE a + 1 < MaxAttempts
          <5> HIDE DEF a, b, S, T
          <5>1. QED
            BY <4>1, <4>3, <3>2, <1>2, <1>3
        <4>4. QED
          BY <4>2, <4>3, <1>3
      <3>7. QED
        BY <3>5, <3>6
    <2>3. ASSUME NEW w \in Workers, Crash(w)
          PROVE  b <= MaxAttempts - 1 + crashes' + Cardinality(T)
      <3>1. b = a /\ crashes' = crashes + 1
        BY <2>3 DEF Crash, rowVars
      <3>2. S \ {w} \subseteq T
        BY <2>3 DEF Crash, LastTries, TypeOK
      <3>3. Cardinality(S) <= Cardinality(T) + 1
        BY <3>2, <1>1, OneMore
      <3> HIDE DEF a, b, S, T
      <3>4. QED
        BY <3>1, <3>3, <2>1, <1>2, <1>3
    <2>4. CASE ~\E w \in Workers : Claim(w) \/ Crash(w)
      <3>1. b = a
        BY <2>4, PendingBefore
      <3>2. crashes' = crashes
        BY <2>4 DEF Next, Environment, Step, Enqueue, Purge, ToggleModule, Uninstall,
           ToggleDevice, Tick, Resolve, Publish, RunHooks, ReadRecipients, SendPush, Reject,
           MarkPublished, MarkPublishedUnacknowledged, GiveUp, Retry, vars, envVars
      <3>3. S \in SUBSET T
        BY <2>4, <1>5, LastTriesKept
      <3>4. Cardinality(S) <= Cardinality(T)
        BY <3>3, <1>1, Fewer
      <3> HIDE DEF a, b, S, T
      <3>5. QED
        BY <3>1, <3>2, <3>4, <2>1, <1>2, <1>3
    <2>5. QED
      BY <2>2, <2>3, <2>4
  <1>6. QED
    BY <1>4, <1>5

\* The bound holds while an event is pending, and nothing is claimed afterwards.
LEMMA BoundNext ==
    ASSUME TypeOK, TypeOK', AttemptsInv', AttemptsAreBounded, [Next]_vars
    PROVE  AttemptsAreBounded'
  <1> SUFFICES ASSUME NEW e \in Events
               PROVE  attempts'[e] <= MaxAttempts + crashes' + Cardinality(Workers) - 1
    BY DEF AttemptsAreBounded
  <1>1. /\ attempts[e] \in Nat /\ attempts'[e] \in Nat /\ crashes \in Nat /\ crashes' \in Nat
    BY DEF TypeOK
  <1>2. /\ Cardinality(LastTries(e)') \in Nat /\ Cardinality(Workers) \in Nat
        /\ Cardinality(LastTries(e)') <= Cardinality(Workers)
    <2>1. LastTries(e)' \in SUBSET Workers /\ Workers \in SUBSET Workers
      BY DEF LastTries
    <2>2. QED
      BY <2>1, Countable
  <1>3. crashes <= crashes'
    <2>1. crashes' \in {crashes, crashes + 1}
      BY DEF Next, Environment, Step, Enqueue, Purge, ToggleModule, Uninstall,
         ToggleDevice, Tick, Claim, Resolve, Publish, RunHooks, ReadRecipients, SendPush, Reject,
         MarkPublished, MarkPublishedUnacknowledged, GiveUp, Retry, Crash, vars, envVars
    <2>2. QED
      BY <2>1, <1>1
  <1>4. CASE state'[e] = "pending"
    <2>1. attempts'[e] <= MaxAttempts - 1 + crashes' + Cardinality(LastTries(e)')
      BY <1>4 DEF AttemptsInv
    <2>2. QED
      BY <2>1, <1>1, <1>2
  <1>5. CASE state'[e] # "pending"
    <2>1. attempts'[e] = attempts[e]
      BY <1>5, PendingBefore
    <2>2. attempts[e] <= MaxAttempts + crashes + Cardinality(Workers) - 1
      BY DEF AttemptsAreBounded
    <2>3. QED
      BY <2>1, <2>2, <1>1, <1>2, <1>3
  <1>6. QED
    BY <1>4, <1>5

-----------------------------------------------------------------------------
\* The inductive invariant of publishPending holds in every reachable state.
THEOREM Invariance == Spec => []IndInv
  <1>1. Init => IndInv
    BY DEF Init, IndInv, TypeOK, RowStates, Stages, NoEvent, StageInv, WorkerInv,
           ClaimsAreDistinct, PublishedWasDelivered, FailedIsExhausted
  <1>2. IndInv /\ [Next]_vars => IndInv'
    BY TypeNext, StageNext, DistinctNext, DeliveredNext, ExhaustedNext DEF IndInv
  <1>3. QED
    BY <1>1, <1>2, PTL DEF Spec

\* Every variable of the dispatcher keeps its type, with no bound on attempts.
THEOREM TypeCorrectness == Spec => []TypeOK
  BY Invariance, PTL DEF IndInv

\* However dispatchers overlap, a row reads "published" only after a broadcast (and an
\* accepted or waived push, if it asks for one).
THEOREM PublishedIsDelivered == Spec => []PublishedWasDelivered
  BY Invariance, PTL DEF IndInv

\* However dispatchers overlap or crash, a row reads "failed" only after MaxAttempts claims.
THEOREM FailedHasExhausted == Spec => []FailedIsExhausted
  BY Invariance, PTL DEF IndInv

\* The attempts number returned by the claim identifies the claim.
THEOREM ClaimNumbersAreUnique == Spec => []ClaimsAreDistinct
  BY Invariance, PTL DEF IndInv

\* The counts of dispatchers that may still record a hook, and of last attempts that are
\* not settled, hold in every reachable state.
THEOREM CountsHold == Spec => []CountInv
  <1>1. Init => CountInv
    <2> SUFFICES ASSUME Init PROVE CountInv
      OBVIOUS
    <2>1. RestInv
      BY DEF Init, RestInv
    <2>2. Workers \in SUBSET Workers
      OBVIOUS
    <2>3. Cardinality(Workers) \in Nat
      BY <2>2, Countable
    <2>4. HookInv
      <3>1. ASSUME NEW e \in Events, NEW m \in HookModules
            PROVE  hookApplied[e][m] + Cardinality(MayRecord(e, m)) <= Cardinality(Workers)
        <4>1. hookApplied[e][m] = 0
          BY DEF Init
        <4>2. MayRecord(e, m) \in SUBSET Workers
          BY DEF MayRecord
        <4>3. QED
          BY <2>3, <4>1, <4>2, Countable
      <3>2. QED
        BY <3>1 DEF HookInv
    <2>5. AttemptsInv
      BY DEF Init, AttemptsInv
    <2>6. AttemptsAreBounded
      BY <2>3 DEF Init, AttemptsAreBounded
    <2>7. QED
      BY <2>1, <2>4, <2>5, <2>6 DEF CountInv
  <1>2. IndInv /\ IndInv' /\ CountInv /\ [Next]_vars => CountInv'
    BY RestNext, HookNext, AttemptsNext, BoundNext DEF CountInv, IndInv
  <1>3. QED
    BY <1>1, <1>2, Invariance, PTL DEF Spec

\* However many dispatchers hold an event together, each records a module once at most.
THEOREM HooksAreRecordedOnce == Spec => []HooksRecordedOnce
  <1>1. IndInv /\ CountInv => HooksRecordedOnce
    <2> SUFFICES ASSUME IndInv, CountInv, NEW e \in Events, NEW m \in HookModules
                 PROVE  hookApplied[e][m] <= Cardinality(Workers)
      BY DEF HooksRecordedOnce
    <2>1. MayRecord(e, m) \in SUBSET Workers
      BY DEF MayRecord
    <2>2. Cardinality(MayRecord(e, m)) \in Nat /\ Cardinality(Workers) \in Nat
      <3>1. Workers \in SUBSET Workers
        OBVIOUS
      <3>2. QED
        BY <2>1, <3>1, Countable
    <2>3. hookApplied[e][m] \in Nat
      BY DEF IndInv, TypeOK
    <2>4. hookApplied[e][m] + Cardinality(MayRecord(e, m)) <= Cardinality(Workers)
      BY DEF CountInv, HookInv
    <2>5. QED
      BY <2>2, <2>3, <2>4
  <1>2. QED
    BY <1>1, Invariance, CountsHold, PTL

\* An event is tried more than MaxAttempts times only by dispatchers that died and by
\* dispatchers that held it together, each of them once.
THEOREM AttemptsStayBounded == Spec => []AttemptsAreBounded
  BY CountsHold, PTL DEF CountInv

\* No step takes a verdict back: a settled row is never claimed or scheduled again.
THEOREM VerdictsAreKept == Spec => VerdictIsKept
  <1> DEFINE Kept == \A e \in Events : state[e] \in {"published", "failed"} =>
                        /\ state'[e] \in {"published", "failed", "gone"}
                        /\ attempts'[e] = attempts[e]
  <1>1. TypeOK /\ [Next]_vars => [Kept]_vars
    <2> SUFFICES ASSUME TypeOK, [Next]_vars PROVE Kept
      OBVIOUS
    <2>1. ASSUME NEW w \in Workers, Claim(w) PROVE Kept
      BY <2>1 DEF Claim, Due, TypeOK
    <2>2. ASSUME NEW w \in Workers, SetPublished(cur[w]), UNCHANGED attempts PROVE Kept
      BY <2>2 DEF SetPublished, TypeOK
    <2>3. ASSUME NEW w \in Workers, GiveUp(w) PROVE Kept
      BY <2>3 DEF GiveUp, TypeOK
    <2>4. ASSUME NEW e \in Events, Enqueue(e) \/ Purge(e) PROVE Kept
      BY <2>4 DEF Enqueue, Purge, TypeOK
    <2>5. CASE Uninstall
      BY <2>5 DEF Uninstall, TypeOK
    <2>6. CASE UNCHANGED <<state, attempts>>
      BY <2>6
    <2>7. QED
      BY <2>1, <2>2, <2>3, <2>4, <2>5, <2>6
         DEF Next, Environment, Step, ToggleModule, ToggleDevice, Tick, Resolve, Publish,
             RunHooks, ReadRecipients, SendPush, Reject, Crash, MarkPublished,
             MarkPublishedUnacknowledged, Retry, vars, rowVars
  <1>2. QED
    BY <1>1, TypeCorrectness, PTL DEF Spec, VerdictIsKept

-----------------------------------------------------------------------------
\* The dispatcher implements the contract: every step of it is a step of the contract
\* or leaves the contract's variables alone.
LEMMA StepImplements ==
    IndInv /\ IndInv' /\ [Next]_vars => [Contract!Next]_(Contract!vars)
  <1> SUFFICES ASSUME IndInv, IndInv', [Next]_vars, ~UNCHANGED Contract!vars
               PROVE  Contract!Next
    OBVIOUS
  <1> DEFINE Delivered == {e \in Events : broadcast[e] # {}}
  <1>1. ASSUME NEW e \in Events, Enqueue(e) PROVE Contract!Submit(e)
    BY <1>1 DEF Enqueue, Contract!Submit, histVars
  <1>2. ASSUME NEW e \in Events, Purge(e) PROVE Contract!Remove({e})
    BY <1>2 DEF Purge, Contract!Remove, IndInv, TypeOK, histVars
  <1>3. CASE Uninstall
    <2> DEFINE R == {e \in ModuleEvents : Present(e)}
    <2>1. R \in SUBSET Events
      OBVIOUS
    <2>2. Contract!Remove(R)
      BY <1>3 DEF Uninstall, Contract!Remove, Present, histVars
    <2>3. QED
      BY <2>1, <2>2 DEF Contract!Next
  <1>4. ASSUME NEW w \in Workers, Claim(w)
        PROVE  \E S \in SUBSET Events : Contract!Try(S)
    <2>1. PICK B \in SUBSET Due :
            attempts' = [e \in Events |-> IF e \in B THEN attempts[e] + 1 ELSE attempts[e]]
      BY <1>4 DEF Claim
    <2>2. B \in SUBSET Events /\ \A e \in B : state[e] = "pending"
      BY <2>1 DEF Due
    <2>3. Contract!Try(B)
      BY <1>4, <2>1, <2>2 DEF Claim, Contract!Try, histVars
    <2>4. QED
      BY <2>2, <2>3
  <1>5. ASSUME NEW w \in Workers, Publish(w) PROVE \E e \in Events : Contract!Deliver(e)
    <2>1. stage[w] = "publish"
      BY <1>5 DEF Publish
    <2>2. cur[w] \in Events /\ held[w][cur[w]] \in Nat \ {0}
      BY <2>1, Busy DEF IndInv
    <2>3. attempts[cur[w]] > 0
      BY <2>2 DEF IndInv, TypeOK, StageInv, WorkerInv
    <2>4. Delivered' = Delivered \cup {cur[w]}
      <3>1. broadcast' = [broadcast EXCEPT ![cur[w]] = @ \cup {held[w][cur[w]]}]
        BY <1>5 DEF Publish
      <3>2. broadcast \in [Events -> SUBSET Nat]
        BY DEF IndInv, TypeOK
      <3>3. \A e \in Events : broadcast'[e] # {} <=> broadcast[e] # {} \/ e = cur[w]
        BY <3>1, <3>2
      <3>4. QED
        BY <2>2, <3>3
    <2>5. PICK e \in Events : e = cur[w]
      BY <2>2
    <2>6. Contract!Deliver(e)
      BY <1>5, <2>3, <2>4, <2>5 DEF Publish, Contract!Deliver, rowVars
    <2>7. QED
      BY <2>6
  <1>6. ASSUME NEW w \in Workers, SendPush(w), pushed' # pushed
        PROVE  cur[w] \in Events /\ Contract!Accept(cur[w])
    <2>1. stage[w] = "send"
      BY <1>6 DEF SendPush
    <2>2. cur[w] \in Events /\ broadcast[cur[w]] # {}
      BY <2>1, Busy DEF IndInv, StageInv, WorkerInv
    <2>3. pushed' = pushed \cup {cur[w]}
      BY <1>6 DEF SendPush
    <2>4. QED
      BY <1>6, <2>2, <2>3 DEF SendPush, Contract!Accept, rowVars
  <1>7. ASSUME NEW w \in Workers, MarkPublished(w) \/ MarkPublishedUnacknowledged(w),
               Present(cur[w])
        PROVE  cur[w] \in Events /\ Contract!Succeed(cur[w])
    <2>1. stage[w] = "mark" /\ SetPublished(cur[w])
      BY <1>7 DEF MarkPublished, MarkPublishedUnacknowledged
    <2>2. /\ cur[w] \in Events /\ broadcast[cur[w]] # {}
          /\ cur[w] \in PushEvents => cur[w] \in pushed \cup waived
      BY <2>1, Busy DEF IndInv, StageInv, WorkerInv
    <2>3. UNCHANGED <<attempts, broadcast, pushed, waived>>
      BY <1>7 DEF MarkPublished, MarkPublishedUnacknowledged, histVars
    <2>4. QED
      BY <1>7, <2>1, <2>2, <2>3 DEF SetPublished, Present, Contract!Succeed, Contract!Decide
  <1>8. ASSUME NEW w \in Workers, GiveUp(w), Present(cur[w])
        PROVE  cur[w] \in Events /\ Contract!Abandon(cur[w])
    <2>1. stage[w] = "fail"
      BY <1>8 DEF GiveUp
    <2>2. cur[w] \in Events /\ held[w][cur[w]] \in Nat \ {0}
      BY <2>1, Busy DEF IndInv
    <2>3. attempts[cur[w]] >= MaxAttempts
      BY <1>8, <2>2 DEF GiveUp, IndInv, TypeOK, StageInv, WorkerInv
    <2>4. QED
      BY <1>8, <2>2, <2>3 DEF GiveUp, Present, Contract!Abandon, Contract!Decide, histVars
  <1>9. ASSUME NEW w \in Workers, RunHooks(w), waived' # waived
        PROVE  cur[w] \in Events /\ Contract!Waive(cur[w])
    <2>1. stage[w] = "hooks" /\ waived' = waived \cup {cur[w]}
      BY <1>9 DEF RunHooks
    <2>2. cur[w] \in Events /\ broadcast[cur[w]] # {}
      BY <2>1, Busy DEF IndInv, StageInv, WorkerInv
    <2>3. QED
      BY <1>9, <2>1, <2>2 DEF RunHooks, Contract!Waive
  <1>10. CASE UNCHANGED <<state, attempts, broadcast, pushed, waived>>
    BY <1>10 DEF Contract!vars
  <1>11. \/ \E e \in Events : Enqueue(e) \/ Purge(e)
         \/ Uninstall
         \/ \E w \in Workers : Claim(w) \/ Publish(w)
         \/ \E w \in Workers : SendPush(w) /\ pushed' # pushed
         \/ \E w \in Workers : RunHooks(w) /\ waived' # waived
         \/ \E w \in Workers : /\ MarkPublished(w) \/ MarkPublishedUnacknowledged(w)
                              /\ Present(cur[w])
         \/ \E w \in Workers : GiveUp(w) /\ Present(cur[w])
         \/ UNCHANGED <<state, attempts, broadcast, pushed, waived>>
    <2>1. ASSUME NEW w \in Workers, Step(w)
          PROVE  \/ Publish(w)
                 \/ SendPush(w) /\ pushed' # pushed
                 \/ RunHooks(w) /\ waived' # waived
                 \/ (MarkPublished(w) \/ MarkPublishedUnacknowledged(w)) /\ Present(cur[w])
                 \/ GiveUp(w) /\ Present(cur[w])
                 \/ UNCHANGED <<state, attempts, broadcast, pushed, waived>>
      BY <2>1 DEF Step, Resolve, RunHooks, ReadRecipients, SendPush, Reject, MarkPublished,
                  MarkPublishedUnacknowledged, SetPublished, GiveUp, Retry, rowVars, histVars
    <2>2. ASSUME NEW w \in Workers, Crash(w)
          PROVE  UNCHANGED <<state, attempts, broadcast, pushed, waived>>
      BY <2>2 DEF Crash, rowVars, histVars
    <2>3. ASSUME Tick \/ ToggleModule \/ \E t \in Tokens : ToggleDevice(t)
          PROVE  UNCHANGED <<state, attempts, broadcast, pushed, waived>>
      BY <2>3 DEF Tick, ToggleModule, ToggleDevice, rowVars, histVars
    <2>4. CASE UNCHANGED vars
      BY <2>4 DEF vars, rowVars, histVars
    <2>5. QED
      BY <2>1, <2>2, <2>3, <2>4 DEF Next, Environment
  <1>12. QED
    <2>1. CASE \E e \in Events : Enqueue(e) \/ Purge(e)
      <3>1. \A e \in Events : {e} \in SUBSET Events
        OBVIOUS
      <3>2. QED
        BY <2>1, <1>1, <1>2, <3>1 DEF Contract!Next
    <2>2. CASE \E w \in Workers : Claim(w) \/ Publish(w)
      <3>1. CASE \E w \in Workers : Claim(w)
        BY <3>1, <1>4 DEF Contract!Next
      <3>2. CASE \E w \in Workers : Publish(w)
        BY <3>2, <1>5 DEF Contract!Next
      <3>3. QED
        BY <2>2, <3>1, <3>2
    <2>3. CASE \E w \in Workers : SendPush(w) /\ pushed' # pushed
      BY <2>3, <1>6 DEF Contract!Next
    <2>4. CASE \E w \in Workers : /\ MarkPublished(w) \/ MarkPublishedUnacknowledged(w)
                                 /\ Present(cur[w])
      BY <2>4, <1>7 DEF Contract!Next
    <2>5. CASE \E w \in Workers : GiveUp(w) /\ Present(cur[w])
      BY <2>5, <1>8 DEF Contract!Next
    <2>6. CASE \E w \in Workers : RunHooks(w) /\ waived' # waived
      BY <2>6, <1>9 DEF Contract!Next
    <2>7. QED
      BY <1>3, <1>10, <1>11, <2>1, <2>2, <2>3, <2>4, <2>5, <2>6

\* publishPending, with its claims, leases and crashes, implements the at-least-once
\* contract of OutboxContract: every step is one of its steps or a stutter.
THEOREM Implementation == Spec => ImplementsContract
  <1>1. Init => Contract!Init
    BY DEF Init, Contract!Init
  <1>2. QED
    BY <1>1, Invariance, StepImplements, PTL DEF Spec, ImplementsContract, Contract!Spec

-----------------------------------------------------------------------------
(* The runs of the jobs, of which publishPending is one (Maintenance).  The *)
(* theorems hold for any number of runners and jobs, any lease and any      *)
(* cooldown, also when jobs outlast their lease.                            *)

USE MaintenanceAssumption, RunnerAssumption

\* The rest of a request's jobs is a list of jobs, and empty only once it is answered.
LEMMA NextJobKeeps ==
    ASSUME RunsTypeOK, TodoInv, NEW r \in Runners, at[r] # "idle", NextJob(r)
    PROVE  /\ at' \in [Runners -> RunStages]
           /\ todo' \in [Runners -> Seq(Jobs)]
           /\ overran' \subseteq Runners
           /\ TodoInv'
  <1>1. todo[r] \in Seq(Jobs) /\ todo[r] # <<>>
    BY DEF RunsTypeOK, TodoInv
  <1>2. Tail(todo[r]) \in Seq(Jobs) /\ Len(Tail(todo[r])) = Len(todo[r]) - 1
    BY <1>1, HeadTailProperties
  <1>3. Len(todo[r]) > 1 => Tail(todo[r]) # <<>>
    <2>1. Len(todo[r]) \in Nat /\ Len(<<>>) = 0
      BY <1>1, LenProperties, EmptySeq
    <2>2. Tail(todo[r]) = <<>> => Len(Tail(todo[r])) = 0
      BY <2>1, Zenon
    <2>3. Len(todo[r]) > 1 => Len(Tail(todo[r])) # 0
      <3> DEFINE n == Len(todo[r])
                 m == Len(Tail(todo[r]))
      <3>1. n \in Nat /\ m = n - 1
        BY <1>2, <2>1
      <3> HIDE DEF n, m
      <3>2. n > 1 => m # 0
        BY <3>1
      <3> QED BY <3>2 DEF n, m
    <2> QED BY <2>2, <2>3, Zenon
  <1>4. /\ at' \in [Runners -> RunStages] /\ todo' \in [Runners -> Seq(Jobs)]
        /\ overran' \subseteq Runners
    BY <1>2 DEF RunsTypeOK, NextJob, RunStages
  <1>5. TodoInv'
    BY <1>3, <1>4 DEF RunsTypeOK, TodoInv, NextJob
  <1> QED BY <1>4, <1>5

\* The job of a request under way is one of the jobs.
LEMMA JobType ==
    ASSUME RunsTypeOK, TodoInv, NEW r \in Runners, at[r] # "idle"
    PROVE  Job(r) \in Jobs
  BY DEF RunsTypeOK, TodoInv, Job

\* Ticks only make ages grow and leases shrink, within their bounds.
LEMMA TickBounds ==
    ASSUME RunsTypeOK, NEW j \in Jobs
    PROVE  /\ Left(leaseLeft[j]) \in 0..RunLeaseTicks
           /\ leaseLeft[j] > 1 => Left(leaseLeft[j]) > 0
           /\ Older(finishedAge[j], OldAge) \in 0..OldAge
           /\ Older(executedAge[j], Spaced) \in 0..Spaced
           /\ Older(finishedAge[j], OldAge) <= finishedAge[j] + 1
           /\ Older(executedAge[j], Spaced) < Spaced
                => Older(executedAge[j], Spaced) = executedAge[j] + 1
  BY DEF RunsTypeOK, Left, Older, OldAge, Spaced

\* Every statement of a request, every crash and every tick keeps every variable typed
\* and every request under way with a job.
LEMMA RunnersTypeNext ==
    RunsTypeOK /\ TodoInv /\ [RunsNext]_runVars => RunsTypeOK' /\ TodoInv'
  <1> SUFFICES ASSUME RunsTypeOK, TodoInv, [RunsNext]_runVars
               PROVE  RunsTypeOK' /\ TodoInv'
    OBVIOUS
  <1>1. CASE UNCHANGED runVars
    BY <1>1 DEF runVars, RunsTypeOK, TodoInv
  <1>2. CASE RunsTick
    <2>1. RunsTypeOK'
      BY <1>2, TickBounds DEF RunsTick, RunsTypeOK
    <2>2. TodoInv'
      BY <1>2 DEF RunsTick, TodoInv
    <2> QED BY <2>1, <2>2
  <1>3. ASSUME NEW r \in Runners, Request(r) PROVE RunsTypeOK' /\ TodoInv'
    <2>1. PICK jobs \in Requests : todo' = [todo EXCEPT ![r] = jobs]
      BY <1>3 DEF Request
    <2>2. jobs \in Seq(Jobs) /\ jobs # <<>>
      BY <2>1
    <2>3. RunsTypeOK'
      BY <1>3, <2>1, <2>2 DEF Request, RunsTypeOK, RunStages
    <2>4. TodoInv'
      BY <1>3, <2>1, <2>2 DEF Request, RunsTypeOK, TodoInv
    <2> QED BY <2>3, <2>4
  <1>4. ASSUME NEW r \in Runners, RunnerDies(r) PROVE RunsTypeOK' /\ TodoInv'
    <2>1. Job(r) \in Jobs
      BY <1>4, JobType DEF RunnerDies
    <2>2. holder' \in [Jobs -> Runners \cup {NoRun, DeadRun}]
      BY <1>4, <2>1 DEF RunnerDies, RunsTypeOK
    <2>3. RunsTypeOK'
      BY <1>4, <2>2 DEF RunnerDies, RunsTypeOK, RunStages
    <2>4. TodoInv'
      BY <1>4 DEF RunnerDies, RunsTypeOK, TodoInv
    <2> QED BY <2>3, <2>4
  <1>5. ASSUME NEW r \in Runners, Statement(r) PROVE RunsTypeOK' /\ TodoInv'
    <2>1. at[r] # "idle" /\ Job(r) \in Jobs
      BY <1>5, JobType DEF Statement, ExpireStale, InsertRun, SkipLeased,
                           CheckCooldown, FinishSkip, FinishJob
    <2>2. CASE ExpireStale(r)
      BY <2>1, <2>2 DEF ExpireStale, RunsTypeOK, TodoInv, RunStages
    <2>3. CASE InsertRun(r)
      BY <2>1, <2>3 DEF InsertRun, RunsTypeOK, TodoInv, RunStages
    <2>4. CASE SkipLeased(r)
      <3>1. /\ at' \in [Runners -> RunStages] /\ todo' \in [Runners -> Seq(Jobs)]
            /\ overran' \subseteq Runners /\ TodoInv'
        BY <2>1, <2>4, NextJobKeeps DEF SkipLeased
      <3> QED BY <2>4, <3>1 DEF SkipLeased, RunsTypeOK
    <2>5. CASE CheckCooldown(r)
      BY <2>1, <2>5 DEF CheckCooldown, RunsTypeOK, TodoInv, RunStages
    <2>6. CASE FinishSkip(r) \/ FinishJob(r)
      <3>1. FinishRun(r)
        BY <2>6 DEF FinishSkip, FinishJob
      <3>2. /\ at' \in [Runners -> RunStages] /\ todo' \in [Runners -> Seq(Jobs)]
            /\ overran' \subseteq Runners /\ TodoInv'
        BY <2>1, <3>1, NextJobKeeps DEF FinishRun
      <3>3. holder' \in [Jobs -> Runners \cup {NoRun, DeadRun}]
        BY <2>1, <3>1 DEF FinishRun, RunsTypeOK
      <3>4. finishedAge' \in [Jobs -> 0..OldAge]
        <4>1. PICK d \in 0..SecondTicks - 1 : finishedAge' = [finishedAge EXCEPT ![Job(r)] = d]
          BY <3>1 DEF FinishRun
        <4>2. d \in 0..OldAge
          BY DEF OldAge
        <4> QED BY <2>1, <4>1, <4>2 DEF RunsTypeOK
      <3>5. executedAge' \in [Jobs -> 0..Spaced]
        <4>1. 0 \in 0..Spaced
          BY DEF Spaced
        <4> QED BY <2>1, <2>6, <4>1 DEF FinishSkip, FinishJob, RunsTypeOK
      <3> QED BY <3>1, <3>2, <3>3, <3>4, <3>5 DEF FinishRun, RunsTypeOK
    <2> QED BY <1>5, <2>2, <2>3, <2>4, <2>5, <2>6 DEF Statement
  <1> QED BY <1>1, <1>2, <1>3, <1>4, <1>5 DEF RunsNext

\* finishRun dates every end of a run, executed or skipped; an execution ends with one.
LEMMA AgesNext ==
    RunsTypeOK /\ TodoInv /\ AgesInv /\ [RunsNext]_runVars => AgesInv'
  <1> SUFFICES ASSUME RunsTypeOK, TodoInv, AgesInv, [RunsNext]_runVars
               PROVE  AgesInv'
    OBVIOUS
  <1>1. CASE RunsTick
    <2> SUFFICES ASSUME NEW j \in Jobs, executedAge'[j] < Spaced
                 PROVE  finishedAge'[j] <= executedAge'[j] + SecondTicks - 1
      BY DEF AgesInv
    <2>1. /\ finishedAge'[j] = Older(finishedAge[j], OldAge)
          /\ executedAge'[j] = Older(executedAge[j], Spaced)
      BY <1>1 DEF RunsTick
    <2>2. finishedAge[j] \in Nat /\ executedAge[j] \in Nat /\ Spaced \in Nat
      BY DEF RunsTypeOK, Spaced
    <2>3. finishedAge'[j] <= finishedAge[j] + 1 /\ executedAge'[j] = executedAge[j] + 1
      BY <2>1, TickBounds
    <2>4. executedAge[j] < Spaced
      BY <2>2, <2>3
    <2>5. finishedAge[j] <= executedAge[j] + SecondTicks - 1
      BY <2>4 DEF AgesInv
    <2>6. finishedAge'[j] \in Nat
      BY <2>1, TickBounds DEF OldAge
    <2> QED BY <2>2, <2>3, <2>5, <2>6
  <1>2. ASSUME NEW r \in Runners, FinishSkip(r) \/ FinishJob(r) PROVE AgesInv'
    <2>1. Job(r) \in Jobs
      BY <1>2, JobType DEF FinishSkip, FinishJob
    <2>2. FinishRun(r) /\ (executedAge' = executedAge
                            \/ executedAge' = [executedAge EXCEPT ![Job(r)] = 0])
      BY <1>2 DEF FinishSkip, FinishJob
    <2> QED BY <2>1, <2>2 DEF FinishRun, AgesInv, RunsTypeOK
  <1>3. CASE UNCHANGED <<finishedAge, executedAge>>
    BY <1>3 DEF AgesInv
  <1> QED BY <1>1, <1>2, <1>3 DEF RunsNext, runVars, Request, Statement,
                                  ExpireStale, InsertRun, SkipLeased,
                                  CheckCooldown, RunnerDies

\* No statement of another runner, and no tick before the last one of the lease, takes the
\* running row away from a runner at work.
LEMMA RunLeaseNext ==
    RunsTypeOK /\ TodoInv /\ LeaseInv /\ [RunsNext]_runVars => LeaseInv'
  <1> SUFFICES ASSUME RunsTypeOK, TodoInv, LeaseInv, [RunsNext]_runVars,
                      NEW s \in Runners, s \notin overran', Working(s)'
               PROVE  (holder[Job(s)] = s /\ leaseLeft[Job(s)] > 0)'
    BY DEF LeaseInv
  <1>1. CASE UNCHANGED runVars
    BY <1>1 DEF runVars, LeaseInv, Working, Job
  <1>2. CASE RunsTick
    <2>1. Working(s) /\ Job(s)' = Job(s) /\ holder' = holder
      BY <1>2 DEF RunsTick, Working, Job
    <2>2. s \notin overran /\ ~(leaseLeft[Job(s)] <= 1) /\ Job(s) \in Jobs
      BY <1>2, <2>1, JobType DEF RunsTick, Working
    <2>3. holder[Job(s)] = s /\ leaseLeft[Job(s)] > 1
      BY <2>1, <2>2 DEF LeaseInv, RunsTypeOK
    <2> QED BY <1>2, <2>1, <2>2, <2>3, TickBounds DEF RunsTick
  <1>3. ASSUME NEW r \in Runners, r # s, Request(r) \/ Statement(r) \/ RunnerDies(r)
        PROVE  (holder[Job(s)] = s /\ leaseLeft[Job(s)] > 0)'
    <2>1. at'[s] = at[s] /\ todo'[s] = todo[s] /\ s \notin overran
      BY <1>3 DEF Request, Statement, ExpireStale, InsertRun,
                  SkipLeased, CheckCooldown, FinishSkip, FinishJob,
                  FinishRun, NextJob, RunnerDies, RunsTypeOK
    <2>2. /\ Working(s) /\ Job(s)' = Job(s) /\ Job(s) \in Jobs
          /\ holder[Job(s)] = s /\ leaseLeft[Job(s)] > 0
      BY <2>1, JobType DEF Working, Job, LeaseInv
    <2>3. CASE Request(r) \/ RunnerDies(r)
      BY <1>3, <2>2, <2>3 DEF Request, RunnerDies, RunsTypeOK
    <2>4. CASE ExpireStale(r)
      BY <2>2, <2>4 DEF ExpireStale, Stale, RunsTypeOK
    <2>5. CASE InsertRun(r)
      BY <2>2, <2>5 DEF InsertRun, RunsTypeOK
    <2>6. CASE SkipLeased(r) \/ CheckCooldown(r)
      BY <2>2, <2>6 DEF SkipLeased, CheckCooldown
    <2>7. CASE FinishSkip(r) \/ FinishJob(r)
      BY <1>3, <2>2, <2>7 DEF FinishSkip, FinishJob, FinishRun, RunsTypeOK
    <2> QED BY <1>3, <2>3, <2>4, <2>5, <2>6, <2>7 DEF Statement
  <1>4. CASE Request(s) \/ Statement(s) \/ RunnerDies(s)
    <2>1. CASE InsertRun(s)
      <3>1. at[s] # "idle" /\ Job(s)' = Job(s)
        BY <2>1 DEF InsertRun, Job
      <3> QED BY <2>1, <3>1, JobType DEF InsertRun, RunsTypeOK
    <2>2. CASE CheckCooldown(s)
      BY <2>2 DEF CheckCooldown, Working, LeaseInv, Job
    <2>3. CASE ~InsertRun(s) /\ ~CheckCooldown(s)
      BY <1>4, <2>3 DEF Request, Statement, ExpireStale, SkipLeased,
                        FinishSkip, FinishJob, FinishRun, NextJob,
                        RunnerDies, Working, RunsTypeOK
    <2> QED BY <2>1, <2>2, <2>3
  <1> QED BY <1>1, <1>2, <1>3, <1>4 DEF RunsNext

-----------------------------------------------------------------------------
\* The inductive invariant of runMaintenance holds in every reachable state.
THEOREM RunsInvariance == RunsSpec => []RunsInv
  <1>1. RunsInit => RunsInv
    BY DEF RunsInit, RunsInv, RunsTypeOK,
           TodoInv, AgesInv, LeaseInv, RunStages, Working, OldAge, Spaced
  <1>2. RunsInv /\ [RunsNext]_runVars => RunsInv'
    BY RunnersTypeNext, AgesNext, RunLeaseNext DEF RunsInv
  <1> QED BY <1>1, <1>2, PTL DEF RunsSpec

\* Runners, rows and ages keep their types.
THEOREM RunsTypeCorrectness == RunsSpec => []RunsTypeOK
  BY RunsInvariance, PTL DEF RunsInv

\* A job is executed twice at the same time only when one of the executions outlasts its
\* lease, however many requests ask for it and whoever dies: acquireLease excludes.
THEOREM Exclusion == RunsSpec => []OneRunnerPerJob
  <1>1. RunsInv => OneRunnerPerJob
    BY DEF RunsInv, LeaseInv, OneRunnerPerJob, Working
  <1> QED BY <1>1, RunsInvariance, PTL

\* An execution of a job starts a cooldown or more after the last one finished, less a
\* part of a second and what the clocks differ, also when jobs outlast their leases and
\* runners overlap.
THEOREM Spacing == RunsSpec => ExecutionsAreSpaced
  <1>1. RunsInv /\ [RunsNext]_runVars =>
            [\A r \in Runners : at[r] # "run" /\ at'[r] = "run" =>
                executedAge[Job(r)] >= Spaced]_runVars
    <2> SUFFICES ASSUME RunsInv, RunsNext, NEW s \in Runners, at[s] # "run", at'[s] = "run"
                 PROVE  executedAge[Job(s)] >= Spaced
      OBVIOUS
    <2>1. CheckCooldown(s)
      BY DEF RunsInv, RunsTypeOK, RunsNext, Request, Statement,
             ExpireStale, InsertRun, SkipLeased, CheckCooldown,
             FinishSkip, FinishJob, FinishRun, NextJob, RunnerDies,
             RunsTick
    <2>2. Job(s) \in Jobs /\ \E skew \in -MaxSkew..MaxSkew : CooledDown(Job(s), skew)
      BY <2>1, JobType DEF CheckCooldown, RunsInv, RunsTypeOK
    <2>3. finishedAge[Job(s)] >= CooldownTicks - MaxSkew
      BY <2>2 DEF CooledDown, RunsInv, RunsTypeOK, OldAge
    <2>4. executedAge[Job(s)] \in 0..Spaced /\ finishedAge[Job(s)] \in Nat
      BY <2>2 DEF RunsInv, RunsTypeOK, OldAge
    <2>5. executedAge[Job(s)] < Spaced
            => finishedAge[Job(s)] <= executedAge[Job(s)] + SecondTicks - 1
      BY <2>2 DEF RunsInv, AgesInv
    <2> QED BY <2>3, <2>4, <2>5 DEF Spaced
  <1> QED BY <1>1, RunsInvariance, PTL DEF RunsSpec, ExecutionsAreSpaced
=============================================================================
