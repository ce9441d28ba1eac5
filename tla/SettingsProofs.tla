--------------------------- MODULE SettingsProofs ---------------------------
(***************************************************************************)
(* Theorems about the writes of settings and currencies, for any number of *)
(* requests, any batches the schemas accept and any size of the pool.  The *)
(* code checks what it has read without locks; the invariant says what     *)
(* becomes of that until the commit: all of it while nobody else commits   *)
(* (ReadInv), and the presence of the Firebase keys in any case (KeysInv). *)
(***************************************************************************)
EXTENDS Settings, FiniteSetTheorems, TLAPS

\* A row is a setting or a currency, never both.
LEMMA RowKinds == \A c \in Currencies : c \notin Keys
  BY SettingsAssumption

\* What a request under way writes is of the kind of its route, and of the row's type.
LEMMA Requested ==
    ASSUME NEW u \in Batches \cup CurrencyUpdates
    PROVE  /\ Len(u) \in Nat \ {0} /\ DOMAIN u = 1..Len(u)
           /\ \A n \in DOMAIN u : u[n].row \in Rows /\ ValueOK(u[n].row, u[n].value)
           /\ u \in Batches => \A n \in DOMAIN u : u[n].row \in Keys /\ u[n].value # NoProject
           /\ u \in CurrencyUpdates =>
                Len(u) = 1 /\ u[1].row \in Currencies /\ u[1].value \in BOOLEAN
  <1>1. ASSUME u \in Batches
        PROVE  /\ Len(u) \in Nat \ {0} /\ DOMAIN u = 1..Len(u)
               /\ \A n \in DOMAIN u :
                    /\ u[n].row \in Keys /\ ValueOK(u[n].row, u[n].value)
                    /\ u[n].value # NoProject
    BY <1>1, BatchAssumption
  <1>2. ASSUME u \in CurrencyUpdates
        PROVE  /\ Len(u) = 1 /\ DOMAIN u = {1}
               /\ u[1].row \in Currencies /\ u[1].value \in BOOLEAN
    BY <1>2 DEF CurrencyUpdates
  <1>3. \A c \in Currencies : \A b \in BOOLEAN : ValueOK(c, b)
    BY RowKinds DEF ValueOK, Keys, FirebaseKeys
  <1>4. \A v \in CurrencyUpdates : v \notin Batches
    BY <1>2, <1>1, RowKinds, BatchAssumption DEF CurrencyUpdates
  <1>5. 1..1 = {1}
    OBVIOUS
  <1> QED BY <1>1, <1>2, <1>3, <1>4, <1>5 DEF Rows

\* What is written to a row that a request writes.
LEMMA WrittenValue ==
    ASSUME NEW w \in Writers, updates[w] \in Batches \cup CurrencyUpdates,
           NEW row, Written(w, row)
    PROVE  /\ row \in Rows /\ ValueOK(row, Value(w, row))
           /\ updates[w] \in Batches => row \in Keys /\ Value(w, row) # NoProject
           /\ updates[w] \in CurrencyUpdates =>
                row = updates[w][1].row /\ Value(w, row) = updates[w][1].value
  <1>1. PICK n \in DOMAIN updates[w] : updates[w][n].row = row /\ Value(w, row) = updates[w][n].value
    BY DEF Written, Value
  <1>2. n \in 1..Len(updates[w])
    BY <1>1, Requested
  <1>3. updates[w] \in CurrencyUpdates => n = 1
    BY <1>2, Requested
  <1> QED BY <1>1, <1>3, Requested

\* A currency's request writes its row and no other, and no setting.
LEMMA CurrencyWritten ==
    ASSUME NEW w \in Writers, updates[w] \in CurrencyUpdates
    PROVE  /\ \A row : Written(w, row) <=> row = updates[w][1].row
           /\ Value(w, updates[w][1].row) = updates[w][1].value
           /\ \A k \in Keys : ~Written(w, k)
  <1>1. 1 \in DOMAIN updates[w]
    BY Requested
  <1>2. Written(w, updates[w][1].row)
    BY <1>1 DEF Written
  <1> QED BY <1>2, WrittenValue, Requested, RowKinds

\* The row to update is one of those the request writes.
LEMMA Targeted ==
    ASSUME TypeOK, RequestInv, NEW w \in Writers, at[w] # "idle", done[w] < Len(updates[w])
    PROVE  Target(w) \in Rows /\ (OfSettings(w) <=> updates[w] \in Batches)
  <1>1. updates[w] \in Batches \cup CurrencyUpdates /\ done[w] + 1 \in 1..Len(updates[w])
    BY Requested DEF RequestInv, TypeOK
  <1>2. CASE updates[w] \in Batches
    BY <1>1, <1>2, Requested DEF Target, OfSettings
  <1>3. CASE updates[w] \in CurrencyUpdates
    <2>1. done[w] + 1 = 1
      <3>1. Len(updates[w]) = 1
        BY <1>3, Requested
      <3> QED BY <1>1, <3>1
    <2>2. Target(w) \in Currencies
      BY <1>1, <1>3, <2>1, Requested DEF Target
    <2>3. updates[w] \notin Batches
      BY <1>3, Requested, RowKinds
    <2> QED BY <2>2, <2>3, RowKinds DEF OfSettings, Rows
  <1> QED BY <1>1, <1>2, <1>3

\* The rows start with values of their types.
LEMMA SeedOK == DOMAIN Seed = Rows /\ \A row \in Rows : ValueOK(row, Seed[row])
  <1>1. ASSUME NEW row \in Rows PROVE ValueOK(row, Seed[row])
    BY SettingsAssumption DEF Seed, ValueOK, Rows, Keys, FirebaseKeys
  <1> QED BY <1>1 DEF Seed

\* What the invariant says of the requests' own state.
RequestsTyped ==
    /\ lock \in [Rows -> Writers \cup {Unlocked}]
    /\ connected \subseteq Writers /\ IsFiniteSet(connected)
    /\ Cardinality(connected) <= PoolMax
    /\ \A row \in Rows : lock[row] # Unlocked => lock[row] \in connected
    /\ at \in [Writers -> Stages]
    /\ updates \in [Writers -> Batches \cup CurrencyUpdates \cup {NoUpdate}]
    /\ done \in [Writers -> Nat]
    /\ DOMAIN seen = Writers
    /\ \A w \in Writers :
        /\ done[w] <= Len(updates[w])
        /\ \A k \in Keys : ValueOK(k, seen[w][k])

\* A request that ends leaves the others, the pool and the locks in order.
LEMMA FinishTyped ==
    ASSUME TypeOK, IsFiniteSet(connected), RequestInv, NEW w \in Writers, Finish(w)
    PROVE  RequestsTyped' /\ RequestInv'
  <1>1. connected' \subseteq Writers /\ IsFiniteSet(connected') /\ Cardinality(connected') <= PoolMax
    <2>1. CASE w \in connected
      <3>1. IsFiniteSet(connected') /\ Cardinality(connected') = Cardinality(connected) - 1
        BY <2>1, FS_RemoveElement DEF Finish, ReleasedBy
      <3> QED BY <3>1, FS_CardinalityType, SettingsAssumption DEF Finish, ReleasedBy, TypeOK
    <2>2. CASE w \notin connected
      <3>1. connected' = connected
        BY <2>2 DEF Finish, ReleasedBy
      <3> QED BY <3>1 DEF TypeOK
    <2> QED BY <2>1, <2>2
  <1>2. /\ lock' \in [Rows -> Writers \cup {Unlocked}]
        /\ \A row \in Rows : lock'[row] # Unlocked => lock'[row] \in connected'
    BY SettingsAssumption DEF Finish, UnlockedBy, ReleasedBy, TypeOK
  <1>3. \A v \in Writers :
          /\ at'[v] = IF v = w THEN "idle" ELSE at[v]
          /\ updates'[v] = IF v = w THEN NoUpdate ELSE updates[v]
          /\ done'[v] = IF v = w THEN 0 ELSE done[v]
          /\ seen'[v] = IF v = w THEN Forgotten ELSE seen[v]
          /\ v \in connected' <=> v # w /\ v \in connected
    BY DEF Finish, ReleasedBy, TypeOK
  <1>4. /\ at' \in [Writers -> Stages]
        /\ updates' \in [Writers -> Batches \cup CurrencyUpdates \cup {NoUpdate}]
        /\ done' \in [Writers -> Nat]
        /\ DOMAIN seen' = Writers
    BY DEF Finish, TypeOK, Stages
  <1>5. \A k \in Keys : ValueOK(k, Forgotten[k])
    BY SeedOK DEF Forgotten, Rows
  <1>6. \A v \in Writers :
          done'[v] <= Len(updates'[v]) /\ \A k \in Keys : ValueOK(k, seen'[v][k])
    <2>1. Len(NoUpdate) = 0
      BY DEF NoUpdate
    <2> QED BY <1>3, <1>5, <2>1 DEF TypeOK
  <1>7. RequestInv'
    BY <1>3 DEF RequestInv
  <1> QED BY <1>1, <1>2, <1>4, <1>6, <1>7 DEF RequestsTyped

\* A commit writes the values of its rows and leaves the rows typed.
LEMMA CommitTyped ==
    ASSUME TypeOK, RequestInv, NEW w \in Writers, Commit(w)
    PROVE  /\ DOMAIN stored' = Rows /\ \A row \in Rows : ValueOK(row, stored'[row])
           /\ \A row \in Rows :
                stored'[row] = IF Written(w, row) THEN Value(w, row) ELSE stored[row]
           /\ updates[w] \in Batches \cup CurrencyUpdates
  <1>1. updates[w] \in Batches \cup CurrencyUpdates
    BY DEF Commit, RequestInv
  <1>2. stored' = [row \in Rows |-> IF Written(w, row) THEN Value(w, row) ELSE stored[row]]
    BY DEF Commit
  <1>3. \A row \in Rows : Written(w, row) => ValueOK(row, Value(w, row))
    BY <1>1, WrittenValue
  <1> QED BY <1>1, <1>2, <1>3 DEF TypeOK

\* The requests' own state after each step.
LEMMA RequestNext ==
    ASSUME TypeOK, IsFiniteSet(connected), RequestInv, NEW w \in Writers,
           PatchSettings(w) \/ PatchCurrency(w) \/ Step(w)
    PROVE  RequestsTyped' /\ RequestInv'
  <1> USE DEF Stages
  <1>0. RequestsTyped
    BY DEF RequestsTyped, TypeOK
  <1>1. ASSUME NEW u \in Batches \cup CurrencyUpdates, at[w] = "idle",
               updates' = [updates EXCEPT ![w] = u], at' = [at EXCEPT ![w] = "connect"],
               UNCHANGED <<lock, connected, done, seen>>
        PROVE  RequestsTyped' /\ RequestInv'
    <2>1. Len(u) \in Nat \ {0} /\ done[w] = 0
      BY <1>1, Requested DEF RequestInv
    <2>2. \A v \in Writers :
            /\ updates'[v] = IF v = w THEN u ELSE updates[v]
            /\ at'[v] = IF v = w THEN "connect" ELSE at[v]
      BY <1>1 DEF TypeOK
    <2>3. RequestInv'
      BY <1>1, <2>1, <2>2 DEF RequestInv
    <2>4. at' \in [Writers -> Stages]
          /\ updates' \in [Writers -> Batches \cup CurrencyUpdates \cup {NoUpdate}]
      BY <1>1 DEF TypeOK
    <2>5. \A v \in Writers : done[v] <= Len(updates'[v])
      BY <2>1, <2>2 DEF TypeOK
    <2> QED BY <1>0, <1>1, <2>3, <2>4, <2>5 DEF RequestsTyped
  <1>2. CASE PatchSettings(w)
    <2>1. PICK batch \in Batches : updates' = [updates EXCEPT ![w] = batch]
      BY <1>2 DEF PatchSettings
    <2> QED BY <1>1, <1>2, <2>1 DEF PatchSettings
  <1>3. CASE PatchCurrency(w)
    <2>1. PICK u \in CurrencyUpdates : updates' = [updates EXCEPT ![w] = u]
      BY <1>3 DEF PatchCurrency
    <2> QED BY <1>1, <1>3, <2>1 DEF PatchCurrency
  <1>4. CASE Connect(w)
    <2>1. IsFiniteSet(connected') /\ Cardinality(connected') <= PoolMax /\ connected' \subseteq Writers
      <3>1. connected' = connected \cup {w} /\ w \notin connected
        BY <1>4 DEF Connect, RequestInv
      <3>2. Cardinality(connected) \in Nat /\ Cardinality(connected) < PoolMax
        BY <1>4, FS_CardinalityType DEF Connect, Free
      <3>3. IsFiniteSet(connected') /\ Cardinality(connected') = Cardinality(connected) + 1
        BY <3>1, FS_AddElement
      <3> QED BY <3>1, <3>2, <3>3, SettingsAssumption DEF TypeOK
    <2>2. PICK s \in {"read", "update", "default"} :
            /\ at' = [at EXCEPT ![w] = s]
            /\ s = "read" => OfSettings(w)
            /\ s # "read" => ~OfSettings(w)
            /\ s = "default" => ~updates[w][1].value
      BY <1>4 DEF Connect
    <2>3. at[w] = "connect" /\ done[w] = 0 /\ done[w] < Len(updates[w])
          /\ updates[w] \in Batches \cup CurrencyUpdates
      BY <1>4 DEF Connect, RequestInv
    <2>4. OfSettings(w) <=> updates[w] \in Batches
      BY <2>3, Targeted
    <2>5. \A v \in Writers :
            /\ at'[v] = IF v = w THEN s ELSE at[v]
            /\ v \in connected' <=> v = w \/ v \in connected
      BY <1>4, <2>2 DEF Connect, TypeOK
    <2>6. UNCHANGED <<lock, updates, done, seen>>
      BY <1>4 DEF Connect
    <2>7. RequestInv'
      BY <2>2, <2>3, <2>4, <2>5, <2>6 DEF RequestInv
    <2>8. at' \in [Writers -> Stages]
      BY <2>2 DEF TypeOK
    <2>9. \A row \in Rows : lock'[row] # Unlocked => lock'[row] \in connected'
      BY <1>4 DEF Connect, TypeOK
    <2> QED BY <1>0, <2>1, <2>6, <2>7, <2>8, <2>9 DEF RequestsTyped
  <1>5. ASSUME NEW s \in {"enabled", "update", "commit"}, at' = [at EXCEPT ![w] = s],
               at[w] \in {"default", "read", "enabled", "view"},
               at[w] = "read" <=> s = "enabled", at[w] = "view" <=> s = "commit",
               UNCHANGED <<lock, connected, updates, done>>
        PROVE  /\ RequestInv'
               /\ at' \in [Writers -> Stages]
    <2>1. \A v \in Writers : at'[v] = IF v = w THEN s ELSE at[v]
      BY <1>5 DEF TypeOK
    <2>2. s = "update" => done[w] < Len(updates[w])
      <3>1. at[w] \in {"default", "enabled"} => Len(updates[w]) \in Nat \ {0} /\ done[w] = 0
        BY Requested DEF RequestInv
      <3> QED BY <1>5, <3>1
    <2>3. RequestInv'
      BY <1>5, <2>1, <2>2 DEF RequestInv
    <2> QED BY <1>5, <2>3 DEF TypeOK
  <1>6. CASE CheckDefault(w)
    BY <1>0, <1>5, <1>6 DEF CheckDefault, RequestsTyped
  <1>7. CASE ReadDefault(w)
    BY <1>0, <1>5, <1>7 DEF ReadDefault, RequestsTyped
  <1>8. ASSUME NEW f, seen' = [seen EXCEPT ![w] = f], \A k \in Keys : ValueOK(k, f[k])
        PROVE  DOMAIN seen' = Writers /\ \A v \in Writers : \A k \in Keys : ValueOK(k, seen'[v][k])
    BY <1>8 DEF TypeOK
  <1>9. CASE ReadSettings(w)
    <2>1. DOMAIN seen' = Writers /\ \A v \in Writers : \A k \in Keys : ValueOK(k, seen'[v][k])
      BY <1>8, <1>9 DEF ReadSettings, TypeOK, Rows
    <2>2. RequestInv' /\ at' \in [Writers -> Stages]
      BY <1>5, <1>9 DEF ReadSettings
    <2> QED BY <1>0, <1>9, <2>1, <2>2 DEF ReadSettings, RequestsTyped
  <1>10. CASE CheckCoherence(w)
    <2>1. DOMAIN seen' = Writers /\ \A v \in Writers : \A k \in Keys : ValueOK(k, seen'[v][k])
      BY <1>8, <1>10, SeedOK DEF CheckCoherence, Forgotten, Rows
    <2>2. RequestInv' /\ at' \in [Writers -> Stages]
      BY <1>5, <1>10 DEF CheckCoherence
    <2> QED BY <1>0, <1>10, <2>1, <2>2 DEF CheckCoherence, RequestsTyped
  <1>11. CASE UpdateRow(w)
    <2>1. at[w] = "update" /\ done[w] < Len(updates[w]) /\ w \in connected
          /\ updates[w] \in Batches \cup CurrencyUpdates
      BY <1>11 DEF UpdateRow, RequestInv
    <2>2. Target(w) \in Rows /\ (OfSettings(w) <=> updates[w] \in Batches)
      BY <2>1, Targeted
    <2>3. PICK s \in {"update", "commit", "view"} :
            /\ at' = [at EXCEPT ![w] = s]
            /\ s = "update" => done[w] + 1 < Len(updates[w])
            /\ s = "view" => ~OfSettings(w)
      BY <1>11 DEF UpdateRow
    <2>4. \A v \in Writers :
            /\ at'[v] = IF v = w THEN s ELSE at[v]
            /\ done'[v] = IF v = w THEN done[w] + 1 ELSE done[v]
      BY <1>11, <2>3 DEF UpdateRow, TypeOK
    <2>5. UNCHANGED <<connected, updates, seen>>
      BY <1>11 DEF UpdateRow
    <2>6. RequestInv'
      BY <2>1, <2>2, <2>3, <2>4, <2>5 DEF RequestInv
    <2>7. /\ lock' \in [Rows -> Writers \cup {Unlocked}]
          /\ \A row \in Rows : lock'[row] # Unlocked => lock'[row] \in connected
      BY <1>11, <2>1, <2>2 DEF UpdateRow, TypeOK
    <2>8. at' \in [Writers -> Stages] /\ done' \in [Writers -> Nat]
      BY <1>11, <2>3 DEF UpdateRow, TypeOK
    <2>9. \A v \in Writers : done'[v] <= Len(updates[v])
      <3>1. Len(updates[w]) \in Nat /\ done[w] \in Nat
        BY <2>1, Requested DEF TypeOK
      <3>2. done[w] + 1 <= Len(updates[w])
        BY <2>1, <3>1
      <3>3. \A v \in Writers : done[v] <= Len(updates[v])
        BY DEF TypeOK
      <3> QED BY <2>4, <3>2, <3>3
    <2> QED BY <1>0, <2>5, <2>6, <2>7, <2>8, <2>9 DEF RequestsTyped
  <1>12. CASE DefaultRefused(w) \/ IncoherentRefused(w) \/ EncryptionRefused(w)
              \/ DeadlockVictim(w) \/ ViewRefused(w) \/ Commit(w)
    BY <1>12, FinishTyped
       DEF DefaultRefused, IncoherentRefused, EncryptionRefused, DeadlockVictim, ViewRefused,
           Rollback, Commit
  <1> QED
    BY <1>2, <1>3, <1>4, <1>6, <1>7, <1>9, <1>10, <1>11, <1>12 DEF Step

\* Only a commit changes what is stored, and it passes every request that has read.
LEMMA OnlyCommitsWrite ==
    ASSUME NEW w \in Writers, PatchSettings(w) \/ PatchCurrency(w) \/ Step(w)
    PROVE  \/ Commit(w)
           \/ /\ ~Commit(w) /\ stored' = stored
              /\ overtaken' = overtaken \/ overtaken' = overtaken \ {w}
  BY DEF PatchSettings, PatchCurrency, Step, Connect, CheckDefault, DefaultRefused, ReadSettings,
         CheckCoherence, IncoherentRefused, EncryptionRefused, UpdateRow, DeadlockVictim,
         ReadDefault, ViewRefused, Rollback

\* A step of one request leaves the others where they are.
LEMMA OthersStay ==
    ASSUME TypeOK, NEW w \in Writers, PatchSettings(w) \/ PatchCurrency(w) \/ Step(w),
           NEW v \in Writers, v # w
    PROVE  at'[v] = at[v] /\ updates'[v] = updates[v] /\ seen'[v] = seen[v]
  BY DEF PatchSettings, PatchCurrency, Step, Connect, CheckDefault, DefaultRefused, ReadSettings,
         CheckCoherence, IncoherentRefused, EncryptionRefused, UpdateRow, DeadlockVictim,
         ReadDefault, ViewRefused, Commit, Rollback, Finish, TypeOK

\* A Firebase key that is stored stays: the schemas accept no null for it.
LEMMA StoredKeysStay ==
    ASSUME TypeOK, RequestInv, NEW w \in Writers, PatchSettings(w) \/ PatchCurrency(w) \/ Step(w),
           NEW k \in FirebaseKeys, stored[k] # NoProject
    PROVE  stored'[k] # NoProject
  <1>1. CASE Commit(w)
    <2>1. k \in Keys /\ k \in Rows
      BY DEF Keys, Rows
    <2>2. Written(w, k) => Value(w, k) # NoProject
      BY <1>1, <2>1, CommitTyped, WrittenValue, CurrencyWritten
    <2> QED BY <1>1, <2>1, <2>2, CommitTyped
  <1> QED BY <1>1, OnlyCommitsWrite

\* What a request writes depends on its updates alone.
LEMMA SameWrites ==
    ASSUME NEW v \in Writers, updates'[v] = updates[v]
    PROVE  \A row : Written(v, row)' = Written(v, row) /\ Value(v, row)' = Value(v, row)
  BY DEF Written, Value

\* ... and what it leaves behind, on what is stored.
LEMMA SameOutcome ==
    ASSUME NEW v \in Writers, updates'[v] = updates[v], stored' = stored
    PROVE  Outcome(v)' = Outcome(v)
  BY SameWrites DEF Outcome, Keys, FirebaseKeys

\* A batch that agrees with what is stored does so while nothing is committed.
LEMMA BatchStays ==
    ASSUME NEW v \in Writers, updates'[v] = updates[v], stored' = stored, BatchStillSo(v)
    PROVE  BatchStillSo(v)'
  <1> DEFINE sa == "fcm_service_account"
  <1>1. Outcome(v)' = Outcome(v)
    BY SameOutcome
  <1>2. Written(v, sa)' = Written(v, sa) /\ Value(v, sa)' = Value(v, sa)
    BY SameWrites
  <1> QED BY <1>1, <1>2 DEF BatchStillSo, LocaleCoherent

\* A request that stays as it is, while nothing is committed.
LEMMA StillSoStays ==
    ASSUME NEW v \in Writers, updates'[v] = updates[v], stored' = stored,
           at'[v] = at[v], seen'[v] = seen[v], StillSo(v)
    PROVE  StillSo(v)'
  <1>1. BatchStillSo(v) => BatchStillSo(v)'
    BY BatchStays
  <1> QED BY <1>1 DEF StillSo, BatchStillSo

\* What a request has read is still so while no other commits: one step of it or another.
LEMMA ReadNext ==
    ASSUME TypeOK, RequestInv, ReadInv,
           NEW w \in Writers, PatchSettings(w) \/ PatchCurrency(w) \/ Step(w)
    PROVE  ReadInv'
  <1> SUFFICES ASSUME NEW v \in Writers, v \notin overtaken' PROVE StillSo(v)'
    BY DEF ReadInv
  <1>1. CASE v # w
    <2>1. at'[v] = at[v] /\ updates'[v] = updates[v] /\ seen'[v] = seen[v]
      BY <1>1, OthersStay
    <2>2. CASE Commit(w)
      <3>1. at[v] \notin {"enabled", "update", "view", "commit"}
        BY <1>1, <2>2 DEF Commit, HasRead
      <3> QED BY <2>1, <3>1 DEF StillSo
    <2>3. CASE stored' = stored /\ v \notin overtaken
      BY <2>1, <2>3, StillSoStays DEF ReadInv
    <2> QED BY <1>1, <2>2, <2>3, OnlyCommitsWrite
  <1>2. CASE v = w
    <2>1. CASE PatchSettings(w) \/ PatchCurrency(w)
      <3>1. at'[v] = "connect"
        BY <1>2, <2>1 DEF PatchSettings, PatchCurrency, TypeOK
      <3> QED BY <3>1 DEF StillSo
    <2>2. CASE Connect(w)
      <3>1. at[v] = "connect" /\ done[v] = 0 /\ done[v] < Len(updates[v]) /\ updates'[v] = updates[v]
            /\ updates[v] \in Batches \cup CurrencyUpdates
        BY <1>2, <2>2 DEF Connect, RequestInv
      <3>2. OfSettings(v) <=> updates[v] \in Batches
        BY <3>1, Targeted
      <3>3. \/ at'[v] \in {"read", "default"}
            \/ at'[v] = "update" /\ ~OfSettings(v) /\ updates[v][1].value
        BY <1>2, <2>2 DEF Connect, TypeOK
      <3> QED BY <3>1, <3>2, <3>3 DEF StillSo
    <2>3. CASE CheckDefault(w)
      <3>1. /\ at[v] = "default" /\ at'[v] = "update" /\ updates'[v] = updates[v]
            /\ stored' = stored /\ updates[v] \in CurrencyUpdates /\ done[v] = 0
        BY <1>2, <2>3 DEF CheckDefault, RequestInv, TypeOK
      <3>2. updates[v][1].row # stored["default_currency"]
        BY <1>2, <2>3, <3>1 DEF CheckDefault, IsDefault, Target
      <3>3. updates[v] \notin Batches
        BY <3>1, Requested, RowKinds
      <3> QED BY <3>1, <3>2, <3>3 DEF StillSo
    <2>4. CASE ReadSettings(w)
      <3>1. at'[v] = "enabled" /\ stored' = stored /\ seen'[v] = [k \in Keys |-> stored[k]]
        BY <1>2, <2>4 DEF ReadSettings, TypeOK
      <3> QED BY <3>1 DEF StillSo
    <2>5. CASE CheckCoherence(w)
      <3>1. /\ at[v] = "enabled" /\ at'[v] = "update" /\ updates'[v] = updates[v]
            /\ stored' = stored /\ updates[v] \in Batches /\ v \notin overtaken
        BY <1>2, <2>5 DEF CheckCoherence, RequestInv, TypeOK
      <3>2. \A k \in Keys : seen[v][k] = stored[k]
        BY <3>1 DEF ReadInv, StillSo
      <3>3. Merged(v) = Outcome(v)
        BY <3>2 DEF Merged, Outcome
      <3>4. BatchStillSo(v)
        BY <1>2, <2>5, <3>3 DEF CheckCoherence, CatalogCoherent, AccountMatches, BatchStillSo
      <3>5. BatchStillSo(v)'
        BY <3>1, <3>4, BatchStays
      <3>6. updates[v] \notin CurrencyUpdates
        BY <3>1, Requested, RowKinds
      <3> QED BY <3>1, <3>5, <3>6 DEF StillSo, BatchStillSo
    <2>6. CASE UpdateRow(w) \/ ReadDefault(w)
      <3>1. /\ at[v] \in {"update", "view"} /\ at'[v] \in {"update", "commit", "view"}
            /\ updates'[v] = updates[v] /\ stored' = stored /\ v \notin overtaken
            /\ at[v] = "view" => updates[v] \in CurrencyUpdates
        BY <1>2, <2>6 DEF UpdateRow, ReadDefault, RequestInv, TypeOK
      <3>2. StillSo(v)
        BY <3>1 DEF ReadInv
      <3>3. at[v] = "view" => updates[v] \notin Batches
        BY <3>1, Requested, RowKinds
      <3>4. BatchStillSo(v) => BatchStillSo(v)'
        BY <3>1, BatchStays
      <3>5. at[v] = "update" /\ updates[v] \in Batches => BatchStillSo(v)'
        BY <3>2, <3>4 DEF StillSo, BatchStillSo
      <3> QED BY <3>1, <3>2, <3>3, <3>5 DEF StillSo, BatchStillSo
    <2>7. CASE DefaultRefused(w) \/ IncoherentRefused(w) \/ EncryptionRefused(w)
               \/ DeadlockVictim(w) \/ ViewRefused(w) \/ Commit(w)
      <3>1. at'[v] = "idle"
        BY <1>2, <2>7 DEF DefaultRefused, IncoherentRefused, EncryptionRefused, DeadlockVictim,
                        ViewRefused, Rollback, Commit, Finish, TypeOK
      <3> QED BY <3>1 DEF StillSo
    <2> QED BY <2>1, <2>2, <2>3, <2>4, <2>5, <2>6, <2>7 DEF Step
  <1> QED BY <1>1, <1>2

\* Turning push on rests on keys that stay, whatever other requests commit.
LEMMA KeysNext ==
    ASSUME TypeOK, RequestInv, KeysInv,
           NEW w \in Writers, PatchSettings(w) \/ PatchCurrency(w) \/ Step(w)
    PROVE  KeysInv'
  <1> SUFFICES ASSUME NEW v \in Writers, NEW k \in FirebaseKeys PROVE KeyStays(v, k)'
    BY DEF KeysInv
  <1>0. KeyStays(v, k) /\ k \in Keys
    BY DEF KeysInv, Keys
  <1>1. stored[k] # NoProject => stored'[k] # NoProject
    BY StoredKeysStay
  <1>2. ASSUME updates'[v] = updates[v]
        PROVE  TurnsPushOn(v)' = TurnsPushOn(v) /\ Written(v, k)' = Written(v, k)
    BY <1>2, SameWrites DEF TurnsPushOn
  <1>3. CASE v # w
    <2>1. at'[v] = at[v] /\ updates'[v] = updates[v] /\ seen'[v] = seen[v]
      BY <1>3, OthersStay
    <2> QED BY <1>0, <1>1, <1>2, <2>1 DEF KeyStays
  <1>4. CASE v = w
    <2>1. CASE Connect(w)
      <3>1. at[v] = "connect" /\ done[v] = 0 /\ done[v] < Len(updates[v]) /\ updates'[v] = updates[v]
            /\ updates[v] \in Batches \cup CurrencyUpdates
        BY <1>4, <2>1 DEF Connect, RequestInv
      <3>2. OfSettings(v) <=> updates[v] \in Batches
        BY <3>1, Targeted
      <3>3. \/ at'[v] \in {"read", "default"}
            \/ at'[v] = "update" /\ ~OfSettings(v)
        BY <1>4, <2>1 DEF Connect, TypeOK
      <3>4. updates[v] \in CurrencyUpdates => ~TurnsPushOn(v)
        BY CurrencyWritten DEF TurnsPushOn, Keys
      <3> QED BY <1>2, <3>1, <3>2, <3>3, <3>4 DEF KeyStays
    <2>2. CASE CheckDefault(w) \/ ReadDefault(w)
      <3>1. /\ at'[v] \in {"update", "commit"} /\ updates'[v] = updates[v]
            /\ updates[v] \in CurrencyUpdates
        BY <1>4, <2>2 DEF CheckDefault, ReadDefault, RequestInv, TypeOK
      <3>2. ~TurnsPushOn(v)
        BY <3>1, CurrencyWritten DEF TurnsPushOn, Keys
      <3> QED BY <1>2, <3>1, <3>2 DEF KeyStays
    <2>3. CASE ReadSettings(w)
      <3>1. at'[v] = "enabled" /\ stored' = stored /\ seen'[v][k] = stored[k]
        BY <1>0, <1>4, <2>3 DEF ReadSettings, TypeOK
      <3> QED BY <3>1 DEF KeyStays
    <2>4. CASE CheckCoherence(w)
      <3>1. at[v] = "enabled" /\ at'[v] = "update" /\ updates'[v] = updates[v] /\ stored' = stored
        BY <1>4, <2>4 DEF CheckCoherence, TypeOK
      <3>2. PushCoherent(Merged(v))
        BY <1>4, <2>4 DEF CheckCoherence, CatalogCoherent
      <3>3. TurnsPushOn(v) => Merged(v)["provider"] = "fcm"
        BY DEF TurnsPushOn, Merged, Keys
      <3>4. TurnsPushOn(v) => Merged(v)[k] # NoProject
        BY <3>2, <3>3 DEF PushCoherent
      <3>5. Merged(v)[k] = IF Written(v, k) THEN Value(v, k) ELSE seen[v][k]
        BY <1>0 DEF Merged
      <3> QED BY <1>0, <1>2, <3>1, <3>4, <3>5 DEF KeyStays
    <2>5. CASE UpdateRow(w)
      <3>1. /\ at[v] = "update" /\ at'[v] # "enabled" /\ updates'[v] = updates[v]
            /\ stored' = stored
        BY <1>4, <2>5 DEF UpdateRow, TypeOK
      <3> QED BY <1>0, <1>2, <3>1 DEF KeyStays
    <2>6. CASE PatchSettings(w) \/ PatchCurrency(w)
      <3>1. at'[v] = "connect"
        BY <1>4, <2>6 DEF PatchSettings, PatchCurrency, TypeOK
      <3> QED BY <3>1 DEF KeyStays
    <2>7. CASE DefaultRefused(w) \/ IncoherentRefused(w) \/ EncryptionRefused(w)
               \/ DeadlockVictim(w) \/ ViewRefused(w) \/ Commit(w)
      <3>1. at'[v] = "idle"
        BY <1>4, <2>7 DEF DefaultRefused, IncoherentRefused, EncryptionRefused, DeadlockVictim,
                        ViewRefused, Rollback, Commit, Finish, TypeOK
      <3> QED BY <3>1 DEF KeyStays
    <2> QED BY <2>1, <2>2, <2>3, <2>4, <2>5, <2>6, <2>7 DEF Step
  <1> QED BY <1>3, <1>4

\* Push stays configured: a commit that turns it on finds the keys, and none takes them away.
LEMMA PushNext ==
    ASSUME TypeOK, RequestInv, KeysInv, PushIsConfigured,
           NEW w \in Writers, PatchSettings(w) \/ PatchCurrency(w) \/ Step(w)
    PROVE  PushIsConfigured'
  <1>1. CASE Commit(w)
    <2> SUFFICES ASSUME stored'["provider"] = "fcm", NEW k \in FirebaseKeys
                 PROVE  stored'[k] # NoProject
      BY DEF PushIsConfigured, PushCoherent
    <2>1. "provider" \in Rows /\ k \in Keys /\ k \in Rows
      BY DEF Rows, Keys
    <2>2. CASE stored["provider"] = "fcm"
      <3>1. stored[k] # NoProject
        BY <2>2 DEF PushIsConfigured, PushCoherent
      <3> QED BY <3>1, StoredKeysStay
    <2>3. CASE stored["provider"] # "fcm"
      <3>1. TurnsPushOn(w)
        BY <1>1, <2>1, <2>3, CommitTyped DEF TurnsPushOn
      <3>2. Written(w, k) \/ stored[k] # NoProject
        BY <1>1, <3>1 DEF KeysInv, KeyStays, Commit
      <3>3. Written(w, k) => Value(w, k) # NoProject
        BY <1>1, <2>1, CommitTyped, WrittenValue, CurrencyWritten
      <3> QED BY <1>1, <2>1, <3>2, <3>3, CommitTyped
    <2> QED BY <2>2, <2>3
  <1> QED BY <1>1, OnlyCommitsWrite DEF PushIsConfigured

\* The invariant holds at the start.
LEMMA InitInv == Init => IndInv
  <1> SUFFICES ASSUME Init PROVE IndInv
    OBVIOUS
  <1>1. IsFiniteSet(connected) /\ Cardinality(connected) = 0
    BY FS_EmptySet DEF Init
  <1>2. Len(NoUpdate) = 0
    BY DEF NoUpdate
  <1>3. TypeOK
    <2>1. \A k \in Keys : ValueOK(k, Forgotten[k])
      BY SeedOK DEF Forgotten, Rows
    <2>2. \A w \in Writers : done[w] <= Len(updates[w]) /\ \A k \in Keys : ValueOK(k, seen[w][k])
      BY <1>2, <2>1 DEF Init
    <2>3. DOMAIN stored = Rows /\ \A row \in Rows : ValueOK(row, stored[row])
      BY SeedOK DEF Init
    <2> QED BY <1>1, <2>2, <2>3, SettingsAssumption DEF Init, TypeOK, Stages
  <1>4. RequestInv /\ ReadInv /\ KeysInv
    BY DEF Init, RequestInv, ReadInv, StillSo, KeysInv, KeyStays
  <1>5. PushIsConfigured
    <2>1. "provider" \in Rows
      BY DEF Rows, Keys
    <2>2. stored["provider"] = "none"
      BY <2>1 DEF Init, Seed, FirebaseKeys
    <2> QED BY <2>2 DEF PushIsConfigured, PushCoherent
  <1> QED BY <1>1, <1>3, <1>4, <1>5 DEF IndInv

\* Every step keeps the invariant.
LEMMA InvNext == IndInv /\ [Next]_vars => IndInv'
  <1> SUFFICES ASSUME IndInv, [Next]_vars PROVE IndInv'
    OBVIOUS
  <1>0. TypeOK /\ IsFiniteSet(connected) /\ RequestInv /\ ReadInv /\ KeysInv /\ PushIsConfigured
    BY DEF IndInv
  <1>1. ASSUME NEW w \in Writers, PatchSettings(w) \/ PatchCurrency(w) \/ Step(w)
        PROVE  IndInv'
    <2>1. RequestsTyped' /\ RequestInv'
      BY <1>0, <1>1, RequestNext
    <2>2. DOMAIN stored' = Rows /\ \A row \in Rows : ValueOK(row, stored'[row])
      BY <1>0, <1>1, OnlyCommitsWrite, CommitTyped DEF TypeOK
    <2>3. modular' = modular
      BY <1>1 DEF PatchSettings, PatchCurrency, Step, Connect, CheckDefault, DefaultRefused,
                  ReadSettings, CheckCoherence, IncoherentRefused, EncryptionRefused, UpdateRow,
                  DeadlockVictim, ReadDefault, ViewRefused, Commit, Rollback
    <2>4. overtaken' \subseteq connected'
      <3>1. overtaken \subseteq connected
        BY <1>0 DEF TypeOK
      <3>2. CASE Commit(w)
        <4>1. \A v \in Writers : HasRead(v) => v \in connected
          BY <1>0 DEF HasRead, RequestInv
        <4> QED BY <3>1, <3>2, <4>1 DEF Commit, Finish, ReleasedBy
      <3>3. CASE DefaultRefused(w) \/ IncoherentRefused(w) \/ EncryptionRefused(w)
                 \/ DeadlockVictim(w) \/ ViewRefused(w)
        BY <3>1, <3>3 DEF DefaultRefused, IncoherentRefused, EncryptionRefused, DeadlockVictim,
                          ViewRefused, Rollback, Finish, ReleasedBy
      <3>4. CASE PatchSettings(w) \/ PatchCurrency(w) \/ Connect(w) \/ CheckDefault(w)
                 \/ ReadSettings(w) \/ CheckCoherence(w) \/ UpdateRow(w) \/ ReadDefault(w)
        BY <3>1, <3>4 DEF PatchSettings, PatchCurrency, Connect, CheckDefault, ReadSettings,
                          CheckCoherence, UpdateRow, ReadDefault
      <3> QED BY <1>1, <3>2, <3>3, <3>4 DEF Step
    <2>5. TypeOK' /\ IsFiniteSet(connected)'
      <3>1. modular \in BOOLEAN
        BY <1>0 DEF TypeOK
      <3> QED BY <2>1, <2>2, <2>3, <2>4, <3>1 DEF RequestsTyped, TypeOK
    <2> QED BY <1>0, <1>1, <2>1, <2>5, ReadNext, KeysNext, PushNext DEF IndInv
  <1>2. CASE UNCHANGED vars
    <2>1. TypeOK' /\ IsFiniteSet(connected)'
      BY <1>0, <1>2 DEF vars, TypeOK
    <2>2. RequestInv' /\ PushIsConfigured'
      BY <1>0, <1>2 DEF vars, RequestInv, PushIsConfigured, PushCoherent
    <2>3. ReadInv'
      BY <1>0, <1>2, StillSoStays DEF vars, ReadInv
    <2>4. KeysInv'
      BY <1>0, <1>2, SameWrites DEF vars, KeysInv, KeyStays, TurnsPushOn
    <2> QED BY <2>1, <2>2, <2>3, <2>4 DEF IndInv
  <1> QED BY <1>1, <1>2 DEF Next

\* The invariant holds: for any batches, requests in any number and any pool.
THEOREM Invariance == Spec => []IndInv
  BY InitInv, InvNext, PTL DEF Spec

\* Rows, requests, locks and connections have their types (service.ts, door.ts): every
\* row that is stored is valid for its key, a lock belongs to a request that holds a
\* connection, and no more connections are out than the pool has.
THEOREM TypeCorrectness == Spec => []TypeOK
  <1>1. IndInv => TypeOK
    BY DEF IndInv
  <1> QED BY <1>1, Invariance, PTL

\* catalog.ts "provider=fcm requires all FCM keys", of what is stored, under every race:
\* the checks read without locks, but no request that is accepted takes a key away.
THEOREM PushStaysConfigured == Spec => []PushIsConfigured
  <1>1. IndInv => PushIsConfigured
    BY DEF IndInv
  <1> QED BY <1>1, Invariance, PTL

-----------------------------------------------------------------------------
\* A request that commits undisturbed performs Commit.
LEMMA UndisturbedCommits ==
    ASSUME IndInv, [Next]_vars, NEW w \in Writers, CommitsUndisturbed(w)
    PROVE  Commit(w) /\ StillSo(w)
  <1>0. TypeOK /\ at[w] = "commit" /\ at'[w] = "idle" /\ ~ViewFails(w) /\ w \notin overtaken
    BY DEF CommitsUndisturbed, IndInv
  <1>1. PICK v \in Writers : PatchSettings(v) \/ PatchCurrency(v) \/ Step(v)
    BY <1>0 DEF Next, vars
  <1>2. v = w
    BY <1>0, <1>1, OthersStay
  <1>3. ~Deadlocked(w)
    BY <1>0 DEF Deadlocked, Waits
  <1>4. Commit(w)
    BY <1>0, <1>1, <1>2, <1>3
       DEF PatchSettings, PatchCurrency, Step, Connect, CheckDefault, DefaultRefused,
           ReadSettings, CheckCoherence, IncoherentRefused, EncryptionRefused, UpdateRow,
           DeadlockVictim, ReadDefault, ViewRefused
  <1> QED BY <1>0, <1>4 DEF IndInv, ReadInv

\* What is stored after a commit of settings is its outcome.
LEMMA CommitsOutcome ==
    ASSUME TypeOK, RequestInv, NEW w \in Writers, Commit(w)
    PROVE  \A k \in Keys : stored'[k] = Outcome(w)[k]
  BY CommitTyped DEF Outcome, Rows

\* A batch that nobody overtook leaves coherent settings at its commit.
LEMMA CoherentStep == IndInv /\ [Next]_vars => CommitsCoherently
  <1> SUFFICES ASSUME IndInv, [Next]_vars, NEW w \in Writers,
                      CommitsUndisturbed(w), WritesSettings(w)
               PROVE  /\ LocaleCoherent(stored')
                      /\ Written(w, "fcm_service_account") =>
                            stored'["fcm_service_account"] = stored'["fcm_project_id"]
    BY DEF CommitsCoherently
  <1>1. Commit(w) /\ StillSo(w) /\ at[w] = "commit" /\ TypeOK /\ RequestInv
    BY UndisturbedCommits DEF CommitsUndisturbed, IndInv
  <1>2. updates[w] \in Batches
    BY <1>1, CommitTyped, Requested, RowKinds DEF WritesSettings
  <1>3. BatchStillSo(w)
    BY <1>1, <1>2 DEF StillSo
  <1>4. \A k \in Keys : stored'[k] = Outcome(w)[k]
    BY <1>1, CommitsOutcome
  <1>5. {"default_locale", "enabled_locales", "fcm_service_account", "fcm_project_id"} \subseteq Keys
    BY DEF Keys, FirebaseKeys
  <1>6. Written(w, "fcm_service_account") =>
           Outcome(w)["fcm_service_account"] = Value(w, "fcm_service_account")
    BY <1>5 DEF Outcome
  <1> QED BY <1>3, <1>4, <1>5, <1>6 DEF BatchStillSo, LocaleCoherent

\* The catalog's coherence, at every commit that no other has overtaken: the locales agree
\* and a service account belongs to the project stored with it (catalog.ts,
\* settings/service.ts writeSettings).
THEOREM Coherence == Spec => CatalogIsCoherent
  BY Invariance, CoherentStep, PTL DEF Spec, CatalogIsCoherent

\* A switch that nobody overtook leaves the default currency enabled at its commit.
LEMMA DefaultStep == IndInv /\ [Next]_vars => CommitsKeepDefault
  <1> SUFFICES ASSUME IndInv, [Next]_vars, NEW w \in Writers,
                      CommitsUndisturbed(w), stored[stored["default_currency"]]
               PROVE  stored'[stored'["default_currency"]]
    BY DEF CommitsKeepDefault
  <1> DEFINE dc == "default_currency"
  <1>1. Commit(w) /\ StillSo(w) /\ at[w] = "commit" /\ TypeOK /\ RequestInv
    BY UndisturbedCommits DEF CommitsUndisturbed, IndInv
  <1>2. /\ \A row \in Rows :
             stored'[row] = IF Written(w, row) THEN Value(w, row) ELSE stored[row]
        /\ updates[w] \in Batches \cup CurrencyUpdates
        /\ \A row \in Rows : ValueOK(row, stored'[row]) /\ ValueOK(row, stored[row])
    BY <1>1, CommitTyped DEF TypeOK
  <1>3. dc \in Keys /\ dc \in Rows
    BY DEF Keys, Rows
  <1>4. stored'[dc] \in Currencies /\ stored[dc] \in Currencies
    <2>1. \A value : ValueOK(dc, value) => value \in Currencies
      BY DEF ValueOK, FirebaseKeys
    <2> QED BY <1>2, <1>3, <2>1
  <1>5. stored'[dc] \in Rows /\ stored[dc] \in Rows
    BY <1>4 DEF Rows
  <1>6. CASE updates[w] \in Batches
    <2>1. stored[Outcome(w)[dc]]
      BY <1>1, <1>6 DEF StillSo, BatchStillSo
    <2>2. stored'[dc] = Outcome(w)[dc]
      BY <1>1, <1>3, CommitsOutcome
    <2>3. ~Written(w, stored'[dc])
      BY <1>2, <1>4, <1>6, WrittenValue, RowKinds
    <2> QED BY <1>2, <1>5, <2>1, <2>2, <2>3
  <1>7. CASE updates[w] \in CurrencyUpdates
    <2>1. stored'[dc] = stored[dc]
      BY <1>2, <1>3, <1>7, CurrencyWritten
    <2>2. updates[w][1].value \/ updates[w][1].row # stored[dc]
      BY <1>1, <1>7 DEF StillSo
    <2>3. CASE Written(w, stored[dc])
      <3>1. stored[dc] = updates[w][1].row /\ Value(w, stored[dc]) = updates[w][1].value
        BY <1>7, <2>3, CurrencyWritten
      <3> QED BY <1>2, <1>5, <2>1, <2>2, <2>3, <3>1
    <2>4. CASE ~Written(w, stored[dc])
      BY <1>2, <1>5, <2>1, <2>4
    <2> QED BY <2>3, <2>4
  <1> QED BY <1>2, <1>6, <1>7

\* currencies/service.ts:3 "the default currency can never be disabled", at every commit
\* that no other has overtaken: of a switch, and of a batch that names a new default.
THEOREM DefaultCurrencyStays == Spec => DefaultCurrencyStaysEnabled
  BY Invariance, DefaultStep, PTL DEF Spec, DefaultCurrencyStaysEnabled

=============================================================================
