---------------------------- MODULE UsersProofs -----------------------------
(***************************************************************************)
(* Theorems about role changes and deactivations for any number of         *)
(* requests, profiles, failures and recoveries.  The argument: under the   *)
(* advisory lock a request is alone in its transaction (Alone), so what    *)
(* its statements read stays true until it writes, and the writers without *)
(* the lock only add younger profiles or act on a sole super_admin, which  *)
(* falsifies neither check.                                                *)
(***************************************************************************)
EXTENDS Users, FiniteSetTheorems, TLAPS

\* The advisory lock lets one request into a transaction.
LEMMA Alone ==
    ASSUME TypeOK, NEW q \in Requests, NEW r \in Requests, q # r, at[r] \in InTransaction
    PROVE  at[q] \notin InTransaction
  BY DEF TypeOK

\* A transaction that ends leaves the request and the lock as they were before it.
LEMMA EndType ==
    ASSUME TypeOK, NEW r \in Requests, at[r] \in InTransaction, End(r)
    PROVE  /\ roleLock' \in Requests \cup {Nobody}
           /\ at' \in [Requests -> InTransaction \cup {"idle", "waiting"}]
           /\ request' \in [Requests -> Request]
           /\ \A q \in Requests : roleLock' = q <=> at'[q] \in InTransaction
  <1>1. NoRequest \in Request
    BY UsersAssumption DEF NoRequest, Request, Users, Roles
  <1>2. \A q \in Requests : at'[q] = IF q = r THEN "idle" ELSE at[q]
    BY DEF End, GoTo, TypeOK
  <1>3. \A q \in Requests : at'[q] \notin InTransaction
    BY <1>2, Alone DEF InTransaction
  <1> QED
    BY <1>1, <1>3, UsersAssumption DEF End, GoTo, Unlocked, TypeOK

\* A transaction that goes on keeps the lock.
LEMMA GoToType ==
    ASSUME TypeOK, NEW r \in Requests, at[r] \in InTransaction,
           NEW stage \in InTransaction, GoTo(r, stage), roleLock' = roleLock
    PROVE  /\ at' \in [Requests -> InTransaction \cup {"idle", "waiting"}]
           /\ \A q \in Requests : roleLock' = q <=> at'[q] \in InTransaction
  BY DEF GoTo, TypeOK

\* What TypeOK says of the profiles.
ProfilesTyped ==
    /\ population \in Users
    /\ role \in [Users -> Roles]
    /\ active \subseteq 1..population

\* What TypeOK says of the requests and the lock.
RequestsTyped ==
    /\ roleLock \in Requests \cup {Nobody}
    /\ at \in [Requests -> InTransaction \cup {"idle", "waiting"}]
    /\ request \in [Requests -> Request]
    /\ \A r \in Requests : roleLock = r <=> at[r] \in InTransaction

\* A new profile keeps the profiles typed, and those there were as they were.
LEMMA CreateType ==
    ASSUME TypeOK, NEW newRole \in Roles, Create(newRole)
    PROVE  /\ ProfilesTyped'
           /\ population' = population + 1 /\ population' \in Users
           /\ role'[population'] = newRole /\ active' = active \cup {population'}
           /\ \A u \in 1..population : role'[u] = role[u]
  BY UsersAssumption DEF Create, TypeOK, ProfilesTyped, Users

\* Every step keeps the profiles typed.
LEMMA ProfilesTypeNext == TypeOK /\ [Next]_vars => ProfilesTyped'
  <1> SUFFICES ASSUME TypeOK, [Next]_vars PROVE ProfilesTyped'
    OBVIOUS
  <1>1. CASE UNCHANGED profiles
    BY <1>1 DEF profiles, ProfilesTyped, TypeOK
  <1>2. ASSUME NEW r \in Requests, Write(r) PROVE ProfilesTyped'
    BY <1>2 DEF Write, ProfilesTyped, TypeOK, Request, next, Roles
  <1>3. CASE Join
    BY <1>3, CreateType DEF Join, Roles
  <1>4. CASE EndSetup /\ Create("super_admin")
    BY <1>4, CreateType DEF Roles
  <1>5. ASSUME NEW u \in Users, Intervene(u) PROVE ProfilesTyped'
    BY <1>5 DEF Intervene, ProfilesTyped, TypeOK
  <1> QED
    BY <1>1, <1>2, <1>3, <1>4, <1>5
       DEF Next, Step, Resolve, Lock, Read, SkipChecks, Forbid, CheckRoot, Count, Fail, CheckSetup, EndSetup, profiles, vars

\* Every step keeps the requests typed, and the lock with who is in a transaction.
LEMMA RequestsTypeNext == TypeOK /\ [Next]_vars => RequestsTyped'
  <1> SUFFICES ASSUME TypeOK, [Next]_vars PROVE RequestsTyped'
    OBVIOUS
  <1> USE DEF RequestsTyped
  <1>1. CASE UNCHANGED <<roleLock, at, request>>
    BY <1>1 DEF TypeOK
  <1>2. ASSUME NEW r \in Requests, NEW u \in Users, NEW t \in Users,
               NEW n \in Roles \cup {Deactivated}, Resolve(r, u, t, n)
        PROVE  RequestsTyped'
    <2>1. [caller |-> u, as |-> role[u], target |-> t, next |-> n, current |-> Unread] \in Request
      BY DEF Request, TypeOK
    <2> QED
      BY <1>2, <2>1 DEF Resolve, TypeOK, InTransaction
  <1>3. ASSUME NEW r \in Requests, Lock(r) PROVE RequestsTyped'
    BY <1>3, UsersAssumption DEF Lock, LockFree, GoTo, TypeOK, InTransaction
  <1>4. ASSUME NEW r \in Requests, Read(r) PROVE RequestsTyped'
    <2>1. request' \in [Requests -> Request]
      BY <1>4 DEF Read, TypeOK, Request, target
    <2>2. "root" \in InTransaction /\ at[r] \in InTransaction
      BY <1>4 DEF Read, InTransaction
    <2> QED
      BY <1>4, <2>1, <2>2, GoToType DEF Read, TypeOK
  <1>5. ASSUME NEW r \in Requests, SkipChecks(r) \/ CheckRoot(r) \/ Count(r),
               NEW stage \in InTransaction, GoTo(r, stage), UNCHANGED <<roleLock, request>>
        PROVE  RequestsTyped'
    BY <1>5, GoToType DEF SkipChecks, CheckRoot, Count, InTransaction, TypeOK
  <1>6. ASSUME NEW r \in Requests, at[r] \in InTransaction, End(r) PROVE RequestsTyped'
    BY <1>6, EndType
  <1>7. ASSUME NEW r \in Requests, Step(r) \/ Fail(r) PROVE RequestsTyped'
    BY <1>7, <1>4, <1>5, <1>6
       DEF Step, SkipChecks, Forbid, CheckRoot, Count, Write, Fail, InTransaction
  <1> QED
    BY <1>1, <1>2, <1>3, <1>7 DEF Next, Join, CheckSetup, EndSetup, Create, Intervene, vars

\* Type correctness is inductive.
LEMMA TypeNext == TypeOK /\ [Next]_vars => TypeOK'
  <1> SUFFICES ASSUME TypeOK, [Next]_vars PROVE TypeOK'
    OBVIOUS
  <1>1. faults' = faults \/ (faults < MaxFaults /\ faults' = faults + 1)
    BY DEF Next, Step, Resolve, Lock, Read, SkipChecks, Forbid, CheckRoot, Count, Write,
           Fail, Join, CheckSetup, EndSetup, Create, Intervene, vars
  <1>2. \/ interventions' = interventions
        \/ interventions < MaxInterventions /\ interventions' = interventions + 1
    BY DEF Next, Step, Resolve, Lock, Read, SkipChecks, Forbid, CheckRoot, Count, Write,
           Fail, Join, CheckSetup, EndSetup, Create, Intervene, vars
  <1>3. faults' \in 0..MaxFaults /\ interventions' \in 0..MaxInterventions
    BY <1>1, <1>2, UsersAssumption DEF TypeOK
  <1>4. setupChecked' \in {setupChecked, TRUE, FALSE}
    BY DEF Next, Step, Resolve, Lock, Read, SkipChecks, Forbid, CheckRoot, Count, Write,
           Fail, Join, CheckSetup, EndSetup, Create, Intervene, vars
  <1> QED
    BY <1>3, <1>4, ProfilesTypeNext, RequestsTypeNext DEF ProfilesTyped, RequestsTyped, TypeOK

\* A step of one request leaves the others where they are.
LEMMA OthersWait ==
    ASSUME TypeOK, NEW r \in Requests, NEW q \in Requests, q # r,
           \/ Lock(r) \/ Step(r) \/ Fail(r)
           \/ \E u, t \in Users, n \in Roles \cup {Deactivated} : Resolve(r, u, t, n)
    PROVE  at'[q] = at[q] /\ request'[q] = request[q]
  BY DEF Resolve, Lock, Step, Read, SkipChecks, Forbid, CheckRoot, Count, Write, Fail, End, GoTo, TypeOK

\* A younger profile is no root in place of an older one, and takes nobody away.
LEMMA CreateKeepsChecks ==
    ASSUME TypeOK, NEW newRole \in Roles, Create(newRole), NEW t \in 1..population
    PROVE  (~IsRoot(t) => ~IsRoot(t)') /\ (Enough => Enough')
  <1>1. \A u \in 1..population : u \in SuperAdmins' <=> u \in SuperAdmins
    <2>1. \A u \in 1..population : u # population'
      BY CreateType DEF TypeOK, Users
    <2> QED
      BY <2>1, CreateType DEF SuperAdmins
  <1>2. SuperAdmins \subseteq 1..population
    BY DEF SuperAdmins, TypeOK
  <1>3. \A u \in SuperAdmins' : u \in SuperAdmins \/ u > t
    <2>1. \A u \in SuperAdmins' : u \in 1..population \/ u = population'
      BY CreateType DEF SuperAdmins, TypeOK
    <2>2. population' > t
      BY CreateType DEF TypeOK, Users
    <2> QED
      BY <1>1, <2>1, <2>2
  <1> QED
    BY <1>1, <1>2, <1>3 DEF IsRoot, Enough

\* Without its sole super_admin the instance has no root at all.
LEMMA InterveneKeepsChecks ==
    ASSUME TypeOK, NEW u \in Users, Intervene(u), NEW t \in Users
    PROVE  ~IsRoot(t)' /\ ~Enough
  BY DEF Intervene, SuperAdmins, IsRoot, Enough

\* What a statement read is still so: nobody else is in a transaction.
LEMMA ReadInvNext == TypeOK /\ ReadInv /\ [Next]_vars => ReadInv'
  <1> SUFFICES ASSUME TypeOK, ReadInv, [Next]_vars, NEW q \in Requests
               PROVE  /\ at'[q] # "idle" => target(q)' <= population'
                      /\ at'[q] \in {"root", "count", "write"} => current(q)' = role'[target(q)']
    BY DEF ReadInv
  <1> USE DEF target, current
  <1>t. TypeOK /\ TypeOK'
    BY TypeNext
  <1>1. CASE UNCHANGED vars
    BY <1>1 DEF vars, ReadInv
  <1>2. ASSUME NEW u \in Users, NEW t \in Users, NEW n \in Roles \cup {Deactivated},
               Resolve(q, u, t, n)
        PROVE  at'[q] = "waiting" /\ target(q)' <= population'
    BY <1>2, <1>t DEF Resolve, TypeOK, Users, profiles
  <1>3. ASSUME Lock(q) \/ SkipChecks(q) \/ CheckRoot(q) \/ Count(q), request' = request
        PROVE  /\ at[q] # "idle" /\ request'[q] = request[q] /\ role' = role /\ population' = population
               /\ at'[q] = "read" \/ at[q] \in {"root", "count", "write"}
    BY <1>3 DEF Lock, GoTo, SkipChecks, CheckRoot, Count, TypeOK, profiles
  <1>4. CASE Read(q)
    BY <1>4 DEF Read, ReadInv, TypeOK, Request, profiles, Users
  <1>5. ASSUME End(q) PROVE at'[q] = "idle"
    BY <1>5 DEF End, GoTo, TypeOK
  <1>6. ASSUME Lock(q) \/ Step(q) \/ Fail(q)
        PROVE  Read(q) \/ End(q) \/ ((Lock(q) \/ SkipChecks(q) \/ CheckRoot(q) \/ Count(q)) /\ request' = request)
    BY <1>6 DEF Lock, Step, SkipChecks, Forbid, CheckRoot, Count, Write, Fail
  <1>7. ASSUME Lock(q) \/ Step(q) \/ Fail(q)
        PROVE  /\ at'[q] # "idle" => target(q)' <= population'
               /\ at'[q] \in {"root", "count", "write"} => current(q)' = role'[target(q)']
    BY <1>3, <1>4, <1>5, <1>6, <1>7 DEF ReadInv
  <1>8. ASSUME NEW r \in Requests, r # q,
               \/ Lock(r) \/ Step(r) \/ Fail(r)
               \/ \E u, t \in Users, n \in Roles \cup {Deactivated} : Resolve(r, u, t, n)
        PROVE  /\ at'[q] # "idle" => target(q)' <= population'
               /\ at'[q] \in {"root", "count", "write"} => current(q)' = role'[target(q)']
    <2>1. at'[q] = at[q] /\ request'[q] = request[q]
      BY <1>8, OthersWait
    <2>2. population' = population
      BY <1>8 DEF Lock, Step, Read, SkipChecks, Forbid, CheckRoot, Count, Write, Fail, Resolve, profiles
    <2>3. role' = role \/ at[r] \in InTransaction
      BY <1>8 DEF Lock, Step, Read, SkipChecks, Forbid, CheckRoot, Count, Write, Fail, Resolve,
                  profiles, InTransaction
    <2>4. at[q] \in {"root", "count", "write"} => role' = role
      BY <2>3, <1>8, Alone DEF InTransaction
    <2> QED
      BY <2>1, <2>2, <2>4 DEF ReadInv
  <1>9. ASSUME NEW newRole \in Roles, Create(newRole)
        PROVE  /\ at'[q] # "idle" => target(q)' <= population'
               /\ at'[q] \in {"root", "count", "write"} => current(q)' = role'[target(q)']
    <2>1. at' = at /\ request' = request
      BY <1>9 DEF Create
    <2>2. target(q) \in Nat /\ target(q) >= 1 /\ population \in Nat
      BY UsersAssumption DEF TypeOK, Request, Users
    <2>3. target(q) <= population => role'[target(q)] = role[target(q)]
      BY <2>2, <1>9, CreateType
    <2> QED
      BY <2>1, <2>2, <2>3, <1>9, CreateType DEF ReadInv, InTransaction
  <1>10. ASSUME NEW u \in Users, Intervene(u) PROVE UNCHANGED <<at, request, role, population>>
    BY <1>10 DEF Intervene
  <1>11. Join \/ CheckSetup \/ EndSetup =>
             (\E newRole \in Roles : Create(newRole)) \/ UNCHANGED <<at, request, role, population>>
    BY DEF Join, CheckSetup, EndSetup, Roles, profiles
  <1> QED
    BY <1>1, <1>2, <1>7, <1>8, <1>9, <1>10, <1>11 DEF Next, ReadInv

\* What the checks found is still so: nobody else is in a transaction, and the
\* writers without the lock falsify nothing.
LEMMA CheckInvNext == IndInv /\ [Next]_vars => CheckInv'
  <1> DEFINE Checked(q) ==
        /\ at[q] \in {"count", "write"} =>
            /\ next(q) = current(q) \/ AdminMay(q) \/ as(q) = "super_admin"
            /\ Demotes(q) => ~IsRoot(target(q))
        /\ at[q] = "write" /\ Demotes(q) => Enough
  <1> SUFFICES ASSUME IndInv, [Next]_vars, NEW q \in Requests PROVE Checked(q)'
    BY DEF CheckInv
  <1>t. TypeOK /\ TypeOK' /\ Checked(q) /\ target(q) \in Users
    BY TypeNext DEF IndInv, CheckInv, TypeOK, Request, target
  <1>s. ASSUME UNCHANGED <<SuperAdmins, request>>
        PROVE  /\ next(q)' = next(q) /\ current(q)' = current(q) /\ as(q)' = as(q)
               /\ target(q)' = target(q) /\ AdminMay(q)' = AdminMay(q) /\ Demotes(q)' = Demotes(q)
               /\ IsRoot(target(q))' = IsRoot(target(q)) /\ Enough' = Enough
    BY <1>s DEF next, current, as, target, AdminMay, Demotes, IsRoot, Enough
  <1>1. CASE UNCHANGED vars
    BY <1>1, <1>t, <1>s DEF vars, SuperAdmins
  <1>2. ASSUME at'[q] \notin {"count", "write"} PROVE Checked(q)'
    BY <1>2
  <1>3. CASE SkipChecks(q)
    <2>1. UNCHANGED <<SuperAdmins, request>> /\ SettledEarly(q)
      BY <1>3 DEF SkipChecks, SuperAdmins, profiles
    <2>2. ~Demotes(q) /\ (next(q) = current(q) \/ AdminMay(q))
      BY <2>1 DEF SettledEarly, Demotes, AdminMay
    <2> QED
      BY <2>1, <2>2, <1>s
  <1>4. CASE CheckRoot(q)
    <2>1. UNCHANGED SuperAdmins /\ as(q) = "super_admin"
      BY <1>4 DEF CheckRoot, SuperAdmins, profiles
    <2>2. CASE IsRoot(target(q))
      BY <2>2, <1>4, <1>2 DEF CheckRoot, End, GoTo, TypeOK, IndInv
    <2>3. CASE ~IsRoot(target(q))
      <3>1. UNCHANGED request /\ at'[q] = IF current(q) = "super_admin" THEN "count" ELSE "write"
        BY <2>3, <1>4, <1>t DEF CheckRoot, GoTo, TypeOK
      <3>2. at'[q] = "write" => ~Demotes(q)
        BY <3>1 DEF Demotes
      <3> QED
        BY <2>1, <2>3, <3>1, <3>2, <1>s
    <2> QED
      BY <2>2, <2>3
  <1>5. CASE Count(q)
    <2>1. UNCHANGED SuperAdmins
      BY <1>5 DEF Count, SuperAdmins, profiles
    <2>2. CASE Enough
      BY <2>1, <2>2, <1>5, <1>t, <1>s DEF Count
    <2>3. CASE ~Enough
      BY <2>3, <1>5, <1>2, <1>t DEF Count, End, GoTo, TypeOK
    <2> QED
      BY <2>2, <2>3
  <1>6. ASSUME \/ Lock(q) \/ Step(q) \/ Fail(q)
               \/ \E u, t \in Users, n \in Roles \cup {Deactivated} : Resolve(q, u, t, n)
        PROVE  \/ SkipChecks(q) \/ CheckRoot(q) \/ Count(q)
               \/ at'[q] \notin {"count", "write"}
    BY <1>6, <1>t DEF Lock, Step, Read, Forbid, Write, Fail, Resolve, End, GoTo, TypeOK
  <1>7. ASSUME NEW r \in Requests, r # q,
               \/ Lock(r) \/ Step(r) \/ Fail(r)
               \/ \E u, t \in Users, n \in Roles \cup {Deactivated} : Resolve(r, u, t, n)
        PROVE  Checked(q)'
    <2>1. at'[q] = at[q] /\ request'[q] = request[q]
      BY <1>7, <1>t, OthersWait
    <2>2. CASE at[q] \notin {"count", "write"}
      BY <2>1, <2>2, <1>2
    <2>3. CASE at[q] \in {"count", "write"}
      <3>1. at[r] \notin InTransaction
        BY <2>3, <1>7, <1>t, Alone DEF InTransaction
      <3>2. UNCHANGED SuperAdmins
        BY <3>1, <1>7 DEF Lock, Step, Read, SkipChecks, Forbid, CheckRoot, Count, Write, Fail, Resolve,
                          profiles, InTransaction, SuperAdmins
      <3> QED
        BY <2>1, <3>2, <1>t DEF next, current, as, target, AdminMay, Demotes, IsRoot, Enough
    <2> QED
      BY <2>2, <2>3
  <1>8. ASSUME NEW newRole \in Roles, Create(newRole)
        PROVE  Checked(q)'
    <2>1. at' = at /\ request' = request
      BY <1>8 DEF Create
    <2>2. CASE at[q] \in {"count", "write"}
      <3>1. target(q) \in 1..population
        BY <2>2, <1>t, UsersAssumption DEF IndInv, ReadInv, TypeOK, Users
      <3>2. (~IsRoot(target(q)) => ~IsRoot(target(q))') /\ (Enough => Enough')
        <4> DEFINE t == target(q)
        <4>1. (~IsRoot(t) => ~IsRoot(t)') /\ (Enough => Enough')
          BY <3>1, <1>8, <1>t, <2>1, CreateKeepsChecks DEF target, IsRoot
        <4> QED
          BY <4>1
      <3> QED
        BY <2>1, <3>2, <1>t DEF next, current, as, target, AdminMay, Demotes
    <2> QED
      BY <2>1, <2>2, <1>2
  <1>9. ASSUME NEW u \in Users, Intervene(u) PROVE Checked(q)'
    <2>1. at' = at /\ request' = request
      BY <1>9 DEF Intervene
    <2>2. ~IsRoot(target(q))' /\ ~Enough
      BY <2>1, <1>9, <1>t, InterveneKeepsChecks DEF target, IsRoot
    <2> QED
      BY <2>1, <2>2, <1>t DEF next, current, as, target, AdminMay, Demotes
  <1>10. Join \/ CheckSetup \/ EndSetup =>
             (\E newRole \in Roles : Create(newRole)) \/ UNCHANGED <<at, request, profiles>>
    BY DEF Join, CheckSetup, EndSetup, Roles
  <1>11. ASSUME UNCHANGED <<at, request, profiles>> PROVE Checked(q)'
    BY <1>11, <1>t, <1>s DEF profiles, SuperAdmins
  <1> HIDE DEF Checked
  <1> QED
    BY <1>1, <1>2, <1>3, <1>4, <1>5, <1>6, <1>7, <1>8, <1>9, <1>10, <1>11 DEF Next

\* The inductive invariant: types and lock, truthful reads, lasting checks.
THEOREM Invariance == Spec => []IndInv
  <1>1. Init => IndInv
    <2> SUFFICES ASSUME Init PROVE IndInv
      OBVIOUS
    <2>1. NoRequest \in Request
      BY UsersAssumption DEF NoRequest, Request, Users, Roles
    <2>2. population \in Users /\ active \subseteq 1..population
      BY UsersAssumption DEF Init, Users
    <2>3. role \in [Users -> Roles]
      BY DEF Init, Roles
    <2>4. setupChecked \in BOOLEAN
      BY DEF Init
    <2>5. 0 \in 0..MaxFaults /\ 0 \in 0..MaxInterventions
      BY UsersAssumption
    <2>6. TypeOK
      BY <2>1, <2>2, <2>3, <2>4, <2>5, UsersAssumption DEF Init, TypeOK, InTransaction
    <2> QED
      BY <2>6 DEF Init, IndInv, ReadInv, CheckInv
  <1>2. IndInv /\ [Next]_vars => IndInv'
    BY TypeNext, ReadInvNext, CheckInvNext DEF IndInv
  <1> QED
    BY <1>1, <1>2, PTL DEF Spec

\* Profiles, requests and the lock keep their types.
THEOREM TypeCorrectness == Spec => []TypeOK
  BY Invariance, PTL DEF IndInv

\* Who is super_admin and who is the root changes only by a write, by /setup
\* where there is none, or by the database itself.
LEMMA SuperAdminsKept ==
    ASSUME IndInv, [Next]_vars, interventions' = interventions,
           ~ \E r \in Requests : Write(r)
    PROVE  SuperAdmins \subseteq SuperAdmins'
  <1>t. TypeOK
    BY DEF IndInv
  <1>1. CASE UNCHANGED profiles
    BY <1>1 DEF profiles, SuperAdmins
  <1>2. ASSUME NEW newRole \in Roles, Create(newRole) PROVE SuperAdmins \subseteq SuperAdmins'
    BY <1>2, <1>t, CreateType DEF SuperAdmins, TypeOK, Users
  <1>3. ~ \E u \in Users : Intervene(u)
    BY <1>t, UsersAssumption DEF Intervene, TypeOK
  <1>4. Join \/ CheckSetup \/ EndSetup =>
            (\E newRole \in Roles : Create(newRole)) \/ UNCHANGED profiles
    BY DEF Join, CheckSetup, EndSetup, Roles
  <1> QED
    BY <1>1, <1>2, <1>3, <1>4
       DEF Next, Step, Resolve, Lock, Read, SkipChecks, Forbid, CheckRoot, Count, Fail, CheckSetup, EndSetup, profiles, vars

\* A write takes at most its target away from the super_admins, and that one is
\* neither the root nor the last.
LEMMA WriteKeeps ==
    ASSUME IndInv, NEW r \in Requests, Write(r)
    PROVE  /\ SuperAdmins \ {target(r)} \subseteq SuperAdmins'
           /\ \/ SuperAdmins \subseteq SuperAdmins'
              \/ ~IsRoot(target(r)) /\ Enough
  <1>t. TypeOK /\ target(r) \in Users /\ at[r] = "write"
    BY DEF IndInv, TypeOK, Request, target, Write
  <1>0. active \subseteq Users
    BY <1>t, UsersAssumption DEF TypeOK, Users
  <1>w. \/ next(r) = Deactivated /\ active' = active \ {target(r)} /\ role' = role
        \/ next(r) # Deactivated /\ role' = [role EXCEPT ![target(r)] = next(r)] /\ active' = active
    BY DEF Write
  <1>1. SuperAdmins \ {target(r)} \subseteq SuperAdmins'
    BY <1>0, <1>t, <1>w DEF SuperAdmins, TypeOK
  <1>2. CASE Demotes(r)
    BY <1>1, <1>2, <1>t DEF IndInv, CheckInv
  <1>3. CASE ~Demotes(r)
    <2>1. CASE next(r) = "super_admin"
      BY <2>1, <1>0, <1>t, <1>w DEF SuperAdmins, TypeOK, Deactivated
    <2>2. CASE current(r) # "super_admin"
      <3>1. target(r) \notin SuperAdmins
        BY <2>2, <1>t DEF IndInv, ReadInv, SuperAdmins
      <3> QED
        BY <1>1, <3>1
    <2> QED
      BY <1>3, <2>1, <2>2 DEF Demotes
  <1> QED
    BY <1>1, <1>2, <1>3

\* However many requests there are, none demotes or deactivates the root.
THEOREM RootStays == Spec => RootIsKept
  <1>1. ASSUME IndInv, [Next]_vars, NEW u \in Users, IsRoot(u), interventions' = interventions
        PROVE  u \in SuperAdmins'
    <2>1. CASE \E r \in Requests : Write(r)
      <3>1. PICK r \in Requests : Write(r)
        BY <2>1
      <3>2. CASE u = target(r)
        BY <3>1, <3>2, <1>1, WriteKeeps DEF IsRoot
      <3>3. CASE u # target(r)
        BY <3>1, <3>3, <1>1, WriteKeeps DEF IsRoot
      <3> QED
        BY <3>2, <3>3
    <2> QED
      BY <2>1, <1>1, SuperAdminsKept DEF IsRoot
  <1>2. IndInv /\ [Next]_vars =>
            [\A u \in Users : IsRoot(u) /\ interventions' = interventions => u \in SuperAdmins']_vars
    BY <1>1
  <1> QED
    BY <1>2, Invariance, PTL DEF Spec, RootIsKept

\* Two super_admins are more than one.
LEMMA EnoughCounted == TypeOK /\ Enough => Cardinality(SuperAdmins) > 1
  <1> SUFFICES ASSUME TypeOK, NEW u \in SuperAdmins, NEW v \in SuperAdmins, u # v
               PROVE  Cardinality(SuperAdmins) > 1
    BY DEF Enough
  <1>1. population \in Int /\ SuperAdmins \subseteq 1..population
    <2>1. population \in Int
      BY UsersAssumption DEF TypeOK, Users
    <2> QED
      BY <2>1 DEF SuperAdmins, TypeOK
  <1>2. IsFiniteSet(SuperAdmins) /\ Cardinality(SuperAdmins) \in Nat
    <2>1. IsFiniteSet(1..population)
      BY <1>1, FS_Interval
    <2> QED
      BY <1>1, <2>1, FS_Subset, FS_CardinalityType
  <1>3. Cardinality(SuperAdmins) # 0
    BY <1>2, FS_EmptySet
  <1>4. Cardinality(SuperAdmins) # 1
    BY <1>2, FS_Singleton
  <1> QED
    BY <1>2, <1>3, <1>4

\* What a request has read and counted under the lock is still so when it writes, however
\* many requests there are, and although others add profiles without the lock.
THEOREM DecisionsHold == Spec => []DecisionsStillHold
  <1>1. IndInv => DecisionsStillHold
    BY EnoughCounted DEF IndInv, ReadInv, CheckInv, DecisionsStillHold
  <1> QED
    BY <1>1, Invariance, PTL

\* However many requests there are, none of an admin changes a super_admin role.
THEOREM AdminsDoNotInterfere == Spec => AdminsLeaveSuperAdmins
  <1>1. ASSUME IndInv, [Next]_vars PROVE SuperAdminChanges(ResolvedAsSuperAdmin)
    <2> SUFFICES ASSUME NEW u \in Users, role'[u] # role[u], "super_admin" \in {role[u], role'[u]}
                 PROVE  \/ population' = u /\ population # u
                        \/ \E r \in Requests : /\ at[r] = "write" /\ at'[r] = "idle" /\ target(r) = u
                                              /\ r \in ResolvedAsSuperAdmin
      BY DEF SuperAdminChanges
    <2>t. TypeOK
      BY <1>1 DEF IndInv
    <2>1. ASSUME NEW r \in Requests, Write(r)
          PROVE  /\ at[r] = "write" /\ at'[r] = "idle" /\ target(r) = u
                 /\ r \in ResolvedAsSuperAdmin
      <3>1. at[r] = "write" /\ at'[r] = "idle"
        BY <2>1, <2>t DEF Write, End, GoTo, TypeOK
      <3>2. target(r) = u /\ role'[u] = next(r)
        BY <2>1, <2>t DEF Write, TypeOK
      <3>3. current(r) = role[u]
        BY <3>1, <3>2, <1>1 DEF IndInv, ReadInv
      <3>4. as(r) = "super_admin"
        BY <3>1, <3>2, <3>3, <1>1 DEF IndInv, CheckInv, AdminMay
      <3> QED
        BY <3>1, <3>2, <3>4 DEF ResolvedAsSuperAdmin
    <2>2. ASSUME NEW newRole \in Roles, Create(newRole) PROVE population' = u /\ population # u
      BY <2>2, <2>t DEF Create, TypeOK, Users
    <2>3. Join \/ CheckSetup \/ EndSetup => (\E newRole \in Roles : Create(newRole)) \/ role' = role
      BY DEF Join, CheckSetup, EndSetup, Roles, profiles
    <2> QED
      BY <2>1, <2>2, <2>3, <1>1
         DEF Next, Step, Resolve, Lock, Read, SkipChecks, Forbid, CheckRoot, Count, Fail, Intervene,
             profiles, vars
  <1>2. IndInv /\ [Next]_vars => [SuperAdminChanges(ResolvedAsSuperAdmin)]_vars
    BY <1>1
  <1> QED
    BY <1>2, Invariance, PTL DEF Spec, AdminsLeaveSuperAdmins
=============================================================================
