---------------------------- MODULE SetupProofs -----------------------------
(***************************************************************************)
(* Theorems about POST /setup/super-admin for any number of concurrent     *)
(* requests, addresses and failures.  The advisory lock makes the check    *)
(* last until the insert; a compensation deletes what its own request has  *)
(* registered, and the foreign key of the settings keeps what they refer   *)
(* to.  The second part is about the wizard and the entry pages (Wizard),  *)
(* which are built upon the contract of that route.                        *)
(***************************************************************************)
EXTENDS Setup, Wizard, FiniteSetTheorems, TLAPS

\* A call that fails is counted.
LEMMA FaultType ==
    ASSUME TypeOK, Fault
    PROVE  faults' \in 0..MaxFaults /\ faults' # 0
  BY SetupAssumption DEF Fault, TypeOK

\* Deleting an Auth user keeps the accounts typed.
LEMMA DeleteType ==
    ASSUME TypeOK, NEW u \in Accounts, DeleteAccount(u)
    PROVE  /\ email' \in [Accounts -> Emails \cup {NoEmail}]
           /\ fresh' \in 1..(MaxAccounts + 1)
           /\ profile' \in [Accounts -> {"none", "active", "deactivated"}]
           /\ signedIn' \subseteq Accounts
           /\ audited' \subseteq Accounts
           /\ answered' = answered \ {u} /\ named' = named \ {u}
           /\ email'[u] = NoEmail /\ profile'[u] = "none" /\ audited' = audited
           /\ \A v \in Accounts : v # u => email'[v] = email[v] /\ profile'[v] = profile[v]
  BY DEF DeleteAccount, TypeOK

\* Registering an Auth user takes an unused id.
LEMMA RegisterType ==
    ASSUME TypeOK, NEW r \in Requests, Register(wants[r])
    PROVE  /\ fresh \in Accounts
           /\ email' \in [Accounts -> Emails \cup {NoEmail}]
           /\ fresh' \in 1..(MaxAccounts + 1)
           /\ email'[fresh] # NoEmail
           /\ \A v \in Accounts : v # fresh => email'[v] = email[v]
           /\ profile' = profile /\ signedIn' = signedIn /\ audited' = audited
           /\ UNCHANGED histories
  BY SetupAssumption DEF Register, TypeOK, Accounts

\* The insert gives the request's user, who exists, an active profile.
LEMMA InsertType ==
    ASSUME TypeOK, NEW r \in Requests, Insert(r)
    PROVE  /\ profile' \in [Accounts -> {"none", "active", "deactivated"}]
           /\ profile'[user[r]] = "active" /\ email[user[r]] # NoEmail
           /\ \A v \in Accounts : v # user[r] => profile'[v] = profile[v]
           /\ email' = email /\ fresh' = fresh /\ signedIn' = signedIn /\ audited' = audited
           /\ UNCHANGED histories
           /\ setupLock' = Unlocked(r)
  BY DEF Insert, TypeOK

\* What WizardTypeOK says of the accounts.
AccountsTyped ==
    /\ email \in [Accounts -> Emails \cup {NoEmail}]
    /\ fresh \in 1..(MaxAccounts + 1)
    /\ profile \in [Accounts -> {"none", "active", "deactivated"}]
    /\ signedIn \subseteq Accounts
    /\ audited \subseteq Accounts /\ answered \subseteq Accounts /\ named \subseteq Accounts

\* What WizardTypeOK says of the requests and of the advisory lock.
RequestsTyped ==
    /\ setupLock \in Requests \cup {Nobody}
    /\ at \in [Requests -> Stages]
    /\ wants \in [Requests -> Emails]
    /\ user \in [Requests -> Accounts]
    /\ orphan \in [Requests -> BOOLEAN]
    /\ faults \in 0..MaxFaults
    /\ recoveries \in 0..MaxRecoveries
    /\ \A r \in Requests : setupLock = r <=> at[r] \in {"check", "insert"}

\* Every step of a request keeps the accounts typed.
LEMMA AccountsTypeNext == TypeOK /\ [Next]_vars => AccountsTyped'
  <1> SUFFICES ASSUME TypeOK, [Next]_vars PROVE AccountsTyped'
    OBVIOUS
  <1> USE DEF AccountsTyped, accounts, histories, locals
  <1>1. CASE UNCHANGED accounts
    BY <1>1 DEF TypeOK
  <1>2. ASSUME NEW r \in Requests, CreateUser(r) \/ CreateUserUnacknowledged(r)
        PROVE  AccountsTyped'
    BY <1>2, RegisterType DEF CreateUser, CreateUserUnacknowledged, TypeOK
  <1>3. ASSUME NEW r \in Requests, DeleteOrphan(r) \/ Undo(r) PROVE AccountsTyped'
    BY <1>3, DeleteType DEF DeleteOrphan, Undo, TypeOK
  <1>4. ASSUME NEW r \in Requests, InsertAndCommit(r) \/ CommitUnacknowledged(r)
        PROVE  AccountsTyped'
    BY <1>4, InsertType DEF InsertAndCommit, CommitUnacknowledged, TypeOK
  <1>5. ASSUME NEW r \in Requests, SignIn(r) \/ RecordJwtExpiry(r) \/ AnswerUnrecorded(r)
        PROVE  AccountsTyped'
    BY <1>5 DEF SignIn, RecordJwtExpiry, RecordLifetime, AnswerUnrecorded, TypeOK
  <1>6. ASSUME NEW u \in Accounts, Reopen(u) \/ PageRecords(u) PROVE AccountsTyped'
    BY <1>6 DEF Reopen, PageRecords, RecordLifetime, TypeOK
  <1> QED BY <1>1, <1>2, <1>3, <1>4, <1>5, <1>6 DEF Next, vars, Post, Step, Failure, EmailTaken,
       FindAuthUser, AuthUserVanished, CheckOpen, OrphanNotDeleted, Lock, Check, AlreadySetup,
       UserGone, LateFailure, UndoFails, Crash

\* Every step keeps requests typed, and the advisory lock with the one transaction
\* between its check and its end.
LEMMA RequestsTypeNext == TypeOK /\ [Next]_vars => RequestsTyped'
  <1> SUFFICES ASSUME TypeOK, [Next]_vars PROVE RequestsTyped'
    OBVIOUS
  <1> USE SetupAssumption DEF RequestsTyped, accounts, locals
  <1>1. CASE UNCHANGED <<setupLock, at, wants, user, orphan, faults, recoveries>>
    BY <1>1 DEF TypeOK
  <1>2. ASSUME NEW u \in Accounts, Reopen(u) \/ PageRecords(u) PROVE RequestsTyped'
    BY <1>2 DEF Reopen, PageRecords, TypeOK
  <1>3. ASSUME NEW r \in Requests, Post(r) PROVE RequestsTyped'
    BY <1>3 DEF Post, Goto, TypeOK, Stages
  <1>4. ASSUME NEW r \in Requests, Step(r) PROVE RequestsTyped'
    <2>1. CASE CreateUser(r)
      BY <2>1, RegisterType DEF CreateUser, Goto, TypeOK, Stages
    <2>2. CASE EmailTaken(r) \/ AuthUserVanished(r) \/ CheckOpen(r) \/ DeleteOrphan(r)
            \/ OrphanNotDeleted(r) \/ SignIn(r) \/ RecordJwtExpiry(r) \/ AnswerUnrecorded(r)
            \/ LateFailure(r) \/ Undo(r)
      BY <2>2 DEF EmailTaken, AuthUserVanished, CheckOpen, DeleteOrphan, OrphanNotDeleted,
         SignIn, RecordJwtExpiry, AnswerUnrecorded, LateFailure, Undo, Goto, TypeOK, Stages
    <2>3. CASE FindAuthUser(r)
      BY <2>3 DEF FindAuthUser, Registered, Goto, TypeOK, Stages
    <2>4. CASE Lock(r) \/ Check(r)
      BY <2>4 DEF Lock, Check, Goto, TypeOK, Stages
    <2>5. CASE AlreadySetup(r) \/ UserGone(r)
      BY <2>5 DEF AlreadySetup, UserGone, AfterRollback, Unlocked, Goto, TypeOK, Stages
    <2>6. CASE InsertAndCommit(r)
      BY <2>6, InsertType DEF InsertAndCommit, Unlocked, Goto, TypeOK, Stages
    <2> QED BY <1>4, <2>1, <2>2, <2>3, <2>4, <2>5, <2>6 DEF Step
  <1>5. ASSUME NEW r \in Requests, Failure(r) PROVE RequestsTyped'
    <2>1. CASE CreateUserUnacknowledged(r) \/ UndoFails(r)
      BY <2>1, FaultType DEF CreateUserUnacknowledged, UndoFails, Goto, TypeOK, Stages
    <2>2. CASE CommitUnacknowledged(r)
      BY <2>2, FaultType, InsertType DEF CommitUnacknowledged, AfterRollback, Unlocked, Goto,
         TypeOK, Stages
    <2>3. CASE Crash(r)
      BY <2>3, FaultType DEF Crash, Unlocked, Goto, TypeOK, Stages
    <2> QED BY <1>5, <2>1, <2>2, <2>3 DEF Failure
  <1> QED BY <1>1, <1>2, <1>3, <1>4, <1>5 DEF Next, vars

\* Every step keeps every variable typed.
LEMMA TypeNext == TypeOK /\ [Next]_vars => TypeOK'
  BY AccountsTypeNext, RequestsTypeNext DEF AccountsTyped, RequestsTyped, TypeOK

-----------------------------------------------------------------------------
\* The ways a step can change the accounts and who the settings refer to.
LEMMA AccountsStep ==
    ASSUME TypeOK, [Next]_vars
    PROVE  \/ UNCHANGED <<email, profile, audited, named>>
           \/ \E r \in Requests : Register(wants[r])
           \/ \E u \in Accounts :
                 /\ DeleteAccount(u) /\ Deletable(u)
                 /\ \E r \in Requests : at[r] \in {"delete", "undo"} /\ user[r] = u
           \/ \E r \in Requests : at[r] = "insert" /\ Insert(r)
           \/ \E u \in Accounts : RecordLifetime(u)
           \/ \E u \in Accounts : Reopen(u)
  <1> USE DEF accounts, histories, locals
  <1>1. CASE \E r \in Requests : DeleteOrphan(r) \/ Undo(r) \/ RecordJwtExpiry(r)
    BY <1>1 DEF DeleteOrphan, Undo, RecordJwtExpiry, TypeOK
  <1>2. CASE ~\E r \in Requests : DeleteOrphan(r) \/ Undo(r) \/ RecordJwtExpiry(r)
    BY <1>2 DEF Next, vars, Post, Step, Failure, CreateUser, CreateUserUnacknowledged,
       EmailTaken, FindAuthUser, AuthUserVanished, CheckOpen, OrphanNotDeleted, Lock, Check,
       AlreadySetup, InsertAndCommit, CommitUnacknowledged, UserGone, UndoFails, SignIn,
       AnswerUnrecorded, LateFailure, Crash, PageRecords
  <1> QED BY <1>1, <1>2

\* Only the insert of a request makes a super_admin.
LEMMA NewSuperAdmin ==
    ASSUME TypeOK, [Next]_vars, NEW u \in Accounts, u \in SuperAdmins', u \notin SuperAdmins
    PROVE  \E r \in Requests : at[r] = "insert" /\ Insert(r) /\ user[r] = u
  <1>1. profile[u] # "active" /\ profile'[u] = "active"
    BY DEF SuperAdmins
  <1>2. CASE \E r \in Requests : Register(wants[r])
    BY <1>1, <1>2 DEF Register
  <1>3. CASE \E v \in Accounts : DeleteAccount(v)
    BY <1>1, <1>3 DEF DeleteAccount, TypeOK
  <1>4. CASE \E r \in Requests : at[r] = "insert" /\ Insert(r)
    BY <1>1, <1>4 DEF Insert, TypeOK
  <1>5. CASE \E v \in Accounts : RecordLifetime(v)
    BY <1>1, <1>5 DEF RecordLifetime
  <1>6. CASE \E v \in Accounts : Reopen(v)
    BY <1>1, <1>6 DEF Reopen, TypeOK
  <1>7. CASE profile' = profile
    BY <1>1, <1>7
  <1> QED BY <1>2, <1>3, <1>4, <1>5, <1>6, <1>7, AccountsStep

\* Two requests are never both between their check and their insert.
LEMMA OneInserter ==
    ASSUME TypeOK, NEW r \in Requests, NEW s \in Requests,
           at[r] = "insert", at[s] \in {"check", "insert"}
    PROVE  r = s
  BY DEF TypeOK

\* Nobody becomes super_admin between the check of a request and its insert.
LEMMA CheckNext == TypeOK /\ CheckHolds /\ [Next]_vars => CheckHolds'
  <1> SUFFICES ASSUME TypeOK, CheckHolds, [Next]_vars,
                      NEW s \in Requests, at'[s] = "insert",
                      NEW u \in Accounts, u \in SuperAdmins'
               PROVE  FALSE
    BY DEF CheckHolds, SuperAdmins
  <1> USE DEF accounts, histories, locals
  <1>1. at[s] \in {"check", "insert"} /\ (at[s] = "check" => SuperAdmins = {} /\ Check(s))
    BY DEF Next, vars, Post, Step, Failure, CreateUser, CreateUserUnacknowledged, EmailTaken,
       FindAuthUser, AuthUserVanished, CheckOpen, DeleteOrphan, OrphanNotDeleted, Lock, Check,
       NoSuperAdmin, AlreadySetup, InsertAndCommit, CommitUnacknowledged, UserGone, Undo,
       UndoFails, SignIn, RecordJwtExpiry, AnswerUnrecorded, LateFailure, Crash, Reopen,
       PageRecords, Goto, AfterRollback, TypeOK
  <1>2. SuperAdmins = {}
    BY <1>1 DEF CheckHolds
  <1>3. PICK r \in Requests : at[r] = "insert" /\ Insert(r) /\ user[r] = u
    BY <1>2, NewSuperAdmin
  <1>4. r = s
    BY <1>1, <1>3, OneInserter
  <1>5. at[s] = "insert" /\ setupLock' = Unlocked(s)
    BY <1>3, <1>4 DEF Insert
  <1>6. setupLock = s /\ setupLock' = Nobody
    BY <1>5 DEF TypeOK, Unlocked
  <1>7. RequestsTyped'
    BY RequestsTypeNext
  <1> QED BY <1>6, <1>7, SetupAssumption DEF RequestsTyped

\* One super_admin at a time.
LEMMA AtMostOneNext == TypeOK /\ CheckHolds /\ AtMostOne /\ [Next]_vars => AtMostOne'
  <1> SUFFICES ASSUME TypeOK, CheckHolds, AtMostOne, [Next]_vars,
                      NEW u \in SuperAdmins', NEW v \in SuperAdmins'
               PROVE  u = v
    BY DEF AtMostOne
  <1>1. u \in Accounts /\ v \in Accounts
    BY DEF SuperAdmins
  <1>2. CASE u \in SuperAdmins /\ v \in SuperAdmins
    BY <1>2 DEF AtMostOne
  <1>3. ASSUME NEW x \in Accounts, x \in SuperAdmins', x \notin SuperAdmins
        PROVE  SuperAdmins' = {x}
    <2>1. PICK r \in Requests : at[r] = "insert" /\ Insert(r) /\ user[r] = x
      BY <1>3, NewSuperAdmin
    <2>2. SuperAdmins = {}
      BY <2>1 DEF CheckHolds
    <2> QED BY <2>1, <2>2, InsertType DEF SuperAdmins
  <1> QED BY <1>1, <1>2, <1>3

\* A profile comes with an insert, which finds the user, and goes with its user.
LEMMA UsersNext == TypeOK /\ ProfilesHaveUsers /\ [Next]_vars => ProfilesHaveUsers'
  <1> SUFFICES ASSUME TypeOK, ProfilesHaveUsers, [Next]_vars,
                      NEW u \in Accounts, profile'[u] # "none"
               PROVE  email'[u] # NoEmail
    BY DEF ProfilesHaveUsers
  <1>1. CASE \E r \in Requests : Register(wants[r])
    BY <1>1, RegisterType DEF ProfilesHaveUsers
  <1>2. CASE \E v \in Accounts : DeleteAccount(v)
    BY <1>2, DeleteType DEF ProfilesHaveUsers
  <1>3. CASE \E r \in Requests : at[r] = "insert" /\ Insert(r)
    BY <1>3, InsertType DEF ProfilesHaveUsers
  <1>4. CASE \E v \in Accounts : RecordLifetime(v)
    BY <1>4 DEF RecordLifetime, ProfilesHaveUsers
  <1>5. CASE \E v \in Accounts : Reopen(v)
    BY <1>5 DEF Reopen, ProfilesHaveUsers, TypeOK
  <1>6. CASE email' = email /\ profile' = profile
    BY <1>6 DEF ProfilesHaveUsers
  <1> QED BY <1>1, <1>2, <1>3, <1>4, <1>5, <1>6, AccountsStep

\* An account the settings refer to cannot be deleted.
LEMMA AuditedNext ==
    TypeOK /\ ProfilesHaveUsers /\ RecordedAccountsExist /\ [Next]_vars => RecordedAccountsExist'
  <1> SUFFICES ASSUME TypeOK, ProfilesHaveUsers, RecordedAccountsExist, [Next]_vars,
                      NEW u \in audited'
               PROVE  email'[u] # NoEmail /\ profile'[u] # "none"
    BY DEF RecordedAccountsExist
  <1>1. CASE \E r \in Requests : Register(wants[r])
    BY <1>1, RegisterType DEF RecordedAccountsExist, TypeOK
  <1>2. CASE \E v \in Accounts : DeleteAccount(v) /\ Deletable(v)
    BY <1>2, DeleteType DEF RecordedAccountsExist, Deletable, TypeOK
  <1>3. CASE \E r \in Requests : at[r] = "insert" /\ Insert(r)
    BY <1>3, InsertType DEF RecordedAccountsExist, TypeOK
  <1>4. CASE \E v \in Accounts : RecordLifetime(v)
    BY <1>4 DEF RecordLifetime, ProfilesHaveUsers, TypeOK
  <1>5. CASE \E v \in Accounts : Reopen(v)
    BY <1>5 DEF Reopen, RecordedAccountsExist, TypeOK
  <1>6. CASE UNCHANGED <<email, profile, audited>>
    BY <1>6 DEF RecordedAccountsExist
  <1> QED BY <1>1, <1>2, <1>3, <1>4, <1>5, <1>6, AccountsStep

\* Without a fault, a request that registered a user is on its way to give it a profile
\* or to delete it.
LEMMA OrphansNext ==
    TypeOK /\ RecordedAccountsExist /\ NoOrphans /\ [Next]_vars => NoOrphans'
  <1> DEFINE Cares(r) == at[r] \in {"lock", "check", "insert", "undo"}
  <1> SUFFICES ASSUME TypeOK, RecordedAccountsExist, NoOrphans, [Next]_vars, faults' = 0,
                      NEW u \in Accounts, email'[u] # NoEmail, profile'[u] = "none"
               PROVE  \E r \in Requests : Cares(r)' /\ user'[r] = u
    BY DEF NoOrphans
  <1> USE SetupAssumption DEF accounts, histories, locals
  <1>1. faults = 0 /\ \A r \in Requests : ~Failure(r)
    BY FaultType DEF Failure, CreateUserUnacknowledged, CommitUnacknowledged, UndoFails, Crash,
       Fault, TypeOK, Next, vars, Post, Step, CreateUser, EmailTaken, FindAuthUser,
       AuthUserVanished, CheckOpen, DeleteOrphan, OrphanNotDeleted, Lock, Check, AlreadySetup,
       InsertAndCommit, UserGone, Undo, SignIn, RecordJwtExpiry, AnswerUnrecorded, LateFailure,
       Reopen, PageRecords
  <1>2. CASE \E r \in Requests : CreateUser(r) /\ u = fresh
    BY <1>2 DEF CreateUser, Goto, TypeOK
  <1>3. CASE ~\E r \in Requests : CreateUser(r) /\ u = fresh
    <2>1. email[u] # NoEmail /\ profile[u] = "none"
      <3>1. CASE \E r \in Requests : CreateUser(r)
        BY <1>3, <3>1, RegisterType DEF CreateUser
      <3>2. CASE \E v \in Accounts : DeleteAccount(v)
        BY <3>2, DeleteType
      <3>3. CASE \E r \in Requests : InsertAndCommit(r)
        BY <3>3, InsertType DEF InsertAndCommit
      <3>4. CASE \E v \in Accounts : Reopen(v)
        BY <3>4 DEF Reopen, TypeOK
      <3>5. CASE email' = email /\ profile' = profile
        BY <3>5
      <3> QED BY <1>1, <3>1, <3>2, <3>3, <3>4, <3>5 DEF Next, vars, Post, Step, EmailTaken,
           FindAuthUser, AuthUserVanished, CheckOpen, DeleteOrphan, OrphanNotDeleted, Lock,
           Check, AlreadySetup, UserGone, Undo, SignIn, RecordJwtExpiry, RecordLifetime,
           AnswerUnrecorded, LateFailure, PageRecords, TypeOK
    <2>2. PICK s \in Requests : Cares(s) /\ user[s] = u
      BY <1>1, <2>1 DEF NoOrphans
    <2>3. ASSUME NEW r \in Requests, r # s, Post(r) \/ Step(r)
          PROVE  at'[s] = at[s] /\ user'[s] = user[s]
      BY <2>3 DEF Post, Step, CreateUser, EmailTaken, FindAuthUser, AuthUserVanished, CheckOpen,
         DeleteOrphan, OrphanNotDeleted, Lock, Check, AlreadySetup, InsertAndCommit, UserGone,
         Undo, SignIn, RecordJwtExpiry, AnswerUnrecorded, LateFailure, Goto, TypeOK
    <2>4. ASSUME Step(s)
          PROVE  Cares(s)' /\ user'[s] = user[s]
      <3>1. CASE Lock(s) \/ Check(s) \/ AlreadySetup(s) \/ UserGone(s)
        BY <3>1 DEF Lock, Check, AlreadySetup, UserGone, AfterRollback, Goto, TypeOK
      <3>2. CASE InsertAndCommit(s)
        BY <2>2, <3>2, InsertType DEF InsertAndCommit
      <3>3. CASE Undo(s)
        <4>1. u \notin audited /\ Deletable(u)
          BY <2>1, <2>2 DEF RecordedAccountsExist, Deletable
        <4>2. DeleteAccount(u)
          BY <2>2, <3>3, <4>1 DEF Undo
        <4> QED BY <4>2, DeleteType
      <3> QED BY <2>2, <2>4, <3>1, <3>2, <3>3 DEF Step, CreateUser, EmailTaken, FindAuthUser,
           AuthUserVanished, CheckOpen, DeleteOrphan, OrphanNotDeleted, SignIn, RecordJwtExpiry,
           AnswerUnrecorded, LateFailure
    <2>5. ~Post(s)
      BY <2>2 DEF Post
    <2>6. UNCHANGED <<at, user>> \/ \E r \in Requests : Post(r) \/ Step(r)
      BY <1>1 DEF Next, vars, Reopen, PageRecords
    <2> QED BY <2>2, <2>3, <2>4, <2>5, <2>6
  <1> QED BY <1>2, <1>3

-----------------------------------------------------------------------------
\* How a request comes to be pending, and that its insert is the end of that.
LEMMA PendingStep ==
    ASSUME TypeOK, [Next]_vars, NEW s \in Requests, Pending(s)', ~CreateUser(s)
    PROVE  Pending(s) /\ user'[s] = user[s] /\ (at[s] = "insert" => at'[s] = "insert")
  <1>1. CASE UNCHANGED vars
    BY <1>1 DEF vars, Pending
  <1>2. CASE \E u \in Accounts : Reopen(u) \/ PageRecords(u)
    BY <1>2 DEF Reopen, PageRecords, Pending, locals
  <1>3. ASSUME NEW r \in Requests, Post(r) \/ Step(r) \/ Failure(r), r # s
        PROVE  UNCHANGED <<at[s], user[s]>>
    BY <1>3 DEF Post, Step, Failure, CreateUser, CreateUserUnacknowledged, EmailTaken,
       FindAuthUser, AuthUserVanished, CheckOpen, DeleteOrphan, OrphanNotDeleted, Lock, Check,
       AlreadySetup, InsertAndCommit, CommitUnacknowledged, UserGone, Undo, UndoFails, SignIn,
       RecordJwtExpiry, AnswerUnrecorded, LateFailure, Crash, Goto, TypeOK, locals
  <1>4. ASSUME Post(s) \/ Step(s) \/ Failure(s)
        PROVE  Lock(s) \/ Check(s)
    BY <1>4 DEF Post, Step, Failure, CreateUserUnacknowledged, EmailTaken, FindAuthUser,
       AuthUserVanished, CheckOpen, DeleteOrphan, OrphanNotDeleted, Lock, Check, AlreadySetup,
       InsertAndCommit, CommitUnacknowledged, UserGone, Undo, UndoFails, SignIn,
       RecordJwtExpiry, AnswerUnrecorded, LateFailure, Crash, Goto, AfterRollback, TypeOK,
       Pending
  <1>5. CASE Lock(s) \/ Check(s)
    BY <1>5 DEF Lock, Check, Goto, Pending, TypeOK, locals
  <1>6. CASE \E r \in Requests : r # s /\ (Post(r) \/ Step(r) \/ Failure(r))
    BY <1>3, <1>6 DEF Pending
  <1> QED BY <1>1, <1>2, <1>4, <1>5, <1>6 DEF Next

\* Whoever inserts is not pending afterwards.
LEMMA InserterIsDone ==
    ASSUME TypeOK, [Next]_vars, NEW r \in Requests, at[r] = "insert", Insert(r)
    PROVE  ~Pending(r)'
  <1>1. setupLock = r /\ setupLock' = Nobody
    BY DEF TypeOK, Insert, Unlocked
  <1>2. RequestsTyped'
    BY RequestsTypeNext
  <1>3. at'[r] # "insert"
    BY <1>1, <1>2, SetupAssumption DEF RequestsTyped
  <1>4. ~CreateUser(r)
    BY DEF CreateUser
  <1> QED BY <1>3, <1>4, PendingStep

\* Ids are used once.
LEMMA FreshGrows ==
    ASSUME TypeOK, [Next]_vars
    PROVE  fresh' = fresh \/ fresh' = fresh + 1
  BY DEF Next, vars, Post, Step, Failure, CreateUser, CreateUserUnacknowledged, EmailTaken,
     FindAuthUser, AuthUserVanished, CheckOpen, DeleteOrphan, OrphanNotDeleted, Lock, Check,
     AlreadySetup, InsertAndCommit, CommitUnacknowledged, UserGone, Undo, UndoFails, SignIn,
     RecordJwtExpiry, RecordLifetime, AnswerUnrecorded, LateFailure, Crash, Reopen, PageRecords,
     Register, Insert, DeleteAccount, accounts

\* How a request comes to own its user.
LEMMA OwnsStep ==
    ASSUME TypeOK, [Next]_vars, NEW s \in Requests, Owns(s)', ~CreateUser(s)
    PROVE  Owns(s) /\ user'[s] = user[s]
  <1>1. CASE UNCHANGED vars
    BY <1>1 DEF vars, Owns
  <1>2. CASE \E u \in Accounts : Reopen(u) \/ PageRecords(u)
    BY <1>2 DEF Reopen, PageRecords, Owns, locals
  <1>3. ASSUME NEW r \in Requests, Post(r) \/ Step(r) \/ Failure(r), r # s
        PROVE  UNCHANGED <<at[s], user[s]>>
    BY <1>3 DEF Post, Step, Failure, CreateUser, CreateUserUnacknowledged, EmailTaken,
       FindAuthUser, AuthUserVanished, CheckOpen, DeleteOrphan, OrphanNotDeleted, Lock, Check,
       AlreadySetup, InsertAndCommit, CommitUnacknowledged, UserGone, Undo, UndoFails, SignIn,
       RecordJwtExpiry, AnswerUnrecorded, LateFailure, Crash, Goto, TypeOK, locals
  <1>4. ASSUME Post(s) \/ Step(s) \/ Failure(s)
        PROVE  Owns(s) /\ user'[s] = user[s]
    BY <1>4 DEF Post, Step, Failure, CreateUserUnacknowledged, EmailTaken,
       FindAuthUser, AuthUserVanished, CheckOpen, DeleteOrphan, OrphanNotDeleted, Lock, Check,
       AlreadySetup, InsertAndCommit, CommitUnacknowledged, UserGone, Undo, UndoFails, SignIn,
       RecordJwtExpiry, AnswerUnrecorded, LateFailure, Crash, Goto, AfterRollback, TypeOK, Owns,
       locals
  <1>5. CASE \E r \in Requests : r # s /\ (Post(r) \/ Step(r) \/ Failure(r))
    BY <1>3, <1>5 DEF Owns
  <1> QED BY <1>1, <1>2, <1>4, <1>5 DEF Next

\* An answer is given to a request for the account it owns, and is its last step.
LEMMA AnsweredStep ==
    ASSUME TypeOK, [Next]_vars, NEW u \in answered', u \notin answered
    PROVE  \E r \in Requests : at[r] = "record" /\ at'[r] = "idle" /\ user[r] = u
  <1>1. CASE \E r \in Requests : RecordJwtExpiry(r) \/ AnswerUnrecorded(r)
    BY <1>1 DEF RecordJwtExpiry, AnswerUnrecorded, Goto, TypeOK
  <1>2. CASE ~\E r \in Requests : RecordJwtExpiry(r) \/ AnswerUnrecorded(r)
    BY <1>2 DEF Next, vars, Post, Step, Failure, CreateUser, CreateUserUnacknowledged,
       EmailTaken, FindAuthUser, AuthUserVanished, CheckOpen, DeleteOrphan, OrphanNotDeleted,
       Lock, Check, AlreadySetup, InsertAndCommit, CommitUnacknowledged, UserGone, Undo,
       UndoFails, SignIn, LateFailure, Crash, Reopen, PageRecords, Register, Insert,
       DeleteAccount, accounts, histories
  <1> QED BY <1>1, <1>2

\* A request's user is its own, without a profile until the insert and without an answer.
LEMMA PendingNext == TypeOK /\ PendingUsers /\ [Next]_vars => PendingUsers'
  <1> SUFFICES ASSUME TypeOK, PendingUsers, [Next]_vars PROVE PendingUsers'
    OBVIOUS
  <1>0. fresh \in Nat /\ (fresh' = fresh \/ fresh' = fresh + 1) /\ Accounts \subseteq Nat
    BY FreshGrows DEF TypeOK, Accounts
  <1>1. \A r \in Requests : user[r] \in Accounts
    BY DEF TypeOK
  <1>2. ASSUME NEW u \in Accounts, profile[u] = "none", profile'[u] # "none"
        PROVE  \E r \in Requests : at[r] = "insert" /\ Insert(r) /\ user[r] = u
    <2>1. CASE \E v \in Accounts : Reopen(v)
      BY <1>2, <2>1 DEF Reopen, TypeOK
    <2>2. CASE \E v \in Accounts : DeleteAccount(v)
      BY <1>2, <2>2, DeleteType
    <2>3. CASE \E r \in Requests : at[r] = "insert" /\ Insert(r)
      BY <1>2, <2>3, InsertType
    <2>4. CASE profile' = profile
      BY <1>2, <2>4
    <2> QED BY <2>1, <2>2, <2>3, <2>4, AccountsStep DEF Register, RecordLifetime
  <1>3. ASSUME NEW u \in Accounts, u >= fresh' PROVE profile'[u] = "none" /\ u \notin answered'
    <2>1. u >= fresh
      BY <1>0, <1>3
    <2>2. profile[u] = "none" /\ u \notin answered /\ \A r \in Requests : Owns(r) => user[r] # u
      BY <1>0, <1>1, <2>1 DEF PendingUsers
    <2> QED BY <1>2, <2>2, AnsweredStep DEF Owns
  <1>4. ASSUME NEW r \in Requests, Pending(r)', ~CreateUser(r)
        PROVE  profile'[user'[r]] = "none"
    <2>1. Pending(r) /\ user'[r] = user[r] /\ profile[user[r]] = "none"
      BY <1>4, PendingStep DEF PendingUsers
    <2>2. ASSUME NEW s \in Requests, at[s] = "insert", Insert(s), user[s] = user[r]
          PROVE  FALSE
      <3>1. s = r
        BY <2>1, <2>2 DEF PendingUsers, Pending, Owns
      <3> QED BY <1>4, <2>2, <3>1, InserterIsDone
    <2> QED BY <1>1, <1>2, <2>1, <2>2
  <1>5. ASSUME NEW r \in Requests, CreateUser(r)
        PROVE  /\ user'[r] = fresh /\ fresh' = fresh + 1 /\ profile' = profile
               /\ fresh \in Accounts /\ answered' = answered
    BY <1>5, RegisterType DEF CreateUser, Register, TypeOK, histories
  <1>6. ASSUME NEW r \in Requests, Owns(r)'
        PROVE  /\ user'[r] < fresh' /\ user'[r] \notin answered'
               /\ Pending(r)' => profile'[user'[r]] = "none"
    <2>1. CASE CreateUser(r)
      BY <1>0, <1>5, <2>1 DEF PendingUsers
    <2>2. CASE ~CreateUser(r)
      <3>1. Owns(r) /\ user'[r] = user[r]
        BY <1>6, <2>2, OwnsStep
      <3>2. user[r] < fresh /\ user[r] \in Nat /\ user[r] \notin answered
        BY <1>0, <1>1, <3>1 DEF PendingUsers
      <3>3. ASSUME NEW s \in Requests, at[s] = "record", at'[s] = "idle", user[s] = user[r]
            PROVE  FALSE
        BY <1>6, <3>1, <3>3 DEF PendingUsers, Owns
      <3>4. user[r] \notin answered'
        BY <3>2, <3>3, AnsweredStep
      <3> QED BY <1>0, <1>4, <2>2, <3>1, <3>2, <3>4
    <2> QED BY <2>1, <2>2
  <1>7. ASSUME NEW r \in Requests, NEW s \in Requests, Owns(r)', Owns(s)',
               user'[r] = user'[s], ~CreateUser(r)
        PROVE  r = s
    <2>1. Owns(r) /\ user'[r] = user[r]
      BY <1>7, OwnsStep
    <2>2. user[r] < fresh /\ user[r] \in Nat
      BY <1>0, <1>1, <2>1 DEF PendingUsers
    <2>3. ~CreateUser(s)
      <3>1. ASSUME CreateUser(s) PROVE user[r] = fresh
        BY <1>5, <1>7, <2>1, <3>1
      <3> QED BY <1>0, <2>2, <3>1
    <2>4. Owns(s) /\ user'[s] = user[s]
      BY <1>7, <2>3, OwnsStep
    <2> QED BY <1>7, <2>1, <2>4 DEF PendingUsers
  <1>8. ASSUME NEW r \in Requests, NEW s \in Requests, CreateUser(r), CreateUser(s)
        PROVE  r = s
    BY <1>8 DEF CreateUser, Goto, TypeOK, Stages
  <1> QED BY <1>3, <1>6, <1>7, <1>8 DEF PendingUsers, Pending, Owns

\* As long as setup was not opened again, only one account has a profile, and it is the
\* only one that the settings have ever named.
LEMMA NamedNext ==
    TypeOK /\ RecordedAccountsExist /\ AtMostOne /\ NamedInv /\ [Next]_vars => NamedInv'
  <1> SUFFICES ASSUME TypeOK, RecordedAccountsExist, AtMostOne, NamedInv, [Next]_vars,
                      recoveries' = 0
               PROVE  /\ \A u \in Accounts : profile'[u] # "deactivated"
                      /\ named' \subseteq audited'
    BY DEF NamedInv
  <1>1. recoveries = 0 /\ \A u \in Accounts : ~Reopen(u)
    BY DEF Next, vars, Post, Step, Failure, CreateUser, CreateUserUnacknowledged, EmailTaken,
       FindAuthUser, AuthUserVanished, CheckOpen, DeleteOrphan, OrphanNotDeleted, Lock, Check,
       AlreadySetup, InsertAndCommit, CommitUnacknowledged, UserGone, Undo, UndoFails, SignIn,
       RecordJwtExpiry, AnswerUnrecorded, LateFailure, Crash, Reopen, PageRecords, TypeOK
  <1>2. /\ \A u \in Accounts : profile[u] # "deactivated"
        /\ named \subseteq audited
    BY <1>1 DEF NamedInv
  <1>3. CASE \E r \in Requests : Register(wants[r])
    BY <1>2, <1>3, RegisterType DEF histories
  <1>4. CASE \E v \in Accounts : DeleteAccount(v) /\ Deletable(v)
    BY <1>2, <1>4 DEF DeleteAccount, Deletable, TypeOK
  <1>5. CASE \E r \in Requests : at[r] = "insert" /\ Insert(r)
    BY <1>2, <1>5 DEF Insert, histories, TypeOK
  <1>6. ASSUME NEW v \in Accounts, RecordLifetime(v)
        PROVE  profile' = profile /\ named' \subseteq audited'
    <2>1. v \in SuperAdmins /\ audited \subseteq SuperAdmins
      BY <1>2, <1>6 DEF RecordLifetime, RecordedAccountsExist, SuperAdmins, TypeOK
    <2>2. audited \subseteq {v}
      BY <2>1 DEF AtMostOne
    <2> QED BY <1>2, <1>6, <2>2 DEF RecordLifetime
  <1>7. CASE UNCHANGED <<email, profile, audited, named>>
    BY <1>2, <1>7
  <1> QED BY <1>1, <1>2, <1>3, <1>4, <1>5, <1>6, <1>7, AccountsStep

-----------------------------------------------------------------------------
\* Before the first request there is no account.
LEMMA InitInv == Init => IndInv
  <1> SUFFICES ASSUME Init PROVE IndInv
    OBVIOUS
  <1>1. TypeOK
    BY SetupAssumption DEF Init, TypeOK, Accounts, Stages
  <1>2. CheckHolds /\ AtMostOne
    BY DEF Init, CheckHolds, AtMostOne, SuperAdmins
  <1>3. ProfilesHaveUsers /\ RecordedAccountsExist /\ NoOrphans /\ PendingUsers /\ NamedInv
    BY DEF Init, ProfilesHaveUsers, RecordedAccountsExist, NoOrphans, PendingUsers, Pending,
       Owns, NamedInv
  <1> QED BY <1>1, <1>2, <1>3 DEF IndInv

\* The inductive invariant of setup holds in every reachable state.
THEOREM Invariance == Spec => []IndInv
  <1>1. IndInv /\ [Next]_vars => IndInv'
    BY TypeNext, CheckNext, AtMostOneNext, UsersNext, PendingNext, AuditedNext, NamedNext,
       OrphansNext DEF IndInv
  <1> QED BY <1>1, InitInv, PTL DEF Spec

\* Accounts, requests and the advisory lock keep their types; the lock lasts exactly
\* from its statement to the end of the transaction.
THEOREM TypeCorrectness == Spec => []TypeOK
  BY Invariance, PTL DEF IndInv

\* However many setup requests run, with whatever addresses and failures, there is
\* never a second active super_admin.
THEOREM SingleSuperAdmin == Spec => []OneSuperAdmin
  <1>1. IndInv => OneSuperAdmin
    <2> SUFFICES ASSUME IndInv PROVE Cardinality(SuperAdmins) <= 1
      BY DEF OneSuperAdmin
    <2>1. CASE SuperAdmins = {}
      BY <2>1, FS_EmptySet
    <2>2. ASSUME NEW u \in SuperAdmins PROVE Cardinality(SuperAdmins) <= 1
      <3>1. SuperAdmins = {u}
        BY DEF IndInv, AtMostOne
      <3> QED BY <3>1, FS_Singleton
    <2> QED BY <2>1, <2>2
  <1> QED BY <1>1, Invariance, PTL

\* What AnsweredSetupIsKept says of a step.
KeepsAnswered ==
    \A u \in Accounts : profile[u] # "none" /\ profile'[u] = "none" =>
        /\ u \in answered => \E r \in Requests : at[r] = "delete" /\ user[r] = u
        /\ recoveries = 0 => u \notin named

\* A profile goes with its user, whom a compensation deletes before its request is
\* answered, and a recovery unless the settings refer to the profile.
LEMMA KeptStep == IndInv /\ [Next]_vars => KeepsAnswered
  <1> SUFFICES ASSUME IndInv, [Next]_vars,
                      NEW u \in Accounts, profile[u] # "none", profile'[u] = "none"
               PROVE  /\ u \in answered => \E r \in Requests : at[r] = "delete" /\ user[r] = u
                      /\ recoveries = 0 => u \notin named
    BY DEF KeepsAnswered
  <1>1. TypeOK /\ PendingUsers /\ NamedInv
    BY DEF IndInv
  <1>2. /\ Deletable(u)
        /\ \E r \in Requests : at[r] \in {"delete", "undo"} /\ user[r] = u
    <2>1. CASE \E r \in Requests : Register(wants[r])
      BY <2>1 DEF Register
    <2>2. ASSUME NEW v \in Accounts, DeleteAccount(v) PROVE v = u
      BY <1>1, <2>2, DeleteType
    <2>3. CASE \E r \in Requests : at[r] = "insert" /\ Insert(r)
      BY <1>1, <2>3, InsertType
    <2>4. CASE \E v \in Accounts : RecordLifetime(v)
      BY <2>4 DEF RecordLifetime
    <2>5. CASE \E v \in Accounts : Reopen(v)
      BY <1>1, <2>5 DEF Reopen, TypeOK
    <2> QED BY <1>1, <2>1, <2>2, <2>3, <2>4, <2>5, AccountsStep
  <1>3. recoveries = 0 => u \notin named
    BY <1>1, <1>2 DEF NamedInv, Deletable
  <1>4. ASSUME NEW r \in Requests, at[r] = "undo", user[r] = u PROVE u \notin answered
    BY <1>1, <1>4 DEF PendingUsers, Owns
  <1> QED BY <1>2, <1>3, <1>4

\* No compensation, however late, takes back a setup that was answered; a recovery may, if
\* it took the account for an orphan before it had a profile, but until setup is opened
\* again not once the settings have named the account.
THEOREM AnswersAreKept == Spec => AnsweredSetupIsKept
  BY Invariance, KeptStep, PTL DEF Spec, AnsweredSetupIsKept, KeepsAnswered

\* As long as no process dies and no answer is lost, no Auth user is left behind
\* without a profile by a setup that failed.
THEOREM NoneLeftBehind == Spec => []NoOrphans
  BY Invariance, PTL DEF IndInv

-----------------------------------------------------------------------------
\* A step of the requests is a step of the contract, or is invisible to it.
LEMMA StepImplements == IndInv /\ [Next]_vars => [Contract!Next]_(Contract!vars)
  <1> SUFFICES ASSUME IndInv, [Next]_vars PROVE [Contract!Next]_(Contract!vars)
    OBVIOUS
  <1>1. TypeOK /\ CheckHolds /\ PendingUsers
    BY DEF IndInv
  <1>2. CASE UNCHANGED <<profile, audited>>
    BY <1>2 DEF Contract!vars
  <1>3. ASSUME NEW u \in Accounts, DeleteAccount(u), Deletable(u)
        PROVE  Contract!Withdraw(u)
    BY <1>3 DEF DeleteAccount, Deletable, Contract!Withdraw
  <1>4. ASSUME NEW r \in Requests, at[r] = "insert", Insert(r)
        PROVE  Contract!Create(user[r])
    <2>1. SuperAdmins = {} /\ profile[user[r]] = "none"
      BY <1>1, <1>4 DEF CheckHolds, PendingUsers, Pending
    <2> QED BY <1>4, <2>1 DEF Insert, SuperAdmins, Contract!Create, Contract!Open,
       Contract!Active
  <1>5. ASSUME NEW u \in Accounts, RecordLifetime(u)
        PROVE  Contract!Record(u)
    BY <1>5 DEF RecordLifetime, Contract!Record
  <1>6. ASSUME NEW u \in Accounts, Reopen(u)
        PROVE  Contract!Deactivate(u)
    BY <1>6 DEF Reopen, Contract!Deactivate
  <1>7. \A r \in Requests : user[r] \in Accounts
    BY <1>1 DEF TypeOK
  <1>8. \/ UNCHANGED <<email, profile, audited>>
        \/ \E r \in Requests : Register(wants[r])
        \/ \E u \in Accounts : DeleteAccount(u) /\ Deletable(u)
        \/ \E r \in Requests : at[r] = "insert" /\ Insert(r)
        \/ \E u \in Accounts : RecordLifetime(u)
        \/ \E u \in Accounts : Reopen(u)
    BY <1>1, AccountsStep
  <1>9. (\E r \in Requests : Register(wants[r])) => UNCHANGED <<profile, audited>>
    BY DEF Register
  <1> QED BY <1>2, <1>3, <1>4, <1>5, <1>6, <1>7, <1>8, <1>9 DEF Contract!Next

\* The route keeps the promise the wizard is built on: it creates a super_admin only while
\* there is none, and takes none back that the settings refer to.
THEOREM Implementation == Spec => ImplementsContract
  <1>1. Init => Contract!Init
    BY DEF Init, Contract!Init
  <1> QED BY <1>1, Invariance, StepImplements, PTL DEF Spec, ImplementsContract, Contract!Spec

-----------------------------------------------------------------------------
(* The panel and the wizard, which call the route (Wizard).  The theorems   *)
(* hold for any number of browsers and accounts, any lifetime of the memo   *)
(* and any number of faults.                                                *)

USE WizardAssumption

\* What WizardTypeOK says of where the browsers are.
PlaceTyped ==
    /\ browserAt \in [Browsers -> Positions]
    /\ path \in [Browsers -> Paths]
    /\ page \in [Browsers -> Pages]

\* A request that goes on, a GET and a page that comes back keep the places typed.
LEMMA PlaceType ==
    ASSUME WizardTypeOK, NEW b \in Browsers
    PROVE  /\ \A q \in Positions : Advance(b, q)
                => PlaceTyped' /\ browserAt' = [browserAt EXCEPT ![b] = q]
           /\ \A p \in Paths : Get(b, p)
                => PlaceTyped' /\ browserAt' = [browserAt EXCEPT ![b] = "proxy"]
           /\ \A p \in Pages : Show(b, p)
                => PlaceTyped' /\ browserAt' = [browserAt EXCEPT ![b] = "page"]
  BY DEF WizardTypeOK, PlaceTyped, Advance, Get, Show, Positions, Paths, Pages, Steps

\* The gate sends a request to one of the three pages.
LEMMA GateType ==
    ASSUME NEW p \in Paths, NEW state \in States, NEW hasSession \in BOOLEAN
    PROVE  EntryGate(p, state, hasSession) \in Paths
  <1>1. CASE state = "uninstalled"
    BY <1>1 DEF EntryGate, Paths, States
  <1>2. CASE state = "incomplete"
    BY <1>2 DEF EntryGate, Paths, States
  <1>3. CASE state = "complete"
    BY <1>3 DEF EntryGate, Paths, States
  <1> QED BY <1>1, <1>2, <1>3 DEF States

\* The gate sends a browser to a page or lets it through.
LEMMA DirectType ==
    ASSUME WizardTypeOK, NEW b \in Browsers, NEW state \in States, Direct(b, state)
    PROVE  PlaceTyped'
             /\ \E q \in {"render", "proxy"} : browserAt' = [browserAt EXCEPT ![b] = q]
  <1>1. EntryGate(path[b], state, HasSession(b)) \in Paths
    BY GateType DEF WizardTypeOK, HasSession
  <1> QED BY <1>1, PlaceType DEF Direct, Positions

\* A super_admin's account is one of the accounts, and a signed in browser has one.
LEMMA ActiveType == Route!Active \subseteq Admins
  BY DEF Route!Active

\* The wizard does to the super_admins what the route's contract allows, and no more.
LEMMA RouteNext ==
    ASSUME WizardTypeOK, MineInv, [WizardNext]_wizardVars
    PROVE  [Route!Next]_(Route!vars)
  <1> USE DEF Route!vars, database
  <1>1. ASSUME NEW b \in Browsers, NEW lifetime, HasSession(b), Record(b, lifetime)
        PROVE  [Route!Next]_(Route!vars)
    <2>1. session[b] \in Admins
      BY <1>1 DEF HasSession, WizardTypeOK
    <2> QED BY <1>1, <2>1 DEF Record, Route!Next
  <1>2. ASSUME NEW b \in Browsers, ObserveExpiry(b) \/ ObserveOldToken(b)
        PROVE  [Route!Next]_(Route!vars)
    BY <1>1, <1>2 DEF ObserveExpiry, ObserveOldToken
  <1>3. ASSUME NEW b \in Browsers, CreateSuperAdmin(b) PROVE [Route!Next]_(Route!vars)
    BY <1>3 DEF CreateSuperAdmin, Unused, Route!Next
  <1>4. ASSUME NEW b \in Browsers, SetupAnswered(b) \/ SetupUnanswered(b) \/ UndoCreation(b)
        PROVE  [Route!Next]_(Route!vars)
    <2>1. mine[b] \in Admins
      BY <1>4 DEF SetupAnswered, SetupUnanswered, UndoCreation, MineInv
    <2> QED BY <1>4, <2>1 DEF SetupAnswered, SetupUnanswered, UndoCreation, Route!Next
  <1>5. CASE Deactivate
    BY <1>5 DEF Deactivate, Route!Next
  <1>6. CASE UNCHANGED <<account, recorded>>
    BY <1>6
  <1>7. ASSUME NEW b \in Browsers, Serve(b) PROVE [Route!Next]_(Route!vars)
    BY <1>2, <1>3, <1>4, <1>6, <1>7
       DEF Serve, ServeMemo, StartReading, ReadAdmins, ReadSettings, Memoise, RenderPanel,
           GetUser, ShowPanel, RenderLogin, RenderSetup, CheckRequired, ShowStep, SetupRefused
  <1>8. ASSUME NEW b \in Browsers, PanelFailure(b) PROVE [Route!Next]_(Route!vars)
    BY <1>2, <1>4, <1>6, <1>8
       DEF PanelFailure, SetupUnmeasured, SetupUnrecorded, CreationUnacknowledged,
           FinishUnanswered, SavePreferences, CookieExpires, BackToSmtp
  <1>9. ASSUME NEW b \in Browsers, Wander(b) \/ Proceed(b)
        PROVE  UNCHANGED <<account, recorded>>
    BY <1>9 DEF Wander, Navigate, Proceed, SubmitSetup, SignInAsAdmin, SignInAs,
                SignOut, SendTestEmail, ConfirmSmtp, ConfirmRefused,
                FinishInstallation, SavePreferences, FollowLink, ComeBack
  <1>10. CASE FixExpiry \/ Tick \/ UNCHANGED wizardVars
    BY <1>10 DEF FixExpiry, Tick, wizardVars
  <1> QED BY <1>5, <1>6, <1>7, <1>8, <1>9, <1>10 DEF WizardNext, Browsers

\* What WizardTypeOK says of the database.
DatabaseTyped ==
    /\ account \in [Admins -> {"none", "active", "deactivated"}]
    /\ recorded \subseteq Admins
    /\ configured \in BOOLEAN /\ expiry \in BOOLEAN /\ observed \in BOOLEAN

\* Profiles, accounts and the recorded lifetime keep their types.
LEMMA DatabaseNext ==
    ASSUME WizardTypeOK, MineInv, [WizardNext]_wizardVars
    PROVE  DatabaseTyped'
  <1>1. account' \in [Admins -> {"none", "active", "deactivated"}] /\ recorded' \subseteq Admins
    BY RouteNext DEF Route!Next, Route!vars, Route!Create, Route!Record,
                     Route!Withdraw, Route!Deactivate, WizardTypeOK
  <1>2. configured' \in BOOLEAN /\ expiry' \in BOOLEAN /\ observed' \in BOOLEAN
    <2> USE DEF database, WizardTypeOK
    <2>1. ASSUME NEW b \in Browsers, Serve(b)
          PROVE  configured' = configured /\ expiry' = expiry /\ observed' \in BOOLEAN
      BY <2>1 DEF Serve, ServeMemo, StartReading, ReadAdmins, ReadSettings, Memoise,
                  RenderPanel, GetUser, ShowPanel, RenderLogin, RenderSetup, CheckRequired,
                  ShowStep, SetupRefused, ObserveExpiry, Record, Observed, CreateSuperAdmin,
                  SetupAnswered, UndoCreation
    <2>2. ASSUME NEW b \in Browsers, PanelFailure(b)
          PROVE  configured' \in BOOLEAN /\ expiry' = expiry /\ observed' \in BOOLEAN
      BY <2>2 DEF PanelFailure, SetupUnmeasured, SetupUnrecorded, CreationUnacknowledged,
                  FinishUnanswered, SavePreferences, CookieExpires, BackToSmtp, ObserveOldToken,
                  Record, Observed, SetupUnanswered
    <2>3. ASSUME NEW b \in Browsers, Wander(b) \/ Proceed(b)
          PROVE  configured' \in BOOLEAN /\ expiry' = expiry /\ observed' = observed
      BY <2>3 DEF Wander, Navigate, Proceed, SubmitSetup, SignInAsAdmin, SignInAs,
                  SignOut, SendTestEmail, ConfirmSmtp, ConfirmRefused,
                  FinishInstallation, SavePreferences, FollowLink, ComeBack
    <2>4. CASE FixExpiry \/ Deactivate \/ Tick \/ UNCHANGED wizardVars
      BY <2>4 DEF FixExpiry, Deactivate, Tick, wizardVars
    <2> QED BY <2>1, <2>2, <2>3, <2>4 DEF WizardNext, Browsers
  <1> QED BY <1>1, <1>2 DEF DatabaseTyped

\* What WizardTypeOK says of the memo and the readers.
MemoTyped ==
    /\ cached \in States
    /\ lease \in 0..TTL
    /\ waited \in [Browsers -> 0..TTL]
    /\ saw \in [Browsers -> States]

\* Only the readers and the clock change the memo and what readers know.
LEMMA MemoNext ==
    ASSUME [WizardNext]_wizardVars
    PROVE  \/ UNCHANGED <<memo, reader>>
           \/ \E b \in Browsers : ReadSettings(b) \/ Memoise(b)
           \/ Tick
  <1> USE DEF memo, reader
  <1>1. ASSUME NEW b \in Browsers, Serve(b), ~ReadSettings(b), ~Memoise(b)
        PROVE  UNCHANGED <<memo, reader>>
    BY <1>1 DEF Serve, ServeMemo, LeaseServed, StartReading, ReadAdmins, RenderPanel, GetUser,
                ShowPanel, RenderLogin, RenderSetup, CheckRequired, ShowStep, SetupRefused,
                ObserveExpiry, CreateSuperAdmin, SetupAnswered, UndoCreation
  <1>2. ASSUME NEW b \in Browsers, PanelFailure(b) PROVE UNCHANGED <<memo, reader>>
    BY <1>2 DEF PanelFailure, SetupUnmeasured, SetupUnrecorded, CreationUnacknowledged,
                FinishUnanswered, SavePreferences, CookieExpires, BackToSmtp, ObserveOldToken,
                SetupUnanswered
  <1>3. ASSUME NEW b \in Browsers, Wander(b) \/ Proceed(b)
        PROVE  UNCHANGED <<memo, reader>>
    BY <1>3 DEF Wander, Navigate, Proceed, SubmitSetup, SignInAsAdmin, SignInAs,
                SignOut, SendTestEmail, ConfirmSmtp, ConfirmRefused,
                FinishInstallation, SavePreferences, FollowLink, ComeBack
  <1>4. CASE FixExpiry \/ Deactivate \/ UNCHANGED wizardVars
    BY <1>4 DEF FixExpiry, Deactivate, wizardVars
  <1> QED BY <1>1, <1>2, <1>3, <1>4 DEF WizardNext, Browsers

\* A tick adds one to an age, up to TTL, and takes one from the lease.
LEMMA Aged ==
    ASSUME NEW n \in 0..TTL
    PROVE  /\ Lower(n + 1, TTL) \in 0..TTL
           /\ \A m \in 0..TTL : n <= m => Lower(n + 1, TTL) <= Lower(m + 1, TTL)
           /\ \A m \in 1..TTL : n <= TTL - m => Lower(n + 1, TTL) <= TTL - (m - 1)
  BY DEF Lower

\* The memo of the proxy and what its readers have read keep their types.
LEMMA MemoTypeNext ==
    ASSUME WizardTypeOK, [WizardNext]_wizardVars
    PROVE  MemoTyped'
  <1>1. CASE UNCHANGED <<memo, reader>>
    BY <1>1 DEF memo, reader, MemoTyped, WizardTypeOK
  <1>2. ASSUME NEW b \in Browsers, ReadSettings(b) PROVE MemoTyped'
    BY <1>2 DEF ReadSettings, Progress, States, memo, MemoTyped, WizardTypeOK
  <1>3. ASSUME NEW b \in Browsers, Memoise(b) PROVE MemoTyped'
    <2>1. 0 \in 0..TTL /\ TTL - waited[b] \in 0..TTL
      BY DEF WizardTypeOK
    <2> QED BY <1>3, <2>1 DEF Memoise, LeaseFrom, States, MemoTyped, WizardTypeOK
  <1>4. CASE Tick
    <2>1. \A b \in Browsers : Lower(waited[b] + 1, TTL) \in 0..TTL
      BY Aged DEF WizardTypeOK
    <2>2. lease' \in 0..TTL
      BY <1>4 DEF Tick, WizardTypeOK
    <2> QED BY <1>4, <2>1, <2>2 DEF Tick, MemoTyped, WizardTypeOK
  <1> QED BY <1>1, <1>2, <1>3, <1>4, MemoNext

\* What a step of a browser, or of the server on its behalf, may do to where it is: it stays,
\* or it leaves a place that its guard names for another.  Only the readers arrive at
\* "settings" and "answer", or leave "answer", and only a creation is "made" and undone.
Moves(b) ==
    \/ UNCHANGED place
    \/ /\ PlaceTyped'
       /\ \E q \in Positions :
            /\ browserAt' = [browserAt EXCEPT ![b] = q]
            /\ q \in {"settings", "answer"} => ReadAdmins(b) \/ ReadSettings(b)
            /\ q = "made" => CreateSuperAdmin(b)
            /\ q = "undo" => CreationUnacknowledged(b)
       /\ browserAt[b] = "answer" => Memoise(b)

\* What the server does with a request moves that browser only.
LEMMA ServeMoves ==
    ASSUME WizardTypeOK, NEW b \in Browsers, Serve(b)
    PROVE  Moves(b)
  <1> USE DEF Moves, Positions
  <1>1. CASE ServeMemo(b) \/ Memoise(b)
    <2>1. cached \in States /\ saw[b] \in States
      BY DEF WizardTypeOK
    <2> QED BY <1>1, <2>1, DirectType DEF ServeMemo, Memoise
  <1>2. CASE StartReading(b) \/ ReadAdmins(b) \/ ReadSettings(b)
    BY <1>2, PlaceType DEF StartReading, ReadAdmins, ReadSettings
  <1>3. CASE RenderPanel(b) \/ GetUser(b) \/ ShowPanel(b) \/ RenderLogin(b)
    BY <1>3, PlaceType DEF RenderPanel, GetUser, ShowPanel, RenderLogin, Paths, Pages
  <1>4. CASE RenderSetup(b) \/ CheckRequired(b)
    BY <1>4, PlaceType DEF RenderSetup, CheckRequired, Paths, Pages
  <1>5. CASE ShowStep(b)
    <2>1. PICK p \in Steps : Show(b, p)
      BY <1>5 DEF ShowStep, Steps
    <2>2. p \in Pages
      BY DEF Pages
    <2> QED BY <1>5, <2>1, <2>2, PlaceType DEF ShowStep
  <1>6. CASE ObserveExpiry(b) \/ CreateSuperAdmin(b)
    BY <1>6, PlaceType DEF ObserveExpiry, CreateSuperAdmin
  <1>7. CASE SetupRefused(b) \/ SetupAnswered(b) \/ UndoCreation(b)
    BY <1>7, PlaceType DEF SetupRefused, SetupAnswered, UndoCreation, Paths, Pages
  <1> QED BY <1>1, <1>2, <1>3, <1>4, <1>5, <1>6, <1>7 DEF Serve

\* So do failures, visitors who go elsewhere and installers who proceed.
LEMMA OthersMove ==
    ASSUME WizardTypeOK, NEW b \in Browsers, PanelFailure(b) \/ Wander(b) \/ Proceed(b)
    PROVE  Moves(b)
  <1> USE DEF Moves, Positions
  <1>1. CASE ObserveOldToken(b) \/ CreationUnacknowledged(b)
    BY <1>1, PlaceType DEF ObserveOldToken, CreationUnacknowledged
  <1>2. CASE SetupUnmeasured(b) \/ SetupUnrecorded(b) \/ SetupUnanswered(b)
    BY <1>2, PlaceType DEF SetupUnmeasured, SetupUnrecorded, SetupUnanswered, Paths, Pages
  <1>3. CASE FinishUnanswered(b) \/ CookieExpires(b)
    BY <1>3 DEF FinishUnanswered, CookieExpires
  <1>4. ASSUME NEW p \in Paths, Navigate(b, p) PROVE Moves(b)
    BY <1>4, PlaceType DEF Navigate
  <1>5. CASE Wander(b) \/ FollowLink(b) \/ ComeBack(b)
    BY <1>4, <1>5 DEF Wander, FollowLink, ComeBack, Paths
  <1>6. CASE BackToSmtp(b) \/ SubmitSetup(b) \/ SignOut(b)
    BY <1>6, PlaceType DEF BackToSmtp, SubmitSetup, SignOut, Paths
  <1>7. CASE SignInAsAdmin(b)
    BY <1>7, PlaceType DEF SignInAsAdmin, SignInAs, AfterLogin, Paths
  <1>8. CASE SendTestEmail(b) \/ ConfirmSmtp(b) \/ ConfirmRefused(b)
    BY <1>8, PlaceType DEF SendTestEmail, ConfirmSmtp, ConfirmRefused, Paths, Pages,
                           Steps
  <1>9. CASE FinishInstallation(b)
    BY <1>9, PlaceType DEF FinishInstallation, SavePreferences, Paths
  <1> QED BY <1>1, <1>2, <1>3, <1>5, <1>6, <1>7, <1>8, <1>9 DEF PanelFailure, Proceed

\* In every step at most one browser moves.
LEMMA PlaceNext ==
    ASSUME WizardTypeOK, [WizardNext]_wizardVars
    PROVE  \/ UNCHANGED place
           \/ \E b \in Browsers : Moves(b)
  BY ServeMoves, OthersMove DEF WizardNext, FixExpiry, Deactivate, Tick, wizardVars, place,
                                Browsers

\* The places of the browsers keep their types.
LEMMA PlaceTypeNext ==
    ASSUME WizardTypeOK, [WizardNext]_wizardVars
    PROVE  PlaceTyped'
  <1>1. UNCHANGED place => PlaceTyped'
    BY DEF place, PlaceTyped, WizardTypeOK
  <1> QED BY <1>1, PlaceNext DEF Moves

\* What WizardTypeOK says of the cookies, of the accounts of POSTs under way and of the history.
CookiesTyped ==
    /\ mine \in [Browsers -> Admins \cup {NoUser}]
    /\ session \in [Browsers -> Admins \cup {NoUser}]
    /\ smtp \in [Browsers -> {"none", "leftover", "confirmed"}]
    /\ newcomers \subseteq Browsers

\* The steps that change cookies, or what a POST has created.
LEMMA CookiesChange ==
    ASSUME [WizardNext]_wizardVars
    PROVE  \/ UNCHANGED <<mine, cookies, newcomers>>
           \/ \E b \in Browsers :
                 \/ CreateSuperAdmin(b) \/ SetupAnswered(b) \/ UndoCreation(b)
                 \/ SetupUnmeasured(b) \/ SetupUnrecorded(b) \/ SetupUnanswered(b)
                 \/ CookieExpires(b) \/ BackToSmtp(b)
                 \/ SignInAsAdmin(b) \/ SignOut(b) \/ ConfirmSmtp(b)
  <1> USE DEF cookies, history
  <1>1. ASSUME NEW b \in Browsers, Serve(b), ~CreateSuperAdmin(b), ~SetupAnswered(b),
               ~UndoCreation(b)
        PROVE  UNCHANGED <<mine, cookies, newcomers>>
    BY <1>1 DEF Serve, ServeMemo, StartReading, ReadAdmins, ReadSettings, Memoise, RenderPanel,
                GetUser, ShowPanel, RenderLogin, RenderSetup, CheckRequired, ShowStep,
                SetupRefused, ObserveExpiry
  <1>2. ASSUME NEW b \in Browsers,
               ObserveOldToken(b) \/ CreationUnacknowledged(b) \/ FinishUnanswered(b)
        PROVE  UNCHANGED <<mine, cookies, newcomers>>
    BY <1>2 DEF ObserveOldToken, CreationUnacknowledged, FinishUnanswered, SavePreferences
  <1>3. ASSUME NEW b \in Browsers,
               \/ Wander(b) \/ FollowLink(b) \/ ComeBack(b) \/ SubmitSetup(b) \/ SendTestEmail(b)
               \/ ConfirmRefused(b) \/ FinishInstallation(b)
        PROVE  UNCHANGED <<mine, cookies, newcomers>>
    BY <1>3 DEF Wander, Navigate, FollowLink, ComeBack, SubmitSetup, SendTestEmail,
                ConfirmRefused, FinishInstallation, SavePreferences
  <1>4. CASE FixExpiry \/ Deactivate \/ Tick \/ UNCHANGED wizardVars
    BY <1>4 DEF FixExpiry, Deactivate, Changed, Tick, wizardVars
  <1> QED BY <1>1, <1>2, <1>3, <1>4 DEF WizardNext, PanelFailure, Proceed, Browsers

\* Accounts, sessions and confirmations keep their types, and whoever was answered has no
\* confirmation of an earlier installation.
LEMMA CookiesNext ==
    ASSUME WizardTypeOK, MineInv, FreshInv, [WizardNext]_wizardVars
    PROVE  CookiesTyped' /\ FreshInv'
  <1> USE DEF cookies, history, CookiesTyped, FreshInv, WizardTypeOK
  <1>1. CASE UNCHANGED <<mine, cookies, newcomers>>
    BY <1>1
  <1>2. ASSUME NEW b \in Browsers, CreateSuperAdmin(b) PROVE CookiesTyped' /\ FreshInv'
    BY <1>2 DEF CreateSuperAdmin, Unused, Changed
  <1>3. ASSUME NEW b \in Browsers,
               SetupAnswered(b) \/ SetupUnmeasured(b) \/ SetupUnrecorded(b) \/ SetupUnanswered(b)
        PROVE  CookiesTyped' /\ FreshInv'
    <2>1. mine[b] \in Admins
      BY <1>3 DEF SetupAnswered, SetupUnmeasured, SetupUnrecorded, SetupUnanswered, MineInv
    <2> QED BY <1>3, <2>1 DEF SetupAnswered, SetupUnmeasured, SetupUnrecorded, SetupUnanswered,
                              SignedIn, Leave, SmtpAfterSetup
  <1>4. ASSUME NEW b \in Browsers, UndoCreation(b) PROVE CookiesTyped' /\ FreshInv'
    BY <1>4 DEF UndoCreation, Leave, Changed
  <1>5. ASSUME NEW b \in Browsers, CookieExpires(b) \/ BackToSmtp(b) \/ ConfirmSmtp(b)
        PROVE  CookiesTyped' /\ FreshInv'
    BY <1>5 DEF CookieExpires, BackToSmtp, ConfirmSmtp
  <1>6. ASSUME NEW b \in Browsers, SignInAsAdmin(b) \/ SignOut(b)
        PROVE  CookiesTyped' /\ FreshInv'
    BY <1>6, ActiveType DEF SignInAsAdmin, SignInAs, SignOut
  <1> QED BY <1>1, <1>2, <1>3, <1>4, <1>5, <1>6, CookiesChange

\* A POST leaves the account it has created behind once it is answered or refused.
LEMMA MineNext ==
    ASSUME WizardTypeOK, MineInv, [WizardNext]_wizardVars
    PROVE  MineInv'
  <1> SUFFICES ASSUME NEW c \in Browsers, browserAt'[c] \in {"made", "undo"}
               PROVE  mine'[c] \in Admins
    BY DEF MineInv
  <1>1. \/ browserAt[c] = browserAt'[c]
        \/ CreateSuperAdmin(c)
        \/ CreationUnacknowledged(c)
    BY PlaceNext DEF Moves, WizardTypeOK, place
  <1>2. CASE CreateSuperAdmin(c)
    BY <1>2 DEF CreateSuperAdmin, Unused, WizardTypeOK
  <1>3. CASE CreationUnacknowledged(c)
    BY <1>3 DEF CreationUnacknowledged, MineInv
  <1>4. CASE browserAt[c] = browserAt'[c]
    <2>1. mine[c] \in Admins
      BY <1>4 DEF MineInv
    <2>2. CASE UNCHANGED mine
      BY <2>1, <2>2
    <2>3. ASSUME NEW b \in Browsers,
                 \/ CreateSuperAdmin(b) \/ SetupAnswered(b) \/ UndoCreation(b)
                 \/ SetupUnmeasured(b) \/ SetupUnrecorded(b) \/ SetupUnanswered(b)
          PROVE  mine'[c] \in Admins
      <3>1. CASE b = c
        BY <2>3, <3>1, <1>2, <1>4
           DEF SetupAnswered, UndoCreation, SetupUnmeasured, SetupUnrecorded, SetupUnanswered,
               Get, Show, WizardTypeOK
      <3>2. CASE b # c
        BY <2>1, <2>3, <3>2
           DEF CreateSuperAdmin, SetupAnswered, UndoCreation, SetupUnmeasured, SetupUnrecorded,
               SetupUnanswered, Leave, WizardTypeOK
      <3> QED BY <3>1, <3>2
    <2>4. ASSUME NEW b \in Browsers,
                 \/ CookieExpires(b) \/ BackToSmtp(b)
                 \/ SignInAsAdmin(b) \/ SignOut(b) \/ ConfirmSmtp(b)
          PROVE  UNCHANGED mine
      BY <2>4 DEF CookieExpires, BackToSmtp, SignInAsAdmin, SignInAs, SignOut,
                  ConfirmSmtp
    <2> QED BY <2>2, <2>3, <2>4, CookiesChange
  <1> QED BY <1>1, <1>2, <1>3, <1>4

\* Whether the instance is installed depends on the accounts, its state on the settings too.
LEMMA SameState ==
    /\ account' = account => Installed' = Installed
    /\ account' = account /\ configured' = configured => Actual' = Actual
  BY DEF Installed, Actual, Progress, Route!Open, Route!Active

\* A step that changes the state of the instance sets the history of the changes back.
LEMMA StateNext ==
    ASSUME WizardTypeOK, [WizardNext]_wizardVars
    PROVE  \/ Tick
           \/ since' = 0
           \/ since' = since /\ Actual' = Actual /\ Installed' = Installed
  <1> USE DEF database, history
  <1> DEFINE Kept == since' = since /\ account' = account /\ configured' = configured
  <1>1. ASSUME NEW b \in Browsers, Serve(b) PROVE since' = 0 \/ Kept
    BY <1>1 DEF Serve, ServeMemo, StartReading, ReadAdmins, ReadSettings, Memoise, RenderPanel,
                GetUser, ShowPanel, RenderLogin, RenderSetup, CheckRequired, ShowStep,
                SetupRefused, ObserveExpiry, Record, CreateSuperAdmin, SetupAnswered,
                UndoCreation, Changed, Route!Record
  <1>2. ASSUME NEW b \in Browsers, SavePreferences(b) PROVE since' = 0 \/ Kept
    BY <1>2 DEF SavePreferences, WizardTypeOK
  <1>3. ASSUME NEW b \in Browsers, PanelFailure(b) PROVE since' = 0 \/ Kept
    BY <1>2, <1>3 DEF PanelFailure, SetupUnmeasured, SetupUnrecorded, CreationUnacknowledged,
                      FinishUnanswered, CookieExpires, BackToSmtp, ObserveOldToken, Record,
                      SetupUnanswered, Route!Record
  <1>4. ASSUME NEW b \in Browsers, Wander(b) \/ Proceed(b) PROVE since' = 0 \/ Kept
    BY <1>2, <1>4 DEF Wander, Navigate, Proceed, SubmitSetup, SignInAsAdmin, SignInAs,
                      SignOut, SendTestEmail, ConfirmSmtp, ConfirmRefused,
                      FinishInstallation, FollowLink, ComeBack
  <1>5. CASE FixExpiry \/ Deactivate \/ UNCHANGED wizardVars
    BY <1>5, SameState DEF FixExpiry, Deactivate, Changed, wizardVars
  <1> QED BY <1>1, <1>3, <1>4, <1>5, SameState DEF WizardNext, Browsers

\* The age of the last change and the number of faults stay within their bounds.
LEMMA CountersNext ==
    ASSUME WizardTypeOK, [WizardNext]_wizardVars
    PROVE  since' \in 0..TTL /\ panelFaults' \in 0..MaxPanelFaults
  <1>1. since' \in 0..TTL
    <2>1. Tick => since' \in 0..TTL
      BY Aged DEF Tick, WizardTypeOK
    <2>2. 0 \in 0..TTL
      OBVIOUS
    <2> QED BY <2>1, <2>2, StateNext DEF WizardTypeOK
  <1>2. panelFaults' \in 0..MaxPanelFaults
    <2>1. PanelFault => panelFaults' \in 0..MaxPanelFaults
      BY DEF PanelFault, WizardTypeOK
    <2>2. ASSUME NEW b \in Browsers, Serve(b) PROVE panelFaults' = panelFaults \/ PanelFault
      BY <2>2 DEF Serve, ServeMemo, StartReading, ReadAdmins, ReadSettings, Memoise,
                  RenderPanel, GetUser, ShowPanel, RenderLogin, RenderSetup, CheckRequired,
                  ShowStep, SetupRefused, ObserveExpiry, CreateSuperAdmin, SetupAnswered,
                  UndoCreation
    <2>3. ASSUME NEW b \in Browsers, PanelFailure(b) PROVE PanelFault
      BY <2>3 DEF PanelFailure, SetupUnmeasured, SetupUnrecorded, CreationUnacknowledged,
                  FinishUnanswered, CookieExpires, BackToSmtp, ObserveOldToken, SetupUnanswered
    <2>4. ASSUME NEW b \in Browsers, Wander(b) \/ Proceed(b)
          PROVE  panelFaults' = panelFaults \/ PanelFault
      BY <2>4 DEF Wander, Proceed, SubmitSetup, SignInAsAdmin, SignInAs, SignOut,
                  SendTestEmail, ConfirmSmtp, ConfirmRefused, FinishInstallation,
                  FollowLink, ComeBack
    <2>5. CASE FixExpiry \/ Deactivate \/ Tick \/ UNCHANGED wizardVars
      BY <2>1, <2>5 DEF FixExpiry, Deactivate, Tick, wizardVars, WizardTypeOK
    <2> QED BY <2>1, <2>2, <2>3, <2>4, <2>5 DEF WizardNext, Browsers, WizardTypeOK
  <1> QED BY <1>1, <1>2

\* All variables of the wizard keep their types.
LEMMA WizardTypeNext ==
    ASSUME WizardTypeOK, MineInv, FreshInv, [WizardNext]_wizardVars
    PROVE  WizardTypeOK'
  BY DatabaseNext, MemoTypeNext, PlaceTypeNext, CookiesNext, CountersNext
     DEF WizardTypeOK, DatabaseTyped, MemoTyped, PlaceTyped, CookiesTyped

\* A reader takes the time before its queries: what it answers was so since, or the state
\* of the instance has changed more recently than it started.
LEMMA ReaderNext ==
    ASSUME WizardTypeOK, ReaderInv, [WizardNext]_wizardVars, WizardTypeOK'
    PROVE  ReaderInv'
  <1> USE DEF WizardTypeOK
  <1>1. CASE Tick
    <2>1. Actual' = Actual /\ Installed' = Installed
      BY <1>1, SameState DEF Tick, database
    <2> SUFFICES ASSUME NEW c \in Browsers, Reading(c), since <= waited[c]
                 PROVE  since' <= waited'[c]
      BY <1>1, <2>1 DEF Tick, ReaderInv, Reading, place
    <2> QED BY <1>1, Aged DEF Tick
  <1>2. ASSUME NEW b \in Browsers, ReadSettings(b) PROVE ReaderInv'
    <2>1. /\ Actual' = Actual /\ Installed' = Installed
          /\ since' = since /\ waited' = waited
          /\ \A c \in Browsers :
                /\ saw'[c] = IF c = b THEN Progress ELSE saw[c]
                /\ browserAt'[c] = IF c = b THEN "answer" ELSE browserAt[c]
      BY <1>2, SameState DEF ReadSettings, Advance, database, history
    <2>2. Installed => Progress = Actual
      BY DEF Actual
    <2>3. ~Installed => since <= waited[b]
      BY <1>2 DEF ReadSettings, ReaderInv
    <2> QED BY <2>1, <2>2, <2>3 DEF ReaderInv
  <1>3. ASSUME NEW b \in Browsers, Memoise(b) PROVE ReaderInv'
    <2>1. PICK q \in {"render", "proxy"} : browserAt' = [browserAt EXCEPT ![b] = q]
      BY <1>3, DirectType DEF Memoise
    <2>2. /\ Actual' = Actual /\ Installed' = Installed
          /\ since' = since
          /\ \A c \in Browsers :
                /\ saw'[c] = IF c = b THEN "uninstalled" ELSE saw[c]
                /\ waited'[c] = IF c = b THEN 0 ELSE waited[c]
                /\ browserAt'[c] = IF c = b THEN q ELSE browserAt[c]
      BY <1>3, <2>1, SameState DEF Memoise, database, history
    <2> QED BY <2>2 DEF ReaderInv
  <1>4. CASE UNCHANGED <<memo, reader>> /\ ~Tick
    <2>1. saw' = saw /\ waited' = waited
      BY <1>4 DEF reader
    <2>2. \/ \A c \in Browsers : since' <= waited[c]
          \/ since' = since /\ Actual' = Actual /\ Installed' = Installed
      BY <1>4, StateNext
    <2>3. CASE UNCHANGED place
      BY <2>1, <2>2, <2>3 DEF place, ReaderInv
    <2>4. ASSUME NEW b \in Browsers, ~Memoise(b), ~ReadSettings(b), Moves(b),
                 ~UNCHANGED place
          PROVE  ReaderInv'
      <3>1. PICK q \in Positions :
              /\ browserAt' = [browserAt EXCEPT ![b] = q]
              /\ q \in {"settings", "answer"} => ReadAdmins(b)
        BY <2>4 DEF Moves
      <3>2. browserAt[b] # "answer" /\ saw[b] = "uninstalled"
        BY <2>4 DEF Moves, ReaderInv
      <3>3. ReadAdmins(b) => /\ since' = since /\ Installed' = Installed
                               /\ q = "settings" => Installed
        BY <3>1, SameState DEF ReadAdmins, Advance, database, history
      <3> QED BY <2>1, <2>2, <3>1, <3>2, <3>3 DEF ReaderInv
    <2> QED BY <1>2, <1>3, <2>3, <2>4, PlaceNext
  <1> QED BY <1>1, <1>2, <1>3, <1>4, MemoNext

\* A lease runs from the time that its reader took.
LEMMA LeaseNext ==
    ASSUME WizardTypeOK, ReaderInv, LeasedStateIsRecent, [WizardNext]_wizardVars,
           WizardTypeOK'
    PROVE  LeasedStateIsRecent'
  <1> USE DEF WizardTypeOK
  <1>1. CASE Tick
    <2>1. Actual' = Actual /\ cached' = cached
      BY <1>1, SameState DEF Tick, database
    <2> SUFFICES ASSUME lease' > 0, cached \notin {"uninstalled", Actual}
                 PROVE  since' <= TTL - lease'
      BY <2>1 DEF LeasedStateIsRecent
    <2>2. lease \in 1..TTL /\ lease' = lease - 1
      BY <1>1 DEF Tick
    <2>3. since <= TTL - lease
      BY <2>2 DEF LeasedStateIsRecent
    <2> QED BY <1>1, <2>2, <2>3, Aged DEF Tick
  <1>2. ASSUME NEW b \in Browsers, ReadSettings(b) PROVE LeasedStateIsRecent'
    <2>1. Actual' = Actual /\ since' = since /\ lease' = lease /\ cached' = cached
      BY <1>2, SameState DEF ReadSettings, database, history, memo
    <2> QED BY <2>1 DEF LeasedStateIsRecent
  <1>3. ASSUME NEW b \in Browsers, Memoise(b) PROVE LeasedStateIsRecent'
    <2>1. /\ Actual' = Actual /\ since' = since /\ cached' = saw[b]
          /\ saw[b] # "uninstalled" => lease' = TTL - waited[b]
          /\ browserAt[b] = "answer"
      BY <1>3, SameState DEF Memoise, LeaseFrom, database, history
    <2>2. saw[b] \notin {"uninstalled", Actual} => since <= waited[b]
      BY <2>1 DEF ReaderInv
    <2>3. waited[b] = TTL - (TTL - waited[b])
      <3>1. waited[b] \in 0..TTL
        OBVIOUS
      <3> QED BY <3>1
    <2> QED BY <2>1, <2>2, <2>3 DEF LeasedStateIsRecent
  <1>4. CASE UNCHANGED <<memo, reader>> /\ ~Tick
    <2>1. cached' = cached /\ lease' = lease
      BY <1>4 DEF memo
    <2>2. 0 <= TTL - lease
      <3>1. lease \in 0..TTL
        OBVIOUS
      <3> QED BY <3>1
    <2> QED BY <1>4, <2>1, <2>2, StateNext DEF LeasedStateIsRecent
  <1> QED BY <1>1, <1>2, <1>3, <1>4, MemoNext

\* The invariant of the wizard holds at the start.
LEMMA WizardInitially == WizardInit => WizardInv
  <1> SUFFICES ASSUME WizardInit PROVE WizardInv
    OBVIOUS
  <1>1. WizardTypeOK
    <2>1. smtp \in [Browsers -> {"none", "leftover", "confirmed"}]
      BY DEF WizardInit
    <2>2. /\ account \in [Admins -> {"none", "active", "deactivated"}]
          /\ recorded \subseteq Admins
      BY DEF WizardInit, Route!Init
    <2>3. 0 \in 0..TTL /\ 0 \in 0..MaxPanelFaults
      OBVIOUS
    <2>4. /\ browserAt \in [Browsers -> Positions] /\ path \in [Browsers -> Paths]
          /\ page \in [Browsers -> Pages]
      BY DEF WizardInit, Positions, Paths, Pages
    <2>5. /\ waited \in [Browsers -> 0..TTL] /\ saw \in [Browsers -> States]
          /\ cached \in States /\ lease \in 0..TTL
      BY <2>3 DEF WizardInit, States
    <2> QED BY <2>1, <2>2, <2>3, <2>4, <2>5 DEF WizardInit, WizardTypeOK
  <1>2. MineInv /\ ReaderInv /\ FreshInv /\ LeasedStateIsRecent
    BY DEF WizardInit, MineInv, ReaderInv, FreshInv, LeasedStateIsRecent
  <1> QED BY <1>1, <1>2 DEF WizardInv

\* Every step keeps the invariant of the wizard.
LEMMA WizardInductively == WizardInv /\ [WizardNext]_wizardVars => WizardInv'
  BY WizardTypeNext, MineNext, ReaderNext, CookiesNext, LeaseNext DEF WizardInv

-----------------------------------------------------------------------------
\* The inductive invariant of the wizard holds in every reachable state.
THEOREM WizardInvariance == WizardSpec => []WizardInv
  BY WizardInitially, WizardInductively, PTL DEF WizardSpec

\* Accounts, memo, requests and cookies keep their types.
THEOREM WizardTypeCorrectness == WizardSpec => []WizardTypeOK
  BY WizardInvariance, PTL DEF WizardInv

\* A memoised positive answer was the state of the instance when its lease began or
\* later (instance-state.ts), for any number of readers, however slow and in any order.
THEOREM MemoIsRecent == WizardSpec => []LeasedStateIsRecent
  BY WizardInvariance, PTL DEF WizardInv

\* The wizard creates, answers for and takes back super_admins only as the contract of
\* POST /setup/super-admin allows: it implements SetupContract.
THEOREM KeepsContract == WizardSpec => Route!Spec
  <1>1. WizardInit => Route!Init
    BY DEF WizardInit
  <1>2. WizardInv /\ [WizardNext]_wizardVars => [Route!Next]_(Route!vars)
    BY RouteNext DEF WizardInv
  <1> QED BY <1>1, <1>2, WizardInvariance, PTL DEF WizardSpec, Route!Spec

\* What SetupStartsAtTheEmail says of a step.
StartsAtTheEmail ==
    \A b \in newcomers : page'[b] = "preferences" /\ page[b] # "preferences"
      => smtp[b] = "confirmed"

\* Only ShowStep shows the preferences, and to nobody without a confirmation.
LEMMA PreferencesShown ==
    ASSUME WizardTypeOK, [WizardNext]_wizardVars, NEW b \in Browsers,
           page'[b] = "preferences", page[b] # "preferences"
    PROVE  smtp[b] # "none"
  <1> USE DEF WizardTypeOK
  <1>1. ASSUME NEW c \in Browsers, NEW p, Show(c, p)
        PROVE  p = "preferences" /\ b = c
    BY <1>1 DEF Show
  <1>2. ASSUME NEW c \in Browsers, \E p : Get(c, p) PROVE FALSE
    BY <1>2 DEF Get
  <1>3. ASSUME NEW c \in Browsers, \E q : Advance(c, q) PROVE FALSE
    BY <1>3 DEF Advance
  <1>4. page' # page
    OBVIOUS
  <1>5. ASSUME NEW c \in Browsers, ShowStep(c) PROVE smtp[b] # "none"
    BY <1>1, <1>5 DEF ShowStep
  <1>6. ASSUME NEW c \in Browsers, Serve(c), ~ShowStep(c) PROVE FALSE
    <2>1. CASE ServeMemo(c) \/ Memoise(c)
      BY <1>2, <1>3, <2>1 DEF ServeMemo, Memoise, Direct
    <2>2. CASE StartReading(c) \/ ReadAdmins(c) \/ ReadSettings(c) \/ ObserveExpiry(c)
               \/ CreateSuperAdmin(c)
      BY <1>3, <2>2 DEF StartReading, ReadAdmins, ReadSettings, ObserveExpiry,
                        CreateSuperAdmin
    <2>3. CASE RenderPanel(c) \/ GetUser(c) \/ ShowPanel(c) \/ RenderLogin(c)
            \/ RenderSetup(c) \/ CheckRequired(c)
      BY <1>1, <1>2, <1>3, <2>3 DEF RenderPanel, GetUser, ShowPanel, RenderLogin,
           RenderSetup, CheckRequired
    <2>4. CASE SetupRefused(c) \/ SetupAnswered(c) \/ UndoCreation(c)
      BY <1>1, <1>2, <2>4 DEF SetupRefused, SetupAnswered, UndoCreation
    <2> QED BY <1>6, <2>1, <2>2, <2>3, <2>4 DEF Serve
  <1>7. ASSUME NEW c \in Browsers, PanelFailure(c) PROVE FALSE
    BY <1>1, <1>2, <1>3, <1>4, <1>7
       DEF PanelFailure, SetupUnmeasured, SetupUnrecorded, CreationUnacknowledged,
           FinishUnanswered, place, CookieExpires, BackToSmtp, ObserveOldToken, SetupUnanswered
  <1>8. ASSUME NEW c \in Browsers, Wander(c) \/ Proceed(c) PROVE FALSE
    BY <1>1, <1>2, <1>3, <1>8
       DEF Wander, Navigate, Proceed, SubmitSetup, SignInAsAdmin, SignInAs, SignOut,
           SendTestEmail, ConfirmSmtp, ConfirmRefused, FinishInstallation, FollowLink, ComeBack
  <1>9. CASE FixExpiry \/ Deactivate \/ Tick \/ UNCHANGED wizardVars
    BY <1>4, <1>9 DEF FixExpiry, Deactivate, Tick, wizardVars, place
  <1> QED BY <1>5, <1>6, <1>7, <1>8, <1>9 DEF WizardNext, Browsers

\* No step shows the preferences to a browser that was answered before it has confirmed a
\* test email.
LEMMA EmailStep == WizardInv /\ [WizardNext]_wizardVars => StartsAtTheEmail
  <1> SUFFICES ASSUME WizardInv, [WizardNext]_wizardVars, NEW b \in newcomers,
                      page'[b] = "preferences", page[b] # "preferences"
               PROVE  smtp[b] = "confirmed"
    BY DEF StartsAtTheEmail
  <1>1. b \in Browsers /\ smtp[b] \in {"none", "confirmed"}
    BY DEF WizardInv, WizardTypeOK, FreshInv
  <1> QED BY <1>1, PreferencesShown DEF WizardInv

\* "A fresh install always starts at step 3" (route.ts): whoever was answered sees the
\* preferences only after confirming a test email, whatever cookies its browser had kept.
THEOREM FreshStartsAtTheEmail == WizardSpec => SetupStartsAtTheEmail
  BY WizardInvariance, EmailStep, PTL DEF WizardSpec, SetupStartsAtTheEmail, StartsAtTheEmail
=============================================================================
