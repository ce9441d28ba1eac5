--------------------------- MODULE ModulesProofs ----------------------------
(***************************************************************************)
(* Theorems about modules, grants and categories for any number of         *)
(* requests and users.  The argument: no two transactions hold the same    *)
(* row (Apart); what a transaction has inserted or deleted follows from    *)
(* its stage (Staged), and the rows it depends on stay until it commits    *)
(* (Anchored); an assignment passes on to its grants whoever was a member  *)
(* since it began (Promised); and an uninstallation that nobody crosses    *)
(* has by each stage taken the parts of the module that came before it     *)
(* (Lone).                                                                 *)
(***************************************************************************)
EXTENDS Modules, TLAPS

\* What a request has done so far follows from where it is.
Staged(r) ==
    /\ at[r] \in {"idle", "grant", "deleteCategory", "insertModule", "count",
                  "readApplied", "migrateDown", "insertTemplate"} => did[r] = {}
    /\ at[r] = "migrateUp" => did[r] = {"registry"}
    /\ at[r] = "insertSettings" => did[r] = {"registry", "tables"}
    /\ at[r] = "commitInstall" => did[r] = {"registry", "tables", "settings"}
    /\ at[r] = "deleteSettings" => did[r] \subseteq {"tables"}
    /\ at[r] = "deleteModule" => did[r] \subseteq Parts
    /\ at[r] = "commitUninstall" => did[r] \subseteq Parts \cup {"registry"}
    /\ at[r] \in {"materialise", "commitAssign"} => did[r] \subseteq {"template"}
    /\ at[r] # "commitAssign" => given[r] = {}

\* No two transactions have inserted or deleted the same row.
Apart(q, r) == did[q] \cap did[r] = {} /\ given[q] \cap given[r] = {}

\* r has deleted the module's row.
Drops(r) == at[r] = "commitUninstall" /\ "registry" \in did[r]

\* The committed rows on which the uncommitted ones of a request depend.
Anchored(r) ==
    /\ at[r] \in {"migrateUp", "insertSettings", "commitInstall"} => ~Present
    /\ "template" \in did[r] => Present /\ category = "present"
    /\ given[r] # {} => Present
    /\ \A u \in given[r] : grant[u] = "none"
    /\ Drops(r) => Present
    /\ Drops(r) => \A q \in Requests : given[q] = {} /\ "template" \notin did[q]

\* Whoever an assignment owes the module to is a member, and gets it.
Promised(r) ==
    /\ due[r] # {} => at[r] \in Assigning /\ Present
    /\ due[r] \subseteq members
    /\ at[r] = "commitAssign" => \A u \in due[r] : u \in given[r] \/ grant[u] # "none"

\* While no two uninstallations overlap, the one under way finds its module.
Lone(r) ==
    (~crossed /\ at[r] \in Uninstalling) =>
        /\ Present
        /\ \A q \in Requests : at[q] \in Uninstalling => q = r
        /\ at[r] \notin {"count", "readApplied"} => applied[r]
        /\ at[r] \in {"deleteSettings", "deleteModule", "commitUninstall"} => "tables" \in did[r]
        /\ at[r] \in {"deleteModule", "commitUninstall"} => "settings" \in did[r]
        /\ at[r] = "commitUninstall" => "registry" \in did[r]

Inv ==
    /\ \A r \in Requests : Staged(r)
    /\ \A q, r \in Requests : q # r => Apart(q, r)
    /\ \A r \in Requests : Anchored(r)
    /\ \A r \in Requests : Promised(r)
    /\ \A r \in Requests : Lone(r)
    /\ RegistryTellsTheTruth

IInv == TypeOK /\ Inv

-----------------------------------------------------------------------------
(* Types.                                                                  *)

\* What TypeOK says of the committed rows.
RowsTyped ==
    /\ registry \in {"absent", "installed", "active", "disabled"}
    /\ owned \subseteq Parts
    /\ category \in {"absent", "present", "deleted"}
    /\ members \subseteq Users
    /\ template \in BOOLEAN
    /\ grant \in [Users -> {"none", "live", "revoked"}]

Places == InTransaction \cup {"idle", "grant", "deleteCategory"}
Holdings == SUBSET (Parts \cup {"registry", "template"})

\* What TypeOK says of the requests.
RequestsTyped ==
    /\ at \in [Requests -> Places]
    /\ did \in [Requests -> Holdings]
    /\ given \in [Requests -> SUBSET Users]
    /\ applied \in [Requests -> BOOLEAN]
    /\ user \in [Requests -> Users \cup {NoUser}]
    /\ due \in [Requests -> SUBSET Users]
    /\ crossed \in BOOLEAN

\* The type invariant is that of the rows, that of the requests and the keys.
LEMMA TypesTogether == TypeOK <=> RowsTyped /\ RequestsTyped /\ ForeignKeys
  BY DEF TypeOK, RowsTyped, RequestsTyped, Places, Holdings

\* The actions of a request.
RequestNext(r) ==
    \/ InstallNext(r)
    \/ UninstallNext(r)
    \/ AssignNext(r)
    \/ \E u \in Users : BeginGrant(r, u)
    \/ Grant(r)
    \/ BeginDeleteCategory(r)
    \/ FinishDeleteCategory(r)
    \/ Fail(r)

\* The actions that are a statement of their own.
StatementNext ==
    \/ \E u \in Users : Revoke(u) \/ Redeem(u) \/ AddMember(u) \/ RemoveMember(u)
    \/ Activate
    \/ Deactivate
    \/ CreateCategory
    \/ UnassignModule

\* A step is one of a request or a statement of its own.
LEMMA NextCases == Next <=> (\E r \in Requests : RequestNext(r)) \/ StatementNext
  BY DEF Next, RequestNext, StatementNext

\* The database and the requests begin well typed.
LEMMA InitType == Init => TypeOK
  BY DEF Init, TypeOK, ForeignKeys, InTransaction

\* The steps of a request that change committed rows.
LEMMA Writers ==
    ASSUME NEW r \in Requests, RequestNext(r)
    PROVE  \/ UNCHANGED rows \/ CommitInstall(r) \/ CommitUninstall(r)
           \/ Grant(r) \/ FinishDeleteCategory(r) \/ CommitAssign(r)
  BY DEF RequestNext, InstallNext, BeginInstall, InsertModule, InstallClash, MigrateUp,
      InsertSettings, UninstallNext, BeginUninstall, Count, ReadApplied, MigrateDown,
      DeleteSettings, DeleteModule, AssignNext, BeginAssign, InsertTemplate, Materialise,
      AssignClash, BeginGrant, BeginDeleteCategory, Fail, Rollback

\* Every step keeps the rows typed.
LEMMA RowsTypeNext == TypeOK /\ [Next]_vars => RowsTyped'
  <1> SUFFICES ASSUME TypeOK, [Next]_vars PROVE RowsTyped'
    OBVIOUS
  <1>1. RowsTyped
    BY TypesTogether
  <1>2. CASE UNCHANGED rows
    BY <1>1, <1>2 DEF rows, RowsTyped
  <1>3. CASE StatementNext
    BY <1>1, <1>3 DEF StatementNext, Revoke, Redeem, AddMember, RemoveMember, Activate,
        Deactivate, Transition, CreateCategory, UnassignModule, RowsTyped
  <1>4. ASSUME NEW r \in Requests, CommitInstall(r) PROVE RowsTyped'
    BY <1>1, <1>4 DEF CommitInstall, RowsTyped
  <1>5. ASSUME NEW r \in Requests, CommitUninstall(r) PROVE RowsTyped'
    BY <1>1, <1>5 DEF CommitUninstall, RowsTyped
  <1>6. ASSUME NEW r \in Requests, Grant(r) PROVE RowsTyped'
    BY <1>1, <1>6 DEF Grant, RowsTyped
  <1>7. ASSUME NEW r \in Requests, FinishDeleteCategory(r) PROVE RowsTyped'
    BY <1>1, <1>7 DEF FinishDeleteCategory, RowsTyped
  <1>8. ASSUME NEW r \in Requests, CommitAssign(r) PROVE RowsTyped'
    BY <1>1, <1>8 DEF CommitAssign, RowsTyped
  <1> QED
    BY <1>2, <1>3, <1>4, <1>5, <1>6, <1>7, <1>8, Writers, NextCases DEF vars, rows

\* A request that ends, or goes on, keeps the requests typed.
LEMMA EndTyped ==
    ASSUME RequestsTyped, NEW r \in Requests, End(r)
    PROVE  /\ at' \in [Requests -> Places] /\ did' \in [Requests -> Holdings]
           /\ given' \in [Requests -> SUBSET Users] /\ applied' \in [Requests -> BOOLEAN]
           /\ user' \in [Requests -> Users \cup {NoUser}]
  BY DEF End, RequestsTyped, Places, Holdings

\* A request that goes on stays at a known place.
LEMMA GoTyped ==
    ASSUME RequestsTyped, NEW r \in Requests, NEW stage \in Places, Go(r, stage)
    PROVE  at' \in [Requests -> Places]
  BY DEF Go, RequestsTyped

\* A rollback keeps the requests typed.
LEMMA RollbackTyped ==
    ASSUME RequestsTyped, NEW r \in Requests, Rollback(r)
    PROVE  RequestsTyped'
  BY EndTyped DEF Rollback, RequestsTyped

\* A transaction that takes one more row, or none, keeps the requests typed.
LEMMA TakeTyped ==
    ASSUME RequestsTyped, NEW r \in Requests, NEW stage \in Places, Go(r, stage),
           NEW x \in Parts \cup {"registry", "template"},
           \/ did' = [did EXCEPT ![r] = @ \cup {x}]
           \/ did' = [did EXCEPT ![r] = {x}]
           \/ UNCHANGED did,
           UNCHANGED <<given, applied, user, history>>
    PROVE  RequestsTyped'
  <1>1. did' \in [Requests -> Holdings]
    BY DEF RequestsTyped, Holdings
  <1> QED
    BY <1>1, GoTyped DEF RequestsTyped, history

\* Every step keeps the requests typed.
LEMMA RequestsTypeNext == TypeOK /\ [Next]_vars => RequestsTyped'
  <1> SUFFICES ASSUME TypeOK, [Next]_vars PROVE RequestsTyped'
    OBVIOUS
  <1>1. RequestsTyped /\ RowsTyped
    BY TypesTogether
  <1>2. CASE UNCHANGED <<at, locals, history>>
    BY <1>1, <1>2 DEF locals, history, RequestsTyped
  <1>3. CASE StatementNext
    <2>1. UNCHANGED <<at, locals, crossed>>
      BY <1>3 DEF StatementNext, Revoke, Redeem, AddMember, RemoveMember, Activate,
          Deactivate, Transition, CreateCategory, UnassignModule, history
    <2>2. \/ UNCHANGED due
          \/ \E u \in Users : due' = [r \in Requests |-> due[r] \ {u}]
      BY <1>3 DEF StatementNext, Revoke, Redeem, AddMember, RemoveMember, Activate,
          Deactivate, Transition, CreateCategory, UnassignModule, history
    <2> QED
      BY <1>1, <2>1, <2>2 DEF RequestsTyped, locals
  <1>4. ASSUME NEW r \in Requests, InstallNext(r) PROVE RequestsTyped'
    <2> USE <1>1 DEF Places, InTransaction, Installing, Parts
    <2>1. CASE BeginInstall(r)
      BY <2>1, TakeTyped DEF BeginInstall, locals
    <2>2. CASE InsertModule(r)
      BY <2>2, TakeTyped DEF InsertModule
    <2>3. CASE InstallClash(r)
      BY <2>3, RollbackTyped DEF InstallClash
    <2>4. CASE MigrateUp(r)
      BY <2>4, TakeTyped DEF MigrateUp
    <2>5. CASE InsertSettings(r)
      BY <2>5, TakeTyped DEF InsertSettings
    <2>6. CASE CommitInstall(r)
      BY <2>6, EndTyped DEF CommitInstall, history, RequestsTyped
    <2> QED
      BY <1>4, <2>1, <2>2, <2>3, <2>4, <2>5, <2>6 DEF InstallNext
  <1>5. ASSUME NEW r \in Requests, UninstallNext(r) PROVE RequestsTyped'
    <2> USE <1>1 DEF Places, InTransaction, Uninstalling, Parts
    <2>1. CASE BeginUninstall(r)
      BY <2>1, GoTyped DEF BeginUninstall, locals, RequestsTyped
    <2>2. CASE Count(r)
      BY <2>2, RollbackTyped, TakeTyped DEF Count, locals
    <2>3. CASE ReadApplied(r)
      <3>1. applied' \in [Requests -> BOOLEAN]
        BY <2>3 DEF ReadApplied, RequestsTyped, Present
      <3> QED
        BY <2>3, <3>1, GoTyped DEF ReadApplied, RequestsTyped, history
    <2>4. CASE MigrateDown(r)
      BY <2>4, TakeTyped DEF MigrateDown
    <2>5. CASE DeleteSettings(r)
      BY <2>5, TakeTyped DEF DeleteSettings
    <2>6. CASE DeleteModule(r)
      BY <2>6, TakeTyped DEF DeleteModule
    <2>7. CASE CommitUninstall(r)
      BY <2>7, EndTyped DEF CommitUninstall, RequestsTyped
    <2> QED
      BY <1>5, <2>1, <2>2, <2>3, <2>4, <2>5, <2>6, <2>7 DEF UninstallNext
  <1>6. ASSUME NEW r \in Requests, AssignNext(r) PROVE RequestsTyped'
    <2> USE <1>1 DEF Places, InTransaction, Assigning
    <2>1. CASE BeginAssign(r)
      <3>1. due' \in [Requests -> SUBSET Users]
        BY <2>1 DEF BeginAssign, RequestsTyped, RowsTyped
      <3> QED
        BY <2>1, <3>1, GoTyped DEF BeginAssign, RequestsTyped, locals
    <2>2. CASE InsertTemplate(r)
      BY <2>2, TakeTyped DEF InsertTemplate
    <2>3. CASE Materialise(r)
      <3>1. given' \in [Requests -> SUBSET Users]
        BY <2>3 DEF Materialise, Targets, RequestsTyped, RowsTyped
      <3> QED
        BY <2>3, <3>1, GoTyped DEF Materialise, RequestsTyped, history
    <2>4. CASE AssignClash(r)
      BY <2>4, RollbackTyped DEF AssignClash
    <2>5. CASE CommitAssign(r)
      <3>1. due' \in [Requests -> SUBSET Users]
        BY <2>5 DEF CommitAssign, RequestsTyped
      <3> QED
        BY <2>5, <3>1, EndTyped DEF CommitAssign, RequestsTyped
    <2> QED
      BY <1>6, <2>1, <2>2, <2>3, <2>4, <2>5 DEF AssignNext
  <1>7. ASSUME NEW r \in Requests, NEW u \in Users, BeginGrant(r, u) PROVE RequestsTyped'
    <2>1. user' \in [Requests -> Users \cup {NoUser}]
      BY <1>1, <1>7 DEF BeginGrant, RequestsTyped
    <2> QED
      BY <1>1, <1>7, <2>1, GoTyped DEF BeginGrant, RequestsTyped, Places, history
  <1>8. ASSUME NEW r \in Requests, Grant(r) PROVE RequestsTyped'
    BY <1>1, <1>8, EndTyped DEF Grant, RequestsTyped, history
  <1>9. ASSUME NEW r \in Requests, BeginDeleteCategory(r) PROVE RequestsTyped'
    BY <1>1, <1>9, TakeTyped DEF BeginDeleteCategory, Places, locals
  <1>10. ASSUME NEW r \in Requests, FinishDeleteCategory(r) PROVE RequestsTyped'
    BY <1>1, <1>10, EndTyped DEF FinishDeleteCategory, RequestsTyped
  <1>11. ASSUME NEW r \in Requests, Fail(r) PROVE RequestsTyped'
    BY <1>1, <1>11, RollbackTyped DEF Fail
  <1> QED
    BY <1>2, <1>3, <1>4, <1>5, <1>6, <1>7, <1>8, <1>9, <1>10, <1>11, NextCases
       DEF vars, RequestNext, locals, history

-----------------------------------------------------------------------------
(* What a transaction holds.                                               *)

\* The statements of their own leave every transaction where it is.
LEMMA StatementsLeaveRequests ==
    StatementNext => UNCHANGED <<at, locals, crossed>>
  BY DEF StatementNext, Revoke, Redeem, AddMember, RemoveMember, Activate,
      Deactivate, Transition, CreateCategory, UnassignModule, history

\* A step of one request leaves the others where they are.
LEMMA OthersStay ==
    ASSUME RequestsTyped, NEW r \in Requests, RequestNext(r), NEW q \in Requests, q # r
    PROVE  /\ at'[q] = at[q] /\ did'[q] = did[q] /\ given'[q] = given[q]
           /\ applied'[q] = applied[q]
  <1>1. CASE InstallNext(r)
    BY <1>1 DEF InstallNext, BeginInstall, InsertModule, InstallClash, MigrateUp, InsertSettings,
        CommitInstall, Rollback, End, Go, locals, RequestsTyped
  <1>2. CASE UninstallNext(r)
    BY <1>2 DEF UninstallNext, BeginUninstall, Count, ReadApplied, MigrateDown, DeleteSettings,
        DeleteModule, CommitUninstall, Rollback, End, Go, locals, RequestsTyped
  <1>3. CASE AssignNext(r)
    BY <1>3 DEF AssignNext, BeginAssign, InsertTemplate, Materialise, AssignClash, CommitAssign,
        Rollback, End, Go, locals, RequestsTyped
  <1> QED
    BY <1>1, <1>2, <1>3 DEF RequestNext, BeginGrant, Grant, BeginDeleteCategory,
        FinishDeleteCategory, Fail, Rollback, End, Go, locals, RequestsTyped

\* Who ends holds nothing.
LEMMA EndHolds ==
    ASSUME RequestsTyped, NEW r \in Requests, End(r)
    PROVE  at'[r] = "idle" /\ did'[r] = {} /\ given'[r] = {} /\ Staged(r)'
  BY DEF End, RequestsTyped, Staged

\* The stage of a request tells what it holds.
LEMMA StagedNext == TypeOK /\ Inv /\ [Next]_vars => \A r \in Requests : Staged(r)'
  <1> SUFFICES ASSUME TypeOK, Inv, [Next]_vars, NEW r \in Requests PROVE Staged(r)'
    OBVIOUS
  <1>1. RequestsTyped /\ Staged(r)
    BY TypesTogether DEF Inv
  <1>2. CASE UNCHANGED <<at, locals, crossed>>
    BY <1>1, <1>2 DEF Staged, locals
  <1>3. ASSUME NEW q \in Requests, RequestNext(q), q # r PROVE Staged(r)'
    BY <1>1, <1>3, OthersStay DEF Staged
  <1>4. CASE InstallNext(r)
    <2>1. CASE CommitInstall(r) \/ InstallClash(r)
      BY <1>1, <2>1, EndHolds DEF CommitInstall, InstallClash, Rollback
    <2>2. CASE BeginInstall(r) \/ InsertModule(r) \/ MigrateUp(r) \/ InsertSettings(r)
      BY <1>1, <2>2 DEF BeginInstall, InsertModule, MigrateUp, InsertSettings,
          Go, Staged, RequestsTyped, locals, Parts
    <2> QED
      BY <1>4, <2>1, <2>2 DEF InstallNext
  <1>5. CASE UninstallNext(r)
    <2>1. CASE CommitUninstall(r) \/ (Count(r) /\ Rollback(r))
      BY <1>1, <2>1, EndHolds DEF CommitUninstall, Rollback
    <2>2. CASE \/ BeginUninstall(r) \/ ReadApplied(r)
               \/ Count(r) /\ Go(r, "readApplied") /\ UNCHANGED <<rows, locals, history>>
      BY <1>1, <2>2 DEF BeginUninstall, ReadApplied, Count, Go, Staged, RequestsTyped, locals
    <2>3. CASE MigrateDown(r) \/ DeleteSettings(r) \/ DeleteModule(r)
      BY <1>1, <2>3 DEF MigrateDown, DeleteSettings, DeleteModule, Go, Staged, RequestsTyped, Parts
    <2> QED
      BY <1>5, <2>1, <2>2, <2>3 DEF UninstallNext, Count
  <1>6. CASE AssignNext(r)
    <2>1. CASE CommitAssign(r) \/ AssignClash(r)
      BY <1>1, <2>1, EndHolds DEF CommitAssign, AssignClash, Rollback
    <2>2. CASE BeginAssign(r) \/ InsertTemplate(r) \/ Materialise(r)
      BY <1>1, <2>2 DEF BeginAssign, InsertTemplate, Materialise, Go, Staged, RequestsTyped, locals
    <2> QED
      BY <1>6, <2>1, <2>2 DEF AssignNext
  <1>7. CASE Grant(r) \/ FinishDeleteCategory(r) \/ Fail(r)
    BY <1>1, <1>7, EndHolds DEF Grant, FinishDeleteCategory, Fail, Rollback
  <1>8. CASE BeginDeleteCategory(r) \/ \E u \in Users : BeginGrant(r, u)
    BY <1>1, <1>8 DEF BeginDeleteCategory, BeginGrant, Go, Staged, RequestsTyped, locals
  <1>9. CASE RequestNext(r)
    BY <1>4, <1>5, <1>6, <1>7, <1>8, <1>9 DEF RequestNext
  <1>10. CASE UNCHANGED vars
    BY <1>2, <1>10 DEF vars, locals
  <1> QED
    BY <1>2, <1>3, <1>9, <1>10, NextCases, StatementsLeaveRequests

\* A row that a request takes was free.
LEMMA TakesFree ==
    ASSUME TypeOK, Inv, NEW r \in Requests, RequestNext(r), NEW x \in did'[r], x \notin did[r]
    PROVE  Free(r, x)
  <1>1. RequestsTyped
    BY TypesTogether
  <1>2. x \notin {} /\ did'[r] # {}
    OBVIOUS
  <1>3. CASE InstallNext(r)
    BY <1>1, <1>2, <1>3 DEF InstallNext, BeginInstall, InsertModule, InstallClash, MigrateUp,
        InsertSettings, CommitInstall, Rollback, End, locals, RequestsTyped
  <1>4. CASE UninstallNext(r)
    BY <1>1, <1>2, <1>4 DEF UninstallNext, BeginUninstall, Count, ReadApplied, MigrateDown,
        DeleteSettings, DeleteModule, CommitUninstall, Unreferenced, Free, Rollback, End, locals,
        RequestsTyped
  <1>5. CASE AssignNext(r)
    BY <1>1, <1>2, <1>5 DEF AssignNext, BeginAssign, InsertTemplate, Materialise, AssignClash,
        CommitAssign, Rollback, End, locals, RequestsTyped
  <1> QED
    BY <1>1, <1>2, <1>3, <1>4, <1>5 DEF RequestNext, BeginGrant, Grant, BeginDeleteCategory,
        FinishDeleteCategory, Fail, Rollback, End, locals, RequestsTyped

\* Only Materialise inserts grants.
LEMMA OnlyMaterialiseGives ==
    ASSUME TypeOK, Inv, NEW r \in Requests, RequestNext(r)
    PROVE  given'[r] \in {given[r], {}} \/ Materialise(r)
  <1>1. RequestsTyped
    BY TypesTogether
  <1> QED
    BY <1>1 DEF RequestNext, InstallNext, BeginInstall, InsertModule, InstallClash, MigrateUp,
        InsertSettings, CommitInstall, UninstallNext, BeginUninstall, Count, ReadApplied,
        MigrateDown, DeleteSettings, DeleteModule, CommitUninstall, AssignNext, BeginAssign,
        InsertTemplate, AssignClash, CommitAssign, BeginGrant, Grant, BeginDeleteCategory,
        FinishDeleteCategory, Fail, Rollback, End, locals, RequestsTyped

\* A grant that a request inserts was free.
LEMMA GivesFree ==
    ASSUME TypeOK, Inv, NEW r \in Requests, RequestNext(r), NEW u \in given'[r], u \notin given[r]
    PROVE  Materialise(r) /\ u \in Targets(r) /\ GrantFree(r, u)
  <1>1. Materialise(r)
    BY OnlyMaterialiseGives
  <1>2. given'[r] = Targets(r)
    BY <1>1, TypesTogether DEF Materialise, RequestsTyped
  <1> QED
    BY <1>1, <1>2 DEF Materialise, Targets

\* Two transactions hold different rows.
LEMMA ApartNext ==
    TypeOK /\ Inv /\ [Next]_vars => \A q, r \in Requests : q # r => Apart(q, r)'
  <1> SUFFICES ASSUME TypeOK, Inv, [Next]_vars, NEW q \in Requests, NEW r \in Requests, q # r
               PROVE  Apart(q, r)'
    OBVIOUS
  <1>1. RequestsTyped /\ Apart(q, r) /\ Apart(r, q)
    BY TypesTogether DEF Inv
  <1>2. ASSUME UNCHANGED <<did, given>> PROVE Apart(q, r)'
    BY <1>1, <1>2 DEF Apart
  <1>3. ASSUME NEW s \in Requests, NEW t \in Requests, s # t, Apart(s, t), RequestNext(s)
        PROVE  Apart(s, t)'
    <2>1. did'[t] = did[t] /\ given'[t] = given[t]
      BY <1>1, <1>3, OthersStay
    <2>2. \A x \in did'[s] : x \notin did[s] => x \notin did[t]
      BY <1>3, TakesFree DEF Free
    <2>3. \A u \in given'[s] : u \notin given[s] => u \notin given[t]
      BY <1>3, GivesFree DEF GrantFree
    <2> QED
      BY <1>3, <2>1, <2>2, <2>3 DEF Apart
  <1>4. ASSUME NEW s \in Requests, RequestNext(s) PROVE Apart(q, r)'
    <2>1. CASE s = q
      BY <1>1, <1>3, <1>4, <2>1
    <2>2. CASE s = r
      <3>1. Apart(r, q)'
        BY <1>1, <1>3, <1>4, <2>2
      <3> QED
        BY <3>1 DEF Apart
    <2>3. CASE s # q /\ s # r
      BY <1>1, <1>4, <2>3, OthersStay DEF Apart
    <2> QED
      BY <2>1, <2>2, <2>3
  <1> QED
    BY <1>2, <1>4, NextCases, StatementsLeaveRequests DEF vars, locals

-----------------------------------------------------------------------------
(* What a transaction depends on.                                          *)

\* What the steps that are a statement of their own may change.
LEMMA StatementsKeep ==
    ASSUME StatementNext
    PROVE  /\ Present' <=> Present
           /\ owned' = owned
           /\ category = "present" => category' = "present"
           /\ template' \in {template, FALSE}
  BY DEF StatementNext, Revoke, Redeem, AddMember, RemoveMember, Activate, Deactivate,
      Transition, CreateCategory, UnassignModule, Present

\* The module's row appears when an installation commits and goes when an
\* uninstallation that has deleted it does.
LEMMA PresentNext ==
    ASSUME TypeOK, Inv, NEW r \in Requests, RequestNext(r)
    PROVE  \/ Present' <=> Present
           \/ CommitInstall(r) /\ "registry" \in did[r] /\ Present'
           \/ CommitUninstall(r) /\ Drops(r) /\ ~Present'
  <1>1. CASE UNCHANGED rows
    BY <1>1 DEF rows, Present
  <1>2. CASE CommitInstall(r)
    BY <1>2 DEF CommitInstall, Present, Inv, Staged
  <1>3. CASE CommitUninstall(r)
    BY <1>3 DEF CommitUninstall, Present, Drops
  <1> QED
    BY <1>1, <1>2, <1>3, Writers DEF Grant, FinishDeleteCategory, CommitAssign, Present

\* What the steps of a request may change of a grant.
LEMMA GrantNext ==
    ASSUME TypeOK, Inv, NEW r \in Requests, RequestNext(r), NEW u \in Users,
           grant[u] = "none", grant'[u] # "none"
    PROVE  (Grant(r) /\ GrantFree(r, u)) \/ (CommitAssign(r) /\ u \in given[r])
  <1>1. grant \in [Users -> {"none", "live", "revoked"}]
    BY TypesTogether DEF RowsTyped
  <1>2. CASE Grant(r)
    <2>1. u = user[r]
      BY <1>1, <1>2 DEF Grant
    <2> QED
      BY <1>2, <2>1 DEF Grant
  <1>3. CASE CommitAssign(r)
    BY <1>3 DEF CommitAssign
  <1> QED
    BY <1>2, <1>3, Writers DEF rows, CommitInstall, CommitUninstall, FinishDeleteCategory

\* A row that is inserted for an assignment refers to the module and to the category.
LEMMA TemplateNext ==
    ASSUME TypeOK, Inv, NEW r \in Requests, RequestNext(r), "template" \in did'[r]
    PROVE  "template" \in did[r] \/ (InsertTemplate(r) /\ Present /\ category = "present")
  <1>1. RequestsTyped /\ Staged(r)
    BY TypesTogether DEF Inv
  <1>2. "template" \notin {} /\ "template" \notin Parts
    BY DEF Parts
  <1>3. CASE InstallNext(r)
    BY <1>1, <1>2, <1>3 DEF InstallNext, BeginInstall, InsertModule, InstallClash, MigrateUp,
        InsertSettings, CommitInstall, Rollback, End, locals, RequestsTyped
  <1>4. CASE UninstallNext(r)
    BY <1>1, <1>2, <1>4 DEF UninstallNext, BeginUninstall, Count, ReadApplied, MigrateDown,
        DeleteSettings, DeleteModule, CommitUninstall, Rollback, End, locals, RequestsTyped
  <1>5. CASE AssignNext(r)
    BY <1>1, <1>2, <1>5 DEF AssignNext, BeginAssign, InsertTemplate, Materialise, AssignClash,
        CommitAssign, Rollback, End, locals, RequestsTyped
  <1> QED
    BY <1>1, <1>2, <1>3, <1>4, <1>5 DEF RequestNext, BeginGrant, Grant, BeginDeleteCategory,
        FinishDeleteCategory, Fail, Rollback, End, locals, RequestsTyped

\* Only DeleteModule deletes the module's row, when nothing refers to it.
LEMMA DropsNext ==
    ASSUME TypeOK, Inv, NEW r \in Requests, RequestNext(r), Drops(r)'
    PROVE  \/ Drops(r) /\ UNCHANGED <<rows, did, given>>
           \/ DeleteModule(r) /\ Present /\ Unreferenced(r) /\ UNCHANGED <<rows, given>>
  <1>1. RequestsTyped /\ Staged(r)
    BY TypesTogether DEF Inv
  <1>2. at'[r] = "commitUninstall" /\ "registry" \in did'[r]
    BY DEF Drops
  <1>3. "registry" \notin Parts
    BY DEF Parts
  <1>4. CASE InstallNext(r)
    BY <1>1, <1>2, <1>4 DEF InstallNext, BeginInstall, InsertModule, InstallClash, MigrateUp,
        InsertSettings, CommitInstall, Rollback, End, Go, RequestsTyped
  <1>5. CASE UninstallNext(r)
    BY <1>1, <1>2, <1>3, <1>5 DEF UninstallNext, BeginUninstall, Count, ReadApplied, MigrateDown,
        DeleteSettings, DeleteModule, CommitUninstall, Rollback, End, Go, RequestsTyped, Staged
  <1>6. CASE AssignNext(r)
    BY <1>1, <1>2, <1>6 DEF AssignNext, BeginAssign, InsertTemplate, Materialise, AssignClash,
        CommitAssign, Rollback, End, Go, RequestsTyped
  <1> QED
    BY <1>1, <1>2, <1>4, <1>5, <1>6 DEF RequestNext, BeginGrant, Grant, BeginDeleteCategory,
        FinishDeleteCategory, Fail, Rollback, End, Go, RequestsTyped

\* Statements of their own leave what the transactions depend on.
LEMMA AnchoredStatement ==
    ASSUME TypeOK, Inv, StatementNext, NEW s \in Requests
    PROVE  Anchored(s)'
  <1>1. Anchored(s) /\ RowsTyped
    BY TypesTogether DEF Inv
  <1>2. at' = at /\ did' = did /\ given' = given
    BY StatementsLeaveRequests DEF locals
  <1>3. \A u \in given[s] : grant'[u] = "none"
    <2> SUFFICES ASSUME NEW u \in given[s] PROVE grant'[u] = "none"
      OBVIOUS
    <2>1. grant[u] = "none" /\ u \in Users
      BY <1>1, TypesTogether DEF Anchored, RequestsTyped
    <2> QED
      BY <1>1, <2>1 DEF StatementNext, Revoke, Redeem, AddMember, RemoveMember, Activate,
          Deactivate, Transition, CreateCategory, UnassignModule, RowsTyped
  <1> QED
    BY <1>1, <1>2, <1>3, StatementsKeep DEF Anchored, Drops

\* A step of a request leaves what the others depend on.
LEMMA AnchoredOthers ==
    ASSUME TypeOK, Inv, NEW q \in Requests, RequestNext(q), NEW s \in Requests, s # q
    PROVE  Anchored(s)'
  <1>1. Anchored(s) /\ Anchored(q) /\ Staged(s) /\ Staged(q) /\ Apart(q, s) /\ RequestsTyped
    BY TypesTogether DEF Inv
  <1>2. at'[s] = at[s] /\ did'[s] = did[s] /\ given'[s] = given[s]
    BY <1>1, OthersStay
  <1>3. at[s] \in {"migrateUp", "insertSettings", "commitInstall"} => ~Present'
    BY <1>1, PresentNext DEF Anchored, Staged, Apart
  <1>4. "template" \in did[s] => Present' /\ category' = "present"
    <2> SUFFICES ASSUME "template" \in did[s] PROVE Present' /\ category' = "present"
      OBVIOUS
    <2>1. Present /\ category = "present" /\ ~Drops(q)
      BY <1>1 DEF Anchored
    <2>2. ~FinishDeleteCategory(q)
      BY DEF FinishDeleteCategory, Free
    <2> QED
      BY <2>1, <2>2, PresentNext, Writers
         DEF rows, CommitInstall, CommitUninstall, Grant, CommitAssign
  <1>5. given[s] # {} => Present'
    BY <1>1, PresentNext DEF Anchored
  <1>6. \A u \in given[s] : grant'[u] = "none"
    <2> SUFFICES ASSUME NEW u \in given[s] PROVE grant'[u] = "none"
      OBVIOUS
    <2>1. grant[u] = "none" /\ u \in Users /\ u \notin given[q]
      BY <1>1 DEF Anchored, RequestsTyped, Apart
    <2> QED
      BY <2>1, GrantNext DEF GrantFree
  <1>7. ASSUME Drops(s)'
        PROVE  Present' /\ \A p \in Requests : given'[p] = {} /\ "template" \notin did'[p]
    <2>1. Drops(s) /\ Dropping
      BY <1>2, <1>7 DEF Drops, Dropping
    <2>2. Present'
      BY <1>1, <2>1, PresentNext DEF Anchored, Drops, Apart
    <2>3. given'[q] = {}
      <3>1. given[q] = {}
        BY <1>1, <2>1 DEF Anchored
      <3>2. ASSUME NEW u \in given'[q] PROVE FALSE
        BY <2>1, <3>1, <3>2, GivesFree DEF GrantFree
      <3> QED
        BY <3>2
    <2>4. "template" \notin did'[q]
      BY <1>1, <2>1, TemplateNext DEF Anchored, InsertTemplate
    <2>5. \A p \in Requests : p # q => given'[p] = {} /\ "template" \notin did'[p]
      BY <1>1, <2>1, OthersStay DEF Anchored
    <2> QED
      BY <2>2, <2>3, <2>4, <2>5
  <1> QED
    BY <1>2, <1>3, <1>4, <1>5, <1>6, <1>7 DEF Anchored

\* A step of a request goes by what it depends on itself.
LEMMA AnchoredSelf ==
    ASSUME TypeOK, Inv, NEW s \in Requests, RequestNext(s)
    PROVE  Anchored(s)'
  <1>1. Anchored(s) /\ Staged(s) /\ Staged(s)' /\ RequestsTyped
    BY NextCases, StagedNext, TypesTogether DEF Inv
  <1>2. CASE End(s)
    BY <1>1, <1>2, EndHolds DEF Anchored, Drops
  <1>3. CASE ~End(s) /\ UNCHANGED rows
    <2>1. at'[s] \in {"migrateUp", "insertSettings", "commitInstall"} => ~Present'
      <3>1. at'[s] \in {"migrateUp", "insertSettings", "commitInstall"} =>
              at[s] \in {"migrateUp", "insertSettings"} \/ (at[s] = "insertModule" /\ ~Present)
        BY <1>1, <1>3 DEF RequestNext, InstallNext, BeginInstall, InsertModule, InstallClash,
            MigrateUp, InsertSettings, CommitInstall, UninstallNext, BeginUninstall, Count,
            ReadApplied, MigrateDown, DeleteSettings, DeleteModule, CommitUninstall, AssignNext,
            BeginAssign, InsertTemplate, Materialise, AssignClash, CommitAssign, BeginGrant, Grant,
            BeginDeleteCategory, FinishDeleteCategory, Fail, Rollback, Go, RequestsTyped
      <3> QED
        BY <1>1, <1>3, <3>1 DEF rows, Present, Anchored
    <2>2. "template" \in did'[s] => Present' /\ category' = "present"
      BY <1>1, <1>3, TemplateNext DEF Anchored, rows, Present
    <2>3. \A u \in given'[s] : Present' /\ grant'[u] = "none"
      <3> SUFFICES ASSUME NEW u \in given'[s] PROVE Present' /\ grant'[u] = "none"
        OBVIOUS
      <3>1. CASE u \in given[s]
        BY <1>1, <1>3, <3>1 DEF Anchored, rows, Present
      <3>2. CASE u \notin given[s]
        BY <1>3, <3>2, GivesFree DEF Materialise, Targets, rows, Present
      <3> QED
        BY <3>1, <3>2
    <2>4. ASSUME Drops(s)'
          PROVE  Present' /\ \A p \in Requests : given'[p] = {} /\ "template" \notin did'[p]
      <3>1. CASE Drops(s) /\ UNCHANGED <<rows, did, given>>
        BY <1>1, <3>1 DEF Anchored, rows, Present
      <3>2. CASE DeleteModule(s) /\ Present /\ Unreferenced(s) /\ UNCHANGED <<rows, given>>
        <4>1. \A p \in Requests : p # s => given'[p] = {} /\ "template" \notin did'[p]
          BY <1>1, <3>2, OthersStay DEF Unreferenced
        <4>2. given'[s] = {} /\ "template" \notin did'[s]
          BY <1>1, <2>4 DEF Staged, Drops, Parts
        <4> QED
          BY <3>2, <4>1, <4>2 DEF rows, Present
      <3> QED
        BY <2>4, <3>1, <3>2, DropsNext
    <2> QED
      BY <2>1, <2>2, <2>3, <2>4 DEF Anchored
  <1> QED
    BY <1>2, <1>3, Writers DEF CommitInstall, CommitUninstall, Grant, FinishDeleteCategory, CommitAssign

\* Every step leaves what the transactions depend on.
LEMMA AnchoredNext == TypeOK /\ Inv /\ [Next]_vars => \A s \in Requests : Anchored(s)'
  <1>1. ASSUME TypeOK, Inv, UNCHANGED vars, NEW s \in Requests PROVE Anchored(s)'
    BY <1>1 DEF vars, Inv, Anchored, Drops, Present
  <1> QED
    BY <1>1, AnchoredStatement, AnchoredOthers, AnchoredSelf, NextCases

-----------------------------------------------------------------------------
(* What an assignment owes.                                                *)

\* A grant row goes only with the module's.
LEMMA GrantsStay ==
    ASSUME TypeOK, Inv, [Next]_vars, NEW u \in Users, grant[u] # "none", grant'[u] = "none"
    PROVE  \A r \in Requests : due'[r] = {}
  <1>1. RowsTyped
    BY TypesTogether
  <1>2. ~StatementNext
    BY <1>1 DEF StatementNext, Revoke, Redeem, AddMember, RemoveMember, Activate, Deactivate,
        Transition, CreateCategory, UnassignModule, RowsTyped
  <1>3. PICK q \in Requests : RequestNext(q)
    BY <1>2, NextCases DEF vars
  <1>4. CASE CommitUninstall(q)
    BY <1>4 DEF CommitUninstall
  <1>5. ~Grant(q) /\ ~CommitAssign(q)
    BY <1>1 DEF Grant, CommitAssign, RowsTyped
  <1> QED
    BY <1>3, <1>4, <1>5, Writers DEF rows, CommitInstall, FinishDeleteCategory

\* A step of a request only takes from what the others owe, and only the
\* beginning of an assignment adds to what it owes itself.
LEMMA DueNext ==
    ASSUME TypeOK, Inv, NEW q \in Requests, RequestNext(q), NEW s \in Requests
    PROVE  \/ due'[s] = {}
           \/ due'[s] = due[s] /\ members' = members /\ (Present => Present')
           \/ q = s /\ BeginAssign(s) /\ due'[s] = members /\ members' = members /\ Present /\ Present'
  <1>1. due \in [Requests -> SUBSET Users]
    BY TypesTogether DEF RequestsTyped
  <1>2. CASE UNCHANGED rows
    <2>1. members' = members /\ Present' = Present
      BY <1>2 DEF rows, Present
    <2>2. CASE BeginAssign(q)
      BY <1>1, <2>1, <2>2 DEF BeginAssign
    <2>3. CASE Rollback(q)
      BY <1>1, <2>1, <2>3 DEF Rollback
    <2>4. CASE ~BeginAssign(q) /\ ~Rollback(q)
      <3>1. due'[s] \in {due[s], {}}
        BY <1>1, <2>4 DEF RequestNext, InstallNext, BeginInstall, InsertModule, InstallClash,
            MigrateUp, InsertSettings, CommitInstall, UninstallNext, BeginUninstall, Count,
            ReadApplied, MigrateDown, DeleteSettings, DeleteModule, CommitUninstall, AssignNext,
            InsertTemplate, Materialise, AssignClash, BeginGrant, Grant, BeginDeleteCategory,
            FinishDeleteCategory, Fail, history, CommitAssign
      <3> QED
        BY <2>1, <3>1
    <2> QED
      BY <2>2, <2>3, <2>4
  <1>3. CASE CommitInstall(q)
    BY <1>3 DEF CommitInstall, history, Present
  <1>4. CASE CommitUninstall(q)
    BY <1>4 DEF CommitUninstall, Present
  <1>5. CASE Grant(q)
    BY <1>5 DEF Grant, history, Present
  <1>6. CASE FinishDeleteCategory(q)
    BY <1>6 DEF FinishDeleteCategory
  <1>7. CASE CommitAssign(q)
    BY <1>1, <1>7 DEF CommitAssign, Present
  <1> QED
    BY <1>2, <1>3, <1>4, <1>5, <1>6, <1>7, Writers

\* A statement of its own leaves the promises of the assignments under way.
LEMMA PromisedStatement ==
    ASSUME TypeOK, Inv, StatementNext, NEW s \in Requests
    PROVE  Promised(s)'
  <1>1. Promised(s) /\ RequestsTyped /\ RowsTyped
    BY TypesTogether DEF Inv
  <1>2. at' = at /\ given' = given /\ (Present' <=> Present)
    BY StatementsLeaveRequests, StatementsKeep DEF locals
  <1>3. due'[s] \subseteq due[s] /\ due'[s] \subseteq members'
    BY <1>1 DEF StatementNext, Revoke, Redeem, AddMember, RemoveMember, Activate, Deactivate,
        Transition, CreateCategory, UnassignModule, history, Promised, RequestsTyped
  <1>4. \A u \in due'[s] : grant[u] # "none" => grant'[u] # "none"
    BY <1>1, <1>3, GrantsStay, NextCases DEF RequestsTyped
  <1> QED
    BY <1>1, <1>2, <1>3, <1>4 DEF Promised

\* A step of a request leaves the promises of the others.
LEMMA PromisedOthers ==
    ASSUME TypeOK, Inv, NEW q \in Requests, RequestNext(q), NEW s \in Requests, s # q
    PROVE  Promised(s)'
  <1>1. Promised(s) /\ RequestsTyped
    BY TypesTogether DEF Inv
  <1>2. at'[s] = at[s] /\ given'[s] = given[s]
    BY <1>1, OthersStay
  <1>3. CASE due'[s] = {}
    BY <1>3 DEF Promised
  <1>4. CASE due'[s] # {} /\ due'[s] = due[s] /\ members' = members /\ (Present => Present')
    <2>1. \A u \in due[s] : grant[u] # "none" => grant'[u] # "none"
      BY <1>1, <1>4, GrantsStay, NextCases DEF RequestsTyped
    <2> QED
      BY <1>1, <1>2, <1>4, <2>1 DEF Promised
  <1> QED
    BY <1>3, <1>4, DueNext

\* An assignment keeps its own promise.
LEMMA PromisedSelf ==
    ASSUME TypeOK, Inv, NEW s \in Requests, RequestNext(s)
    PROVE  Promised(s)'
  <1>1. Promised(s) /\ RequestsTyped
    BY TypesTogether DEF Inv
  <1>2. CASE due'[s] = {}
    BY <1>2 DEF Promised
  <1>3. CASE BeginAssign(s) /\ due'[s] = members /\ members' = members /\ Present'
    BY <1>1, <1>3 DEF BeginAssign, Go, Promised, RequestsTyped, Assigning
  <1>4. CASE due'[s] # {} /\ due'[s] = due[s] /\ members' = members /\ (Present => Present')
    <2>1. at[s] \in Assigning /\ Present'
      BY <1>1, <1>4 DEF Promised
    <2>2. InsertTemplate(s) \/ Materialise(s)
      <3>1. ~Rollback(s) /\ ~CommitAssign(s)
        BY <1>1, <1>4 DEF Rollback, CommitAssign, RequestsTyped
      <3> QED
        BY <2>1, <3>1 DEF Assigning, RequestNext, InstallNext, BeginInstall, InsertModule,
            InstallClash, MigrateUp, InsertSettings, CommitInstall, UninstallNext, BeginUninstall,
            Count, ReadApplied, MigrateDown, DeleteSettings, DeleteModule, CommitUninstall,
            AssignNext, BeginAssign, AssignClash, BeginGrant, Grant, BeginDeleteCategory,
            FinishDeleteCategory, Fail
    <2>3. CASE InsertTemplate(s)
      BY <1>1, <1>4, <2>1, <2>3 DEF InsertTemplate, Go, RequestsTyped, Assigning, Promised
    <2>4. CASE Materialise(s)
      <3>1. at'[s] = "commitAssign" /\ given'[s] = Targets(s) /\ grant' = grant
        BY <1>1, <2>4 DEF Materialise, Go, RequestsTyped, rows
      <3> QED
        BY <1>1, <1>4, <2>1, <3>1 DEF Promised, Targets, Assigning
    <2> QED
      BY <2>2, <2>3, <2>4
  <1> QED
    BY <1>2, <1>3, <1>4, DueNext

\* Every step leaves the promises of the assignments under way.
LEMMA PromisedNext == TypeOK /\ Inv /\ [Next]_vars => \A s \in Requests : Promised(s)'
  <1>1. ASSUME TypeOK, Inv, UNCHANGED vars, NEW s \in Requests PROVE Promised(s)'
    BY <1>1 DEF vars, Inv, Promised, Present
  <1> QED
    BY <1>1, PromisedStatement, PromisedOthers, PromisedSelf, NextCases

-----------------------------------------------------------------------------
(* Foreign keys.                                                           *)

\* No step commits a row whose module or category is not there.
LEMMA ForeignKeysNext == TypeOK /\ Inv /\ [Next]_vars => ForeignKeys'
  <1> SUFFICES ASSUME TypeOK, Inv, [Next]_vars PROVE ForeignKeys'
    OBVIOUS
  <1>1. RowsTyped /\ ForeignKeys /\ RequestsTyped
    BY TypesTogether
  <1>2. CASE UNCHANGED rows
    BY <1>1, <1>2 DEF rows, ForeignKeys
  <1>3. CASE StatementNext
    BY <1>1, <1>3 DEF StatementNext, Revoke, Redeem, AddMember, RemoveMember, Activate, Deactivate,
        Transition, CreateCategory, UnassignModule, Present, RowsTyped, ForeignKeys
  <1>4. ASSUME NEW r \in Requests, CommitInstall(r) PROVE ForeignKeys'
    BY <1>1, <1>4 DEF CommitInstall, ForeignKeys
  <1>5. ASSUME NEW r \in Requests, CommitUninstall(r) PROVE ForeignKeys'
    BY <1>1, <1>5 DEF CommitUninstall, ForeignKeys
  <1>6. ASSUME NEW r \in Requests, Grant(r) PROVE ForeignKeys'
    BY <1>1, <1>6 DEF Grant, ForeignKeys, Present
  <1>7. ASSUME NEW r \in Requests, FinishDeleteCategory(r) PROVE ForeignKeys'
    BY <1>1, <1>7 DEF FinishDeleteCategory, ForeignKeys
  <1>8. ASSUME NEW r \in Requests, CommitAssign(r) PROVE ForeignKeys'
    <2>1. Anchored(r)
      BY DEF Inv
    <2> QED
      BY <1>1, <1>8, <2>1 DEF CommitAssign, ForeignKeys, Anchored, Present
  <1> QED
    BY <1>2, <1>3, <1>4, <1>5, <1>6, <1>7, <1>8, Writers, NextCases DEF vars, rows

-----------------------------------------------------------------------------
(* An uninstallation that nobody crosses.                                  *)

\* Only its beginning makes a request an uninstallation, and two that overlap
\* are remembered.
LEMMA UninstallingNext ==
    ASSUME TypeOK, Inv, NEW q \in Requests, RequestNext(q)
    PROVE  /\ crossed => crossed'
           /\ at'[q] \in Uninstalling => at[q] \in Uninstalling \/ BeginUninstall(q)
           /\ BeginUninstall(q) /\ ~crossed' => \A p \in Requests : at[p] \notin Uninstalling
  <1>1. RequestsTyped
    BY TypesTogether
  <1>2. crossed => crossed'
    BY DEF RequestNext, InstallNext, BeginInstall, InsertModule, InstallClash, MigrateUp,
        InsertSettings, CommitInstall, UninstallNext, BeginUninstall, Count, ReadApplied,
        MigrateDown, DeleteSettings, DeleteModule, CommitUninstall, AssignNext, BeginAssign,
        InsertTemplate, Materialise, AssignClash, CommitAssign, BeginGrant, Grant,
        BeginDeleteCategory, FinishDeleteCategory, Fail, Rollback, history
  <1>3. at'[q] \in Uninstalling => at[q] \in Uninstalling \/ BeginUninstall(q)
    BY <1>1 DEF RequestNext, InstallNext, BeginInstall, InsertModule, InstallClash, MigrateUp,
        InsertSettings, CommitInstall, UninstallNext, Count, ReadApplied, MigrateDown,
        DeleteSettings, DeleteModule, CommitUninstall, AssignNext, BeginAssign, InsertTemplate,
        Materialise, AssignClash, CommitAssign, BeginGrant, Grant, BeginDeleteCategory,
        FinishDeleteCategory, Fail, Rollback, End, Go, RequestsTyped, Uninstalling
  <1>4. BeginUninstall(q) /\ ~crossed' => \A p \in Requests : at[p] \notin Uninstalling
    BY DEF BeginUninstall
  <1> QED
    BY <1>2, <1>3, <1>4

\* The statements of an uninstallation that finds its module whole.
LEMMA LoneSelf ==
    ASSUME TypeOK, Inv, NEW s \in Requests, RequestNext(s), ~crossed',
           at[s] \in Uninstalling, at'[s] \in Uninstalling
    PROVE  Lone(s)'
  <1>1. RequestsTyped /\ Lone(s) /\ ~crossed
    BY TypesTogether, UninstallingNext DEF Inv
  <1>2. Present /\ owned = Parts
    BY <1>1 DEF Lone, Inv, RegistryTellsTheTruth
  <1>3. "tables" \in owned /\ "settings" \in owned
    BY <1>2 DEF Parts
  <1>4. Present'
    <2>1. ~CommitInstall(s) /\ ~CommitUninstall(s)
      BY <1>1 DEF CommitInstall, CommitUninstall, End, RequestsTyped, Uninstalling
    <2> QED
      BY <1>2, <2>1, PresentNext
  <1>5. \A p \in Requests : at'[p] \in Uninstalling => p = s
    BY <1>1, OthersStay DEF Lone
  <1>6. \/ Count(s) /\ at'[s] = "readApplied"
        \/ ReadApplied(s) \/ MigrateDown(s) \/ DeleteSettings(s) \/ DeleteModule(s)
    BY <1>1 DEF RequestNext, InstallNext, BeginInstall, InsertModule, InstallClash, MigrateUp,
        InsertSettings, CommitInstall, UninstallNext, BeginUninstall, Count, CommitUninstall,
        AssignNext, BeginAssign, InsertTemplate, Materialise, AssignClash, CommitAssign,
        BeginGrant, Grant, BeginDeleteCategory, FinishDeleteCategory, Fail, Rollback, End, Go,
        RequestsTyped, Uninstalling
  <1>7. CASE Count(s) /\ at'[s] = "readApplied"
    BY <1>4, <1>5, <1>7 DEF Lone
  <1>8. CASE ReadApplied(s)
    BY <1>1, <1>2, <1>4, <1>5, <1>8 DEF ReadApplied, Go, Lone, RequestsTyped
  <1>9. CASE MigrateDown(s)
    <2>1. applied[s] /\ at[s] = "migrateDown"
      BY <1>1, <1>9 DEF MigrateDown, Lone
    <2>2. at'[s] = "deleteSettings" /\ applied'[s] /\ "tables" \in did'[s]
      BY <1>1, <1>3, <1>9, <2>1 DEF MigrateDown, Go, RequestsTyped
    <2> QED
      BY <1>4, <1>5, <2>2 DEF Lone
  <1>10. CASE DeleteSettings(s)
    <2>1. applied[s] /\ "tables" \in did[s]
      BY <1>1, <1>10 DEF DeleteSettings, Lone
    <2>2. at'[s] = "deleteModule" /\ applied'[s] /\ "tables" \in did'[s] /\ "settings" \in did'[s]
      BY <1>1, <1>3, <1>10, <2>1 DEF DeleteSettings, Go, RequestsTyped
    <2> QED
      BY <1>4, <1>5, <2>2 DEF Lone
  <1>11. CASE DeleteModule(s)
    <2>1. applied[s] /\ "tables" \in did[s] /\ "settings" \in did[s]
      BY <1>1, <1>11 DEF DeleteModule, Lone
    <2>2. /\ at'[s] = "commitUninstall" /\ applied'[s]
          /\ {"tables", "settings", "registry"} \subseteq did'[s]
      BY <1>1, <1>2, <1>11, <2>1 DEF DeleteModule, Go, RequestsTyped
    <2> QED
      BY <1>4, <1>5, <2>2 DEF Lone
  <1> QED
    BY <1>6, <1>7, <1>8, <1>9, <1>10, <1>11

\* Uninstallations stay alone until another one begins.
LEMMA LoneNext == TypeOK /\ Inv /\ [Next]_vars => \A s \in Requests : Lone(s)'
  <1> SUFFICES ASSUME TypeOK, Inv, [Next]_vars, NEW s \in Requests,
                      ~crossed', at'[s] \in Uninstalling
               PROVE  Lone(s)'
    BY DEF Lone
  <1>1. RequestsTyped /\ Lone(s)
    BY TypesTogether DEF Inv
  <1>2. CASE UNCHANGED vars
    BY <1>1, <1>2 DEF vars, Lone, Present
  <1>3. CASE StatementNext
    BY <1>1, <1>3, StatementsLeaveRequests, StatementsKeep DEF Lone, locals
  <1>4. ASSUME NEW q \in Requests, RequestNext(q), q # s PROVE Lone(s)'
    <2>1. at'[s] = at[s] /\ did'[s] = did[s] /\ applied'[s] = applied[s]
      BY <1>1, <1>4, OthersStay
    <2>2. ~crossed /\ at[s] \in Uninstalling
      BY <1>4, <2>1, UninstallingNext
    <2>3. Present /\ at[q] \notin Uninstalling
      BY <1>1, <1>4, <2>2 DEF Lone
    <2>4. Present'
      BY <1>4, <2>3, PresentNext DEF CommitUninstall, Uninstalling
    <2>5. at'[q] \notin Uninstalling
      BY <1>4, <2>2, <2>3, UninstallingNext
    <2>6. \A p \in Requests : at'[p] \in Uninstalling => p = s
      BY <1>1, <1>4, <2>2, <2>5, OthersStay DEF Lone
    <2> QED
      BY <1>1, <2>1, <2>2, <2>4, <2>6 DEF Lone
  <1>5. CASE RequestNext(s)
    <2>1. CASE at[s] \in Uninstalling
      BY <1>5, <2>1, LoneSelf
    <2>2. CASE BeginUninstall(s)
      <3>1. \A p \in Requests : at'[p] \in Uninstalling => p = s
        BY <1>1, <1>5, <2>2, UninstallingNext, OthersStay
      <3>2. Present' /\ at'[s] = "count"
        BY <1>1, <2>2 DEF BeginUninstall, Go, RequestsTyped, rows, Present
      <3> QED
        BY <3>1, <3>2 DEF Lone
    <2> QED
      BY <1>5, <2>1, <2>2, UninstallingNext
  <1> QED
    BY <1>2, <1>3, <1>4, <1>5, NextCases

\* The registry and what the module has change together.
LEMMA RegistryNext == TypeOK /\ Inv /\ [Next]_vars => RegistryTellsTheTruth'
  <1> SUFFICES ASSUME TypeOK, Inv, [Next]_vars, ~crossed'
               PROVE  owned' = IF Present' THEN Parts ELSE {}
    BY DEF RegistryTellsTheTruth, Present
  <1>1. RegistryTellsTheTruth
    BY DEF Inv
  <1>2. CASE UNCHANGED vars
    BY <1>1, <1>2 DEF vars, RegistryTellsTheTruth, Present
  <1>3. CASE StatementNext
    BY <1>1, <1>3, StatementsLeaveRequests, StatementsKeep DEF RegistryTellsTheTruth
  <1>4. ASSUME NEW q \in Requests, RequestNext(q) PROVE owned' = IF Present' THEN Parts ELSE {}
    <2>1. ~crossed /\ Staged(q) /\ Anchored(q) /\ Lone(q)
      BY <1>4, UninstallingNext DEF Inv
    <2>2. owned = IF Present THEN Parts ELSE {}
      BY <1>1, <2>1 DEF RegistryTellsTheTruth
    <2>3. CASE CommitInstall(q)
      <3>1. did[q] = {"registry", "tables", "settings"} /\ ~Present
        BY <2>1, <2>3 DEF CommitInstall, Staged, Anchored
      <3>2. Present' /\ owned' = Parts
        BY <2>2, <2>3, <3>1 DEF CommitInstall, Present, Parts
      <3> QED
        BY <3>2
    <2>4. CASE CommitUninstall(q)
      <3>1. Present /\ {"registry", "tables", "settings"} \subseteq did[q]
        BY <2>1, <2>4 DEF CommitUninstall, Lone, Uninstalling
      <3>2. ~Present' /\ owned' = {}
        BY <2>2, <2>4, <3>1 DEF CommitUninstall, Present, Parts
      <3> QED
        BY <3>2
    <2> QED
      BY <1>4, <2>2, <2>3, <2>4, Writers
         DEF rows, Grant, FinishDeleteCategory, CommitAssign, Present
  <1> QED
    BY <1>2, <1>3, <1>4, NextCases

-----------------------------------------------------------------------------
(* The theorems.                                                           *)

\* The invariant holds at the beginning, when nobody has begun.
LEMMA InitInv == Init => IInv
  <1> SUFFICES ASSUME Init PROVE IInv
    OBVIOUS
  <1>1. Inv
    BY DEF Init, Inv, Staged, Apart, Anchored, Promised, Lone, Drops, Uninstalling,
        RegistryTellsTheTruth, Present
  <1> QED
    BY <1>1, InitType DEF IInv

\* The invariant is inductive.
LEMMA NextInv == IInv /\ [Next]_vars => IInv'
  <1> SUFFICES ASSUME IInv, [Next]_vars PROVE IInv'
    OBVIOUS
  <1>1. TypeOK'
    <2>1. RowsTyped' /\ RequestsTyped' /\ ForeignKeys'
      BY RowsTypeNext, RequestsTypeNext, ForeignKeysNext DEF IInv
    <2> QED
      BY <2>1 DEF TypeOK, RowsTyped, RequestsTyped, Places, Holdings
  <1>2. Inv'
    BY StagedNext, ApartNext, AnchoredNext, PromisedNext, LoneNext, RegistryNext DEF IInv, Inv
  <1> QED
    BY <1>1, <1>2 DEF IInv

\* The inductive invariant of modules and grants: what each stage holds, what
\* it depends on, what it owes.
THEOREM Invariance == Spec => []IInv
  BY InitInv, NextInv, PTL DEF Spec

\* Rows and requests keep their types, and the foreign keys hold, for any
\* number of requests and users.
THEOREM TypeCorrectness == Spec => []TypeOK
  <1>1. IInv => TypeOK
    BY DEF IInv
  <1> QED
    BY <1>1, Invariance, PTL

\* The registry tells what a module has, whatever installations and
\* uninstallations race and fail, unless two uninstallations overlap.
THEOREM RegistryIsTrue == Spec => []RegistryTellsTheTruth
  <1>1. IInv => RegistryTellsTheTruth
    BY DEF IInv, Inv
  <1> QED
    BY <1>1, Invariance, PTL

\* No assignment commits without a grant for everybody it was owed to.
THEOREM NobodyIsLeftOut == Spec => MembersAreGiven
  <1>1. IInv /\ [Next]_vars => [GivesAllDue]_vars
    <2> SUFFICES ASSUME IInv, NEW r \in Requests, CommitAssign(r), NEW u \in due[r]
                 PROVE  grant'[u] # "none"
      BY DEF GivesAllDue
    <2>1. u \in Users /\ Promised(r)
      BY TypesTogether DEF IInv, Inv, RequestsTyped
    <2> QED
      BY <2>1 DEF CommitAssign, Promised
  <1> QED
    BY <1>1, Invariance, PTL DEF Spec, MembersAreGiven

\* No assignment revives a revoked grant.
THEOREM RevocationsHold == Spec => RevokedStaysRevoked
  <1>1. IInv /\ [Next]_vars => [LeavesRevoked]_vars
    <2> SUFFICES ASSUME IInv, NEW r \in Requests, CommitAssign(r),
                        NEW u \in Users, grant[u] = "revoked"
                 PROVE  grant'[u] = "revoked"
      BY DEF LeavesRevoked
    <2>1. u \notin given[r]
      BY DEF IInv, Inv, Anchored
    <2> QED
      BY <2>1 DEF CommitAssign
  <1> QED
    BY <1>1, Invariance, PTL DEF Spec, RevokedStaysRevoked

-----------------------------------------------------------------------------
(* Modules implements GrantsContract.                                      *)

\* A step that leaves the registry row in place or absent, the template and the grants is a
\* stutter of the contract.
LEMMA RowsStutter ==
    ASSUME Present' = Present, UNCHANGED <<template, grant>>
    PROVE  UNCHANGED Contract!vars
  BY DEF Contract!vars

\* What a step of a request does to the module and its users.
LEMMA RequestImplements ==
    ASSUME TypeOK, Inv, NEW r \in Requests, RequestNext(r)
    PROVE  [Contract!Next]_(Contract!vars)
  <1>1. /\ RowsTyped /\ RequestsTyped /\ ForeignKeys
        /\ Staged(r) /\ Anchored(r)
    BY TypesTogether DEF Inv
  <1>2. CASE UNCHANGED rows
    BY <1>2, RowsStutter DEF rows, Present
  <1>3. CASE CommitInstall(r)
    <2>1. Contract!Install
      BY <1>1, <1>3 DEF CommitInstall, Contract!Install, Anchored, Present
    <2> QED BY <2>1 DEF Contract!Next
  <1>4. CASE CommitUninstall(r)
    <2>1. CASE "registry" \in did[r]
      <3>1. Contract!Uninstall
        BY <1>1, <1>4, <2>1 DEF CommitUninstall, Contract!Uninstall, Anchored, Drops, Present
      <3> QED BY <3>1 DEF Contract!Next
    <2>2. CASE "registry" \notin did[r]
      BY <1>4, <2>2, RowsStutter DEF CommitUninstall, Present
    <2> QED BY <2>1, <2>2
  <1>5. CASE Grant(r)
    <2>1. Present' = Present /\ template' = template
      BY <1>5 DEF Grant, Present
    <2>2. CASE Present /\ user[r] \in Users
      <3>1. Contract!Give(user[r])
        BY <1>5, <2>1, <2>2 DEF Grant, Contract!Give
      <3> QED BY <2>2, <3>1 DEF Contract!Next
    <2>3. CASE ~Present \/ user[r] \notin Users
      <3>1. grant' = grant
        BY <1>1, <1>5, <2>3 DEF Grant, RowsTyped
      <3> QED BY <2>1, <3>1, RowsStutter
    <2> QED BY <2>2, <2>3
  <1>6. CASE FinishDeleteCategory(r)
    <2>1. Contract!Unassign
      BY <1>6 DEF FinishDeleteCategory, Contract!Unassign, Present
    <2> QED BY <2>1 DEF Contract!Next
  <1>7. CASE CommitAssign(r)
    <2>1. Present' = Present /\ given[r] \in SUBSET Users
      BY <1>1, <1>7 DEF CommitAssign, Present, RequestsTyped
    <2>2. CASE Present
      <3>1. Contract!Assign(given[r])
        BY <1>1, <1>7, <2>1, <2>2
           DEF CommitAssign, Contract!Assign, Anchored, RowsTyped
      <3> QED BY <2>1, <3>1 DEF Contract!Next
    <2>3. CASE ~Present
      <3>1. given[r] = {} /\ "template" \notin did[r]
        BY <1>1, <2>3 DEF Anchored
      <3>2. template' = template /\ grant' = grant
        BY <1>1, <1>7, <3>1 DEF CommitAssign, RowsTyped
      <3> QED BY <2>1, <3>2, RowsStutter
    <2> QED BY <2>2, <2>3
  <1> QED
    BY <1>2, <1>3, <1>4, <1>5, <1>6, <1>7, Writers

\* So does a statement of its own.
LEMMA StatementImplements ==
    ASSUME StatementNext
    PROVE  [Contract!Next]_(Contract!vars)
  <1>1. ASSUME NEW u \in Users, Revoke(u) PROVE Contract!Revoke(u)
    BY <1>1 DEF Revoke, Contract!Revoke, Present
  <1>2. ASSUME NEW u \in Users, Redeem(u) PROVE Contract!Give(u)
    BY <1>2 DEF Redeem, Contract!Give, Present
  <1>3. ASSUME NEW u \in Users, AddMember(u) \/ RemoveMember(u)
        PROVE  UNCHANGED Contract!vars
    BY <1>3, RowsStutter DEF AddMember, RemoveMember, Present
  <1>4. CASE Activate \/ Deactivate \/ CreateCategory
    BY <1>4, RowsStutter DEF Activate, Deactivate, Transition, CreateCategory, Present
  <1>5. CASE UnassignModule
    BY <1>5 DEF UnassignModule, Contract!Unassign, Contract!Next, Present
  <1> QED
    BY <1>1, <1>2, <1>3, <1>4, <1>5 DEF StatementNext, Contract!Next

\* Users get and lose the module as GrantsContract says: an installation, an assignment or
\* an uninstallation, however its statements interleave with those of others, happens to
\* the grants at once, at its commit.
THEOREM Implementation == Spec => ImplementsGrants
  <1>1. Init => Contract!Init
    BY DEF Init, Contract!Init, Present
  <1>2. IInv /\ [Next]_vars => [Contract!Next]_(Contract!vars)
    <2>1. UNCHANGED vars => UNCHANGED Contract!vars
      BY RowsStutter DEF vars, Present
    <2> QED BY <2>1, NextCases, RequestImplements, StatementImplements DEF IInv
  <1> QED
    BY <1>1, <1>2, Invariance, PTL DEF Spec, ImplementsGrants, Contract!Spec

=============================================================================
