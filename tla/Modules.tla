------------------------------ MODULE Modules -------------------------------
(***************************************************************************)
(* A module of the instance: its installation, the grants of its users and *)
(* the category it is assigned to (packages/core/src/modules/service.ts,   *)
(* packages/core/src/user-categories/service.ts).                          *)
(*                                                                         *)
(* Installing and uninstalling are transactions of many statements: the    *)
(* registry row, the tables of the module's migrations, its settings.      *)
(* Assigning the module to a category is a transaction that writes the     *)
(* template row and then a grant for each member of that moment.  Grants,  *)
(* revocations and memberships are statements of their own.  The level is  *)
(* READ COMMITTED: a statement sees what is committed, an uncommitted row  *)
(* makes an insert of the same row wait, and a foreign key holds the row   *)
(* it refers to until the end of the transaction.                          *)
(*                                                                         *)
(* One module and one category: others share no row with them.  Migrations *)
(* are as in the tests: "create table" up, "drop table if exists" down.    *)
(***************************************************************************)
EXTENDS FiniteSets

CONSTANTS
    Requests,   \* concurrent requests
    Users,      \* profiles
    NoUser

ASSUME ModulesAssumption == NoUser \notin Users

VARIABLES
    registry,   \* module_registry.state, "absent": no row
    owned,      \* what the module has besides its row: tables, settings
    category,   \* the row of user_categories
    members,    \* user_category_members
    template,   \* the row of user_category_modules
    grant,      \* the row of user_modules of each user
    at,         \* where each request is
    did,        \* the rows its transaction has inserted or deleted
    given,      \* the users whose grants it has inserted
    applied,    \* it has found applied migrations
    user,       \* whom it grants
    due,        \* history: members of the category since its assignment began
    crossed     \* history: two uninstallations were under way at once

rows == <<registry, owned, category, members, template, grant>>
locals == <<did, given, applied, user>>
history == <<due, crossed>>
vars == <<registry, owned, category, members, template, grant,
          at, did, given, applied, user, due, crossed>>

Parts == {"tables", "settings"}

Installing == {"insertModule", "migrateUp", "insertSettings", "commitInstall"}
Uninstalling ==
    {"count", "readApplied", "migrateDown", "deleteSettings", "deleteModule", "commitUninstall"}
Assigning == {"insertTemplate", "materialise", "commitAssign"}
InTransaction == Installing \cup Uninstalling \cup Assigning

\* No grant without its module, no template without both of what it joins.
ForeignKeys ==
    /\ registry = "absent" => ~template /\ \A u \in Users : grant[u] = "none"
    /\ category # "present" => ~template /\ members = {}

TypeOK ==
    /\ registry \in {"absent", "installed", "active", "disabled"}
    /\ owned \subseteq Parts
    /\ category \in {"absent", "present", "deleted"}
    /\ members \subseteq Users
    /\ template \in BOOLEAN
    /\ grant \in [Users -> {"none", "live", "revoked"}]
    /\ at \in [Requests -> InTransaction \cup {"idle", "grant", "deleteCategory"}]
    /\ did \in [Requests -> SUBSET (Parts \cup {"registry", "template"})]
    /\ given \in [Requests -> SUBSET Users]
    /\ applied \in [Requests -> BOOLEAN]
    /\ user \in [Requests -> Users \cup {NoUser}]
    /\ due \in [Requests -> SUBSET Users]
    /\ crossed \in BOOLEAN
    /\ ForeignKeys

Init ==
    /\ registry = "absent"
    /\ owned = {}
    /\ category = "absent"
    /\ members = {}
    /\ template = FALSE
    /\ grant = [u \in Users |-> "none"]
    /\ at = [r \in Requests |-> "idle"]
    /\ did = [r \in Requests |-> {}]
    /\ given = [r \in Requests |-> {}]
    /\ applied = [r \in Requests |-> FALSE]
    /\ user = [r \in Requests |-> NoUser]
    /\ due = [r \in Requests |-> {}]
    /\ crossed = FALSE

-----------------------------------------------------------------------------
(* Rows and their locks.                                                   *)

Present == registry # "absent"

\* The row x is not inserted or deleted by another transaction under way.
Free(r, x) == \A q \in Requests \ {r} : x \notin did[q]

\* A transaction has deleted the module and its grants, and has not committed.
Dropping == \E q \in Requests : at[q] = "commitUninstall" /\ "registry" \in did[q]

\* Mutant of Unreferenced: user_modules has no foreign key to the registry.
UnreferencedByTemplate(r) ==
    \A q \in Requests \ {r} : "registry" \notin did[q] /\ "template" \notin did[q]

\* No uncommitted row refers to the module, or is the module's.
Unreferenced(r) ==
    \A q \in Requests \ {r} : "registry" \notin did[q] /\ "template" \notin did[q] /\ given[q] = {}

\* The grant of u is not being inserted by another transaction.
GrantFree(r, u) == ~Dropping /\ \A q \in Requests \ {r} : u \notin given[q]

\* The request and its transaction have ended.
End(r) ==
    /\ at' = [at EXCEPT ![r] = "idle"]
    /\ did' = [did EXCEPT ![r] = {}]
    /\ given' = [given EXCEPT ![r] = {}]
    /\ applied' = [applied EXCEPT ![r] = FALSE]
    /\ user' = [user EXCEPT ![r] = NoUser]

\* ROLLBACK: nothing that the transaction did stays.
Rollback(r) ==
    /\ End(r)
    /\ due' = [due EXCEPT ![r] = {}]
    /\ UNCHANGED <<rows, crossed>>

\* The transaction goes on with its next statement.
Go(r, stage) == at' = [at EXCEPT ![r] = stage]

\* Any error in a transaction, and any crash.
Fail(r) == at[r] \in InTransaction /\ Rollback(r)


-----------------------------------------------------------------------------
(* Install.                                                                *)

\* withTx: the registry is read, the module is not there.
BeginInstall(r) ==
    /\ at[r] = "idle"
    /\ ~Present
    /\ Go(r, "insertModule")
    /\ UNCHANGED <<rows, locals, history>>

\* insert into module_registry: waits for who inserts or deletes the row.
InsertModule(r) ==
    /\ at[r] = "insertModule"
    /\ Free(r, "registry")
    /\ ~Present
    /\ did' = [did EXCEPT ![r] = @ \cup {"registry"}]
    /\ Go(r, "migrateUp")
    /\ UNCHANGED <<rows, given, applied, user, history>>

\* One of its statements finds in place what it was to create.
InstallClash(r) ==
    /\ \/ at[r] = "insertModule" /\ Free(r, "registry") /\ Present
       \/ at[r] = "migrateUp" /\ "tables" \in owned
       \/ at[r] = "insertSettings" /\ Free(r, "settings") /\ "settings" \in owned
    /\ Rollback(r)

\* applySql of each up migration.
MigrateUp(r) ==
    /\ at[r] = "migrateUp"
    /\ Free(r, "tables")
    /\ "tables" \notin owned
    /\ did' = [did EXCEPT ![r] = @ \cup {"tables"}]
    /\ Go(r, "insertSettings")
    /\ UNCHANGED <<rows, given, applied, user, history>>

\* insert into settings_categories and settings.
InsertSettings(r) ==
    /\ at[r] = "insertSettings"
    /\ Free(r, "settings")
    /\ "settings" \notin owned
    /\ did' = [did EXCEPT ![r] = @ \cup {"settings"}]
    /\ Go(r, "commitInstall")
    /\ UNCHANGED <<rows, given, applied, user, history>>

CommitInstall(r) ==
    /\ at[r] = "commitInstall"
    /\ registry' = "installed"
    /\ owned' = owned \cup (did[r] \cap Parts)
    /\ End(r)
    /\ UNCHANGED <<category, members, template, grant, history>>

-----------------------------------------------------------------------------
(* Activate and deactivate.                                                *)

\* transition: one update of the registry row, guarded by the state it leaves.
Transition(target, from) ==
    /\ ~Dropping
    /\ registry \in from
    /\ registry' = target
    /\ UNCHANGED <<owned, category, members, template, grant, at, locals, history>>

Activate == Transition("active", {"installed", "disabled"})
Deactivate == Transition("disabled", {"active"})

-----------------------------------------------------------------------------
(* Uninstall.                                                              *)

BeginUninstall(r) ==
    /\ at[r] = "idle"
    /\ Present
    /\ Go(r, "count")
    /\ crossed' = (crossed \/ \E q \in Requests : at[q] \in Uninstalling)
    /\ UNCHANGED <<rows, locals, due>>

\* What the administrator is asked to confirm, as it is when it is counted.
Used == template \/ \E u \in Users : grant[u] = "live"

\* The count of grants and category assignments: refused or gone past.
Count(r) ==
    /\ at[r] = "count"
    /\ \E confirm \in BOOLEAN :
        IF Used /\ ~confirm
        THEN Rollback(r)
        ELSE Go(r, "readApplied") /\ UNCHANGED <<rows, locals, history>>

\* The applied migrations: the rows of module_migrations go with the module's.
ReadApplied(r) ==
    /\ at[r] = "readApplied"
    /\ applied' = [applied EXCEPT ![r] = Present]
    /\ Go(r, "migrateDown")
    /\ UNCHANGED <<rows, did, given, user, history>>

\* The down migrations of those applied: waits for who creates or drops them.
MigrateDown(r) ==
    /\ at[r] = "migrateDown"
    /\ IF applied[r] /\ "tables" \in owned
       THEN /\ Free(r, "tables")
            /\ did' = [did EXCEPT ![r] = @ \cup {"tables"}]
       ELSE UNCHANGED did
    /\ Go(r, "deleteSettings")
    /\ UNCHANGED <<rows, given, applied, user, history>>

\* Mutant of DeleteSettings: they are expected to go with the module's row.
SettingsByCascade(r) ==
    /\ at[r] = "deleteSettings"
    /\ Go(r, "deleteModule")
    /\ UNCHANGED <<rows, locals, history>>

DeleteSettings(r) ==
    /\ at[r] = "deleteSettings"
    /\ IF "settings" \in owned
       THEN /\ Free(r, "settings")
            /\ did' = [did EXCEPT ![r] = @ \cup {"settings"}]
       ELSE UNCHANGED did
    /\ Go(r, "deleteModule")
    /\ UNCHANGED <<rows, given, applied, user, history>>

\* delete from module_registry, and by cascade the grants and the template:
\* waits for every uncommitted row that refers to it; no row is no error.
DeleteModule(r) ==
    /\ at[r] = "deleteModule"
    /\ IF Present
       THEN /\ Unreferenced(r)
            /\ did' = [did EXCEPT ![r] = @ \cup {"registry"}]
       ELSE UNCHANGED did
    /\ Go(r, "commitUninstall")
    /\ UNCHANGED <<rows, given, applied, user, history>>

CommitUninstall(r) ==
    /\ at[r] = "commitUninstall"
    /\ owned' = owned \ did[r]
    /\ IF "registry" \in did[r]
       THEN /\ registry' = "absent"
            /\ template' = FALSE
            /\ grant' = [u \in Users |-> "none"]
            /\ due' = [q \in Requests |-> {}]
       ELSE UNCHANGED <<registry, template, grant, due>>
    /\ End(r)
    /\ UNCHANGED <<category, members, crossed>>

-----------------------------------------------------------------------------
(* Grants.                                                                 *)

\* grantUserModule looks the module up in a statement of its own.
BeginGrant(r, u) ==
    /\ at[r] = "idle"
    /\ Present
    /\ user' = [user EXCEPT ![r] = u]
    /\ Go(r, "grant")
    /\ UNCHANGED <<rows, did, given, applied, history>>

\* The upsert: it revives a revoked grant; without the module it is an error.
Grant(r) ==
    /\ at[r] = "grant"
    /\ GrantFree(r, user[r])
    /\ grant' = IF Present THEN [grant EXCEPT ![user[r]] = "live"] ELSE grant
    /\ End(r)
    /\ UNCHANGED <<registry, owned, category, members, template, history>>

Revoke(u) ==
    /\ ~Dropping
    /\ grant[u] = "live"
    /\ grant' = [grant EXCEPT ![u] = "revoked"]
    /\ UNCHANGED <<registry, owned, category, members, template, at, locals, history>>

\* A redeemed invitation: the membership and the grants it carries.
Redeem(u) ==
    /\ members' \in {members, IF category = "present" THEN members \cup {u} ELSE members}
    /\ Present /\ ~Dropping
    /\ \A q \in Requests : u \notin given[q]
    /\ grant' = [grant EXCEPT ![u] = "live"]
    /\ UNCHANGED <<registry, owned, category, template, at, locals, history>>

-----------------------------------------------------------------------------
(* The category and its members.                                           *)

CreateCategory ==
    /\ category = "absent"
    /\ category' = "present"
    /\ UNCHANGED <<registry, owned, members, template, grant, at, locals, history>>

AddMember(u) ==
    /\ category = "present"
    /\ members' = members \cup {u}
    /\ UNCHANGED <<registry, owned, category, template, grant, at, locals, history>>

RemoveMember(u) ==
    /\ members' = members \ {u}
    /\ due' = [r \in Requests |-> due[r] \ {u}]
    /\ UNCHANGED <<registry, owned, category, template, grant, at, locals, crossed>>

\* delete from user_categories where not exists (...): what the statement sees.
BeginDeleteCategory(r) ==
    /\ at[r] = "idle"
    /\ category = "present"
    /\ ~template
    /\ Go(r, "deleteCategory")
    /\ UNCHANGED <<rows, locals, history>>

\* It waits for the row, which assignments under way hold, and does not look
\* at user_category_modules again: members and assignments go by cascade.
FinishDeleteCategory(r) ==
    /\ at[r] = "deleteCategory"
    /\ Free(r, "template")
    /\ category' = "deleted"
    /\ members' = {}
    /\ template' = FALSE
    /\ due' = [q \in Requests |-> {}]
    /\ End(r)
    /\ UNCHANGED <<registry, owned, grant, crossed>>

-----------------------------------------------------------------------------
(* Assign a module to the category.                                        *)

BeginAssign(r) ==
    /\ at[r] = "idle"
    /\ category = "present"
    /\ due' = [due EXCEPT ![r] = IF Present THEN members ELSE {}]
    /\ Go(r, "insertTemplate")
    /\ UNCHANGED <<rows, locals, crossed>>

\* insert into user_category_modules on conflict do nothing.
InsertTemplate(r) ==
    /\ at[r] = "insertTemplate"
    /\ ~Dropping
    /\ Free(r, "template")
    /\ template \/ (Present /\ category = "present")
    /\ did' = IF template THEN did ELSE [did EXCEPT ![r] = {"template"}]
    /\ Go(r, "materialise")
    /\ UNCHANGED <<rows, given, applied, user, history>>

\* Mutant of Targets: on conflict do update.
EveryMember(r) == {u \in members : grant[u] # "live"}

\* Mutant of Targets: who had the template already is left alone.
TargetsOnce(r) == IF did[r] = {} THEN {} ELSE {u \in members : grant[u] = "none"}

\* The members without a grant, live or revoked: on conflict do nothing.
Targets(r) == {u \in members : grant[u] = "none"}

\* insert into user_modules for the members of this moment.
Materialise(r) ==
    /\ at[r] = "materialise"
    /\ \A u \in members : GrantFree(r, u)
    /\ Present \/ Targets(r) = {}
    /\ given' = [given EXCEPT ![r] = Targets(r)]
    /\ Go(r, "commitAssign")
    /\ UNCHANGED <<rows, did, applied, user, history>>

\* A foreign key does not hold: the category or the module has gone.
AssignClash(r) ==
    /\ \/ /\ at[r] = "insertTemplate"
          /\ ~Dropping
          /\ ~template
          /\ ~Present \/ category # "present"
       \/ /\ at[r] = "materialise"
          /\ ~Present
          /\ Targets(r) # {}
    /\ Rollback(r)

CommitAssign(r) ==
    /\ at[r] = "commitAssign"
    /\ template' = (template \/ "template" \in did[r])
    /\ grant' = [u \in Users |-> IF u \in given[r] THEN "live" ELSE grant[u]]
    /\ due' = [due EXCEPT ![r] = {}]
    /\ End(r)
    /\ UNCHANGED <<registry, owned, category, members, crossed>>

\* What the members have been given stays theirs.
UnassignModule ==
    /\ template
    /\ ~Dropping
    /\ template' = FALSE
    /\ UNCHANGED <<registry, owned, category, members, grant, at, locals, history>>

-----------------------------------------------------------------------------

InstallNext(r) ==
    \/ BeginInstall(r)
    \/ InsertModule(r)
    \/ InstallClash(r)
    \/ MigrateUp(r)
    \/ InsertSettings(r)
    \/ CommitInstall(r)

UninstallNext(r) ==
    \/ BeginUninstall(r)
    \/ Count(r)
    \/ ReadApplied(r)
    \/ MigrateDown(r)
    \/ DeleteSettings(r)
    \/ DeleteModule(r)
    \/ CommitUninstall(r)

AssignNext(r) ==
    \/ BeginAssign(r)
    \/ InsertTemplate(r)
    \/ Materialise(r)
    \/ AssignClash(r)
    \/ CommitAssign(r)

Next ==
    \/ \E r \in Requests :
        \/ InstallNext(r)
        \/ UninstallNext(r)
        \/ AssignNext(r)
        \/ \E u \in Users : BeginGrant(r, u)
        \/ Grant(r)
        \/ BeginDeleteCategory(r)
        \/ FinishDeleteCategory(r)
        \/ Fail(r)
    \/ \E u \in Users : Revoke(u) \/ Redeem(u) \/ AddMember(u) \/ RemoveMember(u)
    \/ Activate
    \/ Deactivate
    \/ CreateCategory
    \/ UnassignModule

Spec == Init /\ [][Next]_vars

-----------------------------------------------------------------------------
(* Properties.                                                             *)


\* An assignment that commits has given the module to whom it owes it.
GivesAllDue ==
    \A r \in Requests : CommitAssign(r) => \A u \in due[r] : grant'[u] # "none"

\* Assigning a module gives it to everybody who has been a member of the
\* category since before the assignment began and is one still, whatever is
\* assigned, granted, uninstalled or redeemed meanwhile: nobody is left with
\* the template row and no row of user_modules ("materialises user_modules for
\* the current members", user-categories/service.ts).
MembersAreGiven == [][GivesAllDue]_vars

\* An assignment that commits leaves what was revoked.
LeavesRevoked ==
    \A r \in Requests, u \in Users :
        CommitAssign(r) /\ grant[u] = "revoked" => grant'[u] = "revoked"

\* Assigning a module never revives a grant that was revoked, even between
\* the statement that reads the grants and the commit that shows its own.
RevokedStaysRevoked == [][LeavesRevoked]_vars

\* A module in the registry has its tables and its settings, and one that is
\* not there has left nothing that would make the next installation fail,
\* whatever installs and uninstalls race, fail or crash, except when two
\* uninstallations have overlapped (the second reads no applied migration and
\* deletes the row of a later installation: see the README).
RegistryTellsTheTruth ==
    ~crossed => owned = IF Present THEN Parts ELSE {}

\* Whatever transactions race, wait for each other and fail, users get and lose the module
\* as if each operation happened at once: see GrantsContract.
Contract == INSTANCE GrantsContract WITH installed <- Present, assigned <- template

ImplementsGrants == Contract!Spec
=============================================================================
