------------------------- MODULE InvitationsProofs --------------------------
(***************************************************************************)
(* Theorems about redeemInvitation for any number of invitations, requests *)
(* and accounts.  The row lock and the re-check under it give single use;  *)
(* what createdUserId records gives the safety of everybody else's account *)
(* against the compensation of a failed redemption.                        *)
(***************************************************************************)
EXTENDS Invitations, SequenceTheorems, FiniteSetTheorems, TLAPS

\* The address of an invitation, and what it gives, are of the expected sets.
LEMMA InvitationData ==
    ASSUME NEW i \in Invitations
    PROVE  EmailOf[i] \in Emails /\ PerksOf[i] \subseteq Perks
  BY DEF Emails, Perks

\* ROLLBACK and COMMIT release one's own locks and nobody else's.
LEMMA UnlockedType ==
    ASSUME TypeOK, NEW r \in Redeemers
    PROVE  /\ Unlocked(r) \in [Invitations -> Redeemers \cup {Nobody}]
           /\ \A s \in Redeemers, i \in Invitations :
                  s # r /\ locked[i] = s => Unlocked(r)[i] = s
  BY DEF TypeOK, Unlocked

\* A request that fails keeps every variable typed.
LEMMA AbortType ==
    ASSUME TypeOK, NEW r \in Redeemers, Abort(r), faults' \in 0..MaxFaults
    PROVE  TypeOK'
  <1>1. Unlocked(r) \in [Invitations -> Redeemers \cup {Nobody}]
    BY UnlockedType
  <1>2. at' \in [Redeemers -> Stages]
    BY DEF Abort, TypeOK, Stages
  <1> QED BY <1>1, <1>2 DEF Abort, TypeOK, rows, accounts, locals

\* A call that fails is counted.
LEMMA FaultType ==
    ASSUME TypeOK, Fault
    PROVE  faults' \in 0..MaxFaults /\ faults' # 0
  BY InvitationsAssumption DEF Fault, TypeOK

\* The writes of a redemption keep rows and accounts typed, and the foreign keys.
LEMMA WriteType ==
    ASSUME TypeOK, NEW r \in Redeemers, Write(r), at' \in [Redeemers -> Stages],
           faults' \in 0..MaxFaults, UNCHANGED locals
    PROVE  TypeOK'
  <1> USE DEF locals
  <1>1. inv[r] \in Invitations /\ user[r] \in Accounts /\ PerksOf[inv[r]] \subseteq Perks
    BY InvitationData DEF TypeOK
  <1>2. /\ row' \in [Invitations -> {"absent", "pending", "revoked", "used", "purged"}]
        /\ locked' \in [Invitations -> Redeemers \cup {Nobody}]
    BY <1>1, UnlockedType DEF Write, TypeOK
  <1>3. redemptions' \in [Invitations -> Seq(Accounts)]
    <2>1. redemptions[inv[r]] \in Seq(Accounts)
      BY <1>1 DEF TypeOK
    <2>2. Append(redemptions[inv[r]], user[r]) \in Seq(Accounts)
      BY <1>1, <2>1, AppendProperties
    <2> QED BY <1>1, <2>2 DEF Write, TypeOK
  <1>4. profile' \in [Accounts -> {"none", "active", "deactivated"}]
    BY <1>1 DEF Write, TypeOK
  <1>5. access' \in [Accounts -> SUBSET Perks]
    BY <1>1 DEF Write, TypeOK
  <1>6. profile'[user[r]] # "none" /\ email'[user[r]] # NoEmail
    BY <1>1 DEF Write, TypeOK
  <1>7. \A u \in Accounts : u # user[r] =>
            profile'[u] = profile[u] /\ access'[u] = access[u] /\ email'[u] = email[u]
    BY <1>1 DEF Write, TypeOK
  <1> QED BY <1>2, <1>3, <1>4, <1>5, <1>6, <1>7 DEF Write, TypeOK

\* Deleting an account keeps accounts typed, and the foreign keys: the cascade.
LEMMA DeleteType ==
    ASSUME TypeOK, NEW u \in Accounts, DeleteAccount(u), at' \in [Redeemers -> Stages],
           faults' \in 0..MaxFaults, UNCHANGED <<row, expired, locked, redemptions, inv, user, created>>
    PROVE  TypeOK'
  <1>1. email' \in [Accounts -> Emails \cup {NoEmail}]
    BY DEF DeleteAccount, TypeOK
  <1>2. profile' \in [Accounts -> {"none", "active", "deactivated"}]
    BY DEF DeleteAccount, TypeOK
  <1>3. access' \in [Accounts -> SUBSET Perks]
    BY DEF DeleteAccount, TypeOK
  <1>4. profile'[u] = "none" /\ access'[u] = {}
    BY DEF DeleteAccount, TypeOK
  <1>5. \A v \in Accounts : v # u =>
            profile'[v] = profile[v] /\ access'[v] = access[v] /\ email'[v] = email[v]
    BY DEF DeleteAccount, TypeOK
  <1> QED BY <1>1, <1>2, <1>3, <1>4, <1>5 DEF DeleteAccount, TypeOK

\* Every step of the environment or of a request keeps every variable typed, and no
\* access without a profile, no profile without an Auth user.
LEMMA TypeNext == TypeOK /\ [Next]_vars => TypeOK'
  <1> SUFFICES ASSUME TypeOK, [Next]_vars PROVE TypeOK'
    OBVIOUS
  <1> USE InvitationsAssumption DEF rows, accounts, locals
  <1>1. CASE UNCHANGED vars
    BY <1>1 DEF vars, TypeOK
  <1>2. ASSUME NEW i \in Invitations, Create(i) \/ Revoke(i) \/ Expire(i) \/ Purge(i)
        PROVE  TypeOK'
    BY <1>2 DEF Create, Revoke, Expire, Purge, TypeOK
  <1>3. ASSUME NEW u \in Accounts, DeactivateUser(u) PROVE TypeOK'
    <2>1. profile' \in [Accounts -> {"none", "active", "deactivated"}]
      BY <1>3 DEF DeactivateUser, TypeOK
    <2>2. \A v \in Accounts : profile'[v] = "none" <=> profile[v] = "none"
      BY <1>3 DEF DeactivateUser, TypeOK
    <2> QED BY <1>3, <2>1, <2>2 DEF DeactivateUser, TypeOK
  <1>4. ASSUME NEW u \in Accounts, NEW p \in Perks, RevokeAccess(u, p) PROVE TypeOK'
    <2>1. access' \in [Accounts -> SUBSET Perks]
      BY <1>4 DEF RevokeAccess, TypeOK
    <2>2. \A v \in Accounts : access'[v] \subseteq access[v]
      BY <1>4 DEF RevokeAccess, TypeOK
    <2> QED BY <1>4, <2>1, <2>2 DEF RevokeAccess, TypeOK
  <1>5. ASSUME NEW r \in Redeemers, Preflight(r) PROVE TypeOK'
    BY <1>5 DEF Preflight, TypeOK, Stages
  <1>6. ASSUME NEW r \in Redeemers, Step(r) PROVE TypeOK'
    <2>1. CASE FindUser(r)
      BY <2>1 DEF FindUser, Registered, TypeOK, Stages
    <2>2. CASE UserNotFound(r) \/ CreateUserTaken(r) \/ CreateUserRefused(r)
      BY <2>2 DEF UserNotFound, CreateUserTaken, CreateUserRefused, TypeOK, Stages
    <2>3. CASE CreateUser(r)
      <3>1. fresh \in Accounts /\ EmailOf[inv[r]] \in Emails \ {NoEmail}
        BY <2>3, InvitationData DEF CreateUser, Register, TypeOK, Accounts
      <3>2. email' \in [Accounts -> Emails \cup {NoEmail}] /\ fresh' \in 1..(MaxAccounts + 1)
        BY <2>3, <3>1 DEF CreateUser, Register, TypeOK, Accounts
      <3>3. \A u \in Accounts : email[u] # NoEmail => email'[u] # NoEmail
        BY <2>3, <3>1 DEF CreateUser, Register, TypeOK
      <3> QED BY <2>3, <3>1, <3>2, <3>3 DEF CreateUser, Register, TypeOK, Stages
    <2>4. CASE LockInvitation(r)
      BY <2>4 DEF LockInvitation, TypeOK, Stages
    <2>5. CASE LockedTooLate(r) \/ AccountDeactivated(r) \/ AccountGone(r)
      BY <2>5, AbortType DEF LockedTooLate, AccountDeactivated, AccountGone, TypeOK
    <2>6. CASE CheckProfile(r)
      BY <2>6 DEF CheckProfile, TypeOK, Stages
    <2>7. CASE WriteAndCommit(r)
      <3>1. at' \in [Redeemers -> Stages]
        BY <2>7 DEF WriteAndCommit, TypeOK, Stages
      <3> QED BY <2>7, <3>1, WriteType DEF WriteAndCommit, TypeOK
    <2>8. CASE Undo(r)
      <3>1. at' \in [Redeemers -> Stages]
        BY <2>8 DEF Undo, TypeOK, Stages
      <3> QED BY <2>8, <3>1, DeleteType DEF Undo, TypeOK
    <2> QED BY <1>6, <2>1, <2>2, <2>3, <2>4, <2>5, <2>6, <2>7, <2>8 DEF Step
  <1>7. ASSUME NEW r \in Redeemers, Failure(r) PROVE TypeOK'
    <2>1. CASE CreateUserUnacknowledged(r)
      <3>1. fresh \in Accounts /\ EmailOf[inv[r]] \in Emails \ {NoEmail}
        BY <2>1, InvitationData DEF CreateUserUnacknowledged, Register, TypeOK, Accounts
      <3>2. email' \in [Accounts -> Emails \cup {NoEmail}] /\ fresh' \in 1..(MaxAccounts + 1)
        BY <2>1, <3>1 DEF CreateUserUnacknowledged, Register, TypeOK, Accounts
      <3>3. \A u \in Accounts : email[u] # NoEmail => email'[u] # NoEmail
        BY <2>1, <3>1 DEF CreateUserUnacknowledged, Register, TypeOK
      <3>4. faults' \in 0..MaxFaults
        BY <2>1, FaultType DEF CreateUserUnacknowledged
      <3> QED BY <2>1, <3>2, <3>3, <3>4 DEF CreateUserUnacknowledged, Register, TypeOK, Stages
    <2>2. CASE CommitUnacknowledged(r)
      <3>1. at' \in [Redeemers -> Stages] /\ faults' \in 0..MaxFaults
        BY <2>2, FaultType DEF CommitUnacknowledged, TypeOK, Stages
      <3> QED BY <2>2, <3>1, WriteType DEF CommitUnacknowledged
    <2>3. CASE StatementFails(r)
      BY <2>3, FaultType, AbortType DEF StatementFails
    <2>4. CASE UndoFails(r)
      BY <2>4, FaultType DEF UndoFails, TypeOK, Stages
    <2>5. CASE Crash(r)
      BY <2>5, FaultType, UnlockedType DEF Crash, TypeOK, Stages
    <2> QED BY <1>7, <2>1, <2>2, <2>3, <2>4, <2>5 DEF Failure
  <1> QED BY <1>1, <1>2, <1>3, <1>4, <1>5, <1>6, <1>7 DEF Next

-----------------------------------------------------------------------------
\* Only the request that holds a row's lock changes a pending row it has re-checked.
LEMMA LockNext == TypeOK /\ LockInv /\ [Next]_vars => LockInv'
  <1> SUFFICES ASSUME TypeOK, LockInv, [Next]_vars,
                      NEW s \in Redeemers, at'[s] \in {"check", "write"}
               PROVE  locked'[inv'[s]] = s /\ row'[inv'[s]] = "pending"
    BY DEF LockInv
  <1> USE InvitationsAssumption DEF rows, accounts, locals
  <1>1. CASE UNCHANGED vars
    BY <1>1 DEF vars, LockInv
  <1>2. ASSUME NEW i \in Invitations, Create(i) \/ Revoke(i) \/ Expire(i) \/ Purge(i)
        PROVE  locked'[inv'[s]] = s /\ row'[inv'[s]] = "pending"
    BY <1>2 DEF Create, Revoke, Expire, Purge, TypeOK, LockInv
  <1>3. CASE (\E u \in Accounts : DeactivateUser(u) \/ \E p \in Perks : RevokeAccess(u, p))
    BY <1>3 DEF DeactivateUser, RevokeAccess, LockInv
  <1>4. ASSUME NEW r \in Redeemers, r # s, Preflight(r) \/ Step(r) \/ Failure(r)
        PROVE  locked'[inv'[s]] = s /\ row'[inv'[s]] = "pending"
    <2>1. at'[s] = at[s] /\ inv'[s] = inv[s]
      BY <1>4 DEF Preflight, Step, FindUser, UserNotFound, CreateUser, CreateUserTaken,
         CreateUserRefused, LockInvitation, LockedTooLate, CheckProfile, AccountDeactivated,
         WriteAndCommit, AccountGone, Undo, Failure, CreateUserUnacknowledged,
         CommitUnacknowledged, StatementFails, UndoFails, Crash, Abort, TypeOK
    <2>2. locked[inv[s]] = s /\ row[inv[s]] = "pending" /\ inv[s] \in Invitations
      BY <2>1 DEF LockInv, TypeOK
    <2>3. CASE UNCHANGED <<row, locked>>
      BY <2>1, <2>2, <2>3
    <2>4. CASE LockInvitation(r)
      BY <2>1, <2>2, <2>4 DEF LockInvitation, TypeOK
    <2>5. CASE row' = row /\ locked' = Unlocked(r)
      BY <1>4, <2>1, <2>2, <2>5, UnlockedType
    <2>6. CASE WriteAndCommit(r) \/ CommitUnacknowledged(r)
      <3>1. locked[inv[r]] = r /\ inv[r] # inv[s]
        BY <1>4, <2>2, <2>6 DEF WriteAndCommit, CommitUnacknowledged, LockInv
      <3>2. locked' = Unlocked(r) /\ row' = [row EXCEPT ![inv[r]] = "used"]
        BY <2>6 DEF WriteAndCommit, CommitUnacknowledged, Write
      <3> QED BY <1>4, <2>1, <2>2, <3>1, <3>2, UnlockedType DEF TypeOK
    <2> QED BY <1>4, <2>3, <2>4, <2>5, <2>6 DEF Preflight, Step, FindUser, UserNotFound,
         CreateUser, CreateUserTaken, CreateUserRefused, LockedTooLate, CheckProfile,
         AccountDeactivated, AccountGone, Undo, Failure, CreateUserUnacknowledged,
         StatementFails, UndoFails, Crash, Abort
  <1>5. CASE Preflight(s) \/ Step(s) \/ Failure(s)
    <2>1. CASE LockInvitation(s)
      BY <2>1 DEF LockInvitation, StillRedeemable, Redeemable, TypeOK
    <2>2. CASE CheckProfile(s)
      BY <2>2 DEF CheckProfile, LockInv
    <2>3. CASE ~LockInvitation(s) /\ ~CheckProfile(s)
      <3>1. at'[s] \notin {"check", "write"}
        BY <1>5, <2>3 DEF Preflight, Step, FindUser, UserNotFound, CreateUser, CreateUserTaken,
           CreateUserRefused, LockedTooLate, AccountDeactivated, WriteAndCommit, AccountGone,
           Undo, Failure, CreateUserUnacknowledged, CommitUnacknowledged, StatementFails,
           UndoFails, Crash, Abort, TypeOK
      <3> QED BY <3>1
    <2> QED BY <2>1, <2>2, <2>3
  <1> QED BY <1>1, <1>2, <1>3, <1>4, <1>5 DEF Next

\* Redemptions are only appended by the writes of a request whose row is pending.
LEMMA OnlyWriteRedeems ==
    ASSUME TypeOK, LockInv, [Next]_vars, NEW i \in Invitations, redemptions'[i] # redemptions[i]
    PROVE  /\ row[i] = "pending" /\ row'[i] = "used"
           /\ \E u \in Accounts : redemptions'[i] = Append(redemptions[i], u)
  <1>1. PICK r \in Redeemers : WriteAndCommit(r) \/ CommitUnacknowledged(r)
    BY DEF Next, vars, Create, Revoke, Expire, Purge, DeactivateUser, RevokeAccess, Preflight,
       Step, FindUser, UserNotFound, CreateUser, CreateUserTaken, CreateUserRefused,
       LockInvitation, LockedTooLate, CheckProfile, AccountDeactivated, AccountGone, Undo,
       Failure, CreateUserUnacknowledged, StatementFails, UndoFails, Crash, Abort, rows
  <1>2. Write(r) /\ at[r] = "write"
    BY <1>1 DEF WriteAndCommit, CommitUnacknowledged
  <1>3. i = inv[r] /\ user[r] \in Accounts
    BY <1>2 DEF Write, TypeOK
  <1> QED BY <1>2, <1>3 DEF Write, LockInv, TypeOK

\* Rows become pending only when they are created.
LEMMA PendingBefore ==
    ASSUME TypeOK, [Next]_vars, NEW i \in Invitations, row'[i] \in {"absent", "pending"}
    PROVE  row[i] \in {"absent", "pending"}
  BY DEF Next, vars, Create, Revoke, Expire, Purge, DeactivateUser, RevokeAccess, Preflight,
     Step, FindUser, UserNotFound, CreateUser, CreateUserTaken, CreateUserRefused,
     LockInvitation, LockedTooLate, CheckProfile, AccountDeactivated, WriteAndCommit,
     AccountGone, Undo, Failure, CreateUserUnacknowledged, CommitUnacknowledged,
     StatementFails, UndoFails, Crash, Abort, Write, rows, TypeOK

\* A pending row has given nothing, and a row gives once.
LEMMA RedemptionNext ==
    TypeOK /\ LockInv /\ RedemptionInv /\ SingleUse /\ [Next]_vars
        => RedemptionInv' /\ SingleUse'
  <1> SUFFICES ASSUME TypeOK, LockInv, RedemptionInv, SingleUse, [Next]_vars,
                      NEW i \in Invitations
               PROVE  /\ row'[i] \in {"absent", "pending"} => redemptions'[i] = <<>>
                      /\ Len(redemptions'[i]) <= 1
    BY DEF RedemptionInv, SingleUse
  <1>1. CASE redemptions'[i] = redemptions[i]
    BY <1>1, PendingBefore DEF RedemptionInv, SingleUse
  <1>2. CASE redemptions'[i] # redemptions[i]
    <2>1. PICK u \in Accounts : redemptions'[i] = Append(redemptions[i], u)
      BY <1>2, OnlyWriteRedeems
    <2>2. row[i] = "pending" /\ row'[i] = "used" /\ redemptions[i] = <<>>
      BY <1>2, OnlyWriteRedeems DEF RedemptionInv
    <2>3. <<>> \in Seq(Accounts) /\ Len(<<>>) = 0
      BY EmptySeq
    <2>4. Len(Append(<<>>, u)) = 1
      BY <2>3, AppendProperties
    <2> QED BY <2>1, <2>2, <2>4
  <1> QED BY <1>1, <1>2

-----------------------------------------------------------------------------
\* What a request calls its own, it created; ids of Auth users are never used twice.
LEMMA OwnNext == TypeOK /\ OwnInv /\ [Next]_vars => OwnInv'
  <1> SUFFICES ASSUME TypeOK, OwnInv, [Next]_vars PROVE OwnInv'
    OBVIOUS
  <1> USE InvitationsAssumption DEF rows, accounts, locals
  <1>1. fresh' \in {fresh, fresh + 1}
    BY DEF Next, vars, Create, Revoke, Expire, Purge, DeactivateUser, RevokeAccess, Preflight,
       Step, FindUser, UserNotFound, CreateUser, CreateUserTaken, CreateUserRefused, Register,
       LockInvitation, LockedTooLate, CheckProfile, AccountDeactivated, WriteAndCommit,
       AccountGone, Undo, Failure, CreateUserUnacknowledged, CommitUnacknowledged,
       StatementFails, UndoFails, Crash, Abort, Write, DeleteAccount
  <1>2. \A u \in DOMAIN Members : u < fresh'
    BY <1>1 DEF OwnInv, TypeOK, Accounts
  <1>3. ASSUME NEW s \in Redeemers
        PROVE  /\ created'[s] => user'[s] \notin DOMAIN Members
               /\ at'[s] \in {"find", "create", "refind"} => ~created'[s]
               /\ at'[s] = "undo" => created'[s]
    <2>1. CASE UNCHANGED <<at, user, created>>
      BY <2>1 DEF OwnInv
    <2>2. ASSUME NEW r \in Redeemers, r # s, Preflight(r) \/ Step(r) \/ Failure(r)
          PROVE  at'[s] = at[s] /\ user'[s] = user[s] /\ created'[s] = created[s]
      BY <2>2 DEF Preflight, Step, FindUser, UserNotFound, CreateUser, CreateUserTaken,
         CreateUserRefused, LockInvitation, LockedTooLate, CheckProfile, AccountDeactivated,
         WriteAndCommit, AccountGone, Undo, Failure, CreateUserUnacknowledged,
         CommitUnacknowledged, StatementFails, UndoFails, Crash, Abort, TypeOK
    <2>3. CASE CreateUser(s)
      BY <2>3 DEF CreateUser, Register, OwnInv, TypeOK
    <2>4. CASE Preflight(s)
      BY <2>4 DEF Preflight, TypeOK
    <2>5. CASE FindUser(s)
      BY <2>5 DEF FindUser, OwnInv, TypeOK
    <2>6. CASE UNCHANGED <<user, created>> /\ (Step(s) \/ Failure(s))
      <3>1. at'[s] \in {"find", "create", "refind"} => at[s] \in {"find", "create", "refind"}
        BY <2>6 DEF Step, FindUser, UserNotFound, CreateUser, CreateUserTaken,
           CreateUserRefused, LockInvitation, LockedTooLate, CheckProfile, AccountDeactivated,
           WriteAndCommit, AccountGone, Undo, Failure, CreateUserUnacknowledged,
           CommitUnacknowledged, StatementFails, UndoFails, Crash, Abort, TypeOK
      <3>2. at'[s] = "undo" => created[s]
        BY <2>6 DEF Step, FindUser, UserNotFound, CreateUser, CreateUserTaken,
           CreateUserRefused, LockInvitation, LockedTooLate, CheckProfile, AccountDeactivated,
           WriteAndCommit, AccountGone, Undo, Failure, CreateUserUnacknowledged,
           CommitUnacknowledged, StatementFails, UndoFails, Crash, Abort, Owned, TypeOK
      <3> QED BY <2>6, <3>1, <3>2 DEF OwnInv
    <2>7. (Step(s) \/ Failure(s)) /\ ~CreateUser(s) /\ ~FindUser(s) => UNCHANGED <<user, created>>
      BY DEF Step, UserNotFound, CreateUserTaken, CreateUserRefused, LockInvitation,
         LockedTooLate, CheckProfile, AccountDeactivated, WriteAndCommit, AccountGone, Undo,
         Failure, CreateUserUnacknowledged, CommitUnacknowledged, StatementFails, UndoFails,
         Crash, Abort
    <2>8. \/ UNCHANGED <<at, user, created>>
          \/ \E r \in Redeemers : Preflight(r) \/ Step(r) \/ Failure(r)
      BY DEF Next, vars, Create, Revoke, Expire, Purge, DeactivateUser, RevokeAccess
    <2> QED BY <2>1, <2>2, <2>3, <2>4, <2>5, <2>6, <2>7, <2>8 DEF OwnInv
  <1> QED BY <1>2, <1>3 DEF OwnInv

\* auth.users changes in two ways: an unused id is registered, or a request that created
\* an account deletes it; a profile is lost only with its account.
LEMMA AccountsStep ==
    ASSUME TypeOK, OwnInv, [Next]_vars
    PROVE  \/ email' = email /\ \A u \in Accounts : profile'[u] = "none" => profile[u] = "none"
           \/ /\ \E e \in Emails : email' = [email EXCEPT ![fresh] = e]
              /\ profile' = profile
           \/ \E r \in Redeemers : at[r] = "undo" /\ created[r] /\ DeleteAccount(user[r])
  <1> USE DEF rows, accounts, locals
  <1>1. CASE \E r \in Redeemers : CreateUser(r) \/ CreateUserUnacknowledged(r)
    BY <1>1, InvitationData DEF CreateUser, CreateUserUnacknowledged, Register, TypeOK
  <1>2. CASE \E r \in Redeemers : Undo(r)
    BY <1>2 DEF Undo, OwnInv
  <1>3. CASE \E r \in Redeemers : WriteAndCommit(r) \/ CommitUnacknowledged(r)
    BY <1>3 DEF WriteAndCommit, CommitUnacknowledged, Write, TypeOK
  <1>4. CASE \E u \in Accounts : DeactivateUser(u)
    BY <1>4 DEF DeactivateUser, TypeOK
  <1>5. CASE UNCHANGED <<email, profile>>
    BY <1>5
  <1> QED BY <1>1, <1>2, <1>3, <1>4, <1>5 DEF Next, vars, Create, Revoke, Expire, Purge,
       RevokeAccess, Preflight, Step, FindUser, UserNotFound, CreateUserTaken,
       CreateUserRefused, LockInvitation, LockedTooLate, CheckProfile, AccountDeactivated,
       AccountGone, Failure, StatementFails, UndoFails, Crash, Abort

\* The compensation deletes no account of a member.
LEMMA MembersNext == TypeOK /\ OwnInv /\ MembersSurvive /\ [Next]_vars => MembersSurvive'
  <1> SUFFICES ASSUME TypeOK, OwnInv, MembersSurvive, [Next]_vars, NEW u \in DOMAIN Members
               PROVE  email'[u] = Members[u]
    BY DEF MembersSurvive
  <1>1. u \in Accounts /\ email[u] = Members[u] /\ u # fresh
    BY InvitationsAssumption DEF MembersSurvive, OwnInv, TypeOK, Accounts
  <1>2. CASE \E r \in Redeemers : at[r] = "undo" /\ created[r] /\ DeleteAccount(user[r])
    BY <1>1, <1>2 DEF DeleteAccount, OwnInv, TypeOK
  <1>3. CASE \E e \in Emails : email' = [email EXCEPT ![fresh] = e]
    BY <1>1, <1>3 DEF TypeOK
  <1>4. CASE email' = email
    BY <1>1, <1>4
  <1> QED BY <1>2, <1>3, <1>4, AccountsStep

\* An account without a profile stays with the request that created it: that request
\* ends with the profile written or with the account deleted.
LEMMA OrphansNext == TypeOK /\ OwnInv /\ NoOrphans /\ [Next]_vars => NoOrphans'
  <1> SUFFICES ASSUME TypeOK, OwnInv, NoOrphans, [Next]_vars, faults' = 0,
                      NEW u \in Accounts, email'[u] # NoEmail, profile'[u] = "none"
               PROVE  \E r \in Redeemers : at'[r] # "idle" /\ user'[r] = u /\ created'[r]
    BY DEF NoOrphans
  <1> USE InvitationsAssumption DEF rows, accounts, locals
  <1>1. faults = 0 /\ \A r \in Redeemers : ~Failure(r)
    BY FaultType DEF Failure, CreateUserUnacknowledged, CommitUnacknowledged, StatementFails,
       UndoFails, Crash, Fault, TypeOK, Next, vars, Create, Revoke, Expire, Purge,
       DeactivateUser, RevokeAccess, Preflight, Step, FindUser, UserNotFound, CreateUser,
       CreateUserTaken, CreateUserRefused, LockInvitation, LockedTooLate, CheckProfile,
       AccountDeactivated, WriteAndCommit, AccountGone, Undo
  <1>2. CASE \E r \in Redeemers : CreateUser(r) /\ u = fresh
    BY <1>2 DEF CreateUser, TypeOK
  <1>3. CASE ~\E r \in Redeemers : CreateUser(r) /\ u = fresh
    <2>1. email[u] # NoEmail /\ profile[u] = "none"
      <3>1. CASE \E r \in Redeemers : CreateUser(r)
        BY <1>3, <3>1 DEF CreateUser, Register, TypeOK
      <3>2. CASE \E r \in Redeemers : DeleteAccount(user[r])
        BY <3>2 DEF DeleteAccount, TypeOK
      <3>3. CASE email' = email /\ (profile'[u] = "none" => profile[u] = "none")
        BY <3>3
      <3> QED BY <1>1, <3>1, <3>2, <3>3 DEF Next, vars, Create, Revoke, Expire, Purge,
           DeactivateUser, RevokeAccess, Preflight, Step, FindUser, UserNotFound,
           CreateUserTaken, CreateUserRefused, LockInvitation, LockedTooLate, CheckProfile,
           AccountDeactivated, WriteAndCommit, AccountGone, Undo, Abort, Write, TypeOK
    <2>2. PICK s \in Redeemers : at[s] # "idle" /\ user[s] = u /\ created[s]
      BY <1>1, <2>1 DEF NoOrphans
    <2>3. ASSUME NEW r \in Redeemers, r # s, Preflight(r) \/ Step(r)
          PROVE  at'[s] = at[s] /\ user'[s] = user[s] /\ created'[s] = created[s]
      BY <2>3 DEF Preflight, Step, FindUser, UserNotFound, CreateUser, CreateUserTaken,
         CreateUserRefused, LockInvitation, LockedTooLate, CheckProfile, AccountDeactivated,
         WriteAndCommit, AccountGone, Undo, Abort, TypeOK
    <2>4. ASSUME Step(s)
          PROVE  at'[s] # "idle" /\ user'[s] = user[s] /\ created'[s] = created[s]
      <3>1. at[s] \notin {"find", "create", "refind"}
        BY <2>2 DEF OwnInv
      <3>2. CASE WriteAndCommit(s)
        <4>1. Write(s)
          BY <3>2 DEF WriteAndCommit
        <4>2. profile'[u] # "none"
          BY <2>2, <4>1 DEF Write, TypeOK
        <4> QED BY <4>2
      <3>3. CASE Undo(s)
        <4>1. DeleteAccount(u)
          BY <2>2, <3>3 DEF Undo
        <4>2. email'[u] = NoEmail
          BY <4>1 DEF DeleteAccount, TypeOK
        <4> QED BY <4>2
      <3>4. CASE LockInvitation(s) \/ CheckProfile(s)
        BY <3>4 DEF LockInvitation, CheckProfile, TypeOK
      <3>5. CASE LockedTooLate(s) \/ AccountDeactivated(s) \/ AccountGone(s)
        BY <2>2, <3>5 DEF LockedTooLate, AccountDeactivated, AccountGone, Abort, Owned, TypeOK
      <3> QED BY <2>4, <3>1, <3>2, <3>3, <3>4, <3>5 DEF Step, FindUser, UserNotFound,
           CreateUser, CreateUserTaken, CreateUserRefused
    <2>5. ~Preflight(s)
      BY <2>2 DEF Preflight
    <2>6. \/ UNCHANGED <<at, user, created>>
          \/ \E r \in Redeemers : Preflight(r) \/ Step(r)
      BY <1>1 DEF Next, vars, Create, Revoke, Expire, Purge, DeactivateUser, RevokeAccess
    <2> QED BY <2>2, <2>3, <2>4, <2>5, <2>6
  <1> QED BY <1>2, <1>3

-----------------------------------------------------------------------------
\* The instance starts with members only, each with a profile.
LEMMA InitInv == Init => IndInv
  <1> SUFFICES ASSUME Init PROVE IndInv
    OBVIOUS
  <1> USE InvitationsAssumption
  <1>1. Cardinality(DOMAIN Members) \in Nat /\ Cardinality(DOMAIN Members) <= MaxAccounts
    <2>1. IsFiniteSet(Accounts) /\ Cardinality(Accounts) = MaxAccounts
      BY FS_Interval DEF Accounts
    <2> QED BY <2>1, FS_Subset, FS_CardinalityType
  <1>2. \A u \in DOMAIN Members : u < Cardinality(DOMAIN Members) + 1
    BY <1>1
  <1>3. <<>> \in Seq(Accounts) /\ Len(<<>>) = 0
    BY EmptySeq
  <1>4. \A u \in DOMAIN Members : Members[u] \in Emails /\ Members[u] # NoEmail
    BY DEF Emails
  <1>5. TypeOK
    BY <1>1, <1>3, <1>4 DEF Init, TypeOK, Accounts, Stages
  <1>6. OwnInv
    BY <1>2 DEF Init, OwnInv
  <1>7. LockInv /\ RedemptionInv /\ SingleUse
    BY <1>3 DEF Init, LockInv, RedemptionInv, SingleUse
  <1>8. MembersSurvive /\ NoOrphans
    BY DEF Init, MembersSurvive, NoOrphans, Accounts
  <1> QED BY <1>5, <1>6, <1>7, <1>8 DEF IndInv

\* The inductive invariant of redemption holds in every reachable state.
THEOREM Invariance == Spec => []IndInv
  <1>1. IndInv /\ [Next]_vars => IndInv'
    BY TypeNext, LockNext, RedemptionNext, OwnNext, MembersNext, OrphansNext DEF IndInv
  <1> QED BY <1>1, InitInv, PTL DEF Spec

\* Rows, accounts and requests keep their types and their foreign keys.
THEOREM TypeCorrectness == Spec => []TypeOK
  BY Invariance, PTL DEF IndInv

\* However many requests carry a token, its invitation is redeemed at most once: the
\* re-check under the row lock.
THEOREM RedeemedOnce == Spec => []SingleUse
  BY Invariance, PTL DEF IndInv

\* A failed redemption deletes no account of a person who had one, whatever fails.
THEOREM MembersAreSafe == Spec => []MembersSurvive
  BY Invariance, PTL DEF IndInv

\* As long as no process dies and no answer is lost, no Auth user is left behind
\* without a profile by a redemption that failed.
THEOREM NoneLeftBehind == Spec => []NoOrphans
  BY Invariance, PTL DEF IndInv

\* An invitation that was revoked is not redeemed by a request that read it before.
THEOREM RevocationHolds == Spec => RevokedIsNotRedeemed
  <1>1. IndInv /\ [Next]_vars =>
            [\A i \in Invitations : row[i] = "revoked" => redemptions'[i] = redemptions[i]]_vars
    BY OnlyWriteRedeems DEF IndInv
  <1> QED BY <1>1, Invariance, PTL DEF Spec, RevokedIsNotRedeemed
=============================================================================
