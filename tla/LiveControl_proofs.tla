------------------------- MODULE LiveControl_proofs -------------------------
(***************************************************************************)
(* First theorems about OrganizationAccess, for every finite set of users, *)
(* invitations and recovery requests, and about TournamentLifecycle, which *)
(* extends it, for any numbers of users, clubs, tournaments, revisions and *)
(* guided steps, any roles and scopes, and any artifact resolver.          *)
(*                                                                         *)
(* AlwaysAnActiveOwner is inductive once the types are known.  The two     *)
(* counting invariants of the access are not: that an accepted invitation  *)
(* makes exactly one new member needs to know that nothing was accepted    *)
(* before the organization existed (NothingBeforeCreation), and that a new *)
(* member's credential version is right needs to know that nobody has      *)
(* completed a recovery before becoming a member (RecoveriesAreOfMembers). *)
(*                                                                         *)
(* Every tournament command changes one tournament, so the invariant is a  *)
(* predicate of one tournament record (Sound) that holds of each.          *)
(* PublishedIsApproved is not inductive by itself: an approval would       *)
(* overwrite the one a publication relied on, were it not that a           *)
(* tournament that is still to be approved has no publication and one that *)
(* can be revised has no approval (DecisionsMatchStatus).                  *)
(*                                                                         *)
(* Then theorems about LiveControl, for any numbers of tournaments, live   *)
(* commands, contests and proposals, and for logs of any length.           *)
(*                                                                         *)
(* The commands of TournamentLifecycle go on unchanged, so LiveSpec        *)
(* implements LifecycleSpec and what is proved of it holds here.  Of the   *)
(* live commands all follows from one fact: a step leaves each log as it   *)
(* is or appends one event of a new identity (Grown).  For an approval,    *)
(* which puts a log computed earlier in the place of the current one, that *)
(* needs the invariant of the proposals (Founded): their base is part of   *)
(* the log, and the proposed log has grown from the base.                  *)
(***************************************************************************)
EXTENDS LiveControl, SequenceTheorems, FiniteSetTheorems, TLAPS

(* Before CREATE_ORGANIZATION there are no invitations, no recoveries and  *)
(* no members.                                                             *)
NothingBeforeCreation ==
  organization = "NONE" =>
    /\ \A u \in Users : ~IsMember(u)
    /\ \A i \in Invitations : invitations[i].status = "NONE"
    /\ \A r \in Recoveries : recoveries[r].status = "NONE"

(* A recovery request names a member.                                      *)
RecoveriesAreOfMembers ==
  \A r \in Recoveries : recoveries[r].status # "NONE" =>
    recoveries[r].user \in Users /\ IsMember(recoveries[r].user)

-----------------------------------------------------------------------------
(* The empty platform has the types.                                       *)
LEMMA InitTypeOK == Init => TypeOK
  BY DEF Init, TypeOK, IsMember, NoMembership, NoAccount, NoInvitation, NoRecovery

(* Every command preserves the types.                                      *)
LEMMA TypeStep == TypeOK /\ [Next]_accessVars => TypeOK'
  <1> SUFFICES ASSUME TypeOK, [Next]_accessVars PROVE TypeOK'
    OBVIOUS
  <1> USE AccessAssumption
  <1>1. ASSUME NEW u \in Users, NEW email \in Emails \union {NoEmail}, CreateOrganization(u, email)
        PROVE  TypeOK'
    BY <1>1 DEF CreateOrganization, TypeOK, IsMember, Membership, NoMembership, Account, NoAccount
  <1>2. ASSUME NEW actor \in Users, NEW s \in {"ACTIVE", "SUSPENDED"}, UpdateOrganization(actor, s)
        PROVE  TypeOK'
    BY <1>2 DEF UpdateOrganization, TypeOK, IsMember
  <1>3. ASSUME NEW actor \in Users, NEW c \in Clubs, CreateClub(actor, c)
        PROVE  TypeOK'
    BY <1>3 DEF CreateClub, TypeOK, IsMember
  <1>4. ASSUME NEW actor \in Users, NEW i \in Invitations, NEW email \in Emails, NEW role \in Roles,
               NEW clubIds \in SUBSET Clubs, InviteMember(actor, i, email, role, clubIds)
        PROVE  TypeOK'
    BY <1>4 DEF InviteMember, TypeOK, IsMember, Invitation
  <1>5. ASSUME NEW actor \in Users, NEW i \in Invitations, RevokeInvitation(actor, i)
        PROVE  TypeOK'
    BY <1>5 DEF RevokeInvitation, TypeOK, IsMember, Invitation, NoInvitation
  <1>6. ASSUME NEW u \in Users, NEW i \in Invitations, AcceptInvitation(u, i)
        PROVE  TypeOK'
    <2>1. /\ invitations[i] \in Invitation
          /\ invitations[i].role \in Roles
          /\ invitations[i].clubIds \in SUBSET Clubs
          /\ invitations[i].email \in Emails
      BY <1>6 DEF AcceptInvitation, MayAccept, TypeOK, Invitation, NoInvitation
    <2>2. memberships' \in [Users -> Membership \union {NoMembership}]
      BY <1>6, <2>1 DEF AcceptInvitation, TypeOK, Membership
    <2>3. accounts' \in [Users -> Account \union {NoAccount}]
      BY <1>6, <2>1 DEF AcceptInvitation, TypeOK, Account
    <2>4. invitations' \in [Invitations -> Invitation \union {NoInvitation}]
      BY <1>6, <2>1 DEF AcceptInvitation, TypeOK, Invitation
    <2>5. \A v \in Users : IsMember(v)' <=> accounts'[v].status # "NONE"
      BY <1>6 DEF AcceptInvitation, TypeOK, IsMember
    <2> QED
      BY <1>6, <2>2, <2>3, <2>4, <2>5 DEF AcceptInvitation, TypeOK
  <1>7. ASSUME NEW actor \in Users, NEW u \in Users, NEW role \in Roles, NEW clubIds \in SUBSET Clubs,
               NEW s \in {"ACTIVE", "SUSPENDED"}, ChangeMembership(actor, u, role, clubIds, s)
        PROVE  TypeOK'
    BY <1>7 DEF ChangeMembership, TypeOK, IsMember, Membership
  <1>8. ASSUME NEW r \in Recoveries, NEW email \in Emails, RequestAccountRecovery(r, email)
        PROVE  TypeOK'
    BY <1>8 DEF RequestAccountRecovery, TypeOK, IsMember, Recovery
  <1>9. ASSUME NEW u \in Users, NEW r \in Recoveries, CompleteAccountRecovery(u, r)
        PROVE  TypeOK'
    BY <1>9 DEF CompleteAccountRecovery, RecoveryOpen, TypeOK, IsMember, Recovery, NoRecovery,
                Account, NoAccount
  <1>10. ASSUME NEW actor \in Users, NEW u \in Users, DeleteAccount(actor, u)
         PROVE  TypeOK'
    <2>1. memberships[u] \in Membership /\ accounts[u] \in Account
      BY <1>10 DEF DeleteAccount, TypeOK, IsMember, NoMembership, NoAccount
    <2>2. memberships' \in [Users -> Membership \union {NoMembership}]
      BY <1>10, <2>1 DEF DeleteAccount, TypeOK, Membership
    <2>3. accounts' \in [Users -> Account \union {NoAccount}]
      BY <1>10, <2>1 DEF DeleteAccount, TypeOK, Account
    <2>4. \A v \in Users : IsMember(v)' <=> accounts'[v].status # "NONE"
      BY <1>10, <2>1 DEF DeleteAccount, TypeOK, IsMember, Account, Membership
    <2> QED
      BY <1>10, <2>2, <2>3, <2>4 DEF DeleteAccount, TypeOK
  <1>11. ASSUME NEW actor \in Users, NEW c \in Clubs, NEW s \in {"ACTIVE", "ARCHIVED"},
                NEW open \in BOOLEAN, UpdateClub(actor, c, s, open)
         PROVE  TypeOK'
    BY <1>11 DEF UpdateClub, TypeOK, IsMember
  <1>12. CASE UNCHANGED accessVars
    BY <1>12 DEF accessVars, TypeOK, IsMember
  <1> QED
    BY <1>1, <1>2, <1>3, <1>4, <1>5, <1>6, <1>7, <1>8, <1>9, <1>10, <1>11, <1>12
    DEF Next, AccessCommand

(* Every variable of the access commands keeps its type, and members and   *)
(* accounts come together.                                                 *)
THEOREM TypeCorrect == Spec => []TypeOK
  BY InitTypeOK, TypeStep, PTL DEF Spec

-----------------------------------------------------------------------------
(* If u is an active owner and not the only one, there is another.         *)
LEMMA AnotherOwner ==
  ASSUME NEW u \in Users, IsActiveOwner(u), Cardinality(ActiveOwners) # 1
  PROVE  \E v \in Users : v # u /\ IsActiveOwner(v)
  <1>1. IsFiniteSet(ActiveOwners)
    BY AccessAssumption, FS_Subset DEF ActiveOwners
  <1>2. u \in ActiveOwners
    BY DEF ActiveOwners
  <1>3. ActiveOwners # {u}
    BY FS_Singleton
  <1> QED
    BY <1>2, <1>3 DEF ActiveOwners

(* Every command leaves an active owner.                                   *)
LEMMA OwnerStep == TypeOK /\ AlwaysAnActiveOwner /\ [Next]_accessVars => AlwaysAnActiveOwner'
  <1> SUFFICES ASSUME TypeOK, AlwaysAnActiveOwner, [Next]_accessVars,
                      organization' # "NONE"
               PROVE  \E v \in Users : IsActiveOwner(v)'
    BY DEF AlwaysAnActiveOwner, ActiveOwners
  <1> USE AccessAssumption
  <1>0. organization # "NONE" => \E v \in Users : IsActiveOwner(v)
    BY DEF AlwaysAnActiveOwner, ActiveOwners
  <1>1. ASSUME NEW u \in Users, NEW email \in Emails \union {NoEmail}, CreateOrganization(u, email)
        PROVE  \E v \in Users : IsActiveOwner(v)'
    BY <1>1 DEF CreateOrganization, IsActiveOwner
  <1>2. ASSUME NEW u \in Users, NEW i \in Invitations, AcceptInvitation(u, i)
        PROVE  \E v \in Users : IsActiveOwner(v)'
    <2>1. PICK v \in Users : IsActiveOwner(v)
      BY <1>0, <1>2 DEF AcceptInvitation, OrganizationIsActive
    <2>2. v # u
      BY <1>2, <2>1 DEF AcceptInvitation, MayAccept, IsMember, IsActiveOwner
    <2> QED
      BY <1>2, <2>1, <2>2 DEF AcceptInvitation, IsActiveOwner, TypeOK
  <1>3. ASSUME NEW actor \in Users, NEW u \in Users, NEW role \in Roles, NEW clubIds \in SUBSET Clubs,
               NEW s \in {"ACTIVE", "SUSPENDED"}, ChangeMembership(actor, u, role, clubIds, s)
        PROVE  \E v \in Users : IsActiveOwner(v)'
    <2>1. CASE role = "OWNER" /\ s = "ACTIVE"
      BY <1>3, <2>1 DEF ChangeMembership, IsActiveOwner, TypeOK
    <2>2. CASE ~(role = "OWNER" /\ s = "ACTIVE")
      <3>1. PICK v \in Users : v # u /\ IsActiveOwner(v)
        BY <1>3, <2>2 DEF ChangeMembership, KeepsAnOwner, OtherActiveOwner, RequireOwner
      <3> QED
        BY <1>3, <3>1 DEF ChangeMembership, IsActiveOwner, TypeOK
    <2> QED
      BY <2>1, <2>2
  <1>4. ASSUME NEW actor \in Users, NEW u \in Users, DeleteAccount(actor, u)
        PROVE  \E v \in Users : IsActiveOwner(v)'
    <2>1. PICK v \in Users : v # u /\ IsActiveOwner(v)
      <3>1. CASE IsActiveOwner(u)
        BY <1>4, <3>1, AnotherOwner DEF DeleteAccount, SoleOwner, IsActiveOwner
      <3>2. CASE ~IsActiveOwner(u)
        BY <1>0, <1>4, <3>2 DEF DeleteAccount, OrganizationIsActive
      <3> QED
        BY <3>1, <3>2
    <2> QED
      BY <1>4, <2>1 DEF DeleteAccount, IsActiveOwner, TypeOK
  <1>5. CASE memberships' = memberships /\ organization # "NONE"
    BY <1>0, <1>5 DEF IsActiveOwner
  <1> QED
    BY <1>1, <1>2, <1>3, <1>4, <1>5
    DEF Next, AccessCommand, accessVars, UpdateOrganization, CreateClub, UpdateClub, InviteMember,
        RevokeInvitation, RequestAccountRecovery, CompleteAccountRecovery, OrganizationIsActive

(* "The organization must retain an active owner", whatever role changes,  *)
(* suspensions and account deletions are requested and by whom.            *)
THEOREM ActiveOwner == Spec => []AlwaysAnActiveOwner
  <1>1. Init => AlwaysAnActiveOwner
    BY DEF Init, AlwaysAnActiveOwner
  <1> QED
    BY <1>1, OwnerStep, TypeCorrect, PTL DEF Spec

(* Nothing but the suspension itself changes in a suspended organization.  *)
THEOREM SuspensionFreezes == Spec => SuspendedIsFrozen
  <1>1. [Next]_accessVars =>
          [organization = "SUSPENDED" =>
             UNCHANGED <<clubs, memberships, accounts, invitations, recoveries>>]_accessVars
    BY DEF Next, AccessCommand, accessVars, CreateOrganization, UpdateOrganization, CreateClub, UpdateClub,
           InviteMember, RevokeInvitation, AcceptInvitation, ChangeMembership,
           RequestAccountRecovery, CompleteAccountRecovery, DeleteAccount, OrganizationIsActive
  <1> QED
    BY <1>1, PTL DEF Spec, SuspendedIsFrozen

-----------------------------------------------------------------------------
CompletedFor(u) == {r \in Recoveries : recoveries[r].status = "COMPLETED" /\ recoveries[r].user = u}

(* What the two counting invariants need.                                  *)
Counting ==
  /\ NothingBeforeCreation
  /\ RecoveriesAreOfMembers
  /\ MembersWereInvited
  /\ RecoveryIsSingleUse

(* The sets that are counted are finite.                                   *)
LEMMA FiniteCounts ==
  /\ IsFiniteSet(Accepted)
  /\ IsFiniteSet(Members)
  /\ \A u : IsFiniteSet(CompletedFor(u))
  <1>1. IsFiniteSet(Accepted)
    BY AccessAssumption, FS_Subset DEF Accepted
  <1>2. IsFiniteSet(Members)
    BY AccessAssumption, FS_Subset DEF Members
  <1>3. ASSUME NEW u PROVE IsFiniteSet(CompletedFor(u))
    BY AccessAssumption, FS_Subset DEF CompletedFor
  <1> QED
    BY <1>1, <1>2, <1>3

(* A step that adds no member, accepts no invitation and completes no      *)
(* recovery preserves the counts.                                          *)
LEMMA NothingCounted ==
  ASSUME TypeOK, TypeOK', Counting,
         organization # "NONE", organization' # "NONE",
         \A u \in Users : IsMember(u)' <=> IsMember(u),
         \A u \in Users : accounts'[u].credentialVersion = accounts[u].credentialVersion,
         \A i \in Invitations : invitations'[i].status = "ACCEPTED" <=> invitations[i].status = "ACCEPTED",
         \A r \in Recoveries : \/ recoveries'[r] = recoveries[r]
                               \/ /\ recoveries[r].status = "NONE"
                                  /\ recoveries'[r].status = "PENDING"
                                  /\ recoveries'[r].user \in Users
                                  /\ IsMember(recoveries'[r].user)
  PROVE  Counting'
  <1>1. NothingBeforeCreation'
    BY DEF NothingBeforeCreation
  <1>2. RecoveriesAreOfMembers'
    BY DEF Counting, RecoveriesAreOfMembers, IsMember
  <1>3. MembersWereInvited'
    <2>1. Members' = Members /\ Accepted' = Accepted
      BY DEF Members, Accepted
    <2> QED
      BY <2>1 DEF Counting, MembersWereInvited
  <1>4. RecoveryIsSingleUse'
    <2>1. \A u \in Users : CompletedFor(u)' = CompletedFor(u)
      BY DEF CompletedFor
    <2> QED
      BY <2>1 DEF Counting, RecoveryIsSingleUse, CompletedFor
  <1> QED
    BY <1>1, <1>2, <1>3, <1>4 DEF Counting

(* CREATE_ORGANIZATION makes the first member, whose account is new.       *)
LEMMA CountCreation ==
  ASSUME TypeOK, Counting, NEW owner \in Users, NEW email, CreateOrganization(owner, email)
  PROVE  Counting'
  <1>1. /\ \A i \in Invitations : invitations[i].status = "NONE"
        /\ \A r \in Recoveries : recoveries[r].status = "NONE"
    BY DEF Counting, NothingBeforeCreation, CreateOrganization
  <1>2. NothingBeforeCreation' /\ RecoveriesAreOfMembers'
    BY <1>1 DEF NothingBeforeCreation, RecoveriesAreOfMembers, CreateOrganization
  <1>3. MembersWereInvited'
    <2>1. Members' = {owner}
      BY DEF Members, IsMember, CreateOrganization, NoMembership
    <2>2. Accepted' = {}
      BY <1>1 DEF Accepted, CreateOrganization
    <2>3. Cardinality(Members') = 1 /\ Cardinality(Accepted') = 0
      <3>1. Cardinality({owner}) = 1
        BY FS_Singleton
      <3>2. Cardinality({}) = 0
        BY FS_EmptySet
      <3> QED
        BY <2>1, <2>2, <3>1, <3>2
    <2> QED
      BY <2>3 DEF MembersWereInvited
  <1>4. RecoveryIsSingleUse'
    <2>1. \A u \in Users : CompletedFor(u)' = {}
      BY <1>1 DEF CompletedFor, CreateOrganization
    <2>2. \A u \in Users : IsMember(u)' => accounts'[u].credentialVersion = 1
      BY DEF CreateOrganization, IsMember, NoMembership
    <2> QED
      BY <2>1, <2>2, FS_EmptySet DEF RecoveryIsSingleUse, CompletedFor
  <1> QED
    BY <1>2, <1>3, <1>4 DEF Counting

(* ACCEPT_INVITATION uses up one invitation for one new member, whose      *)
(* account is new.                                                         *)
LEMMA CountAcceptance ==
  ASSUME TypeOK, Counting, NEW u \in Users, NEW i \in Invitations, AcceptInvitation(u, i)
  PROVE  Counting'
  <1>1. /\ organization' = organization /\ organization = "ACTIVE"
        /\ recoveries' = recoveries
        /\ invitations[i].status = "PENDING"
        /\ ~IsMember(u)
    BY DEF AcceptInvitation, OrganizationIsActive, MayAccept
  <1>2. \A v \in Users : IsMember(v)' <=> IsMember(v) \/ v = u
    BY DEF AcceptInvitation, IsMember, TypeOK
  <1>3. NothingBeforeCreation' /\ RecoveriesAreOfMembers'
    BY <1>1, <1>2 DEF NothingBeforeCreation, RecoveriesAreOfMembers, Counting
  <1>4. MembersWereInvited'
    <2>1. Members' = Members \union {u} /\ u \notin Members
      BY <1>1, <1>2 DEF Members
    <2>2. Accepted' = Accepted \union {i} /\ i \notin Accepted
      BY <1>1 DEF Accepted, AcceptInvitation, TypeOK
    <2>3. /\ Cardinality(Members') = Cardinality(Members) + 1
          /\ Cardinality(Accepted') = Cardinality(Accepted) + 1
      BY <2>1, <2>2, FiniteCounts, FS_AddElement
    <2>4. Cardinality(Accepted) \in Nat
      BY FiniteCounts, FS_CardinalityType
    <2> QED
      BY <1>1, <2>3, <2>4 DEF MembersWereInvited, Counting
  <1>5. RecoveryIsSingleUse'
    <2>1. \A v \in Users : CompletedFor(v)' = CompletedFor(v)
      BY <1>1 DEF CompletedFor
    <2>2. CompletedFor(u) = {}
      BY <1>1 DEF CompletedFor, Counting, RecoveriesAreOfMembers
    <2>3. accounts'[u].credentialVersion = 1
      BY DEF AcceptInvitation, TypeOK
    <2>4. \A v \in Users : v # u => accounts'[v] = accounts[v]
      BY DEF AcceptInvitation, TypeOK
    <2>5. \A v \in Users : IsMember(v)' => accounts'[v].credentialVersion = 1 + Cardinality(CompletedFor(v)')
      <3> SUFFICES ASSUME NEW v \in Users, IsMember(v)'
                   PROVE  accounts'[v].credentialVersion = 1 + Cardinality(CompletedFor(v)')
        OBVIOUS
      <3>1. CASE v = u
        BY <2>1, <2>2, <2>3, <3>1, FS_EmptySet
      <3>2. CASE v # u
        BY <1>2, <2>1, <2>4, <3>2 DEF Counting, RecoveryIsSingleUse, CompletedFor
      <3> QED
        BY <3>1, <3>2
    <2> QED
      BY <2>5 DEF RecoveryIsSingleUse, CompletedFor
  <1> QED
    BY <1>3, <1>4, <1>5 DEF Counting

(* COMPLETE_ACCOUNT_RECOVERY uses up one request for one new credential    *)
(* version of the account it names.                                        *)
LEMMA CountRecovery ==
  ASSUME TypeOK, Counting, NEW u \in Users, NEW r \in Recoveries, CompleteAccountRecovery(u, r)
  PROVE  Counting'
  <1>1. /\ organization' = organization /\ organization = "ACTIVE"
        /\ memberships' = memberships /\ invitations' = invitations
        /\ recoveries[r].status = "PENDING" /\ recoveries[r].user = u
        /\ accounts[u].status = "ACTIVE"
    BY DEF CompleteAccountRecovery, OrganizationIsActive, RecoveryOpen
  <1>2. /\ \A q \in Recoveries : q # r => recoveries'[q] = recoveries[q]
        /\ recoveries'[r].status = "COMPLETED" /\ recoveries'[r].user = u
    BY <1>1 DEF CompleteAccountRecovery, TypeOK, Recovery, NoRecovery
  <1>3. \A v \in Users : IsMember(v)' <=> IsMember(v)
    BY <1>1 DEF IsMember
  <1>4. IsMember(u)
    BY <1>1 DEF TypeOK
  <1>5. NothingBeforeCreation' /\ RecoveriesAreOfMembers'
    BY <1>1, <1>2, <1>3, <1>4 DEF NothingBeforeCreation, RecoveriesAreOfMembers, Counting
  <1>6. MembersWereInvited'
    <2>1. Members' = Members /\ Accepted' = Accepted
      BY <1>1, <1>3 DEF Members, Accepted
    <2> QED
      BY <1>1, <2>1 DEF MembersWereInvited, Counting
  <1>7. RecoveryIsSingleUse'
    <2>1. /\ CompletedFor(u)' = CompletedFor(u) \union {r}
          /\ r \notin CompletedFor(u)
          /\ \A v \in Users : v # u => CompletedFor(v)' = CompletedFor(v)
      BY <1>1, <1>2 DEF CompletedFor
    <2>2. /\ Cardinality(CompletedFor(u)') = Cardinality(CompletedFor(u)) + 1
          /\ Cardinality(CompletedFor(u)) \in Nat
      BY <2>1, FiniteCounts, FS_AddElement, FS_CardinalityType
    <2>3. /\ accounts'[u].credentialVersion = accounts[u].credentialVersion + 1
          /\ \A v \in Users : v # u => accounts'[v] = accounts[v]
      BY <1>1 DEF CompleteAccountRecovery, TypeOK, Account, NoAccount
    <2>4. \A v \in Users : IsMember(v) => accounts[v].credentialVersion = 1 + Cardinality(CompletedFor(v))
      BY DEF Counting, RecoveryIsSingleUse, CompletedFor
    <2>5. \A v \in Users : IsMember(v)' => accounts'[v].credentialVersion = 1 + Cardinality(CompletedFor(v)')
      <3> SUFFICES ASSUME NEW v \in Users, IsMember(v)'
                   PROVE  accounts'[v].credentialVersion = 1 + Cardinality(CompletedFor(v)')
        OBVIOUS
      <3>1. CASE v = u
        <4>1. accounts[u].credentialVersion = 1 + Cardinality(CompletedFor(u))
          BY <1>4, <2>4
        <4>2. accounts'[u].credentialVersion = 1 + Cardinality(CompletedFor(u)')
          BY <2>2, <2>3, <4>1
        <4> QED
          BY <3>1, <4>2
      <3>2. CASE v # u
        BY <1>3, <2>1, <2>3, <2>4, <3>2
      <3> QED
        BY <3>1, <3>2
    <2> QED
      BY <2>5 DEF RecoveryIsSingleUse, CompletedFor
  <1> QED
    BY <1>5, <1>6, <1>7 DEF Counting

(* Every command preserves the counts.                                     *)
LEMMA CountingStep == TypeOK /\ TypeOK' /\ Counting /\ [Next]_accessVars => Counting'
  <1> SUFFICES ASSUME TypeOK, TypeOK', Counting, [Next]_accessVars PROVE Counting'
    OBVIOUS
  <1>1. ASSUME NEW u \in Users, NEW email \in Emails \union {NoEmail}, CreateOrganization(u, email)
        PROVE  Counting'
    BY <1>1, CountCreation
  <1>2. ASSUME NEW actor \in Users, NEW s \in {"ACTIVE", "SUSPENDED"}, UpdateOrganization(actor, s)
        PROVE  Counting'
    BY <1>2, NothingCounted DEF UpdateOrganization, IsMember
  <1>3. ASSUME NEW actor \in Users, NEW c \in Clubs, CreateClub(actor, c)
        PROVE  Counting'
    BY <1>3, NothingCounted DEF CreateClub, OrganizationIsActive, IsMember
  <1>4. ASSUME NEW actor \in Users, NEW i \in Invitations, NEW email \in Emails, NEW role \in Roles,
               NEW clubIds \in SUBSET Clubs, InviteMember(actor, i, email, role, clubIds)
        PROVE  Counting'
    <2>1. \A j \in Invitations : invitations'[j].status = "ACCEPTED" <=> invitations[j].status = "ACCEPTED"
      BY <1>4 DEF InviteMember, TypeOK, NoInvitation
    <2> QED
      BY <1>4, <2>1, NothingCounted DEF InviteMember, OrganizationIsActive, IsMember
  <1>5. ASSUME NEW actor \in Users, NEW i \in Invitations, RevokeInvitation(actor, i)
        PROVE  Counting'
    <2>1. \A j \in Invitations : invitations'[j].status = "ACCEPTED" <=> invitations[j].status = "ACCEPTED"
      BY <1>5 DEF RevokeInvitation, TypeOK, Invitation, NoInvitation
    <2> QED
      BY <1>5, <2>1, NothingCounted DEF RevokeInvitation, OrganizationIsActive, IsMember
  <1>6. ASSUME NEW u \in Users, NEW i \in Invitations, AcceptInvitation(u, i)
        PROVE  Counting'
    BY <1>6, CountAcceptance
  <1>7. ASSUME NEW actor \in Users, NEW u \in Users, NEW role \in Roles, NEW clubIds \in SUBSET Clubs,
               NEW s \in {"ACTIVE", "SUSPENDED"}, ChangeMembership(actor, u, role, clubIds, s)
        PROVE  Counting'
    <2>1. \A v \in Users : IsMember(v)' <=> IsMember(v)
      BY <1>7 DEF ChangeMembership, IsMember, TypeOK
    <2> QED
      BY <1>7, <2>1, NothingCounted DEF ChangeMembership, OrganizationIsActive
  <1>8. ASSUME NEW r \in Recoveries, NEW email \in Emails, RequestAccountRecovery(r, email)
        PROVE  Counting'
    <2>1. PICK u \in Users : /\ accounts[u].status = "ACTIVE"
                             /\ recoveries' = [recoveries EXCEPT ![r] = [status |-> "PENDING", user |-> u]]
      BY <1>8 DEF RequestAccountRecovery
    <2>2. IsMember(u) /\ recoveries[r].status = "NONE"
      BY <1>8, <2>1 DEF TypeOK, RequestAccountRecovery, NoRecovery
    <2>3. \A q \in Recoveries : \/ recoveries'[q] = recoveries[q]
                                \/ /\ recoveries[q].status = "NONE"
                                   /\ recoveries'[q].status = "PENDING"
                                   /\ recoveries'[q].user \in Users
                                   /\ IsMember(recoveries'[q].user)
      BY <2>1, <2>2 DEF TypeOK
    <2> QED
      BY <1>8, <2>3, NothingCounted DEF RequestAccountRecovery, OrganizationIsActive, IsMember
  <1>9. ASSUME NEW u \in Users, NEW r \in Recoveries, CompleteAccountRecovery(u, r)
        PROVE  Counting'
    BY <1>9, CountRecovery
  <1>10. ASSUME NEW actor \in Users, NEW u \in Users, DeleteAccount(actor, u)
         PROVE  Counting'
    <2>1. \A v \in Users : IsMember(v)' <=> IsMember(v)
      BY <1>10 DEF DeleteAccount, IsMember, TypeOK, Membership, NoMembership
    <2>2. \A v \in Users : accounts'[v].credentialVersion = accounts[v].credentialVersion
      BY <1>10 DEF DeleteAccount, TypeOK, Account, NoAccount
    <2> QED
      BY <1>10, <2>1, <2>2, NothingCounted DEF DeleteAccount, OrganizationIsActive
  <1>11. ASSUME NEW actor \in Users, NEW c \in Clubs, NEW s \in {"ACTIVE", "ARCHIVED"},
                NEW open \in BOOLEAN, UpdateClub(actor, c, s, open)
         PROVE  Counting'
    BY <1>11, NothingCounted DEF UpdateClub, OrganizationIsActive, IsMember
  <1>12. CASE UNCHANGED accessVars
    BY <1>12 DEF accessVars, Counting, NothingBeforeCreation, RecoveriesAreOfMembers, IsMember,
                 MembersWereInvited, Members, Accepted, RecoveryIsSingleUse
  <1> QED
    BY <1>1, <1>2, <1>3, <1>4, <1>5, <1>6, <1>7, <1>8, <1>9, <1>10, <1>11, <1>12
    DEF Next, AccessCommand

(* The counts hold in every reachable state.                               *)
THEOREM Counts == Spec => []Counting
  <1>1. Init => Counting
    BY DEF Init, Counting, NothingBeforeCreation, RecoveriesAreOfMembers, MembersWereInvited,
           RecoveryIsSingleUse, IsMember, NoMembership, NoInvitation, NoRecovery
  <1> QED
    BY <1>1, CountingStep, TypeCorrect, PTL DEF Spec

(* Every member but the founder used up an invitation of their own.        *)
THEOREM Invited == Spec => []MembersWereInvited
  <1>1. Counting => MembersWereInvited
    BY DEF Counting
  <1> QED
    BY <1>1, Counts, PTL

(* A recovery secret raises the credential version of one account, once.   *)
THEOREM SingleUse == Spec => []RecoveryIsSingleUse
  <1>1. Counting => RecoveryIsSingleUse
    BY DEF Counting
  <1> QED
    BY <1>1, Counts, PTL

(* The three together, as the runs check them. *)
THEOREM AccessKept == Spec => []AccessIsKept
BY ActiveOwner, Invited, SingleUse, PTL DEF AccessIsKept

-----------------------------------------------------------------------------
DecisionsMatchStatus(r) ==
  /\ r.status \in {"NONE", "DRAFT", "UNDER_REVIEW"} => r.approval = NoDecision
  /\ r.status \in {"NONE", "DRAFT", "UNDER_REVIEW", "APPROVED"} => r.publication = NoDecision
  /\ r.status \in {"PUBLISHED", "LIVE", "COMPLETED"} => r.publication # NoDecision

Newest(r) == r.revisions[Len(r.revisions)]

CurrentArtifacts(r, a) ==
  a.revision = Len(r.revisions) /\ a.definition = Newest(r).definition /\ a.content \in Certified

CurrentApproval(r) ==
  r.status \in PastApproval =>
    /\ r.approval # NoDecision
    /\ r.approval.revision = Len(r.revisions)
    /\ r.approval.definition = Newest(r).definition
    /\ CurrentArtifacts(r, r.approval.artifacts)

ApprovedPublication(r) ==
  r.publication # NoDecision =>
    /\ r.approval # NoDecision
    /\ r.publication.revision = r.approval.revision
    /\ r.publication.definition = r.approval.definition
    /\ r.publication.artifacts = r.approval.artifacts

SeparateHands(r) ==
  /\ r.approval # NoDecision =>
       /\ r.approval.by # r.revisions[r.approval.revision].createdBy
       /\ r.approval.by # r.approval.artifacts.compiledBy
  /\ r.publication # NoDecision => r.publication.by # r.approval.by

WellFormed(r) ==
  /\ r \in Tournament
  /\ r.status # "NONE" => r.clubId \in Clubs
  /\ r.status # "NONE" <=> r.revisions # <<>>

Sound(r) ==
  /\ WellFormed(r)
  /\ DecisionsMatchStatus(r)
  /\ CurrentApproval(r)
  /\ ApprovedPublication(r)
  /\ SeparateHands(r)

LifecycleInv ==
  /\ tournaments \in [Tournaments -> Tournament]
  /\ guides \in [Tournaments -> 0..(GuidedSteps + 1)]
  /\ \A t \in Tournaments : guides[t] > 0 => Exists(t)
  /\ \A t \in Tournaments : Sound(tournaments[t])

-----------------------------------------------------------------------------
(* The invariant says what the runs check.                                 *)
LEMMA InvImplies ==
  LifecycleInv => LifecycleTypeOK /\ ApprovalIsCurrent /\ PublishedIsApproved /\ SeparationOfDuties
  BY DEF LifecycleInv, LifecycleTypeOK, ApprovalIsCurrent, PublishedIsApproved, SeparationOfDuties,
         Sound, WellFormed, DecisionsMatchStatus, CurrentApproval, ApprovedPublication, SeparateHands,
         CurrentArtifacts, Newest, Latest, GuardPasses, Exists

(* The decisions made on the empty platform are none.                      *)
LEMMA AbsentIsSound == Sound(Absent)
  <1>1. <<>> \in Seq(Revision)
    OBVIOUS
  <1> QED
    BY <1>1 DEF Sound, WellFormed, DecisionsMatchStatus, CurrentApproval, ApprovedPublication, SeparateHands,
           Absent, Tournament, Statuses, PastApproval

(* A new draft is sound.                                                   *)
LEMMA DraftIsSound ==
  ASSUME NEW clubId \in Clubs, NEW revision \in Revision
  PROVE  Sound(Draft(clubId, revision))
  <1> DEFINE d == Draft(clubId, revision)
  <1>1. <<revision>> \in Seq(Revision) /\ <<revision>> # <<>>
    OBVIOUS
  <1>2. /\ d.status = "DRAFT" /\ d.clubId = clubId /\ d.revisions = <<revision>>
        /\ d.approval = NoDecision /\ d.publication = NoDecision
    BY DEF Draft, Absent
  <1>3. d \in Tournament
    BY <1>1 DEF Draft, Absent, Tournament, Statuses
  <1> SUFFICES Sound(d)
    OBVIOUS
  <1> HIDE DEF d
  <1> QED
    BY <1>1, <1>2, <1>3 DEF Sound, WellFormed, DecisionsMatchStatus, CurrentApproval, ApprovedPublication, SeparateHands,
                            PastApproval

(* A revision of a draft leaves it sound: there is no decision to betray.  *)
LEMMA RevisionIsSound ==
  ASSUME NEW r, Sound(r), r.status = "DRAFT", NEW revision \in Revision
  PROVE  Sound([r EXCEPT !.revisions = Append(@, revision)])
  <1> DEFINE q == [r EXCEPT !.revisions = Append(@, revision)]
  <1>1. r \in Tournament /\ r.revisions \in Seq(Revision)
    BY DEF Sound, WellFormed, Tournament
  <1>2. Append(r.revisions, revision) \in Seq(Revision) /\ Append(r.revisions, revision) # <<>>
    BY <1>1, AppendProperties
  <1>3. q \in Tournament
    BY <1>1, <1>2 DEF Tournament
  <1>4. /\ q.status = r.status /\ q.clubId = r.clubId /\ q.revisions = Append(r.revisions, revision)
        /\ q.approval = r.approval /\ q.publication = r.publication
    BY <1>1 DEF Tournament
  <1> SUFFICES Sound(q)
    OBVIOUS
  <1> HIDE DEF q
  <1> QED
    BY <1>2, <1>3, <1>4 DEF Sound, WellFormed, DecisionsMatchStatus, CurrentApproval, ApprovedPublication, SeparateHands,
                            PastApproval

(* A change of status that approves and publishes nothing keeps a          *)
(* tournament sound.                                                       *)
LEMMA StatusIsSound ==
  ASSUME NEW r, Sound(r), r.status \in Statuses, NEW status \in Allowed[r.status], status # "APPROVED"
  PROVE  Sound([r EXCEPT !.status = status])
  <1> DEFINE q == [r EXCEPT !.status = status]
  <1>1. r \in Tournament
    BY DEF Sound, WellFormed
  <1>2. /\ status \in Statuses
        /\ status \in {"NONE", "DRAFT", "UNDER_REVIEW"} => r.status \in {"DRAFT", "UNDER_REVIEW"}
        /\ status \in PastApproval => r.status \in PastApproval
        /\ status \in {"PUBLISHED", "LIVE", "COMPLETED"} => r.status \in {"PUBLISHED", "LIVE"}
    BY DEF Allowed, Statuses, PastApproval
  <1>3. q \in Tournament
    BY <1>1, <1>2 DEF Tournament
  <1>4. /\ q.status = status /\ q.clubId = r.clubId /\ q.revisions = r.revisions
        /\ q.approval = r.approval /\ q.publication = r.publication
    BY <1>1 DEF Tournament
  <1> SUFFICES Sound(q)
    OBVIOUS
  <1> HIDE DEF q
  <1> QED
    BY <1>2, <1>3, <1>4 DEF Sound, WellFormed, DecisionsMatchStatus, CurrentApproval, ApprovedPublication, SeparateHands,
                            CurrentArtifacts, Newest, Statuses

(* An approval on current artifacts, by somebody who neither wrote nor     *)
(* compiled, keeps a tournament sound.                                     *)
LEMMA ApprovalIsSound ==
  ASSUME NEW r, Sound(r), r.status = "UNDER_REVIEW", NEW actor \in Users, NEW a \in Artifacts,
         Newest(r).createdBy # actor, a.compiledBy # actor, CurrentArtifacts(r, a),
         NEW d, d = [by |-> actor, revision |-> Len(r.revisions), definition |-> Newest(r).definition, artifacts |-> a]
  PROVE  Sound([r EXCEPT !.status = "APPROVED", !.approval = d])
  <1> DEFINE q == [r EXCEPT !.status = "APPROVED", !.approval = d]
  <1>1. r \in Tournament /\ r.revisions \in Seq(Revision) /\ r.revisions # <<>>
    BY DEF Sound, WellFormed, Tournament
  <1>2. Len(r.revisions) \in Nat /\ Newest(r) \in Revision
    BY <1>1, ElementOfSeq, EmptySeq DEF Newest
  <1>3. d \in Decision
    BY <1>2 DEF Decision, Revision
  <1>4. q \in Tournament
    BY <1>1, <1>3 DEF Tournament, Statuses
  <1>5. /\ q.status = "APPROVED" /\ q.clubId = r.clubId /\ q.revisions = r.revisions
        /\ q.approval = d /\ q.publication = r.publication
    BY <1>1 DEF Tournament
  <1>6. d # NoDecision
    BY AccessAssumption DEF NoDecision
  <1> SUFFICES Sound(q)
    OBVIOUS
  <1> HIDE DEF q
  <1>7. q.publication = NoDecision
    BY <1>5 DEF Sound, DecisionsMatchStatus
  <1>8. WellFormed(q) /\ DecisionsMatchStatus(q) /\ ApprovedPublication(q)
    BY <1>1, <1>4, <1>5, <1>7 DEF Sound, WellFormed, DecisionsMatchStatus, ApprovedPublication
  <1>9. CurrentApproval(q)
    BY <1>5, <1>6 DEF CurrentApproval, CurrentArtifacts, Newest
  <1>10. SeparateHands(q)
    BY <1>5, <1>7 DEF SeparateHands, Newest
  <1> QED
    BY <1>8, <1>9, <1>10 DEF Sound

(* The publication of exactly what was approved, by somebody else, keeps a *)
(* tournament sound.                                                       *)
LEMMA PublicationIsSound ==
  ASSUME NEW r, Sound(r), r.status = "APPROVED", NEW actor \in Users, r.approval.by # actor,
         NEW a \in Artifacts, r.approval.artifacts = a,
         NEW d, d = [by |-> actor, revision |-> Len(r.revisions), definition |-> Newest(r).definition, artifacts |-> a]
  PROVE  Sound([r EXCEPT !.status = "PUBLISHED", !.publication = d])
  <1> DEFINE q == [r EXCEPT !.status = "PUBLISHED", !.publication = d]
  <1>1. r \in Tournament /\ r.revisions \in Seq(Revision) /\ r.revisions # <<>>
    BY DEF Sound, WellFormed, Tournament
  <1>2. Len(r.revisions) \in Nat /\ Newest(r) \in Revision
    BY <1>1, ElementOfSeq, EmptySeq DEF Newest
  <1>3. d \in Decision
    BY <1>2 DEF Decision, Revision
  <1>4. q \in Tournament
    BY <1>1, <1>3 DEF Tournament, Statuses
  <1>5. /\ q.status = "PUBLISHED" /\ q.clubId = r.clubId /\ q.revisions = r.revisions
        /\ q.approval = r.approval /\ q.publication = d
    BY <1>1 DEF Tournament
  <1>6. d # NoDecision
    BY AccessAssumption DEF NoDecision
  <1> SUFFICES Sound(q)
    OBVIOUS
  <1> HIDE DEF q
  <1>7. WellFormed(q) /\ DecisionsMatchStatus(q)
    BY <1>1, <1>4, <1>5, <1>6 DEF Sound, WellFormed, DecisionsMatchStatus
  <1>8. CurrentApproval(q)
    BY <1>5 DEF Sound, CurrentApproval, CurrentArtifacts, Newest, PastApproval
  <1>9. ApprovedPublication(q) /\ SeparateHands(q)
    BY <1>5 DEF Sound, CurrentApproval, PastApproval, ApprovedPublication, SeparateHands
  <1> QED
    BY <1>7, <1>8, <1>9 DEF Sound

-----------------------------------------------------------------------------
(* The resolver answers with artifact sets.                                *)
LEMMA ResolvableArtifacts == Resolvable \subseteq Artifacts
  BY LifecycleAssumption DEF Resolvable, Artifacts

(* A tournament that exists has a latest revision.                         *)
LEMMA LatestRevision ==
  ASSUME LifecycleInv, NEW t \in Tournaments, Exists(t)
  PROVE  /\ tournaments[t].revisions \in Seq(Revision) /\ Len(tournaments[t].revisions) \in Nat \ {0}
         /\ Latest(t) \in Revision /\ tournaments[t].clubId \in Clubs /\ tournaments[t].status \in Statuses
  <1>1. /\ tournaments[t] \in Tournament /\ tournaments[t].revisions # <<>> /\ tournaments[t].clubId \in Clubs
        /\ tournaments[t].status # "NONE"
    BY DEF LifecycleInv, Sound, WellFormed, Exists
  <1>2. tournaments[t].revisions \in Seq(Revision) /\ tournaments[t].status \in Statuses
    BY <1>1 DEF Tournament
  <1> QED
    BY <1>1, <1>2, ElementOfSeq, EmptySeq DEF Latest

(* Replacing one record by a sound one, of a tournament that exists        *)
(* afterwards, and setting its guide, preserves the invariant.             *)
LEMMA OneRecord ==
  ASSUME LifecycleInv, NEW t \in Tournaments, NEW r, Sound(r), r.status # "NONE",
         tournaments' = [tournaments EXCEPT ![t] = r],
         NEW g \in 0..(GuidedSteps + 1), guides' = [guides EXCEPT ![t] = g]
  PROVE  LifecycleInv'
  <1>1. r \in Tournament
    BY DEF Sound, WellFormed
  <1>2. tournaments' \in [Tournaments -> Tournament] /\ guides' \in [Tournaments -> 0..(GuidedSteps + 1)]
    BY <1>1 DEF LifecycleInv
  <1>3. \A s \in Tournaments : tournaments'[s] = IF s = t THEN r ELSE tournaments[s]
    BY DEF LifecycleInv
  <1>4. \A s \in Tournaments : guides'[s] = IF s = t THEN g ELSE guides[s]
    BY DEF LifecycleInv
  <1>5. \A s \in Tournaments : guides'[s] > 0 => (Exists(s))'
    BY <1>3, <1>4 DEF LifecycleInv, Exists
  <1>6. \A s \in Tournaments : Sound(tournaments'[s])
    BY <1>3 DEF LifecycleInv
  <1> QED
    BY <1>2, <1>5, <1>6 DEF LifecycleInv, Exists, Sound, WellFormed, DecisionsMatchStatus, CurrentApproval, ApprovedPublication, SeparateHands, CurrentArtifacts, Newest

LEMMA LifecycleInitially == LifecycleInit => LifecycleInv
  <1> SUFFICES ASSUME LifecycleInit PROVE LifecycleInv
    OBVIOUS
  <1>1. Absent \in Tournament
    BY AbsentIsSound DEF Sound, WellFormed
  <1>2. \A t \in Tournaments : tournaments[t] = Absent /\ guides[t] = 0
    BY DEF LifecycleInit
  <1>3. tournaments \in [Tournaments -> Tournament] /\ guides \in [Tournaments -> 0..(GuidedSteps + 1)]
    BY <1>1, LifecycleAssumption DEF LifecycleInit
  <1>4. \A t \in Tournaments : Sound(tournaments[t])
    BY <1>2, AbsentIsSound
  <1> QED
    BY <1>2, <1>3, <1>4 DEF LifecycleInv

-----------------------------------------------------------------------------
(* What a command by actor makes of a tournament record o: a new draft, a  *)
(* revision of a draft, a change of status, an approval or a publication.  *)
Drafted(actor, o, r) ==
  /\ o.status = "NONE"
  /\ r.revisions \in Seq(Revision) /\ Len(r.revisions) = 1 /\ r.revisions[1].createdBy = actor
  /\ r.approval = NoDecision /\ r.publication = NoDecision

Extended(actor, o, r) ==
  /\ o.status = "DRAFT"
  /\ \E revision \in Revision : revision.createdBy = actor /\ r.revisions = Append(o.revisions, revision)
  /\ r.clubId = o.clubId /\ r.approval = o.approval /\ r.publication = o.publication

Moved(o, r) ==
  r.revisions = o.revisions /\ r.clubId = o.clubId /\ r.approval = o.approval /\ r.publication = o.publication

Approved(actor, o, r) ==
  /\ o.approval = NoDecision /\ r.approval.by = actor
  /\ r.revisions = o.revisions /\ r.clubId = o.clubId /\ r.publication = o.publication

Published(actor, o, r) ==
  /\ o.publication = NoDecision /\ r.publication.by = actor
  /\ r.revisions = o.revisions /\ r.clubId = o.clubId /\ r.approval = o.approval

Effect(actor, t, r, g) ==
  /\ organization = "ACTIVE"
  /\ RequireTournamentManager(actor, r.clubId)
  /\ Sound(r) /\ r.status # "NONE"
  /\ tournaments' = [tournaments EXCEPT ![t] = r]
  /\ g \in 0..(GuidedSteps + 1) /\ guides' = [guides EXCEPT ![t] = g]
  /\ \/ Drafted(actor, tournaments[t], r)
     \/ Extended(actor, tournaments[t], r)
     \/ Moved(tournaments[t], r)
     \/ Approved(actor, tournaments[t], r)
     \/ Published(actor, tournaments[t], r)

(* Creation, guided or by duplication.                                     *)
LEMMA DraftEffect ==
  ASSUME LifecycleInv, organization = "ACTIVE",
         NEW actor \in Users, NEW t \in Tournaments, ~Exists(t),
         NEW clubId \in Clubs, RequireTournamentManager(actor, clubId),
         NEW d \in Definitions,
         tournaments' = [tournaments EXCEPT ![t] = Draft(clubId, [definition |-> d, createdBy |-> actor])],
         NEW g \in 0..(GuidedSteps + 1), guides' = [guides EXCEPT ![t] = g]
  PROVE  \E r : Effect(actor, t, r, g)
  <1> DEFINE v == [definition |-> d, createdBy |-> actor]
             r == Draft(clubId, v)
  <1>1. v \in Revision /\ v.createdBy = actor
    BY DEF Revision
  <1>2. Sound(r)
    BY <1>1, DraftIsSound
  <1>3. /\ r.status = "DRAFT" /\ r.clubId = clubId /\ r.revisions = <<v>>
        /\ r.approval = NoDecision /\ r.publication = NoDecision
    BY DEF Draft, Absent
  <1>4. <<v>> \in Seq(Revision) /\ Len(<<v>>) = 1 /\ <<v>>[1] = v
    BY <1>1
  <1>5. tournaments' = [tournaments EXCEPT ![t] = r]
    OBVIOUS
  <1> HIDE DEF r, v
  <1>6. Drafted(actor, tournaments[t], r)
    BY <1>1, <1>3, <1>4 DEF Drafted, Exists
  <1> QED
    BY <1>2, <1>3, <1>5, <1>6 DEF Effect

(* A revision, by hand or by the last step of a guide.                     *)
LEMMA RevisionEffect ==
  ASSUME LifecycleInv, organization = "ACTIVE",
         NEW actor \in Users, NEW t \in Tournaments, tournaments[t].status = "DRAFT",
         RequireTournamentManager(actor, tournaments[t].clubId), NEW d \in Definitions,
         tournaments' = Revised(t, [definition |-> d, createdBy |-> actor]),
         NEW g \in 0..(GuidedSteps + 1), guides' = [guides EXCEPT ![t] = g]
  PROVE  \E r : Effect(actor, t, r, g)
  <1> DEFINE v == [definition |-> d, createdBy |-> actor]
             o == tournaments[t]
             r == [o EXCEPT !.revisions = Append(@, v)]
  <1>1. v \in Revision /\ v.createdBy = actor
    BY DEF Revision
  <1>2. Sound(o) /\ o \in Tournament
    BY DEF LifecycleInv
  <1>3. Sound(r)
    BY <1>1, <1>2, RevisionIsSound
  <1>4. /\ r.status = "DRAFT" /\ r.clubId = o.clubId /\ r.revisions = Append(o.revisions, v)
        /\ r.approval = o.approval /\ r.publication = o.publication
    BY <1>2 DEF Tournament
  <1>5. tournaments' = [tournaments EXCEPT ![t] = r]
    BY DEF Revised
  <1> HIDE DEF r, v
  <1>6. Extended(actor, tournaments[t], r)
    BY <1>1, <1>4 DEF Extended
  <1> QED
    BY <1>3, <1>4, <1>5, <1>6 DEF Effect

(* The other changes of status.                                            *)
LEMMA StatusEffect ==
  ASSUME LifecycleInv, NEW actor \in Users, NEW t \in Tournaments, NEW status \in Statuses,
         ChangeTournamentStatus(actor, t, status)
  PROVE  \E r : Effect(actor, t, r, guides[t])
  <1> DEFINE o == tournaments[t]
             r == [o EXCEPT !.status = status]
  <1>1. o.status \in Statuses /\ status \in Allowed[o.status] /\ status # "APPROVED" /\ Exists(t)
    BY LatestRevision DEF ChangeTournamentStatus
  <1>2. Sound(o) /\ o \in Tournament
    BY DEF LifecycleInv
  <1>3. Sound(r)
    BY <1>1, <1>2, StatusIsSound
  <1>4. r.status = status /\ Moved(o, r)
    BY <1>2 DEF Tournament, Moved
  <1>5. tournaments' = [tournaments EXCEPT ![t] = r]
    BY DEF ChangeTournamentStatus
  <1>6. /\ organization = "ACTIVE" /\ RequireTournamentManager(actor, o.clubId) /\ status # "NONE"
        /\ guides[t] \in 0..(GuidedSteps + 1) /\ guides' = [guides EXCEPT ![t] = guides[t]]
    BY DEF ChangeTournamentStatus, OrganizationIsActive, Statuses, LifecycleInv
  <1> HIDE DEF r
  <1> QED
    BY <1>3, <1>4, <1>5, <1>6 DEF Effect, Moved

(* The approval.                                                           *)
LEMMA ApprovalEffect ==
  ASSUME LifecycleInv, NEW actor \in Users, NEW t \in Tournaments, NEW a \in Artifacts,
         ApproveTournament(actor, t, a)
  PROVE  \E r : Effect(actor, t, r, guides[t])
  <1> DEFINE o == tournaments[t]
             d == DecisionOn(t, actor, a)
             r == [o EXCEPT !.status = "APPROVED", !.approval = d]
  <1>1. Exists(t) /\ o.status \in Statuses /\ "APPROVED" \in Allowed[o.status]
    BY LatestRevision DEF ApproveTournament
  <1>2. o.status = "UNDER_REVIEW"
    BY <1>1 DEF Allowed, Statuses
  <1>3. Sound(o) /\ o \in Tournament
    BY DEF LifecycleInv
  <1>4. Newest(o).createdBy # actor /\ a.compiledBy # actor /\ CurrentArtifacts(o, a)
    BY DEF ApproveTournament, IndependentApprover, GuardPasses, Latest, Newest, CurrentArtifacts
  <1>5. d = [by |-> actor, revision |-> Len(o.revisions), definition |-> Newest(o).definition, artifacts |-> a]
    BY DEF DecisionOn, Latest, Newest
  <1>6. Sound(r)
    <2> HIDE DEF d
    <2> QED
      BY <1>2, <1>3, <1>4, <1>5, ApprovalIsSound
  <1>7. /\ r.status = "APPROVED" /\ r.approval = d /\ r.revisions = o.revisions /\ r.clubId = o.clubId
        /\ r.publication = o.publication
    BY <1>3 DEF Tournament
  <1>8. tournaments' = [tournaments EXCEPT ![t] = r]
    BY DEF ApproveTournament
  <1>9. /\ organization = "ACTIVE" /\ RequireTournamentManager(actor, o.clubId)
        /\ guides[t] \in 0..(GuidedSteps + 1) /\ guides' = [guides EXCEPT ![t] = guides[t]]
    BY DEF ApproveTournament, OrganizationIsActive, LifecycleInv
  <1>10. o.approval = NoDecision /\ d.by = actor
    BY <1>2, <1>3, <1>5 DEF Sound, DecisionsMatchStatus
  <1> HIDE DEF r, d
  <1>11. Approved(actor, o, r)
    BY <1>7, <1>10 DEF Approved
  <1> QED
    BY <1>6, <1>7, <1>8, <1>9, <1>11 DEF Effect

(* The publication.                                                        *)
LEMMA PublicationEffect ==
  ASSUME LifecycleInv, NEW actor \in Users, NEW t \in Tournaments, NEW expected, NEW a \in Artifacts,
         PublishTournament(actor, t, expected, a)
  PROVE  \E r : Effect(actor, t, r, guides[t])
  <1> DEFINE o == tournaments[t]
             d == DecisionOn(t, actor, a)
             r == [o EXCEPT !.status = "PUBLISHED", !.publication = d]
  <1>1. o.status = "APPROVED" /\ o.approval.by # actor /\ o.approval.artifacts = a
    BY DEF PublishTournament, ExactlyApproved
  <1>2. Sound(o) /\ o \in Tournament
    BY DEF LifecycleInv
  <1>3. d = [by |-> actor, revision |-> Len(o.revisions), definition |-> Newest(o).definition, artifacts |-> a]
    BY DEF DecisionOn, Latest, Newest
  <1>4. Sound(r)
    <2> HIDE DEF d
    <2> QED
      BY <1>1, <1>2, <1>3, PublicationIsSound
  <1>5. /\ r.status = "PUBLISHED" /\ r.publication = d /\ r.revisions = o.revisions /\ r.clubId = o.clubId
        /\ r.approval = o.approval
    BY <1>2 DEF Tournament
  <1>6. tournaments' = [tournaments EXCEPT ![t] = r]
    BY DEF PublishTournament
  <1>7. /\ organization = "ACTIVE" /\ RequireTournamentManager(actor, o.clubId)
        /\ guides[t] \in 0..(GuidedSteps + 1) /\ guides' = [guides EXCEPT ![t] = guides[t]]
    BY DEF PublishTournament, OrganizationIsActive, LifecycleInv
  <1>8. o.publication = NoDecision /\ d.by = actor
    BY <1>1, <1>2, <1>3 DEF Sound, DecisionsMatchStatus
  <1> HIDE DEF r, d
  <1>9. Published(actor, o, r)
    BY <1>5, <1>8 DEF Published
  <1> QED
    BY <1>4, <1>5, <1>6, <1>7, <1>9 DEF Effect

(* Every command has one of these effects.                                 *)
LEMMA CommandEffect ==
  ASSUME LifecycleInv, NEW actor \in Users, NEW t \in Tournaments, TournamentCommand(actor, t)
  PROVE  \E r, g : Effect(actor, t, r, g)
  <1> USE LifecycleAssumption
  <1>1. guides[t] \in 0..(GuidedSteps + 1) /\ guides \in [Tournaments -> 0..(GuidedSteps + 1)]
        /\ guides = [guides EXCEPT ![t] = guides[t]]
    BY DEF LifecycleInv
  <1>2. ASSUME NEW clubId \in Clubs, NEW d \in Definitions, CreateTournament(actor, t, clubId, d)
        PROVE  \E r, g : Effect(actor, t, r, g)
    BY <1>1, <1>2, DraftEffect DEF CreateTournament, OrganizationIsActive
  <1>3. ASSUME NEW expected, NEW d \in Definitions, ReviseTournament(actor, t, expected, d)
        PROVE  \E r, g : Effect(actor, t, r, g)
    BY <1>1, <1>3, RevisionEffect DEF ReviseTournament, MayRevise, OrganizationIsActive
  <1>4. ASSUME NEW source \in Tournaments, DuplicateTournament(actor, source, t)
        PROVE  \E r, g : Effect(actor, t, r, g)
    <2>1. tournaments[source].clubId \in Clubs /\ Latest(source) \in Revision
      BY <1>4, LatestRevision DEF DuplicateTournament
    <2>2. Latest(source).definition \in Definitions
      BY <2>1 DEF Revision
    <2> QED
      BY <1>1, <1>4, <2>1, <2>2, DraftEffect DEF DuplicateTournament, OrganizationIsActive
  <1>5. ASSUME NEW clubId \in Clubs, NEW d \in Definitions, StartGuidedTournament(actor, t, clubId, d)
        PROVE  \E r, g : Effect(actor, t, r, g)
    <2>1. 1 \in 0..(GuidedSteps + 1)
      OBVIOUS
    <2> QED
      BY <1>5, <2>1, DraftEffect DEF StartGuidedTournament, OrganizationIsActive
  <1>6. ASSUME NEW step \in 1..GuidedSteps, NEW d \in Definitions, SaveGuidedStep(actor, t, step, d)
        PROVE  \E r, g : Effect(actor, t, r, g)
    <2>1. step + 1 \in 0..(GuidedSteps + 1) /\ guides' = [guides EXCEPT ![t] = step + 1]
      BY <1>6 DEF SaveGuidedStep
    <2>2. CASE step < GuidedSteps
      <3>1. Moved(tournaments[t], tournaments[t]) /\ Sound(tournaments[t])
        BY DEF Moved, LifecycleInv
      <3>2. tournaments' = [tournaments EXCEPT ![t] = tournaments[t]]
        BY <1>6, <2>2 DEF SaveGuidedStep, LifecycleInv
      <3>3. organization = "ACTIVE" /\ RequireTournamentManager(actor, tournaments[t].clubId)
            /\ tournaments[t].status # "NONE"
        BY <1>6 DEF SaveGuidedStep, OrganizationIsActive
      <3> QED
        BY <2>1, <3>1, <3>2, <3>3 DEF Effect
    <2>3. CASE step = GuidedSteps
      <3>1. tournaments' = Revised(t, [definition |-> d, createdBy |-> actor])
        BY <1>6, <2>3 DEF SaveGuidedStep
      <3>2. organization = "ACTIVE" /\ RequireTournamentManager(actor, tournaments[t].clubId)
            /\ tournaments[t].status = "DRAFT"
        BY <1>6 DEF SaveGuidedStep, OrganizationIsActive
      <3> QED
        BY <2>1, <3>1, <3>2, RevisionEffect
    <2> QED
      BY <2>2, <2>3
  <1>7. ASSUME NEW status \in Statuses, ChangeTournamentStatus(actor, t, status)
        PROVE  \E r, g : Effect(actor, t, r, g)
    BY <1>7, StatusEffect
  <1>8. ASSUME NEW a \in Resolvable, ApproveTournament(actor, t, a)
        PROVE  \E r, g : Effect(actor, t, r, g)
    BY <1>8, ApprovalEffect, ResolvableArtifacts
  <1>9. ASSUME NEW expected, NEW a \in Resolvable, PublishTournament(actor, t, expected, a)
        PROVE  \E r, g : Effect(actor, t, r, g)
    BY <1>9, PublicationEffect, ResolvableArtifacts
  <1> QED
    BY <1>2, <1>3, <1>4, <1>5, <1>6, <1>7, <1>8, <1>9 DEF TournamentCommand

-----------------------------------------------------------------------------
(* Every step preserves the invariant.                                     *)
LEMMA LifecycleStep == LifecycleInv /\ [LifecycleNext]_vars => LifecycleInv'
  <1> SUFFICES ASSUME LifecycleInv, [LifecycleNext]_vars PROVE LifecycleInv'
    OBVIOUS
  <1>1. ASSUME UNCHANGED <<tournaments, guides>> PROVE LifecycleInv'
    BY <1>1 DEF LifecycleInv, Exists, Sound, WellFormed, DecisionsMatchStatus, CurrentApproval, ApprovedPublication,
                SeparateHands, CurrentArtifacts, Newest
  <1>2. ASSUME NEW actor \in Users, NEW t \in Tournaments, TournamentCommand(actor, t) PROVE LifecycleInv'
    <2>1. PICK r, g : Effect(actor, t, r, g)
      BY <1>2, CommandEffect
    <2> QED
      BY <2>1, OneRecord DEF Effect
  <1> QED
    BY <1>1, <1>2 DEF LifecycleNext, vars

LEMMA LifecycleInvariant == LifecycleSpec => []LifecycleInv
  <1> QED
    BY LifecycleInitially, LifecycleStep, PTL DEF LifecycleSpec

(* Every tournament has its type, whatever the commands: one that exists   *)
(* belongs to a club and has a revision (platform.ts, the tournament       *)
(* commands of executeCommandInner).                                       *)
THEOREM LifecycleTypeCorrect == LifecycleSpec => []LifecycleTypeOK
  BY LifecycleInvariant, InvImplies, PTL

(* What stands approved is the latest revision, with the artifacts Guard   *)
(* passed for it, for any resolver and any interleaving of commands.       *)
THEOREM ApprovalStaysCurrent == LifecycleSpec => []ApprovalIsCurrent
  BY LifecycleInvariant, InvImplies, PTL

(* What is published is, to the last artifact, what was approved.          *)
THEOREM PublicationWasApproved == LifecycleSpec => []PublishedIsApproved
  BY LifecycleInvariant, InvImplies, PTL

(* The approver of a tournament is neither the author of the revision nor  *)
(* the compiler of the artifacts approved, and did not publish it.         *)
THEOREM DutiesAreSeparate == LifecycleSpec => []SeparationOfDuties
  BY LifecycleInvariant, InvImplies, PTL

-----------------------------------------------------------------------------
(* Revisions are only added, and only to drafts; approvals and             *)
(* publications are final.                                                 *)
THEOREM HistoryIsKept == LifecycleSpec => HistoryIsImmutable
  <1> DEFINE Kept(old, new) ==
        /\ new.clubId = old.clubId
        /\ \A i \in 1..Len(old.revisions) : i <= Len(new.revisions) /\ new.revisions[i] = old.revisions[i]
        /\ new.revisions # old.revisions => old.status = "DRAFT"
        /\ old.approval # NoDecision => new.approval = old.approval
        /\ old.publication # NoDecision => new.publication = old.publication
  <1>1. ASSUME LifecycleInv, NEW s \in Tournaments, tournaments'[s] = tournaments[s]
        PROVE  Kept(tournaments[s], tournaments'[s])
    <2>1. tournaments[s].revisions \in Seq(Revision)
      BY <1>1 DEF LifecycleInv, Tournament
    <2>2. \A i \in 1..Len(tournaments[s].revisions) : i <= Len(tournaments[s].revisions)
      BY <2>1
    <2> QED
      BY <1>1, <2>2
  <1>2. ASSUME LifecycleInv, NEW actor \in Users, NEW t \in Tournaments, TournamentCommand(actor, t),
               NEW s \in Tournaments, Exists(s)
        PROVE  Kept(tournaments[s], tournaments'[s])
    <2>1. PICK r, g : Effect(actor, t, r, g)
      BY <1>2, CommandEffect
    <2>2. CASE s # t
      BY <1>1, <1>2, <2>1, <2>2 DEF Effect, LifecycleInv
    <2>3. CASE s = t
      <3> DEFINE o == tournaments[t]
      <3>1. tournaments'[t] = r /\ o.status # "NONE" /\ o.revisions \in Seq(Revision)
        BY <1>2, <2>1, <2>3, LatestRevision DEF Effect, LifecycleInv, Exists
      <3>2. \A i \in 1..Len(o.revisions) : i <= Len(o.revisions)
        BY <3>1
      <3>3. CASE Extended(actor, o, r)
        <4>1. PICK v \in Revision : r.revisions = Append(o.revisions, v)
          BY <3>3 DEF Extended
        <4>2. \A i \in 1..Len(o.revisions) : i <= Len(r.revisions) /\ r.revisions[i] = o.revisions[i]
          BY <3>1, <4>1, AppendProperties
        <4> QED
          BY <2>3, <3>1, <3>3, <4>2 DEF Extended
      <3>4. CASE Moved(o, r)
        BY <2>3, <3>1, <3>2, <3>4 DEF Moved
      <3>5. CASE Approved(actor, o, r)
        BY <2>3, <3>1, <3>2, <3>5 DEF Approved
      <3>6. CASE Published(actor, o, r)
        BY <2>3, <3>1, <3>2, <3>6 DEF Published
      <3> QED
        BY <2>1, <3>1, <3>3, <3>4, <3>5, <3>6 DEF Effect, Drafted
    <2> QED
      BY <2>2, <2>3
  <1>3. LifecycleInv /\ [LifecycleNext]_vars =>
          [\A t \in Tournaments : Exists(t) => Kept(tournaments[t], tournaments'[t])]_vars
    <2> SUFFICES ASSUME LifecycleInv, LifecycleNext, NEW s \in Tournaments, Exists(s)
                 PROVE  Kept(tournaments[s], tournaments'[s])
      BY DEF vars
    <2> HIDE DEF Kept
    <2> QED
      BY <1>1, <1>2 DEF LifecycleNext
  <1> QED
    BY <1>3, LifecycleInvariant, PTL DEF LifecycleSpec, HistoryIsImmutable

(* Whoever writes, approves or publishes manages the club at that moment:  *)
(* in an active organization, with an active membership, as an owner or    *)
(* with the club in scope.                                                 *)
THEOREM ManagersDecide == LifecycleSpec => OnlyCurrentManagersDecide
  <1> DEFINE Manages(u, clubId) == \/ IsActiveOwner(u)
                                   \/ memberships[u].status = "ACTIVE" /\ clubId \in memberships[u].clubIds
             Decided(old, new) ==
               /\ Len(new.revisions) > Len(old.revisions)
                    => Manages(new.revisions[Len(new.revisions)].createdBy, new.clubId)
               /\ new.approval # old.approval => Manages(new.approval.by, new.clubId)
               /\ new.publication # old.publication => Manages(new.publication.by, new.clubId)
  <1>1. ASSUME LifecycleInv, NEW s \in Tournaments, tournaments'[s] = tournaments[s]
        PROVE  Decided(tournaments[s], tournaments'[s])
    <2>1. Len(tournaments[s].revisions) \in Nat
      BY <1>1 DEF LifecycleInv, Tournament
    <2> HIDE DEF Manages
    <2> QED
      BY <1>1, <2>1
  <1>2. ASSUME LifecycleInv, NEW actor \in Users, NEW t \in Tournaments, TournamentCommand(actor, t)
        PROVE  organization = "ACTIVE" /\ \A s \in Tournaments : Decided(tournaments[s], tournaments'[s])
    <2>1. PICK r, g : Effect(actor, t, r, g)
      BY <1>2, CommandEffect
    <2>2. organization = "ACTIVE" /\ Manages(actor, r.clubId)
      BY <2>1 DEF Effect, RequireTournamentManager, IsActiveOwner
    <2>3. \A s \in Tournaments : tournaments'[s] = IF s = t THEN r ELSE tournaments[s]
      BY <1>2, <2>1 DEF Effect, LifecycleInv
    <2> HIDE DEF Manages
    <2>4. Decided(tournaments[t], r)
      <3> DEFINE o == tournaments[t]
      <3>1. o \in Tournament /\ Sound(o)
        BY <1>2 DEF LifecycleInv
      <3>2. o.revisions \in Seq(Revision) /\ Len(o.revisions) \in Nat
        BY <3>1 DEF Tournament
      <3>3. CASE Drafted(actor, o, r)
        <4>1. o.approval = NoDecision /\ o.publication = NoDecision
          BY <3>1, <3>3 DEF Sound, DecisionsMatchStatus, Drafted
        <4> QED
          BY <2>2, <3>2, <3>3, <4>1 DEF Drafted
      <3>4. CASE Extended(actor, o, r)
        <4>1. PICK v \in Revision : v.createdBy = actor /\ r.revisions = Append(o.revisions, v)
          BY <3>4 DEF Extended
        <4>2. r.revisions[Len(r.revisions)] = v
          BY <3>2, <4>1, AppendProperties
        <4> QED
          BY <2>2, <3>4, <4>1, <4>2 DEF Extended
      <3>5. CASE Moved(o, r)
        BY <3>2, <3>5 DEF Moved
      <3>6. CASE Approved(actor, o, r)
        BY <2>2, <3>2, <3>6 DEF Approved
      <3>7. CASE Published(actor, o, r)
        BY <2>2, <3>2, <3>7 DEF Published
      <3> QED
        BY <2>1, <3>3, <3>4, <3>5, <3>6, <3>7 DEF Effect
    <2> HIDE DEF Decided
    <2> QED
      BY <1>1, <1>2, <2>2, <2>3, <2>4
  <1>3. LifecycleInv /\ [LifecycleNext]_vars =>
          [/\ tournaments' # tournaments => organization = "ACTIVE"
           /\ \A t \in Tournaments : Decided(tournaments[t], tournaments'[t])]_vars
    <2> SUFFICES ASSUME LifecycleInv, LifecycleNext
                 PROVE  /\ tournaments' # tournaments => organization = "ACTIVE"
                        /\ \A t \in Tournaments : Decided(tournaments[t], tournaments'[t])
      BY DEF vars
    <2> HIDE DEF Decided
    <2> QED
      BY <1>1, <1>2 DEF LifecycleNext
  <1>4. LifecycleInv /\ [LifecycleNext]_vars =>
          [/\ tournaments' # tournaments => organization = "ACTIVE"
           /\ \A t \in Tournaments :
                LET manages(u) == \/ IsActiveOwner(u)
                                  \/ /\ memberships[u].status = "ACTIVE"
                                     /\ tournaments'[t].clubId \in memberships[u].clubIds
                IN  /\ Len(tournaments'[t].revisions) > Len(tournaments[t].revisions)
                         => manages(tournaments'[t].revisions[Len(tournaments'[t].revisions)].createdBy)
                    /\ tournaments'[t].approval # tournaments[t].approval => manages(tournaments'[t].approval.by)
                    /\ tournaments'[t].publication # tournaments[t].publication
                         => manages(tournaments'[t].publication.by)]_vars
    BY <1>3
  <1> QED
    BY <1>4, LifecycleInvariant, PTL DEF LifecycleSpec, OnlyCurrentManagersDecide

(* The same as the runs check them. *)
THEOREM ApprovalGoverned == LifecycleSpec => []ApprovalGoverns
BY ApprovalStaysCurrent, PublicationWasApproved, PTL DEF ApprovalGoverns

(* Both of the record of decisions. *)
THEOREM DecisionsKept == LifecycleSpec => DecisionsAreKept
BY HistoryIsKept, ManagersDecide DEF DecisionsAreKept

-----------------------------------------------------------------------------
Once(log) == \A i, j \in DOMAIN log : log[i].id = log[j].id => i = j

Grown(log, next) ==
  \/ next = log
  \/ \E e \in Entry : Prior(log, e.id) = {} /\ next = Append(log, e)

Founded(c, ls) ==
  /\ c \in Change \union {NoChange}
  /\ c.status \in {"READY_FOR_APPROVAL", "APPROVED"} =>
       /\ IsPrefixOf(c.base, ls[c.tournament].log)
       /\ Grown(c.base, c.proposed)
  /\ c.status = "APPROVED" =>
       /\ IsPrefixOf(c.proposed, ls[c.tournament].log)
       /\ c.decidedBy \notin {NoUser, c.by}

Independent(r) ==
  /\ r \in Repair \union {NoRepair}
  /\ r.status \in Decisions => r.decidedBy \notin {NoUser, r.by}
  /\ r.status = "APPROVED" => r.proven

LiveInv ==
  /\ lives \in [Tournaments -> Live]
  /\ scores \in [Tournaments -> [Contests -> Seq(ScoreRevision)]]
  /\ \A t \in Tournaments : Once(lives[t].log)
  /\ changes \in [Changes -> Change \union {NoChange}]
  /\ \A p \in Changes : Founded(changes[p], lives)
  /\ repairs \in [Repairs -> Repair \union {NoRepair}]
  /\ \A r \in Repairs : Independent(repairs[r])

(* What a step does to the logs ls and the scores ss.                      *)
OnlyGrown(ls, ks, ss, ts) ==
  /\ ks \in [Tournaments -> Live]
  /\ \A t \in Tournaments : (ls[t].on => ks[t].on) /\ Grown(ls[t].log, ks[t].log)
  /\ ts \in [Tournaments -> [Contests -> Seq(ScoreRevision)]]
  /\ \A t \in Tournaments, c \in Contests :
       ts[t][c] = ss[t][c] \/ \E v \in ScoreRevision : ts[t][c] = Append(ss[t][c], v)

-----------------------------------------------------------------------------
(* The commands of the lifecycle see nothing of the live ones.             *)
THEOREM LifecycleGoesOn == LiveSpec => LifecycleSpec
  <1>1. LiveInit => LifecycleInit
    BY DEF LiveInit
  <1>2. ASSUME NEW actor \in Users, NEW t \in Tournaments, LiveCommand(actor, t) PROVE UNCHANGED vars
    BY <1>2 DEF LiveCommand, InitializeLiveOperations, ApplyLiveOperation, RecordScore, ProposeScheduleRepair,
                DecideRepairProposal, ProposeLiveChange, DecideLiveChange
  <1>3. [LiveNext]_allVars => [LifecycleNext]_vars
    BY <1>2 DEF LiveNext, allVars
  <1> QED
    BY <1>1, <1>3, PTL DEF LiveSpec, LifecycleSpec

-----------------------------------------------------------------------------
(* Prefixes and growth.                                                    *)
LEMMA PrefixAppend ==
  ASSUME NEW S, NEW s \in Seq(S), NEW e \in S
  PROVE  IsPrefixOf(s, s) /\ IsPrefixOf(s, Append(s, e))
  BY AppendProperties DEF IsPrefixOf

LEMMA PrefixTransitive ==
  ASSUME NEW S, NEW s \in Seq(S), NEW u \in Seq(S), NEW w \in Seq(S), IsPrefixOf(s, u), IsPrefixOf(u, w)
  PROVE  IsPrefixOf(s, w)
  <1>1. Len(s) \in Nat /\ Len(u) \in Nat /\ Len(w) \in Nat
    OBVIOUS
  <1>2. Len(s) <= Len(w)
    BY <1>1 DEF IsPrefixOf
  <1>3. \A i \in 1..Len(s) : i \in 1..Len(u)
    BY <1>1 DEF IsPrefixOf
  <1> QED
    BY <1>2, <1>3 DEF IsPrefixOf

(* A grown log is a log, goes on from the old one, and has each command    *)
(* once if the old one had.                                                *)
LEMMA GrownLog ==
  ASSUME NEW log \in Seq(Entry), NEW next, Grown(log, next)
  PROVE  next \in Seq(Entry) /\ IsPrefixOf(log, next) /\ (Once(log) => Once(next))
  <1>1. CASE next = log
    BY <1>1 DEF IsPrefixOf
  <1>2. ASSUME NEW e \in Entry, Prior(log, e.id) = {}, next = Append(log, e)
        PROVE  next \in Seq(Entry) /\ IsPrefixOf(log, next) /\ (Once(log) => Once(next))
    <2>1. next \in Seq(Entry) /\ IsPrefixOf(log, next)
      BY <1>2, PrefixAppend, AppendProperties
    <2>2. /\ Len(log) \in Nat /\ DOMAIN log = 1..Len(log) /\ DOMAIN next = 1..(Len(log) + 1)
          /\ next[Len(log) + 1] = e /\ \A i \in 1..Len(log) : next[i] = log[i]
      BY <1>2, AppendProperties
    <2>3. \A i \in 1..Len(log) : log[i].id # e.id
      BY <1>2, <2>2 DEF Prior
    <2>4. ASSUME Once(log), NEW i \in DOMAIN next, NEW j \in DOMAIN next, next[i].id = next[j].id PROVE i = j
      <3>1. CASE i \in 1..Len(log) /\ j \in 1..Len(log)
        BY <2>2, <2>4, <3>1 DEF Once
      <3>2. CASE i = Len(log) + 1 \/ j = Len(log) + 1
        BY <2>2, <2>3, <2>4, <3>2
      <3> QED
        BY <2>2, <3>1, <3>2
    <2> QED
      BY <2>1, <2>4 DEF Once
  <1> QED
    BY <1>1, <1>2 DEF Grown

(* The live engine leaves a log alone or appends a new command to it.      *)
LEMMA SubmittedGrows ==
  ASSUME NEW log, NEW entry \in Entry, NEW expected, NEW next \in Submitted(log, entry, expected)
  PROVE  Grown(log, next)
  BY DEF Submitted, Grown

(* Proposals stay founded when the logs grow.                              *)
LEMMA FoundedKept ==
  ASSUME NEW ls \in [Tournaments -> Live], NEW ks \in [Tournaments -> Live],
         \A t \in Tournaments : Grown(ls[t].log, ks[t].log),
         NEW c, Founded(c, ls)
  PROVE  Founded(c, ks)
  <1>1. CASE c.status \in {"READY_FOR_APPROVAL", "APPROVED"}
    <2>1. c \in Change
      BY <1>1 DEF Founded, NoChange
    <2>2. c.tournament \in Tournaments /\ c.base \in Seq(Entry) /\ c.proposed \in Seq(Entry)
      BY <2>1 DEF Change
    <2> DEFINE old == ls[c.tournament].log
               new == ks[c.tournament].log
    <2>3. old \in Seq(Entry) /\ new \in Seq(Entry) /\ IsPrefixOf(old, new)
      BY <2>2, GrownLog DEF Live
    <2>4. IsPrefixOf(c.base, new)
      BY <1>1, <2>2, <2>3, PrefixTransitive DEF Founded
    <2>5. c.status = "APPROVED" => IsPrefixOf(c.proposed, new)
      BY <2>2, <2>3, PrefixTransitive DEF Founded
    <2> QED
      BY <1>1, <2>4, <2>5 DEF Founded
  <1>2. CASE c.status \notin {"READY_FOR_APPROVAL", "APPROVED"}
    BY <1>2 DEF Founded
  <1> QED
    BY <1>1, <1>2

-----------------------------------------------------------------------------
(* Nothing is lost from a log or a score when neither changes.             *)
LEMMA NothingGrows ==
  ASSUME LiveInv, lives' = lives, scores' = scores
  PROVE  OnlyGrown(lives, lives', scores, scores')
  BY DEF LiveInv, OnlyGrown, Grown

(* A command that replaces one log by one grown from it.                   *)
LEMMA OneLogGrows ==
  ASSUME LiveInv, NEW t \in Tournaments, NEW next, Grown(lives[t].log, next),
         lives' = [lives EXCEPT ![t].log = next], scores' = scores
  PROVE  OnlyGrown(lives, lives', scores, scores')
  <1>1. lives[t].log \in Seq(Entry) /\ lives \in [Tournaments -> Live]
    BY DEF LiveInv, Live
  <1>2. next \in Seq(Entry)
    BY <1>1, GrownLog
  <1>3. /\ lives' \in [Tournaments -> Live]
        /\ \A u \in Tournaments : /\ lives'[u].on = lives[u].on
                                  /\ lives'[u].log = IF u = t THEN next ELSE lives[u].log
    BY <1>1, <1>2 DEF Live
  <1> QED
    BY <1>3 DEF LiveInv, OnlyGrown, Grown

(* Every live command only adds to the logs and the scores.                *)
LEMMA CommandGrows ==
  ASSUME LiveInv, NEW actor \in Users, NEW t \in Tournaments, LiveCommand(actor, t)
  PROVE  OnlyGrown(lives, lives', scores, scores')
  <1>1. CASE InitializeLiveOperations(actor, t)
    <2>1. /\ lives' = [lives EXCEPT ![t].on = TRUE] /\ scores' = scores
          /\ lives \in [Tournaments -> Live]
      BY <1>1 DEF InitializeLiveOperations, LiveInv
    <2>2. /\ lives' \in [Tournaments -> Live]
          /\ \A u \in Tournaments : lives'[u].log = lives[u].log /\ (lives[u].on => lives'[u].on)
      BY <2>1 DEF Live
    <2> QED
      BY <2>1, <2>2 DEF LiveInv, OnlyGrown, Grown
  <1>2. ASSUME NEW id \in LiveIds, NEW content \in LiveContents, NEW expected,
               ApplyLiveOperation(actor, t, id, content, expected)
        PROVE  OnlyGrown(lives, lives', scores, scores')
    <2> DEFINE entry == [id |-> id, content |-> content, by |-> actor]
    <2>1. entry \in Entry
      BY DEF Entry
    <2>2. PICK next \in Submitted(lives[t].log, entry, expected) : lives' = [lives EXCEPT ![t].log = next]
      BY <1>2 DEF ApplyLiveOperation
    <2>3. Grown(lives[t].log, next) /\ scores' = scores
      BY <1>2, <2>1, SubmittedGrows DEF ApplyLiveOperation
    <2> QED
      BY <2>2, <2>3, OneLogGrows
  <1>3. ASSUME NEW c \in Contests, NEW winner \in Entrants, NEW correction \in BOOLEAN, NEW expected,
               RecordScore(actor, t, c, winner, correction, expected)
        PROVE  OnlyGrown(lives, lives', scores, scores')
    <2> DEFINE v == [winner |-> winner, by |-> actor, correction |-> correction]
    <2>1. v \in ScoreRevision
      BY DEF ScoreRevision
    <2> HIDE DEF v
    <2>2. /\ lives' = lives /\ scores \in [Tournaments -> [Contests -> Seq(ScoreRevision)]]
          /\ scores' = [scores EXCEPT ![t][c] = Append(scores[t][c], v)]
      BY <1>3 DEF RecordScore, LiveInv, v
    <2>3. Append(scores[t][c], v) \in Seq(ScoreRevision)
      BY <2>1, <2>2, AppendProperties
    <2>4. scores' \in [Tournaments -> [Contests -> Seq(ScoreRevision)]]
      BY <2>2, <2>3
    <2>5. \A u \in Tournaments, k \in Contests :
            scores'[u][k] = IF u = t /\ k = c THEN Append(scores[t][c], v) ELSE scores[u][k]
      BY <2>2
    <2> QED
      BY <2>1, <2>2, <2>4, <2>5 DEF LiveInv, OnlyGrown, Grown
  <1>4. ASSUME NEW r, NEW proven, ProposeScheduleRepair(actor, t, r, proven)
        PROVE  OnlyGrown(lives, lives', scores, scores')
    BY <1>4, NothingGrows DEF ProposeScheduleRepair
  <1>5. ASSUME NEW r, NEW decision, DecideRepairProposal(actor, t, r, decision)
        PROVE  OnlyGrown(lives, lives', scores, scores')
    BY <1>5, NothingGrows DEF DecideRepairProposal
  <1>6. ASSUME NEW p, NEW id, NEW content, NEW expected, NEW proven,
               ProposeLiveChange(actor, t, p, id, content, expected, proven)
        PROVE  OnlyGrown(lives, lives', scores, scores')
    BY <1>6, NothingGrows DEF ProposeLiveChange
  <1>7. ASSUME NEW p \in Changes, NEW decision, DecideLiveChange(actor, t, p, decision)
        PROVE  OnlyGrown(lives, lives', scores, scores')
    <2>1. CASE UNCHANGED lives
      BY <1>7, <2>1, NothingGrows DEF DecideLiveChange
    <2>2. CASE lives' = [lives EXCEPT ![t].log = changes[p].proposed]
      <3>1. changes[p].base = lives[t].log /\ Grown(changes[p].base, changes[p].proposed)
        BY <1>7 DEF DecideLiveChange, IsFresh, LiveInv, Founded
      <3> QED
        BY <1>7, <2>2, <3>1, OneLogGrows DEF DecideLiveChange
    <2> QED
      BY <1>7, <2>1, <2>2 DEF DecideLiveChange
  <1> QED
    BY <1>1, <1>2, <1>3, <1>4, <1>5, <1>6, <1>7 DEF LiveCommand

(* Every live command leaves the live changes founded.                     *)
LEMMA CommandFounds ==
  ASSUME LiveInv, NEW actor \in Users, NEW t \in Tournaments, LiveCommand(actor, t)
  PROVE  changes' \in [Changes -> Change \union {NoChange}] /\ \A p \in Changes : Founded(changes'[p], lives')
  <1> DEFINE Goal == changes' \in [Changes -> Change \union {NoChange}] /\ \A p \in Changes : Founded(changes'[p], lives')
  <1>1. /\ \A p \in Changes : Founded(changes[p], lives')
        /\ lives \in [Tournaments -> Live] /\ lives' \in [Tournaments -> Live]
        /\ changes \in [Changes -> Change \union {NoChange}]
    BY CommandGrows, FoundedKept DEF LiveInv, OnlyGrown
  <1>2. CASE changes' = changes
    BY <1>1, <1>2
  <1>3. ASSUME NEW p \in Changes, NEW c \in Change, changes' = [changes EXCEPT ![p] = c], Founded(c, lives')
        PROVE  Goal
    BY <1>1, <1>3
  <1> HIDE DEF Goal
  <1>4. ASSUME NEW p \in Changes, NEW id \in LiveIds, NEW content \in LiveContents, NEW expected, NEW proven,
               ProposeLiveChange(actor, t, p, id, content, expected, proven)
        PROVE  Goal
    <2> DEFINE log == lives[t].log
               entry == [id |-> id, content |-> content, by |-> actor]
               proposal(status, proposed) ==
                 [status |-> status, tournament |-> t, by |-> actor, base |-> log, proposed |-> proposed,
                  decidedBy |-> NoUser]
    <2>1. entry \in Entry /\ log \in Seq(Entry) /\ lives' = lives
      BY <1>1, <1>4 DEF Entry, Live, ProposeLiveChange
    <2>2. ASSUME NEW next \in Submitted(log, entry, expected),
                 changes' = [changes EXCEPT ![p] = proposal("READY_FOR_APPROVAL", next)]
          PROVE  Goal
      <3> DEFINE c == proposal("READY_FOR_APPROVAL", next)
      <3>1. Grown(log, next)
        BY <2>1, <2>2, SubmittedGrows
      <3>2. next \in Seq(Entry)
        BY <2>1, <3>1, GrownLog
      <3>3. c \in Change
        BY <2>1, <3>2 DEF Change
      <3>4. /\ c.base = log /\ c.proposed = next /\ c.status = "READY_FOR_APPROVAL" /\ c.tournament = t
            /\ lives'[t].log = log
        BY <2>1
      <3> HIDE DEF c
      <3>5. IsPrefixOf(log, log)
        BY <2>1 DEF IsPrefixOf
      <3>6. Founded(c, lives')
        BY <3>1, <3>3, <3>4, <3>5 DEF Founded
      <3> QED
        BY <1>3, <2>2, <3>3, <3>6 DEF c
    <2>3. ASSUME changes' = [changes EXCEPT ![p] = proposal("BLOCKED", <<>>)]
          PROVE  Goal
      <3> DEFINE c == proposal("BLOCKED", <<>>)
      <3>1. c \in Change /\ c.status = "BLOCKED"
        BY <2>1 DEF Change
      <3> HIDE DEF c
      <3>2. Founded(c, lives')
        BY <3>1 DEF Founded
      <3> QED
        BY <1>3, <2>3, <3>1, <3>2 DEF c
    <2> QED
      BY <1>4, <2>2, <2>3 DEF ProposeLiveChange
  <1>5. ASSUME NEW p \in Changes, NEW decision \in Decisions, DecideLiveChange(actor, t, p, decision)
        PROVE  Goal
    <2> DEFINE o == changes[p]
               c == [o EXCEPT !.status = decision, !.decidedBy = actor]
    <2>1. o \in Change /\ o.status = "READY_FOR_APPROVAL" /\ o.tournament = t /\ Founded(o, lives')
      BY <1>1, <1>5 DEF DecideLiveChange, NoChange
    <2>2. c \in Change
      BY <2>1 DEF Change, Decisions
    <2>3. /\ c.status = decision /\ c.decidedBy = actor /\ c.tournament = t /\ c.by = o.by
          /\ c.base = o.base /\ c.proposed = o.proposed
      BY <2>1 DEF Change
    <2>4. changes' = [changes EXCEPT ![p] = c]
      BY <1>1, <1>5 DEF DecideLiveChange
    <2>5. CASE decision = "REJECTED"
      <3> HIDE DEF c
      <3>1. Founded(c, lives')
        BY <2>2, <2>3, <2>5 DEF Founded
      <3> QED
        BY <1>3, <2>2, <2>4, <3>1
    <2>6. CASE decision = "APPROVED"
      <3>1. lives' = [lives EXCEPT ![t].log = o.proposed] /\ o.by # actor
        BY <1>5, <2>6 DEF DecideLiveChange, MayApprove
      <3>2. lives'[t].log = o.proposed /\ o.proposed \in Seq(Entry)
        BY <1>1, <2>1, <3>1 DEF Live, Change
      <3>3. IsPrefixOf(o.proposed, o.proposed)
        BY <3>2 DEF IsPrefixOf
      <3> HIDE DEF c, o
      <3>4. actor # NoUser
        BY AccessAssumption
      <3>5. Founded(c, lives')
        BY <2>1, <2>2, <2>3, <2>6, <3>1, <3>2, <3>3, <3>4 DEF Founded
      <3> QED
        BY <1>3, <2>2, <2>4, <3>5
    <2> QED
      BY <2>5, <2>6 DEF Decisions
  <1>6. changes' = changes \/ Goal
    BY <1>4, <1>5 DEF LiveCommand, InitializeLiveOperations, ApplyLiveOperation, RecordScore, ProposeScheduleRepair,
                      DecideRepairProposal
  <1> QED
    BY <1>2, <1>6 DEF Goal

(* Every live command leaves the repairs with independent deciders.        *)
LEMMA CommandDecides ==
  ASSUME LiveInv, NEW actor \in Users, NEW t \in Tournaments, LiveCommand(actor, t)
  PROVE  repairs' \in [Repairs -> Repair \union {NoRepair}] /\ \A r \in Repairs : Independent(repairs'[r])
  <1> DEFINE Goal == repairs' \in [Repairs -> Repair \union {NoRepair}] /\ \A r \in Repairs : Independent(repairs'[r])
  <1>1. ASSUME NEW r \in Repairs, NEW c \in Repair, repairs' = [repairs EXCEPT ![r] = c], Independent(c)
        PROVE  Goal
    BY <1>1 DEF LiveInv
  <1>2. CASE repairs' = repairs
    BY <1>2 DEF LiveInv
  <1> HIDE DEF Goal
  <1>3. ASSUME NEW r \in Repairs, NEW proven \in BOOLEAN, ProposeScheduleRepair(actor, t, r, proven)
        PROVE  Goal
    <2> DEFINE c == [status |-> "PROPOSED", tournament |-> t, by |-> actor, proven |-> proven, decidedBy |-> NoUser]
    <2>1. c \in Repair /\ Independent(c)
      BY DEF Repair, Independent, Decisions
    <2> QED
      BY <1>1, <1>3, <2>1 DEF ProposeScheduleRepair
  <1>4. ASSUME NEW r \in Repairs, NEW decision \in Decisions, DecideRepairProposal(actor, t, r, decision)
        PROVE  Goal
    <2> DEFINE o == repairs[r]
               c == [o EXCEPT !.status = decision, !.decidedBy = actor]
    <2>1. o \in Repair /\ o.by # actor /\ (decision = "APPROVED" => o.proven)
      BY <1>4 DEF DecideRepairProposal, MayDecideRepair, LiveInv, NoRepair
    <2>2. c \in Repair
      BY <2>1 DEF Repair, Decisions
    <2>3. c.status = decision /\ c.decidedBy = actor /\ c.by = o.by /\ c.proven = o.proven
      BY <2>1 DEF Repair
    <2>4. repairs' = [repairs EXCEPT ![r] = c]
      BY <1>4 DEF DecideRepairProposal, LiveInv
    <2> HIDE DEF c, o
    <2>5. Independent(c)
      BY <2>1, <2>2, <2>3, AccessAssumption DEF Independent
    <2> QED
      BY <1>1, <2>2, <2>4, <2>5
  <1>5. repairs' = repairs \/ Goal
    BY <1>3, <1>4 DEF LiveCommand, InitializeLiveOperations, ApplyLiveOperation, RecordScore, ProposeLiveChange,
                      DecideLiveChange
  <1> QED
    BY <1>2, <1>5 DEF Goal

-----------------------------------------------------------------------------
(* The invariant says what the runs check.                                 *)
LEMMA LiveInvImplies == LiveInv => LiveTypeOK /\ LiveCommandOnce /\ ApprovedIsApplied /\ ProposalsTakeTwo
  <1> SUFFICES ASSUME LiveInv PROVE LiveTypeOK /\ LiveCommandOnce /\ ApprovedIsApplied /\ ProposalsTakeTwo
    OBVIOUS
  <1>1. LiveCommandOnce
    BY DEF LiveInv, LiveCommandOnce, Once
  <1>2. LiveTypeOK
    BY DEF LiveInv, LiveTypeOK, Founded, Grown
  <1>3. ApprovedIsApplied
    BY DEF LiveInv, ApprovedIsApplied, Founded
  <1>4. ProposalsTakeTwo
    BY DEF LiveInv, ProposalsTakeTwo, Founded, Independent
  <1> QED
    BY <1>1, <1>2, <1>3, <1>4

LEMMA LiveInitially == LiveInit => LiveInv
  <1> SUFFICES ASSUME LiveInit PROVE LiveInv
    OBVIOUS
  <1>1. <<>> \in Seq(Entry) /\ <<>> \in Seq(ScoreRevision)
    OBVIOUS
  <1>2. lives \in [Tournaments -> Live] /\ \A t \in Tournaments : lives[t].log = <<>>
    BY <1>1 DEF LiveInit, Live
  <1>3. scores \in [Tournaments -> [Contests -> Seq(ScoreRevision)]]
    BY <1>1 DEF LiveInit
  <1>4. Founded(NoChange, lives) /\ Independent(NoRepair)
    BY DEF Founded, NoChange, Independent, NoRepair, Decisions
  <1> QED
    BY <1>2, <1>3, <1>4 DEF LiveInit, LiveInv, Once

LEMMA LiveStep == LiveInv /\ [LiveNext]_allVars => LiveInv'
  <1> SUFFICES ASSUME LiveInv, [LiveNext]_allVars PROVE LiveInv'
    OBVIOUS
  <1>1. CASE UNCHANGED liveVars
    BY <1>1 DEF LiveInv, liveVars
  <1>2. ASSUME NEW actor \in Users, NEW t \in Tournaments, LiveCommand(actor, t) PROVE LiveInv'
    <2>1. OnlyGrown(lives, lives', scores, scores')
      BY <1>2, CommandGrows
    <2>2. \A u \in Tournaments : Once(lives'[u].log)
      BY <2>1, GrownLog DEF OnlyGrown, LiveInv, Live
    <2>3. changes' \in [Changes -> Change \union {NoChange}] /\ \A p \in Changes : Founded(changes'[p], lives')
      BY <1>2, CommandFounds
    <2>4. repairs' \in [Repairs -> Repair \union {NoRepair}] /\ \A r \in Repairs : Independent(repairs'[r])
      BY <1>2, CommandDecides
    <2> QED
      BY <2>1, <2>2, <2>3, <2>4 DEF LiveInv, OnlyGrown
  <1> QED
    BY <1>1, <1>2 DEF LiveNext, allVars, liveVars

LEMMA LiveInvariant == LiveSpec => []LiveInv
  BY LiveInitially, LiveStep, PTL DEF LiveSpec

(* The live records have their types, and an approvable proposal adds at   *)
(* most one event to a log the tournament has had (proposeLiveChange).     *)
THEOREM LiveTypeCorrect == LiveSpec => []LiveTypeOK
  BY LiveInvariant, LiveInvImplies, PTL

(* A live command takes effect once, submitted directly or proposed        *)
(* (commandFingerprints of submitLiveOperationsCommand).                   *)
THEOREM LiveCommandsAreOnce == LiveSpec => []LiveCommandOnce
  BY LiveInvariant, LiveInvImplies, PTL

(* What was approved is in the log for good (DECIDE_LIVE_CHANGE compares   *)
(* the proof hash of the state the proposal was made on).                  *)
THEOREM ApprovalTakesEffect == LiveSpec => []ApprovedIsApplied
  BY LiveInvariant, LiveInvImplies, PTL

(* Nobody approves a live change of their own or decides their own repair. *)
THEOREM ProposalsNeedTwo == LiveSpec => []ProposalsTakeTwo
  BY LiveInvariant, LiveInvImplies, PTL

(* No event and no score revision is ever lost or rewritten, in logs of    *)
(* any length and with any number of proposals.                            *)
THEOREM RecordsAreKept == LiveSpec => RecordsOnlyGrow
  <1> DEFINE Kept ==
        \A t \in Tournaments :
          /\ lives[t].on => lives'[t].on
          /\ IsPrefixOf(lives[t].log, lives'[t].log)
          /\ \A c \in Contests : IsPrefixOf(scores[t][c], scores'[t][c])
  <1>1. ASSUME LiveInv, NEW actor \in Users, NEW u \in Tournaments, LiveCommand(actor, u) PROVE Kept
    <2>1. OnlyGrown(lives, lives', scores, scores')
      BY <1>1, CommandGrows
    <2>2. ASSUME NEW t \in Tournaments PROVE IsPrefixOf(lives[t].log, lives'[t].log)
      BY <1>1, <2>1, GrownLog DEF OnlyGrown, LiveInv, Live
    <2>3. ASSUME NEW t \in Tournaments, NEW c \in Contests PROVE IsPrefixOf(scores[t][c], scores'[t][c])
      <3>1. scores[t][c] \in Seq(ScoreRevision)
        BY <1>1 DEF LiveInv
      <3>2. CASE scores'[t][c] = scores[t][c]
        BY <3>1, <3>2 DEF IsPrefixOf
      <3>3. ASSUME NEW v \in ScoreRevision, scores'[t][c] = Append(scores[t][c], v)
            PROVE  IsPrefixOf(scores[t][c], scores'[t][c])
        BY <3>1, <3>3, PrefixAppend
      <3> QED
        BY <2>1, <3>2, <3>3 DEF OnlyGrown
    <2> QED
      BY <2>1, <2>2, <2>3 DEF OnlyGrown
  <1>2. ASSUME LiveInv, UNCHANGED liveVars PROVE Kept
    BY <1>2 DEF liveVars, LiveInv, Live, IsPrefixOf
  <1> HIDE DEF Kept
  <1>3. LiveInv /\ [LiveNext]_allVars => [Kept]_allVars
    BY <1>1, <1>2 DEF LiveNext
  <1> QED
    BY <1>3, LiveInvariant, PTL DEF LiveSpec, RecordsOnlyGrow, Kept

(* Nothing is played live before it was approved and published: opening    *)
(* the live operations asks for a status that only a publication leads to, *)
(* and publications are final.                                             *)
THEOREM LiveOnlyOncePublished == LiveSpec => []LiveWasPublished
  <1> DEFINE Final ==
        \A t \in Tournaments : Exists(t) /\ tournaments[t].publication # NoDecision
                                 => tournaments'[t].publication = tournaments[t].publication
  <1>1. LiveInit => LiveWasPublished
    BY DEF LiveInit, LiveWasPublished
  <1>2. LiveSpec => []LifecycleInv
    BY LifecycleGoesOn, LifecycleInvariant, PTL
  <1>3. LiveSpec => [][Final]_vars
    <2>1. [\A t \in Tournaments : Exists(t) =>
             LET old == tournaments[t]
                 new == tournaments'[t] IN
             /\ new.clubId = old.clubId
             /\ \A i \in 1..Len(old.revisions) : i <= Len(new.revisions) /\ new.revisions[i] = old.revisions[i]
             /\ new.revisions # old.revisions => old.status = "DRAFT"
             /\ old.approval # NoDecision => new.approval = old.approval
             /\ old.publication # NoDecision => new.publication = old.publication]_vars => [Final]_vars
      OBVIOUS
    <2> HIDE DEF Final
    <2> QED
      BY <2>1, LifecycleGoesOn, HistoryIsKept, PTL DEF HistoryIsImmutable
  <1>4. ASSUME LiveInv, LifecycleInv, LiveWasPublished, [LiveNext]_allVars, [Final]_vars PROVE LiveWasPublished'
    <2>1. ASSUME NEW t \in Tournaments, lives[t].on, tournaments' # tournaments
          PROVE  tournaments'[t].publication # NoDecision
      <3>1. tournaments[t].publication # NoDecision
        BY <1>4, <2>1 DEF LiveWasPublished
      <3>2. Exists(t)
        BY <1>4, <3>1 DEF LifecycleInv, Sound, DecisionsMatchStatus, Exists
      <3> QED
        BY <1>4, <2>1, <3>1, <3>2 DEF vars
    <2>2. CASE UNCHANGED liveVars
      BY <1>4, <2>1, <2>2 DEF LiveWasPublished, liveVars
    <2>3. ASSUME NEW actor \in Users, NEW u \in Tournaments, LiveCommand(actor, u)
          PROVE  LiveWasPublished'
      <3>1. CASE InitializeLiveOperations(actor, u)
        <4>1. /\ lives' = [lives EXCEPT ![u].on = TRUE] /\ tournaments' = tournaments
              /\ tournaments[u].status \in {"PUBLISHED", "LIVE"}
          BY <3>1 DEF InitializeLiveOperations, MayInitialize, IsOpen, vars
        <4>2. tournaments[u].publication # NoDecision
          BY <1>4, <4>1 DEF LifecycleInv, Sound, DecisionsMatchStatus
        <4>3. \A t \in Tournaments \ {u} : lives'[t] = lives[t]
          BY <1>4, <4>1 DEF LiveInv
        <4> QED
          BY <1>4, <4>1, <4>2, <4>3 DEF LiveWasPublished
      <3>2. CASE ~InitializeLiveOperations(actor, u)
        <4>1. tournaments' = tournaments /\ (lives' = lives \/ \E log : lives' = [lives EXCEPT ![u].log = log])
          BY <2>3, <3>2 DEF LiveCommand, ApplyLiveOperation, RecordScore, ProposeScheduleRepair,
                            DecideRepairProposal, ProposeLiveChange, DecideLiveChange, vars
        <4>2. \A t \in Tournaments : lives'[t].on = lives[t].on
          BY <1>4, <4>1 DEF LiveInv, Live
        <4> QED
          BY <1>4, <4>1, <4>2 DEF LiveWasPublished
      <3> QED
        BY <3>1, <3>2
    <2> QED
      BY <1>4, <2>2, <2>3 DEF LiveNext, allVars, liveVars
  <1> HIDE DEF Final
  <1> QED
    BY <1>1, <1>2, <1>3, <1>4, LiveInvariant, PTL DEF LiveSpec

(* The same as the runs check them. *)
THEOREM LiveGoverned == LiveSpec => []LiveIsGoverned
BY LiveTypeCorrect, ProposalsNeedTwo, LiveOnlyOncePublished, PTL DEF LiveIsGoverned

(* Both of the record of the day. *)
THEOREM DayRecorded == LiveSpec => DayIsOnRecord
BY ApprovalTakesEffect, RecordsAreKept DEF DayIsOnRecord
=============================================================================
