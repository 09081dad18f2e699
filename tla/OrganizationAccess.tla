------------------------- MODULE OrganizationAccess -------------------------
(***************************************************************************)
(* Who may act in an organization: the commands of                         *)
(* packages/competition-engine/src/platform.ts that create and change the  *)
(* organization, its clubs, memberships, invitations and accounts.         *)
(*                                                                         *)
(* Each command is one atomic step: execute appends its events at exactly  *)
(* the version of the state they were decided on (module CommandExecution  *)
(* models that protocol).  A command that is refused changes nothing and   *)
(* has no step.  Names, slugs, time zones and other text that is only      *)
(* validated are left out.  Invitations and recovery requests carry a      *)
(* secret each, so presenting the secret is naming the request; one that   *)
(* has expired is one that nobody uses any more.                           *)
(***************************************************************************)
EXTENDS Integers, FiniteSets

CONSTANTS
  Users,
  Clubs,
  Invitations,   \* invitation identities
  Recoveries,    \* recovery request identities
  Emails,
  NoEmail,       \* null
  NoUser,        \* an absent acceptedByUserId
  Roles          \* the roles in use, "OWNER" among them

AllRoles == {"OWNER", "CLUB_ADMIN", "TOURNAMENT_DIRECTOR", "OPERATOR", "OFFICIAL", "VIEWER"}

ASSUME AccessAssumption ==
  /\ IsFiniteSet(Users)
  /\ IsFiniteSet(Invitations)
  /\ IsFiniteSet(Recoveries)
  /\ NoEmail \notin Emails
  /\ NoUser \notin Users
  /\ "OWNER" \in Roles
  /\ Roles \subseteq AllRoles

VARIABLES
  organization,  \* its status
  clubs,         \* the status of each club
  memberships,   \* role, scope and status of each user
  accounts,      \* status, email and credential version of each user
  invitations,
  recoveries

accessVars == <<organization, clubs, memberships, accounts, invitations, recoveries>>

Membership ==
  [role : Roles, clubIds : SUBSET Clubs, status : {"ACTIVE", "SUSPENDED"}]
NoMembership == [role |-> "NONE", clubIds |-> {}, status |-> "NONE"]

Account == [status : {"ACTIVE", "ANONYMIZED"}, email : Emails \union {NoEmail}, credentialVersion : Nat]
NoAccount == [status |-> "NONE", email |-> NoEmail, credentialVersion |-> 0]

Invitation ==
  [status : {"PENDING", "ACCEPTED", "REVOKED"}, email : Emails, role : Roles,
   clubIds : SUBSET Clubs, acceptedBy : Users \union {NoUser}]
NoInvitation ==
  [status |-> "NONE", email |-> NoEmail, role |-> "NONE", clubIds |-> {}, acceptedBy |-> NoUser]

Recovery == [status : {"PENDING", "COMPLETED"}, user : Users]
NoRecovery == [status |-> "NONE", user |-> NoUser]

-----------------------------------------------------------------------------
(* Authority                                                               *)

IsMember(u) == memberships[u].status # "NONE"
IsActiveOwner(u) == memberships[u].status = "ACTIVE" /\ memberships[u].role = "OWNER"
ActiveOwners == {u \in Users : IsActiveOwner(u)}

(* requireOwner.                                                           *)
RequireOwner(actor) == IsActiveOwner(actor)

(* The scope a role is given: none for an owner, at least one club for     *)
(* everybody else, all of them active.                                     *)
ValidScope(role, clubIds) ==
  IF role = "OWNER" THEN clubIds = {}
  ELSE clubIds # {} /\ \A c \in clubIds : clubs[c] = "ACTIVE"

(* Every command but CREATE_ORGANIZATION and UPDATE_ORGANIZATION.          *)
OrganizationIsActive == organization = "ACTIVE"

-----------------------------------------------------------------------------
(* CREATE_ORGANIZATION: with its owner, and the owner's account.           *)
CreateOrganization(owner, email) ==
  /\ organization = "NONE"
  /\ organization' = "ACTIVE"
  /\ memberships' = [u \in Users |->
       IF u = owner THEN [role |-> "OWNER", clubIds |-> {}, status |-> "ACTIVE"] ELSE NoMembership]
  /\ accounts' = [u \in Users |->
       IF u = owner THEN [status |-> "ACTIVE", email |-> email, credentialVersion |-> 1] ELSE NoAccount]
  /\ UNCHANGED <<clubs, invitations, recoveries>>

(* UPDATE_ORGANIZATION: an owner may do it in a suspended organization.    *)
UpdateOrganization(actor, status) ==
  /\ organization # "NONE"
  /\ RequireOwner(actor)
  /\ organization' = status
  /\ UNCHANGED <<clubs, memberships, accounts, invitations, recoveries>>

CreateClub(actor, c) ==
  /\ OrganizationIsActive
  /\ RequireOwner(actor)
  /\ clubs[c] = "NONE"
  /\ clubs' = [clubs EXCEPT ![c] = "ACTIVE"]
  /\ UNCHANGED <<organization, memberships, accounts, invitations, recoveries>>

(* UPDATE_CLUB: `open` says whether some tournament of the club is not     *)
(* ARCHIVED, which is for the module that has tournaments to say.          *)
UpdateClub(actor, c, status, open) ==
  /\ OrganizationIsActive
  /\ RequireOwner(actor)
  /\ clubs[c] # "NONE"
  /\ status = "ARCHIVED" => ~open
  /\ clubs' = [clubs EXCEPT ![c] = status]
  /\ UNCHANGED <<organization, memberships, accounts, invitations, recoveries>>

InviteMember(actor, i, email, role, clubIds) ==
  /\ OrganizationIsActive
  /\ RequireOwner(actor)
  /\ invitations[i] = NoInvitation
  /\ ValidScope(role, clubIds)
  /\ invitations' = [invitations EXCEPT ![i] =
       [status |-> "PENDING", email |-> email, role |-> role, clubIds |-> clubIds, acceptedBy |-> NoUser]]
  /\ UNCHANGED <<organization, clubs, memberships, accounts, recoveries>>

RevokeInvitation(actor, i) ==
  /\ OrganizationIsActive
  /\ RequireOwner(actor)
  /\ invitations[i].status = "PENDING"
  /\ invitations' = [invitations EXCEPT ![i].status = "REVOKED"]
  /\ UNCHANGED <<organization, clubs, memberships, accounts, recoveries>>

(* ACCEPT_INVITATION makes a member of a user who is none.                 *)
MayAccept(u, i) == invitations[i].status = "PENDING" /\ ~IsMember(u)

AcceptInvitation(u, i) ==
  /\ OrganizationIsActive
  /\ MayAccept(u, i)
  /\ invitations' = [invitations EXCEPT ![i].status = "ACCEPTED", ![i].acceptedBy = u]
  /\ memberships' = [memberships EXCEPT ![u] =
       [role |-> invitations[i].role, clubIds |-> invitations[i].clubIds, status |-> "ACTIVE"]]
  /\ accounts' = [accounts EXCEPT ![u] =
       [status |-> "ACTIVE", email |-> invitations[i].email, credentialVersion |-> 1]]
  /\ UNCHANGED <<organization, clubs, recoveries>>

(* CHANGE_MEMBERSHIP, by an owner, possibly of the owner's own membership. *)
OtherActiveOwner(u) == \E v \in Users : v # u /\ IsActiveOwner(v)

BugKeepsAnOwner(u, role, status) == role # "OWNER" \/ status = "ACTIVE" \/ OtherActiveOwner(u)
KeepsAnOwner(u, role, status) ==
  IsActiveOwner(u) /\ (role # "OWNER" \/ status # "ACTIVE") => OtherActiveOwner(u)

ChangeMembership(actor, u, role, clubIds, status) ==
  /\ OrganizationIsActive
  /\ RequireOwner(actor)
  /\ IsMember(u)
  /\ accounts[u].status # "NONE"
  /\ ValidScope(role, clubIds)
  /\ KeepsAnOwner(u, role, status)
  /\ memberships' = [memberships EXCEPT ![u] = [role |-> role, clubIds |-> clubIds, status |-> status]]
  /\ UNCHANGED <<organization, clubs, accounts, invitations, recoveries>>

(* REQUEST_ACCOUNT_RECOVERY names the account by its email.                *)
RequestAccountRecovery(r, email) ==
  /\ OrganizationIsActive
  /\ recoveries[r] = NoRecovery
  /\ \E u \in Users :
       /\ accounts[u].status = "ACTIVE" /\ accounts[u].email = email
       /\ recoveries' = [recoveries EXCEPT ![r] = [status |-> "PENDING", user |-> u]]
  /\ UNCHANGED <<organization, clubs, memberships, accounts, invitations>>

RecoveryOpen(u, r) == recoveries[r].status = "PENDING" /\ recoveries[r].user = u

CompleteAccountRecovery(u, r) ==
  /\ OrganizationIsActive
  /\ RecoveryOpen(u, r)
  /\ accounts[u].status = "ACTIVE"
  /\ recoveries' = [recoveries EXCEPT ![r].status = "COMPLETED"]
  /\ accounts' = [accounts EXCEPT ![u].credentialVersion = @ + 1]
  /\ UNCHANGED <<organization, clubs, memberships, invitations>>

(* DELETE_ACCOUNT, of oneself or by an owner: the account is anonymized    *)
(* and the membership suspended.                                           *)
SoleOwner(u) == memberships[u].role = "OWNER" /\ Cardinality(ActiveOwners) = 1

DeleteAccount(actor, u) ==
  /\ OrganizationIsActive
  /\ memberships[actor].status = "ACTIVE"
  /\ IsMember(u)
  /\ accounts[u].status = "ACTIVE"
  /\ actor # u => memberships[actor].role = "OWNER"
  /\ ~SoleOwner(u)
  /\ accounts' = [accounts EXCEPT ![u].status = "ANONYMIZED", ![u].email = NoEmail]
  /\ memberships' = [memberships EXCEPT ![u].status = "SUSPENDED"]
  /\ UNCHANGED <<organization, clubs, invitations, recoveries>>

-----------------------------------------------------------------------------
Init ==
  /\ organization = "NONE"
  /\ clubs = [c \in Clubs |-> "NONE"]
  /\ memberships = [u \in Users |-> NoMembership]
  /\ accounts = [u \in Users |-> NoAccount]
  /\ invitations = [i \in Invitations |-> NoInvitation]
  /\ recoveries = [r \in Recoveries |-> NoRecovery]

(* The commands that do not depend on tournaments.                         *)
AccessCommand ==
  \/ \E u \in Users, email \in Emails \union {NoEmail} : CreateOrganization(u, email)
  \/ \E actor \in Users, status \in {"ACTIVE", "SUSPENDED"} : UpdateOrganization(actor, status)
  \/ \E actor \in Users, c \in Clubs : CreateClub(actor, c)
  \/ \E actor \in Users, i \in Invitations, email \in Emails, role \in Roles, clubIds \in SUBSET Clubs :
       InviteMember(actor, i, email, role, clubIds)
  \/ \E actor \in Users, i \in Invitations : RevokeInvitation(actor, i)
  \/ \E u \in Users, i \in Invitations : AcceptInvitation(u, i)
  \/ \E actor, u \in Users, role \in Roles, clubIds \in SUBSET Clubs, status \in {"ACTIVE", "SUSPENDED"} :
       ChangeMembership(actor, u, role, clubIds, status)
  \/ \E r \in Recoveries, email \in Emails : RequestAccountRecovery(r, email)
  \/ \E u \in Users, r \in Recoveries : CompleteAccountRecovery(u, r)
  \/ \E actor, u \in Users : DeleteAccount(actor, u)

Next ==
  \/ AccessCommand
  \/ \E actor \in Users, c \in Clubs, status \in {"ACTIVE", "ARCHIVED"}, open \in BOOLEAN :
       UpdateClub(actor, c, status, open)

Spec == Init /\ [][Next]_accessVars

-----------------------------------------------------------------------------
(* Properties                                                              *)

(* Every variable has its type, and members have accounts.                 *)
TypeOK ==
  /\ organization \in {"NONE", "ACTIVE", "SUSPENDED"}
  /\ clubs \in [Clubs -> {"NONE", "ACTIVE", "ARCHIVED"}]
  /\ memberships \in [Users -> Membership \union {NoMembership}]
  /\ accounts \in [Users -> Account \union {NoAccount}]
  /\ invitations \in [Invitations -> Invitation \union {NoInvitation}]
  /\ recoveries \in [Recoveries -> Recovery \union {NoRecovery}]
  /\ \A u \in Users : IsMember(u) <=> accounts[u].status # "NONE"

(* "The organization must retain an active owner": no sequence of role     *)
(* changes, suspensions and account deletions, of oneself or of others,    *)
(* leaves an organization that nobody can administer.                      *)
AlwaysAnActiveOwner == organization # "NONE" => ActiveOwners # {}

(* Apart from the founder, every member came in by an invitation of their  *)
(* own: an invitation makes one member, once, and no other command makes   *)
(* members.                                                                *)
Members == {u \in Users : IsMember(u)}
Accepted == {i \in Invitations : invitations[i].status = "ACCEPTED"}

MembersWereInvited ==
  organization # "NONE" => Cardinality(Members) = 1 + Cardinality(Accepted)

(* docs/production-runbook.md calls recovery secrets single-use: the       *)
(* credential version of an account counts the recoveries completed for it *)
(* and nothing else.                                                       *)
RecoveryIsSingleUse ==
  \A u \in Users : IsMember(u) =>
    accounts[u].credentialVersion =
      1 + Cardinality({r \in Recoveries : recoveries[r].status = "COMPLETED" /\ recoveries[r].user = u})

(* While the organization is suspended its state stands still; the only    *)
(* thing that can happen is that an owner lifts the suspension.            *)
SuspendedIsFrozen ==
  [][organization = "SUSPENDED" =>
       UNCHANGED <<clubs, memberships, accounts, invitations, recoveries>>]_accessVars

(* Nobody locks an organization out or gets into it by a back door: an     *)
(* owner remains, members came by an invitation of their own, and every    *)
(* recovery worked once.                                                   *)
AccessIsKept == AlwaysAnActiveOwner /\ MembersWereInvited /\ RecoveryIsSingleUse
=============================================================================
