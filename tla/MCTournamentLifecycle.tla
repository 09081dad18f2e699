----------------------- MODULE MCTournamentLifecycle ------------------------
(* Small instances of TournamentLifecycle for TLC, of two kinds: an        *)
(* organization from its foundation, of three users, and the tournaments   *)
(* of one that is staffed, by two.                                         *)
EXTENDS TournamentLifecycle, TLC

CONSTANT Staff           \* the users of a staffed organization

VARIABLE scene
sceneVars == <<vars, scene>>

Founding == scene = "founding" /\ LifecycleInit

(* An organization with its club and its staff: the founder has created    *)
(* the club and invited every other one of the staff as an owner, and they *)
(* have accepted; the other invitations were revoked.                      *)
Staffed ==
  \E founder \in Staff : \E used \in [Staff \ {founder} -> Invitations], email \in Emails :
    /\ \A u, w \in Staff \ {founder} : used[u] = used[w] => u = w
    /\ scene = "staffed"
    /\ organization = "ACTIVE"
    /\ clubs = [c \in Clubs |-> "ACTIVE"]
    /\ memberships = [u \in Users |-> IF u \in Staff THEN [role |-> "OWNER", clubIds |-> {}, status |-> "ACTIVE"]
                                                     ELSE NoMembership]
    /\ accounts = [u \in Users |-> IF u \in Staff THEN [status |-> "ACTIVE", email |-> email, credentialVersion |-> 1]
                                                  ELSE NoAccount]
    /\ invitations = [i \in Invitations |->
         IF \E u \in Staff \ {founder} : used[u] = i
         THEN [status |-> "ACCEPTED", email |-> email, role |-> "OWNER", clubIds |-> {},
               acceptedBy |-> CHOOSE u \in Staff \ {founder} : used[u] = i]
         ELSE [status |-> "REVOKED", email |-> email, role |-> "OWNER", clubIds |-> {}, acceptedBy |-> NoUser]]
    /\ recoveries = [r \in Recoveries |-> NoRecovery]
    /\ tournaments = [t \in Tournaments |-> Absent]
    /\ guides = [t \in Tournaments |-> 0]

(* Without tournaments, every command of the organization.                 *)
FoundingNext ==
  /\ \/ AccessCommand
     \/ \E actor \in Users, c \in Clubs, status \in {"ACTIVE", "ARCHIVED"} :
          UpdateClub(actor, c, status, OpenTournament(c))
  /\ UNCHANGED <<tournaments, guides>>

(* With all invitations used, what is left of the access commands besides  *)
(* account deletion and recovery, which the founding covers.               *)
StaffedNext ==
  \/ /\ \/ \E actor \in Staff, status \in {"ACTIVE", "SUSPENDED"} : UpdateOrganization(actor, status)
        \/ \E actor, u \in Staff, clubIds \in SUBSET Clubs, status \in {"ACTIVE", "SUSPENDED"} :
             ChangeMembership(actor, u, "OWNER", clubIds, status)
        \/ \E actor \in Staff, c \in Clubs, status \in {"ACTIVE", "ARCHIVED"} :
             UpdateClub(actor, c, status, OpenTournament(c))
     /\ UNCHANGED <<tournaments, guides>>
  \/ \E actor \in Staff, t \in Tournaments : TournamentCommand(actor, t)

ScenesNext ==
  /\ \/ scene = "founding" /\ FoundingNext
     \/ scene = "staffed" /\ StaffedNext
  /\ UNCHANGED scene

ScenesSpec == (Founding \/ Staffed) /\ [][ScenesNext]_sceneVars

LifecycleSymmetry ==
  {p @@ q @@ r @@ s : p \in Permutations(Staff), q \in Permutations(Tournaments),
                      r \in Permutations(Recoveries), s \in Permutations(Invitations)}
=============================================================================
