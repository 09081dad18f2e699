--------------------------- MODULE MCLiveControl ----------------------------
(* Small instances of LiveControl for TLC.                                 *)
EXTENDS LiveControl, TLC

CONSTANT Server

(* The eve of the event: an owner created the tournament, the server       *)
(* compiled it and another owner approved it.  All invitations are used.   *)
EventDay ==
  \E author, approver \in Users, clubId \in Clubs, d \in Definitions, x \in Certified, email \in Emails :
    LET a == [revision |-> 1, definition |-> d, compiledBy |-> Server, content |-> x]
    IN  /\ author # approver
        /\ organization = "ACTIVE"
        /\ clubs = [c \in Clubs |-> "ACTIVE"]
        /\ memberships = [u \in Users |-> [role |-> "OWNER", clubIds |-> {}, status |-> "ACTIVE"]]
        /\ accounts = [u \in Users |-> [status |-> "ACTIVE", email |-> email, credentialVersion |-> 1]]
        /\ invitations = [i \in Invitations |->
             [status |-> "ACCEPTED", email |-> email, role |-> "OWNER", clubIds |-> {}, acceptedBy |-> approver]]
        /\ recoveries = [r \in Recoveries |-> NoRecovery]
        /\ tournaments = [t \in Tournaments |->
             [status |-> "APPROVED", clubId |-> clubId,
              revisions |-> <<[definition |-> d, createdBy |-> author]>>,
              approval |-> [by |-> approver, revision |-> 1, definition |-> d, artifacts |-> a],
              publication |-> NoDecision]]
        /\ guides = [t \in Tournaments |-> 0]
        /\ lives = [t \in Tournaments |-> [on |-> FALSE, log |-> <<>>]]
        /\ scores = [t \in Tournaments |-> [c \in Contests |-> <<>>]]
        /\ changes = [p \in Changes |-> NoChange]
        /\ repairs = [r \in Repairs |-> NoRepair]

(* The scope a role is given: the whole organization or its clubs.         *)
Scope(role) == IF role = "OWNER" THEN {} ELSE Clubs

(* What goes on besides the live commands: members are demoted and         *)
(* promoted, the tournament is published and moves on.                     *)
EventDayNext ==
  \/ /\ \/ \E actor, u \in Users, role \in Roles :
             ChangeMembership(actor, u, role, Scope(role), "ACTIVE") /\ UNCHANGED <<tournaments, guides>>
        \/ \E actor \in Users, t \in Tournaments, a \in Resolvable : PublishTournament(actor, t, 1, a)
        \/ \E actor \in Users, t \in Tournaments, status \in Statuses : ChangeTournamentStatus(actor, t, status)
     /\ UNCHANGED liveVars
  \/ \E actor \in Users, t \in Tournaments : LiveCommand(actor, t)

EventDaySpec == EventDay /\ [][EventDayNext]_allVars

(* The contest is settled when its completion came last.                    *)
SettledByCompletion == [x \in LiveContents |-> IF x = "COMPLETE" THEN Contests ELSE {}]

(* BOUND: repairs and live changes, which do not touch each other, are     *)
(* followed together for one step only.                                    *)
OneKindOfProposal == (\E r \in Repairs : repairs[r] # NoRepair) => \A p \in Changes : changes[p] = NoChange

LiveSymmetry == Permutations(Users) \union Permutations(Changes) \union Permutations(LiveIds)
=============================================================================
