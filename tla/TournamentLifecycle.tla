------------------------ MODULE TournamentLifecycle -------------------------
(***************************************************************************)
(* The tournament commands of packages/competition-engine/src/platform.ts: *)
(* drafts and their revisions, guided creation, duplication, review,       *)
(* approval bound to compiled artifacts, publication and the life after    *)
(* it.  Composes OrganizationAccess, whose memberships decide who may act  *)
(* and whose clubs may be archived only when their tournaments are.        *)
(*                                                                         *)
(* External: the artifact resolver (options.publicationArtifacts).  It is  *)
(* awaited before the command is decided and nothing is known of it, so an *)
(* approval or publication may be given any artifact set at all: one of    *)
(* another revision, one compiled again since the approval, a broken one.  *)
(* Definitions and artifacts stand for their hashes.                       *)
(***************************************************************************)
EXTENDS OrganizationAccess, Sequences

CONSTANTS
  Tournaments,
  NoClub,
  Definitions,     \* tournament definitions
  Compilers,       \* who compiles artifacts: users, or a server identity
  Contents,        \* specification, graph and schedule of an artifact set
  Certified,       \* contents that pass Competition Guard
  GuidedSteps,     \* number of guided creation steps, the review being the last
  MaxRevisions     \* BOUND: revisions of one tournament

ASSUME LifecycleAssumption ==
  /\ Certified \subseteq Contents
  /\ GuidedSteps \in Nat \ {0}
  /\ MaxRevisions \in Nat \ {0}

VARIABLES tournaments, guides

vars == <<accessVars, tournaments, guides>>

Statuses == {"DRAFT", "UNDER_REVIEW", "APPROVED", "PUBLISHED", "LIVE", "COMPLETED", "ARCHIVED"}

Revision == [definition : Definitions, createdBy : Users]

Artifacts == [revision : Nat, definition : Definitions, compiledBy : Compilers, content : Contents]

(* approvedBy, approvedRevision, approvedDefinitionHash and the three      *)
(* hashes that are functions of the artifact set; likewise what the        *)
(* publication record and its certificate are bound to.                    *)
Decision == [by : Users, revision : Nat, definition : Definitions, artifacts : Artifacts]
NoDecision == [by |-> NoUser]

Tournament ==
  [status : Statuses \union {"NONE"}, clubId : Clubs \union {NoClub}, revisions : Seq(Revision),
   approval : Decision \union {NoDecision}, publication : Decision \union {NoDecision}]

Absent ==
  [status |-> "NONE", clubId |-> NoClub, revisions |-> <<>>, approval |-> NoDecision,
   publication |-> NoDecision]

-----------------------------------------------------------------------------
(* Helpers                                                                 *)

Exists(t) == tournaments[t].status # "NONE"
Latest(t) == tournaments[t].revisions[Len(tournaments[t].revisions)]

(* requireTournamentManager.                                               *)
ManagerRoles == {"CLUB_ADMIN", "TOURNAMENT_DIRECTOR"}

BugRequireTournamentManager(actor, clubId) ==
  \/ memberships[actor].role = "OWNER"
  \/ memberships[actor].role \in ManagerRoles /\ clubId \in memberships[actor].clubIds
RequireTournamentManager(actor, clubId) ==
  /\ memberships[actor].status = "ACTIVE"
  /\ \/ memberships[actor].role = "OWNER"
     \/ memberships[actor].role \in ManagerRoles /\ clubId \in memberships[actor].clubIds

(* A new draft with its first revision.                                    *)
Draft(clubId, revision) ==
  [Absent EXCEPT !.status = "DRAFT", !.clubId = clubId, !.revisions = <<revision>>]

(* independentlyEvaluateAuthoritativeArtifacts with its verdict: the set   *)
(* is of the latest revision and Guard passes it.                          *)
GuardPasses(t, a) ==
  /\ a.revision = Len(tournaments[t].revisions)
  /\ a.definition = Latest(t).definition
  /\ a.content \in Certified

(* The decision an approval or a publication by u on artifacts a records.  *)
DecisionOn(t, u, a) ==
  [by |-> u, revision |-> Len(tournaments[t].revisions), definition |-> Latest(t).definition, artifacts |-> a]

(* The transition table of CHANGE_TOURNAMENT_STATUS.                       *)
Allowed == [DRAFT |-> {"UNDER_REVIEW", "ARCHIVED"}, UNDER_REVIEW |-> {"DRAFT", "APPROVED", "ARCHIVED"},
            APPROVED |-> {"ARCHIVED"}, PUBLISHED |-> {"LIVE", "ARCHIVED"}, LIVE |-> {"COMPLETED"},
            COMPLETED |-> {"ARCHIVED"}, ARCHIVED |-> {}]

-----------------------------------------------------------------------------
(* CREATE_TOURNAMENT.                                                      *)
CreateTournament(actor, t, clubId, definition) ==
  /\ OrganizationIsActive
  /\ RequireTournamentManager(actor, clubId)
  /\ ~Exists(t)
  /\ clubs[clubId] = "ACTIVE"
  /\ tournaments' = [tournaments EXCEPT ![t] =
       Draft(clubId, [definition |-> definition, createdBy |-> actor])]
  /\ UNCHANGED <<accessVars, guides>>

(* REVISE_TOURNAMENT, of the revision the author saw.                      *)
BugMayRevise(t, expected) == tournaments[t].status \in {"DRAFT", "UNDER_REVIEW", "APPROVED"}
                             /\ Len(tournaments[t].revisions) = expected
MayRevise(t, expected) == tournaments[t].status = "DRAFT" /\ Len(tournaments[t].revisions) = expected

Revised(t, revision) == [tournaments EXCEPT ![t].revisions = Append(@, revision)]

ReviseTournament(actor, t, expected, definition) ==
  /\ OrganizationIsActive
  /\ Exists(t)
  /\ RequireTournamentManager(actor, tournaments[t].clubId)
  /\ MayRevise(t, expected)
  /\ Len(tournaments[t].revisions) < MaxRevisions
  /\ tournaments' = Revised(t, [definition |-> definition, createdBy |-> actor])
  /\ UNCHANGED <<accessVars, guides>>

(* DUPLICATE_TOURNAMENT: the latest definition becomes a new draft of the  *)
(* same club; no approval comes with it.  (The record of where it came     *)
(* from is read by nobody and is left out.)                                *)
DuplicateTournament(actor, source, t) ==
  /\ OrganizationIsActive
  /\ Exists(source)
  /\ RequireTournamentManager(actor, tournaments[source].clubId)
  /\ ~Exists(t)
  /\ tournaments' = [tournaments EXCEPT ![t] =
       Draft(tournaments[source].clubId,
             [definition |-> Latest(source).definition, createdBy |-> actor])]
  /\ UNCHANGED <<accessVars, guides>>

(* START_GUIDED_TOURNAMENT: a draft, with a guide at its first step.       *)
(* guides[t] is 0 without a guide, otherwise the step it expects next, and *)
(* GuidedSteps + 1 once it is complete.                                    *)
StartGuidedTournament(actor, t, clubId, definition) ==
  /\ OrganizationIsActive
  /\ RequireTournamentManager(actor, clubId)
  /\ ~Exists(t)
  /\ guides[t] = 0
  /\ clubs[clubId] = "ACTIVE"
  /\ tournaments' = [tournaments EXCEPT ![t] =
       Draft(clubId, [definition |-> definition, createdBy |-> actor])]
  /\ guides' = [guides EXCEPT ![t] = 1]
  /\ UNCHANGED accessVars

(* SAVE_GUIDED_STEP: the review appends the definition built from the      *)
(* other steps as a revision, in the same command.                         *)
SaveGuidedStep(actor, t, step, definition) ==
  /\ OrganizationIsActive
  /\ guides[t] \in 1..GuidedSteps
  /\ tournaments[t].status = "DRAFT"
  /\ RequireTournamentManager(actor, tournaments[t].clubId)
  /\ guides[t] = step
  /\ guides' = [guides EXCEPT ![t] = step + 1]
  /\ \/ /\ step < GuidedSteps
        /\ UNCHANGED tournaments
     \/ /\ step = GuidedSteps
        /\ Len(tournaments[t].revisions) < MaxRevisions
        /\ tournaments' = Revised(t, [definition |-> definition, createdBy |-> actor])
  /\ UNCHANGED accessVars

(* CHANGE_TOURNAMENT_STATUS, other than to APPROVED.                       *)
ChangeTournamentStatus(actor, t, status) ==
  /\ OrganizationIsActive
  /\ Exists(t)
  /\ RequireTournamentManager(actor, tournaments[t].clubId)
  /\ status \in Allowed[tournaments[t].status] \ {"APPROVED"}
  /\ tournaments' = [tournaments EXCEPT ![t].status = status]
  /\ UNCHANGED <<accessVars, guides>>

(* CHANGE_TOURNAMENT_STATUS to APPROVED, on the artifacts the resolver     *)
(* returned for the latest revision.                                       *)
BugIndependentApprover(actor, t, a) == a.compiledBy # actor
IndependentApprover(actor, t, a) == Latest(t).createdBy # actor /\ a.compiledBy # actor

ApproveTournament(actor, t, a) ==
  /\ OrganizationIsActive
  /\ Exists(t)
  /\ RequireTournamentManager(actor, tournaments[t].clubId)
  /\ "APPROVED" \in Allowed[tournaments[t].status]
  /\ IndependentApprover(actor, t, a)
  /\ GuardPasses(t, a)
  /\ tournaments' = [tournaments EXCEPT ![t].status = "APPROVED", ![t].approval = DecisionOn(t, actor, a)]
  /\ UNCHANGED <<accessVars, guides>>

ExactlyApproved(t, expected, a) ==
  /\ Len(tournaments[t].revisions) = expected
  /\ tournaments[t].approval.revision = expected
  /\ tournaments[t].approval.definition = Latest(t).definition
  /\ tournaments[t].approval.artifacts = a

PublishTournament(actor, t, expected, a) ==
  /\ OrganizationIsActive
  /\ tournaments[t].status = "APPROVED"
  /\ RequireTournamentManager(actor, tournaments[t].clubId)
  /\ tournaments[t].approval.by # actor
  /\ a.compiledBy # tournaments[t].approval.by
  /\ GuardPasses(t, a)
  /\ ExactlyApproved(t, expected, a)
  /\ tournaments' = [tournaments EXCEPT ![t].status = "PUBLISHED", ![t].publication = DecisionOn(t, actor, a)]
  /\ UNCHANGED <<accessVars, guides>>

(* UPDATE_CLUB with the tournaments it looks at.                           *)
OpenTournament(c) ==
  \E t \in Tournaments : Exists(t) /\ tournaments[t].clubId = c /\ tournaments[t].status # "ARCHIVED"

-----------------------------------------------------------------------------
LifecycleInit ==
  /\ Init
  /\ tournaments = [t \in Tournaments |-> Absent]
  /\ guides = [t \in Tournaments |-> 0]

(* The artifact sets a resolver may come up with for t.                    *)
Resolvable == [revision : 1..MaxRevisions, definition : Definitions, compiledBy : Compilers, content : Contents]

TournamentCommand(actor, t) ==
  \/ \E clubId \in Clubs, d \in Definitions : CreateTournament(actor, t, clubId, d)
  \/ \E expected \in 1..MaxRevisions, d \in Definitions : ReviseTournament(actor, t, expected, d)
  \/ \E source \in Tournaments : DuplicateTournament(actor, source, t)
  \/ \E clubId \in Clubs, d \in Definitions : StartGuidedTournament(actor, t, clubId, d)
  \/ \E step \in 1..GuidedSteps, d \in Definitions : SaveGuidedStep(actor, t, step, d)
  \/ \E status \in Statuses : ChangeTournamentStatus(actor, t, status)
  \/ \E a \in Resolvable : ApproveTournament(actor, t, a)
  \/ \E expected \in 1..MaxRevisions, a \in Resolvable : PublishTournament(actor, t, expected, a)

LifecycleNext ==
  \/ AccessCommand /\ UNCHANGED <<tournaments, guides>>
  \/ \E actor \in Users, c \in Clubs, status \in {"ACTIVE", "ARCHIVED"} :
       UpdateClub(actor, c, status, OpenTournament(c)) /\ UNCHANGED <<tournaments, guides>>
  \/ \E actor \in Users, t \in Tournaments : TournamentCommand(actor, t)

LifecycleSpec == LifecycleInit /\ [][LifecycleNext]_vars

-----------------------------------------------------------------------------
(* Properties                                                              *)

(* Every variable has its type; a tournament that exists has a revision.   *)
LifecycleTypeOK ==
  /\ guides \in [Tournaments -> 0..(GuidedSteps + 1)]
  /\ tournaments \in [Tournaments -> Tournament]
  /\ \A t \in Tournaments :
       /\ Exists(t) => tournaments[t].clubId \in Clubs
       /\ Exists(t) <=> tournaments[t].revisions # <<>>
       /\ guides[t] > 0 => Exists(t)

(* What stands approved is the latest revision, on artifacts compiled from *)
(* exactly that revision and passed by Guard: no draft change can slip in  *)
(* between the approval and anything that relies on it.                    *)
PastApproval == {"APPROVED", "PUBLISHED", "LIVE", "COMPLETED"}

ApprovalIsCurrent ==
  \A t \in Tournaments : tournaments[t].status \in PastApproval =>
    LET approval == tournaments[t].approval IN
    /\ approval # NoDecision
    /\ approval.revision = Len(tournaments[t].revisions)
    /\ approval.definition = Latest(t).definition
    /\ GuardPasses(t, approval.artifacts)

(* "Approved revision cannot differ from published revision": what was     *)
(* published is what was approved, to the last artifact, whatever the      *)
(* resolver returned at either time.                                       *)
PublishedIsApproved ==
  \A t \in Tournaments : tournaments[t].publication # NoDecision =>
    LET approval == tournaments[t].approval
        publication == tournaments[t].publication IN
    /\ approval # NoDecision
    /\ publication.revision = approval.revision
    /\ publication.definition = approval.definition
    /\ publication.artifacts = approval.artifacts

(* Nobody approves a revision they wrote or artifacts they compiled, and   *)
(* nobody publishes what they approved, in whatever order memberships,     *)
(* revisions and approvals change.                                         *)
SeparationOfDuties ==
  \A t \in Tournaments :
    LET approval == tournaments[t].approval
        publication == tournaments[t].publication IN
    /\ approval # NoDecision =>
         /\ approval.by # tournaments[t].revisions[approval.revision].createdBy
         /\ approval.by # approval.artifacts.compiledBy
    /\ publication # NoDecision => publication.by # approval.by

(* Revisions are immutable and only ever added to a draft; approvals and   *)
(* publications are never taken back or replaced.                          *)
HistoryIsImmutable ==
  [][\A t \in Tournaments : Exists(t) =>
       LET old == tournaments[t]
           new == tournaments'[t] IN
       /\ new.clubId = old.clubId
       /\ \A i \in 1..Len(old.revisions) : i <= Len(new.revisions) /\ new.revisions[i] = old.revisions[i]
       /\ new.revisions # old.revisions => old.status = "DRAFT"
       /\ old.approval # NoDecision => new.approval = old.approval
       /\ old.publication # NoDecision => new.publication = old.publication]_vars

(* A revoked or suspended member, or one whose scope lies elsewhere, can   *)
(* neither approve nor publish nor touch a tournament: whoever takes a     *)
(* decision manages its club at that moment, and nothing about tournaments *)
(* changes in a suspended organization.                                    *)
OnlyCurrentManagersDecide ==
  [][/\ tournaments' # tournaments => organization = "ACTIVE"
     /\ \A t \in Tournaments :
          LET manages(u) == \/ IsActiveOwner(u)
                            \/ /\ memberships[u].status = "ACTIVE"
                               /\ tournaments'[t].clubId \in memberships[u].clubIds
          IN  /\ Len(tournaments'[t].revisions) > Len(tournaments[t].revisions)
                   => manages(tournaments'[t].revisions[Len(tournaments'[t].revisions)].createdBy)
              /\ tournaments'[t].approval # tournaments[t].approval => manages(tournaments'[t].approval.by)
              /\ tournaments'[t].publication # tournaments[t].publication => manages(tournaments'[t].publication.by)
    ]_vars

(* Nothing slips in between review and publication: what stands approved   *)
(* is the latest revision, and what is published is what was approved.     *)
ApprovalGoverns == ApprovalIsCurrent /\ PublishedIsApproved

(* The record of decisions: revisions, approvals and publications are      *)
(* never rewritten, and were made by people who managed the club then.     *)
DecisionsAreKept == HistoryIsImmutable /\ OnlyCurrentManagersDecide
=============================================================================
