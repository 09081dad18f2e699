---------------------------- MODULE LiveControl -----------------------------
(***************************************************************************)
(* The live commands of packages/competition-engine/src/platform.ts with   *)
(* the proposals of live-change.ts: the event-day log of a published       *)
(* tournament, live changes that are proposed on a copy of it and decided  *)
(* later, schedule repairs, and score records.  Composes                   *)
(* TournamentLifecycle, whose commands go on meanwhile.                    *)
(*                                                                         *)
(* What a live command does is LiveOperations; here a log entry is an      *)
(* identified command with its content and author, and the proof hash of a *)
(* live state is its log.  External: schedule-repair.ts, which either      *)
(* proves a minimal repair or does not.                                    *)
(***************************************************************************)
EXTENDS TournamentLifecycle

CONSTANTS
  LiveIds,         \* identities of live commands
  LiveContents,    \* what a live command says
  Contests,
  Entrants,        \* the entrants of a contest
  SettledBy,       \* the contests that are settled when a content came last
  Changes,         \* identities of live change proposals
  Repairs,         \* identities of repair proposals
  MaxLive,         \* BOUND: events of one live log
  MaxScores        \* BOUND: revisions of one score

ASSUME LiveAssumption ==
  /\ SettledBy \in [LiveContents -> SUBSET Contests]
  /\ MaxLive \in Nat
  /\ MaxScores \in Nat

VARIABLES
  lives,     \* of each tournament, whether live operations are initialized, and their log
  scores,    \* of each contest of a tournament, the revisions of its score
  changes,   \* live change proposals
  repairs    \* schedule repair proposals

liveVars == <<lives, scores, changes, repairs>>
allVars == <<vars, liveVars>>

Entry == [id : LiveIds, content : LiveContents, by : Users]
Live == [on : BOOLEAN, log : Seq(Entry)]
ScoreRevision == [winner : Entrants, by : Users, correction : BOOLEAN]

Change ==
  [status : {"NONE", "READY_FOR_APPROVAL", "BLOCKED", "APPROVED", "REJECTED"}, tournament : Tournaments,
   by : Users, base : Seq(Entry), proposed : Seq(Entry), decidedBy : Users \union {NoUser}]
NoChange == [status |-> "NONE"]

Repair ==
  [status : {"PROPOSED", "APPROVED", "REJECTED"}, tournament : Tournaments, by : Users, proven : BOOLEAN,
   decidedBy : Users \union {NoUser}]
NoRepair == [status |-> "NONE"]

-----------------------------------------------------------------------------
(* Helpers                                                                 *)

(* requireOperator.                                                        *)
RequireOperator(actor, t) ==
  /\ memberships[actor].status = "ACTIVE"
  /\ \/ memberships[actor].role = "OWNER"
     \/ /\ memberships[actor].role \in ManagerRoles \union {"OPERATOR"}
        /\ tournaments[t].clubId \in memberships[actor].clubIds

OperatorActs(actor, t) == OrganizationIsActive /\ Exists(t) /\ RequireOperator(actor, t)
ManagerActs(actor, t) == OrganizationIsActive /\ Exists(t) /\ RequireTournamentManager(actor, tournaments[t].clubId)

IsOpen(t) == tournaments[t].status \in {"PUBLISHED", "LIVE"}
SettledIn(log) == IF log = <<>> THEN {} ELSE SettledBy[log[Len(log)].content]

(* submitLiveOperationsCommand: the logs it may answer with.  A command    *)
(* that is already there leaves the log as it is; its identity with other  *)
(* content is refused, as is another version than the current one.         *)
Prior(log, id) == {i \in DOMAIN log : log[i].id = id}
BugSubmitted(log, entry, expected) ==
  {next \in {Append(log, entry)} : expected = Len(log)}
Submitted(log, entry, expected) ==
  {next \in {log} : \E i \in Prior(log, entry.id) : log[i] = entry}
    \union {next \in {Append(log, entry)} : Prior(log, entry.id) = {} /\ expected = Len(log)}

-----------------------------------------------------------------------------
(* INITIALIZE_LIVE_OPERATIONS.                                             *)
BugMayInitialize(t) == ~lives[t].on
MayInitialize(t) == IsOpen(t) /\ ~lives[t].on

InitializeLiveOperations(actor, t) ==
  /\ OperatorActs(actor, t)
  /\ MayInitialize(t)
  /\ lives' = [lives EXCEPT ![t].on = TRUE]
  /\ UNCHANGED <<vars, scores, changes, repairs>>

(* APPLY_LIVE_OPERATION.                                                   *)
ApplyLiveOperation(actor, t, id, content, expected) ==
  /\ lives[t].on
  /\ OperatorActs(actor, t)
  /\ \E next \in Submitted(lives[t].log, [id |-> id, content |-> content, by |-> actor], expected) :
       /\ Len(next) <= MaxLive
       /\ lives' = [lives EXCEPT ![t].log = next]
  /\ UNCHANGED <<vars, scores, changes, repairs>>

(* RECORD_SCORE, of a settled contest and of the revision the author saw.  *)
RecordScore(actor, t, c, winner, correction, expected) ==
  /\ lives[t].on
  /\ OperatorActs(actor, t)
  /\ c \in SettledIn(lives[t].log)
  /\ Len(scores[t][c]) = expected
  /\ expected > 0 => correction
  /\ expected < MaxScores
  /\ scores' = [scores EXCEPT ![t][c] = Append(@, [winner |-> winner, by |-> actor, correction |-> correction])]
  /\ UNCHANGED <<vars, lives, changes, repairs>>

(* PROPOSE_SCHEDULE_REPAIR: proven says whether the planner's result is an *)
(* optimal repair.                                                         *)
ProposeScheduleRepair(actor, t, r, proven) ==
  /\ OperatorActs(actor, t)
  /\ repairs[r] = NoRepair
  /\ repairs' = [repairs EXCEPT ![r] =
       [status |-> "PROPOSED", tournament |-> t, by |-> actor, proven |-> proven, decidedBy |-> NoUser]]
  /\ UNCHANGED <<vars, lives, scores, changes>>

(* DECIDE_REPAIR_PROPOSAL.                                                 *)
BugMayDecideRepair(actor, t, r, decision) == decision = "APPROVED" => repairs[r].proven
MayDecideRepair(actor, t, r, decision) ==
  /\ repairs[r].by # actor
  /\ decision = "APPROVED" => repairs[r].proven

DecideRepairProposal(actor, t, r, decision) ==
  /\ repairs[r].status = "PROPOSED" /\ repairs[r].tournament = t
  /\ ManagerActs(actor, t)
  /\ MayDecideRepair(actor, t, r, decision)
  /\ repairs' = [repairs EXCEPT ![r].status = decision, ![r].decidedBy = actor]
  /\ UNCHANGED <<vars, lives, scores, changes>>

(* PROPOSE_LIVE_CHANGE: proposeLiveChange submits the command to a copy of *)
(* the live state and plans a repair; without both it is BLOCKED.          *)
ProposeLiveChange(actor, t, p, id, content, expected, proven) ==
  /\ IsOpen(t) /\ lives[t].on
  /\ OperatorActs(actor, t)
  /\ changes[p] = NoChange
  /\ LET log == lives[t].log
         submitted == Submitted(log, [id |-> id, content |-> content, by |-> actor], expected)
         proposal(status, proposed) ==
           [status |-> status, tournament |-> t, by |-> actor, base |-> log, proposed |-> proposed, decidedBy |-> NoUser]
     IN  \/ /\ proven
            /\ \E next \in submitted :
                 Len(next) <= MaxLive /\ changes' = [changes EXCEPT ![p] = proposal("READY_FOR_APPROVAL", next)]
         \/ /\ ~proven \/ submitted = {}
            /\ changes' = [changes EXCEPT ![p] = proposal("BLOCKED", <<>>)]
  /\ UNCHANGED <<vars, lives, scores, repairs>>

(* DECIDE_LIVE_CHANGE: approval puts the proposed state in the place of    *)
(* the current one, in the same append (approveLiveChange).                *)
BugIsFresh(t, p) == IsOpen(t)
IsFresh(t, p) == lives[t].log = changes[p].base

MayApprove(actor, p) == changes[p].by # actor

DecideLiveChange(actor, t, p, decision) ==
  /\ lives[t].on
  /\ changes[p].status = "READY_FOR_APPROVAL" /\ changes[p].tournament = t
  /\ ManagerActs(actor, t)
  /\ IsFresh(t, p)
  /\ changes' = [changes EXCEPT ![p].status = decision, ![p].decidedBy = actor]
  /\ \/ decision = "REJECTED" /\ UNCHANGED lives
     \/ /\ decision = "APPROVED"
        /\ MayApprove(actor, p)
        /\ lives' = [lives EXCEPT ![t].log = changes[p].proposed]
  /\ UNCHANGED <<vars, scores, repairs>>

-----------------------------------------------------------------------------
LiveInit ==
  /\ LifecycleInit
  /\ lives = [t \in Tournaments |-> [on |-> FALSE, log |-> <<>>]]
  /\ scores = [t \in Tournaments |-> [c \in Contests |-> <<>>]]
  /\ changes = [p \in Changes |-> NoChange]
  /\ repairs = [r \in Repairs |-> NoRepair]

Decisions == {"APPROVED", "REJECTED"}

LiveCommand(actor, t) ==
  \/ InitializeLiveOperations(actor, t)
  \/ \E id \in LiveIds, content \in LiveContents, expected \in 0..MaxLive :
       ApplyLiveOperation(actor, t, id, content, expected)
  \/ \E c \in Contests, winner \in Entrants, correction \in BOOLEAN, expected \in 0..MaxScores :
       RecordScore(actor, t, c, winner, correction, expected)
  \/ \E r \in Repairs, proven \in BOOLEAN : ProposeScheduleRepair(actor, t, r, proven)
  \/ \E r \in Repairs, decision \in Decisions : DecideRepairProposal(actor, t, r, decision)
  \/ \E p \in Changes, id \in LiveIds, content \in LiveContents, expected \in 0..MaxLive, proven \in BOOLEAN :
       ProposeLiveChange(actor, t, p, id, content, expected, proven)
  \/ \E p \in Changes, decision \in Decisions : DecideLiveChange(actor, t, p, decision)

LiveNext ==
  \/ LifecycleNext /\ UNCHANGED liveVars
  \/ \E actor \in Users, t \in Tournaments : LiveCommand(actor, t)

LiveSpec == LiveInit /\ [][LiveNext]_allVars

-----------------------------------------------------------------------------
(* Properties                                                              *)

IsPrefixOf(s, u) == Len(s) <= Len(u) /\ \A i \in 1..Len(s) : u[i] = s[i]

(* The records have their types, and a proposal that can be approved adds  *)
(* at most one event to the log it was made on, which the tournament has   *)
(* had.                                                                    *)
LiveTypeOK ==
  /\ lives \in [Tournaments -> Live]
  /\ scores \in [Tournaments -> [Contests -> Seq(ScoreRevision)]]
  /\ changes \in [Changes -> Change \union {NoChange}]
  /\ repairs \in [Repairs -> Repair \union {NoRepair}]
  /\ \A p \in Changes : changes[p].status \in {"READY_FOR_APPROVAL", "APPROVED"} =>
       LET base == changes[p].base IN
       /\ IsPrefixOf(base, lives[changes[p].tournament].log)
       /\ changes[p].proposed = base \/ \E e \in Entry : changes[p].proposed = Append(base, e)

(* docs/AI_AGENT_IMPLEMENTATION_BRIEF.md: "Results, corrections, voids,    *)
(* withdrawals, walkovers, and repairs append": whatever is proposed,      *)
(* approved or rejected while others keep submitting, no live event and no *)
(* score revision is ever lost or rewritten.                               *)
RecordsOnlyGrow ==
  [][\A t \in Tournaments :
       /\ lives[t].on => lives'[t].on
       /\ IsPrefixOf(lives[t].log, lives'[t].log)
       /\ \A c \in Contests : IsPrefixOf(scores[t][c], scores'[t][c])]_allVars

(* A live command takes effect once, though it may be submitted both       *)
(* directly and inside a proposal that is approved later.                  *)
LiveCommandOnce ==
  \A t \in Tournaments : \A i, j \in DOMAIN lives[t].log : lives[t].log[i].id = lives[t].log[j].id => i = j

(* What was approved has happened: the log goes on from the very state the *)
(* approver was shown.                                                     *)
ApprovedIsApplied ==
  \A p \in Changes : changes[p].status = "APPROVED" =>
    IsPrefixOf(changes[p].proposed, lives[changes[p].tournament].log)

(* README.md: "independently approved minimal-change repairs" and live     *)
(* changes with "separate approval": nobody approves a live change or      *)
(* decides a repair of their own, and an approved repair was proven.       *)
ProposalsTakeTwo ==
  /\ \A p \in Changes : changes[p].status = "APPROVED" => changes[p].decidedBy \notin {NoUser, changes[p].by}
  /\ \A r \in Repairs : repairs[r].status \in Decisions =>
       /\ repairs[r].decidedBy \notin {NoUser, repairs[r].by}
       /\ repairs[r].status = "APPROVED" => repairs[r].proven

(* Nothing is played live in a tournament that was not approved and        *)
(* published first, whatever becomes of the tournament later.              *)
LiveWasPublished == \A t \in Tournaments : lives[t].on => tournaments[t].publication # NoDecision

(* Live play is that of a published tournament, and no proposal of a score *)
(* change or repair takes effect without a second person.                  *)
LiveIsGoverned == LiveTypeOK /\ ProposalsTakeTwo /\ LiveWasPublished

(* The record of the day: what was approved was applied, nothing is lost.  *)
DayIsOnRecord == []ApprovedIsApplied /\ RecordsOnlyGrow
=============================================================================
