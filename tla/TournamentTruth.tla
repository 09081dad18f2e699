-------------------------- MODULE TournamentTruth --------------------------
(***************************************************************************)
(* The four layers of truth of a tournament (tournament-state.ts): the     *)
(* definition, the plan, the operational revision and the actual results.  *)
(* decideTournamentCommand turns a command into an event of the state it   *)
(* was given; evolveTournamentState, the "invariant firewall", lets the    *)
(* event into the one stream or refuses it.  Both are functions: the desks *)
(* that call them, and may lose an answer and send again, are external.    *)
(* An id of a revision is its number and an id of an event its sequence;   *)
(* scores, reasons, timestamps and hashes of artifacts are left out.       *)
(***************************************************************************)
EXTENDS Naturals, Sequences

CONSTANTS Contests, Entrants,
          Rosters,        \* the operational revisions a caller may activate: contest -> pair
          Submitted,      \* the commands desks may send, [id, content]
          Desks, None,
          MaxVersion      \* bound on the events of a behaviour

VARIABLES version,        \* events in the stream
          processed,      \* command ids, one for each event
          fingerprints,   \* command id -> content it was used for
          definitions,    \* how many are registered; the last is active
          plans,          \* the definition each plan was activated for
          operationals,   \* [plan, contests]
          effective,      \* contest -> ActualResult
          history,        \* ActualResults in order
          desk            \* desk -> [id, content, expected, stage], or None

layerVars == <<definitions, plans, operationals>>
truthVars == <<version, processed, fingerprints, definitions, plans, operationals, effective, history, desk>>

(***************************************************************************)
(* Commands, and the firewall's conditions on the events made from them.   *)
(***************************************************************************)
Pairs == {p \in SUBSET Entrants : \E a, b \in Entrants : a # b /\ p = {a, b}}

Register == [kind : {"REGISTER_DEFINITION"}, revision : 1..MaxVersion]
Plan == [kind : {"ACTIVATE_PLAN"}, revision : 1..MaxVersion, definition : 1..MaxVersion]
Operate == [kind : {"ACTIVATE_OPERATIONAL"}, revision : 1..MaxVersion, plan : 1..MaxVersion, contests : Rosters]
Record == [kind : {"RECORD_RESULT"}, contest : Contests, entrants : SUBSET Entrants, winner : Entrants]
Correct == [kind : {"CORRECT_RESULT"}, contest : Contests, entrants : SUBSET Entrants, winner : Entrants,
            supersedes : 1..MaxVersion]
Void == [kind : {"VOID_RESULT"}, contest : Contests, supersedes : 1..MaxVersion]
TournamentCommand == Register \cup Plan \cup Operate \cup Record \cup Correct \cup Void

ASSUME RosterAssumption == Rosters \subseteq UNION {[C -> SUBSET Entrants] : C \in SUBSET Contests}
ASSUME SubmittedAssumption == \A c \in Submitted : c.content \in TournamentCommand
ASSUME NoneAssumption == None \notin Nat /\ None \notin Entrants

Registered == IF operationals = <<>> THEN <<>> ELSE operationals[Len(operationals)].contests

(* validateRevision: contiguous, so neither reused nor skipped. *)
NextRevision(c, layer) == c.revision = layer + 1

(* validateOperationalContests, and no result may be left without its contest. *)
BugKeepsResults(roster) == \A x \in DOMAIN effective : x \in DOMAIN roster
KeepsResults(roster) == \A x \in DOMAIN effective : x \in DOMAIN roster /\ roster[x] = effective[x].entrants

(* validateResult *)
ValidResult(c) ==
  /\ c.contest \in DOMAIN Registered
  /\ Registered[c.contest] = c.entrants
  /\ c.winner \in c.entrants

BugSupersedesCurrent(c) == c.contest \in DOMAIN effective /\ effective[c.contest].status = "RECORDED"

SupersedesCurrent(c) ==
  /\ c.contest \in DOMAIN effective
  /\ effective[c.contest].status = "RECORDED"
  /\ effective[c.contest].event = c.supersedes

Lawful(c) ==
  CASE c.kind = "REGISTER_DEFINITION" -> NextRevision(c, definitions)
    [] c.kind = "ACTIVATE_PLAN" -> NextRevision(c, Len(plans)) /\ definitions > 0 /\ c.definition = definitions
    [] c.kind = "ACTIVATE_OPERATIONAL" ->
         /\ NextRevision(c, Len(operationals)) /\ plans # <<>> /\ c.plan = Len(plans)
         /\ c.contests # <<>> /\ \A x \in DOMAIN c.contests : c.contests[x] \in Pairs
         /\ KeepsResults(c.contests)
    [] c.kind = "RECORD_RESULT" -> ValidResult(c) /\ c.contest \notin DOMAIN effective
    [] c.kind = "CORRECT_RESULT" -> ValidResult(c) /\ SupersedesCurrent(c)
    [] c.kind = "VOID_RESULT" -> c.contest \in DOMAIN Registered /\ SupersedesCurrent(c)

(***************************************************************************)
(* What an event does to the state.                                        *)
(***************************************************************************)
ActualResult(c, sequence) ==
  [event |-> sequence, contest |-> c.contest,
   status |-> IF c.kind = "VOID_RESULT" THEN "VOIDED" ELSE "RECORDED",
   entrants |-> IF c.kind = "VOID_RESULT" THEN Registered[c.contest] ELSE c.entrants,
   winner |-> IF c.kind = "VOID_RESULT" THEN None ELSE c.winner,
   supersedes |-> IF c.kind = "RECORD_RESULT" THEN None ELSE c.supersedes]

Enter(result) ==
  /\ effective' = [x \in DOMAIN effective \cup {result.contest} |->
                     IF x = result.contest THEN result ELSE effective[x]]
  /\ history' = Append(history, result)
  /\ UNCHANGED layerVars

Evolve(c) ==
  \/ /\ c.kind = "REGISTER_DEFINITION"
     /\ definitions' = definitions + 1
     /\ UNCHANGED <<plans, operationals, effective, history>>
  \/ /\ c.kind = "ACTIVATE_PLAN"
     /\ plans' = Append(plans, c.definition)
     /\ UNCHANGED <<definitions, operationals, effective, history>>
  \/ /\ c.kind = "ACTIVATE_OPERATIONAL"
     /\ operationals' = Append(operationals, [plan |-> c.plan, contests |-> c.contests])
     /\ UNCHANGED <<definitions, plans, effective, history>>
  \/ /\ c.kind \in {"RECORD_RESULT", "CORRECT_RESULT", "VOID_RESULT"}
     /\ Enter(ActualResult(c, version + 1))

(***************************************************************************)
(* The desks.                                                              *)
(***************************************************************************)
TruthInit ==
  /\ version = 0 /\ processed = <<>> /\ fingerprints = <<>>
  /\ definitions = 0 /\ plans = <<>> /\ operationals = <<>>
  /\ effective = <<>> /\ history = <<>>
  /\ desk = [d \in Desks |-> None]

Ids == {processed[i] : i \in 1..Len(processed)}

Waiting(d) == desk[d] # None /\ desk[d].stage # "ACCEPTED"
At(d, stage) == desk[d] # None /\ desk[d].stage = stage

(* A command, made for the version the desk has read: the present one, for older ones are refused. *)
Send(d) ==
  /\ ~Waiting(d)
  /\ \E c \in Submitted :
       desk' = [desk EXCEPT ![d] = [id |-> c.id, content |-> c.content, expected |-> version, stage |-> "SENT"]]
  /\ UNCHANGED <<version, processed, fingerprints, layerVars, effective, history>>

BugKnown(d) == desk[d].id \in Ids
Known(d) == desk[d].id \in Ids /\ fingerprints[desk[d].id] = desk[d].content

(* decideTournamentCommand accepts: known already, or an event of this version's state. *)
AnswerAgain(d) ==
  /\ At(d, "SENT")
  /\ Known(d)
  /\ desk' = [desk EXCEPT ![d].stage = "ACCEPTED"]
  /\ UNCHANGED <<version, processed, fingerprints, layerVars, effective, history>>

Decide(d) ==
  /\ At(d, "SENT")
  /\ desk[d].id \notin Ids
  /\ desk[d].expected = version
  /\ Lawful(desk[d].content)
  /\ desk' = [desk EXCEPT ![d].stage = "DECIDED"]
  /\ UNCHANGED <<version, processed, fingerprints, layerVars, effective, history>>

(* verifyEventEnvelope: the next in sequence, linked to the last, of a command not yet processed. *)
Linked(d) == desk[d].expected = version /\ desk[d].id \notin Ids

AppendEvent(d) ==
  /\ At(d, "DECIDED")
  /\ version < MaxVersion
  /\ Linked(d)
  /\ Lawful(desk[d].content)
  /\ Evolve(desk[d].content)
  /\ version' = version + 1
  /\ processed' = Append(processed, desk[d].id)
  /\ fingerprints' = [i \in DOMAIN fingerprints \cup {desk[d].id} |->
                        IF i = desk[d].id THEN desk[d].content ELSE fingerprints[i]]
  /\ \E stage \in {"ACCEPTED", "SENT"} :                 \* the answer may be lost
       desk' = [desk EXCEPT ![d].stage = stage]

(* Refused, or never answered: the desk reads the version and sends the same command again. *)
SendAgain(d) ==
  /\ Waiting(d)
  /\ desk[d].expected # version
  /\ desk' = [desk EXCEPT ![d].expected = version, ![d].stage = "SENT"]
  /\ UNCHANGED <<version, processed, fingerprints, layerVars, effective, history>>

GiveUp(d) ==
  /\ Waiting(d)
  /\ desk' = [desk EXCEPT ![d] = None]
  /\ UNCHANGED <<version, processed, fingerprints, layerVars, effective, history>>

TruthNext ==
  \E d \in Desks : Send(d) \/ AnswerAgain(d) \/ Decide(d) \/ AppendEvent(d) \/ SendAgain(d) \/ GiveUp(d)

TruthSpec == TruthInit /\ [][TruthNext]_truthVars

-----------------------------------------------------------------------------
(***************************************************************************)
(* Every result, a voided one too, is about a contest of the operational   *)
(* revision in force and about its two entrants, one of whom won: neither  *)
(* a later revision nor a correction decided before it changes that        *)
(* (validateResult, and the firewall's TOS422).                            *)
(***************************************************************************)
TruthStaysPlayable ==
  \A x \in DOMAIN effective :
    /\ x \in DOMAIN Registered
    /\ Registered[x] = effective[x].entrants
    /\ effective[x].status = "RECORDED" => effective[x].winner \in Registered[x]

(***************************************************************************)
(* The results of a contest form one line: each supersedes the one before, *)
(* none comes after a void, and the last is in effect; whichever desks     *)
(* race to correct it, and however often they send again (the lineage      *)
(* checks of evolveTournamentState).                                       *)
(***************************************************************************)
SameContest(i, j) == history[i].contest = history[j].contest
Follows(j, i) == j < i /\ SameContest(j, i) /\ \A k \in j + 1..i - 1 : ~SameContest(k, i)

OneLineOfTruth ==
  /\ \A i, j \in 1..Len(history) :
       Follows(j, i) => /\ history[i].supersedes = history[j].event
                        /\ history[j].status = "RECORDED"
  /\ \A i \in 1..Len(history) :
       /\ history[i].supersedes = None => \A j \in 1..i - 1 : ~SameContest(j, i)
       /\ (\A k \in i + 1..Len(history) : ~SameContest(k, i)) => effective[history[i].contest] = history[i]
  /\ \A x \in DOMAIN effective : \E i \in 1..Len(history) : history[i] = effective[x]

(***************************************************************************)
(* An accepted answer is true: the command it was given to took effect     *)
(* once, with this content (decideTournamentCommand on a repeated command).*)
(***************************************************************************)
AnswersAreTrue ==
  \A d \in Desks :
    At(d, "ACCEPTED") =>
      /\ desk[d].id \in DOMAIN fingerprints /\ fingerprints[desk[d].id] = desk[d].content
      /\ \E i \in 1..Len(processed) : \A j \in 1..Len(processed) : (processed[j] = desk[d].id) = (j = i)
============================================================================
