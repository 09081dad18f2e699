------------------------- MODULE DynamicStageStore -------------------------
(* Dynamic stages as they are stored and executed: the SQLite stream of    *)
(* dynamic-stage-store.ts and the orchestrator of                          *)
(* dynamic-stage-orchestrator.ts, run by several processes at once.  The   *)
(* stream only grows, so what a process has read is a length of it.        *)
EXTENDS DynamicStageLifecycle
Sets == INSTANCE FiniteSetsExt

CONSTANTS
  Processes,        \* processes that serve requests for the stage
  Definitions,      \* stages, one of which is created
  Requests(_, _),   \* Requests(d, s): what clients may ask of a stage they see in state s
  MaxEvents(_),     \* MaxEvents(d): BOUND on the length of a stream
  InFlight(_)       \* InFlight(d): BOUND on the requests served at once

(* What the definition of a stage is checked to be when it is compiled.    *)
ASSUME DefinitionsAssumption ==
  \A d \in Definitions :
    /\ d.kind \in {"SWISS", "HEATS", "LADDER", "RANKING"}
    /\ IsFiniteSet(d.entrants) /\ d.entrants \subseteq Nat \ {None}
    /\ d.kind = "SWISS" => d.rounds \in Nat \ {0} /\ {d.win, d.draw, d.bye} \subseteq Int
    /\ d.kind \in {"HEATS", "RANKING"} => d.seedOrder \in Seq(d.entrants)

VARIABLES
  def,      \* the definition of the stage
  stream,   \* the commands of its persisted events
  stage,    \* what a replay of the stream computes, as every load does again
  op,       \* op[p]: the request a process works on, and how far it is
  conflicts \* the requests answered with an idempotency conflict

vars == <<def, stream, stage, op, conflicts>>

NoRequest == [kind |-> "NONE", key |-> 0]
Idle == [pc |-> "idle", request |-> NoRequest, command |-> NoRequest]

(* BOUND: the scheduler finds a schedule while there are no more contests  *)
(* than the definition has slots for.                                      *)
Challenged(c) == IF c.kind = "RECORD_LADDER_CHALLENGE" THEN {c.challenger, c.defender} ELSE {}
Contests(challenges) == SelectSeq(challenges, LAMBDA pair : pair # {})
LadderRequests(s) == Contests([k \in DOMAIN s.events |-> Challenged(s.events[k])])
Scheduled(s) == Len(s.requests) + Len(LadderRequests(s)) <= def.slots

(* A schedule is identified by the contests it places.                     *)
ScheduleReference(s) == <<s.requests, LadderRequests(s)>>

Bare(c) == IF c.kind = "RECORD_LADDER_CHALLENGE" THEN [c EXCEPT !.schedule = <<>>] ELSE c

BugCommandFor(s, r) ==
  IF r.kind # "RECORD_LADDER_CHALLENGE" THEN r
  ELSE [r EXCEPT !.schedule = ScheduleReference(TransitionDynamicStage(def, s, r).state)]

(* The command a request stands for on a loaded state: a ladder challenge  *)
(* refers to the schedule it would have, or had.                           *)
CommandFor(s, r) ==
  LET prior == {k \in DOMAIN s.events : s.events[k].key = r.key /\ s.events[k].kind = r.kind}
      known == s.events[CHOOSE k \in prior : TRUE]
  IN  IF r.kind # "RECORD_LADDER_CHALLENGE" THEN r
      ELSE IF prior # {} THEN IF Bare(known) = r THEN known ELSE [r EXCEPT !.schedule = <<"conflicting-replay">>]
      ELSE [r EXCEPT !.schedule = ScheduleReference(TransitionDynamicStage(def, s, r).state)]

Init ==
  /\ def \in Definitions
  /\ stream = <<>>
  /\ stage = DefineDynamicStage(def)
  /\ op = [p \in Processes |-> Idle]
  /\ conflicts = {}

(* What became of process p's request; only conflicts are remembered.      *)
Answer(p, request, code) ==
  /\ op' = [op EXCEPT ![p] = Idle]
  /\ conflicts' = conflicts \union (IF code = "IDEMPOTENCY_CONFLICT" THEN {request} ELSE {})

(* The client gets no answer.                                              *)
Forget(p) ==
  /\ op' = [op EXCEPT ![p] = [pc |-> "lost", request |-> op[p].request, command |-> NoRequest]]
  /\ UNCHANGED conflicts

(* execute of the orchestrator up to its call of the repository.           *)
Orchestrate(p, r) ==
  /\ \E command \in {CommandFor(stage, r)} : \E preview \in {TransitionDynamicStage(def, stage, command)} :
       IF preview.status = "REJECTED" \/ ~Scheduled(preview.state)
       THEN Answer(p, r, preview.code)
       ELSE /\ op' = [op EXCEPT ![p] = [pc |-> "previewed", request |-> r, command |-> command]]
            /\ UNCHANGED conflicts
  /\ UNCHANGED <<def, stream, stage>>

KeysInUse == {stream[k].key : k \in DOMAIN stream} \union {op[p].request.key : p \in Processes}
                                                   \union {r.key : r \in conflicts}

(* What a request of its kind names; the schedule is for the service.      *)
Fields(kind) ==
  CASE kind = "RECORD_LADDER_CHALLENGE" -> {"challenger", "defender", "winner"}
    [] kind = "SUBMIT_RANKING_RESULTS" -> {"scores"}
    [] kind = "SUBMIT_HEAT_RESULTS" -> {"results"}
    [] kind = "CORRECT_HEAT_RESULT" -> {"result"}
    [] OTHER -> {}
IsRequest(r) ==
  /\ "kind" \in DOMAIN r /\ Fields(r.kind) \subseteq DOMAIN r
  /\ r.kind = "SUBMIT_RANKING_RESULTS" => r.scores \in [DOMAIN r.scores -> Int]
  /\ r.kind = "SUBMIT_HEAT_RESULTS" => r.results \in [DOMAIN r.results -> Int]
  /\ r.kind = "CORRECT_HEAT_RESULT" => r.result \in Int
Asked(r, key, version) == Over([key |-> key, expected |-> version, schedule |-> <<>>], r)

(* A client asks what it would of the state it last saw, with a new key.   *)
Request(p) ==
  /\ op[p].pc = "idle"
  /\ Len(stream) < MaxEvents(def)
  /\ Cardinality({q \in Processes : op[q].pc # "idle"}) < InFlight(def)
  /\ \E n \in {Len(stream), Len(stream) - 1} \cap Nat :
       \E ask \in Requests(def, IF n = Len(stream) THEN stage ELSE ReplayDynamicStage(def, SubSeq(stream, 1, n))) :
         IsRequest(ask) /\ Orchestrate(p, Asked(ask, Sets!Max(KeysInUse \union {0}) + 1, n))

(* A client that heard nothing asks again, with the same key.              *)
Retry(p) ==
  /\ op[p].pc = "lost"
  /\ Orchestrate(p, op[p].request)

(* execute of the repository loads the stream again.                       *)
RepositoryLoad(p) ==
  /\ op[p].pc = "previewed"
  /\ \E t \in {TransitionDynamicStage(def, stage, op[p].command)} :
       IF t.status = "APPLIED"
       THEN op' = [op EXCEPT ![p].pc = "decided"] /\ UNCHANGED conflicts
       ELSE Answer(p, op[p].request, t.code)
  /\ UNCHANGED <<def, stream, stage>>

(* The append transaction: a known key is a replay or a conflict, another  *)
(* length of the stream a conflict; the longer stream must replay.         *)
AppendEvent(p) ==
  LET c      == op[p].command
      known  == {k \in DOMAIN stream : stream[k].key = c.key}
      longer == Append(stream, c)
      answer(code) == Answer(p, op[p].request, code) /\ UNCHANGED <<stream, stage>>
  IN  /\ op[p].pc = "decided"
      /\ IF known # {} THEN answer(IF stream[CHOOSE k \in known : TRUE] = c THEN "NONE" ELSE "IDEMPOTENCY_CONFLICT")
         ELSE IF Len(stream) # c.expected THEN answer("VERSION_CONFLICT")
         ELSE \E replay \in {TransitionDynamicStage(def, stage, c).state} :
                IF replay.events # longer \/ ~VerifyDynamicStage(def, replay) THEN answer("INVALID_EVENT_APPEND")
                ELSE stream' = longer /\ stage' = replay /\ (Answer(p, op[p].request, "NONE") \/ Forget(p))
      /\ UNCHANGED def

(* The process dies before it has appended: the client does not know.      *)
Crash(p) ==
  /\ op[p].pc \in {"previewed", "decided"}
  /\ Forget(p)
  /\ UNCHANGED <<def, stream, stage>>

Next == \E p \in Processes : Request(p) \/ Retry(p) \/ RepositoryLoad(p) \/ AppendEvent(p) \/ Crash(p)

Spec == Init /\ [][Next]_vars
----------------------------------------------------------------------------
(* Every command the transition function lets through leads to a state the *)
(* verifier accepts, and what is stored replays to itself: no history of   *)
(* commands leaves a stage that refuses all further ones.                  *)
StoredStageIsUsable ==
  /\ stage.events = stream
  /\ VerifyDynamicStage(def, stage)
  /\ \A p \in Processes : (op[p].pc = "decided" /\ op[p].command.expected = Len(stream)) =>
       \A t \in {TransitionDynamicStage(def, stage, op[p].command)} :
         t.status = "APPLIED" => VerifyDynamicStage(def, t.state)

(* A client that asks again in the same words is never told that its key   *)
(* belongs to another question, whoever computed the schedule reference.   *)
RetriesAreRecognised == conflicts = {}

(* A ladder challenge refers to the schedule its own event leads to.       *)
ReferencesAreCurrent ==
  \A k \in DOMAIN stream : stream[k].kind = "RECORD_LADDER_CHALLENGE" =>
    stream[k].schedule = ScheduleReference(ReplayDynamicStage(def, SubSeq(stream, 1, k)))

(* What identifies a request identifies it again: in the answer to a       *)
(* retry, and in the schedule it is recorded with.                         *)
RequestsAreRecognised == RetriesAreRecognised /\ ReferencesAreCurrent

(* Swiss: while rematches are forbidden nobody meets an opponent twice,    *)
(* and while byes must not repeat nobody sits out twice, through every     *)
(* correction and void.                                                    *)
Rounds ==
  LET open == [bye |-> stage.runtime.bye, pairings |-> stage.runtime.pairings]
      done == [k \in DOMAIN stage.runtime.completed |-> [bye |-> stage.runtime.completed[k].bye,
                                                         pairings |-> stage.runtime.completed[k].pairings]]
  IN  IF stage.phase = "COMPLETE" THEN done ELSE Append(done, open)
Met(k, b) == {Rounds[k].pairings[b][1], Rounds[k].pairings[b][2]}
NobodyMeetsTwice ==
  (def.kind = "SWISS" /\ stage.phase # "DEFINITION") =>
    /\ def.pairing.rematches = "FORBIDDEN" =>
         \A k, l \in DOMAIN Rounds : \A b \in DOMAIN Rounds[k].pairings, c \in DOMAIN Rounds[l].pairings :
           Met(k, b) = Met(l, c) => k = l /\ b = c
    /\ def.pairing.bye = "LOWEST_RANKED_WITHOUT_BYE" =>
         \A k, l \in DOMAIN Rounds : Rounds[k].bye # None /\ Rounds[k].bye = Rounds[l].bye => k = l

(* Swiss: the points and byes a complete stage reports are those its       *)
(* rounds award.                                                           *)
FinalStandingsMatchRounds ==
  (def.kind = "SWISS" /\ stage.phase = "COMPLETE") =>
    stage.runtime.standings = RebuildSwissStandings(def, stage.runtime.completed)

(* The same of a stage of which no round with a bye was voided.            *)
Voided == \E k \in DOMAIN stream : stream[k].kind = "VOID_SWISS_ROUND"
UnvoidedStandingsMatchRounds == (def.kind = "SWISS" /\ (Voided => \A k \in DOMAIN Rounds : Rounds[k].bye = None)) => FinalStandingsMatchRounds

SwissAddsUp == NobodyMeetsTwice /\ UnvoidedStandingsMatchRounds

(* A certified heat or ranking stage has every active entrant's current    *)
(* result, and nobody left out was better than somebody who qualified; a   *)
(* stage with a result missing qualifies nobody.                           *)
Score == IF def.kind = "HEATS" THEN stage.runtime.recorded ELSE stage.runtime.scores
BetterScore(x, y) == IF def.kind = "HEATS" \/ def.better = "LOWER" THEN x < y ELSE x > y
QualifiersAreUnbeaten ==
  def.kind \in {"HEATS", "RANKING"} =>
    LET q == stage.runtime.qualified
        qualifiable == IF def.kind = "HEATS" THEN F!Timed(Score) ELSE DOMAIN Score
    IN  /\ stage.phase = "COMPLETE" <=> q # {}
        /\ stage.phase = "COMPLETE" =>
             /\ DOMAIN Score = IF def.kind = "HEATS" THEN ActiveEntrants(def) ELSE def.entrants
             /\ q \subseteq qualifiable
             /\ Cardinality(q) >= def.places
             /\ \A i \in q, j \in qualifiable \ q : ~BetterScore(Score[j], Score[i])
=============================================================================
