----------------------- MODULE DynamicStageLifecycle -----------------------
(* The transition function of a dynamic stage (dynamic-stage-lifecycle.ts).*)
(* A state is [phase, events, runtime, requests]; an event is the command  *)
(* that made it.  A command is [kind, key, expected, ...] with the fields  *)
(* of its kind.  Hashes of results are the results themselves.             *)
EXTENDS Integers, Sequences, FiniteSets
Seqs == INSTANCE SequencesExt
Fns == INSTANCE Functions

F == INSTANCE RankedFormats
R == INSTANCE SwissRanking

None == 0

(* The spread of one record or map over another.                           *)
Over(f, g) == [x \in DOMAIN f \union DOMAIN g |-> IF x \in DOMAIN f THEN f[x] ELSE g[x]]

NoEffect == [refused |-> TRUE]
Effect(phase, runtime, requests) == [refused |-> FALSE, phase |-> phase, runtime |-> runtime, requests |-> requests]

EmptyStandings(d) == [i \in d.entrants |-> [points |-> 0, opponents |-> {}, byes |-> 0]]

InitialRuntime(d) ==
  CASE d.kind = "SWISS" ->
         [round |-> 0, standings |-> EmptyStandings(d), pairings |-> <<>>, bye |-> None, completed |-> <<>>, final |-> <<>>]
    [] d.kind = "HEATS" -> [recorded |-> <<>>, qualified |-> {}, certified |-> FALSE]
    [] d.kind = "LADDER" -> [order |-> <<>>]
    [] d.kind = "RANKING" -> [scores |-> <<>>, qualified |-> {}, certified |-> FALSE]

DefineDynamicStage(d) == [phase |-> "DEFINITION", events |-> <<>>, runtime |-> InitialRuntime(d), requests |-> <<>>]

----------------------------------------------------------------------------
(* Swiss rounds.  The results of a round map its boards to the winner, or  *)
(* to None for a draw.                                                     *)

SwissRequests(round, pairings) == [b \in DOMAIN pairings |-> <<round, b>>]

WithSwissBye(d, standings, bye) ==
  [i \in DOMAIN standings |->
    IF i # bye THEN standings[i]
    ELSE [points |-> standings[i].points + d.bye, opponents |-> standings[i].opponents, byes |-> standings[i].byes + 1]]

(* What the results of a round add to the standings; an entrant plays at   *)
(* one board of a round, or at none.                                       *)
WithResults(d, standings, pairings, results) ==
  [i \in DOMAIN standings |->
    LET boards == {b \in DOMAIN pairings : i \in {pairings[b][1], pairings[b][2]}}
        winner == results[CHOOSE b \in boards : TRUE]
        gained == IF boards = {} THEN 0 ELSE IF winner = i THEN d.win ELSE IF winner = None THEN d.draw ELSE 0
    IN  [points |-> standings[i].points + gained,
         opponents |-> standings[i].opponents \union ((UNION {{pairings[b][1], pairings[b][2]} : b \in boards}) \ {i}),
         byes |-> standings[i].byes]]

BugRebuildSwissStandings(d, rounds) ==
  LET after[k \in 0..Len(rounds)] ==
        IF k = 0 THEN EmptyStandings(d) ELSE WithResults(d, after[k - 1], rounds[k].pairings, rounds[k].results)
  IN  after[Len(rounds)]

RebuildSwissStandings(d, rounds) ==
  LET after[k \in 0..Len(rounds)] ==
        IF k = 0 THEN EmptyStandings(d)
        ELSE WithResults(d, WithSwissBye(d, after[k - 1], rounds[k].bye), rounds[k].pairings, rounds[k].results)
  IN  after[Len(rounds)]

(* One valid result for every board.                                       *)
ValidSwissResults(pairings, results) ==
  /\ DOMAIN results = DOMAIN pairings
  /\ \A b \in DOMAIN pairings : results[b] \in {None, pairings[b][1], pairings[b][2]}

(* A legacy policy (version 1) names its tie resolution as last criterion. *)
EffectiveRankingPolicy(d) ==
  LET p      == d.finalRanking
      scored == SelectSeq(p.criteria, LAMBDA c : c \in {"POINTS", "HEAD_TO_HEAD"})
      base   == [win |-> d.win, draw |-> d.draw, loss |-> 0, bye |-> d.bye]
  IN  IF p.version = "1"
      THEN Over(base, [criteria |-> scored, drop |-> 0, incomplete |-> "REJECT",
                       ties |-> IF Seqs!Last(p.criteria) = "SHARED_RANK" THEN "SHARED_RANK" ELSE "COMPETITOR_ID"])
      ELSE Over(base, [criteria |-> p.criteria, drop |-> p.drop, incomplete |-> p.incomplete, ties |-> p.ties])

RankSwiss(d, rounds) ==
  LET game(r, b) == [left |-> r.pairings[b][1], right |-> r.pairings[b][2],
                     result |-> CASE r.results[b] = None -> R!Draw
                                  [] r.results[b] = r.pairings[b][1] -> R!LeftWin
                                  [] OTHER -> R!RightWin]
      ranked(r) == [byes |-> {r.bye} \ {None}, games |-> {game(r, b) : b \in DOMAIN r.pairings}]
  IN  R!RankWithPolicy(EffectiveRankingPolicy(d), d.entrants, [k \in DOMAIN rounds |-> ranked(rounds[k])])

Paired(d, runtime, round, standings, requests, phase, p) ==
  IF p.status # "CERTIFIED" THEN NoEffect
  ELSE Effect(phase,
              [runtime EXCEPT !.round = round, !.standings = WithSwissBye(d, standings, p.bye),
                              !.pairings = p.pairings, !.bye = p.bye],
              requests \o SwissRequests(round, p.pairings))

PairRound(d, s, runtime, round, standings, requests, phase) ==
  Paired(d, runtime, round, standings, requests, phase, F!PairSwissRound(standings, d.pairing))

(* The stage is complete when its rounds can be ranked.                    *)
Finished(s, standings, pairings, rounds, ranking) ==
  IF ranking.status # "CERTIFIED" THEN NoEffect
  ELSE Effect("COMPLETE", [s.runtime EXCEPT !.standings = standings, !.pairings = pairings, !.completed = rounds,
                                            !.final = ranking.rank], s.requests)

SubmitSwiss(d, s, c) ==
  LET r         == s.runtime
      standings == WithResults(d, r.standings, r.pairings, c.results)
      completed == Append(r.completed, [results |-> c.results, bye |-> r.bye, pairings |-> r.pairings])
  IN  IF s.phase # "RUNNING" \/ c.round # r.round THEN NoEffect
      ELSE IF ~ValidSwissResults(r.pairings, c.results) THEN NoEffect
      ELSE IF c.round < d.rounds
      THEN PairRound(d, s, [r EXCEPT !.completed = completed], c.round + 1, standings, s.requests, "RUNNING")
      ELSE Finished(s, standings, <<>>, completed, RankSwiss(d, completed))

(* A correction or a void names the round and the results it supersedes.   *)
Supersedes(s, c) ==
  LET rounds == s.runtime.completed
  IN  s.phase = "COMPLETE" /\ rounds # <<>> /\ c.round = Len(rounds) /\ Seqs!Last(rounds).results = c.supersedes

CorrectSwiss(d, s, c) ==
  LET latest  == Seqs!Last(s.runtime.completed)
      rounds  == Seqs!Front(s.runtime.completed) \o <<[latest EXCEPT !.results = c.results]>>
  IN  IF ~Supersedes(s, c) THEN NoEffect
      ELSE IF ~ValidSwissResults(latest.pairings, c.results) THEN NoEffect
      ELSE Finished(s, RebuildSwissStandings(d, rounds), s.runtime.pairings, rounds, RankSwiss(d, rounds))

VoidSwiss(d, s, c) ==
  LET latest == Seqs!Last(s.runtime.completed)
      rounds == Seqs!Front(s.runtime.completed)
  IN  IF ~Supersedes(s, c) THEN NoEffect
      ELSE Effect("RUNNING", [s.runtime EXCEPT !.round = c.round, !.standings = RebuildSwissStandings(d, rounds),
                                               !.pairings = latest.pairings, !.bye = latest.bye,
                                               !.completed = rounds, !.final = <<>>], s.requests)

----------------------------------------------------------------------------
(* Heats and time trials: recorded maps active entrants to their results.  *)

ActiveEntrants(d) == d.entrants \ d.withdrawn

(* Still short of a certified qualification.                               *)
Recorded(s, recorded) ==
  Effect("RUNNING", [recorded |-> recorded, qualified |-> {}, certified |-> FALSE], s.requests)

(* The stage is complete when its cut can be certified.                    *)
HeatCut(s, recorded, cut) ==
  IF cut.status # "CERTIFIED" THEN NoEffect
  ELSE Effect("COMPLETE", [recorded |-> recorded, qualified |-> cut.qualified, certified |-> TRUE], s.requests)

RankingCut(s, scores, cut) ==
  IF cut.status # "CERTIFIED" THEN NoEffect
  ELSE Effect("COMPLETE", [scores |-> scores, qualified |-> cut.qualified, certified |-> TRUE], s.requests)

EvaluateHeat(d, s, recorded) ==
  IF F!RankTimeTrial(recorded, d.timeTies, d.seedOrder).status # "CERTIFIED" THEN NoEffect
  ELSE HeatCut(s, recorded, F!QualifyRankingStage(Fns!Restrict(recorded, F!Timed(recorded)), d.places, "LOWER", d.cutoffTies,
                                                  d.seedOrder))

SubmitHeat(d, s, c) ==
  LET recorded == Over(c.results, s.runtime.recorded)
  IN  IF \/ s.phase # "RUNNING"
         \/ DOMAIN c.results = {}
         \/ ~(DOMAIN c.results \subseteq ActiveEntrants(d) \ DOMAIN s.runtime.recorded)
      THEN NoEffect
      ELSE IF DOMAIN recorded # ActiveEntrants(d) THEN Recorded(s, recorded) ELSE EvaluateHeat(d, s, recorded)

CurrentResult(s, c) ==
  /\ s.phase \in {"RUNNING", "COMPLETE"}
  /\ c.who \in DOMAIN s.runtime.recorded
  /\ s.runtime.recorded[c.who] = c.supersedes

BugCorrectHeat(d, s, c) ==
  IF ~CurrentResult(s, c) THEN NoEffect
  ELSE Effect(s.phase, [s.runtime EXCEPT !.recorded[c.who] = c.result], s.requests)

CorrectHeat(d, s, c) ==
  LET recorded == [s.runtime.recorded EXCEPT ![c.who] = c.result]
  IN  IF ~CurrentResult(s, c) THEN NoEffect
      ELSE IF s.phase = "COMPLETE" THEN EvaluateHeat(d, s, recorded) ELSE Recorded(s, recorded)

BugVoidHeat(d, s, c) ==
  IF ~CurrentResult(s, c) THEN NoEffect
  ELSE Effect(s.phase, [Recorded(s, Fns!Restrict(s.runtime.recorded, DOMAIN s.runtime.recorded \ {c.who})).runtime
                          EXCEPT !.certified = FALSE], s.requests)

VoidHeat(d, s, c) ==
  IF ~CurrentResult(s, c) THEN NoEffect
  ELSE Recorded(s, Fns!Restrict(s.runtime.recorded, DOMAIN s.runtime.recorded \ {c.who}))

----------------------------------------------------------------------------
(* Ladders and ranking stages.                                             *)

LadderChallenge(d, s, c) ==
  LET challenge == F!ApplyLadderChallenge(s.runtime.order, c.challenger, c.defender, c.winner, d.reach)
  IN  IF s.phase # "RUNNING" THEN NoEffect
      ELSE IF challenge.status # "CERTIFIED" THEN NoEffect
      ELSE Effect("RUNNING", [order |-> challenge.order], s.requests)

CompleteLadder(d, s, c) == IF s.phase = "RUNNING" THEN Effect("COMPLETE", s.runtime, s.requests) ELSE NoEffect

SubmitRanking(d, s, c) ==
  IF s.phase # "RUNNING" \/ DOMAIN c.scores # d.entrants THEN NoEffect
  ELSE RankingCut(s, c.scores, F!QualifyRankingStage(c.scores, d.places, d.better, d.cutoffTies, d.seedOrder))

----------------------------------------------------------------------------
Prepared(d, s) ==
  CASE d.kind = "SWISS" -> PairRound(d, s, s.runtime, 1, s.runtime.standings, <<>>, "READY")
    [] d.kind = "HEATS" ->
         LET a == F!AssignQualifyingHeats(Fns!Restrict(d.mark, ActiveEntrants(d)), d.heatCount, d.lanes, d.lanePriority,
                                          d.betterMark, d.seedTies)
         IN  IF a.status # "CERTIFIED" THEN NoEffect
             ELSE Effect("READY", s.runtime, [h \in 1..d.heatCount |-> <<0, h>>])
    [] d.kind = "LADDER" -> Effect("READY", [order |-> d.initialOrder], <<>>)
    [] d.kind = "RANKING" ->
         IF Cardinality(d.entrants) < 2 \/ d.places \notin 1..Cardinality(d.entrants) THEN NoEffect
         ELSE Effect("READY", s.runtime, <<<<0, 1>>>>)
Prepare(d, s) == IF s.phase = "DEFINITION" THEN Prepared(d, s) ELSE NoEffect

ExecutionKinds(d) ==
  CASE d.kind = "SWISS" -> {"SUBMIT_SWISS_ROUND", "CORRECT_SWISS_ROUND", "VOID_SWISS_ROUND"}
    [] d.kind = "HEATS" -> {"SUBMIT_HEAT_RESULTS", "CORRECT_HEAT_RESULT", "VOID_HEAT_RESULT"}
    [] d.kind = "LADDER" -> {"RECORD_LADDER_CHALLENGE", "COMPLETE_LADDER"}
    [] d.kind = "RANKING" -> {"SUBMIT_RANKING_RESULTS"}

Start(s) == IF s.phase = "READY" THEN Effect("RUNNING", s.runtime, s.requests) ELSE NoEffect

Executed(d, s, c) ==
  CASE c.kind = "SUBMIT_SWISS_ROUND" -> SubmitSwiss(d, s, c)
    [] c.kind = "CORRECT_SWISS_ROUND" -> CorrectSwiss(d, s, c)
    [] c.kind = "VOID_SWISS_ROUND" -> VoidSwiss(d, s, c)
    [] c.kind = "SUBMIT_HEAT_RESULTS" -> SubmitHeat(d, s, c)
    [] c.kind = "CORRECT_HEAT_RESULT" -> CorrectHeat(d, s, c)
    [] c.kind = "VOID_HEAT_RESULT" -> VoidHeat(d, s, c)
    [] c.kind = "RECORD_LADDER_CHALLENGE" -> LadderChallenge(d, s, c)
    [] c.kind = "COMPLETE_LADDER" -> CompleteLadder(d, s, c)
    [] c.kind = "SUBMIT_RANKING_RESULTS" -> SubmitRanking(d, s, c)

EffectOf(d, s, c) ==
  IF c.kind = "PREPARE" THEN Prepare(d, s)
  ELSE IF c.kind = "START" THEN Start(s)
  ELSE IF c.kind \in ExecutionKinds(d) THEN Executed(d, s, c)
  ELSE NoEffect

(* What the event history and the runtime say the phase must be.           *)
ExpectedPhase(d, s) ==
  LET kinds == [k \in DOMAIN s.events |-> s.events[k].kind]
      r     == s.runtime
      done  == CASE d.kind = "SWISS" -> Len(r.completed) = d.rounds /\ DOMAIN r.final # {}
                 [] d.kind = "HEATS" -> DOMAIN r.recorded = ActiveEntrants(d) /\ r.certified
                 [] d.kind = "LADDER" -> \E k \in DOMAIN kinds : kinds[k] = "COMPLETE_LADDER"
                 [] d.kind = "RANKING" -> r.certified
  IN  CASE Len(kinds) = 0 -> "DEFINITION"
        [] Len(kinds) = 1 -> "READY"
        [] OTHER -> IF done THEN "COMPLETE" ELSE "RUNNING"

(* The verifier every transition starts with.                              *)
VerifyDynamicStage(d, s) ==
  LET kinds == [k \in DOMAIN s.events |-> s.events[k].kind]
  IN  /\ s.phase = ExpectedPhase(d, s)
      /\ kinds # <<>> => kinds[1] = "PREPARE"
      /\ Len(kinds) > 1 => kinds[2] = "START"
      /\ \A k \in 3..Len(kinds) :
           /\ kinds[k] \in ExecutionKinds(d)
           /\ kinds[k] = "COMPLETE_LADDER" => k = Len(kinds)
           /\ d.kind = "RANKING" => k = 3
      /\ d.kind = "SWISS" => Len(s.runtime.completed) <= d.rounds
      /\ d.kind = "HEATS" => DOMAIN s.runtime.recorded \subseteq ActiveEntrants(d)
      /\ \A i, j \in DOMAIN s.requests : s.requests[i] = s.requests[j] => i = j

(* The answer to a command that is neither known nor late.                 *)
Applied(s, c, e) ==
  IF e.refused THEN [status |-> "REJECTED", code |-> "INVALID_TRANSITION", state |-> s]
  ELSE [status |-> "APPLIED", code |-> "NONE",
        state |-> [phase |-> e.phase, events |-> Append(s.events, c), runtime |-> e.runtime, requests |-> e.requests]]

(* A known key answers as before; a new command needs the current version. *)
TransitionDynamicStage(d, s, c) ==
  LET known == {k \in DOMAIN s.events : s.events[k].key = c.key}
      answer(status, code) == [status |-> status, code |-> code, state |-> s]
  IN  IF ~VerifyDynamicStage(d, s) THEN answer("REJECTED", "INVALID_STATE_PROOF")
      ELSE IF known # {}
      THEN IF s.events[CHOOSE k \in known : TRUE] = c THEN answer("REPLAYED", "NONE")
           ELSE answer("REJECTED", "IDEMPOTENCY_CONFLICT")
      ELSE IF c.expected # Len(s.events) THEN answer("REJECTED", "VERSION_CONFLICT")
      ELSE Applied(s, c, EffectOf(d, s, c))

ReplayDynamicStage(d, events) ==
  LET replay[k \in 0..Len(events)] ==
        IF k = 0 THEN DefineDynamicStage(d) ELSE TransitionDynamicStage(d, replay[k - 1], events[k]).state
  IN  replay[Len(events)]
=============================================================================
