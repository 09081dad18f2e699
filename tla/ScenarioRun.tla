---------------------------- MODULE ScenarioRun ----------------------------
(***************************************************************************)
(* A competition carried from its declaration to its last contest          *)
(* (runScenario in scenario.ts, simulateGraph in simulation.ts,            *)
(* buildCompetitionGraph in graph.ts).  A scenario is either one stage of  *)
(* a static format, or pools whose table qualifies entrants for knockouts. *)
(* The code draws the score of a contest from a seeded source; here every  *)
(* score of the scenario's lines for the phase is possible.  The code builds the graph a *)
(* second time with the qualifiers and plays it from the start; the fresh  *)
(* results of the pools are read by nobody, so only the knockouts are      *)
(* played again here.                                                      *)
(***************************************************************************)
EXTENDS Qualification, Draws

CONSTANT Scenarios

VARIABLES scenario,    \* the declared competition
          phase,       \* "rejected", "pools", "knockout" or "stage"
          graph,       \* the contests of the phase
          queue,       \* those not yet visited, sources first
          decided,     \* contest id -> result, for the visited ones that have one
          skipped,     \* conditional contests that were not needed
          tables,      \* pool -> its final table
          places,      \* destination structure -> its qualifiers, best first
          findings     \* structures that qualification or the draw failed, pools with an open tie

vars == <<scenario, phase, graph, queue, decided, skipped, tables, places, findings>>

(* An entrant who is not there, in a slot that is a bye or still open. *)
Nobody == 0

(* The results of contests that were played; a bye has a winner and nothing else. *)
Results == {decided[id] : id \in {x \in DOMAIN decided : decided[x].loser # Nobody}}

(* topologicalNodes: every contest after the ones that feed it. *)
TopologicalNodes(contests) ==
  LET depth == Depths(contests, EdgesOf(contests))
  IN  Listed(contests, LAMBDA a, b : depth[a.id] < depth[b.id])

(* roundRobin in graph.ts: in every round each pair of a pool meets once. *)
PoolContests(pools, sizes, rounds) ==
  LET Pairs(p) == {x \in Members(pools, p) \X Members(pools, p) : x[1] < x[2]}
  IN  UNION {{Contest(<<"P", p, r, x[1], x[2]>>, Entrant(x[1]), Entrant(x[2])) : x \in Pairs(p), r \in 1..rounds} :
               p \in DOMAIN sizes}

(* The contests of a structure carry its name. *)
NamedFor(structure, contests) ==
  LET Renamed(slot) == IF Dynamic(slot) THEN [slot EXCEPT !.ref = <<structure>> \o @] ELSE slot
  IN  {[c EXCEPT !.id = <<structure>> \o @, !.slots = <<Renamed(@[1]), Renamed(@[2])>>] : c \in contests}

(* elimination: a structure that was given too few entrants is filled with placeholders. *)
Filled(knockout, qualified) ==
  [k \in 1..knockout.count |-> IF k <= Len(qualified) THEN qualified[k] ELSE knockout.placeholders + k]

DrawOf(knockout, qualified, pools) ==
  LET entrants == Filled(knockout, qualified)
      pool == [e \in ToSet(entrants) |-> IF e \in DOMAIN pools THEN pools[e] ELSE 0]
  IN  [entrants |-> entrants, pool |-> pool, rules |-> knockout.rules,
       met |-> {pair \in SUBSET ToSet(entrants) :
                  Cardinality(pair) = 2 /\ \E p \in 1..Max(Range(pools)) : \A e \in pair : pool[e] = p}]

Knockout(structure, knockout, draw) ==
  NamedFor(structure, Bracket(KnockoutSlots(draw, knockout.optimised)))

(* The pools the entrants of a pooled competition are allocated to. *)
PoolsOf(s) == AllocatedPools(s.request, s.shuffled)

OpeningGraph(s) ==
  IF s.kind = "stage" THEN CompileStage(s.plan)
  ELSE IF PoolsOf(s) = NoPools \/ ~Evaluable(s.standings) THEN {} ELSE PoolContests(PoolsOf(s), s.request.sizes, s.rounds)

Init ==
  /\ scenario \in Scenarios
  /\ graph = OpeningGraph(scenario)
  /\ phase = IF graph = {} THEN "rejected" ELSE IF scenario.kind = "stage" THEN "stage" ELSE "pools"
  /\ queue = TopologicalNodes(graph)
  /\ decided = <<>>
  /\ skipped = {}
  /\ tables = <<>>
  /\ places = <<>>
  /\ findings = {}

(* resolveSlot.  The code lists a contest whose entrants never become known as unresolved and goes on;
   here it stays at the head of the queue, where Decidable below is false of it. *)
Occupant(slot) ==
  CASE slot.from = "entrant" -> slot.ref[1]
    [] slot.from = "bye" -> Nobody
    [] slot.from \in {"winner", "loser"} ->
         IF slot.ref \notin DOMAIN decided THEN Nobody
         ELSE IF slot.from = "winner" THEN decided[slot.ref].winner ELSE decided[slot.ref].loser

Occupants(contest) == <<Occupant(contest.slots[1]), Occupant(contest.slots[2])>>

(* The contest whose outcome a conditional contest waits for, and whether it asks for the contest. *)
ConditionSource(contest) == Node(graph, contest.condition[1])
ConditionKnown(contest) ==
  /\ contest.condition[1] \in DOMAIN decided
  /\ Occupant(ConditionSource(contest).slots[contest.condition[2]]) # Nobody
ConditionMet(contest) ==
  decided[contest.condition[1]].winner = Occupant(ConditionSource(contest).slots[contest.condition[2]])

Due(contest) == contest.condition # NoCondition => ConditionKnown(contest) /\ ConditionMet(contest)

Visit == queue # <<>> /\ queue' = Tail(queue)

Played(contest, score) ==
  LET pair == Occupants(contest)
      first == score[1] > score[2]
  IN  [entrants |-> pair, score |-> score,
       winner |-> IF first THEN pair[1] ELSE pair[2], loser |-> IF first THEN pair[2] ELSE pair[1]]

PlayContest ==
  /\ Visit
  /\ LET contest == Head(queue)
     IN  /\ contest.kind = "contest"
         /\ Due(contest)
         /\ Nobody \notin ToSet(Occupants(contest))
         /\ \E score \in scenario.lines[phase] : decided' = decided @@ (contest.id :> Played(contest, score))
  /\ UNCHANGED <<scenario, phase, graph, skipped, tables, places, findings>>

AdvanceBye ==
  /\ Visit
  /\ LET contest == Head(queue)
         present == ToSet(Occupants(contest)) \ {Nobody}
     IN  /\ contest.kind = "bye"
         /\ present # {}
         /\ decided' = decided @@ (contest.id :>
              [entrants |-> Occupants(contest), score |-> <<0, 0>>,
               winner |-> IF Occupant(contest.slots[1]) # Nobody THEN Occupant(contest.slots[1])
                          ELSE Occupant(contest.slots[2]),
               loser |-> Nobody])
  /\ UNCHANGED <<scenario, phase, graph, skipped, tables, places, findings>>

SkipConditional ==
  /\ Visit
  /\ LET contest == Head(queue)
     IN  /\ contest.condition # NoCondition
         /\ ConditionKnown(contest)
         /\ ~ConditionMet(contest)
         /\ skipped' = skipped \cup {contest.id}
  /\ UNCHANGED <<scenario, phase, graph, decided, tables, places, findings>>

PoolResults(p) == {decided[id] : id \in {x \in DOMAIN decided : x[1] = "P" /\ x[2] = p}}

FinalTables ==
  [p \in DOMAIN scenario.request.sizes |->
     PoolTable(scenario.standings, Members(PoolsOf(scenario), p), p, PoolResults(p), Results,
               scenario.manualOrder, scenario.drawOrder)]

(* The pools where a tie is left that the policy leaves to a seed or to the organiser. *)
TiedPools ==
  {p \in DOMAIN scenario.request.sizes :
     LET rows == [e \in Members(PoolsOf(scenario), p) |-> Row(PoolResults(p), e, p)]
     IN  UnresolvedTies(scenario.standings, rows, Results, scenario.manualOrder) # {}}

(* The draw of every structure, and the contests it gives. *)
DrawsFor(qualified) ==
  [d \in DOMAIN scenario.knockouts |-> DrawOf(scenario.knockouts[d], qualified[d], PoolsOf(scenario))]
KnockoutsFor(draws) ==
  UNION {Knockout(d, scenario.knockouts[d], draws[d]) : d \in DOMAIN scenario.knockouts}
FailedDraws(draws) ==
  {d \in DOMAIN draws : DrawFailed(draws[d], scenario.knockouts[d].optimised)}

(* The pools are played: rank them, qualify, and build the knockouts of the destinations. *)
BuildKnockouts ==
  /\ phase = "pools" /\ queue = <<>>
  /\ tables' = FinalTables
  /\ \E outcome \in {Qualify(scenario.qualification, [main |-> FlattenSeq(tables')], DOMAIN scenario.knockouts)} :
       /\ places' = [d \in DOMAIN scenario.knockouts |-> Ids(outcome.places[d])]
       /\ \E draws \in {DrawsFor([d \in DOMAIN scenario.knockouts |-> Ids(outcome.places[d])])} :
            /\ graph' = KnockoutsFor(draws)
            /\ findings' = {<<"qualification", d>> : d \in outcome.failed} \cup {<<"draw", d>> : d \in FailedDraws(draws)}
                            \cup {<<"tie", p>> : p \in TiedPools}
  /\ queue' = TopologicalNodes(graph')
  /\ phase' = "knockout"
  /\ UNCHANGED <<scenario, decided, skipped>>

Next == PlayContest \/ AdvanceBye \/ SkipConditional \/ BuildKnockouts

Spec == Init /\ [][Next]_vars

(***************************************************************************)
(* What the formats promise.                                               *)
(***************************************************************************)
Decidable(contest) ==
  /\ contest.condition # NoCondition => ConditionKnown(contest)
  /\ Due(contest) => IF contest.kind = "bye" THEN Occupants(contest) # <<Nobody, Nobody>>
                     ELSE Nobody \notin ToSet(Occupants(contest))

Competing == phase \in {"stage", "knockout"}
Finished == Competing /\ queue = <<>>

Ids3(bracket) == {id \in DOMAIN decided : id[1] = bracket}
PlayedIds == {id \in DOMAIN decided : decided[id].loser # Nobody}
In(ids, e) == {id \in ids : e \in ToSet(decided[id].entrants)}
Lost(ids, e) == Cardinality({id \in ids : decided[id].loser = e})
Winner(id) == decided[id].winner

RoundRobinPromise(n, legs) ==
  \A a, b \in 1..n : a # b =>
    LET meetings == In(In(PlayedIds, a), b)
        hosted == {id \in meetings : decided[id].entrants[1] = a}
    IN  /\ Cardinality(meetings) = legs
        /\ legs = 2 => Cardinality(hosted) = 1
        /\ \A id, other \in In(PlayedIds, a) : id # other => id[2] # other[2]

KnockOutPromise(ids, entrants, champion) ==
  /\ Lost(ids, champion) = 0
  /\ \A e \in entrants \ {champion} : Lost(ids, e) = 1

(* Nobody is out of a double elimination before the second defeat; without a reset final the
   winner of the winners' side may lose its only match, the grand final. *)
DoubleEliminationPromise(n, reset) ==
  LET last == IF ResetFinal \in DOMAIN decided THEN ResetFinal ELSE GrandFinal
      unbeaten == Winner(<<"W", Log2Ceiling(n), 1>>)
  IN  /\ \A e \in 1..n \ {Winner(last), unbeaten} : Lost(PlayedIds, e) = 2
      /\ Lost(PlayedIds, Winner(last)) <= 1
      /\ reset # "NEVER" /\ Winner(last) # unbeaten => Lost(PlayedIds, unbeaten) = 2
      /\ reset = "NEVER" => skipped = {} /\ last = GrandFinal
      /\ ResetFinal \in DOMAIN decided => Winner(GrandFinal) # unbeaten

(* Two third places: in each half the better of the beaten quarterfinalists meets the beaten
   semifinalist, and no finalist plays there. *)
RepechagePromise(n) ==
  LET rounds == Log2Ceiling(n)
      Half(h) == UNION {ToSet(decided[id].entrants) :
                          id \in {<<"W", rounds - 2, 2 * h - 1>>, <<"W", rounds - 2, 2 * h>>}}
      finalists == {Winner(<<"W", rounds - 1, h>>) : h \in 1..2}
      again(h) == UNION {ToSet(decided[id].entrants) : id \in {<<"REP", 1, h>>, <<"CLASS", 2, h>>}}
  IN  /\ KnockOutPromise(Ids3("W"), 1..n, Winner(<<"W", rounds, 1>>))
      /\ \A h \in 1..2 : again(h) = Half(h) \ finalists

PlayInPromise(n, mainDrawSize) ==
  LET beaten == {decided[id].loser : id \in PlayedIds}
      excused == {e \in 1..n : In(PlayedIds, e) = {}}
  IN  /\ Cardinality(1..n \ beaten) = mainDrawSize
      /\ {Occupant(slot) : slot \in PlayInQualifiers(n, mainDrawSize)} = 1..n \ beaten
      /\ \A e \in excused, f \in 1..n \ excused : e < f
      /\ \A e \in 1..n : Cardinality(In(PlayedIds, e)) <= 1

(* Each primitive, in terms of who played and lost what. *)
Promise(plan) ==
  LET n == plan.entrants
      title == FinalOf(n)
  IN  CASE plan.primitive = "single_round_robin" -> RoundRobinPromise(n, 1)
        [] plan.primitive = "double_round_robin" -> RoundRobinPromise(n, 2)
        [] plan.primitive = "single_elimination" ->
             /\ KnockOutPromise(Ids3("R"), 1..n, Winner(title))
             /\ plan.thirdPlace =>
                  ToSet(decided[<<"C", 1, 1>>].entrants) \cap ToSet(decided[title].entrants) = {}
        [] plan.primitive = "double_elimination" -> DoubleEliminationPromise(n, plan.resetFinalPolicy)
        [] plan.primitive = "repechage" -> RepechagePromise(n)
        [] plan.primitive = "play_in" -> PlayInPromise(n, plan.mainDrawSize)
        [] plan.primitive = "placement" -> KnockOutPromise(Ids3("R"), 1..n, Winner(title))
        [] plan.primitive = "custom_graph" -> DOMAIN decided = ContestIds(graph)

(* A compiled graph delivers what its format promises, however its contests end: the next contest
   always has its entrants, and at the end everybody has played and lost what the format says. *)
FormatKeepsItsPromise ==
  /\ queue # <<>> => Decidable(Head(queue))
  /\ Finished /\ phase = "stage" => Promise(scenario.plan)
  /\ Finished /\ phase = "knockout" =>
       \A d \in DOMAIN places :
         KnockOutPromise(Ids3(d), ToSet(Filled(scenario.knockouts[d], places[d])),
                         Winner(<<d>> \o FinalOf(scenario.knockouts[d].count)))

(* Where an entrant stands: the slots of contests to come, and outcomes nobody takes further. *)
Elimination == Competing /\ ~(phase = "stage" /\ scenario.plan.primitive \in {"single_round_robin", "double_round_robin"})
Visited == DOMAIN decided \cap ContestIds(graph)
Taken(slot) == \E c \in graph : c.id \notin skipped /\ slot \in ToSet(c.slots)
StandsIn(e) ==
  {<<c.id, i>> : <<c, i>> \in {x \in {c \in graph : c.id \notin Visited \cup skipped} \X (1..2) :
                                 Occupant(x[1].slots[x[2]]) = e}}
    \cup {WinnerOf(id) : id \in {x \in Visited : decided[x].winner = e /\ ~Taken(WinnerOf(x))}}
    \cup {LoserOf(id) : id \in {x \in Visited : decided[x].loser = e /\ ~Taken(LoserOf(x))}}

(* In a format that eliminates, every entrant is at any moment in exactly one place: it awaits one
   contest, or has one final place.  So nobody meets itself, and nobody is lost or placed twice. *)
EachEntrantInOnePlace ==
  Elimination => \A e \in ReferencedSeeds(graph) : Cardinality(StandsIn(e)) = 1

(* qualify: a structure gets exactly the number of entrants its policies declare, or none and a
   finding; and nobody is given to two structures. *)
QualifiersAreExact ==
  phase = "knockout" =>
    /\ \A d \in DOMAIN places :
         Len(places[d]) = IF <<"qualification", d>> \in findings THEN 0 ELSE scenario.knockouts[d].declared
    /\ \A d, other \in DOMAIN places, i, j \in 1..Len(FlattenSeq(tables)) :
         /\ i \in DOMAIN places[d] /\ j \in DOMAIN places[other]
         /\ places[d][i] = places[other][j]
         => d = other /\ i = j

WinsIn(p, e) == Cardinality({r \in PoolResults(p) : r.winner = e})

(* Where tables rank by wins first and the policies take the best, nobody goes on past a pool-mate who
   won more and went nowhere; when one structure takes the best, a pool-mate who won more is in it. *)
BetterRecordGoesOn ==
  phase = "knockout" /\ scenario.bestFirst =>
    \A p \in DOMAIN tables : \A a, b \in Members(PoolsOf(scenario), p) :
      WinsIn(p, a) > WinsIn(p, b) =>
        /\ b \in ToSet(places["main"]) => a \in ToSet(places["main"])
        /\ b \in UNION {ToSet(places[d]) : d \in DOMAIN places} =>
             a \in UNION {ToSet(places[d]) : d \in DOMAIN places}

(* Where head to head follows wins, of two entrants level on wins with nobody else the winner of their
   own contest ranks above the other, whatever their scores against the rest. *)
HeadToHeadDecides ==
  phase = "knockout" /\ scenario.headToHead =>
    \A p \in DOMAIN tables : \A r \in PoolResults(p) :
      WinsIn(p, r.winner) = WinsIn(p, r.loser)
        /\ (\A e \in Members(PoolsOf(scenario), p) \ {r.winner, r.loser} : WinsIn(p, e) # WinsIn(p, r.winner))
      => Position(Ids(tables[p]), r.winner) < Position(Ids(tables[p]), r.loser)

FirstContest(d, e) ==
  LET mine == In(Ids3(d), e) \cap PlayedIds
  IN  CHOOSE id \in mine : \A other \in mine : id[3] <= other[3]

(* A draw that reports no finding kept its hard rules in what is then played: nobody's first contest is
   against a pool-mate, the best two can meet only in the final, and the byes went to the best. *)
DrawKeepsItsRules ==
  Finished /\ phase = "knockout" =>
    \A d \in {x \in DOMAIN places : /\ scenario.knockouts[x].optimised
                                    /\ Len(places[x]) = scenario.knockouts[x].count
                                    /\ <<"draw", x>> \notin findings} :
      LET size == Log2Ceiling(Len(places[d]))
      IN  \A i, j \in DOMAIN places[d] :
            LET e == places[d][i]
                opening == FirstContest(d, e)
            IN  /\ Cardinality({PoolsOf(scenario)[x] : x \in ToSet(decided[opening].entrants)}) = 2
                /\ i = 1 /\ j = 2 => \A id \in In(In(Ids3(d), e), places[d][j]) : id[3] = size
                /\ opening[3] = 1 /\ FirstContest(d, places[d][j])[3] = 2 => j < i

(* A generated graph delivers what its format promises, and on the way     *)
(* every entrant is in exactly one place.                                  *)
GraphsKeepTheirPromise == FormatKeepsItsPromise /\ EachEntrantInOnePlace

(* Who goes on is decided by the contests the tables are made of.          *)
PlayDecides == BetterRecordGoesOn /\ HeadToHeadDecides
=============================================================================
