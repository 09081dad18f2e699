--------------------------- MODULE MCScenarioRun ---------------------------
(***************************************************************************)
(* Scenarios for ScenarioRun: every static format at its small sizes, all  *)
(* custom graphs of two nodes, and pools of two to four entrants with the  *)
(* policies that decide who goes on.                                       *)
(***************************************************************************)
EXTENDS ScenarioRun

(* Two outcomes where only the winner counts; four where scores break ties. *)
WinLoss == {<<1, 0>>, <<0, 1>>}
WithMargins == {<<1, 0>>, <<0, 1>>, <<3, 0>>, <<0, 3>>}

Plan(primitive, n) ==
  [primitive |-> primitive, entrants |-> n, seeds |-> [i \in 1..n |-> i], approved |-> TRUE, thirdPlace |-> FALSE]

Stage(plan) == [kind |-> "stage", plan |-> plan, lines |-> [stage |-> WinLoss]]

RoundRobins ==
  {Plan("single_round_robin", n) : n \in 2..4} \cup {Plan("double_round_robin", n) : n \in 2..3}
Eliminations ==
  {[Plan("single_elimination", n) EXCEPT !.thirdPlace = third] : n \in 2..6, third \in BOOLEAN}
DoubleEliminations ==
  {Plan("double_elimination", n) @@ [resetFinalPolicy |-> policy] : n \in {2, 3, 4}, policy \in {"NEVER", "IF_NECESSARY"}}
  \cup {Plan("double_elimination", 8) @@ [resetFinalPolicy |-> "IF_NECESSARY"]}
Repechages == {Plan("repechage", n) : n \in {4, 8}}
PlayIns == {Plan("play_in", n) @@ [mainDrawSize |-> size] : n \in 3..6, size \in 2..4}

(* Losers of a bracket of four or five meet for the places behind; a bye has no loser to place. *)
LoserPorts(n) == {LoserOf(c.id) : c \in Bracket(SeededPositions(n)) \ {Node(Bracket(SeededPositions(n)), FinalOf(n))}}
Classifications ==
  UNION {{Plan("placement", n) @@ [contests |-> {<<a, b, 3, 4>>}] : a, b \in LoserPorts(n)} : n \in {4, 5}}

(* Every custom graph of two contests, or of a bye and a contest. *)
CustomSlots(n) == {Entrant(s) : s \in 1..n} \cup {WinnerOf(<<"X", 1>>), LoserOf(<<"X", 1>>), WinnerOf(<<"X", 2>>), LoserOf(<<"X", 2>>)}
CustomNode(k, kind, slots) == [id |-> <<"X", k>>, kind |-> kind, slots |-> slots, outputs |-> OutputsOf(kind)]
CustomDefinitions(n) ==
  {[entrants |-> n, nodes |-> {CustomNode(1, kind, IF kind = "bye" THEN <<a>> ELSE <<a, b>>), CustomNode(2, "contest", <<c, d>>)}] :
     kind \in {"bye", "contest"}, a, b, c, d \in CustomSlots(n)}
Customs == UNION {{Plan("custom_graph", n) @@ [definition |-> definition] : definition \in CustomDefinitions(n)} : n \in {2, 3}}

(* A plan whose seeds are not 1..n, and one that was changed after its approval. *)
Refused == {[Plan("single_elimination", 3) EXCEPT !.seeds = <<1, 2, 2>>], [Plan("single_elimination", 3) EXCEPT !.approved = FALSE]}

By(metric, direction) == [metric |-> metric, direction |-> direction]
StandingsBy(order, fallback) == [metricOrder |-> order, tieFallback |-> fallback, seeded |-> TRUE]
WinsThenMeetings == <<By("wins", "DESC"), By("head_to_head", "DESC"), By("score_difference", "DESC")>>
WinsThenScores == <<By("winning_percentage", "DESC"), By("score_against", "ASC"), By("score_for", "DESC")>>

Policy(destination, selectors, count) ==
  [source |-> "main", destination |-> destination, normalization |-> "per_match", selectors |-> selectors, outputCount |-> count]
Winners == [type |-> "pool_winners"]
SecondPlaces(n) == [type |-> "best_n_across_pools", position |-> 2, count |-> n]
Best(n) == [type |-> "top_n", count |-> n]
Rest == [type |-> "remainder"]
AtLeastWins(n) == [type |-> "threshold", metric |-> [type |-> "value", key |-> "wins"], comparison |-> "AT_LEAST", value |-> n]
BestRatio(n, ties) ==
  [type |-> "ranking", metric |-> [type |-> "ratio", key |-> "wins", over |-> "played"], direction |-> "HIGHER",
   count |-> n, tiePolicy |-> ties, eligibleRank |-> 0]

Hard == [enabled |-> TRUE, hard |-> TRUE]
Soft == [enabled |-> TRUE, hard |-> FALSE]
RulesOf(strength) ==
  [structural_validity |-> Hard @@ [priority |-> 0], protected_byes |-> Hard @@ [priority |-> 1],
   avoid_same_pool_rematch |-> Hard @@ [priority |-> 2], protected_seed_separation |-> strength @@ [priority |-> 3],
   avoid_any_rematch |-> Soft @@ [priority |-> 4]]
Into(count, optimised) ==
  [count |-> count, declared |-> count, placeholders |-> IF optimised THEN 100 ELSE 200, optimised |-> optimised, rules |-> RulesOf(Hard)]

Request(sizes, allocation, rules) ==
  LET n == FoldFunction(+, 0, sizes)
  IN  [entrants |-> [i \in 1..n |-> i], seed |-> [i \in 1..n |-> i], sizes |-> sizes, allocation |-> allocation,
       rules |-> rules, named |-> [i \in 1..n |-> IF i = 1 THEN 2 ELSE 1]]

Pools(sizes, allocation, order, policies, knockouts) ==
  LET n == FoldFunction(+, 0, sizes)
  IN  [kind |-> "pools", request |-> Request(sizes, allocation, {}), shuffled |-> [i \in 1..n |-> n + 1 - i], rounds |-> 1,
       standings |-> StandingsBy(order, "deterministic_draw"), manualOrder |-> {}, drawOrder |-> [i \in 1..n |-> n + 1 - i],
       qualification |-> policies, knockouts |-> knockouts, lines |-> [pools |-> WithMargins, knockout |-> WinLoss],
       bestFirst |-> TRUE, headToHead |-> order = WinsThenMeetings]

Main(count) == [main |-> Into(count, TRUE)]
MainAndPlate(count, plate) == [main |-> Into(count, TRUE), plate |-> Into(plate, FALSE)]

(* Pool winners and the best second go to the main draw, the best of the others to the plate. *)
TwoLevels ==
  {Pools(<<3, 2>>, allocation, order, <<Policy("main", <<Winners, SecondPlaces(1)>>, 3), Policy("plate", <<others>>, 2)>>,
         MainAndPlate(3, 2)) :
     <<allocation, order, others>> \in {<<"random", WinsThenScores, Best(2)>>, <<"optimised", WinsThenMeetings, Rest>>}}

(* The best four or all five of two pools, or all six of three: where two pools fill eight places
   no draw keeps every rule. *)
OneDraw ==
  {[Pools(<<3, 2>>, "snake", WinsThenMeetings, <<Policy("main", <<Best(n)>>, n)>>, Main(n)) EXCEPT !.lines.pools = WinLoss] :
     n \in {4, 5}}
  \cup {[Pools(<<2, 2, 2>>, "snake", WinsThenScores, <<Policy("main", <<Best(6)>>, 6)>>, Main(6)) EXCEPT !.lines.pools = WinLoss]}

(* Declarative selectors: a cutoff that may be tied, a threshold few or many may reach. *)
Declared ==
  {[Pools(<<4>>, "snake", WinsThenMeetings, <<Policy("main", <<BestRatio(2, ties)>>, 2), Policy("plate", <<Rest>>, 2)>>,
          MainAndPlate(2, 2)) EXCEPT !.lines.pools = WinLoss] : ties \in {"REJECT", "INCLUDE_ALL", "CANDIDATE_ID"}}
  \cup {Pools(<<3>>, "snake", WinsThenScores, <<Policy("main", <<AtLeastWins(1)>>, 2)>>, [main |-> Into(2, FALSE)])}

(* Constraints on pools that can be kept, that cannot, and an allocation by name that does not close. *)
Constrained ==
  {[Pools(<<3, 2>>, allocation, WinsThenScores, <<Policy("main", <<Winners>>, 2)>>, [main |-> Into(2, FALSE)])
      EXCEPT !.request.rules = {[kind |-> kind, entrants |-> pair]}, !.lines.pools = WinLoss] :
     allocation \in {"optimised", "manual"}, kind \in {"TOGETHER", "SEPARATE"}, pair \in {{1, 2}, {1, 4, 5}}}

(* The remaining selectors, and ties that are left to a recorded order or to nobody. *)
AtPosition(n) == [type |-> "pool_position", position |-> n]
Worst(n) == [type |-> "bottom_n", count |-> n]
Undecided == [type |-> "manual_decision"]
Named(candidates, approved) == [type |-> "authority", candidates |-> candidates, approvedFor |-> approved]
Others ==
  {[Pools(<<3>>, "snake", <<By("wins", "DESC")>>, <<Policy("main", <<first>>, 1), Policy("plate", <<second>>, 1)>>,
          [main |-> [Into(2, TRUE) EXCEPT !.declared = 1], plate |-> [Into(2, FALSE) EXCEPT !.declared = 1]])
      EXCEPT !.lines.pools = WinLoss, !.standings.tieFallback = fallback, !.standings.seeded = FALSE,
             !.manualOrder = {<<3, 1, 2>>}, !.bestFirst = FALSE] :
     first \in {AtPosition(2), Undecided, Named({2}, <<1, {2}>>), Named({2}, <<1, {1}>>)}, second \in {Worst(1)},
     fallback \in {"manual_decision", "deterministic_draw", "shared_rank"}}
  \cup {Pools(<<3>>, "snake", <<By("unregistered", "DESC")>>, <<Policy("main", <<Winners>>, 1)>>, Main(2))}

(* The main draw is fed twice, and its second policy fails where the table is tied: what the first gave it
   is free again for the plate that chooses afterwards, and lost where the plate has chosen before. *)
FailingLate ==
  LET first == Policy("main", <<Best(1)>>, 1)
      second == Policy("main", <<BestRatio(1, "REJECT")>>, 1)
      Run(policies, plate) ==
        [Pools(<<4>>, "snake", WinsThenMeetings, policies,
               [main |-> Into(2, TRUE), plate |-> [Into(2, FALSE) EXCEPT !.declared = plate]])
           EXCEPT !.lines.pools = WinLoss]
  IN  {Run(<<first, second, Policy("plate", <<Best(2)>>, 2)>>, 2),
       [Run(<<first, Policy("plate", <<Best(1)>>, 1), second>>, 1) EXCEPT !.bestFirst = FALSE]}

Pooled == TwoLevels \cup OneDraw \cup Declared \cup Constrained \cup Others \cup FailingLate

MCScenarios ==
  {Stage(plan) : plan \in RoundRobins \cup Eliminations \cup DoubleEliminations \cup Repechages \cup PlayIns
                            \cup Classifications \cup Customs \cup Refused}
  \cup Pooled
=============================================================================
