------------------------ MODULE MCDynamicStageStore ------------------------
(* Small instances of DynamicStageStore for TLC.                           *)
EXTENDS DynamicStageStore, TLC

(* With three entrants somebody sits out every round.                      *)
Swiss(n, rounds, ranking) ==
  [kind |-> "SWISS", slots |-> 4, entrants |-> 1..n, rounds |-> rounds, win |-> 2, draw |-> 1, bye |-> 2,
   pairing |-> [rematches |-> "FORBIDDEN", bye |-> "LOWEST_RANKED_WITHOUT_BYE"], finalRanking |-> ranking]
HeadToHeadLast == [version |-> "1", criteria |-> <<"POINTS", "HEAD_TO_HEAD", "COMPETITOR_ID">>]
BuchholzShared == [version |-> "1.0.0", criteria |-> <<"POINTS", "BUCHHOLZ">>, drop |-> 0, incomplete |-> "REJECT", ties |-> "SHARED_RANK"]

(* Two of three entrants run; the third has withdrawn.                     *)
Heats ==
  [kind |-> "HEATS", slots |-> 4, entrants |-> 1..3, withdrawn |-> {3}, mark |-> <<7, 5, 6>>, heatCount |-> 2, lanes |-> 1,
   lanePriority |-> <<1>>, betterMark |-> "LOWER", seedTies |-> "UNRESOLVED", places |-> 1,
   timeTies |-> "SHARED_RANK", cutoffTies |-> "UNRESOLVED", seedOrder |-> <<>>]
Ladder == [kind |-> "LADDER", slots |-> 2, initialOrder |-> <<1, 2, 3>>, entrants |-> 1..3, reach |-> 1]
Ranking(ties) == [kind |-> "RANKING", slots |-> 1, entrants |-> 1..3, places |-> 2, better |-> "HIGHER", cutoffTies |-> ties,
                  seedOrder |-> <<2, 3>>]

Stages == {Swiss(3, 3, BuchholzShared), Swiss(4, 2, HeadToHeadLast), Heats, Ladder, Ranking("SEED_ORDER"), Ranking("ADVANCE_ALL")}
StreamBound(d) ==
  CASE d.kind = "SWISS" -> IF d.entrants = 1..3 THEN 7 ELSE 5
    [] d.kind = "RANKING" -> 3
    [] d.kind = "HEATS" -> 4
    [] OTHER -> 5
ServedAtOnce(d) == IF d.kind = "SWISS" THEN 1 ELSE 2
Interchangeable == Permutations(Processes)

(* What clients ask of a stage they see: the next step, and afterwards     *)
(* corrections and voids, some of them of what is no longer current.       *)
SwissResults(pairings) ==
  {r \in [DOMAIN pairings -> {None} \union UNION {{pairings[b][1], pairings[b][2]} : b \in DOMAIN pairings}] :
     ValidSwissResults(pairings, r)}

SwissRequestsOf(s) ==
  LET r == s.runtime
  IN  IF s.phase = "RUNNING" THEN {[kind |-> "SUBMIT_SWISS_ROUND", round |-> r.round, results |-> x] : x \in SwissResults(r.pairings)}
      ELSE IF s.phase # "COMPLETE" THEN {}
      ELSE LET last == r.completed[Len(r.completed)]
           IN  {[kind |-> "VOID_SWISS_ROUND", round |-> Len(r.completed), supersedes |-> last.results]}
               \union {[kind |-> "CORRECT_SWISS_ROUND", round |-> Len(r.completed), supersedes |-> last.results, results |-> x] :
                         x \in SwissResults(last.pairings) \ {last.results}}

HeatRequestsOf(d, s) ==
  LET r == s.runtime.recorded
      open == ActiveEntrants(d) \ DOMAIN r
  IN  {[kind |-> "SUBMIT_HEAT_RESULTS", results |-> x] :
         x \in (UNION {[{i} -> {1, 2}] : i \in open}) \union [open -> {1, 2, F!DNF}]}
      \union {[kind |-> "CORRECT_HEAT_RESULT", who |-> i, supersedes |-> r[i], result |-> 3] : i \in F!Timed(r)}
      \union {[kind |-> "VOID_HEAT_RESULT", who |-> i, supersedes |-> r[i]] : i \in DOMAIN r}

RequestsFor(d, s) ==
  CASE s.phase = "DEFINITION" -> {[kind |-> "PREPARE"]}
    [] s.phase = "READY" -> {[kind |-> "START"]}
    [] d.kind = "SWISS" -> SwissRequestsOf(s)
    [] d.kind = "HEATS" -> HeatRequestsOf(d, s)
    [] d.kind = "LADDER" ->
         {[kind |-> "COMPLETE_LADDER"]}
         \union {[kind |-> "RECORD_LADDER_CHALLENGE", challenger |-> a, defender |-> b, winner |-> w] :
                   a \in {2, 3}, b \in {1, 2}, w \in {1, 2}}
    [] d.kind = "RANKING" -> {[kind |-> "SUBMIT_RANKING_RESULTS", scores |-> x] : x \in [d.entrants -> {1, 2}]}
=============================================================================
