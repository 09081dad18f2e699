----------------------------- MODULE Standings -----------------------------
(***************************************************************************)
(* standings.ts: the table of a pool from the results of its contests, and *)
(* the order its policy gives.  Entrants are numbers, so that their order  *)
(* stands for the order of their ids.                                      *)
(***************************************************************************)
EXTENDS Integers, FiniteSets, FiniteSetsExt, SequencesExt

(* Percentages are compared in twelfths, exact for up to four contests and for six. *)
Twelfths(a, b) == IF b = 0 THEN 0 ELSE (12 * a) \div b

(* A result: the two entrants in slot order, their scores and the winner. *)
Side(result, e) == IF result.entrants[1] = e THEN 1 ELSE 2
ResultsOf(results, e) == {r \in results : e \in {r.entrants[1], r.entrants[2]}}
ScoreFor(result, e) == result.score[Side(result, e)]
ScoreAgainst(result, e) == result.score[3 - Side(result, e)]
Wins(results, e) == Cardinality({r \in ResultsOf(results, e) : r.winner = e})
TotalOver(results, Op(_)) == MapThenSumSet(Op, results)

Row(results, e, pool) ==
  LET mine == ResultsOf(results, e)
      For(r) == ScoreFor(r, e)
      Against(r) == ScoreAgainst(r, e)
  IN  [entrant |-> e, pool |-> pool, rank |-> 0, played |-> Cardinality(mine), wins |-> Wins(results, e),
       losses |-> Cardinality(mine) - Wins(results, e),
       scoreFor |-> TotalOver(mine, For), scoreAgainst |-> TotalOver(mine, Against)]

Difference(row) == row.scoreFor - row.scoreAgainst

Metric(row, name) ==
  CASE name = "played" -> row.played
    [] name = "wins" -> row.wins
    [] name = "losses" -> row.losses
    [] name = "score_for" -> row.scoreFor
    [] name = "score_against" -> row.scoreAgainst
    [] name = "score_difference" -> Difference(row)
    [] name = "winning_percentage" -> Twelfths(row.wins, row.played)

RegisteredMetrics == {"played", "wins", "losses", "score_for", "score_against", "score_difference",
                      "winning_percentage", "head_to_head"}

(* Head to head: the table of the results among the tied entrants alone. *)
(* A mistake the run must notice: the results against the rest count as well. *)
BugHeadToHead(results, group, e) ==
  LET row == Row(results, e, 0) IN <<row.wins, Difference(row), row.scoreFor>>

HeadToHead(results, group, e) ==
  LET among == {r \in results : {r.entrants[1], r.entrants[2]} \subseteq group}
      row == Row(among, e, 0)
  IN  <<row.wins, Difference(row), row.scoreFor>>

(* What a criterion compares, within a group level on every earlier criterion.  results are all the
   results handed to the calculation: head to head does not ask which stage they belong to. *)
CriterionKey(criterion, rows, results, group, e) ==
  IF criterion.metric = "head_to_head" THEN HeadToHead(results, group, e)
  ELSE <<Metric(rows[e], criterion.metric)>>

(* Levels(...)[k + 1][e] is the group entrant e is still level with after k criteria. *)
Levels(policy, rows, results) ==
  LET Split(levels, criterion) ==
        LET group == Last(levels)
            key == [e \in DOMAIN rows |-> CriterionKey(criterion, rows, results, group[e], e)]
        IN  Append(levels, [e \in DOMAIN rows |-> {f \in group[e] : key[f] = key[e]}])
  IN  FoldLeft(Split, <<[e \in DOMAIN rows |-> DOMAIN rows]>>, policy.metricOrder)

(* a before b, both sequences of numbers of one length. *)
LexLess(a, b) == \E i \in DOMAIN a : a[i] < b[i] /\ \A j \in 1..i - 1 : a[j] = b[j]

BetterKey(direction, a, b) == IF direction = "ASC" THEN LexLess(a, b) ELSE LexLess(b, a)

(* An order recorded for exactly this tie. *)
RecordedOrders(manualOrder, group) == {order \in manualOrder : ToSet(order) = group /\ Len(order) = Cardinality(group)}

Position(order, e) == CHOOSE i \in DOMAIN order : order[i] = e

(* What decides a tie no criterion breaks; drawOrder is the order of the seeded hashes. *)
FallbackBefore(policy, manualOrder, drawOrder, group, a, b) ==
  IF policy.tieFallback = "deterministic_draw" /\ policy.seeded
  THEN Position(drawOrder, a) < Position(drawOrder, b)
  ELSE IF policy.tieFallback = "manual_decision" /\ RecordedOrders(manualOrder, group) # {}
  THEN LET order == CHOOSE o \in RecordedOrders(manualOrder, group) : TRUE
       IN  Position(order, a) < Position(order, b)
  ELSE a < b

(* a ranks before b: at the first criterion that separates them, or by the fallback. *)
RanksBefore(policy, rows, results, levels, manualOrder, drawOrder, a, b) ==
  LET Key(k, e) == CriterionKey(policy.metricOrder[k], rows, results, levels[k][a], e)
  IN  IF b \in Last(levels)[a]
      THEN FallbackBefore(policy, manualOrder, drawOrder, Last(levels)[a], a, b)
      ELSE LET k == Min({i \in DOMAIN policy.metricOrder : b \notin levels[i + 1][a]})
           IN  BetterKey(policy.metricOrder[k].direction, Key(k, a), Key(k, b))

(* The ties that raise a finding: a draw without a seed, a decision nobody recorded. *)
UnresolvedTies(policy, rows, results, manualOrder) ==
  LET level == Last(Levels(policy, rows, results))
      ties == {level[e] : e \in {f \in DOMAIN rows : Cardinality(level[f]) > 1}}
  IN  CASE policy.tieFallback = "deterministic_draw" -> IF policy.seeded THEN {} ELSE ties
        [] policy.tieFallback = "manual_decision" -> {t \in ties : RecordedOrders(manualOrder, t) = {}}
        [] OTHER -> {}

InOrder(rows, rank) ==
  LET At(k) == CHOOSE e \in DOMAIN rows : rank[e] = k
  IN  [k \in 1..Cardinality(DOMAIN rows) |-> [rows[At(k)] EXCEPT !.rank = k]]

Ranked(policy, rows, results, levels, manualOrder, drawOrder) ==
  [e \in DOMAIN rows |-> 1 + Cardinality({f \in DOMAIN rows \ {e} :
                            RanksBefore(policy, rows, results, levels, manualOrder, drawOrder, f, e)})]

(* The rows of a pool in order, each with its rank: 1, 2, 3, ... whatever the fallback. *)
PoolTable(policy, entrants, pool, poolResults, results, manualOrder, drawOrder) ==
  LET rows == [e \in entrants |-> Row(poolResults, e, pool)]
  IN  InOrder(rows, Ranked(policy, rows, results, Levels(policy, rows, results), manualOrder, drawOrder))

(* An unregistered metric refuses the policy as a whole. *)
Evaluable(policy) == \A i \in DOMAIN policy.metricOrder : policy.metricOrder[i].metric \in RegisteredMetrics

(* normalizedStandingScore: what compares entrants of different pools. *)
NormalizedScore(row, normalization) ==
  IF normalization = "none" THEN <<row.wins, Difference(row), row.scoreFor>>
  ELSE <<Twelfths(row.wins, row.played), Twelfths(Difference(row), row.played), Twelfths(row.scoreFor, row.played)>>
=============================================================================
