--------------------------- MODULE SwissRanking ----------------------------
(* Final ranking of a Swiss stage (swiss-ranking.ts).  Entrants are        *)
(* numbers, compared as their ids are.  A round is [games, byes]; a game   *)
(* is [left, right, result].  Half points of Sonneborn-Berger are counted  *)
(* in units of one half.  A policy is                                      *)
(*   [criteria, win, draw, loss, bye, drop, incomplete, ties].             *)
EXTENDS Integers, Sequences, FiniteSets, TLC
LOCAL INSTANCE FiniteSetsExt

(* A metric that cannot be computed ranks below every other, all of which  *)
(* are at least 0.                                                         *)
Unresolved == -1
LeftWin == "LEFT_WIN"
RightWin == "RIGHT_WIN"
Draw == "DRAW"
Pending == "PENDING"

Criteria == {"POINTS", "BUCHHOLZ", "MEDIAN_BUCHHOLZ", "SONNEBORN_BERGER", "HEAD_TO_HEAD", "PROGRESSIVE_SCORE"}

PolicyValid(p) ==
  /\ p.criteria # <<>>
  /\ p.criteria[1] = "POINTS"
  /\ \A i, j \in DOMAIN p.criteria : p.criteria[i] \in Criteria /\ (i # j => p.criteria[i] # p.criteria[j])
  /\ \A x \in {p.win, p.draw, p.loss, p.bye, p.drop} : x >= 0
  /\ p.win > p.draw
  /\ p.draw >= p.loss

Plays(g, i) == i \in {g.left, g.right}
Opponent(g, i) == IF g.left = i THEN g.right ELSE g.left

(* In halves: what of the opponent's score a player has taken.             *)
Factor(g, i) ==
  CASE g.result = Draw -> 1
    [] g.result = LeftWin -> IF g.left = i THEN 2 ELSE 0
    [] g.result = RightWin -> IF g.right = i THEN 2 ELSE 0
    [] OTHER -> 0

GamePoints(p, g, i) ==
  IF g.result = Pending THEN 0 ELSE CASE Factor(g, i) = 2 -> p.win [] Factor(g, i) = 1 -> p.draw [] OTHER -> p.loss

Gained(p, round, i) ==
  IF i \in round.byes THEN p.bye ELSE MapThenSumSet(LAMBDA g : GamePoints(p, g, i), {g \in round.games : Plays(g, i)})

PointsAfter(p, rounds, k, i) == MapThenSumSet(LAMBDA r : Gained(p, rounds[r], i), 1..k)
Points(p, rounds, i) == PointsAfter(p, rounds, Len(rounds), i)
Progressive(p, rounds, i) == MapThenSumSet(LAMBDA k : PointsAfter(p, rounds, k, i), 1..Len(rounds))

(* The games of a player, with the number of their round.                  *)
GamesOf(rounds, i) == {m \in UNION {{k} \X rounds[k].games : k \in DOMAIN rounds} : Plays(m[2], i)}
OpponentPoints(points, m, i) == points[Opponent(m[2], i)]

Buchholz(points, rounds, i) == MapThenSumSet(LAMBDA m : OpponentPoints(points, m, i), GamesOf(rounds, i))
SonnebornBerger(points, rounds, i) ==
  MapThenSumSet(LAMBDA m : Factor(m[2], i) * OpponentPoints(points, m, i), GamesOf(rounds, i))

(* The opponents' points without the lowest and the highest p.drop.        *)
MedianBuchholz(p, points, rounds, i) ==
  LET games  == GamesOf(rounds, i)
      n      == Cardinality(games)
      gained == [m \in games |-> OpponentPoints(points, m, i)]
      sorted == SortSeq([k \in 1..n |-> gained[
                  CHOOSE m \in games : Cardinality({o \in games : o[1] < m[1]}) = k - 1]], LAMBDA x, y : x < y)
  IN  IF n < 2 * p.drop + 1 THEN Unresolved ELSE MapThenSumSet(LAMBDA k : sorted[k], (p.drop + 1)..(n - p.drop))

(* Only within a group level on points, and only when each two of its      *)
(* members have exactly one finished game.                                 *)
HeadToHead(p, points, rounds, i) ==
  LET group   == {j \in DOMAIN points : points[j] = points[i]}
      between(a, b) == {m \in GamesOf(rounds, a) : Plays(m[2], b) /\ m[2].result # Pending}
  IN  IF \E a, b \in group : a # b /\ Cardinality(between(a, b)) # 1 THEN Unresolved
      ELSE MapThenSumSet(LAMBDA j : GamePoints(p, (CHOOSE m \in between(i, j) : TRUE)[2], i), group \ {i})

Metric(p, points, rounds, criterion, i) ==
  CASE criterion = "POINTS" -> points[i]
    [] criterion = "BUCHHOLZ" -> Buchholz(points, rounds, i)
    [] criterion = "MEDIAN_BUCHHOLZ" -> MedianBuchholz(p, points, rounds, i)
    [] criterion = "SONNEBORN_BERGER" -> SonnebornBerger(points, rounds, i)
    [] criterion = "HEAD_TO_HEAD" -> HeadToHead(p, points, rounds, i)
    [] criterion = "PROGRESSIVE_SCORE" -> Progressive(p, rounds, i)

(* A round pairs registered entrants at most once; a bye is for one who    *)
(* does not play.                                                          *)
RoundLawful(entrants, round) ==
  /\ \A g \in round.games : g.left # g.right /\ {g.left, g.right} \subseteq entrants
  /\ \A g, h \in round.games : g # h => {g.left, g.right} \cap {h.left, h.right} = {}
  /\ round.byes \subseteq {i \in entrants : \A g \in round.games : ~Plays(g, i)}

Complete(entrants, rounds) ==
  \A k \in DOMAIN rounds :
    /\ \A g \in rounds[k].games : g.result # Pending
    /\ \A i \in entrants : i \in rounds[k].byes \/ \E g \in rounds[k].games : Plays(g, i)

(* Ahead: better on the first criterion on which two entrants differ.      *)
AheadOn(p, value, i, j) ==
  \E k \in DOMAIN p.criteria :
    /\ value[i][k] > value[j][k]
    /\ \A l \in 1..(k - 1) : value[i][l] = value[j][l]

Rejected == [status |-> "REJECTED"]

Values(p, entrants, points, rounds) ==
  [i \in entrants |-> [k \in DOMAIN p.criteria |-> Metric(p, points, rounds, p.criteria[k], i)]]

RankByValues(p, entrants, rounds, points, value) ==
  LET ahead(i, j) == \/ AheadOn(p, value, i, j)
                     \/ p.ties = "COMPETITOR_ID" /\ value[i] = value[j] /\ i < j
      lacking == \/ ~Complete(entrants, rounds)
                 \/ \E k \in DOMAIN p.criteria : p.criteria[k] = "MEDIAN_BUCHHOLZ"
                                                  /\ \E i \in entrants : value[i][k] = Unresolved
  IN  IF \/ ~PolicyValid(p)
         \/ Cardinality(entrants) < 2
         \/ rounds = <<>>
         \/ \E k \in DOMAIN rounds : ~RoundLawful(entrants, rounds[k])
         \/ lacking /\ p.incomplete = "REJECT"
         \/ p.ties = "REJECT" /\ \E i, j \in entrants : i # j /\ value[i] = value[j]
      THEN Rejected
      ELSE [status |-> IF lacking THEN "PROVISIONAL" ELSE "CERTIFIED",
            rank   |-> [i \in entrants |-> 1 + Cardinality({j \in entrants : ahead(j, i)})],
            points |-> points]

RankByPoints(p, entrants, rounds, points) ==
  RankByValues(p, entrants, rounds, points, Values(p, entrants, points, rounds))
RankWithPolicy(p, entrants, rounds) ==
  RankByPoints(p, entrants, rounds, [i \in entrants |-> Points(p, rounds, i)])
=============================================================================
