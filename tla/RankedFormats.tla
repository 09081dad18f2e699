--------------------------- MODULE RankedFormats ---------------------------
(* The format engines of ranked-formats.ts: Swiss pairing, ladders,        *)
(* qualifying heats, time trials and ranking qualification.  Entrants are  *)
(* numbers, compared as their ids are.                                     *)
EXTENDS Integers, Sequences, FiniteSets, TLC
Seqs == INSTANCE SequencesExt

NoEntrant == 0
Refused == [status |-> "REJECTED"]

----------------------------------------------------------------------------
(* Swiss: C maps an entrant to [points, opponents, byes].                  *)

(* Ahead when a round is paired: on points, then by id.                    *)
Leads(C, a, b) == C[a].points > C[b].points \/ (C[a].points = C[b].points /\ a < b)

LexLess(s, t) == \E i \in DOMAIN s : s[i] < t[i] /\ \A j \in 1..(i - 1) : s[j] = t[j]

Gap(C, a, b) == IF C[a].points > C[b].points THEN C[a].points - C[b].points ELSE C[b].points - C[a].points
Rematch(C, a, b) == b \in C[a].opponents \/ a \in C[b].opponents

(* The ways to pair off a field on n boards, in the order the search       *)
(* builds them: the first entrant left over meets somebody behind.         *)
Matchings(C, field, n) ==
  {m \in [1..n -> {p \in field \X field : Leads(C, p[1], p[2])}] :
     \A k, l \in 1..n : k < l => /\ Leads(C, m[k][1], m[l][1])
                                /\ {m[k][1], m[k][2]} \cap {m[l][1], m[l][2]} = {}}

Rematches(C, b) == Cardinality({k \in DOMAIN b : Rematch(C, b[k][1], b[k][2])})
TotalGap(C, b) ==
  LET sum[k \in 0..Len(b)] == IF k = 0 THEN 0 ELSE sum[k - 1] + Gap(C, b[k][1], b[k][2])
  IN  sum[Len(b)]

(* The fewest rematches, then the smallest total score gap, then the       *)
(* lexically first boards.                                                 *)
Listed(b) == [x \in 1..(2 * Len(b)) |-> b[(x + 1) \div 2][IF x % 2 = 1 THEN 1 ELSE 2]]
Cost(C, b) == <<Rematches(C, b), TotalGap(C, b)>> \o Listed(b)
Best(C, lawful) == CHOOSE b \in lawful : \A c \in lawful \ {b} : LexLess(Cost(C, b), Cost(C, c))

(* An odd field gives its lowest-ranked eligible entrant a bye; the rest   *)
(* are paired the best way there is.                                       *)
Odd(C) == Cardinality(DOMAIN C) % 2 = 1
Eligible(C, policy) == {i \in DOMAIN C : policy.bye = "LOWEST_RANKED_WITHOUT_BYE" => C[i].byes = 0}
ByeOf(C, policy) ==
  IF Odd(C) /\ Eligible(C, policy) # {}
  THEN CHOOSE i \in Eligible(C, policy) : \A j \in Eligible(C, policy) \ {i} : Leads(C, j, i)
  ELSE NoEntrant
LawfulPairings(C, policy) ==
  {m \in Matchings(C, DOMAIN C \ {ByeOf(C, policy)}, Cardinality(DOMAIN C) \div 2) :
     policy.rematches = "FORBIDDEN" => Rematches(C, m) = 0}

PairSwissRound(C, policy) ==
  IF \/ Cardinality(DOMAIN C) < 2
     \/ Odd(C) /\ (policy.bye = "NONE" \/ Eligible(C, policy) = {})
     \/ LawfulPairings(C, policy) = {}
  THEN Refused
  ELSE [status |-> "CERTIFIED", bye |-> ByeOf(C, policy), pairings |-> Best(C, LawfulPairings(C, policy))]

----------------------------------------------------------------------------
(* Ladder: a challenger below a defender, within reach, takes the          *)
(* defender's place by winning.                                            *)

PositionOf(s, x) == CHOOSE i \in DOMAIN s : s[i] = x

ApplyLadderChallenge(order, challenger, defender, winner, reach) ==
  IF /\ {challenger, defender} \subseteq Seqs!ToSet(order)
     /\ winner \in {challenger, defender}
     /\ PositionOf(order, challenger) - PositionOf(order, defender) \in 1..reach
  THEN [status |-> "CERTIFIED",
        order |-> IF winner = challenger
                  THEN Seqs!InsertAt(Seqs!Remove(order, challenger), PositionOf(order, defender), challenger)
                  ELSE order]
  ELSE Refused

----------------------------------------------------------------------------
(* Heats: mark maps the active entrants to their seed marks.               *)

AssignQualifyingHeats(mark, heatCount, lanes, lanePriority, better, tiePolicy) ==
  LET seeded == Seqs!SetToSortSeq(DOMAIN mark, LAMBDA a, b :
                  IF mark[a] = mark[b] THEN a < b ELSE (mark[a] < mark[b]) = (better = "LOWER"))
      row(k)    == (k - 1) \div heatCount
      offset(k) == (k - 1) % heatCount
      heat(k)   == IF row(k) % 2 = 0 THEN offset(k) + 1 ELSE heatCount - offset(k)
      seedOf(i) == PositionOf(seeded, i)
      tied   == \E a, b \in DOMAIN mark : a # b /\ mark[a] = mark[b]
  IN  IF \/ Cardinality(DOMAIN mark) > heatCount * lanes
         \/ Len(lanePriority) # lanes
         \/ Seqs!ToSet(lanePriority) # 1..lanes
         \/ tied /\ tiePolicy # "COMPETITOR_ID"
      THEN Refused
      ELSE [status |-> "CERTIFIED",
            heats  |-> [i \in DOMAIN mark |->
                         [heat |-> heat(seedOf(i)), seedRank |-> seedOf(i),
                          lane |-> lanePriority[Cardinality({j \in DOMAIN mark :
                            heat(seedOf(j)) = heat(seedOf(i)) /\ seedOf(j) <= seedOf(i)})]]]]

(* A time trial's results map entrants to a time or to a negative status.  *)
DNF == -1
DNS == -2
DQ == -3
Timed(results) == {i \in DOMAIN results : results[i] >= 0}

SeedRank(seedOrder, i) == IF i \in Seqs!ToSet(seedOrder) THEN PositionOf(seedOrder, i) ELSE Len(seedOrder) + 1

RankTimeTrial(results, tiePolicy, seedOrder) ==
  LET tied == {i \in Timed(results) : \E j \in Timed(results) \ {i} : results[j] = results[i]}
      before(i, j) ==
        \/ results[i] < results[j]
        \/ /\ results[i] = results[j]
           /\ tiePolicy = "SEED_ORDER" /\ SeedRank(seedOrder, i) < SeedRank(seedOrder, j)
  IN  IF \/ tied # {} /\ tiePolicy = "UNRESOLVED"
         \/ tiePolicy = "SEED_ORDER" /\ ~(tied \subseteq Seqs!ToSet(seedOrder))
      THEN Refused
      ELSE [status |-> "CERTIFIED",
            rank   |-> [i \in Timed(results) |-> 1 + Cardinality({j \in Timed(results) : before(j, i)})]]

(* scores maps the active entrants to their scores; a tie across the cut   *)
(* is settled by the policy or refused.                                    *)
Ahead(better, x, y) == IF better = "LOWER" THEN x < y ELSE x > y
Precedes(scores, better, cutoffPolicy, seedOrder, a, b) ==
  \/ Ahead(better, scores[a], scores[b])
  \/ /\ scores[a] = scores[b]
     /\ IF cutoffPolicy = "SEED_ORDER" /\ SeedRank(seedOrder, a) # SeedRank(seedOrder, b)
        THEN SeedRank(seedOrder, a) < SeedRank(seedOrder, b) ELSE a < b
Place(scores, better, cutoffPolicy, seedOrder, i) ==
  1 + Cardinality({j \in DOMAIN scores : Precedes(scores, better, cutoffPolicy, seedOrder, j, i)})

QualifyRankingStage(scores, places, better, cutoffPolicy, seedOrder) ==
  LET place(i) == Place(scores, better, cutoffPolicy, seedOrder, i)
      cutoff   == scores[CHOOSE i \in DOMAIN scores : place(i) = places]
      tied     == {i \in DOMAIN scores : scores[i] = cutoff}
      above    == {i \in DOMAIN scores : Ahead(better, scores[i], cutoff)}
      crosses  == Cardinality(tied) > places - Cardinality(above)
  IN  IF places \notin 1..Cardinality(DOMAIN scores) THEN Refused
      ELSE IF crosses /\ (cutoffPolicy = "UNRESOLVED" \/ (cutoffPolicy = "SEED_ORDER" /\ ~(tied \subseteq Seqs!ToSet(seedOrder))))
      THEN Refused
      ELSE [status |-> "CERTIFIED",
            qualified |-> IF crosses /\ cutoffPolicy = "ADVANCE_ALL" THEN tied \union above
                          ELSE {i \in DOMAIN scores : place(i) <= places}]
=============================================================================
