--------------------------- MODULE Qualification ---------------------------
(***************************************************************************)
(* qualification.ts and declarative-qualification.ts: who of a stage's     *)
(* table goes on to which structure.  A table is a sequence of rows of     *)
(* Standings, the pools one after the other.                               *)
(***************************************************************************)
EXTENDS Standings, TLC

Ids(rows) == [i \in DOMAIN rows |-> rows[i].entrant]

Take(rows, count) == SubSeq(rows, 1, IF count < Len(rows) THEN count ELSE Len(rows))

(* best_n_across_pools: highest normalised score, then id. *)
AcrossPools(normalization, rows) ==
  LET Before(a, b) == LET x == NormalizedScore(a, normalization)
                          y == NormalizedScore(b, normalization)
                      IN  LexLess(y, x) \/ (x = y /\ a.entrant < b.entrant)
  IN  SortSeq(rows, Before)

ByRank(rows) == SortSeq(rows, LAMBDA a, b : a.rank < b.rank \/ (a.rank = b.rank /\ a.entrant < b.entrant))
ByRankFromLast(rows) == SortSeq(rows, LAMBDA a, b : a.rank > b.rank \/ (a.rank = b.rank /\ a.entrant < b.entrant))

AtRank(rows, rank) == SelectSeq(rows, LAMBDA row : row.rank = rank)

(* The rows one plain selector takes from those still available. *)
PlainPick(selector, normalization, available) ==
  CASE selector.type = "pool_winners" -> AtRank(available, 1)
    [] selector.type = "pool_position" -> AtRank(available, selector.position)
    [] selector.type = "best_n_across_pools" ->
         Take(AcrossPools(normalization,
                IF selector.position = 0 THEN available ELSE AtRank(available, selector.position)), selector.count)
    [] selector.type = "top_n" -> Take(ByRank(available), selector.count)
    [] selector.type = "bottom_n" -> Take(ByRankFromLast(available), selector.count)
    [] selector.type = "remainder" -> available
    [] selector.type = "manual_decision" -> <<>>

(***************************************************************************)
(* Declarative selectors.                                                  *)
(***************************************************************************)
NoValue == -999

(* metricValue: a ratio over nothing, or over a missing metric, has no value. *)
MetricValue(row, expression) ==
  CASE expression.type = "value" -> Metric(row, expression.key)
    [] expression.type = "ratio" -> LET over == Metric(row, expression.over)
                                    IN  IF over > 0 THEN Twelfths(Metric(row, expression.key), over) ELSE NoValue
    [] expression.type = "sum" -> LET Weighted(term) == Metric(row, term.key) * term.weight
                                  IN  MapThenSumSet(Weighted, expression.terms)

Satisfies(value, comparison, threshold) ==
  CASE comparison = "AT_LEAST" -> value >= threshold
    [] comparison = "AT_MOST" -> value <= threshold
    [] comparison = "GREATER_THAN" -> value > threshold
    [] comparison = "LESS_THAN" -> value < threshold

Valued(selector, rows) == \A i \in DOMAIN rows : MetricValue(rows[i], selector.metric) # NoValue

Eligible(selector, available) ==
  IF selector.eligibleRank = 0 THEN available ELSE AtRank(available, selector.eligibleRank)

Ordered(selector, rows) ==
  LET V(row) == MetricValue(row, selector.metric)
      Better(a, b) == IF selector.direction = "HIGHER" THEN V(a) > V(b) ELSE V(a) < V(b)
  IN  SortSeq(rows, LAMBDA a, b : Better(a, b) \/ (V(a) = V(b) /\ a.entrant < b.entrant))

(* How many of the ordered rows are level with the last place or ahead of it. *)
ThroughCutoff(selector, ordered) ==
  LET V(i) == MetricValue(ordered[i], selector.metric)
  IN  Cardinality({i \in DOMAIN ordered : i <= selector.count \/ V(i) = V(selector.count)})

(* What stops a declarative selection: an approval that does not bind these candidates, a metric
   without a value, too few candidates, or a tie across the cutoff that the policy rejects. *)
SelectorRefused(index, selector, available) ==
  CASE selector.type = "authority" ->
         \/ selector.candidates = {}
         \/ ~(selector.candidates \subseteq ToSet(Ids(available)))
         \/ selector.approvedFor # <<index, selector.candidates>>
    [] selector.type = "threshold" -> ~Valued(selector, available)
    [] selector.type = "ranking" ->
         LET eligible == Eligible(selector, available)
         IN  \/ selector.count < 1 \/ selector.count > Len(eligible)
             \/ ~Valued(selector, eligible)
             \/ /\ selector.tiePolicy = "REJECT"
                /\ ThroughCutoff(selector, Ordered(selector, eligible)) > selector.count
    [] selector.type = "remainder" -> FALSE

(* The places there are, and with INCLUDE_ALL everybody level with the last of them. *)
UpToCutoff(selector, ordered) ==
  Take(ordered, IF selector.tiePolicy = "INCLUDE_ALL" THEN ThroughCutoff(selector, ordered) ELSE selector.count)

DeclarativePick(selector, available) ==
  LET byId == SortSeq(available, LAMBDA a, b : a.entrant < b.entrant)
  IN  CASE selector.type = "authority" -> SelectSeq(byId, LAMBDA row : row.entrant \in selector.candidates)
        [] selector.type = "threshold" ->
             SelectSeq(byId, LAMBDA row : Satisfies(MetricValue(row, selector.metric), selector.comparison, selector.value))
        [] selector.type = "ranking" -> UpToCutoff(selector, Ordered(selector, Eligible(selector, available)))
        [] selector.type = "remainder" -> byId

DeclarativeTypes == {"authority", "threshold", "ranking"}
IsDeclarative(policy) == \E i \in DOMAIN policy.selectors : policy.selectors[i].type \in DeclarativeTypes

Without(rows, taken) == SelectSeq(rows, LAMBDA row : row.entrant \notin taken)

(* compileDeclarativeQualification: the selectors in order, each over what the earlier ones left. *)
DeclarativeSelection(policy, rows, selected) ==
  LET step(done, i) ==
        LET selector == policy.selectors[i]
            available == Without(rows, selected \cup ToSet(Ids(done.picked)))
        IN  IF done.refused \/ SelectorRefused(i, selector, available)
            THEN [done EXCEPT !.refused = TRUE]
            ELSE [done EXCEPT !.picked = @ \o DeclarativePick(selector, available)]
  IN  FoldLeft(step, [picked |-> <<>>, refused |-> FALSE], [i \in DOMAIN policy.selectors |-> i])

(* verifyDeclarativeQualification: the selection is replayed and must come out the same. *)
DeclarativeVerified(policy, rows, selected, picked) ==
  /\ Len(picked) = policy.outputCount
  /\ Cardinality(ToSet(Ids(picked))) = Len(picked)
  /\ ToSet(Ids(picked)) \cap selected = {}
  /\ picked = DeclarativeSelection(policy, rows, selected).picked

(* A mistake the run must notice: those who already have a place are not set aside. *)
BugPlainSelection(policy, rows, selected) ==
  FoldLeft(LAMBDA picked, selector :
             picked \o PlainPick(selector, policy.normalization, Without(rows, ToSet(Ids(picked)))),
           <<>>, policy.selectors)

PlainSelection(policy, rows, selected) ==
  FoldLeft(LAMBDA picked, selector :
             picked \o PlainPick(selector, policy.normalization,
                                 Without(rows, selected \cup ToSet(Ids(picked)))),
           <<>>, policy.selectors)

Mixed(policy) == \E i \in DOMAIN policy.selectors : policy.selectors[i].type \notin DeclarativeTypes \cup {"remainder"}

DeclarativeOutcome(policy, rows, selected, selection) ==
  [picked |-> selection.picked,
   refused |-> Mixed(policy) \/ selection.refused \/ ~DeclarativeVerified(policy, rows, selected, selection.picked)]

PlainOutcome(policy, picked) == [picked |-> picked, refused |-> Len(picked) # policy.outputCount]

(* What a policy takes, or a refusal. *)
PolicyOutcome(policy, rows, selected) ==
  IF policy.normalization \notin {"none", "per_match", "percentage"} THEN [picked |-> <<>>, refused |-> TRUE]
  ELSE IF IsDeclarative(policy)
  THEN DeclarativeOutcome(policy, rows, selected, DeclarativeSelection(policy, rows, selected))
  ELSE PlainOutcome(policy, PlainSelection(policy, rows, selected))

(* A mistake the run must notice: those entrants stay taken, and go nowhere. *)
BugFailDestination(state, destination) ==
  [state EXCEPT !.places[destination] = <<>>, !.failed = @ \cup {destination}]

(* failDestination: the structure loses what it was given, and those entrants are free again. *)
FailDestination(state, destination) ==
  [state EXCEPT !.selected = @ \ ToSet(Ids(state.places[destination])),
                !.places[destination] = <<>>,
                !.failed = @ \cup {destination}]

Settle(state, policy, outcome) ==
  IF policy.destination \in state.failed THEN state
  ELSE IF outcome.refused THEN FailDestination(state, policy.destination)
  ELSE [state EXCEPT !.places[policy.destination] = @ \o outcome.picked,
                     !.selected = @ \cup ToSet(Ids(outcome.picked))]

(* qualify: the policies in order; tables gives each source stage's rows. *)
Qualify(policies, tables, destinations) ==
  LET step(state, policy) == Settle(state, policy, PolicyOutcome(policy, tables[policy.source], state.selected))
  IN  FoldLeft(step, [places |-> [d \in destinations |-> <<>>], selected |-> {}, failed |-> {}], policies)
=============================================================================
