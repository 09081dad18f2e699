------------------------------- MODULE Draws -------------------------------
(***************************************************************************)
(* Where entrants are placed before play: the pools of a stage             *)
(* (pool-allocation.ts, pool-construction.ts) and the opening slots of a   *)
(* knockout (draw-constraints.ts, knockoutPlacement in graph.ts).          *)
(* Entrants are numbers; an entrant's number stands for its id.            *)
(***************************************************************************)
EXTENDS StaticFormats, Standings, TLC

(***************************************************************************)
(* Pools.  request: entrants (a sequence), seed (entrant -> seed), sizes,  *)
(* allocation, rules (membership constraints) and, for a manual            *)
(* allocation, named (entrant -> pool, 0 when none).                       *)
(***************************************************************************)
EntrantsOf(request) == ToSet(request.entrants)

(* poolOrder: the pools in serpentine order, skipping the full ones. *)
PoolOrder(sizes) ==
  LET pools == Len(sizes)
      (* In pass k the pools that still have room, forwards when k is odd. *)
      Pass(k) == SelectSeq([i \in 1..pools |-> IF k % 2 = 1 THEN i ELSE pools + 1 - i], LAMBDA p : sizes[p] >= k)
  IN  FoldLeft(LAMBDA order, k : order \o Pass(k), <<>>, [k \in 1..Max(ToSet(sizes)) |-> k])

BySeed(request) ==
  Listed(EntrantsOf(request),
               LAMBDA a, b : request.seed[a] < request.seed[b] \/ (request.seed[a] = request.seed[b] /\ a < b))

SnakePools(request) ==
  LET order == BySeed(request)
      at == PoolOrder(request.sizes)
  IN  [e \in EntrantsOf(request) |-> at[Position(order, e)]]

(* A shuffled order is cut into consecutive pools. *)
CutPools(request, shuffled) ==
  LET Before(p) == FoldFunctionOnSet(+, 0, request.sizes, 1..p - 1)
  IN  [e \in EntrantsOf(request) |->
         CHOOSE p \in DOMAIN request.sizes : /\ Before(p) < Position(shuffled, e)
                                             /\ Position(shuffled, e) <= Before(p + 1)]

Members(pools, p) == {e \in DOMAIN pools : pools[e] = p}

RuleHolds(rule, pools) ==
  LET used == {pools[e] : e \in rule.entrants}
  IN  IF rule.kind = "TOGETHER" THEN Cardinality(used) = 1 ELSE Cardinality(used) = Cardinality(rule.entrants)

SizesClose(request, pools) == \A p \in DOMAIN request.sizes : Cardinality(Members(pools, p)) = request.sizes[p]

(* objectiveTuple: the spread of the pools' average seeds (the sizes are fixed), as a fraction
   <<numerator, denominator>> brought to the common denominator of the sizes. *)
SeedSpread(request, pools) ==
  LET common == FoldFunction(LAMBDA x, y : x * y, 1, request.sizes)
      SeedOf(e) == request.seed[e]
      Average(p) == (MapThenSumSet(SeedOf, Members(pools, p)) * common) \div request.sizes[p]
      averages == {Average(p) : p \in DOMAIN request.sizes}
  IN  Max(averages) - Min(averages)

FeasiblePools(request) ==
  {pools \in [EntrantsOf(request) -> DOMAIN request.sizes] :
     /\ SizesClose(request, pools)
     /\ \A rule \in request.rules : RuleHolds(rule, pools)}

(* constructPools with the search it finishes for up to eight entrants: the least spread, and of
   those the assignment that comes first when written down in entrant order.  An allocation nobody
   constrained starts from the serpentine one and replaces it by one that is better or written earlier. *)
OptimisedPools(request) ==
  LET Written(pools) == [i \in DOMAIN request.entrants |-> pools[request.entrants[i]]]
      feasible == FeasiblePools(request)
      best == {x \in feasible : \A y \in feasible : SeedSpread(request, x) <= SeedSpread(request, y)}
  IN  CHOOSE x \in best : \A y \in best \ {x} : LexLess(Written(x), Written(y))

NoPools == <<>>

(* The certificate of an allocation: the sizes and the rules. *)
Certified(request, proposed) ==
  IF /\ FoldFunction(+, 0, request.sizes) = Len(request.entrants)
     /\ proposed # NoPools
     /\ SizesClose(request, proposed)
     /\ \A rule \in request.rules : RuleHolds(rule, proposed)
  THEN proposed ELSE NoPools

(* allocateStagePools; shuffled is the registered random source's order. *)
AllocatedPools(request, shuffled) ==
  Certified(request,
    CASE request.allocation = "snake" -> SnakePools(request)
      [] request.allocation = "random" -> CutPools(request, shuffled)
      [] request.allocation = "manual" ->
           IF \A e \in EntrantsOf(request) : request.named[e] \in DOMAIN request.sizes THEN request.named ELSE NoPools
      [] request.allocation = "optimised" ->
           IF FeasiblePools(request) = {} THEN NoPools ELSE OptimisedPools(request))

(***************************************************************************)
(* Knockout placement.  draw: entrants in seed order (a sequence), pool    *)
(* (entrant -> pool, 0 when none), met (pairs that have met) and rules     *)
(* (rule -> [enabled, hard, priority]).  A slot holds an entrant or 0.     *)
(***************************************************************************)
DrawRules == {"structural_validity", "protected_byes", "protected_seed_separation",
              "avoid_same_pool_rematch", "avoid_any_rematch"}

Opponent(i) == IF i % 2 = 1 THEN i + 1 ELSE i - 1
SlotOf(slots, e) == CHOOSE i \in DOMAIN slots : slots[i] = e
Section(slots, sections, e) == (SlotOf(slots, e) - 1) \div (Len(slots) \div sections)

(* The standard bracket of the entrants in seed order. *)
CanonicalSlots(entrants) ==
  [i \in 1..BracketSize(Len(entrants)) |->
     LET seed == SeedOrder(BracketSize(Len(entrants)))[i] IN IF seed <= Len(entrants) THEN entrants[seed] ELSE 0]

ProtectedSeeds(draw) ==
  Max({k \in {1, 2, 4} : k <= Len(draw.entrants)})

EmptyMatches(slots) == {i \in DOMAIN slots : i % 2 = 1 /\ slots[i] = 0 /\ slots[i + 1] = 0}

(* The best seeds get the byes there are. *)
MissedByes(draw, slots) ==
  {k \in 1..Cardinality({i \in DOMAIN slots : slots[i] = 0}) :
     slots[Opponent(SlotOf(slots, draw.entrants[k]))] # 0}

(* For each tier (top 2 in halves, top 4 in quarters), the sections that two of its seeds share. *)
SharedSections(draw, slots) ==
  {x \in {2, 4} \X (0..3) :
     /\ x[1] <= ProtectedSeeds(draw)
     /\ Cardinality({k \in 1..x[1] : Section(slots, x[1], draw.entrants[k]) = x[2]}) > 1}

(* The pairs that can open against each other: a first-round match, or a bye's neighbours. *)
OpeningPairs(slots) ==
  {p \in (DOMAIN slots) \X (DOMAIN slots) :
     /\ p[1] < p[2] /\ slots[p[1]] # 0 /\ slots[p[2]] # 0
     /\ p[2] = Opponent(p[1])}

ByeHolders(slots) == {i \in DOMAIN slots : slots[i] # 0 /\ slots[Opponent(i)] = 0}

(* A bye holder opens against whoever comes out of the neighbouring match. *)
(* A mistake the run must notice: whoever has a bye is left out of account. *)
BugByePairs(slots) == {}

ByePairs(slots) ==
  {p \in ByeHolders(slots) \X (DOMAIN slots) :
     /\ slots[p[2]] # 0 /\ p[2] # p[1]
     /\ (p[1] - 1) \div 4 = (p[2] - 1) \div 4}

SamePool(draw, a, b) == draw.pool[a] # 0 /\ draw.pool[a] = draw.pool[b]

PoolRematches(draw, slots) ==
  {p \in OpeningPairs(slots) : SamePool(draw, slots[p[1]], slots[p[2]])}
    \cup {p \in ByePairs(slots) : SamePool(draw, slots[p[1]], slots[p[2]])}

AnyRematches(draw, slots) == {p \in OpeningPairs(slots) : {slots[p[1]], slots[p[2]]} \in draw.met}

(* evaluate: how often a placement breaks each rule. *)
Broken(draw, slots, rule) ==
  IF ~draw.rules[rule].enabled THEN 0
  ELSE CASE rule = "structural_validity" -> Cardinality(EmptyMatches(slots))
         [] rule = "protected_byes" -> Cardinality(MissedByes(draw, slots))
         [] rule = "protected_seed_separation" -> Cardinality(SharedSections(draw, slots))
         [] rule = "avoid_same_pool_rematch" -> Cardinality(PoolRematches(draw, slots))
         [] rule = "avoid_any_rematch" -> Cardinality(AnyRematches(draw, slots))

RulesInOrder(draw) ==
  Listed(DrawRules, LAMBDA a, b : draw.rules[a].priority < draw.rules[b].priority)

HardRules(draw) == {rule \in DrawRules : draw.rules[rule].hard}
HardBroken(draw, slots) == MapThenSumSet(LAMBDA rule : Broken(draw, slots, rule), HardRules(draw))

(* Up to eight slots every placement that keeps the byes in place is considered. *)
Placements(draw) ==
  LET baseline == CanonicalSlots(draw.entrants)
  IN  {[i \in DOMAIN baseline |-> IF baseline[i] = 0 THEN 0 ELSE f[baseline[i]]] :
         f \in Permutations(ToSet(draw.entrants))}

Least(Value(_), candidates) ==
  LET valued == [x \in candidates |-> Value(x)]
      least == Min(Range(valued))
  IN  {x \in candidates : valued[x] = least}

FirstWritten(best) == CHOOSE x \in best : \A y \in best \ {x} : LexLess(x, y)

(* compareEvaluations: hard rules first, then each rule in priority order, then the fewest entrants
   moved from the standard bracket, then the written order. *)
BestPlacement(draw) ==
  LET baseline == CanonicalSlots(draw.entrants)
      Moved(slots) == Cardinality({i \in DOMAIN slots : slots[i] # baseline[i]})
      Narrow(candidates, rule) == Least(LAMBDA slots : Broken(draw, slots, rule), candidates)
      lawful == Least(LAMBDA slots : HardBroken(draw, slots), Placements(draw))
  IN  FirstWritten(Least(Moved, FoldLeft(Narrow, lawful, RulesInOrder(draw))))

NoPlacement == <<>>

LawfulPlacement(draw, best) == IF HardBroken(draw, best) = 0 THEN best ELSE NoPlacement

(* placeConstraintDraw: a placement that breaks no hard rule, if there is one. *)
PlacedDraw(draw) == LawfulPlacement(draw, BestPlacement(draw))

(* knockoutPlacement: without an optimised policy, or when no draw meets its hard rules, the
   standard bracket; the second case also reports an error. *)
PlacedOrCanonical(draw, placed) == IF placed # NoPlacement THEN placed ELSE CanonicalSlots(draw.entrants)
KnockoutSlots(draw, optimised) ==
  IF optimised /\ Len(draw.entrants) >= 2 THEN PlacedOrCanonical(draw, PlacedDraw(draw))
  ELSE CanonicalSlots(draw.entrants)

DrawFailed(draw, optimised) == optimised /\ Len(draw.entrants) >= 2 /\ PlacedDraw(draw) = NoPlacement
=============================================================================
