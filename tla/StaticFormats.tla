--------------------------- MODULE StaticFormats ---------------------------
(***************************************************************************)
(* The compilers of formats whose whole graph is known before play:        *)
(* static-formats.ts, topology-compiler.ts, primitive-engines.ts, and      *)
(* static-stage-compiler.ts which binds one of them to an approved plan.   *)
(* A compiled stage is a set of contests.  A contest names the source of   *)
(* each of its two slots; ids are <<bracket, round, number>>, so that the  *)
(* arithmetic of the code's id strings stays visible.                      *)
(***************************************************************************)
EXTENDS Integers, FiniteSets, SequencesExt, FiniteSetsExt, TLC

(* The members of a set in a sequence, in the order given where it decides. *)
Listed(S, Before(_, _)) == SortSeq(FoldSet(LAMBDA e, list : Append(list, e), <<>>, S), Before)

(* Where a slot's occupant comes from (SlotSource). *)
Entrant(seed) == [from |-> "entrant", ref |-> <<seed>>]
WinnerOf(id) == [from |-> "winner", ref |-> id]
LoserOf(id) == [from |-> "loser", ref |-> id]
Bye == [from |-> "bye", ref |-> <<>>]

NoCondition == <<>>

(* A contest every play-out must decide; ConditionalContest is the reset final. *)
Contest(id, left, right) ==
  [id |-> id, kind |-> "contest", slots |-> <<left, right>>, condition |-> NoCondition]

(* An opening node that advances its one entrant. *)
ByeNode(id, left, right) == [Contest(id, left, right) EXCEPT !.kind = "bye"]

ConditionalContest(id, left, right, source, slot) ==
  [Contest(id, left, right) EXCEPT !.condition = <<source, slot>>]

ContestIds(graph) == {c.id : c \in graph}

Node(graph, id) == CHOOSE c \in graph : c.id = id

Dynamic(slot) == slot.from \in {"winner", "loser"}

(* deriveEdges: one edge for each slot filled by another contest's outcome. *)
EdgesOf(graph) ==
  UNION {{[source |-> c.slots[i].ref, outcome |-> c.slots[i].from, to |-> c.id, slot |-> i] :
            i \in {j \in 1..2 : Dynamic(c.slots[j])}} : c \in graph}

Sources(graph, edges, id) == {e.source : e \in {f \in edges : f.to = id}}

(* isAcyclic: removing ready nodes until none is left visits every node. *)
IsAcyclic(graph, edges) ==
  LET TakeReady(visited, round) == {id \in ContestIds(graph) : Sources(graph, edges, id) \subseteq visited}
  IN  FoldLeft(TakeReady, {}, [round \in 1..Cardinality(graph) |-> round]) = ContestIds(graph)

(* calculateDepths: one more than the deepest source. *)
Depths(graph, edges) ==
  LET depth[id \in ContestIds(graph)] == 1 + Max({0} \cup {depth[source] : source \in Sources(graph, edges, id)})
  IN  depth

IsPowerOfTwo(n) == \E k \in 0..6 : n = 2 ^ k

Log2Ceiling(n) == Min({k \in 0..6 : 2 ^ k >= n})

(***************************************************************************)
(* Round robin: the circle method.  The first place is fixed, the others   *)
(* move by one each round; place p after k rounds holds entry RotatedEntry.*)
(***************************************************************************)
(* A mistake the run must notice: the fixed place takes part in the rotation. *)
BugRotatedEntry(places, k, p) == ((p - 1 - k) % places) + 1

RotatedEntry(places, k, p) ==
  IF p = 1 THEN 1 ELSE ((p - 2 - k) % (places - 1)) + 2

RoundRobin(n, legs) ==
  LET places == IF n % 2 = 1 THEN n + 1 ELSE n       \* an odd field has an empty place
      perLeg == places - 1
      Left(r, pair) == RotatedEntry(places, r, pair)
      Right(r, pair) == RotatedEntry(places, r, places + 1 - pair)
      Reversed(r) == ((r % perLeg) + (r \div perLeg)) % 2 = 1
      Fixture(r, pair) ==
        LET l == Left(r, pair)
            q == Right(r, pair)
        IN  Contest(<<"RR", r + 1, pair>>,
                    Entrant(IF Reversed(r) THEN q ELSE l), Entrant(IF Reversed(r) THEN l ELSE q))
  IN  {Fixture(r, pair) : <<r, pair>> \in
         {x \in (0..legs * perLeg - 1) \X (1..places \div 2) :
            Left(x[1], x[2]) <= n /\ Right(x[1], x[2]) <= n}}

(***************************************************************************)
(* The winners' side shared by double elimination and repechage: entrants  *)
(* in seed order, neighbours meet, winners go on.                          *)
(***************************************************************************)
WinnersRounds(n) ==
  {IF x[1] = 1 THEN Contest(<<"W", 1, x[2]>>, Entrant(2 * x[2] - 1), Entrant(2 * x[2]))
   ELSE Contest(<<"W", x[1], x[2]>>, WinnerOf(<<"W", x[1] - 1, 2 * x[2] - 1>>),
                                     WinnerOf(<<"W", x[1] - 1, 2 * x[2]>>)) :
     x \in {y \in (1..Log2Ceiling(n)) \X (1..n) : y[2] * 2 ^ y[1] <= n}}

(* Losers' rounds: 1 pairs the losers of the first round; 2w brings in the losers of
   winners' round w + 1; 2w - 1 halves the field before them. *)
LosersRounds(n) ==
  LET Matches(w) == 1..(n \div 2 ^ (w + 1))
      Opening == {Contest(<<"L", 1, i>>, LoserOf(<<"W", 1, 2 * i - 1>>), LoserOf(<<"W", 1, 2 * i>>)) :
                    i \in Matches(1)}
      Integration(w) == {Contest(<<"L", 2 * w, i>>, WinnerOf(<<"L", 2 * w - 1, i>>), LoserOf(<<"W", w + 1, i>>)) :
                    i \in Matches(w)}
      Contraction(w) == {Contest(<<"L", 2 * w - 1, i>>, WinnerOf(<<"L", 2 * w - 2, 2 * i - 1>>),
                                 WinnerOf(<<"L", 2 * w - 2, 2 * i>>)) : i \in Matches(w)}
  IN  Opening \cup UNION {Integration(w) : w \in 1..Log2Ceiling(n) - 1}
              \cup UNION {Contraction(w) : w \in 2..Log2Ceiling(n) - 1}

GrandFinal == <<"GF", 1, 1>>
ResetFinal == <<"GF", 2, 1>>

DoubleElimination(n, resetFinalPolicy) ==
  LET rounds == Log2Ceiling(n)
      lower == IF n = 2 THEN LoserOf(<<"W", 1, 1>>) ELSE WinnerOf(<<"L", 2 * (rounds - 1), 1>>)
  IN  WinnersRounds(n) \cup (IF n = 2 THEN {} ELSE LosersRounds(n))
      \cup {Contest(GrandFinal, WinnerOf(<<"W", rounds, 1>>), lower)}
      \cup (IF resetFinalPolicy = "NEVER" THEN {}
            ELSE {ConditionalContest(ResetFinal, WinnerOf(GrandFinal), LoserOf(GrandFinal), GrandFinal, 2)})

(* Quarterfinal losers play for the right to meet the semifinal losers. *)
RepechageClassification(n) ==
  LET rounds == Log2Ceiling(n)
  IN  WinnersRounds(n)
      \cup {Contest(<<"REP", 1, h>>, LoserOf(<<"W", rounds - 2, 2 * h - 1>>), LoserOf(<<"W", rounds - 2, 2 * h>>)) :
              h \in 1..2}
      \cup {Contest(<<"CLASS", 2, h>>, WinnerOf(<<"REP", 1, h>>), LoserOf(<<"W", rounds - 1, h>>)) : h \in 1..2}

(***************************************************************************)
(* Seeded elimination with byes (topology-compiler.ts, and elimination in  *)
(* graph.ts whose positions come from the draw).                           *)
(***************************************************************************)
SeedOrder(size) ==
  LET order[k \in 1..Log2Ceiling(size)] ==
        IF k = 1 THEN <<1, 2>>
        ELSE [i \in 1..2 ^ k |-> IF i % 2 = 1 THEN order[k - 1][(i + 1) \div 2]
                                 ELSE 2 ^ k + 1 - order[k - 1][i \div 2]]
  IN  order[Log2Ceiling(size)]

BracketSize(n) == 2 ^ Log2Ceiling(IF n < 2 THEN 2 ELSE n)

(* positions[i] is the seed placed at i, or 0 for a bye. *)
SeededPositions(n) ==
  [i \in 1..BracketSize(n) |-> IF SeedOrder(BracketSize(n))[i] <= n THEN SeedOrder(BracketSize(n))[i] ELSE 0]

Bracket(positions) ==
  LET Slot(i) == IF positions[i] = 0 THEN Bye ELSE Entrant(positions[i])
      Opening(i) == IF 0 \in {positions[2 * i - 1], positions[2 * i]}
                    THEN ByeNode(<<"R", 1, i>>, Slot(2 * i - 1), Slot(2 * i))
                    ELSE Contest(<<"R", 1, i>>, Slot(2 * i - 1), Slot(2 * i))
      Later(r, i) == Contest(<<"R", r, i>>, WinnerOf(<<"R", r - 1, 2 * i - 1>>), WinnerOf(<<"R", r - 1, 2 * i>>))
  IN  {Opening(i) : i \in 1..Len(positions) \div 2}
      \cup {Later(x[1], x[2]) : x \in {y \in (2..Log2Ceiling(Len(positions))) \X (1..Len(positions) \div 4) :
                                          y[2] * 2 ^ y[1] <= Len(positions)}}

FinalOf(n) == <<"R", Log2Ceiling(n), 1>>

(* A port that a node does not have cannot be consumed: a bye has no loser (requirePort). *)
PortExists(graph, slot) ==
  /\ slot.ref \in ContestIds(graph)
  /\ slot.from = "loser" => Node(graph, slot.ref).kind = "contest"

(* compileTopology; the empty graph stands for its throw. *)
Topology(n, thirdPlaceMatch) ==
  LET main == Bracket(SeededPositions(n))
      semifinals == [i \in 1..2 |-> LoserOf(Node(main, FinalOf(n)).slots[i].ref)]
      third == Contest(<<"C", 1, 1>>, semifinals[1], semifinals[2])
  IN  IF ~thirdPlaceMatch THEN main
      ELSE IF n > 2 /\ \A i \in 1..2 : PortExists(main, semifinals[i]) THEN main \cup {third}
      ELSE {}

(***************************************************************************)
(* Play-in, classification and custom graphs (primitive-engines.ts).  The  *)
(* empty graph stands for a rejection.                                     *)
(***************************************************************************)
(* One round that reduces the field: the weakest meet, the last seed the strongest of them. *)
PlayIn(n, mainDrawSize) ==
  LET matches == n - mainDrawSize
      direct == n - 2 * matches
  IN  IF mainDrawSize < 2 \/ n <= mainDrawSize \/ direct < 0 THEN {}
      ELSE {Contest(<<"PI", 1, i>>, Entrant(direct + i), Entrant(n + 1 - i)) : i \in 1..matches}

(* The places of the main draw: direct entrants, then the play-in winners. *)
PlayInQualifiers(n, mainDrawSize) ==
  {Entrant(s) : s \in 1..(2 * mainDrawSize - n)} \cup {WinnerOf(c.id) : c \in PlayIn(n, mainDrawSize)}

(* contests: the organiser's <<left port, right port, better place, worse place>>. *)
ClassificationCertified(main, contests) ==
  LET ports(c) == {c[1], c[2]}
      places(c) == {c[3], c[4]}
  IN  /\ contests # {}
      /\ \A c \in contests : /\ c[3] >= 1
                             /\ c[3] < c[4]
                             /\ c[1] # c[2]
                             /\ \A port \in ports(c) : PortExists(main, port)
      /\ \A c, d \in contests : c # d => /\ ports(c) \cap ports(d) = {}
                                         /\ places(c) \cap places(d) = {}

(* A contest takes the number of its better place. *)
Classification(main, contests) ==
  IF ClassificationCertified(main, contests)
  THEN {Contest(<<"C", 1, c[3]>>, c[1], c[2]) : c \in contests} ELSE {}

(* definition: entrants, and nodes [id, kind, slots, outputs] given by the organiser. *)
OutputsOf(kind) == IF kind = "contest" THEN {"winner", "loser"} ELSE {"winner"}
ArityOf(kind) == IF kind = "contest" THEN 2 ELSE 1

InputsOf(nodes) == UNION {{<<c.id, i>> : i \in DOMAIN c.slots} : c \in nodes}
InputSlot(nodes, input) == Node(nodes, input[1]).slots[input[2]]

CustomGraphCertified(definition) ==
  LET nodes == definition.nodes
      inputs == InputsOf(nodes)
      Slot(x) == InputSlot(nodes, x)
      dynamic == {x \in inputs : Dynamic(Slot(x))}
      edges == {[source |-> Slot(x).ref, outcome |-> Slot(x).from, to |-> x[1], slot |-> x[2]] : x \in dynamic}
  IN  /\ nodes # {}
      /\ definition.entrants >= 2
      /\ Cardinality(ContestIds(nodes)) = Cardinality(nodes)
      /\ \A c \in nodes : Len(c.slots) = ArityOf(c.kind) /\ c.outputs = OutputsOf(c.kind)
      /\ \A x \in dynamic : /\ Slot(x).ref \in ContestIds(nodes)
                            /\ Slot(x).from \in Node(nodes, Slot(x).ref).outputs
      /\ \A x, y \in dynamic : Slot(x) = Slot(y) => x = y                      \* no outcome fans out
      /\ \A seed \in 1..definition.entrants : Cardinality({x \in inputs : Slot(x) = Entrant(seed)}) = 1
      /\ Cardinality(inputs \ dynamic) = definition.entrants
      /\ IsAcyclic(nodes, edges)

(* mapCustomGraphNodes: a bye gets the empty second slot. *)
CustomGraph(definition) ==
  IF ~CustomGraphCertified(definition) THEN {}
  ELSE {IF c.kind = "bye" THEN ByeNode(c.id, c.slots[1], Bye) ELSE Contest(c.id, c.slots[1], c.slots[2]) :
          c \in definition.nodes}

(***************************************************************************)
(* Binding a compiled graph to a plan (static-stage-compiler.ts and        *)
(* native-static-format-adapter.ts).                                       *)
(***************************************************************************)
(* finalize's and closeProof's expected counts, derived without the graph. *)
ExpectedRequired(plan) ==
  LET n == plan.entrants
  IN  CASE plan.primitive = "single_round_robin" -> (n * (n - 1)) \div 2
        [] plan.primitive = "double_round_robin" -> n * (n - 1)
        [] plan.primitive = "single_elimination" -> n - 1 + (IF plan.thirdPlace THEN 1 ELSE 0)
        [] plan.primitive = "double_elimination" -> 2 * n - 2
        [] plan.primitive = "repechage" -> n + 3
        [] plan.primitive = "play_in" -> n - plan.mainDrawSize
        [] plan.primitive = "placement" -> n - 1 + Cardinality(plan.contests)
        [] plan.primitive = "custom_graph" -> Cardinality({c \in plan.definition.nodes : c.kind = "contest"})

Required(graph) == {c \in graph : c.kind = "contest" /\ c.condition = NoCondition}
Conditional(graph) == {c \in graph : c.condition # NoCondition}

ReferencedSeeds(graph) ==
  UNION {{c.slots[i].ref[1] : i \in {j \in 1..2 : c.slots[j].from = "entrant"}} : c \in graph}

(* closeProof: what a graph must satisfy before it may be used. *)
ProofCloses(plan, graph) ==
  LET edges == EdgesOf(graph)
      slots == UNION {{c.slots[1], c.slots[2]} : c \in graph}
  IN  /\ Cardinality(ContestIds(graph)) = Cardinality(graph)
      /\ ReferencedSeeds(graph) = 1..plan.entrants
      /\ \A slot \in {x \in slots : Dynamic(x)} : PortExists(graph, slot)
      /\ \A c \in Conditional(graph) :
           /\ c.kind = "contest" /\ c.condition[1] # c.id /\ c.condition[1] \in ContestIds(graph)
           /\ Node(graph, c.condition[1]).condition = NoCondition
           /\ c.condition[1] \in Sources(graph, edges, c.id)
      /\ IsAcyclic(graph, edges)
      /\ Cardinality(Required(graph)) = ExpectedRequired(plan)

Generated(plan) ==
  LET n == plan.entrants
  IN  CASE plan.primitive = "single_round_robin" -> RoundRobin(n, 1)
        [] plan.primitive = "double_round_robin" -> RoundRobin(n, 2)
        [] plan.primitive = "single_elimination" -> Topology(n, plan.thirdPlace)
        [] plan.primitive = "double_elimination" ->
             IF IsPowerOfTwo(n) THEN DoubleElimination(n, plan.resetFinalPolicy) ELSE {}
        [] plan.primitive = "repechage" ->
             IF IsPowerOfTwo(n) /\ n >= 8 THEN RepechageClassification(n) ELSE {}
        [] plan.primitive = "play_in" -> PlayIn(n, plan.mainDrawSize)
        [] plan.primitive = "placement" ->
             LET main == Bracket(SeededPositions(n))
                 placing == Classification(main, plan.contests)
             IN  IF placing = {} THEN {} ELSE main \cup placing
        [] plan.primitive = "custom_graph" -> CustomGraph(plan.definition)

(* The proof that binds the graph is the stage compiler's own for the formats it closes. *)
ClosedByProof == {"single_round_robin", "double_round_robin", "single_elimination", "double_elimination", "repechage"}

(* plan.seeds are the seeds the entrants carry, in id order; plan.approved says that the approval
   was given for this very plan.  The empty graph stands for a rejection. *)
CompileStage(plan) ==
  LET graph == Generated(plan)
  IN  IF /\ plan.entrants \in 2..64
         /\ {plan.seeds[i] : i \in DOMAIN plan.seeds} = 1..plan.entrants
         /\ Len(plan.seeds) = plan.entrants
         /\ plan.approved
         /\ plan.primitive \in ClosedByProof => ProofCloses(plan, graph)
      THEN graph ELSE {}
=============================================================================
