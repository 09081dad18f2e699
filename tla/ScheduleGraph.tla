--------------------------- MODULE ScheduleGraph ---------------------------
(***************************************************************************)
(* From a competition graph to a schedule and back to its certificate:     *)
(* scheduler.ts (the list scheduler and validateSchedule),                 *)
(* independent-entrants.ts (who may turn up where) and the compilation of  *)
(* scheduling-quality.ts into a problem for CP-SAT.                        *)
(* An event is [graph, feeds, info, units, rest, protect, required,        *)
(* finishBy]: graph as in StaticFormats with numbers for ids; feeds the    *)
(* <<from, to>> pairs of the `complete` edges by which a contest waits for *)
(* a stage; minutes count from the start of the schedule;                  *)
(*   info[id]    = [stage, round, minutes, type, headline]                 *)
(*   units[u]    = [type, open]                                            *)
(*   protect[id] = [start, court]     NoStart, or AnyCourt, where not named*)
(*   required[id] = a unit            for the rounds that require one      *)
(* A plan is a set of slots of ScheduleProblem; entrants are the refs of   *)
(* entrant slots.                                                          *)
(***************************************************************************)
EXTENDS StaticFormats, ScheduleProblem

AnyCourt == 0

Ids(event) == ContestIds(event.graph)
Contests(event) == {c.id : c \in {n \in event.graph : n.kind = "contest"}}

Feeders(event, id) == {f[1] : f \in {g \in event.feeds : g[2] = id}}

Dependencies(event, id) == Sources(event.graph, EdgesOf(event.graph), id) \cup Feeders(event, id)

Minutes(event, id) == event.info[id].minutes

PinnedStart(event, id) == IF id \in DOMAIN event.protect THEN event.protect[id].start ELSE NoStart
PinnedCourt(event, id) == IF id \in DOMAIN event.protect THEN event.protect[id].court ELSE AnyCourt
RequiredUnit(event, id) == IF id \in DOMAIN event.required THEN event.required[id] ELSE AnyCourt

(* A contest's units: of its type, and the pinned one when there is one. *)
UnitsFor(event, id) ==
  {u \in DOMAIN event.units : /\ event.units[u].type = event.info[id].type
                              /\ PinnedCourt(event, id) \in {AnyCourt, u}}

(* possibleEntrants, and deriveContestEntrantsIndependently which says the same. *)
PossibleEntrants(event) ==
  LET possible[id \in Ids(event)] ==
        UNION {LET slot == Node(event.graph, id).slots[i]
               IN  IF Dynamic(slot) THEN possible[slot.ref] ELSE {slot.ref} : i \in
                 {j \in 1..2 : Node(event.graph, id).slots[j].from # "bye"}}
  IN  possible

(***************************************************************************)
(* The list scheduler (solveSchedule).                                     *)
(***************************************************************************)
Descendants(event, id) ==
  LET Wider(found, round) == found \cup {d \in Ids(event) : Dependencies(event, d) \cap (found \cup {id}) # {}}
  IN  FoldLeft(Wider, {}, [i \in 1..Cardinality(Ids(event)) |-> i])

(* topologicalNodes: layer by layer, first what most others wait for. *)
TopologicalNodes(event) ==
  LET layer[id \in Ids(event)] == 1 + Max({0} \cup {layer[d] : d \in Dependencies(event, id)})
  IN  ByKey(Ids(event), LAMBDA id : <<layer[id], -Cardinality(Descendants(event, id)), event.info[id].round, id>>)

FitsUnit(event, plan, unit, start, end) ==
  /\ \E w \in event.units[unit].open : w[1] <= start /\ end <= w[2]
  /\ \A a \in plan : a.court = unit => end <= a.start \/ a.end <= start

(* Protected starts of contests not yet placed: nobody may take their court, nor the last one left. *)
RespectsReservations(event, plan, id, unit, start, end) ==
  LET waiting == {r \in DOMAIN event.protect \cap Contests(event) :
                    r # id /\ PinnedStart(event, r) # NoStart /\ \A a \in plan : a.task # r}
      From(r) == PinnedStart(event, r)
      To(r) == From(r) + Minutes(event, r)
      Meets(r, q) == From(r) < To(q) /\ From(q) < To(r)
  IN  \A r \in {q \in waiting : start < To(q) /\ From(q) < end} :
        /\ PinnedCourt(event, r) # unit
        /\ (PinnedCourt(event, r) = AnyCourt /\ event.info[r].type = event.units[unit].type) =>
             Cardinality({q \in waiting : /\ PinnedCourt(event, q) = AnyCourt
                                          /\ event.info[q].type = event.info[r].type
                                          /\ Meets(r, q)})
               <= Cardinality({u \in DOMAIN event.units \ {unit} :
                                 /\ event.units[u].type = event.info[r].type
                                 /\ \A q \in waiting : PinnedCourt(event, q) = u => ~Meets(r, q)
                                 /\ FitsUnit(event, plan, u, From(r), To(r))})

(* One contest: the first moment at which one of its units is free.  done carries the plan,
   when each node is over, and whether some contest found no place. *)
PlaceNode(event, done, id) ==
  LET over == Max({0} \cup {done.over[d] + (IF d \in Feeders(event, id) THEN event.rest ELSE 0) :
                              d \in Dependencies(event, id)})
      mine == PossibleEntrants(event)[id]
      rested == {a.end + event.rest : a \in {b \in done.plan : PossibleEntrants(event)[b.task] \cap mine # {}}}
      earliest == Max({over} \cup rested)
      limit == Max(UNION {{w[2] : w \in event.units[u].open} : u \in DOMAIN event.units})
      moments == IF PinnedStart(event, id) = NoStart
                 THEN {m \in earliest..limit - Minutes(event, id) : (m - earliest) % Step = 0}
                 ELSE {PinnedStart(event, id)} \cap earliest..limit - Minutes(event, id)
      places == {s \in {Slot(id, u, m, m + Minutes(event, id)) : u \in UnitsFor(event, id), m \in moments} :
                   /\ FitsUnit(event, done.plan, s.court, s.start, s.end)
                   /\ RespectsReservations(event, done.plan, id, s.court, s.start, s.end)}
      chosen == Head(ByKey(places, LAMBDA s : <<s.start, IF s.court = RequiredUnit(event, id) THEN 0 ELSE 1, s.court>>))
  IN  IF Node(event.graph, id).kind = "bye" THEN [done EXCEPT !.over[id] = over]
      ELSE IF places = {} THEN [done EXCEPT !.failed = TRUE]
      ELSE [done EXCEPT !.plan = @ \cup {chosen}, !.over[id] = chosen.end]

Replace(plan, old, new) == (plan \ {old}) \cup {new}

(* alignHeadlineFinals: a final ends the day when its feeders, its players and a court allow. *)
AlignFinal(event, finish, plan, id) ==
  LET old == SlotOf(plan, id)
      start == finish - Minutes(event, id)
      others == plan \ {old}
      free == {u \in {v \in DOMAIN event.units : event.units[v].type = event.info[id].type} :
                 FitsUnit(event, others, u, start, finish)}
  IN  IF /\ \A d \in Dependencies(event, id) : \E a \in others : a.task = d /\ a.end <= start
         /\ \A a \in others : PossibleEntrants(event)[a.task] \cap PossibleEntrants(event)[id] # {} =>
              ~(start < a.end /\ a.start < finish)
         /\ free # {}
      THEN Replace(plan, old, Slot(id, Min(free), start, finish)) ELSE plan

AlignHeadlineFinals(event, plan) ==
  LET finals == {a.task : a \in {b \in plan : event.info[b.task].headline /\ b.task \notin DOMAIN event.protect}}
  IN  FoldLeft(LAMBDA p, id : AlignFinal(event, Makespan(plan), p, id), plan, ByKey(finals, LAMBDA id : <<id>>))

(* enforceRequiredResources: a contest changes to its required court at its own time; what is
   there moves to another court at its own time, unless it must stay. *)
TakeRequired(event, plan, id) ==
  LET old == SlotOf(plan, id)
      unit == RequiredUnit(event, id)
      others == plan \ {old}
      inTheWay == {a \in others : a.court = unit /\ Overlap(a, old)}
      Elsewhere(acc, a) ==
        LET free == {u \in DOMAIN event.units \ {unit} : /\ event.units[u].type = event.info[a.task].type
                                                        /\ FitsUnit(event, acc.plan, u, a.start, a.end)}
            moved == [a EXCEPT !.court = Head(ByKey(free, LAMBDA u : <<IF u = old.court THEN 0 ELSE 1, u>>))]
        IN  IF RequiredUnit(event, a.task) # AnyCourt \/ PinnedCourt(event, a.task) # AnyCourt \/ free = {}
            THEN [acc EXCEPT !.possible = FALSE] ELSE [acc EXCEPT !.plan = @ \cup {moved}]
      cleared == FoldLeft(Elsewhere, [plan |-> others \ inTheWay, possible |-> TRUE],
                          ByKey(inTheWay, LAMBDA a : <<a.start, a.task>>))
  IN  IF cleared.possible /\ FitsUnit(event, cleared.plan, unit, old.start, old.end)
      THEN cleared.plan \cup {[old EXCEPT !.court = unit]} ELSE plan

EnforceRequiredResources(event, plan) ==
  LET NeedsMove(id, p) == /\ PinnedCourt(event, id) = AnyCourt
                          /\ RequiredUnit(event, id) \notin {AnyCourt, SlotOf(p, id).court}
  IN  FoldLeft(LAMBDA p, id : IF NeedsMove(id, p) THEN TakeRequired(event, p, id) ELSE p,
               plan, ByKey({a.task : a \in plan}, LAMBDA id : <<id>>))

(* [plan, failed]: failed when a finding of the scheduler is an error. *)
ListSchedule(event) ==
  LET start == [plan |-> {}, over |-> [id \in Ids(event) |-> 0], failed |-> FALSE]
      done == FoldLeft(LAMBDA d, id : PlaceNode(event, d, id), start, TopologicalNodes(event))
      final == EnforceRequiredResources(event, AlignHeadlineFinals(event, done.plan))
  IN  [plan |-> final, failed |-> done.failed \/ Makespan(final) > event.finishBy]

(***************************************************************************)
(* Who may play where in some outcome of the qualifications.  An origin is *)
(* Fixed, or the slot <<contest, i>> through which a qualifier came in.    *)
(***************************************************************************)
Fixed == <<>>

(* deriveQualificationOccupancy: for each contest its <<entrant, origin>> pairs. *)
Occupancy(event) ==
  LET occupied[id \in Ids(event)] ==
        LET qualifiers == UNION {{pair[1] : pair \in occupied[f]} : f \in Feeders(event, id)}
            Filling(i) ==
              LET slot == Node(event.graph, id).slots[i]
              IN  IF Dynamic(slot) THEN occupied[slot.ref]
                  ELSE IF slot.from = "bye" THEN {}
                  ELSE IF slot.ref \in qualifiers THEN qualifiers \X {<<id, i>>}
                  ELSE {<<slot.ref, Fixed>>}
        IN  Filling(1) \cup Filling(2)
  IN  occupied

QualifiedSlots(event) ==
  {x \in Ids(event) \X (1..2) :
     LET slot == Node(event.graph, x[1]).slots[x[2]]
     IN  slot.from = "entrant" /\ \E f \in Feeders(event, x[1]), o \in {Fixed} \cup (Ids(event) \X (1..2)) :
           <<slot.ref, o>> \in Occupancy(event)[f]}

BugCanMeet(event, left, right) ==
  LET StagesBehind(origin) == {event.info[f].stage : f \in Feeders(event, origin[1])}
  IN  \E a \in left \ {Fixed}, b \in right \ {Fixed} : a = b \/ StagesBehind(a) # StagesBehind(b)

(* canMeet: two slots filled from the same stages never hold the same entrant. *)
CanMeet(event, left, right) ==
  LET StagesBehind(origin) == {event.info[f].stage : f \in Feeders(event, origin[1])}
  IN  \E a \in left, b \in right : Fixed \in {a, b} \/ a = b \/ StagesBehind(a) # StagesBehind(b)

(* qualificationOutcomeFindings (TSV412) finds nothing. *)
QualifiersRested(event, plan) ==
  \E occupied \in {Occupancy(event)} :
    \A a, b \in plan :
      LET Origins(c, e) == {pair[2] : pair \in {q \in occupied[c.task] : q[1] = e}}
      IN  (a # b /\ ~Rested(a, b, event.rest)) =>
            \A e \in {p[1] : p \in occupied[a.task]} \cap {p[1] : p \in occupied[b.task]} :
              \/ Origins(a, e) \cup Origins(b, e) = {Fixed}
              \/ ~CanMeet(event, Origins(a, e), Origins(b, e))

(***************************************************************************)
(* validateSchedule finds nothing.                                         *)
(***************************************************************************)
(* When everything before a node is over: through byes, which have no slot of their own. *)
AncestorReady(event, plan) ==
  LET ready[id \in Ids(event)] ==
        IF \E a \in plan : a.task = id THEN SlotOf(plan, id).end
        ELSE Max({0} \cup {ready[d] : d \in Dependencies(event, id)})
  IN  ready

(* protectedAssignmentFindings and requiredResourceConstraintFindings *)
ControlsNameWhatExists(event) ==
  /\ \A id \in DOMAIN event.protect :
       /\ id \in Contests(event)
       /\ event.protect[id].court # AnyCourt => event.protect[id].court \in UnitsFor(event, id)
  /\ \A id \in DOMAIN event.required : id \in Contests(event) /\ event.required[id] \in DOMAIN event.units

ValidSchedule(event, plan) ==
  /\ ControlsNameWhatExists(event)
  /\ {a.task : a \in plan} = Contests(event) /\ Cardinality(plan) = Cardinality(Contests(event))
  /\ \A a \in plan :
       /\ a.end = a.start + Minutes(event, a.task)
       /\ FitsUnit(event, plan \ {a}, a.court, a.start, a.end)
       /\ \A d \in Dependencies(event, a.task) : AncestorReady(event, plan)[d] <= a.start
       /\ PinnedStart(event, a.task) \in {NoStart, a.start}
       /\ PinnedCourt(event, a.task) \in {AnyCourt, a.court}
       /\ RequiredUnit(event, a.task) \in {AnyCourt, a.court}
  /\ \A a, b \in plan :
       (a # b /\ PossibleEntrants(event)[a.task] \cap PossibleEntrants(event)[b.task] # {}) => Rested(a, b, event.rest)
  /\ QualifiersRested(event, plan)

(***************************************************************************)
(* compileGraphSchedulingProblem.  A feeder and the contest it feeds share *)
(* a token, so that CP-SAT keeps the rest between them for any qualifier.  *)
(***************************************************************************)
ProblemOf(event) ==
  LET Tokens(id) == IF event.rest = 0 THEN {}
                    ELSE {f \in event.feeds : id \in {f[1], f[2]} /\ {f[1], f[2]} \subseteq Contests(event)}
      Protected(id) == PinnedStart(event, id) # NoStart
      Task(id) ==
        [minutes |-> Minutes(event, id),
         courts |-> {u \in UnitsFor(event, id) : RequiredUnit(event, id) \in {AnyCourt, u}},
         after |-> Dependencies(event, id) \cap Contests(event),        \* a bye's dependencies are dropped
         who |-> PossibleEntrants(event)[id] \cup Tokens(id),
         fixed |-> IF PinnedCourt(event, id) = AnyCourt THEN PinnedStart(event, id) ELSE NoStart]
  IN  [tasks |-> [id \in Contests(event) |-> Task(id)],
       courts |-> [u \in DOMAIN event.units |-> [open |-> event.units[u].open, closed |-> {}]],
       locks |-> [id \in {c \in Contests(event) : Protected(c) /\ PinnedCourt(event, c) # AnyCourt} |->
                    [court |-> PinnedCourt(event, id), start |-> PinnedStart(event, id)]],
       rest |-> event.rest]

(* Compiled: no TSQ103 finding.  preflightProblem asks for little more. *)
Solvable(problem) ==
  /\ DOMAIN problem.tasks # {} /\ WellPosed(problem)
  /\ \A c \in DOMAIN problem.courts : problem.courts[c].open # {}

(* independentlyValidate, and the objective the worker must have told truly. *)
Certified(problem, plan, makespan) ==
  /\ Lawful(problem, problem.locks, plan)
  /\ FixedStartsKept(problem, plan)
  /\ makespan = Makespan(plan)
============================================================================
