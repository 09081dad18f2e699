--------------------------- MODULE ScheduleSearch ---------------------------
(***************************************************************************)
(* The depth-first searches of schedule-solver.ts (solve: a plan with the  *)
(* least makespan) and schedule-repair.ts (planMinimalChangeScheduleRepair:*)
(* the lawful plan nearest to a baseline), one candidate at a time.        *)
(* todo holds, for each task on the way down, the candidates not yet       *)
(* tried; trail the slots chosen so far.  A request is                     *)
(*   [kind, problem, limit, baseline, pins, freeze]                        *)
(* of kind "EXACT" or "REPAIR"; the last three matter to a repair only.    *)
(* First of all, how well a candidate stands trouble                       *)
(* (schedule-resilience.ts): each candidate is checked once more, then     *)
(* ranked by what the loss of one court and overruns of m minutes would    *)
(* touch.                                                                  *)
(***************************************************************************)
EXTENDS ScheduleProblem

CONSTANT None

-----------------------------------------------------------------------------
PlayersOf(problem, tasks) == UNION {problem.tasks[t].who : t \in tasks}

(***************************************************************************)
(* validateCandidate: rest is checked between neighbours in each           *)
(* participant's own order of play, overlaps between all pairs.            *)
(***************************************************************************)
OwnDay(problem, plan, p) ==
  ByKey({a \in plan : p \in problem.tasks[a.task].who}, LAMBDA a : <<a.start, a.task>>)

Accepted(problem, plan) ==
  /\ {a.task : a \in plan} = DOMAIN problem.tasks /\ Cardinality(plan) = Cardinality(DOMAIN problem.tasks)
  /\ \A a \in plan :
       /\ a.court \in problem.tasks[a.task].courts
       /\ a.start >= 0 /\ a.end = a.start + problem.tasks[a.task].minutes
       /\ Allows(problem, a)
       /\ \A d \in problem.tasks[a.task].after : a.start >= SlotOf(plan, d).end
  /\ \A t \in DOMAIN problem.locks : [court |-> SlotOf(plan, t).court, start |-> SlotOf(plan, t).start] = problem.locks[t]
  /\ \A a, b \in plan :
       (a # b /\ Overlap(a, b)) => a.court # b.court /\ PlayersOf(problem, {a.task}) \cap PlayersOf(problem, {b.task}) = {}
  /\ \A p \in PlayersOf(problem, DOMAIN problem.tasks) : \E day \in {OwnDay(problem, plan, p)} :
       \A i \in 1..Len(day) - 1 : day[i + 1].start >= day[i].end + problem.rest

(***************************************************************************)
(* evidenceFor                                                             *)
(***************************************************************************)
OnCourtOf(plan, c) == {a.task : a \in {b \in plan : b.court = c}}

(* Pairs of contests, the earlier one first, that an overrun of m minutes brings into conflict. *)
BugOverrunConflicts(problem, plan, m) ==
  {<<a, b>> \in plan \X plan :
     /\ a.start < b.start \/ (a.start = b.start /\ a.task < b.task)
     /\ Overlap([a EXCEPT !.end = @ + m], b)
     /\ a.court = b.court \/ PlayersOf(problem, {a.task}) \cap PlayersOf(problem, {b.task}) # {}}

OverrunConflicts(problem, plan, m) ==
  {<<a, b>> \in plan \X plan :
     /\ a.start < b.start \/ (a.start = b.start /\ a.task < b.task)
     /\ Overlap([a EXCEPT !.end = @ + m], b)
     /\ \/ a.court = b.court
        \/ PlayersOf(problem, {a.task}) \cap PlayersOf(problem, {b.task}) # {}
        \/ a.task \in problem.tasks[b.task].after}

Touched(problem, plan, m) ==
  PlayersOf(problem, UNION {{x[1].task, x[2].task} : x \in OverrunConflicts(problem, plan, m)})

(* The most contests one court takes with it, the conflicts, the participants to be told in the
   worst case, the least slack before a dependent contest, and the end of the day. *)
Evidence(problem, plan, overruns) ==
  LET courts == DOMAIN problem.courts
      slack == UNION {{SlotOf(plan, t).start - SlotOf(plan, d).end : d \in problem.tasks[t].after} :
                        t \in DOMAIN problem.tasks}
  IN  << Max({0} \cup {Cardinality(OnCourtOf(plan, c)) : c \in courts}),
         MapThenSumSet(LAMBDA m : Cardinality(OverrunConflicts(problem, plan, m)), overruns),
         Max({0} \cup {Cardinality(PlayersOf(problem, OnCourtOf(plan, c))) : c \in courts}
                 \cup {Cardinality(Touched(problem, plan, m)) : m \in overruns}),
         IF slack = {} THEN -1000000 ELSE -Min(slack),
         Makespan(plan) >>

(* compareVector, over the five parts in their order; rankSchedulesByResilience: the accepted candidates, the least exposed first. *)
Ranking(problem, candidates, overruns) ==
  ByKey({plan \in candidates : Accepted(problem, plan)}, LAMBDA plan : Evidence(problem, plan, overruns))

(***************************************************************************)
(* The day when one contest runs m minutes over and nothing is moved: no   *)
(* court with two contests, nobody in two places, nothing before its       *)
(* predecessor is over.                                                    *)
(***************************************************************************)
Withstands(problem, plan, late, m) ==
  \E end \in {[late EXCEPT !.end = @ + m]} : \A b \in plan \ {late} :
    /\ Overlap(end, b) => b.court # late.court /\ PlayersOf(problem, {b.task}) \cap PlayersOf(problem, {late.task}) = {}
    /\ late.task \in problem.tasks[b.task].after => end.end <= b.start

-----------------------------------------------------------------------------
VARIABLES request,    \* the request being searched, or None
          trail,      \* assigned
          todo,       \* what is left of each loop over candidates
          nodes,      \* nodesVisited
          cutoff,     \* the node limit was met
          best,       \* incumbent: a plan, or None
          answer      \* [status, plan] once the search is over, None before

searchVars == <<request, trail, todo, nodes, cutoff, best, answer>>

SearchInit ==
  /\ request = None /\ trail = <<>> /\ todo = <<>> /\ nodes = 0
  /\ cutoff = FALSE /\ best = None /\ answer = None

Repairing(r) == r.kind = "REPAIR"

Candidates(r, depth) ==
  LET order == TaskOrder(r.problem)
  IN  IF depth > Len(order) THEN <<>>
      ELSE <<IF Repairing(r) THEN Closest(r, order[depth]) ELSE Soonest(r.problem, order[depth])>>

Answer(status, plan) == [status |-> status, plan |-> plan]

(* What both functions decide before any search. *)
AnswerAtOnce(r) ==
  IF Repairing(r)
  THEN IF ~AdmissibleRepair(r) THEN Answer("REJECTED", None)
       ELSE IF LockConflict(r) THEN Answer("INFEASIBLE", None) ELSE None
  ELSE IF WellPosed(r.problem) THEN None ELSE Answer("REFUSED", None)

Ask(r) ==
  /\ request' = r
  /\ trail' = <<>> /\ nodes' = 0 /\ cutoff' = FALSE /\ best' = None
  /\ answer' = AnswerAtOnce(r)
  /\ todo' = IF answer' = None THEN Candidates(r, 1) ELSE <<>>

-----------------------------------------------------------------------------
Searching == request # None /\ answer = None

Placed == ToSet(trail)

AtLeaf == Len(trail) = Cardinality(DOMAIN request.problem.tasks)

(* A plan that meets the lower bound ends the exact search. *)
BoundMatched == ~Repairing(request) /\ best # None /\ Makespan(best) = LowerBound(request.problem)

Over == cutoff \/ BoundMatched \/ (todo = <<>> /\ ~AtLeaf)

Exploring == Searching /\ ~Over

Trying == Exploring /\ ~AtLeaf /\ Last(todo) # <<>>

Candidate == Head(Last(todo))

(* The repair does not ask whether a locked court is eligible: its last validation does. *)
Fits(c) ==
  /\ Allows(request.problem, c)
  /\ Repairing(request) \/ c.court \in request.problem.tasks[c.task].courts
  /\ Compatible(request.problem, c, Placed)

(* The partial plan is already behind the incumbent on what can only grow. *)
BugHopeless(c) ==
  /\ best # None
  /\ IF Repairing(request)
     THEN LET partial == Placed \cup {c}
          IN  LexLess(SubSeq(Distance(request.problem, request.baseline, best), 1, 6),
                      MonotonePrefix(request.problem, request.baseline, partial)
                        \o <<ParticipantWait(request.problem, partial)>>)
     ELSE Makespan(Placed \cup {c}) >= Makespan(best)

Hopeless(c) ==
  /\ best # None
  /\ IF Repairing(request)
     THEN LexLess(SubSeq(Distance(request.problem, request.baseline, best), 1, 5),
                  MonotonePrefix(request.problem, request.baseline, Placed \cup {c}))
     ELSE Makespan(Placed \cup {c}) >= Makespan(best)

(* A moved candidate behind on the first three components: so is every later one. *)
LaterHopeless(c) ==
  /\ Repairing(request)
  /\ Moved(request.baseline, c)
  /\ LexLess(SubSeq(Distance(request.problem, request.baseline, best), 1, 3),
             SubSeq(MonotonePrefix(request.problem, request.baseline, Placed \cup {c}), 1, 3))

(* The repair counts every candidate against the limit, the exact search only those it places. *)
Counts == Repairing(request) \/ (Fits(Candidate) /\ ~Hopeless(Candidate))

OutOfNodes == Counts /\ nodes >= request.limit

Advance(left) == Append(Front(todo), left)

MeetLimit ==
  /\ Trying /\ OutOfNodes
  /\ cutoff' = TRUE
  /\ UNCHANGED <<request, trail, todo, nodes, best, answer>>

PassOver ==
  /\ Trying /\ ~OutOfNodes
  /\ ~Fits(Candidate) \/ Hopeless(Candidate)
  /\ nodes' = IF Counts THEN nodes + 1 ELSE nodes
  /\ todo' = Advance(IF Fits(Candidate) /\ LaterHopeless(Candidate) THEN <<>> ELSE Tail(Last(todo)))
  /\ UNCHANGED <<request, trail, cutoff, best, answer>>

Place ==
  /\ Trying /\ ~OutOfNodes
  /\ Fits(Candidate) /\ ~Hopeless(Candidate)
  /\ nodes' = nodes + 1
  /\ trail' = Append(trail, Candidate)
  /\ todo' = Advance(Tail(Last(todo))) \o Candidates(request, Len(trail) + 2)
  /\ UNCHANGED <<request, cutoff, best, answer>>

(* The loop over one task's candidates ends: the task before it tries its next. *)
Retreat ==
  /\ Exploring /\ ~AtLeaf
  /\ Last(todo) = <<>>
  /\ todo' = Front(todo)
  /\ trail' = IF trail = <<>> THEN <<>> ELSE Front(trail)
  /\ UNCHANGED <<request, nodes, cutoff, best, answer>>

Better(plan) ==
  \/ best = None
  \/ IF Repairing(request)
     THEN LexLess(Distance(request.problem, request.baseline, plan) \o PlanKey(plan),
                  Distance(request.problem, request.baseline, best) \o PlanKey(best))
     ELSE Makespan(plan) < Makespan(best)

(* Every task is placed. *)
Keep ==
  /\ Exploring /\ AtLeaf
  /\ best' = IF Better(Placed) THEN Placed ELSE best
  /\ trail' = Front(trail)
  /\ UNCHANGED <<request, todo, nodes, cutoff, answer>>

(* An exact plan that fails the last validation is an error, not a result. *)
ExactAnswer ==
  IF best = None THEN Answer(IF cutoff THEN "UNKNOWN" ELSE "INFEASIBLE", None)
  ELSE IF ~(Lawful(request.problem, request.problem.locks, best) /\ FixedStartsKept(request.problem, best))
  THEN Answer("REFUSED", None)
  ELSE Answer(IF cutoff /\ ~BoundMatched THEN "FEASIBLE" ELSE "OPTIMAL", best)

(* A repair cut short releases nothing, whatever it holds. *)
RepairAnswer ==
  IF cutoff THEN Answer("UNKNOWN", None)
  ELSE IF best = None THEN Answer("INFEASIBLE", None)
  ELSE IF ~Lawful(request.problem, EffectiveLocks(request), best) THEN Answer("REJECTED", None)
  ELSE Answer(IF \E a \in best : Moved(request.baseline, a) THEN "REPAIRED" ELSE "UNCHANGED", best)

Conclude ==
  /\ Searching /\ Over
  /\ answer' = IF Repairing(request) THEN RepairAnswer ELSE ExactAnswer
  /\ trail' = <<>> /\ todo' = <<>>
  /\ UNCHANGED <<request, nodes, cutoff, best>>

SearchStep == MeetLimit \/ PassOver \/ Place \/ Retreat \/ Keep \/ Conclude

-----------------------------------------------------------------------------
(* Every way to give each task one of its candidates. *)
AllPlans(candidates) ==
  FoldSet(LAMBDA t, plans : {plan \cup {p} : <<plan, p>> \in plans \X candidates[t]}, {{}}, DOMAIN candidates)

(* The plans a search of this request may return. *)
Solutions(r) ==
  IF Repairing(r)
  THEN {plan \in AllPlans([t \in DOMAIN r.problem.tasks |-> RepairPlacements(r, t)]) :
          Lawful(r.problem, EffectiveLocks(r), plan)}
  ELSE {plan \in AllPlans([t \in DOMAIN r.problem.tasks |-> Placements(r.problem, t)]) :
          Lawful(r.problem, r.problem.locks, plan) /\ FixedStartsKept(r.problem, plan)}

(***************************************************************************)
(* What the exact solver claims of a problem is true of it: a plan it      *)
(* returns is lawful, OPTIMAL means that no plan on the grid ends sooner,  *)
(* also when the search stopped early at the lower bound, and INFEASIBLE   *)
(* that there is none.  (status and optimalityProvenBy in solve; the proof *)
(* is released to organizers and to the plan's certificate.)               *)
(***************************************************************************)
SolverClaimsAreTrue ==
  (answer # None /\ ~Repairing(request) /\ answer.status # "REFUSED") =>
    \E solutions \in {Solutions(request)} :
      /\ answer.plan # None => answer.plan \in solutions
      /\ answer.status = "OPTIMAL" => \A plan \in solutions : Makespan(plan) >= Makespan(answer.plan)
      /\ answer.status = "INFEASIBLE" => solutions = {}

(***************************************************************************)
(* "The schedule is the proven lexicographically minimal hard-constraint   *)
(* repair": no lawful plan that keeps locks, pins and everything before    *)
(* the freeze is nearer to the baseline, whatever branches were pruned or  *)
(* abandoned, and INFEASIBLE is said only when there is none.              *)
(***************************************************************************)
RepairIsMinimal ==
  (answer # None /\ Repairing(request)) =>
    /\ answer.status \in {"REPAIRED", "UNCHANGED"} =>
         \E solutions \in {Solutions(request)} :
           /\ answer.plan \in solutions
           /\ \A plan \in solutions :
                ~LexLess(Distance(request.problem, request.baseline, plan),
                         Distance(request.problem, request.baseline, answer.plan))
    /\ answer.status = "INFEASIBLE" => LockConflict(request) \/ Solutions(request) = {}

(***************************************************************************)
(* What the organizer is told of the candidates is true: exactly the       *)
(* lawful ones are ranked, a plan has no conflict at m minutes exactly     *)
(* when every single contest may run m over with nothing moved, and the    *)
(* recommended plan withstands that if any plan does that loses no more    *)
(* contests with a court.  (validateCandidate, evidenceFor and the order   *)
(* of objectives in schedule-resilience.ts.)                               *)
(***************************************************************************)
Overruns == {1, 2}                    \* BOUND
Steady(plan, m) == \A late \in plan : Withstands(request.problem, plan, late, m)

EvidenceIsTrue ==
  (answer # None /\ ~Repairing(request) /\ answer.plan # None) =>
    \E candidates \in {{plan \in AllPlans([t \in DOMAIN request.problem.tasks |-> OnGrid(request.problem, t)]) :
                         Makespan(plan) <= Makespan(answer.plan) + 1}} :
    \E ranked \in {Ranking(request.problem, candidates, Overruns)} :
      /\ \A plan \in candidates : Accepted(request.problem, plan) = Lawful(request.problem, request.problem.locks, plan)
      /\ \A i \in 1..Len(ranked), m \in Overruns :
           (OverrunConflicts(request.problem, ranked[i], m) = {}) = Steady(ranked[i], m)
      /\ \A i \in 1..Len(ranked) :
           (/\ Evidence(request.problem, ranked[i], Overruns)[1] <= Evidence(request.problem, ranked[1], Overruns)[1]
            /\ \A m \in Overruns : Steady(ranked[i], m))
           => \A m \in Overruns : Steady(ranked[1], m)

(* What the two searches say of their plans is true of them.               *)
SearchesTellTheTruth == SolverClaimsAreTrue /\ RepairIsMinimal
=============================================================================
