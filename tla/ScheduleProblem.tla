-------------------------- MODULE ScheduleProblem --------------------------
(***************************************************************************)
(* What the two schedule searches work on, and their pure parts:           *)
(* schedule-solver.ts (a shortest schedule for a problem) and              *)
(* schedule-repair.ts (a schedule again lawful, closest to a baseline).    *)
(* A problem is [tasks, courts, locks, rest]; tasks and courts are named   *)
(* by numbers, whose order stands for the order of the code's ids:         *)
(*   tasks[t]  = [minutes, courts, after, who, fixed]  fixed may be NoStart*)
(*   courts[c] = [open, closed]     sets of <<start, end>> windows         *)
(*   locks[t]  = [court, start]     for the locked tasks only              *)
(* A plan is a set of slots, one for each task.                            *)
(***************************************************************************)
EXTENDS Integers, FiniteSets, SequencesExt, FiniteSetsExt
LOCAL Formats == INSTANCE StaticFormats

CONSTANT Step                      \* granularityMinutes
ASSUME StepAssumption == Step \in Nat \ {0}

NoStart == -1

Slot(task, court, start, end) == [task |-> task, court |-> court, start |-> start, end |-> end]

Overlap(a, b) == a.start < b.end /\ b.start < a.end

(* Numeric tuples in order of their first difference. *)
LexLess(a, b) == \E i \in DOMAIN a : a[i] < b[i] /\ \A j \in 1..i - 1 : a[j] = b[j]

ByKey(S, Key(_)) == Formats!Listed(S, LAMBDA a, b : LexLess(Key(a), Key(b)))

(***************************************************************************)
(* Tasks in the order both searches place them: by the length of their     *)
(* longest chain of dependencies, then by id.                              *)
(***************************************************************************)
Acyclic(problem) ==
  LET Ready(done, round) == {t \in DOMAIN problem.tasks : problem.tasks[t].after \subseteq done}
  IN  FoldLeft(Ready, {}, [i \in 1..Cardinality(DOMAIN problem.tasks) |-> i]) = DOMAIN problem.tasks

TaskOrder(problem) ==
  LET chain[t \in DOMAIN problem.tasks] == 1 + Max({0} \cup {chain[d] : d \in problem.tasks[t].after})
  IN  ByKey(DOMAIN problem.tasks, LAMBDA t : <<chain[t], t>>)

(* The conditions both searches demand of their input. *)
WellPosed(problem) ==
  /\ \A t \in DOMAIN problem.tasks : problem.tasks[t].courts # {}
  /\ Acyclic(problem)

(***************************************************************************)
(* What makes a plan lawful.                                               *)
(***************************************************************************)
Allows(problem, slot) ==
  /\ \E w \in problem.courts[slot.court].open : w[1] <= slot.start /\ slot.end <= w[2]
  /\ \A w \in problem.courts[slot.court].closed : ~(slot.start < w[2] /\ w[1] < slot.end)

Rested(a, b, rest) == a.start >= b.end + rest \/ b.start >= a.end + rest

(* No two tasks share a court, and nobody plays twice without the rest between. *)
Apart(problem, a, b) ==
  /\ ~(a.court = b.court /\ Overlap(a, b))
  /\ problem.tasks[a.task].who \cap problem.tasks[b.task].who = {} \/ Rested(a, b, problem.rest)

(* isCompatible: a candidate beside the slots placed so far. *)
Compatible(problem, candidate, placed) ==
  /\ \A d \in problem.tasks[candidate.task].after : \E b \in placed : b.task = d /\ b.end <= candidate.start
  /\ \A b \in placed : Apart(problem, candidate, b)

(* hardViolations is empty: locks may be more than the problem's own. *)
Lawful(problem, locks, plan) ==
  /\ {a.task : a \in plan} = DOMAIN problem.tasks
  /\ Cardinality(plan) = Cardinality(DOMAIN problem.tasks)
  /\ \A a \in plan : /\ a.court \in problem.tasks[a.task].courts
                     /\ a.end = a.start + problem.tasks[a.task].minutes
                     /\ Allows(problem, a)
                     /\ Compatible(problem, a, plan \ {a})
                     /\ a.task \in DOMAIN locks => locks[a.task] = [court |-> a.court, start |-> a.start]

FixedStartsKept(problem, plan) ==
  \A a \in plan : problem.tasks[a.task].fixed \in {NoStart, a.start}

Makespan(plan) == Max({0} \cup {a.end : a \in plan})

(* calculateLowerBound: the longest chain of dependencies, and the last locked finish. *)

LowerBound(problem) ==
  LET finish[t \in DOMAIN problem.tasks] ==
        problem.tasks[t].minutes + Max({0} \cup {finish[d] : d \in problem.tasks[t].after})
  IN  Max({0} \cup {finish[t] : t \in DOMAIN problem.tasks}
              \cup {problem.locks[t].start + problem.tasks[t].minutes : t \in DOMAIN problem.locks})

(***************************************************************************)
(* Where a task may be placed.                                             *)
(***************************************************************************)
(* Starts step by Step from the opening of each window. *)
OnGrid(problem, t) ==
  UNION {{Slot(t, x[1], s, s + problem.tasks[t].minutes) :
            s \in {m \in x[2][1]..x[2][2] - problem.tasks[t].minutes : (m - x[2][1]) % Step = 0}} :
           x \in UNION {{c} \X problem.courts[c].open : c \in problem.tasks[t].courts}}

AtFixedStart(problem, t) ==
  LET s == problem.tasks[t].fixed
  IN  {Slot(t, c, s, s + problem.tasks[t].minutes) : c \in problem.tasks[t].courts}

AtLock(problem, locks, t) ==
  {Slot(t, locks[t].court, locks[t].start, locks[t].start + problem.tasks[t].minutes)}

(* placementsFor, as a set: a locked task has its one slot, allowed or not. *)
Placements(problem, t) ==
  IF t \in DOMAIN problem.locks THEN AtLock(problem, problem.locks, t)
  ELSE {p \in IF problem.tasks[t].fixed = NoStart THEN OnGrid(problem, t) ELSE AtFixedStart(problem, t) :
          Allows(problem, p)}

Soonest(problem, t) == ByKey(Placements(problem, t), LAMBDA p : <<p.end, p.start, p.court>>)

(***************************************************************************)
(* Repair: the distance from the baseline, most important part first.      *)
(***************************************************************************)
SlotOf(plan, t) == CHOOSE a \in plan : a.task = t

Moved(baseline, a) ==
  LET before == SlotOf(baseline, a.task) IN before.court # a.court \/ before.start # a.start

Displacement(baseline, a) ==
  LET d == a.start - SlotOf(baseline, a.task).start IN IF d < 0 THEN -d ELSE d

(* The idle minutes between neighbours of a set of slots in order of start. *)
Gaps(slots) ==
  LET line == ByKey(slots, LAMBDA a : <<a.start, a.task>>)
  IN  MapThenSumSet(LAMBDA i : Max({0, line[i + 1].start - line[i].end}), 1..Len(line) - 1)

(* The components that can only grow while tasks are added to a partial plan. *)
MonotonePrefix(problem, baseline, plan) ==
  LET changed == {a \in plan : Moved(baseline, a)}
  IN  << Cardinality(changed),
         Cardinality(UNION {problem.tasks[a.task].who : a \in changed}),
         MapThenSumSet(LAMBDA a : Displacement(baseline, a), changed),
         Cardinality({a \in changed : SlotOf(baseline, a.task).court # a.court}),
         Makespan(plan) >>

ParticipantWait(problem, plan) ==
  MapThenSumSet(LAMBDA p : Gaps({a \in plan : p \in problem.tasks[a.task].who}),
                UNION {problem.tasks[t].who : t \in DOMAIN problem.tasks})

CourtIdle(problem, plan) == MapThenSumSet(LAMBDA c : Gaps({a \in plan : a.court = c}), DOMAIN problem.courts)

(* reconstructScheduleRepairObjective *)
Distance(problem, baseline, plan) ==
  MonotonePrefix(problem, baseline, plan) \o <<ParticipantWait(problem, plan), CourtIdle(problem, plan)>>

(* assignmentKey: decides between plans at the same distance. *)
PlanKey(plan) == FoldLeft(LAMBDA key, a : key \o <<a.court, a.start>>, <<>>, ByKey(plan, LAMBDA a : <<a.task>>))

(* A repair request adds to a problem: baseline, pins (a set of tasks), freeze (a minute). *)
Immutable(request) ==
  request.pins \cup {a.task : a \in {b \in request.baseline : b.start < request.freeze}}

EffectiveLocks(request) ==
  [t \in DOMAIN request.problem.locks \cup Immutable(request) |->
     IF t \in DOMAIN request.problem.locks THEN request.problem.locks[t]
     ELSE [court |-> SlotOf(request.baseline, t).court, start |-> SlotOf(request.baseline, t).start]]

(* immutableLockConflicts *)
LockConflict(request) ==
  \E t \in DOMAIN request.problem.locks \cap Immutable(request) :
    request.problem.locks[t] # [court |-> SlotOf(request.baseline, t).court,
                                start |-> SlotOf(request.baseline, t).start]

(* validateProblemAndBaseline finds nothing. *)
AdmissibleRepair(request) ==
  /\ WellPosed(request.problem)
  /\ {a.task : a \in request.baseline} = DOMAIN request.problem.tasks
  /\ \A a \in request.baseline : a.end = a.start + request.problem.tasks[a.task].minutes

(* candidatePlacements as a set: the grid, and the baseline slot while it is allowed. *)
RepairPlacements(request, t) ==
  LET before == SlotOf(request.baseline, t)
  IN  IF t \in DOMAIN EffectiveLocks(request) THEN AtLock(request.problem, EffectiveLocks(request), t)
      ELSE {p \in OnGrid(request.problem, t)
              \cup {a \in {before} : a.court \in request.problem.tasks[t].courts} : Allows(request.problem, p)}

Closest(request, t) ==
  ByKey(RepairPlacements(request, t),
        LAMBDA p : << IF Moved(request.baseline, p) THEN 1 ELSE 0, Displacement(request.baseline, p),
                      IF SlotOf(request.baseline, t).court # p.court THEN 1 ELSE 0, p.start, p.court >>)
============================================================================
