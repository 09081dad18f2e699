-------------------------- MODULE SchedulePlanning --------------------------
(***************************************************************************)
(* A schedule on its way into play: the solver worker that prepares a      *)
(* draft (competition-journey.ts, cp-sat-solver.ts), the compilation that  *)
(* may use its answer, and the repairs of the published schedule when a    *)
(* court closes or a contest overruns (court-outage-journey.ts).           *)
(* Repairs run the search of ScheduleSearch.  CP-SAT itself is outside: it *)
(* answers with any plan on the scene's starts, or with a failure.         *)
(* Contests are played as planned; what becomes of them is drawn once, at  *)
(* publication, and read only where the code could know it.                *)
(***************************************************************************)
EXTENDS ScheduleSearch, ScheduleGraph

CONSTANTS Scenes,          \* [events, connected, starts, moments]: the drafts of one organizer's edit
          SearchLimit,     \* maxSearchNodes of a repair
          MaxIncidents

VARIABLES scene,
          draft,           \* which of the scene's events is drafted; its draftVersion
          worker,          \* [version, problem] of the solver process being awaited, or None
          prepared,        \* PreparedCompilation: [version, problem, answer], or None
          planned,         \* the compiled and published schedule, or None
          assigned,        \* the operational assignments: a plan
          outcome,         \* [winners, seats], unknown to the code before it is played
          incident,        \* [court, from, until, source, now, moved] being repaired, or None
          incidents        \* how many there were

planVars == <<scene, draft, worker, prepared, planned, assigned, outcome, incident, incidents>>
vars == <<searchVars, planVars>>

Event == scene.events[draft]

(***************************************************************************)
(* What may come of a graph.                                               *)
(***************************************************************************)
(* The two occupants of every node; a bye's empty place is <<>>. *)
Playing(event, o) ==
  LET at[id \in Ids(event)] ==
        LET Occupant(i) ==
              LET slot == Node(event.graph, id).slots[i]
                  winner == IF Node(event.graph, slot.ref).kind = "bye"
                            THEN IF at[slot.ref][1] = <<>> THEN 2 ELSE 1 ELSE o.winners[slot.ref]
              IN  IF ~Dynamic(slot) THEN IF <<id, i>> \in DOMAIN o.seats THEN o.seats[<<id, i>>] ELSE slot.ref
                  ELSE at[slot.ref][IF slot.from = "winner" THEN winner ELSE 3 - winner]
        IN  <<Occupant(1), Occupant(2)>>
  IN  at

(* A qualification seats players of its source stages, each in one place at most. *)
Outcomes(event) ==
  LET decisive == {e.source : e \in EdgesOf(event.graph)} \cap Contests(event)
      entrants == UNION {PossibleEntrants(event)[id] : id \in Ids(event)}
      Behind(seat) == Feeders(event, seat[1])
      Proper(o) ==
        \E at \in {Playing(event, o)} :
          \A s, q \in DOMAIN o.seats :
            /\ o.seats[s] \in UNION {{at[f][1], at[f][2]} : f \in Behind(s)}
            /\ (s # q /\ Behind(s) \cap Behind(q) # {}) => o.seats[s] # o.seats[q]
  IN  {o \in {[winners |-> w, seats |-> s] : w \in [decisive -> 1..2], s \in [QualifiedSlots(event) -> entrants]} :
         Proper(o)}

(***************************************************************************)
(* Preparing and compiling.                                                *)
(***************************************************************************)
Init ==
  /\ SearchInit
  /\ scene \in Scenes
  /\ draft = 1
  /\ worker = None /\ prepared = None /\ planned = None /\ assigned = {}
  /\ outcome = None /\ incident = None /\ incidents = 0

Drafting == planned = None

EditDraft ==
  /\ Drafting
  /\ draft < Len(scene.events)
  /\ draft' = draft + 1
  /\ UNCHANGED <<searchVars, scene, worker, prepared, planned, assigned, outcome, incident, incidents>>

(* prepareCompilation: the request awaits the child process; other requests go on. *)
Prepare ==
  /\ Drafting /\ scene.connected
  /\ worker = None
  /\ Solvable(ProblemOf(Event))
  /\ worker' = [version |-> draft, problem |-> ProblemOf(Event)]
  /\ UNCHANGED <<searchVars, scene, draft, prepared, planned, assigned, outcome, incident, incidents>>

(* Whatever the process prints; only a plan that passes the certificate is CERTIFIED. *)
Answers(problem) ==
  LET candidates == [t \in DOMAIN problem.tasks |->
                       {p \in OnGrid(problem, t) : p.start \in scene.starts \cup {problem.tasks[t].fixed}
                          \cup {problem.locks[l].start : l \in DOMAIN problem.locks}}]
  IN  {Answer("CERTIFIED", plan) : plan \in {p \in AllPlans(candidates) : Certified(problem, p, Makespan(p))}}
      \cup {Answer("INFEASIBLE", None), Answer("UNKNOWN", None)}

WorkerAnswers ==
  /\ worker # None
  /\ \E a \in Answers(worker.problem) :
       prepared' = [version |-> worker.version, problem |-> worker.problem, answer |-> a]
  /\ worker' = None
  /\ UNCHANGED <<searchVars, scene, draft, planned, assigned, outcome, incident, incidents>>

(* The process exits, overflows or is killed at its time limit: settled once, as UNKNOWN. *)
WorkerFails ==
  /\ worker # None
  /\ prepared' = [version |-> worker.version, problem |-> worker.problem, answer |-> Answer("UNKNOWN", None)]
  /\ worker' = None
  /\ UNCHANGED <<searchVars, scene, draft, planned, assigned, outcome, incident, incidents>>

(* The answer used: prepared for this very draft and problem, or a process waited for here. *)
AnswersAtCompile ==
  IF prepared # None /\ prepared.version = draft /\ prepared.problem = ProblemOf(Event)
  THEN {prepared.answer} ELSE Answers(ProblemOf(Event))

PlansToPublish ==
  IF scene.connected
  THEN IF Solvable(ProblemOf(Event)) THEN {a.plan : a \in {b \in AnswersAtCompile : b.status = "CERTIFIED"}} ELSE {}
  ELSE {list.plan : list \in {l \in {ListSchedule(Event)} : ~l.failed}}

(* Compiled, found valid, approved and published; a refusal leaves everything as it was. *)
Publish ==
  /\ Drafting
  /\ \E plan \in PlansToPublish, o \in Outcomes(Event) :
       /\ ValidSchedule(Event, plan)
       /\ planned' = plan /\ assigned' = plan
       /\ outcome' = o
  /\ worker' = None /\ prepared' = None
  /\ UNCHANGED <<searchVars, scene, draft, incident, incidents>>

(***************************************************************************)
(* Repairing the day.                                                      *)
(***************************************************************************)
Begun(now) == {a \in assigned : a.start < now}
OnCourt(now) == {a \in Begun(now) : now < a.end}

(* A court of its own for a contest that must stay: numbered beyond the units. *)
Pinned(id) == 100 + id

(* The scheduled contests of the court that overlap the time it is closed. *)
Affected(i) == {a \in assigned : a.court = i.court /\ a.start >= i.now /\ a.start < i.until /\ i.from < a.end}

BugBusy(i) == assigned \ Affected(i)

(* All others; the overrunning contest keeps court and players until its reported end. *)
Busy(i) ==
  {IF a.task = i.source /\ i.until > a.end THEN [a EXCEPT !.end = i.until] ELSE a : a \in assigned \ Affected(i)}

(* The schedule as it is now known to end. *)
AsReported(i) == Busy(i) \cup Affected(i)

(* resolvedEntrants once everything before the contest is over, else possibleEntrantIds. *)
EntrantsKnown(id, i) ==
  IF \E ready \in {AncestorReady(Event, AsReported(i))} : \A d \in Dependencies(Event, id) : ready[d] <= i.now
  THEN {Playing(Event, outcome)[id][1], Playing(Event, outcome)[id][2]} \ {<<>>}
  ELSE PossibleEntrants(Event)[id]

(* repairProblem: the affected contests move, the other contests of their players are pinned,
   everything else is only time at which a court is taken. *)
RepairRequest(i) ==
  LET Who(a) == EntrantsKnown(a.task, i)
      affected == Affected(i)
      bound == {a \in Busy(i) : Who(a) \cap UNION {Who(b) : b \in affected} # {}}
      Later(w) == <<Max({w[1], i.from}), Min({w[2], Event.finishBy})>>
      open == [u \in DOMAIN Event.units |-> {w \in {Later(v) : v \in Event.units[u].open} : w[1] < w[2]}]
      courts == {u \in DOMAIN Event.units : open[u] # {}}
      Closures(u) == {<<a.start, a.end>> : a \in {b \in Busy(i) : b.court = u}}
                     \cup (IF u = i.court THEN {<<i.from, i.until>>} ELSE {})
      Task(a) == [minutes |-> a.end - a.start, fixed |-> NoStart, who |-> Who(a),
                  courts |-> IF a \in affected THEN courts ELSE {Pinned(a.task)},
                  after |-> IF a \in affected THEN Dependencies(Event, a.task) \cap {b.task : b \in affected} ELSE {}]
      Own(a) == IF a \in bound THEN [a EXCEPT !.court = Pinned(a.task)] ELSE a
  IN  [kind |-> "REPAIR", limit |-> SearchLimit, freeze |-> 0,
       pins |-> {a.task : a \in bound},
       baseline |-> {Own(a) : a \in affected \cup bound},
       problem |-> [tasks |-> [t \in {a.task : a \in affected \cup bound} |-> Task(SlotOf(affected \cup bound, t))],
                    courts |-> [u \in courts |-> [open |-> open[u], closed |-> Closures(u)]] @@
                               [c \in {Pinned(a.task) : a \in bound} |->
                                  [open |-> {<<a.start, a.end>> : a \in {b \in bound : Pinned(b.task) = c}}, closed |-> {}]],
                    locks |-> <<>>, rest |-> Event.rest],
       movable |-> {a.task : a \in affected}]

(* The refusals of repairProblem that precede the search. *)
Propose(i) ==
  /\ planned # None /\ incident = None /\ incidents < MaxIncidents
  /\ i.from < i.until /\ i.until <= Event.finishBy
  /\ \E r \in {RepairRequest(i)} : r.movable # {} /\ Ask(r)
  /\ incident' = i /\ incidents' = incidents + 1
  /\ UNCHANGED <<scene, draft, worker, prepared, planned, assigned, outcome>>

NoContest == 0

CloseCourt ==
  \E court \in DOMAIN Event.units, now, until \in scene.moments :
    /\ \A a \in OnCourt(now) : a.court # court
    /\ Propose([court |-> court, from |-> now, until |-> until, source |-> NoContest, now |-> now])

(* The court stays taken from the end planned at publication until the reported end. *)
ReportOverrun ==
  \E now, until \in scene.moments :
    \E a \in Begun(now) :
      /\ now < a.end \/ \A b \in Begun(now) : b.court = a.court => b.start <= a.start   \* it may be late already
      /\ until > SlotOf(planned, a.task).end /\ until > now
      /\ Propose([court |-> a.court, from |-> SlotOf(planned, a.task).end, until |-> until,
                  source |-> a.task, now |-> now])

Repaired ==
  {IF a.task \in request.movable THEN SlotOf(answer.plan, a.task) ELSE a : a \in assigned}

(* Ready for approval: a minimal repair whose schedule is valid as a whole and keeps off the court. *)
Ready ==
  /\ answer.status \in {"REPAIRED", "UNCHANGED"}
  /\ ValidSchedule(Event, Repaired)
  /\ \A a \in Repaired : a.court = incident.court => ~(a.start < incident.until /\ incident.from < a.end)

Forget == request' = None /\ trail' = <<>> /\ todo' = <<>> /\ nodes' = 0
          /\ cutoff' = FALSE /\ best' = None /\ answer' = None

(* A second person approves; the same proposal is derived again from unchanged state. *)
ApproveRepair ==
  /\ incident # None /\ answer # None
  /\ Ready
  /\ assigned' = Repaired
  /\ incident' = None
  /\ Forget
  /\ UNCHANGED <<scene, draft, worker, prepared, planned, outcome, incidents>>

(* Blocked, or superseded: nothing is published. *)
DropRepair ==
  /\ incident # None /\ answer # None
  /\ incident' = None
  /\ Forget
  /\ UNCHANGED <<scene, draft, worker, prepared, planned, assigned, outcome, incidents>>

(* A request put to one of the searches directly, by another caller of the engine. *)
AskDirectly ==
  /\ planned = None /\ request = None
  /\ \E r \in scene.requests : Ask(r)
  /\ UNCHANGED planVars

Search == SearchStep /\ UNCHANGED planVars

Next ==
  \/ EditDraft \/ Prepare \/ WorkerAnswers \/ WorkerFails \/ Publish
  \/ CloseCourt \/ ReportOverrun \/ ApproveRepair \/ DropRepair
  \/ AskDirectly \/ Search

Spec == Init /\ [][Next]_vars

-----------------------------------------------------------------------------
(***************************************************************************)
(* A published plan can be played, whatever comes of the matches: when a   *)
(* contest begins, everything before it is over, no court has two          *)
(* contests, and nobody on court, qualifiers whom no plan named included,  *)
(* had less than the minimum rest; and what was promised is kept.  The     *)
(* code checks possible entrants and origins of qualification slots        *)
(* (validateSchedule, qualificationOutcomeFindings); this follows the      *)
(* players themselves.                                                     *)
(***************************************************************************)
PlaysOut(plan) ==
  \E at \in {Playing(Event, outcome)}, ready \in {AncestorReady(Event, plan)} :
    /\ \A a \in plan :
         /\ \A d \in Dependencies(Event, a.task) : ready[d] <= a.start
         /\ \A x \in DOMAIN Event.protect \cap {a.task} :
              /\ PinnedStart(Event, x) \in {NoStart, a.start}
              /\ PinnedCourt(Event, x) \in {AnyCourt, a.court}
    /\ \A a, b \in plan :
         a # b => /\ ~(a.court = b.court /\ Overlap(a, b))
                  /\ (\E i, j \in 1..2 : at[a.task][i] = at[b.task][j]) => Rested(a, b, Event.rest)

PublishedPlanPlaysOut == planned # None => PlaysOut(assigned)

(***************************************************************************)
(* A repair after a closure touches nothing that has begun, places what it *)
(* moves on open courts after the closure was reported, and gives the      *)
(* players of an overrunning contest their rest after its reported end.    *)
(***************************************************************************)
RepairLooksAhead ==
  [][(incident # None /\ assigned' # assigned) =>
       \A a \in assigned' \ assigned :
         /\ SlotOf(assigned, a.task).start >= incident.now
         /\ incident.source = NoContest => a.start >= incident.now
         /\ (incident.source # NoContest /\ EntrantsKnown(a.task, incident)
               \cap EntrantsKnown(incident.source, incident) # {})
              => a.start >= incident.until + Event.rest]_vars
============================================================================
