--------------------------- MODULE LiveOperations ---------------------------
(***************************************************************************)
(* The event-day engine of                                                 *)
(* packages/competition-engine/src/live-operations.ts.  Every accepted     *)
(* command appends one event, and the state is projected anew from all     *)
(* events; a correction takes an earlier event out of the projection and   *)
(* puts a replacement at its own place in the log, after everything that   *)
(* was decided on the event it takes out.                                  *)
(*                                                                         *)
(* The optimistic version and the command identities are those of          *)
(* LiveControl.  Officials and equipment are handled alike and are called  *)
(* staff.  Instants are small numbers, 0 standing for an absent one, and a *)
(* duration is only known to be a number or not.                           *)
(***************************************************************************)
EXTENDS Integers, Sequences, FiniteSetsExt

CONSTANTS
  Entrants, NoEntrant,
  Contests, NoContest,
  Courts, NoCourt,
  Staff,
  Protests, Appeals,
  Scores, NoScore,
  Ties,          \* orders an organiser may decide for tied entrants
  Definition,    \* the published contests, see Fixture
  MaxTime,       \* BOUND: instants
  Rewrites,      \* BOUND: the replacements tried
  Budget,        \* BOUND: how many events of each kind a log may hold
  MaxEvents      \* BOUND: length of a log

Times == 1..MaxTime
NoTime == 0
Resources == Courts \union Staff
Presence == {"CHECKED_IN", "LATE", "NO_SHOW", "WITHDRAWN"}

(* What a correction may put in the place of what it takes out.            *)
Replacements ==
  [kind : {"SET_PRESENCE"}, entrant : Entrants, status : Presence] \union
  {r \in [kind : {"SET_TIMING"}, contest : Contests, start : Times, end : Times \union {NoTime}] :
     r.end # NoTime => r.start <= r.end} \union
  [kind : {"SET_SCORE"}, contest : Contests, score : Scores] \union
  [kind : {"SET_RESOURCE"}, resource : Resources, yes : BOOLEAN, until : Times \union {NoTime}]

(* resolved is empty while the entrants are still to come from results.    *)
Fixture == [possible : SUBSET Entrants, resolved : SUBSET Entrants, court : Courts,
            staff : SUBSET Staff, after : SUBSET Contests]

ASSUME DefinitionAssumption ==
  /\ Definition \in [Contests -> Fixture]
  /\ \A c \in Contests : c \notin Definition[c].after /\ Definition[c].resolved \subseteq Definition[c].possible
  /\ Rewrites \subseteq Replacements
  /\ NoContest \notin Contests

VARIABLES
  log,    \* the events
  live    \* the state projected from them

vars == <<log, live>>

Settled == {"COMPLETED", "WALKOVER", "RETIRED"}
Outcomes == {"UPHELD", "DENIED"}

Contest ==
  [status : {"SCHEDULED", "IN_PROGRESS"} \union Settled, called : BOOLEAN, court : Courts \union {NoCourt},
   start : Times \union {NoTime}, end : Times \union {NoTime}, duration : {"NONE", "MINUTES", "NaN"},
   score : Scores \union {NoScore}, winner : Entrants \union {NoEntrant}, received : BOOLEAN]

Scheduled ==
  [status |-> "SCHEDULED", called |-> FALSE, court |-> NoCourt, start |-> NoTime, end |-> NoTime,
   duration |-> "NONE", score |-> NoScore, winner |-> NoEntrant, received |-> FALSE]

(* createLiveOperationsState.                                              *)
Initial ==
  [presence |-> [x \in Entrants |-> "NONE"],
   contests |-> [c \in Contests |-> Scheduled],
   resolved |-> [c \in Contests |-> Definition[c].resolved],
   available |-> [r \in Resources |-> [yes |-> TRUE, until |-> NoTime]],
   protests |-> [p \in Protests |-> [status |-> "NONE", contest |-> NoContest]],
   appeals |-> [a \in Appeals |-> [status |-> "NONE", protest |-> "NONE"]]]

-----------------------------------------------------------------------------
(* Projection                                                              *)

Duration(s, e) == IF s.contests[e.contest].start = NoTime THEN "NaN" ELSE "MINUTES"

(* What a replacement sets, at the place of the correction.                *)
Replaced(s, replacement) ==
  CASE replacement.kind = "SET_PRESENCE" ->
         [s EXCEPT !.presence[replacement.entrant] = replacement.status]
    [] replacement.kind = "SET_TIMING" /\ replacement.end = NoTime ->
         [s EXCEPT !.contests[replacement.contest] = [@ EXCEPT !.status = "IN_PROGRESS", !.start = replacement.start]]
    [] replacement.kind = "SET_TIMING" /\ replacement.end # NoTime ->
         [s EXCEPT !.contests[replacement.contest] =
            [@ EXCEPT !.status = "COMPLETED", !.start = replacement.start, !.end = replacement.end, !.duration = "MINUTES"]]
    [] replacement.kind = "SET_SCORE" ->
         [s EXCEPT !.contests[replacement.contest].score = replacement.score]
    [] replacement.kind = "SET_RESOURCE" ->
         [s EXCEPT !.available[replacement.resource] = [yes |-> replacement.yes, until |-> replacement.until]]

(* What an event that stands does to the state.                            *)
Effect(s, e) ==
  CASE e.kind = "PRESENCE" -> [s EXCEPT !.presence[e.entrant] = e.status]
    [] e.kind = "WALKOVER" -> [s EXCEPT !.contests[e.contest] =
                                 [Scheduled EXCEPT !.status = "WALKOVER", !.winner = e.winner]]
    [] e.kind = "CALLED" -> [s EXCEPT !.contests[e.contest].called = TRUE]
    [] e.kind = "STARTED" -> [s EXCEPT !.contests[e.contest] =
                                [@ EXCEPT !.status = "IN_PROGRESS", !.court = e.court, !.start = e.start]]
    [] e.kind = "SCORED" -> [s EXCEPT !.contests[e.contest].score = e.score]
    [] e.kind = "COMPLETED" -> [s EXCEPT !.contests[e.contest] =
                                  [@ EXCEPT !.status = "COMPLETED", !.end = e.end, !.duration = Duration(s, e)]]
    [] e.kind = "ENTRANTS" -> [s EXCEPT !.resolved[e.contest] = e.entrants]
    [] e.kind = "RETIRED" -> [s EXCEPT !.contests[e.contest] =
                                [@ EXCEPT !.status = "RETIRED", !.end = e.end, !.duration = Duration(s, e), !.winner = e.winner]]
    [] e.kind = "RECEIVED" -> [s EXCEPT !.contests[e.contest].received = TRUE]
    [] e.kind = "PROTEST" -> [s EXCEPT !.protests[e.protest] = [status |-> "PENDING", contest |-> e.contest]]
    [] e.kind = "RULING" -> [s EXCEPT !.protests[e.protest].status = e.outcome]
    [] e.kind = "APPEAL" -> [s EXCEPT !.appeals[e.appeal] = [status |-> "PENDING", protest |-> e.protest]]
    [] e.kind = "APPEAL_RULING" -> [s EXCEPT !.appeals[e.appeal].status = e.outcome]
    [] e.kind = "RESOURCE" -> [s EXCEPT !.available[e.resource] = [yes |-> e.yes, until |-> e.until]]
    [] e.kind = "CORRECTED" -> Replaced(s, e.replacement)
    [] e.kind = "TIE" -> s

(* The positions corrections take out.                                     *)
Superseded(events) == {events[i].target : i \in {j \in DOMAIN events : events[j].kind = "CORRECTED"}}

BugProject(events) ==
  LET state[n \in 0..Len(events)] == IF n = 0 THEN Initial ELSE Effect(state[n - 1], events[n])
  IN  state[Len(events)]

Project(events) ==
  LET superseded == Superseded(events)
      state[n \in 0..Len(events)] ==
        IF n = 0 THEN Initial
        ELSE IF n \in superseded THEN state[n - 1]
        ELSE Effect(state[n - 1], events[n])
  IN  state[Len(events)]

(* The state is hashed, and canonicalHash throws on a number that is none. *)
Hashable(s) == \A c \in Contests : s.contests[c].duration # "NaN"

-----------------------------------------------------------------------------
(* Commands.  Each ends in Record: acceptedEvent and the new projection.   *)
Count(kind) == Cardinality({i \in DOMAIN log : log[i].kind = kind})

Record(event) ==
  /\ Len(log) < MaxEvents
  /\ Count(event.kind) < Budget[event.kind]
  /\ log' = Append(log, event)
  /\ live' = Project(log')
  /\ Hashable(live')

StatusOf(c) == live.contests[c].status
IsSettled(c) == StatusOf(c) \in Settled
IsResolved(c) == live.resolved[c] # {}

(* courtClosedAt.                                                          *)
CourtClosedAt(court, t) ==
  /\ ~live.available[court].yes
  /\ live.available[court].until # NoTime => t < live.available[court].until

(* CHECK_IN, MARK_LATE and WITHDRAW_ENTRANT.                               *)
SetPresence(x, status) ==
  /\ status # "NO_SHOW"
  /\ Record([kind |-> "PRESENCE", entrant |-> x, status |-> status])

DeclareNoShow(c, x) ==
  /\ IsResolved(c)
  /\ x \in live.resolved[c]
  /\ Record([kind |-> "PRESENCE", entrant |-> x, status |-> "NO_SHOW"])

AwardWalkover(c, winner, absent) ==
  /\ IsResolved(c)
  /\ StatusOf(c) = "SCHEDULED"
  /\ winner # absent /\ {winner, absent} \subseteq live.resolved[c]
  /\ live.presence[absent] \in {"NO_SHOW", "WITHDRAWN"}
  /\ Record([kind |-> "WALKOVER", contest |-> c, winner |-> winner])

CallContest(c) ==
  /\ IsResolved(c)
  /\ StatusOf(c) = "SCHEDULED" /\ ~live.contests[c].called
  /\ Record([kind |-> "CALLED", contest |-> c])

(* RESOLVE_CONTEST_ENTRANTS, from results elsewhere.                       *)
ResolveContestEntrants(c, entrants) ==
  /\ StatusOf(c) = "SCHEDULED" /\ ~live.contests[c].called
  /\ Cardinality(entrants) = 2 /\ entrants \subseteq Definition[c].possible
  /\ Record([kind |-> "ENTRANTS", contest |-> c, entrants |-> entrants])

(* START_CONTEST occurring at `now`, reported to have started at `start`.  *)
Missing(c) == {x \in live.resolved[c] : live.presence[x] \notin {"CHECKED_IN", "LATE"}}
Pending(c) == {d \in Definition[c].after : ~IsSettled(d)}

BugOccupying(c, court) == {d \in Definition[c].after : StatusOf(d) = "IN_PROGRESS" /\ live.contests[d].court = court}
Occupying(c, court) == {d \in Contests \ {c} : StatusOf(d) = "IN_PROGRESS" /\ live.contests[d].court = court}

MayStart(c, court, now, start) ==
  /\ IsResolved(c)
  /\ StatusOf(c) = "SCHEDULED"
  /\ ~CourtClosedAt(court, now) /\ ~CourtClosedAt(court, start)
  /\ Occupying(c, court) = {}
  /\ Missing(c) = {}
  /\ Pending(c) = {}

StartContest(c, court, now, start) ==
  /\ MayStart(c, court, now, start)
  /\ Record([kind |-> "STARTED", contest |-> c, court |-> court, start |-> start])

RecordScore(c, score) ==
  /\ StatusOf(c) = "IN_PROGRESS" /\ IsResolved(c)
  /\ Record([kind |-> "SCORED", contest |-> c, score |-> score])

InPlayUntil(c, end) ==
  /\ IsResolved(c)
  /\ StatusOf(c) = "IN_PROGRESS"
  /\ live.contests[c].start # NoTime /\ live.contests[c].start <= end

CompleteContest(c, end) ==
  /\ InPlayUntil(c, end)
  /\ Record([kind |-> "COMPLETED", contest |-> c, end |-> end])

RecordRetirement(c, retired, winner, end) ==
  /\ InPlayUntil(c, end)
  /\ retired # winner /\ {retired, winner} \subseteq live.resolved[c]
  /\ Record([kind |-> "RETIRED", contest |-> c, winner |-> winner, end |-> end])

RecordResultReceipt(c) ==
  /\ IsResolved(c)
  /\ IsSettled(c) /\ ~live.contests[c].received
  /\ Record([kind |-> "RECEIVED", contest |-> c])

FileProtest(p, c) ==
  /\ IsResolved(c)
  /\ live.protests[p].status = "NONE"
  /\ IsSettled(c)
  /\ Record([kind |-> "PROTEST", protest |-> p, contest |-> c])

ResolveProtest(p, outcome) ==
  /\ live.protests[p].status = "PENDING"
  /\ Record([kind |-> "RULING", protest |-> p, outcome |-> outcome])

MayAppeal(a, p) ==
  /\ live.protests[p].status \in Outcomes
  /\ live.appeals[a].status = "NONE"
  /\ \A b \in Appeals : live.appeals[b].protest # p

FileAppeal(a, p) ==
  /\ MayAppeal(a, p)
  /\ Record([kind |-> "APPEAL", appeal |-> a, protest |-> p])

ResolveAppeal(a, outcome) ==
  /\ live.appeals[a].status = "PENDING"
  /\ Record([kind |-> "APPEAL_RULING", appeal |-> a, outcome |-> outcome])

(* CLOSE_COURT with or without the instant it is expected to reopen, the   *)
(* absence of an official, the failure of equipment, and their ends.       *)
ChangeResource(r, yes, until, now) ==
  /\ live.available[r].yes # yes
  /\ until # NoTime => r \in Courts /\ ~yes /\ now <= until
  /\ Record([kind |-> "RESOURCE", resource |-> r, yes |-> yes, until |-> until])

DecideStandingsTie(order) ==
  Record([kind |-> "TIE", order |-> order])

(* CORRECT_OPERATION: once for each original event; only a score has to be *)
(* replaced in kind.                                                       *)
CorrectOperation(i, replacement) ==
  /\ log[i].kind # "CORRECTED" /\ i \notin Superseded(log)
  /\ replacement.kind = "SET_SCORE" =>
       log[i].kind = "SCORED" /\ log[i].contest = replacement.contest
  /\ Record([kind |-> "CORRECTED", target |-> i, replacement |-> replacement])

-----------------------------------------------------------------------------
Init == log = <<>> /\ live = Initial

ContestCommand(c) ==
  \/ \E x \in Entrants : DeclareNoShow(c, x)
  \/ \E winner, absent \in Entrants : AwardWalkover(c, winner, absent)
  \/ CallContest(c)
  \/ \E entrants \in SUBSET Entrants : ResolveContestEntrants(c, entrants)
  \/ \E court \in Courts, now, start \in Times : StartContest(c, court, now, start)
  \/ \E score \in Scores : RecordScore(c, score)
  \/ \E end \in Times : CompleteContest(c, end)
  \/ \E retired, winner \in Entrants, end \in Times : RecordRetirement(c, retired, winner, end)
  \/ RecordResultReceipt(c)
  \/ \E p \in Protests : FileProtest(p, c)

Next ==
  \/ \E x \in Entrants, status \in Presence : SetPresence(x, status)
  \/ \E c \in Contests : ContestCommand(c)
  \/ \E p \in Protests, outcome \in Outcomes : ResolveProtest(p, outcome)
  \/ \E a \in Appeals, p \in Protests : FileAppeal(a, p)
  \/ \E a \in Appeals, outcome \in Outcomes : ResolveAppeal(a, outcome)
  \/ \E r \in Resources, yes \in BOOLEAN, until \in Times \union {NoTime}, now \in Times : ChangeResource(r, yes, until, now)
  \/ \E order \in Ties : DecideStandingsTie(order)
  \/ \E i \in DOMAIN log, replacement \in Rewrites : CorrectOperation(i, replacement)

Spec == Init /\ [][Next]_vars

-----------------------------------------------------------------------------
(* deriveLiveControlRoom: why a contest still to be played is blocked at   *)
(* an instant.  A presence reason names what the entrant is instead of     *)
(* present.                                                                *)
DependsOn(p, c) == live.protests[p].contest \in Definition[c].after
PendingProtests(c) == {p \in Protests : DependsOn(p, c) /\ live.protests[p].status = "PENDING"}
PendingAppeals(c) ==
  {a \in Appeals : /\ live.appeals[a].status = "PENDING"
                   /\ \E p \in Protests : live.appeals[a].protest = p /\ DependsOn(p, c)}

HardReasons(c, t) ==
  ({live.presence[x] : x \in live.resolved[c]} \intersect {"NONE", "NO_SHOW", "WITHDRAWN"})
    \union {reason \in {"PENDING_PREDECESSOR"} : Pending(c) # {}}
    \union {reason \in {"COURT_CLOSED"} : CourtClosedAt(Definition[c].court, t)}

OtherReasons(c) ==
  {reason \in {"STAFF_ABSENT"} : \E r \in Definition[c].staff : ~live.available[r].yes}
    \union {reason \in {"PROTEST_PENDING"} : PendingProtests(c) # {}}
    \union {reason \in {"APPEAL_PENDING"} : PendingAppeals(c) # {}}

-----------------------------------------------------------------------------
(* Properties                                                              *)

(* The projected state has the shape the code declares, whatever was       *)
(* corrected away underneath later events.                                 *)
TypeOK ==
  /\ live.presence \in [Entrants -> Presence \union {"NONE"}]
  /\ live.contests \in [Contests -> Contest]
  /\ live.resolved \in [Contests -> SUBSET Entrants]
  /\ live.available \in [Resources -> [yes : BOOLEAN, until : Times \union {NoTime}]]
  /\ live.protests \in [Protests -> [status : {"NONE", "PENDING"} \union Outcomes, contest : Contests \union {NoContest}]]
  /\ live.appeals \in [Appeals -> [status : {"NONE", "PENDING"} \union Outcomes, protest : Protests \union {"NONE"}]]
  /\ Hashable(live)

(* The rules of START_CONTEST, AWARD_WALKOVER and the receipts add up, as  *)
(* long as nothing is corrected: a court holds one contest in play,        *)
(* nothing was played before what it depends on was settled, or by         *)
(* entrants not known yet, only a settled contest has a winner or a        *)
(* receipt, and a protest is appealed once.                                *)
CourtHoldsOne ==
  \A c, d \in Contests : c # d /\ StatusOf(c) = "IN_PROGRESS" /\ StatusOf(d) = "IN_PROGRESS" =>
    live.contests[c].court # live.contests[d].court
PlayedInOrder ==
  \A c \in Contests : StatusOf(c) \in {"IN_PROGRESS", "COMPLETED", "RETIRED"} => IsResolved(c) /\ Pending(c) = {}
OnlySettledIsDecided ==
  \A c \in Contests :
    /\ live.contests[c].winner # NoEntrant => IsSettled(c) /\ live.contests[c].winner \in live.resolved[c]
    /\ live.contests[c].received => IsSettled(c)
AppealedOnce ==
  \A a, b \in Appeals : live.appeals[a].status # "NONE" /\ live.appeals[a].protest = live.appeals[b].protest => a = b

UncorrectedPlayIsLawful ==
  Superseded(log) = {} => CourtHoldsOne /\ PlayedInOrder /\ OnlySettledIsDecided /\ AppealedOnce

(* The state is what the log says to somebody who never projects it: who   *)
(* is here, what became of a contest and what can be used is what the      *)
(* latest event about it says that no correction has taken out.            *)
Standing == DOMAIN log \ Superseded(log)
Fact(i) == IF log[i].kind = "CORRECTED" THEN log[i].replacement ELSE log[i]
StatusSaid(f) ==
  CASE f.kind = "STARTED" -> "IN_PROGRESS"
    [] f.kind = "SET_TIMING" -> IF f.end = NoTime THEN "IN_PROGRESS" ELSE "COMPLETED"
    [] f.kind \in Settled -> f.kind

PresenceFacts(x) == {i \in Standing : Fact(i).kind \in {"PRESENCE", "SET_PRESENCE"} /\ Fact(i).entrant = x}
StatusFacts(c) == {i \in Standing : Fact(i).kind \in {"STARTED", "SET_TIMING"} \union Settled /\ Fact(i).contest = c}
ResourceFacts(r) == {i \in Standing : Fact(i).kind \in {"RESOURCE", "SET_RESOURCE"} /\ Fact(i).resource = r}

LatestStandingFactHolds ==
  /\ \A x \in Entrants :
       live.presence[x] = IF PresenceFacts(x) = {} THEN "NONE" ELSE Fact(Max(PresenceFacts(x))).status
  /\ \A c \in Contests :
       StatusOf(c) = IF StatusFacts(c) = {} THEN "SCHEDULED" ELSE StatusSaid(Fact(Max(StatusFacts(c))))
  /\ \A r \in Resources :
       live.available[r].yes = IF ResourceFacts(r) = {} THEN TRUE ELSE Fact(Max(ResourceFacts(r))).yes

(* The control room and START_CONTEST agree on the hard rules: a contest   *)
(* whose court is free is refused exactly when the room says why.          *)
ControlRoomAgreesWithStart ==
  \A c \in Contests, t \in Times :
    StatusOf(c) = "SCHEDULED" /\ IsResolved(c) /\ Occupying(c, Definition[c].court) = {} =>
      (MayStart(c, Definition[c].court, t, t) <=> HardReasons(c, t) = {})

(* Whoever plays the winner of a disputed contest is listed as blocked as  *)
(* long as the protest, or the appeal against its ruling, is unanswered.   *)
Answered(i, kind, Same(_)) == \E j \in Standing : j > i /\ Fact(j).kind = kind /\ Same(Fact(j))
Protested(p, c) ==
  {i \in Standing : Fact(i).kind = "PROTEST" /\ Fact(i).protest = p /\ Fact(i).contest \in Definition[c].after}

DisputesAreShown ==
  \A c \in Contests :
    /\ "PROTEST_PENDING" \in OtherReasons(c) <=>
         \E p \in Protests : \E i \in Protested(p, c) : ~Answered(i, "RULING", LAMBDA f : f.protest = p)
    /\ "APPEAL_PENDING" \in OtherReasons(c) <=>
         \E i \in Standing : /\ Fact(i).kind = "APPEAL" /\ Protested(Fact(i).protest, c) # {}
                            /\ ~Answered(i, "APPEAL_RULING", LAMBDA f : f.appeal = Fact(i).appeal)

(* Only a correction changes the result of a settled contest or a ruling.  *)
Correcting == Superseded(log') # Superseded(log)
SettledIsFinal ==
  [][~Correcting =>
       /\ \A c \in Contests : IsSettled(c) => live'.contests[c] = [live.contests[c] EXCEPT !.received = live'.contests[c].received]
       /\ \A p \in Protests : live.protests[p].status \in Outcomes => live'.protests[p] = live.protests[p]
       /\ \A a \in Appeals : live.appeals[a].status \in Outcomes => live'.appeals[a] = live.appeals[a]]_vars

(* An event changes only what it names; a correction, only what it         *)
(* replaces and what it takes out, though everything is projected anew.    *)
Subject(f) ==
  CASE f.kind \in {"PRESENCE", "SET_PRESENCE"} -> {f.entrant}
    [] f.kind \in {"PROTEST", "RULING"} -> {f.protest}
    [] f.kind \in {"APPEAL", "APPEAL_RULING"} -> {f.appeal}
    [] f.kind \in {"RESOURCE", "SET_RESOURCE"} -> {f.resource}
    [] f.kind = "TIE" -> {"TIE"}
    [] f.kind = "CORRECTED" -> {}
    [] OTHER -> {f.contest}
Named(e) ==
  Subject(e) \union IF e.kind = "CORRECTED" THEN Subject(e.replacement) \union Subject(log[e.target]) ELSE {}

EventsAreLocal ==
  [][LET named == Named(log'[Len(log')])
     IN  /\ \A x \in Entrants \ named : live'.presence[x] = live.presence[x]
         /\ \A c \in Contests \ named : live'.contests[c] = live.contests[c] /\ live'.resolved[c] = live.resolved[c]
         /\ \A r \in Resources \ named : live'.available[r] = live.available[r]
         /\ \A p \in Protests \ named : live'.protests[p] = live.protests[p]
         /\ \A a \in Appeals \ named : live'.appeals[a] = live.appeals[a]]_vars

(* What the projection says is what the standing events say, the control   *)
(* room shows every open dispute and reads the hard rules as the start of  *)
(* a contest does, and an event changes only what it is about, a settled   *)
(* matter only by correction.                                              *)
ProjectionIsTrue ==
  /\ [](TypeOK /\ LatestStandingFactHolds /\ ControlRoomAgreesWithStart /\ DisputesAreShown)
  /\ SettledIsFinal /\ EventsAreLocal
=============================================================================
