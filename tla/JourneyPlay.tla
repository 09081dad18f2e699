---------------------------- MODULE JourneyPlay ----------------------------
(* A published competition while it is played (competition-journey.ts and  *)
(* the repairs of no-show-journey.ts, court-outage-journey.ts and          *)
(* live-progression.ts), up to its closure (competition-lifecycle.ts).     *)
(* The live log holds what decides who plays whom; check-ins, calls and    *)
(* disputes are left to LiveOperations.                                    *)
EXTENDS JourneyDraft
Seqs == INSTANCE SequencesExt

CONSTANTS
  Pool,    \* contests of the pool stage
  Final,   \* the contest the pool decides
  Sides    \* sides of a contest

-----------------------------------------------------------------------------
(* The operational authority of a running event (operational-safety.ts):   *)
(* its mode, who may change it, and what a restart after a stop requires.  *)
(* Commands are retried by identity there; a retry changes nothing, so     *)
(* identities are left out.                                                *)

(* The functions a person is assigned to.                                  *)
Functions == {"INCIDENT_LEAD", "COMPETITION_LEAD", "SAFETY_LEAD", "SCRIBE"}

CreateOperations(assigned) ==
  [mode |-> "NORMAL", assigned |-> assigned, incidents |-> {}, cleared |-> {}, events |-> <<>>]

RequiredAuthority(mode, target) ==
  CASE target = "STOPPED" -> {"SAFETY_LEAD", "INCIDENT_LEAD"}
    [] target \in {"CANCELLED", "RECOVERING"} \/ (target = "NORMAL" /\ mode = "RECOVERING") -> {"INCIDENT_LEAD"}
    [] target = "PAUSED" -> {"COMPETITION_LEAD", "SAFETY_LEAD", "INCIDENT_LEAD"}
    [] OTHER -> {"COMPETITION_LEAD", "INCIDENT_LEAD"}

AllowedTransitions ==
  [NORMAL     |-> {"DEGRADED", "PAUSED", "STOPPED", "CANCELLED"},
   DEGRADED   |-> {"NORMAL", "PAUSED", "STOPPED", "CANCELLED"},
   PAUSED     |-> {"NORMAL", "STOPPED", "CANCELLED"},
   STOPPED    |-> {"RECOVERING", "CANCELLED"},
   RECOVERING |-> {"NORMAL", "STOPPED", "CANCELLED"},
   CANCELLED  |-> {}]

ClearanceFunction == [SAFETY |-> "SAFETY_LEAD", COMPETITION |-> "COMPETITION_LEAD"]

(* Commands c are [kind, fn, actor, what]: what is the target mode, the    *)
(* clearance, the new actor of fn, or the identity of an incident.         *)
Accepts(s, c) ==
  /\ c.actor = s.assigned[c.fn]
  /\ c.kind = "RECORD_INCIDENT" => c.fn \in {"SCRIBE", "INCIDENT_LEAD"} /\ c.what \notin s.incidents
  /\ c.kind = "TRANSITION_MODE" =>
       /\ c.what \in AllowedTransitions[s.mode]
       /\ c.fn \in RequiredAuthority(s.mode, c.what)
       /\ (c.what = "RECOVERING" \/ (s.mode = "RECOVERING" /\ c.what = "NORMAL")) => s.cleared = {"SAFETY", "COMPETITION"}
  /\ c.kind = "RECORD_RESTART_CLEARANCE" => s.mode \in {"STOPPED", "RECOVERING"} /\ c.fn = ClearanceFunction[c.what]
  /\ c.kind = "TRANSFER_AUTHORITY" => c.what # c.actor

BugProject(s, c) ==
  LET e == [s EXCEPT !.events = Append(@, c)]
  IN  CASE c.kind = "RECORD_INCIDENT"          -> [e EXCEPT !.incidents = @ \union {c.what}]
        [] c.kind = "TRANSITION_MODE"          -> [e EXCEPT !.mode = c.what]
        [] c.kind = "RECORD_RESTART_CLEARANCE" -> [e EXCEPT !.cleared = @ \union {c.what}]
        [] c.kind = "TRANSFER_AUTHORITY"       -> [e EXCEPT !.assigned[c.fn] = c.what]

(* A stop takes back the clearances given so far.                          *)
ProjectEvent(s, c) ==
  LET e == [s EXCEPT !.events = Append(@, c)]
  IN  CASE c.kind = "RECORD_INCIDENT"          -> [e EXCEPT !.incidents = @ \union {c.what}]
        [] c.kind = "TRANSITION_MODE"          -> [e EXCEPT !.mode = c.what,
                                                            !.cleared = IF c.what = "STOPPED" THEN {} ELSE @]
        [] c.kind = "RECORD_RESTART_CLEARANCE" -> [e EXCEPT !.cleared = @ \union {c.what}]
        [] c.kind = "TRANSFER_AUTHORITY"       -> [e EXCEPT !.assigned[c.fn] = c.what]

(* The replay of the verifier starts from the assignments at the end, and  *)
(* ends in None at a command that it refuses.                              *)
VerifyOperations(s) ==
  LET replay[k \in 0..Len(s.events)] ==
        IF k = 0 THEN CreateOperations(s.assigned)
        ELSE LET before == replay[k - 1]
             IN  IF before # None /\ Accepts(before, s.events[k]) THEN ProjectEvent(before, s.events[k]) ELSE None
  IN  replay[Len(s.events)] = s

(* Play resumes after a stop only when both leads have cleared it since.   *)
Target(events, k) == IF events[k].kind = "TRANSITION_MODE" THEN events[k].what ELSE "NONE"
RestartsAreCleared(events) ==
  \A stop, restart \in DOMAIN events :
    (stop < restart /\ Target(events, stop) = "STOPPED" /\ Target(events, restart) \in {"RECOVERING", "NORMAL"}) =>
      \A clearance \in {"SAFETY", "COMPETITION"} :
        \E k \in stop..restart : events[k].kind = "RECORD_RESTART_CLEARANCE" /\ events[k].what = clearance

-----------------------------------------------------------------------------
Contests == Pool \union {Final}

(* Events are [kind, contest, winner].                                     *)
About(log, c) == {i \in DOMAIN log : log[i].contest = c /\ log[i].kind \in {"START", "COMPLETE", "CORRECT", "WALKOVER"}}
LastOf(log, at) == log[CHOOSE i \in at : \A j \in at : j <= i]
Status(log, c) ==
  LET about == About(log, c)
  IN  IF about = {} THEN "SCHEDULED"
      ELSE CASE LastOf(log, about).kind = "START"    -> "IN_PROGRESS"
             [] LastOf(log, about).kind = "WALKOVER" -> "WALKOVER"
             [] OTHER                                -> "COMPLETED"
Terminal(log, c) == Status(log, c) \in {"COMPLETED", "WALKOVER"}
Winner(log, c) == LastOf(log, About(log, c)).winner

(* Who plays the final: what the log says, and what the results demand.    *)
Resolved(log) ==
  LET resolutions == {i \in DOMAIN log : log[i].kind = "RESOLVE"}
  IN  IF resolutions = {} THEN None ELSE LastOf(log, resolutions).winner
ExpectedResolution(log) ==
  IF \A c \in Pool : Terminal(log, c) THEN [c \in Pool |-> Winner(log, c)] ELSE None

CanAdvance(log) ==
  LET expected == ExpectedResolution(log)
  IN  \/ expected = Resolved(log)
      \/ expected # None /\ Status(log, Final) = "SCHEDULED"
AdvanceLiveProgression(log) ==
  IF ExpectedResolution(log) = Resolved(log) THEN log
  ELSE Append(log, [kind |-> "RESOLVE", contest |-> Final, winner |-> ExpectedResolution(log)])
VerifyLiveProgression(log) == Len(log) > 0 => ExpectedResolution(log) = Resolved(log)
----------------------------------------------------------------------------
CanActivate(r, revision) ==
  /\ r.closure = None /\ r.live = None
  /\ r.publication # None /\ r.publication.revision = revision /\ r.compiled.revision = revision
ActivateLive(r, assigned) ==
  [r EXCEPT !.live = [base |-> r.publication.revision, log |-> <<>>, ops |-> CreateOperations(assigned),
                      noShow |-> None, resource |-> None, publications |-> <<>>]]

Latest(live) == live.publications[Len(live.publications)]
OperationalRevision(r) == IF r.live.publications = <<>> THEN r.publication.revision ELSE Latest(r.live).revision

(* requireProjectedLive and requireLive.                                   *)
Projected(r, revision) == r.closure = None /\ r.live # None /\ OperationalRevision(r) = revision
Based(r, revision) == r.closure = None /\ r.live # None /\ r.publication.revision = revision /\ r.live.base = revision

(* A score and the completion that ends a contest are one event here.  A   *)
(* desk may award a walkover against somebody a no-show has already        *)
(* withdrawn; it has no other way to declare an entrant absent.            *)
Awaited(log, c) == Status(log, c) = "SCHEDULED" /\ (c = Final => Resolved(log) # None)
LiveAccepts(log, e) ==
  CASE e.kind = "START"    -> Awaited(log, e.contest)
    [] e.kind = "WALKOVER" -> Awaited(log, e.contest) /\ \E k \in DOMAIN log : log[k].kind = "WALKOVER"
    [] e.kind = "COMPLETE" -> Status(log, e.contest) = "IN_PROGRESS"
    [] e.kind = "CORRECT"  -> Status(log, e.contest) = "COMPLETED" /\ Winner(log, e.contest) # e.winner

CanSubmitLive(r, revision, version, e) ==
  /\ Projected(r, revision)
  /\ ~(r.live.ops.mode \in {"PAUSED", "STOPPED", "RECOVERING", "CANCELLED"} /\ e.kind = "START")
  /\ Len(r.live.log) = version
  /\ LiveAccepts(r.live.log, e)
  /\ CanAdvance(Append(r.live.log, e))
BugSubmitLive(r, e) == [r EXCEPT !.live.log = Append(@, e)]
SubmitLive(r, e) == [r EXCEPT !.live.log = AdvanceLiveProgression(Append(@, e))]

CanOperate(r, revision, c) == Projected(r, revision) /\ Accepts(r.live.ops, c)
Operate(r, c) == [r EXCEPT !.live.ops = ProjectEvent(@, c)]
----------------------------------------------------------------------------
(* A no-show: the contest becomes a walkover.                              *)
CanProposeNoShow(r, revision, c) ==
  /\ Based(r, revision)
  /\ r.live.publications = <<>>
  /\ Status(r.live.log, c) = "SCHEDULED"
  /\ c = Final => Resolved(r.live.log) # None
ProposeNoShow(r, c, winner, by) ==
  [r EXCEPT !.live.noShow = [base |-> r.live.log, contest |-> c, winner |-> winner, by |-> by]]

MayPublish(r) == r.live.ops.mode \notin {"STOPPED", "CANCELLED"}

CanApproveNoShow(r, revision, proposal, by) ==
  /\ Based(r, revision)
  /\ MayPublish(r)
  /\ r.live.noShow # None /\ r.live.noShow = proposal
  /\ r.live.publications = <<>>
  /\ r.live.log = proposal.base
  /\ by # proposal.by
ApproveNoShow(r, by) ==
  LET p   == r.live.noShow
      log == Append(p.base, [kind |-> "WALKOVER", contest |-> p.contest, winner |-> p.winner])
  IN  [r EXCEPT !.live.log = log,
                !.live.publications = Append(@, [kind |-> "NO_SHOW", revision |-> OperationalRevision(r) + 1,
                                                 base |-> r.live.base, proposal |-> p, log |-> log, by |-> by])]

(* A court outage or a delay: contests of the court move, which the log    *)
(* records as a closed court.                                              *)
CanProposeResource(r, revision, version, kind) ==
  /\ Projected(r, revision)
  /\ Len(r.live.log) = version
  /\ \E c \in Contests : Status(r.live.log, c) = "SCHEDULED"
  /\ kind = "DELAY_OVERRUN" => \E c \in Contests : Status(r.live.log, c) = "IN_PROGRESS"
ResourceProposal(r, kind, by) ==
  [kind |-> kind, revision |-> OperationalRevision(r), base |-> r.live.log, by |-> by]

(* It takes the place of any proposal before it, approved ones included.   *)
ProposeResource(r, kind, by) ==
  [r EXCEPT !.live.noShow = None, !.live.resource = ResourceProposal(r, kind, by)]

BugCanApproveResource(r, revision, proposal, by) ==
  /\ Projected(r, revision)
  /\ MayPublish(r)
  /\ r.live.resource # None /\ r.live.resource = proposal
  /\ proposal.revision = revision
  /\ by # proposal.by
CanApproveResource(r, revision, proposal, by) ==
  /\ Projected(r, revision)
  /\ MayPublish(r)
  /\ r.live.resource # None /\ r.live.resource = proposal
  /\ proposal.revision = revision
  /\ r.live.log = proposal.base
  /\ by # proposal.by
ApproveResourceChange(r, by) ==
  LET p   == r.live.resource
      log == Append(p.base, [kind |-> "CLOSE_COURT", contest |-> None, winner |-> None])
  IN  [r EXCEPT !.live.log = log,
                !.live.publications = Append(@, [kind |-> p.kind, revision |-> p.revision + 1, base |-> p.revision,
                                                 proposal |-> p, log |-> log, by |-> by])]
----------------------------------------------------------------------------
Results(log) == [c \in Contests |-> Winner(log, c)]
CanDeriveClosure(live) ==
  /\ live.ops.mode = "NORMAL"
  /\ Resolved(live.log) # None
  /\ \A c \in Contests : Terminal(live.log, c)
DeriveClosure(r, by) ==
  [revision |-> r.publication.revision, operational |-> OperationalRevision(r), log |-> r.live.log,
   ops |-> r.live.ops.events, results |-> Results(r.live.log), by |-> by]

CanClose(r, revision, operational, version, by) ==
  /\ Projected(r, operational)
  /\ r.publication.revision = revision /\ r.live.base = revision /\ Len(r.live.log) = version
  /\ by # r.approval.by
  /\ r.live.publications # <<>> => by # Latest(r.live).by
  /\ VerifyOperations(r.live.ops)
  /\ CanDeriveClosure(r.live)
Close(r, by) == [r EXCEPT !.closure = DeriveClosure(r, by)]
----------------------------------------------------------------------------
(* What the load of the store demands of a record in play.                 *)
VerifyResourceProposal(r) ==
  LET p == r.live.resource
  IN  p # None =>
        /\ Seqs!IsPrefix(p.base, r.live.log)
        /\ p.revision = r.publication.revision \/ \E k \in DOMAIN r.live.publications : r.live.publications[k].revision = p.revision

VerifyLivePublication(r) ==
  r.live.publications # <<>> =>
    LET latest == Latest(r.live)
    IN  /\ Seqs!IsPrefix(latest.log, r.live.log)
        /\ latest.revision = latest.base + 1
        /\ IF latest.kind = "NO_SHOW"
           THEN latest.proposal = r.live.noShow /\ latest.base = r.live.base
           ELSE latest.proposal = r.live.resource /\ latest.kind = r.live.resource.kind
        /\ latest.by # latest.proposal.by

VerifyClosure(r) ==
  r.closure # None =>
    /\ r.live # None
    /\ r.closure.revision = r.publication.revision
    /\ CanDeriveClosure(r.live)
    /\ r.closure = DeriveClosure(r, r.closure.by)

VerifyRecord(r) ==
  /\ VerifyStoredPoolMembership(r)
  /\ VerifyStoredScheduleControls(r)
  /\ VerifyAmendment(r)
  /\ r.live = None => r.closure = None
  /\ r.live # None =>
       /\ VerifyOperations(r.live.ops)
       /\ VerifyLiveProgression(r.live.log)
       /\ VerifyResourceProposal(r)
       /\ VerifyLivePublication(r)
       /\ VerifyClosure(r)
=============================================================================
