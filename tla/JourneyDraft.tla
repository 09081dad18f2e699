--------------------------- MODULE JourneyDraft ----------------------------
(* A competition record before play (competition-journey.ts): the draft    *)
(* its organisers edit, compile, approve and amend.  What the sources say  *)
(* is abstracted to what the pool rules, the pool placement and the        *)
(* scheduling controls depend on.  Every operation is an operator on the   *)
(* record, guarded by its refusals.                                        *)
EXTENDS Integers, Sequences

CONSTANT None  \* a field that is absent

(* Sources f: f.pools identifies the roster and the pool sizes (None when  *)
(* the format has no pools), f.known the rules that name its entrants and  *)
(* fit its pools, f.met those a draw can obey, f.controls whether the      *)
(* scheduling controls fit, f.ready whether compilation can start.  A      *)
(* placement [basis, grouping] obeys a rule when it groups as it demands.  *)
NewRecord(f) ==
  [version |-> 1, facts |-> f, placement |-> None, rules |-> None, controls |-> FALSE,
   history |-> [placed |-> None, rules |-> None, controls |-> FALSE],
   compiled |-> None, approval |-> None, publication |-> None, amendment |-> None, superseded |-> <<>>,
   live |-> None, closure |-> None, credentials |-> None]
----------------------------------------------------------------------------
Applies(r) ==
  /\ r.placement # None
  /\ r.facts.pools = r.placement.basis
  /\ r.rules \in {None, r.placement.grouping}
PlacementIsStale(r) == r.placement # None /\ ~Applies(r)
RulesAreStale(r) == r.rules # None /\ r.rules \notin r.facts.known
ControlsAreStale(r) == r.controls /\ ~r.facts.controls

(* What a compilation of the draft is made from.                           *)
Content(r) ==
  [facts |-> r.facts, placement |-> IF Applies(r) THEN r.placement ELSE None, rules |-> r.rules, controls |-> r.controls]

Editable(r, version) == r.version = version /\ r.approval = None

BugEdited(r) == [r EXCEPT !.version = @ + 1]
(* Every edit sets the compiled plan aside.                                *)
Edited(r) == [r EXCEPT !.version = @ + 1, !.compiled = None, !.approval = None, !.publication = None]

(* revise builds the record anew and carries over what it names.           *)
Revise(r, f) ==
  [NewRecord(f) EXCEPT !.version = r.version + 1, !.amendment = r.amendment, !.superseded = r.superseded,
                       !.placement = r.placement, !.rules = r.rules, !.controls = r.controls, !.history = r.history]

(* addSource, removeSource and applyStructuredEdit; a new roster.          *)
ReplaceSources(r, f) == [Edited(r) EXCEPT !.facts = f]

CanPlace(r, grouping) ==
  /\ r.facts.pools # None
  /\ RulesAreStale(r) \/ r.rules \in {None, grouping}
Place(r, grouping) ==
  LET placement == [basis |-> r.facts.pools, grouping |-> grouping]
  IN  [Edited(r) EXCEPT !.placement = placement, !.history.placed = placement]

CanDrawAutomatically(r) == r.placement # None
DrawAutomatically(r) == [Edited(r) EXCEPT !.placement = None, !.history.placed = None]

CanSetRules(r, rules) ==
  /\ r.facts.pools # None
  /\ rules = None \/ rules \in r.facts.known
  /\ IF Applies(r) THEN rules \in {None, r.placement.grouping} ELSE rules = None \/ rules \in r.facts.met
SetRules(r, rules) == [Edited(r) EXCEPT !.rules = rules, !.history.rules = rules]

CanSetControls(r, controls) == r.controls # controls /\ (controls => r.facts.controls)
SetControls(r, controls) == [Edited(r) EXCEPT !.controls = controls, !.history.controls = controls]
----------------------------------------------------------------------------
Compilable(r, version) ==
  /\ Editable(r, version)
  /\ r.facts.ready
  /\ ~PlacementIsStale(r) /\ ~RulesAreStale(r) /\ ~ControlsAreStale(r)
  /\ Applies(r) \/ r.rules \in {None} \union r.facts.met

(* A solution prepared off the request path serves this draft version and  *)
(* this problem only; without one the solver runs again.                   *)
Reusable(r, prepared) ==
  prepared # None /\ prepared.version = r.version /\ prepared.content = Content(r)
PrepareCompile(r) == [version |-> r.version, content |-> Content(r)]

NextRevision(r) ==
  IF r.compiled # None THEN r.compiled.revision + 1
  ELSE IF r.amendment # None THEN r.amendment.publication.revision + 1 ELSE 1

Compile(r, prepared) ==
  [r EXCEPT !.compiled = [revision |-> NextRevision(r),
                          content |-> IF Reusable(r, prepared) THEN prepared.content ELSE Content(r)]]

(* The request names the revision alone.                                   *)
CanApprove(r, revision) ==
  r.compiled # None /\ r.compiled.revision = revision /\ r.publication = None

(* Approval publishes in the same write; an amended publication goes to    *)
(* the history.                                                            *)
Approve(r, who) ==
  [r EXCEPT !.approval = [revision |-> r.compiled.revision, by |-> who],
            !.publication = r.compiled,
            !.amendment = None,
            !.superseded = IF r.amendment = None THEN @ ELSE Append(@, r.amendment.publication)]

CanAmend(r, revision) ==
  /\ r.closure = None /\ r.live = None
  /\ r.publication # None /\ r.publication.revision = revision /\ r.compiled.revision = revision
Amend(r) ==
  [r EXCEPT !.version = @ + 1, !.compiled = None, !.approval = None, !.publication = None,
            !.amendment = [approval |-> r.approval, publication |-> r.publication]]
----------------------------------------------------------------------------
(* What the load of the store demands of the draft.                        *)
VerifyStoredPoolMembership(r) ==
  /\ r.history.rules = r.rules
  /\ (r.rules # None /\ r.facts.pools # None /\ ~RulesAreStale(r) /\ r.rules \notin r.facts.met) => r.placement # None
  /\ r.history.placed = r.placement
  /\ (r.placement # None /\ r.facts.pools = r.placement.basis /\ ~RulesAreStale(r)) => r.rules \in {None, r.placement.grouping}

VerifyStoredScheduleControls(r) == r.history.controls = r.controls

VerifyAmendment(r) ==
  r.amendment # None =>
    /\ r.live = None /\ r.closure = None /\ r.approval = None /\ r.publication = None
    /\ r.amendment.approval.revision = r.amendment.publication.revision
    /\ r.compiled # None => r.compiled.revision = r.amendment.publication.revision + 1
=============================================================================
