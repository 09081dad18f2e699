------------------------ MODULE CompetitionJourney -------------------------
(* The competition journey of the compiler web server: one record in       *)
(* memory, changed by synchronous operations, each of which then writes    *)
(* the store (competition-journey.ts).  Compiling prepares its solution    *)
(* off the request path first.  A write may fail, leaving memory ahead of  *)
(* the store, and the process may stop and load the store again.           *)
EXTENDS JourneyPlay, FiniteSets

CONSTANTS
  Absent,       \* a field that is absent
  Participants, \* entrants of the published competition
  Scenes,       \* records to start from, each with its BOUNDS
  Facts,        \* what sources may say
  Groupings,    \* how a placement may group, or a rule demand it
  People,       \* who approves, proposes and closes
  Assigned,     \* the configured operational assignments
  Safety,       \* operational commands people may give
  Times         \* instants credentials may expire at

-----------------------------------------------------------------------------
(* Access of participants to their own next contest: access grants and     *)
(* recovery codes, signed as in participant-information.ts.  A token is    *)
(* the signature of its claims, so equal claims are the same token.  Times *)
(* are instants of one clock.                                              *)

(* Grants [claims, revokedBy]; claims are [p, expires, by] of a token and  *)
(* [p, codeExpires, accessExpires, by] of a code.                          *)
NoCredentials == [tokens |-> {}, codes |-> {}, events |-> <<>>]

TokenClaims(p, expires, by) == [p |-> p, expires |-> expires, by |-> by]
Grant(claims) == [claims |-> claims, revokedBy |-> Absent]
Granted(grants, claims) == {g \in grants : g.claims = claims}
RevokedGrant(grants, claims) == \E g \in Granted(grants, claims) : g.revokedBy # Absent
WithGrant(grants, claims) == IF Granted(grants, claims) = {} THEN grants \union {Grant(claims)} ELSE grants
ActiveOf(grants, p) == {g \in grants : g.claims.p = p /\ g.revokedBy = Absent}
RevokeOf(grants, p, command) ==
  (grants \ ActiveOf(grants, p)) \union {[g EXCEPT !.revokedBy = command] : g \in ActiveOf(grants, p)}

(* Whether a token or a code is honoured at an instant.                    *)
ResolvesToken(a, claims, at) == (\E g \in Granted(a.tokens, claims) : g.revokedBy = Absent) /\ at < claims.expires
ResolvesCode(a, claims, at) ==
  /\ \E g \in Granted(a.codes, claims) : g.revokedBy = Absent
  /\ at < claims.codeExpires /\ at < claims.accessExpires
----------------------------------------------------------------------------
CanIssueAccess(a, p, expires, now) ==
  now < expires /\ ~RevokedGrant(a.tokens, TokenClaims(p, expires, Absent))
IssueAccess(a, p, expires) == [a EXCEPT !.tokens = WithGrant(@, TokenClaims(p, expires, Absent))]

(* An offline pack carries a token for everybody, or is not issued.        *)
CanIssueOfflinePack(a, expires, now) == \A p \in Participants : CanIssueAccess(a, p, expires, now)
IssueOfflinePack(a, expires) ==
  LET missing == {p \in Participants : Granted(a.tokens, TokenClaims(p, expires, Absent)) = {}}
  IN  [a EXCEPT !.tokens = @ \union {Grant(TokenClaims(p, expires, Absent)) : p \in missing}]

(* A command is recognised by its identity; asked again it only repeats    *)
(* its answer.                                                             *)
Recorded(a, command, kind, p, affected, result) ==
  [a EXCEPT !.events = Append(@, [command |-> command, kind |-> kind, p |-> p, affected |-> affected, result |-> result])]
Affected(a, p) == {g.claims : g \in ActiveOf(a.tokens, p) \union ActiveOf(a.codes, p)}

BugRotateAccess(a, command, p, expires) ==
  LET token   == TokenClaims(p, expires, command)
      revoked == [a EXCEPT !.tokens = WithGrant(RevokeOf(@, p, command), token)]
  IN  Recorded(revoked, command, "ROTATED", p, {g.claims : g \in ActiveOf(a.tokens, p)}, token)
RotateAccess(a, command, p, expires) ==
  LET token   == TokenClaims(p, expires, command)
      revoked == [a EXCEPT !.tokens = WithGrant(RevokeOf(@, p, command), token), !.codes = RevokeOf(@, p, command)]
  IN  Recorded(revoked, command, "ROTATED", p, Affected(a, p), token)

RevokeAccess(a, command, p) ==
  LET revoked == [a EXCEPT !.tokens = RevokeOf(@, p, command), !.codes = RevokeOf(@, p, command)]
  IN  Recorded(revoked, command, "REVOKED", p, Affected(a, p), Absent)

CodeClaims(command, p, expires) == [p |-> p, codeExpires |-> expires[1], accessExpires |-> expires[2], by |-> command]
IssueRecoveryCode(a, command, p, expires) ==
  LET code == CodeClaims(command, p, expires)
  IN  Recorded([a EXCEPT !.codes = @ \union {Grant(code)}], command, "RECOVERY_ISSUED", p, {}, code)

(* The same code always yields the same token.                             *)
RecoveredToken(code) == TokenClaims(code.p, code.accessExpires, <<"recovery", code.by>>)
CanRecover(a, code, at) == ResolvesCode(a, code, at) /\ ~RevokedGrant(a.tokens, RecoveredToken(code))
RecoverAccess(a, code) == [a EXCEPT !.tokens = WithGrant(@, RecoveredToken(code))]
----------------------------------------------------------------------------
(* What the load of the store demands of the credentials.                  *)
VerifyParticipantCredentials(a) ==
  /\ \A grants \in {a.tokens, a.codes} : \A g, h \in grants : g.claims = h.claims => g = h
  /\ \A k \in DOMAIN a.events :
       LET e == a.events[k]
           revokedByIt(grants) == {g.claims : g \in {h \in grants : h.claims.p = e.p /\ h.revokedBy = e.command}}
       IN  /\ \A j \in 1..(k - 1) : a.events[j].command # e.command
           /\ e.kind = "ROTATED" => e.result.p = e.p /\ e.result.by = e.command /\ Granted(a.tokens, e.result) # {}
           /\ e.kind = "RECOVERY_ISSUED" => e.result.p = e.p /\ e.result.by = e.command /\ Granted(a.codes, e.result) # {}
           /\ e.kind \in {"ROTATED", "REVOKED"} => e.affected \subseteq revokedByIt(a.tokens) \union revokedByIt(a.codes)

-----------------------------------------------------------------------------
(* The shape of a stored record, as StoredJourneyRecord declares it.       *)
OrNone(S) == S \union {None}

Placements == [basis : {f.pools : f \in Facts}, grouping : Groupings]
Plans ==
  [revision : Nat,
   content : [facts : Facts, placement : OrNone(Placements), rules : OrNone(Groupings), controls : BOOLEAN]]
Approvals == [revision : Nat, by : People]
Amendments == [approval : Approvals, publication : Plans]

Names == {c.what : c \in Safety} \union {Assigned[f] : f \in Functions}
Operations ==
  [mode : DOMAIN AllowedTransitions, assigned : [Functions -> Names], incidents : SUBSET Names,
   cleared : SUBSET DOMAIN ClearanceFunction, events : Seq(Safety)]

Winners == OrNone(Sides)
LogEvents ==
  [kind : {"START", "COMPLETE", "CORRECT", "WALKOVER", "CLOSE_COURT"}, contest : OrNone(Contests), winner : Winners]
  \union [kind : {"RESOLVE"}, contest : {Final}, winner : [Pool -> Winners]]
NoShows == [base : Seq(LogEvents), contest : Contests, winner : Sides, by : People]
Resources == [kind : {"COURT_OUTAGE", "DELAY_OVERRUN"}, revision : Nat, base : Seq(LogEvents), by : People]
LivePublications ==
  [kind : {"NO_SHOW", "COURT_OUTAGE", "DELAY_OVERRUN"}, revision : Nat, base : Nat,
   proposal : NoShows \union Resources, log : Seq(LogEvents), by : People]
LiveStates ==
  [base : Nat, log : Seq(LogEvents), ops : Operations, noShow : OrNone(NoShows), resource : OrNone(Resources),
   publications : Seq(LivePublications)]
Closures ==
  [revision : Nat, operational : Nat, log : Seq(LogEvents), ops : Seq(Safety), results : [Contests -> Winners], by : People]

Commands == {"command"} \X Nat
Tokens == [p : Participants, expires : Times, by : {Absent} \union Commands \union ({"recovery"} \X Commands)]
Codes == [p : Participants, codeExpires : Times, accessExpires : Times, by : Commands]
AccessEvents ==
  [command : Commands, kind : {"ROTATED", "REVOKED", "RECOVERY_ISSUED"}, p : Participants,
   affected : SUBSET (Tokens \union Codes), result : Tokens \union Codes \union {Absent}]
Credentials ==
  [tokens : SUBSET [claims : Tokens, revokedBy : Commands \union {Absent}],
   codes : SUBSET [claims : Codes, revokedBy : Commands \union {Absent}],
   events : Seq(AccessEvents)]

Records ==
  [version : Nat, facts : Facts, placement : OrNone(Placements), rules : OrNone(Groupings), controls : BOOLEAN,
   history : [placed : OrNone(Placements), rules : OrNone(Groupings), controls : BOOLEAN],
   compiled : OrNone(Plans), approval : OrNone(Approvals), publication : OrNone(Plans), amendment : OrNone(Amendments),
   superseded : Seq(Plans), live : OrNone(LiveStates), closure : OrNone(Closures), credentials : OrNone(Credentials)]

(* What a behaviour starts from: a new draft, the same published, running, *)
(* or with credentials to be issued.                                       *)
StartsFrom(r) ==
  \E f \in Facts, who \in People :
    LET published == Approve(Compile(NewRecord(f), None), who)
        running   == ActivateLive(published, Assigned)
    IN  \/ r = NewRecord(f)
        \/ /\ Compilable(NewRecord(f), 1)
           /\ r \in {published, running, [running EXCEPT !.credentials = NoCredentials]}

ASSUME JourneyAssumption ==
  /\ \A s \in Scenes : StartsFrom(s.record)
  /\ \A c \in Safety :
       /\ c.kind \in {"RECORD_INCIDENT", "TRANSITION_MODE", "RECORD_RESTART_CLEARANCE", "TRANSFER_AUTHORITY"}
       /\ c.fn \in Functions
       /\ c.kind = "RECORD_RESTART_CLEARANCE" => c.what \in DOMAIN ClearanceFunction
  /\ Assigned \in [Functions -> Names]
  /\ Times \subseteq Nat
  /\ None \notin Plans /\ None \notin Approvals /\ None \notin Amendments
  /\ None \notin LiveStates /\ None \notin Operations /\ None \notin Credentials
  /\ Absent \notin Commands
  /\ Pool # {}
-----------------------------------------------------------------------------
VARIABLES
  scene,     \* the bounds of this behaviour
  memory,    \* the record as the process holds it, None when it is down
  disk,      \* the record as the store holds it
  prepared,  \* the solution being prepared for a compilation
  handed,    \* stored credentials given out, each with the access events before
  now,       \* the clock
  faults     \* failed writes and stops so far

vars == <<scene, memory, disk, prepared, handed, now, faults>>

VerifyStored(r) ==
  /\ VerifyRecord(r)
  /\ r.credentials # None => VerifyParticipantCredentials(r.credentials)
Loads(r) == VerifyStored(r) /\ (r.live # None => r.live.ops.assigned = Assigned)

Init ==
  /\ scene \in Scenes
  /\ memory = scene.record /\ disk = scene.record
  /\ prepared = None /\ handed = {} /\ now = 0 /\ faults = 0

(* records.set, then persist, which writes everything held in memory.      *)
Store(r) ==
  /\ memory' = r
  /\ \/ disk' = r /\ UNCHANGED faults
     \/ disk' = disk /\ faults < scene.faults /\ faults' = faults + 1
  /\ UNCHANGED <<scene, now>>

StoreQuietly(r) == Store(r) /\ UNCHANGED <<prepared, handed>>
----------------------------------------------------------------------------
Up == memory # None
Drafting == Up /\ memory.version < scene.version /\ Editable(memory, memory.version)

Edit ==
  /\ Drafting
  /\ \/ \E f \in Facts : StoreQuietly(Revise(memory, f))
     \/ \E f \in Facts \ {memory.facts} : StoreQuietly(ReplaceSources(memory, f))

EditPlan ==
  /\ Drafting
  /\ \/ \E g \in Groupings : CanPlace(memory, g) /\ StoreQuietly(Place(memory, g))
     \/ CanDrawAutomatically(memory) /\ StoreQuietly(DrawAutomatically(memory))
     \/ \E g \in Groupings \union {None} : CanSetRules(memory, g) /\ g # memory.rules /\ StoreQuietly(SetRules(memory, g))
     \/ \E c \in BOOLEAN : CanSetControls(memory, c) /\ StoreQuietly(SetControls(memory, c))

(* The request waits for a solver while others are served.                 *)
StartCompile ==
  /\ Up /\ prepared = None
  /\ Compilable(memory, memory.version)
  /\ NextRevision(memory) <= scene.revision
  /\ prepared' = PrepareCompile(memory)
  /\ UNCHANGED <<scene, memory, disk, handed, now, faults>>

FinishCompile ==
  /\ Up /\ prepared # None
  /\ prepared' = None
  /\ IF Compilable(memory, prepared.version) /\ NextRevision(memory) <= scene.revision
     THEN Store(Compile(memory, prepared)) /\ UNCHANGED handed
     ELSE UNCHANGED <<scene, memory, disk, handed, now, faults>>

ApproveAndPublish ==
  /\ Up
  /\ memory.compiled # None /\ CanApprove(memory, memory.compiled.revision)
  /\ \E who \in People : StoreQuietly(Approve(memory, who))

ReopenForAmendment ==
  /\ Up /\ memory.version < scene.version
  /\ memory.publication # None /\ CanAmend(memory, memory.publication.revision)
  /\ StoreQuietly(Amend(memory))
----------------------------------------------------------------------------
Live == Up /\ memory.live # None

Activate ==
  /\ Up /\ memory.publication # None /\ CanActivate(memory, memory.publication.revision)
  /\ scene.log > 0
  /\ StoreQuietly(ActivateLive(memory, Assigned))

Play ==
  /\ Live /\ Len(memory.live.log) < scene.log
  /\ \E kind \in {"START", "COMPLETE", "CORRECT", "WALKOVER"}, c \in Contests, w \in Sides :
       LET e == [kind |-> kind, contest |-> c, winner |-> IF kind = "START" THEN None ELSE w]
       IN  /\ CanSubmitLive(memory, OperationalRevision(memory), Len(memory.live.log), e)
           /\ StoreQuietly(SubmitLive(memory, e))

Command ==
  /\ Live /\ Len(memory.live.ops.events) < scene.ops
  /\ \E c \in Safety : CanOperate(memory, OperationalRevision(memory), c) /\ StoreQuietly(Operate(memory, c))

Propose ==
  /\ Live /\ Len(memory.live.publications) < scene.publications
  /\ \E by \in People :
       \/ \E c \in Contests, w \in Sides :
            /\ CanProposeNoShow(memory, memory.publication.revision, c)
            /\ StoreQuietly(ProposeNoShow(memory, c, w, by))
       \/ \E kind \in {"COURT_OUTAGE", "DELAY_OVERRUN"} :
            /\ CanProposeResource(memory, OperationalRevision(memory), Len(memory.live.log), kind)
            /\ StoreQuietly(ProposeResource(memory, kind, by))

(* A reviewer approves a proposal that was the current one at some time.   *)
ApproveRepair ==
  /\ Live /\ Len(memory.live.publications) < scene.publications
  /\ \E by \in People :
       \/ /\ CanApproveNoShow(memory, memory.publication.revision, memory.live.noShow, by)
          /\ StoreQuietly(ApproveNoShow(memory, by))
       \/ /\ CanApproveResource(memory, OperationalRevision(memory), memory.live.resource, by)
          /\ StoreQuietly(ApproveResourceChange(memory, by))

CloseCompetition ==
  /\ Live /\ scene.log > 0
  /\ \E by \in People :
       /\ CanClose(memory, memory.publication.revision, OperationalRevision(memory), Len(memory.live.log), by)
       /\ StoreQuietly(Close(memory, by))
----------------------------------------------------------------------------
(* Credentials leave the process once the operation has succeeded; what is *)
(* remembered of them is those the store held by then.                     *)
Granting == Live /\ memory.credentials # None
A == memory.credentials
HandOut(a, credentials) ==
  /\ IF a = A THEN UNCHANGED <<scene, memory, disk, now, faults>> ELSE Store([memory EXCEPT !.credentials = a])
  /\ handed' = handed \union {[credential |-> c, after |-> Len(a.events)] : c \in IF disk' = memory' THEN credentials ELSE {}}
  /\ Cardinality(handed') <= scene.handed
  /\ UNCHANGED prepared

GrantAccess ==
  /\ Granting
  /\ \E expires \in Times :
       \/ \E p \in Participants :
            CanIssueAccess(A, p, expires, now) /\ HandOut(IssueAccess(A, p, expires), {TokenClaims(p, expires, Absent)})
       \/ /\ CanIssueOfflinePack(A, expires, now)
          /\ HandOut(IssueOfflinePack(A, expires), {TokenClaims(p, expires, Absent) : p \in Participants})

ControlAccess ==
  /\ Granting /\ Len(A.events) < scene.access
  /\ \E p \in Participants, expires \in {t \in Times : now < t} :
       LET command == <<"command", Len(A.events) + 1>>
       IN  \/ HandOut(RotateAccess(A, command, p, expires), {TokenClaims(p, expires, command)})
           \/ HandOut(RevokeAccess(A, command, p), {})
           \/ \E last \in {t \in Times : now < t} :
                HandOut(IssueRecoveryCode(A, command, p, <<expires, last>>), {CodeClaims(command, p, <<expires, last>>)})

(* A known command answers again from what memory holds, stored or not.    *)
RepeatAccessCommand ==
  /\ Granting
  /\ \E k \in DOMAIN A.events : A.events[k].result # Absent /\ HandOut(A, {A.events[k].result})

IsCode(c) == "codeExpires" \in DOMAIN c
Recover ==
  /\ Granting
  /\ \E h \in handed :
       /\ IsCode(h.credential) /\ CanRecover(A, h.credential, now)
       /\ HandOut(RecoverAccess(A, h.credential), {RecoveredToken(h.credential)})

Tick ==
  /\ Granting /\ now < scene.time
  /\ now' = now + 1
  /\ UNCHANGED <<scene, memory, disk, prepared, handed, faults>>
----------------------------------------------------------------------------
Stop ==
  /\ Up /\ faults < scene.faults
  /\ faults' = faults + 1
  /\ memory' = None /\ prepared' = None
  /\ UNCHANGED <<scene, disk, handed, now>>

Restart ==
  /\ ~Up /\ Loads(disk)
  /\ memory' = disk
  /\ UNCHANGED <<scene, disk, prepared, handed, now, faults>>

Next ==
  \/ Edit \/ EditPlan \/ StartCompile \/ FinishCompile \/ ApproveAndPublish \/ ReopenForAmendment
  \/ Activate \/ Play \/ Command \/ Propose \/ ApproveRepair \/ CloseCompetition
  \/ GrantAccess \/ ControlAccess \/ RepeatAccessCommand \/ Recover \/ Tick
  \/ Stop \/ Restart

Spec == Init /\ [][Next]_vars
----------------------------------------------------------------------------
(* Whatever was stored can be loaded again: a restart finds the record.    *)
StoreReopens == Loads(disk)

(* What is known to leave a store that does not load.                      *)
AuthorityWasTransferred == \E k \in DOMAIN disk.live.ops.events : disk.live.ops.events[k].kind = "TRANSFER_AUTHORITY"
PublishedProposalWasReplaced ==
  /\ disk.live.publications # <<>>
  /\ Latest(disk.live).proposal \notin {disk.live.noShow, disk.live.resource}
NoShowDecidedThePool ==
  /\ \E k \in DOMAIN disk.live.log : disk.live.log[k].kind = "WALKOVER"
  /\ ExpectedResolution(disk.live.log) # Resolved(disk.live.log)
AmendmentWasCompiledTwice ==
  disk.amendment # None /\ disk.compiled # None /\ disk.compiled.revision > disk.amendment.publication.revision + 1
RulesOutlivedTheirPools ==
  disk.rules # None /\ \/ disk.rules \notin disk.facts.met
                       \/ disk.placement # None /\ disk.placement.grouping # disk.rules

(* It does load but for these: no other history of operations, failed      *)
(* writes and stops ends in a record the load refuses.                     *)
ReopensOtherwise ==
  \/ Loads(disk)
  \/ RulesOutlivedTheirPools \/ AmendmentWasCompiledTwice
  \/ disk.live # None /\ (AuthorityWasTransferred \/ PublishedProposalWasReplaced \/ NoShowDecidedThePool)

(* A plan on record was compiled from the draft as it now stands, however  *)
(* the draft was edited while its solution was prepared.                   *)
PlanIsCurrent ==
  Up /\ memory.compiled # None /\ memory.publication = None => memory.compiled.content = Content(memory)

(* What the store has once held of a published competition it keeps:       *)
(* publications that were superseded, the live log, what was published     *)
(* during play, and the closure.                                           *)
PublishedSoFar(r) ==
  r.superseded \o (IF r.amendment # None THEN <<r.amendment.publication>> ELSE IF r.publication # None THEN <<r.publication>> ELSE <<>>)
Extends(old, new) == Len(old) <= Len(new) /\ SubSeq(new, 1, Len(old)) = old
DurableTruthOnlyGrows ==
  [][/\ Extends(PublishedSoFar(disk), PublishedSoFar(disk'))
     /\ disk.live # None =>
          /\ disk'.live # None /\ Extends(disk.live.log, disk'.live.log)
          /\ Extends(disk.live.publications, disk'.live.publications)
          /\ Extends(disk.live.ops.events, disk'.live.ops.events)
     /\ disk.closure # None => disk'.closure = disk.closure]_vars

(* Play resumes after a stop only when both leads have cleared it since.   *)
PlayRestartsCleared == disk.live # None => RestartsAreCleared(disk.live.ops.events)

(* Once a participant's access was rotated or revoked, no token or code    *)
(* handed out before opens anything, nor do the tokens it recovers.        *)
Opens(a, c) == IF IsCode(c) THEN CanRecover(a, c, now) ELSE ResolvesToken(a, c, now)
RevokedStaysOut ==
  Granting =>
    \A h \in handed, k \in DOMAIN A.events :
      (k > h.after /\ A.events[k].kind \in {"ROTATED", "REVOKED"} /\ A.events[k].p = h.credential.p) => ~Opens(A, h.credential)
=============================================================================
