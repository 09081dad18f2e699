---------------------------- MODULE ResultIntake ----------------------------
(***************************************************************************)
(* Two ways a result reaches the engine beside the command of an official. *)
(* The adjudication ledger (adjudication.ts): results, walkovers,          *)
(* withdrawals under a pinned policy, corrections and voids, chained by    *)
(* hashes and verified without the code that wrote them.                   *)
(* The integration gateway (integration-gateway.ts): certified truth goes  *)
(* out under the provider's identities, and reports of results come in     *)
(* under them.  The provider may report anything, told or not, signed or   *)
(* not, as often as it likes.  The gateway remembers what it accepted in   *)
(* memory only, and its mapping of identities may be corrected between two *)
(* of its lives.  Provider and restarts are external.                      *)
(* A hash is the value it is the hash of.                                  *)
(***************************************************************************)
EXTENDS TournamentTruth, ProductionCoordination, SequencesExt

CONSTANTS Policies,          \* withdrawal policies: "AWARD_WALKOVER", "VOID_CONTEST", or None
          MaxEvents,         \* bound on a ledger
          Configurations,    \* sequences of <<internal, external>> a gateway is built with
          Truths,            \* results that may be certified
          Names,             \* what the provider may call a contest or an entrant
          Reported,          \* results it may report, in its own names
          MessageIds,        \* its message ids and idempotency keys
          MaxLives           \* bound on the gateways, one after the other

ASSUME TruthsAssumption ==
  Truths \subseteq [contest : Contests, entrants : Entrants \X Entrants, winner : Entrants, loser : Entrants,
                   status : {"COMPLETED", "WALKOVER"}, score : Nat \X Nat]

(* Distinct entrants, a winner among them or a scoreless walkover are not assumed. *)
ASSUME ReportedAssumption ==
  Reported \subseteq [contest : Names, entrants : Names \X Names, winner : Names, loser : Names,
                     status : {"COMPLETED", "WALKOVER"}, score : Nat \X Nat]

VARIABLES part,                                           \* the store a behaviour is about
          policy, events,                                 \* AdjudicationLedger
          known, keys, messages,                          \* the gateway's maps; known = None: it was refused
          published,                                      \* certified results sent out, in both namings
          taken,                                          \* what this gateway accepted, in order
          lives

ledgerVars == <<policy, events>>
intakeVars == <<known, keys, messages, published, taken, lives>>

(***************************************************************************)
(* The ledger.                                                             *)
(***************************************************************************)
Sides == {p \in [1..2 -> Entrants] : p[1] # p[2]}
Opponent(pair, e) == IF e = pair[1] THEN pair[2] ELSE pair[1]
Decided(status, pair, winner) ==
  [status |-> status, entrants |-> pair, winner |-> winner, loser |-> Opponent(pair, winner)]
VoidOf(pair) == [status |-> "VOIDED", entrants |-> pair, winner |-> None, loser |-> None]

EventsOf(x) == SelectSeq(events, LAMBDA e : e.body.contest = x)
CurrentEvent(x) == IF EventsOf(x) = <<>> THEN None ELSE Last(EventsOf(x))

LastHash == IF events = <<>> THEN None ELSE Last(events).hash

AppendAdjudication(kind, x, supersedes, outcome) ==
  \E body \in {[sequence |-> Len(events) + 1, previous |-> LastHash, kind |-> kind, contest |-> x,
                supersedes |-> supersedes, outcome |-> outcome]} :
    /\ Len(events) < MaxEvents
    /\ events' = Append(events, [body |-> body, hash |-> body])
    /\ UNCHANGED policy

FirstWord(x) == CurrentEvent(x) = None
Supersedes(x, id) == CurrentEvent(x) # None /\ CurrentEvent(x).body.sequence = id

RecordResult ==
  \E x \in Contests, pair \in Sides : \E winner \in {pair[1], pair[2]} :
    FirstWord(x) /\ AppendAdjudication("RESULT_RECORDED", x, None, Decided("COMPLETED", pair, winner))

RecordWalkover ==
  \E x \in Contests, pair \in Sides : \E absent \in {pair[1], pair[2]} :
    FirstWord(x) /\ AppendAdjudication("WALKOVER_RECORDED", x, None, Decided("WALKOVER", pair, Opponent(pair, absent)))

AdjudicateWithdrawal ==
  \E x \in Contests, pair \in Sides : \E withdrawn \in {pair[1], pair[2]} :
    /\ FirstWord(x)
    /\ policy # None
    /\ AppendAdjudication("WITHDRAWAL_ADJUDICATED", x, None,
         IF policy = "VOID_CONTEST" THEN VoidOf(pair) ELSE Decided("WALKOVER", pair, Opponent(pair, withdrawn)))

(* A correction may follow a void too, and may name other entrants. *)
CorrectResult ==
  \E x \in Contests, pair \in Sides, id \in 1..Len(events) : \E winner \in {pair[1], pair[2]} :
    Supersedes(x, id) /\ AppendAdjudication("RESULT_CORRECTED", x, id, Decided("COMPLETED", pair, winner))

VoidResult ==
  \E x \in Contests, id \in 1..Len(events) :
    Supersedes(x, id) /\ AppendAdjudication("RESULT_VOIDED", x, id, VoidOf(CurrentEvent(x).body.outcome.entrants))

LedgerInit == policy \in (IF part = "LEDGER" THEN Policies ELSE {None}) /\ events = <<>>
LedgerNext == RecordResult \/ RecordWalkover \/ AdjudicateWithdrawal \/ CorrectResult \/ VoidResult

(* verifyAdjudicationLedger, of any sequence that is presented as a ledger. *)
Chained(log, i) ==
  /\ log[i].body.sequence = i
  /\ log[i].body.previous = IF i = 1 THEN None ELSE log[i - 1].hash

BugVerified(log) ==
  \A i \in 1..Len(log) :
    /\ log[i].hash = log[i].body
    /\ log[i].body.supersedes # None => \E j \in 1..i - 1 : log[j].body.sequence = log[i].body.supersedes

Verified(log) ==
  \A i \in 1..Len(log) :
    /\ log[i].hash = log[i].body
    /\ Chained(log, i)
    /\ log[i].body.supersedes # None => \E j \in 1..i - 1 : log[j].body.sequence = log[i].body.supersedes

(***************************************************************************)
(* The gateway.                                                            *)
(***************************************************************************)
(* registerIdentity refuses a second use of either side of a mapping. *)
BugUnambiguous(configuration) ==
  \A i, j \in 1..Len(configuration) : i # j => configuration[i][1] # configuration[j][1]

Unambiguous(configuration) ==
  \A i, j \in 1..Len(configuration) :
    i # j => configuration[i][1] # configuration[j][1] /\ configuration[i][2] # configuration[j][2]

Mapping(configuration) ==
  [e \in {configuration[i][1] : i \in 1..Len(configuration)} |->
     configuration[CHOOSE i \in 1..Len(configuration) : configuration[i][1] = e][2]]

Build(configuration) ==
  /\ known' = IF Unambiguous(configuration) THEN Mapping(configuration) ELSE None
  /\ keys' = {} /\ messages' = {} /\ taken' = <<>>

IntakeInit ==
  /\ IF part = "INTAKE"
     THEN \E c \in Configurations : known = IF Unambiguous(c) THEN Mapping(c) ELSE None
     ELSE known = None
  /\ keys = {} /\ messages = {} /\ taken = <<>>
  /\ published = {} /\ lives = 1

(* toExternal and toInternal, of every entrant a result names. *)
Renamed(r, names) ==
  [r EXCEPT !.entrants = <<names[@[1]], names[@[2]]>>, !.winner = names[@], !.loser = names[@]]
Externally(r) == Renamed(r, known)
Internally(r) == Renamed(r, AntiFunction(known))

(* A result names two entrants, one of each outcome, and a walkover is scoreless. *)
WellFormed(r) ==
  /\ r.entrants[1] # r.entrants[2]
  /\ {r.winner, r.loser} = {r.entrants[1], r.entrants[2]}
  /\ r.status = "WALKOVER" => r.score = <<0, 0>>

(* createCertifiedPublication: of one result; every entrant must be mapped. *)
PublishTruth ==
  \E r \in Truths :
    /\ known # None
    /\ WellFormed(r)
    /\ {r.entrants[1], r.entrants[2]} \subseteq DOMAIN known
    /\ published' = published \cup {[truth |-> r, abroad |-> Externally(r)]}
    /\ UNCHANGED <<known, keys, messages, taken, lives>>

(* What the provider may send, at any time and again: whether it was ever *)
(* told so or not, and whether the verifier finds it signed or not.       *)
Envelopes == [message : MessageIds, key : MessageIds, result : Reported, signed : BOOLEAN]

BugFresh(e) == e.key \notin keys
Fresh(e) == e.key \notin keys /\ e.message \notin messages

(* acceptInboundResult: remembered only once everything has been checked; a *)
(* refusal changes nothing.  What was published is not looked at.           *)
AcceptInbound ==
  \E e \in Envelopes :
    /\ known # None
    /\ WellFormed(e.result)
    /\ e.signed
    /\ Fresh(e)
    /\ {e.result.entrants[1], e.result.entrants[2]} \subseteq Range(known)
    /\ keys' = keys \cup {e.key}
    /\ messages' = messages \cup {e.message}
    /\ taken' = Append(taken, [envelope |-> e, result |-> Internally(e.result)])
    /\ UNCHANGED <<known, published, lives>>

(* A new gateway, of any configuration: one that knows more, or one in which *)
(* the mapping was corrected.                                                *)
Restart ==
  /\ lives < MaxLives
  /\ lives' = lives + 1
  /\ \E c \in Configurations : Build(c)
  /\ UNCHANGED published

IntakeNext == PublishTruth \/ AcceptInbound \/ Restart

(***************************************************************************)
(* Stores that share nothing, those of the production edge among them: a   *)
(* behaviour is one's.                                                     *)
(***************************************************************************)
edgeVars == <<clock, webhookVars, rateVars>>

Init ==
  /\ part \in {"TRUTH", "LEDGER", "INTAKE", "WEBHOOKS", "RATES"}
  /\ TruthInit /\ LedgerInit /\ IntakeInit
  /\ clock = 0 /\ WebhookInit /\ RateInit

Next ==
  \/ part = "TRUTH" /\ TruthNext /\ UNCHANGED <<part, ledgerVars, intakeVars, edgeVars>>
  \/ part = "LEDGER" /\ LedgerNext /\ UNCHANGED <<part, truthVars, intakeVars, edgeVars>>
  \/ part = "INTAKE" /\ IntakeNext /\ UNCHANGED <<part, truthVars, ledgerVars, edgeVars>>
  \/ part = "WEBHOOKS" /\ WebhookNext /\ UNCHANGED <<part, truthVars, ledgerVars, intakeVars, rateVars>>
  \/ part = "RATES" /\ RateNext /\ UNCHANGED <<part, truthVars, ledgerVars, intakeVars, webhookVars>>

Spec == Init /\ [][Next]_<<part, truthVars, ledgerVars, intakeVars, edgeVars>>

-----------------------------------------------------------------------------
(***************************************************************************)
(* The ledger shows what was done to it: as it was written it verifies,    *)
(* and with an event taken out of its midst, two neighbours exchanged, one *)
(* repeated or one outcome changed it does not (verifyAdjudicationLedger). *)
(* A missing end verifies.  Nothing is said of other changes: the pinned   *)
(* policy is no part of the events, and hashes without a key can be        *)
(* computed anew by whoever rewrites what follows a change.                *)
(***************************************************************************)
Without(log, i) == SubSeq(log, 1, i - 1) \o SubSeq(log, i + 1, Len(log))
Exchanged(log, i) == [log EXCEPT ![i] = log[i + 1], ![i + 1] = log[i]]

LedgerShowsItsHistory ==
  /\ Verified(events)
  /\ \A i \in 1..Len(events) :
       /\ i < Len(events) => ~Verified(Without(events, i)) /\ ~Verified(Exchanged(events, i))
       /\ ~Verified(SubSeq(events, 1, i) \o SubSeq(events, i, Len(events)))
       /\ ~Verified([events EXCEPT ![i].body.outcome.winner = None, ![i].body.outcome.status = "ALTERED"])
       /\ Verified(SubSeq(events, 1, i))

(***************************************************************************)
(* What a gateway accepts, from a provider that may send anything, was     *)
(* signed, names two entrants it knows with one outcome each, and says in  *)
(* the provider's names exactly what was sent (acceptInboundResult,        *)
(* registerIdentity).  Truth that was published, by this gateway or by an  *)
(* earlier one, and that this one would still publish in the same words    *)
(* comes back as that very truth.  While the gateway lives no message id   *)
(* and no key is accepted twice, and what it refused left nothing behind.  *)
(***************************************************************************)
StillSaid(p) ==
  {p.truth.entrants[1], p.truth.entrants[2]} \subseteq DOMAIN known /\ Externally(p.truth) = p.abroad

ReadAsSent(t) ==
  /\ t.envelope.signed
  /\ WellFormed(t.result)
  /\ {t.result.entrants[1], t.result.entrants[2]} \subseteq DOMAIN known
  /\ Externally(t.result) = t.envelope.result
  /\ \A p \in published : StillSaid(p) /\ p.abroad = t.envelope.result => t.result = p.truth

IntakeIsFaithful ==
  /\ \A i \in 1..Len(taken) :
       /\ ReadAsSent(taken[i])
       /\ \A j \in 1..i - 1 : /\ taken[j].envelope.message # taken[i].envelope.message
                              /\ taken[j].envelope.key # taken[i].envelope.key
  /\ keys = {taken[i].envelope.key : i \in 1..Len(taken)}
  /\ messages = {taken[i].envelope.message : i \in 1..Len(taken)}

(***************************************************************************)
(* What comes in from outside counts once: reports, webhooks and requests. *)
(***************************************************************************)
IncomingCountsOnce == IntakeIsFaithful /\ WebhooksAreTakenOnce /\ RateIsKept
============================================================================
