# Krateasy Competitions: TLA+ verification

A model of the transactional core of Krateasy Competitions (the tournament operating system in
`packages/`, `apps/` and `deployment/`): TLA+ modules translated from the TypeScript and SQL sources, TLC
configurations that check them on small instances, and TLAPS proofs of the properties that matter most for
instances of every size.

## 1. The system and its parts

Everything authoritative is an event in an append-only stream. A command arrives over HTTP, is decided
against the replayed state of its organization, and is appended with its events and its outbox intents in one
database transaction; a delivery worker later turns intents into calls of external providers.

| part | state | operations | interacts with |
|---|---|---|---|
| Event store (`event-store.ts`, `postgres-event-store.ts`, `001_event_store.sql`) | events with a hash chain, command identities with fingerprints, stream heads, outbox rows | `append`, `appendTransaction`, `readStream`, snapshots | every command; PostgreSQL row locks |
| Outbox (`outbox.ts`, `postgres-event-store.ts`) | rows PENDING / LEASED / DELIVERED / DEAD_LETTER with attempts, due time and lease | enqueue with the event, `claim`, `acknowledge`, `retry`, `recoverExpiredLeases` | filled by the event store, emptied by workers |
| Delivery worker (`outbox-delivery-worker.ts`, `webhook-delivery-provider.ts`) | the batch it claimed and the instant its run started | `runOnce`: recover, claim, deliver, acknowledge or retry | outbox, external providers |
| Command execution (`platform.ts` `execute`, `platform-api.ts`) | none between requests; during one, the state it read | read, duplicate check, artifact load, decide, append, read back | event store, artifact resolver |
| Organization access (`platform.ts`) | organization, clubs, memberships, accounts, invitations, recoveries | 11 commands | decides who may give every other command |
| Tournament lifecycle and publication (`platform.ts`, `competition-guard.ts`, `publication-change-set.ts`) | tournaments with revisions, approval, publication; guided creation | 8 commands | organization access, Competition Guard, artifact resolver |
| Directories, templates, seasons, alerts, notifications (`platform.ts`) | one record per item | one or two commands each | organization access |
| Backup and restore (`platform.ts`, `restore-drill.ts`) | a logical snapshot | `createOrganizationBackup`, `restoreOrganizationBackup` | event store |
| Live operations (`live-operations.ts`) | an event log and the state projected from it: presence, contests, resources, protests, appeals | 24 commands, corrections of earlier events, the control room | command execution; results feed standings |
| Live control (`platform.ts`, `live-change.ts`) | the live log of each tournament, score revisions, proposals of live changes and schedule repairs | initialize, apply, record a score, propose and decide repairs and live changes | live operations, tournament lifecycle, schedule repair |
| Dynamic stages (`dynamic-stage-*.ts`, `ranked-formats.ts`, `swiss-ranking.ts`) | per stage a stream of events; the runtime replayed from it | generate, submit and correct results, void a round, ladder challenges | SQLite stream, shared by processes |
| Tournament truth and adjudication (`tournament-state.ts`, `adjudication.ts`) | definition, plan, operational revision and results in one stream; a ledger of adjudications | register, activate, record, correct, void; adjudicate; verify | whoever records results |
| Integration gateway and edge (`integration-gateway.ts`, `production-pilot-api.ts`, `postgres-production-coordination.ts`) | identity maps, what was accepted; webhook claims and rate windows in PostgreSQL | publish, accept a report; claim, complete, release; consume | providers, replicas |
| Competition journey (`competition-journey.ts`, `*-journey.ts`, `live-progression.ts`, `competition-lifecycle.ts`, `operational-safety.ts`, `participant-information.ts`) | one record per competition in memory and in one file | edit, compile, approve, publish, amend, play, repair, stop and restart, close, grant and revoke access | solver process, file, web server |
| Schedule construction and repair (`scheduler.ts`, `schedule-*.ts`, `cp-sat-solver.ts`, `court-outage-journey.ts`) | none between calls; during one, the search | list scheduling, exact search, minimal repair, certificate, ranking by resilience | journey, CP-SAT worker |
| Formats, draws, pools, graph, standings, qualification | none (functions of specification and results) | compile, allocate, draw, rank, qualify, simulate | journey, publication artifacts |
| Offline command queue (Apple client) | queued commands with keys and base versions | enqueue, replay, conflict | platform API |

### What is hard here

* **Stale decisions.** `execute` decides on a state it read three awaits before it appends; only the expected
  version and the command identity, compared inside the database transaction, stand between that and a lost
  update (`platform.ts:1144`, `postgres-event-store.ts:406`).
* **Retries.** A client without an answer submits again, possibly while the first submission is still running
  and possibly with another server timestamp (`platform.ts:1146`, `platform-api.ts:75`).
* **Partial transactions and lost answers.** Four tables are written statement by statement; a COMMIT can
  succeed without the client learning of it.
* **Leases and clocks.** A run reads the clock once and then compares every lease with that instant, while
  other workers recover leases by their own, later clock (`outbox-delivery-worker.ts:153`).
* **Delivery.** A provider may act without its answer arriving.
* **Sequences of legal commands.** Each command checks its own precondition; whether an organization can lose
  its last owner, or an approval outlive its revision, depends on what a hundred legal commands add up to.
* **Corrections.** A live event can be taken out after later commands were decided on it; everything is projected
  again, and the replacement takes effect at the correction's place (`live-operations.ts:493`).
* **Proposals on a moving state.** A live change is computed on a copy of the log and replaces the log when it is
  approved, while others keep submitting (`platform.ts:960`).
* **Lock cycles.** `appendTransaction` locks streams in the order its requests come in.
* **Records that must load again.** The journey verifies every record when it starts; one operation that leaves a
  record the verifier refuses makes the store unreadable (`competition-journey.ts:2889`).
* **Awaits around a solver.** A draft is edited while its schedule is computed elsewhere; the answer must belong to
  the draft it is used for.
* **Unknown players.** A contest gets its time before anybody knows who plays it; rest and double bookings must hold
  for whoever may turn up (`scheduler.ts:368`).
* **Rounds that are undone.** Swiss rounds are voided and corrected; what was carried along must equal what the
  remaining rounds say.
* **Sizes that are no powers of two.** Byes, repechages and consolation contests are placed by arithmetic on ids.
* **Claims with a term.** A webhook receiver can outlive the claim its handler made; a stale handler must not
  complete or release another's.

`PROJECT.json` lists each of these at its line, with the properties that would catch it going wrong.

## 2. Modules

    EventLog  <--implements--  EventStore                (append-only log / PostgreSQL store)
                               OutboxDelivery            (rows written by EventStore, workers)
    AtomicCommands <--implements-- CommandExecution      (platform execute over the store)
        takes for granted
    OrganizationAccess  <--extends--  TournamentLifecycle  <--extends--  LiveControl   (domain commands, one action each)
                                                            its log entries are judged by
    LiveOperations                                          (event-day engine, one action per command)

    SwissRanking, RankedFormats --> DynamicStageLifecycle --> DynamicStageStore        (functions / stream and processes)
    JourneyDraft --> JourneyPlay --> CompetitionJourney   (one record / memory and file)
    Standings --> Qualification --> ScenarioRun <-- Draws <-- StaticFormats            (declaration to last contest)
    ScheduleProblem --> ScheduleSearch --> SchedulePlanning <-- ScheduleGraph <-- StaticFormats
    TournamentTruth --> ResultIntake <-- ProductionCoordination                        (stores of results and the edge)

An arrow without a word is EXTENDS.

**OutboxDelivery** models `outbox.ts`, the SQL outbox and `runOnce`. A row has the columns the code compares:
`status`, `attempts`, `availableAt`, `leaseOwner`, `leaseExpiresAt`. A worker is at one of the awaits of
`runOnce` (`pc`), with the one timestamp the run read (`runAt`) and the snapshots it claimed (`batch`). Each
awaited call is an action: `RecoverExpiredLeases`, `Claim`, `Deliver`, `Acknowledge`, `Retry`; `Crash` loses the
process at any of them, `Tick` lets time pass. The provider is external: it deduplicates by the idempotency key
(`seenKeys`), and its answer may be a receipt, a refusal or lost, whether it acted or not. Times are kept
relative to the present, so the clock runs for ever and the state space stays finite.

**EventStore** models `appendCore` inside `transaction` at the granularity of SQL statements that other
transactions can notice: the unlocked SELECT of the command row, the `FOR UPDATE` of the stream row (which waits)
and COMMIT. Uncommitted rows are per client. `Disconnect` rolls back or, at COMMIT, leaves the outcome unknown to
the client; `DetectDeadlock` is PostgreSQL failing one member of a wait cycle, whose transaction the code then rolls
back (`Rollback`). A digest stands for what is
digested and for the key order it was serialised in, because `canonical.ts` and `event-store.ts` sort keys
differently. **EventLog** is the promise: per stream, a command's events are appended once, contiguously, where
its author expected them.

**CommandExecution** models `execute`, one action per await. A stream entry stands for all events of one command.
`Exclusive` contents stand for the many guards of `eventsFor` that refuse what already happened. The server stamps
`at` on each submission. **AtomicCommands** is the promise: each command takes effect at most once, at one instant,
and is judged by the state at that instant. That is what lets the domain modules treat a command as one action.

**OrganizationAccess** and **TournamentLifecycle** model `eventsFor` (the guards) together with `replayPlatform`
(the effect) of each command. `guides[t]` is the step a guided creation expects next. An approval or publication
record is bound to the revision, the definition and the artifact set; equal artifact sets stand for equal hashes.
The artifact resolver is external and unconstrained: it may return any artifact set at any time. TournamentLifecycle
re-uses every access command unchanged and gives `UpdateClub` the tournaments it looks at.

**LiveOperations** models `submitLiveOperationsCommand` and `projectLiveOperations`. `log` is the event log and
`live` the projection, made anew by `Project` after every event as in the code. Officials and equipment are one kind,
`Staff`; the commands of a resource are one action, `ChangeResource`; instants are small numbers, and of a duration
only whether it is a number is kept, since `canonicalHash` refuses one that is not (`Hashable`), which is what stops
a correction from taking the start out from under a completion. `HardReasons` and `OtherReasons` are the control
room's reasons, written from its own code and not from the start command's.

**LiveControl** composes the live commands of `platform.ts` with the lifecycle, whose commands go on unchanged. A log
entry is an identified command with its content and author; the proof hash of a live state is its log, so "not
stale" is equality of logs (`IsFresh`). A proposal keeps the log it was made on (`base`) and the log it proposes.
What each command does to contests is left to LiveOperations; of it only whether a contest is settled is needed here
(`SettledBy`). The repair planner is external: it proves a minimal repair or does not.

**DynamicStageLifecycle** is `transitionDynamicStage` and its replay and verifier as operators on a state; it calls the
pairing, ranking and qualification functions of **RankedFormats** and **SwissRanking**. The code pairs by a recursion
over the ordered entrants and keeps the cheapest outcome; the model says which pairings it goes through (`Matchings`)
and which of them it keeps (`Best`: fewest rematches, then the least total gap, then the first in order). Replays and
rebuilt standings are recursive functions over the length of the stream. `IsRequest` gives the shape that
`DynamicStageCommand` declares, `DefinitionsAssumption` what the compilation of a definition has checked.
**DynamicStageStore** runs it:
a process loads the stream, decides, and appends under `BEGIN IMMEDIATE`; a caller retries in the same words, with a
schedule reference computed from what it now sees; processes are lost between any two steps. What a process has read is
a length of the stream, since the stream only grows.

**JourneyDraft** and **JourneyPlay** (with the operational authority of `operational-safety.ts`) give one operator per
operation of a competition record with the refusals of the code. **CompetitionJourney** adds the access of participants
and `Loads`, the verifier of a stored record, written from `verifyRecord` and what it calls, and composes them: `memory` is the map of records, `disk` the file.
Every operation changes memory and then writes; a write may fail. `StartCompile` reads the draft and `FinishCompile`
uses the solver's answer. The sources of a draft are abstracted to what pool rules, pool placement and scheduling
controls depend on. Scenes start at a new draft, at the same published or activated, or where its credentials can be
issued (`StartsFrom`), since a whole history from import to closure is far beyond TLC. `Records` and the sets it is made
of give the shape that `StoredJourneyRecord` declares; the proofs use it.

**Standings**, **Qualification**, **StaticFormats** and **Draws** are the functions of the files of those names. A
contest is a record with the sources of its two slots. **ScenarioRun** plays a declared competition: pools are played,
tables made, qualifiers chosen, knockouts drawn and played, with every line of score at every contest, so that the
functions are checked on what play can produce.

**ScheduleSearch** models both depth-first searches one candidate at a time, with the limit that cuts them off;
**ScheduleGraph** the list scheduler, the certificate and the problem made for CP-SAT; **SchedulePlanning** a draft's way
from the solver's wait to publication and through closures and overruns. CP-SAT answers with any plan on the starts of
the scene or fails. `Playing` follows the players themselves, which the code never does: it reasons about possible
entrants. The first part of **ScheduleSearch** is the evidence by which candidate schedules are ranked.

**TournamentTruth** is `decideTournamentCommand` and `evolveTournamentState`; desks lose answers and send again.
**ResultIntake** adds the adjudication ledger and the integration gateway, and **ProductionCoordination** the edge of a
production deployment: webhook claims and rate windows, each operation one transaction, its answer possibly lost, with
a clock that was read up to `Patience` before. The provider of
results is unconstrained: it may send any report (`Envelopes`), published or not, signed or not, again and again; a new
gateway may start with any mapping of identities, a corrected one too. These stores share nothing; a behaviour of the run is one store's.

## 3. Runs

| run | instance | checks |
|---|---|---|
| `outbox` | 2 workers, 2 rows (one without a provider), lease 1, runs of up to 1 tick, 1 crash | a delivered row was sent and took effect once (`DeliveredOnce`); one possible mutator per row, leases end by their owner or by expiry, terminal rows stay, an owner is never refused (`LeasesProtect`); every committed intent settles (`EveryIntentSettles`) |
| `event_store` | 2 clients, 2 streams, 2 command identities, versions up to 2, batches of 1 and 2 events, transactions over both streams in both orders, four payloads of which one has keys that the two sort orders disagree on (`LocaleSensitive`) | a stream is refused by replay exactly if it holds such a payload (`OnlyKeyOrderStopsReplay`), one command per event, acknowledged means durable, outbox equals log (`StoreIsWhole`), `EventLog` is implemented, transactions end |
| `lifecycle` | two scenes: three users found an organization with invitations and recoveries; two owners of a staffed one run 2 tournaments with 2 revisions, 2 guided steps, one certified and one broken artifact content | an owner remains, members were invited, secrets work once (`AccessIsKept`); what is published is what was approved and approvals are current (`ApprovalGoverns`); separate hands; decisions immutable and by current managers (`DecisionsAreKept`) |
| `command_execution` | 2 requests in flight, 3 identities, 2 contents (one exclusive), 2 timestamps, 3 versions | decisions on current state, one effect, guards hold at append, answers true (`CommandsAreHonest`); `AtomicCommands` is implemented |
| `live_operations` | from midday on: 3 contests on 1 court, one depending on the first, 1 official, 1 protest, 2 appeals, 4 more events, 1 of them a correction | lawful play until corrected; the projection is what the latest standing facts say, settled is final, events are local, disputes show, control room and start agree (`ProjectionIsTrue`) |
| `live_control` | from the approval of a tournament on: 2 members, 2 live commands, 2 live change proposals, 1 repair, 1 score | records only grow and hold what was approved (`DayIsOnRecord`), live commands take effect once, proposals take two and only what was published is played (`LiveIsGoverned`) |
| `dynamic_stages` | 2 processes, one stage of each format with 2 to 4 entrants, byes and a withdrawal; corrections, voids, retries and crashes | stored stages verify and go on; retries are recognised; nobody meets twice and points add up; qualifiers are unbeaten |
| `journey` | a draft with three sources, an amendment, an event with one pool contest and a final, an operational stop with two people, credentials of two participants; failed writes and restarts | the store loads again but for five causes, the plan is of the draft, published truth only grows, play restarts only when cleared, revoked credentials stay shut |
| `journey_reload` | the operational scene | *violation*: the store loads again whatever was done |
| `formats` | every static format at its small sizes, every custom graph of two contests, pools of two to four with the policies that decide who goes on, a structure fed twice whose second policy fails late among them | graphs keep their promise, qualifiers are exact, play decides, draws keep their rules |
| `scheduling` | 3 to 5 contests on 2 courts, promises on times and courts, solver answers on a grid of 3, 2 incidents; 43 exact and 97 repair searches | a search says no more than it saw, evidence is true, published plans can be played by whoever qualifies, repairs look ahead |
| `result_records` | 2 desks, 3 rosters over 2 contests, 14 commands; ledgers of 3 events; a gateway with 3 truths, 8 results the provider may report under 2 message ids and 2 keys, signed or not, and 3 lives with 4 configurations (one longer, one swapped, one ambiguous); 3 webhook handlers on one event, 6 requests in windows of 3 ticks | truth is about the roster in force and in one line, answers are true, tampering shows, what comes in counts once |

Several invariants that belong together are one named conjunction; the definition below its comment names its parts.

Bounds. Two workers, clients, requests or desks suffice for every race in the code, since each guard compares one
actor's view with what one other actor did; three identities let two commands clash and a third be reused; three
webhook handlers are what it takes for a claim to run out, be taken over and be released under its first holder.
A lease of one tick and runs of one let a lease run out, be recovered and be claimed again while its first owner is
sending. Two revisions and two guided steps let a draft be revised after review and a guide finish with a revision.
The version bounds leave room for a stale submission, its retry and another command between them. `live_operations`
starts at midday so that results, disputes and corrections of a played contest are within reach; four more events are a
whole dispute with its appeal, or the call, start, score and end of a contest, and `VIEW` identifies logs that tell the
same story of every subject, whose futures are the same. `live_control` starts from an approved tournament; two
proposals and a direct submission are what it takes for an approval to be stale, and `OneKindOfProposal` follows
repairs and live changes together for one step only, since neither reads the other. With three entrants somebody sits
out every Swiss round, and two voids and a correction fit into the stream bound. Formats are run at the sizes on both
sides of a power of two, where the index arithmetic changes. Scheduling scenes have a qualification path, a bracket with
a bye and two unrelated promises each, the cases the certificate distinguishes. The webhook claim outlives twice the
accepted skew and the staleness of a clock (`TtlOutlivesSignature`), as the defaults of the code do by far (a day, five
minutes); nothing in the code enforces it. The proofs remove the bounds for the modules they cover.

The type invariants of CommandExecution, OrganizationAccess, TournamentLifecycle and LiveControl are proved (section 4)
and not run.

Fairness. `outbox` assumes that the host calls `runOnce` again and again, that awaited calls return (the
provider call has a timeout) and that time passes; nothing is assumed of the provider's answers, and crashes are
allowed. Its liveness property is conditional: if from some time on every worker finishes its runs within its lease,
every committed intent is delivered or dead-lettered; without that premise it is false, see below.
`event_store` assumes that statements return, that a lock waiter is served when the lock is released over and over
(PostgreSQL queues waiters; hence strong fairness) and that the deadlock detector runs. No client has to submit.
The other runs state safety only: their code serves requests and owes nobody a next step.

### Disagreements between code and text

`journey_reload`: TRANSFER_AUTHORITY changes the assignments of operational functions, but the store's loader compares
them with the configured ones and the verifier replays the events from the assignments they ended with. After a
transfer the next start refuses the whole store (`competition-journey.ts:2889-2891`, `operational-safety.ts:321`);
`docs/requirements-traceability.md:68` says that every public transition survives restart.

`ReopensOtherwise` in the `journey` run names four more histories after which the store does not load, each met as a
counterexample first; no document promises that it would:

* a court-outage or delay proposal made after an approved one was published replaces the proposal that the
  publication is verified against (`competition-journey.ts:1003-1022`);
* compiling twice during an amendment gives a revision two above the published one (`:945-957`);
* pool rules that were satisfiable are kept when pools or roster change, and a placement made under one roster is kept
  under another (`:688`);
* approving a no-show that settles the last pool contest does not resolve the final's entrants, which the verifier
  expects (`:2035`).

Met while modelling, without a run of their own, because the number of runs is kept small:

* events are hashed with keys in code-unit order and verified in locale order; a payload on whose keys the two disagree
  commits and can then never be replayed (`postgres-event-store.ts:416`, `canonical.ts:17`, `event-store.ts:54`). Replay
  refuses the stream (`postgres-event-store.ts:547`), and with it every further command of its organization. So "every
  committed stream passes `verifyEventChain`" is false of the code. The run `event_store` has such a payload and
  `OnlyKeyOrderStopsReplay` says exactly which streams are lost: those that hold one, and no others;
* START_CONTEST does not look at protests and appeals, so a contest starts while the result it depends on is disputed;
  only the control room lists it as blocked (`live-operations.ts:384`; the test at `live-operations.test.ts:221`);
* DUPLICATE_TOURNAMENT opens a tournament in an archived club (`platform.ts:692`; compare `:582`);
* two identical submissions in flight together: the later is told that its key was reused with different content,
  because the store's fingerprint covers the server's timestamp (`platform.ts:1162`, `platform-api.ts:75`);
* voiding the last Swiss round and submitting it anew drops the point of its bye (`dynamic-stage-lifecycle.ts:434-448`
  against `:225`); a heat or ranking stage whose truthful results cannot be certified refuses its last submission for
  ever (`:365`);
* "shared_rank" gives distinct ranks (`standings.ts:95`), head-to-head counts results of all stages the policy names
  (`:100`), `avoid_any_rematch` ignores bye-holders (`draw-constraints.ts:255`), a third-place contest is expected but
  never built by `graph.ts:152` (reported as TSC702), a structure that fails frees its entrants for
  later policies only: those that chose in between went without them and the freed entrants may go nowhere
  (`qualification.ts:59`), and `runScenario` plays the pools twice with different seeds, so that the table that seeds the
  knockouts is not the one of the reported results (`scenario.ts:40-53`);
* the minimal repair does not know fixed starts (`schedule-repair.ts` never reads `fixedStartMinute`), so a repair can
  move a promised contest and is then refused by the certificate (TSV407); an overrun is measured from the planned end;
  "OPTIMAL" and "INFEASIBLE" of the solver hold on its grid of starts only, and INFEASIBLE is believed unchecked
  (`cp-sat-solver.ts:328`); the ranking by resilience counts overlaps but not lost rest (`schedule-resilience.ts`);
* a voided result can never be decided again in `tournament-state.ts`, while `adjudication.ts` lets a correction follow a
  void and name other entrants; the ledger's verifier cannot see a missing end, another
  withdrawal policy, or a rewritten end whose hashes were computed anew, since they have no key
  (`adjudication.ts:75-128`); the gateway accepts signed results of mapped entrants whether or not it published anything
  and whatever contest they name (`integration-gateway.ts:280-353`; the test at `integration-gateway.test.ts:166-169`),
  so its caller must compare them with the roster; it remembers what it accepted in memory only, so a report is accepted
  again after a restart, and a report written under a mapping that has been corrected since
  (`docs/production-runbook.md:148-149`) is read under the new one;
* a webhook whose claim was committed but whose answer was lost, or whose replica dies before the completion, is refused
  as a replay until the claim runs out, and one whose completion failed is handed to the receiver again
  (`production-pilot-api.ts:301-311`).

Also: recovery of an expired lease ignores `maxAttempts`, so a row whose worker dies each
time is claimed without limit (`postgres-event-store.ts:505`; `README.md:54` says "bounded retry"); the author of a live
change may reject it (`platform.ts:961`; `docs/live-change-workflow.md:28` says that `DECIDE_LIVE_CHANGE` "requires a
different authorised actor"), and a stale proposal can be neither approved nor rejected; the live definition comes from
the caller and is not compared with the published graph (`platform.ts:887`); live commands are accepted in completed and
archived tournaments (`platform.ts:893`); a score may name another winner than the live log (`platform.ts:903`);
DELETE_ACCOUNT leaves the address in the invitation the member accepted
(`platform.ts:875`; `docs/production-runbook.md:116` says the latest aggregate no longer exposes it); publication
compares the compiler with the approver and the approver with the publisher, never the compiler with the publisher
(`platform.ts:978`; `docs/competition-guard-publication.md:38` speaks of compiler, approver and publisher separation);
a timing correction puts a contest back in play without the checks of a start, so that two contests can be in play on
one court, and can leave a winner on a contest that is in play again (`live-operations.ts:496`); a run acknowledges
after its lease ran out, since it compares the lease with the `runAt` it was computed from
(`outbox-delivery-worker.ts:153,189`); runs that always outlast their lease pass a row from worker to worker for ever;
a duplicate is answered with the state read before the first submission took effect (`platform.ts:1149`);
`CHANGE_MEMBERSHIP` can re-activate the membership of an anonymized account; an approved tournament whose artifacts are
compiled again can be neither published nor approved again.

## 4. Proofs

All proofs are for arbitrary constants under the named assumptions of the modules.

* **CommandExecution_proofs** (`ExecutionAssumption`). Type correctness, `DecidedOnCurrentState`,
  `OneEffectPerCommand`, `GuardsHoldAtAppend`, `AcceptedTookEffect` and the refinement of `AtomicCommands`, for any
  number of requests. `GuardsHoldAtAppend` is not inductive: that a guard passed says nothing about the stream at
  the append. The invariant adds that a request about to append was permitted by the prefix it read
  (`PermittedOnSeen`) and that one about to read back has its entry in the stream (`AppendedBeforeReread`); the
  append then compares the length of that prefix with the stream, so both are the same.
* **LiveControl_proofs** (`AccessAssumption`, `LifecycleAssumption`, `LiveAssumption`). First organization access: type
  correctness, `AlwaysAnActiveOwner`, `MembersWereInvited`, `RecoveryIsSingleUse`, `SuspendedIsFrozen`. The two counting
  properties are proved by following the cardinalities of the sets of members, accepted invitations and completed
  recoveries through each command. Then the lifecycle: type correctness, `ApprovalIsCurrent`,
  `PublishedIsApproved`, `SeparationOfDuties`, `HistoryIsImmutable`, `OnlyCurrentManagersDecide`. Every command
  replaces one tournament record, so the invariant is a predicate of one record (`Sound`), strengthened by: what is
  still to be approved has no approval, what is still to be published has no publication, and what is published, live or
  completed has one (`DecisionsMatchStatus`). Without it an approval could overwrite the one a publication relied on. `CommandEffect` classifies what a command can do to a
  record (draft, revise, move, approve, publish); the invariant and both action properties follow from the
  classification. The proofs cover all roles and scopes; the TLC instance has owners only.
  Then the day itself: `LiveSpec` implements `LifecycleSpec`, so all this holds with
  live commands going on. Type correctness, `LiveCommandOnce`, `ApprovedIsApplied`, `ProposalsTakeTwo`,
  `RecordsOnlyGrow` and `LiveWasPublished`, for logs of any length. Everything about logs follows from one fact: a step
  leaves a log as it is or appends one event of a new identity (`Grown`). An approval replaces the log by one computed
  earlier, so the invariant (`Founded`) adds that a proposal's base is part of the log and that the proposed log has grown
  from the base; the comparison of hashes then makes the base the log itself.

* **EventStore_proofs** (`StoreAssumption`). `StoreIsWhole` and the
  refinement of EventLog, for any clients, streams, requests and transactions, with rollbacks, lost answers and deadlock
  victims anywhere. The invariant looks at each stream as it is committed and as every open transaction sees it (`Views`):
  in each view events and recorded requests fit together (`Whole`), and a transaction has changed only streams it has
  locked (`Owning`), so a commit replaces one view by another. Committed streams are always chained
  (`StreamsStayChained`); they are replayed unless they hold a payload whose key order matters, and then they
  are not (`StreamsReplayUnlessKeyOrderMatters`), for any set of such payloads.
* **OutboxDelivery_proofs** (`IdentityAssumption`, with finitely many rows). `DeliveredOnce` and `LeasesProtect`, for any
  workers, lease time, batch size and retry policy. That a row is acted on once is the agreement of the provider's two
  tables; that a delivered row was sent needs what is known in the middle of a run (`AcceptedWasSent`); that a lease
  protects needs that no run was started in the future (`StartedInThePast`).
* **LiveOperations_proofs** (`DefinitionAssumption`). `UncorrectedPlayIsLawful` and `ProjectionIsTrue`, for any
  definition, any log and any corrections. The state is a fold of the log, so these are inductions over its prefixes:
  `SetInduction`, from the fact that a set of naturals has a least element, takes the place of the library's induction
  theorems, which cannot be instantiated here. A value that only some facts set is what the latest of them says
  (`LatestCounts`), and two projections of which one leaves out one event differ only in what that event is about
  (`TakenOutIsLocal`). The invariant is that the state is the projection of a well-formed log (`LogInv`) and that no
  dispute is filed twice by standing events (`FiledOnce`).
* **ResultIntake_proofs** (the assumptions of TournamentTruth, ProductionCoordination and ResultIntake). Everything the run
  `result_records` checks, for any number of rosters, desks, events, reports, restarts, deliveries and requests.
  - *Truth.* A correction names the event it supersedes, while the code keeps only the result in force, so the invariant
    relates the record to what is in force: every contest with a result in the record has one in force (`Recorded`), without
    which a second first result could open a second line; the one in force is the last of its line; command ids occur once
    and what an accepted desk sent is what the fingerprint remembers (`Answered`). `EnterKeepsLine` is the heart: one new
    result that supersedes the one in force keeps the line single.
  - *Ledger.* Every event carries its place and its own hash (`Written`), so what is moved or altered shows.
  - *Gateway.* Nothing is assumed of what the provider sends or of how configurations relate. A mapping that is not
    refused is injective (`MappingInjective`), so a well-formed report of known entrants read backwards says, sent out
    again, what came in (`ReportReads`), and truth that this gateway would still publish in the same words is read as
    itself (`TruthReturns`). `IntakeInv` adds that what was taken is what the present mapping makes of its envelope.
  - *Webhooks.* `Guarded`: a claim stands until it runs out. `OneHolder`: two handlers that ever held claims of one event
    read different times, so the expiry that fences a claim tells them apart. `Remembered`: what was accepted is remembered
    for a claim's life. `Apart`: who works on an accepted event read its clock late enough, or can neither complete nor
    release any more. `TtlOutlivesSignature` enters where a handler claims: it cannot be so late that its claim is over.
  - *Rates.* `Fits`: the requests let through are those of the present window, those of the one before, at most a limit
    each, and older ones; a stretch shorter than a window meets the first two only.

* **CompetitionJourney_proofs** (`JourneyAssumption`). `PlanIsCurrent`, `PlayRestartsCleared`, `RevokedStaysOut`,
  `ReopensOtherwise` and the action property `DurableTruthOnlyGrows`, for any sources, rules, people, contests, expiry times, scene bounds, failed
  writes and stops. `JourneyInv` says the same of the record in memory and of the stored one, and that memory holds all
  that the store holds (`Grows`): a failed write leaves the store behind, and the next write or the next restart makes
  them equal again. Each operation has a lemma that it leaves the record lawful, takes nothing away and keeps the
  credentials (`Keeps`); what storing does is proved once (`StoreKeeps`, `HandOutKeeps`).
  - *Plan.* Compiling may use a solution prepared for an earlier draft; `Reusable` compares the content, so what is
    recorded is `Content` of the draft at the time of recording (`CompileSteps`).
  - *Published truth.* An approval appends the amended publication to the history and an amendment ends the publication
    it keeps: `PublishedSoFar` is the same sequence or grows by one. That an amendment and a publication
    are never on record together is part of `Settled`. Approving a repair replaces the log by the proposal's base and one event more; the guard that the base is
    the log makes this an extension.
  - *Restarts.* `RestartsAreCleared` is not inductive: it says nothing of the clearances that will count for the next
    restart. `Ledger` adds that the clearances in force were given after every stop, and that both were whenever play is
    not stopped.
  - *Credentials.* What was handed out is held by some grant, and once its participant's access was rotated or revoked
    every grant of it is revoked (`Shut`). `Succeeds` is what an operation may do to the grants: forget none, make none
    valid again, add only what is not held. For a rotation this needs that a new command's token cannot be held already,
    which follows from commands being numbered by the events on record (`Accounted`). Since `Guarded` is required of
    memory and of the store, it survives a write that failed and a restart that forgets what was not written.
  - *Loading again.* A second invariant (`BothKept`, relative to the first) says of both records what a load looks at:
    `Kept` has one conjunct for each check of the validator that an operation could upset. `Replayed`: the log is the
    replay of its commands. There is only one replay (`ReplayIsUnique`, by the least place where two would differ), so
    the load's own is that one (`ReplayVerifies`), a command accepted extends it by one place (`ReplayGrows`), and
    `ExtendsIsPrefix` relates it to what publications remember. `Noted`, `Reviewed`,
    `Decided`, `Proposed` and `Repair` say that the edit history tells the draft, approvals are of what is published, the
    final has the entrants its pool gives, and repairs rest on a log that play went through; `AsideKeepsResults` is what
    setting a contest aside leaves alone. `Unique`, `RevokedBy`, `Answered` and `Evidenced` tie grants to the events that
    issued, rotated or revoked them (`EvidenceGrows`). The histories that `ReopensOtherwise` names are the only
    places where `Kept` does not give what the load asks (`KeptLoads`): the theorem says that every other failure to load
    is ruled out, for any bounds.

* **DynamicStageStore_proofs** (`DefinitionsAssumption`). Everything the run `dynamic_stages` checks, for any definition
  of the four formats, any processes and requests, and streams of any length.
  - *Requests* (`RequestsAreRecognised`). `RequestInv`: the stream replays to the stage, its keys are apart, no two
    processes work under one key, and the command a process holds stands for its request (`Stands`), is the event under
    its key if there is one, and refers to the schedule it would lead to (`RefersToIts`). A command computed on an older
    stream is no threat: it can only be applied at the length it expects.
  - *Usable stages* (`StoredStageIsUsable`). The verifier looks at the whole history, so it is restated of the events
    (`VerifyIs`), and what may follow an accepted state is one disjunction (`Follows`, `VerifiedAfter`). Each format then
    has to show that its commands lead to such a state. For a Swiss stage this needs that final rankings are of all
    entrants (`RankIs`), that there are entrants at all, which only a certified pairing says (`PairedRound`), and that
    requests are numbered by rounds not yet open (`Numbered`).
  - *Qualifiers* (`QualifiersAreUnbeaten`). Places are numbers in a total order (`PrecedesOrders`, `PlaceIsNumber`) and
    there are as many numbers as results (`NumbersCount`), so a cut at a number takes those before it, whatever becomes
    of ties at the cut (`QualifiedAreUnbeaten`).
  - *Swiss* (`SwissAddsUp`). What pairing forbids is read from a table, what the property says is about rounds. `SwissInv`
    adds that the table is the one rebuilt from the rounds with the open round's bye, and that a rebuilt table knows
    every meeting and every bye of its rounds (`RebuildKnows`, because tables only grow, `RoundTable`); a certified
    pairing repeats none of them (`PairingFits`). A void breaks the first of these: it reopens a round without its bye,
    so the invariant allows one other table, and only after a void in the last round (`OpenInv`, `DoneInv`). This is the
    divergence that section 3 names, and the theorem says that it is the only one.
  - *Induction.* The library's induction theorems cannot be instantiated here. Instead `Induction` takes a property as a
    set of numbers, and recursive functions are known by their first value and their steps (`StepsDetermine`, `Iterates`).

Assumptions on constants that were added for proofs say what the code provides: rows are finitely many; `NoContest` and
`Nil` are not values; limits and windows are positive and durations are not negative
(`postgres-production-coordination.ts` refuses others); truths have the shape of a certified result; a journey starts
from a draft or from what operations make of it (`StartsFrom`); a dynamic stage's entrants are finitely many and its
points and rounds are numbers, as its compilation checks (`DefinitionsAssumption`); a journey's pool has a contest and
no state of operations is `None`; `None` and `Absent` are not values; and what a provider may report has the shape of a
result in its own names (`ReportedAssumption`), as the parser demands.

Only model-checked: formats and scheduling, whose properties compare what a fold or a search computes with a definition
over all plans, tables or scores, so that each is an induction over data inside a definition, not over steps; and every liveness property (`EveryTransactionEnds`, `EveryIntentSettles`), which is out of the prover's reach.

## 5. Not modelled

Where a model is narrower than the code it stands for:

* a recovered token is told apart from an issued one by its shape, `<<"recovery", id>>`, where the code concatenates
  `recovery:` and the id (`competition-journey.ts:2605`) and admits ids that begin so (`:2461`). A rotation
  under the id `recovery:X`, to the same participant and expiry as the code issued by X, would repeat a token hash, and a
  record with two equal hashes does not load (`:891`); neither `ReopensOtherwise` nor its theorem covers such ids;
* of the live commands, JourneyPlay has the start, the scored completion (score and completion are one event), the
  correction and the walkover of an entrant whom a no-show has withdrawn; calls, check-ins and the decision of ties are
  left out, and so is the guard of a closure against open disputes, which no command of the journey can open
  (`parseConnectedLiveCommand`). `COMMUNICATIONS_LEAD` has no duty in any guard that is modelled and is not a function
  there;
* classification stages are fed with loser ports that nobody else uses; `compileClassificationStage`
  (`primitive-engines.ts:98-117`) looks only at its own sources, so it would accept a port that another contest consumes
  and put that entrant in two places;
* `Lawful` leaves fixed starts out as `validateCandidate` does (`schedule-resilience.ts:60-102`), so the evidence for a
  plan is about plans that may break a promised time; the exact search checks them on its own (`FixedStartsKept`).

Not modelled at all: Competition Guard's checks and the contents of artifacts (an artifact set passes or does not);
HTTP parsing, status texts and HTML; snapshots and global positions of the store; the inside of CP-SAT and of the local
search for draws of more than eight slots; the quality objectives of a schedule and the production lock; restoring,
exporting and duplicating closed competitions; directories, templates, seasons, alerts, notifications, backup and
restore of the platform; authorization and readiness checks, which are functions of one input; sport catalogues and
input schema validation; the Apple client; the repository's own campaign and verification tooling.
The three protocol sketches under `formal/` (publication, idempotent command, live change approval) state in a few
variables what TournamentLifecycle, CommandExecution and LiveControl derive from the code; nothing is taken from them.

## 6. Plan

1. Offline queue of the Apple client composed with CommandExecution.
2. Directories, templates, seasons, alerts and notifications; backup and restore with the command identities a
   restore forgets; closed bundles of the journey.
3. Proofs: the searches of ScheduleSearch, whose state is explicit (a plan is lawful when every placement fits, what is
   passed over cannot be better).
4. Draws of sixteen slots against the local search's own validator; quality objectives of schedules.
