--------------------------- MODULE OutboxDelivery ---------------------------
(***************************************************************************)
(* The transactional outbox and the workers that deliver from it.          *)
(*                                                                         *)
(* The rows are those of packages/competition-engine/src/outbox.ts and of  *)
(* the `outbox` object of postgres-event-store.ts, whose operations have   *)
(* the same guards; each is one SQL statement or one transaction, hence    *)
(* one atomic step.  The workers are outbox-delivery-worker.ts: runOnce    *)
(* reads the clock ONCE, then awaits recoverExpiredLeases, claim and, for  *)
(* each message of the batch, deliver followed by acknowledge or retry.    *)
(* Every await is a point where another worker, the clock or a crash can   *)
(* intervene, so each awaited call is an action of its own.                *)
(*                                                                         *)
(* Time.  Every timestamp is kept relative to the present (the present is  *)
(* 0, a past instant is negative), because the code only compares          *)
(* timestamps.  Tick moves every timestamp one unit into the past and      *)
(* stops at -MaxRun: no run is allowed to be older than MaxRun, so two     *)
(* instants that are both at least that old compare alike with every       *)
(* runAt.  The clock is therefore unbounded and the state finite.          *)
(***************************************************************************)
EXTENDS Integers, Sequences, FiniteSets

CONSTANTS
  Messages,     \* outbox rows that may be committed, one per dedupeKey
  Invalid,      \* rows that validateMessage rejects (a non-retryable error)
  Unroutable,   \* rows whose topic has no configured provider
  Workers,      \* workerIds; one runOnce at a time per workerId
  NoWorker,     \* an absent leaseOwner
  LeaseTime,    \* leaseMs
  BatchSize,    \* claim limit
  MaxAttempts,  \* maxAttempts of the worker's retry policy
  BaseDelay,    \* baseDelayMs
  MaxDelay,     \* maxDelayMs
  MaxAhead,     \* BOUND: how far in the future recordedAt may lie
  MaxRun,       \* BOUND: ticks one runOnce may last before it ends or dies
  MaxCrashes    \* BOUND: process losses

(* The worker's own start-up check of its limits (runOnce cannot exist     *)
(* otherwise), and the bounds.                                             *)
ASSUME LimitsAssumption ==
  /\ {LeaseTime, BatchSize, MaxAttempts, BaseDelay, MaxDelay} \subseteq Nat \ {0}
  /\ BaseDelay <= MaxDelay
  /\ MaxAhead \in Nat /\ MaxRun \in Nat /\ MaxCrashes \in Nat

ASSUME IdentityAssumption ==
  /\ IsFiniteSet(Messages)
  /\ NoWorker \notin Workers
  /\ Invalid \subseteq Messages
  /\ Unroutable \subseteq Messages

VARIABLES
  status,          \* ABSENT until the event that carries the intent commits
  attempts,        \* claims so far, see CountAttempt
  availableAt,
  leaseOwner,
  leaseExpiresAt,
  pc,              \* where each worker's runOnce is waiting
  runAt,           \* the timestamp each worker's run read when it started
  batch,           \* claimed snapshots still to process, the current one first
  failure,         \* retryable? of the error the current delivery ended with
  seenKeys,        \* the provider's idempotency table
  effects,         \* how often the provider really acted on each message
  crashes

rowVars == <<status, attempts, availableAt, leaseOwner, leaseExpiresAt>>
workerVars == <<pc, runAt, batch, failure>>
providerVars == <<seenKeys, effects>>
vars == <<rowVars, workerVars, providerVars, crashes>>

Statuses == {"ABSENT", "PENDING", "LEASED", "DELIVERED", "DEAD_LETTER"}
Terminal == {"DELIVERED", "DEAD_LETTER"}
Points == {"idle", "recover", "claim", "deliver", "accepted", "failed"}

(* A claimed message is a snapshot of the row taken by claim.              *)
Snapshots == [id : Messages, attempts : Nat]

-----------------------------------------------------------------------------
(* Helpers                                                                 *)

(* The counter stops one past the limit: nothing in the code tells larger  *)
(* values apart, since a row at or past the limit never computes a delay.  *)
CountAttempt(n) == IF n > MaxAttempts THEN n ELSE n + 1

(* baseDelayMs * 2^(attempts-1), capped by maxDelayMs.                     *)
RetryDelay(n) ==
  LET delay == BaseDelay * 2^(IF n > 1 THEN n - 1 ELSE 0)
  IN  IF delay < MaxDelay THEN delay ELSE MaxDelay

(* The key the provider deduplicates by: the row's dedupeKey (with tenant  *)
(* and provider, both constant here), never the attempt.                   *)
BugProviderKey(m) == [dedupeKey |-> m.id, attempt |-> m.attempts]
ProviderKey(m) == [dedupeKey |-> m.id]

(* May w still acknowledge or retry m?  `now` is the run's own runAt.      *)
LeasedMessage(w, m) ==
  /\ status[m] = "LEASED"
  /\ leaseOwner[m] = w
  /\ leaseExpiresAt[m] > runAt[w]

(* The messages a claim may take: due, pending, oldest availableAt first,  *)
(* at most BatchSize (createdAt and id only break ties).                   *)
Eligible(w) == {m \in Messages : status[m] = "PENDING" /\ availableAt[m] <= runAt[w]}

Claimable(w) ==
  {S \in SUBSET Eligible(w) :
     /\ Cardinality(S) = (IF Cardinality(Eligible(w)) < BatchSize
                            THEN Cardinality(Eligible(w)) ELSE BatchSize)
     /\ \A m \in S, o \in Eligible(w) \ S : availableAt[m] <= availableAt[o]}

ClaimOrders(S) ==
  {s \in [1..Cardinality(S) -> S] :
     \A i, j \in DOMAIN s : i < j => /\ s[i] # s[j]
                                     /\ availableAt[s[i]] <= availableAt[s[j]]}

(* The run goes on with the next message of the batch, or ends.            *)
Proceed(w) ==
  /\ batch' = [batch EXCEPT ![w] = Tail(@)]
  /\ pc' = [pc EXCEPT ![w] = IF Tail(batch[w]) = <<>> THEN "idle" ELSE "deliver"]

(* The run ends by an exception (or with its process): what it still held  *)
(* stays LEASED until somebody recovers the lease.                         *)
Abandon(w) ==
  /\ batch' = [batch EXCEPT ![w] = <<>>]
  /\ pc' = [pc EXCEPT ![w] = "idle"]

ReleaseLease(m) ==
  /\ leaseOwner' = [leaseOwner EXCEPT ![m] = NoWorker]
  /\ leaseExpiresAt' = [leaseExpiresAt EXCEPT ![m] = 0]

-----------------------------------------------------------------------------
(* The commit of an event with an outbox intent inserts its row; an        *)
(* existing row of the same dedupeKey is left alone.  recordedAt comes     *)
(* with the command, so it need not be in the past.                        *)
Enqueue(m) ==
  /\ status[m] = "ABSENT"
  /\ \E recordedAt \in 0..MaxAhead :
       availableAt' = [availableAt EXCEPT ![m] = recordedAt]
  /\ status' = [status EXCEPT ![m] = "PENDING"]
  /\ UNCHANGED <<attempts, leaseOwner, leaseExpiresAt, workerVars, providerVars, crashes>>

(* runOnce, up to its first await: const runAt = now().                    *)
StartRun(w) ==
  /\ pc[w] = "idle"
  /\ pc' = [pc EXCEPT ![w] = "recover"]
  /\ runAt' = [runAt EXCEPT ![w] = 0]
  /\ UNCHANGED <<rowVars, batch, failure, providerVars, crashes>>

BugNeverExpired(w, m) == FALSE
Expired(w, m) == status[m] = "LEASED" /\ leaseExpiresAt[m] <= runAt[w]

RecoverExpiredLeases(w) ==
  /\ pc[w] = "recover"
  /\ pc' = [pc EXCEPT ![w] = "claim"]
  /\ status' = [m \in Messages |-> IF Expired(w, m) THEN "PENDING" ELSE status[m]]
  /\ availableAt' = [m \in Messages |-> IF Expired(w, m) THEN runAt[w] ELSE availableAt[m]]
  /\ leaseOwner' = [m \in Messages |-> IF Expired(w, m) THEN NoWorker ELSE leaseOwner[m]]
  /\ leaseExpiresAt' = [m \in Messages |-> IF Expired(w, m) THEN 0 ELSE leaseExpiresAt[m]]
  /\ UNCHANGED <<attempts, runAt, batch, failure, providerVars, crashes>>

(* claim(...): the rows become LEASED until runAt + leaseMs.               *)
BugLeaseUntil(w) == runAt[w]
LeaseUntil(w) == runAt[w] + LeaseTime

Claim(w) ==
  /\ pc[w] = "claim"
  /\ \E S \in Claimable(w) : \E order \in ClaimOrders(S) :
       /\ status' = [m \in Messages |-> IF m \in S THEN "LEASED" ELSE status[m]]
       /\ attempts' = [m \in Messages |-> IF m \in S THEN CountAttempt(attempts[m]) ELSE attempts[m]]
       /\ leaseOwner' = [m \in Messages |-> IF m \in S THEN w ELSE leaseOwner[m]]
       /\ leaseExpiresAt' = [m \in Messages |-> IF m \in S THEN LeaseUntil(w) ELSE leaseExpiresAt[m]]
       /\ batch' = [batch EXCEPT ![w] =
                      [i \in 1..Cardinality(S) |-> [id |-> order[i], attempts |-> attempts'[order[i]]]]]
       /\ pc' = [pc EXCEPT ![w] = IF S = {} THEN "idle" ELSE "deliver"]
  /\ UNCHANGED <<availableAt, runAt, failure, providerVars, crashes>>

(* validateMessage, the topic lookup, and the provider call.  A provider   *)
(* acts once per idempotency key and answers DUPLICATE after that; both    *)
(* answers count as accepted.  "lost" is a call the provider executed but  *)
(* whose answer never came back or had no valid receipt (a retryable       *)
(* error), "unavailable" a call it never executed, "rejected" a 4xx        *)
(* answer (a non-retryable error).                                         *)
Outcomes(m) ==
  CASE m \in Invalid -> {"invalid"}
    [] m \in Unroutable \ Invalid -> {"unroutable"}
    [] OTHER -> {"accepted", "lost", "unavailable", "rejected"}

Executed(outcome) == outcome \in {"accepted", "lost"}

Succeeded(outcome) == outcome = "accepted"

Deliver(w) ==
  /\ pc[w] = "deliver"
  /\ LET m == Head(batch[w]) IN
     \E outcome \in Outcomes(m.id) :
       /\ IF Executed(outcome) /\ ProviderKey(m) \notin seenKeys
            THEN /\ seenKeys' = seenKeys \union {ProviderKey(m)}
                 /\ effects' = [effects EXCEPT ![m.id] = @ + 1]
            ELSE UNCHANGED providerVars
       /\ IF Succeeded(outcome)
            THEN pc' = [pc EXCEPT ![w] = "accepted"] /\ UNCHANGED failure
            ELSE /\ pc' = [pc EXCEPT ![w] = "failed"]
                 /\ failure' = [failure EXCEPT ![w] = outcome \notin {"invalid", "rejected"}]
  /\ UNCHANGED <<rowVars, runAt, batch, crashes>>

(* acknowledge(...) succeeds under the lease guard and throws otherwise;   *)
(* the exception leaves runOnce.                                           *)
Acknowledge(w) ==
  /\ pc[w] = "accepted"
  /\ LET m == Head(batch[w]).id IN
     \/ /\ LeasedMessage(w, m)
        /\ status' = [status EXCEPT ![m] = "DELIVERED"]
        /\ ReleaseLease(m)
        /\ Proceed(w)
        /\ UNCHANGED <<attempts, availableAt>>
     \/ /\ ~LeasedMessage(w, m)
        /\ Abandon(w)
        /\ UNCHANGED rowVars
  /\ UNCHANGED <<runAt, failure, providerVars, crashes>>

(* retry(...): maxAttempts is the policy's for a retryable error and the   *)
(* snapshot's own attempts for any other, which dead-letters the row.      *)
Retry(w) ==
  /\ pc[w] = "failed"
  /\ LET m == Head(batch[w]).id
         limit == IF failure[w] THEN MaxAttempts ELSE Head(batch[w]).attempts IN
     \/ /\ LeasedMessage(w, m)
        /\ attempts[m] >= limit
        /\ status' = [status EXCEPT ![m] = "DEAD_LETTER"]
        /\ ReleaseLease(m)
        /\ Proceed(w)
        /\ UNCHANGED <<attempts, availableAt>>
     \/ /\ LeasedMessage(w, m)
        /\ attempts[m] < limit
        /\ status' = [status EXCEPT ![m] = "PENDING"]
        /\ availableAt' = [availableAt EXCEPT ![m] = runAt[w] + RetryDelay(attempts[m])]
        /\ ReleaseLease(m)
        /\ Proceed(w)
        /\ UNCHANGED attempts
     \/ /\ ~LeasedMessage(w, m)
        /\ Abandon(w)
        /\ UNCHANGED rowVars
  /\ UNCHANGED <<runAt, failure, providerVars, crashes>>

(* The process is lost at any await (afterProviderAccepted is the code's   *)
(* own seam for the loss between acceptance and acknowledgement).          *)
Crash(w) ==
  /\ pc[w] # "idle"
  /\ crashes < MaxCrashes
  /\ crashes' = crashes + 1
  /\ Abandon(w)
  /\ UNCHANGED <<rowVars, runAt, failure, providerVars>>

(* One unit of time passes for everybody.                                  *)
Elapse(t) == IF t > -MaxRun THEN t - 1 ELSE t

Tick ==
  /\ \A w \in Workers : pc[w] # "idle" => runAt[w] > -MaxRun
  /\ availableAt' = [m \in Messages |-> IF status[m] = "PENDING"
                                          THEN Elapse(availableAt[m]) ELSE availableAt[m]]
  /\ leaseExpiresAt' = [m \in Messages |-> IF status[m] = "LEASED"
                                             THEN Elapse(leaseExpiresAt[m]) ELSE leaseExpiresAt[m]]
  /\ runAt' = [w \in Workers |-> IF pc[w] = "idle" THEN runAt[w] ELSE Elapse(runAt[w])]
  /\ UNCHANGED <<status, attempts, leaseOwner, pc, batch, failure, providerVars, crashes>>

-----------------------------------------------------------------------------
Init ==
  /\ status = [m \in Messages |-> "ABSENT"]
  /\ attempts = [m \in Messages |-> 0]
  /\ availableAt = [m \in Messages |-> 0]
  /\ leaseOwner = [m \in Messages |-> NoWorker]
  /\ leaseExpiresAt = [m \in Messages |-> 0]
  /\ pc = [w \in Workers |-> "idle"]
  /\ runAt = [w \in Workers |-> 0]
  /\ batch = [w \in Workers |-> <<>>]
  /\ failure = [w \in Workers |-> FALSE]
  /\ seenKeys = {}
  /\ effects = [m \in Messages |-> 0]
  /\ crashes = 0

Step(w) ==
  \/ RecoverExpiredLeases(w)
  \/ Claim(w)
  \/ Deliver(w)
  \/ Acknowledge(w)
  \/ Retry(w)

Next ==
  \/ \E m \in Messages : Enqueue(m)
  \/ \E w \in Workers : StartRun(w) \/ Step(w) \/ Crash(w)
  \/ Tick

Spec == Init /\ [][Next]_vars

(* The host calls runOnce again and again, every awaited call returns (the *)
(* provider call has a timeout), and time passes.  Nothing is assumed of   *)
(* commits, of crashes or of the provider's answers.                       *)
Fairness ==
  /\ \A w \in Workers : WF_vars(StartRun(w)) /\ WF_vars(Step(w))
  /\ WF_vars(Tick)

FairSpec == Spec /\ Fairness

-----------------------------------------------------------------------------
(* Properties                                                              *)

(* Every variable has its type; a row holds a lease exactly while it is    *)
(* LEASED; a run that is processing messages has one to process.           *)
TypeOK ==
  /\ status \in [Messages -> Statuses]
  /\ attempts \in [Messages -> Nat]
  /\ availableAt \in [Messages -> Int]
  /\ leaseOwner \in [Messages -> Workers \union {NoWorker}]
  /\ leaseExpiresAt \in [Messages -> Int]
  /\ \A m \in Messages : status[m] = "LEASED" <=> leaseOwner[m] # NoWorker
  /\ pc \in [Workers -> Points]
  /\ runAt \in [Workers -> Int]
  /\ batch \in [Workers -> Seq(Snapshots)]
  /\ \A w \in Workers : pc[w] \in {"deliver", "accepted", "failed"} <=> batch[w] # <<>>
  /\ failure \in [Workers -> BOOLEAN]
  /\ \A k \in seenKeys : k.dedupeKey \in Messages
  /\ effects \in [Messages -> Nat]
  /\ crashes \in Nat

(* A row is DELIVERED only if the provider really acted on it: no path     *)
(* through lease loss, lost answers, retries or crashes acknowledges a     *)
(* notification nobody sent.                                               *)
DeliveredWasSent == \A m \in Messages : status[m] = "DELIVERED" => effects[m] > 0

(* However often a row is re-claimed and re-sent, by however many workers, *)
(* the provider acts on it at most once.                                   *)
AtMostOneEffect == \A m \in Messages : effects[m] <= 1

(* At any moment at most one worker among those still holding a snapshot   *)
(* of a row could get a mutation of that row past the lease guard.         *)
Holds(w, m) == \E i \in DOMAIN batch[w] : batch[w][i].id = m

AtMostOneMutator ==
  \A m \in Messages : \A w, v \in Workers :
    /\ Holds(w, m) /\ LeasedMessage(w, m)
    /\ Holds(v, m) /\ LeasedMessage(v, m)
    => w = v

(* A lease that has not run out is only ended by a step of its owner.      *)
LeaseIsRespected ==
  [][\A m \in Messages : \A w \in Workers :
       leaseOwner[m] = w /\ leaseExpiresAt[m] > 0 /\ leaseOwner'[m] # w
         => batch'[w] # batch[w]]_vars

(* DELIVERED and DEAD_LETTER are final, whatever a worker that lost its    *)
(* lease does later.                                                       *)
TerminalIsFinal ==
  [][\A m \in Messages : status[m] \in Terminal => status'[m] = status[m]]_vars

(* A worker that never lost its lease is never refused: the answer of the  *)
(* provider is recorded for every row that is still leased to the run that *)
(* claimed it.  (The guard compares leaseExpiresAt with the runAt it was   *)
(* computed from, so expiry alone never refuses a mutation.)               *)
OwnerIsNotRefused ==
  \A w \in Workers : \A i \in DOMAIN batch[w] :
    leaseOwner[batch[w][i].id] = w => leaseExpiresAt[batch[w][i].id] > runAt[w]

(* Every committed intent is eventually delivered or dead-lettered, as     *)
(* long as from some moment on no run outlives the leases it took.         *)
WithinItsLease(w) == pc[w] # "idle" => runAt[w] > -LeaseTime

EveryIntentSettles ==
  <>[](\A w \in Workers : WithinItsLease(w)) =>
    \A m \in Messages : status[m] = "PENDING" ~> status[m] \in Terminal

(* However the deliveries of a row go, with lost answers, lost leases and  *)
(* lost processes: what is DELIVERED was sent, and the provider acted on   *)
(* it once.                                                                *)
DeliveredOnce == TypeOK /\ DeliveredWasSent /\ AtMostOneEffect

(* A lease protects its owner: while it lasts nobody else can settle the   *)
(* row, its owner can, only the owner ends it, and what is settled stays   *)
(* so.                                                                     *)
LeasesProtect == [](AtMostOneMutator /\ OwnerIsNotRefused) /\ LeaseIsRespected /\ TerminalIsFinal
=============================================================================
