---------------------- MODULE ProductionCoordination ----------------------
(***************************************************************************)
(* The edge of a production deployment: several replicas answer webhooks   *)
(* and members' requests (production-pilot-api.ts) and agree through two   *)
(* tables of PostgreSQL (postgres-production-coordination.ts): replay      *)
(* claims, one per webhook event, and rate-limit buckets, one per member.  *)
(* A handler reads the clock once and then awaits the secret, the claim,   *)
(* the receiver and the completion, so its `now` grows stale.  Each store  *)
(* operation is one transaction; its COMMIT may happen and its answer be   *)
(* lost.  Receiver, provider and time are external.                        *)
(***************************************************************************)
EXTENDS Integers, Sequences, FiniteSets

CONSTANTS Nil,
          Hooks,           \* webhook events, by tenant, provider and event id
          Ttl,             \* webhookReplayTtlMs
          MaxSkew,         \* webhookMaxSkewMs
          RateLimit, Window,   \* principalLimit and principalWindowMs
          Patience,        \* bound: ticks between reading the clock and reaching the store
          LastTick,        \* bound on the clock
          MaxDeliveries,   \* bound on webhook deliveries; each has a handler, on any replica
          MaxRequests      \* bound on a member's requests

(* A signature must have gone stale before the claim of its event runs out. *)
ASSUME TtlOutlivesSignature == Ttl > 2 * MaxSkew + Patience

(* Durations, and what the store checks of a limit and its window. *)
ASSUME LimitsAssumption == {Ttl, MaxSkew, Patience} \subseteq Nat /\ {RateLimit, Window} \subseteq Nat \ {0}

(* Nothing that is recorded is Nil. *)
ASSUME NilAssumption ==
  /\ Nil \notin Nat
  /\ Nil \notin [stage : {"READ", "HELD", "TAKEN", "FAILED"}, hook : Hooks, stamp : Nat, now : Nat]
  /\ Nil \notin [status : {"PENDING", "COMPLETED"}, expires : Nat]
  /\ Nil \notin [started : Nat, expires : Nat, count : Nat]

VARIABLES clock,
          handlers,        \* what every handler is doing: Nil or a delivery with its stage
          replays,         \* tournament_webhook_replays: Nil or a claim
          deliveries,      \* how many there were; the last one's handler has its number
          handed,          \* events the receiver has taken
          accepted,        \* deliveries answered 202, in order
          bucket,          \* tournament_rate_limits of one member: Nil or a window
          requests,        \* how many there were
          allowed,         \* the times of those that were let through
          comeBack         \* what retry-after told the member last: Nil or a time

Handlers == 1..MaxDeliveries

webhookVars == <<handlers, replays, deliveries, handed, accepted>>
rateVars == <<bucket, requests, allowed, comeBack>>

(***************************************************************************)
(* Webhooks.                                                               *)
(***************************************************************************)
NotStale(stamp) == clock - stamp \in -MaxSkew..MaxSkew

Working(h, stage) == handlers[h] # Nil /\ handlers[h].stage = stage
Proceed(h, stage) == handlers' = [handlers EXCEPT ![h].stage = stage]
Reply(h) == handlers' = [handlers EXCEPT ![h] = Nil]

(* handle, up to the await of the secret: an envelope that is signed and not stale. *)
Deliver(h) ==
  \E hook \in Hooks, stamp \in 0..LastTick :
    /\ h = deliveries + 1
    /\ NotStale(stamp)
    /\ deliveries' = h
    /\ handlers' = [handlers EXCEPT ![h] = [stage |-> "READ", hook |-> hook, stamp |-> stamp, now |-> clock]]
    /\ UNCHANGED <<replays, handed, accepted>>

Expiry(h) == handlers[h].now + Ttl

Claimable(h) ==
  LET claim == replays[handlers[h].hook] IN claim = Nil \/ claim.expires <= handlers[h].now

Claim(h) ==
  /\ Working(h, "READ")
  /\ clock - handlers[h].now <= Patience
  /\ IF Claimable(h)
     THEN /\ replays' = [replays EXCEPT ![handlers[h].hook] = [status |-> "PENDING", expires |-> Expiry(h)]]
          /\ Proceed(h, "HELD") \/ Reply(h)          \* or the answer to COMMIT was lost
     ELSE Reply(h) /\ UNCHANGED replays            \* 409 webhook_replay
  /\ UNCHANGED <<deliveries, handed, accepted>>

(* receiveWebhook; one that throws may have taken the event all the same. *)
Receive(h) ==
  /\ Working(h, "HELD")
  /\ \/ handed' = handed \cup {handlers[h].hook} /\ (Proceed(h, "TAKEN") \/ Proceed(h, "FAILED"))
     \/ handed' = handed /\ Proceed(h, "FAILED")
  /\ UNCHANGED <<replays, deliveries, accepted>>

(* The claim this handler made, and not one that took its place. *)
BugHolds(h) == replays[handlers[h].hook] # Nil
Holds(h) == replays[handlers[h].hook] = [status |-> "PENDING", expires |-> Expiry(h)]

Complete(h) ==
  /\ Working(h, "TAKEN")
  /\ \/ /\ Holds(h)
        /\ replays' = [replays EXCEPT ![handlers[h].hook].status = "COMPLETED"]
        /\ \/ Reply(h) /\ accepted' = Append(accepted, handlers[h])
           \/ Proceed(h, "FAILED") /\ UNCHANGED accepted
     \/ Proceed(h, "FAILED") /\ UNCHANGED <<replays, accepted>>      \* claim lost, or the statement failed
  /\ UNCHANGED <<deliveries, handed>>

Release(h) ==
  /\ Working(h, "FAILED")
  /\ replays' = IF Holds(h) THEN [replays EXCEPT ![handlers[h].hook] = Nil] ELSE replays
  /\ Reply(h)
  /\ UNCHANGED <<deliveries, handed, accepted>>

(* The replica is lost, or a store operation fails outside the catch. *)
Lose(h) == handlers[h] # Nil /\ Reply(h) /\ UNCHANGED <<replays, deliveries, handed, accepted>>

Tick == clock < LastTick /\ clock' = clock + 1

WebhookInit ==
  /\ handlers = [h \in Handlers |-> Nil] /\ replays = [k \in Hooks |-> Nil]
  /\ deliveries = 0 /\ handed = {} /\ accepted = <<>>

WebhookNext ==
  \/ \E h \in Handlers : (Deliver(h) \/ Claim(h) \/ Receive(h) \/ Complete(h) \/ Release(h) \/ Lose(h)) /\ UNCHANGED clock
  \/ Tick /\ UNCHANGED webhookVars

(***************************************************************************)
(* Rate limits: one statement counts a request into its member's window or *)
(* opens the next one; refused requests are counted too.                   *)
(***************************************************************************)
BugCounted(now) ==
  IF bucket = Nil \/ bucket.expires <= now
  THEN [started |-> now, expires |-> now + Window, count |-> 0] ELSE [bucket EXCEPT !.count = @ + 1]
Counted(now) ==
  IF bucket = Nil \/ bucket.expires <= now
  THEN [started |-> now, expires |-> now + Window, count |-> 1]
  ELSE [bucket EXCEPT !.count = @ + 1]

Admits(now) == Counted(now).count <= RateLimit

Consume ==
  \E now \in {t \in clock - Patience..clock : t >= 0} :
    /\ requests < MaxRequests
    /\ requests' = requests + 1
    /\ bucket' = Counted(now)
    /\ \/ Admits(now) /\ allowed' = Append(allowed, now) /\ comeBack' = Nil
       \/ ~Admits(now) /\ comeBack' = bucket'.expires /\ UNCHANGED allowed    \* 429, retry-after
       \/ comeBack' = Nil /\ UNCHANGED allowed                                \* counted, but the answer was lost
    /\ UNCHANGED clock

RateInit == bucket = Nil /\ requests = 0 /\ allowed = <<>> /\ comeBack = Nil
RateNext == Consume \/ (Tick /\ UNCHANGED rateVars)

-----------------------------------------------------------------------------
(***************************************************************************)
(* One delivery is answered 202 at most once, and deliveries of one event  *)
(* that are all accepted lie a claim's life apart, less what a clock       *)
(* reading may be late, whatever is resent, released, lost or outlived by  *)
(* a slow receiver; what was accepted was handed over; and nobody else     *)
(* works on an event before the claim of the handler that holds it has run *)
(* out (claim, complete and release, fenced by the expiry).                *)
(***************************************************************************)
Processing(h) == Working(h, "HELD") \/ Working(h, "TAKEN")

WebhooksAreTakenOnce ==
  /\ \A i, j \in 1..Len(accepted) : i < j /\ accepted[i].hook = accepted[j].hook =>
       /\ accepted[i].stamp # accepted[j].stamp
       /\ accepted[j].now - accepted[i].now >= Ttl - Patience
  /\ \A i \in 1..Len(accepted) : accepted[i].hook \in handed
  /\ \A h, k \in Handlers :
       h # k /\ Processing(h) /\ Processing(k) /\ handlers[h].hook = handlers[k].hook => clock >= Expiry(h) \/ clock >= Expiry(k)

(***************************************************************************)
(* No stretch of a window's length, less what a clock reading may be late, *)
(* sees more than two windows' worth of one member's requests let through, *)
(* on however many replicas, and a member who waits as long as it was told *)
(* is let through (consume).                                               *)
(***************************************************************************)
RateIsKept ==
  /\ \A t \in 0..LastTick : Cardinality({i \in 1..Len(allowed) : allowed[i] \in t..t + Window - Patience - 1}) <= 2 * RateLimit
  /\ comeBack # Nil /\ clock >= comeBack => Admits(clock)
============================================================================
