----------------------- MODULE OutboxDelivery_proofs ------------------------
(***************************************************************************)
(* Theorems about OutboxDelivery, for any finite set of rows, any workers  *)
(* and any lease time, batch size and retry policy.                        *)
(*                                                                         *)
(* That the provider acts at most once on a row follows from the agreement *)
(* of its two tables (OncePerKey).  That a DELIVERED row was sent needs    *)
(* to know, in the middle of a run, that an answer which was accepted      *)
(* stands for an effect (AcceptedWasSent).  That a lease protects its      *)
(* owner needs a fact about the clocks: no run was started in the future   *)
(* (StartedInThePast), so a lease that has not run out now has not run out *)
(* at the time any run takes for the present.                              *)
(***************************************************************************)
EXTENDS OutboxDelivery, FiniteSetTheorems, TLAPS

OncePerKey ==
  \A m \in Messages : effects[m] = IF [dedupeKey |-> m] \in seenKeys THEN 1 ELSE 0

AcceptedWasSent ==
  \A w \in Workers : pc[w] = "accepted" => effects[Head(batch[w]).id] > 0

StartedInThePast == \A w \in Workers : runAt[w] <= 0

IInv ==
  /\ TypeOK
  /\ OncePerKey
  /\ AcceptedWasSent
  /\ DeliveredWasSent
  /\ StartedInThePast
  /\ OwnerIsNotRefused

-----------------------------------------------------------------------------
(* Numbers and sequences.                                                  *)

LEMMA PowerOfTwo ==
  ASSUME NEW n \in Nat
  PROVE  2^n \in Nat
  <1>1. IsFiniteSet(1..n) /\ Cardinality(1..n) = n
    BY FS_Interval
  <1>2. Cardinality(SUBSET (1..n)) = 2^Cardinality(1..n) /\ IsFiniteSet(SUBSET (1..n))
    BY <1>1, FS_SUBSET
  <1> QED
    BY <1>1, <1>2, FS_CardinalityType

LEMMA RetryDelayType ==
  ASSUME NEW n \in Nat
  PROVE  RetryDelay(n) \in Nat
  <1> DEFINE e == IF n > 1 THEN n - 1 ELSE 0
             p == 2^e
  <1>1. e \in Nat
    OBVIOUS
  <1>2. p \in Nat
    BY <1>1, PowerOfTwo
  <1>3. BaseDelay \in Nat /\ MaxDelay \in Nat
    BY LimitsAssumption
  <1>4. RetryDelay(n) = IF BaseDelay * p < MaxDelay THEN BaseDelay * p ELSE MaxDelay
    BY DEF RetryDelay
  <1> HIDE DEF p
  <1>5. BaseDelay * p \in Nat
    BY <1>2, <1>3
  <1> QED
    BY <1>3, <1>4, <1>5

(* The batch of a run, its current message and the rest.                   *)
LEMMA BatchParts ==
  ASSUME NEW s \in Seq(Snapshots), s # <<>>
  PROVE  /\ 1 \in DOMAIN s /\ Head(s) = s[1] /\ Head(s).id \in Messages /\ Head(s).attempts \in Nat
         /\ Tail(s) \in Seq(Snapshots) /\ Tail(s) # s
         /\ \A i \in DOMAIN Tail(s) : i + 1 \in DOMAIN s /\ Tail(s)[i] = s[i + 1]
  <1>1. Head(s) = s[1] /\ 1 \in DOMAIN s /\ s[1] \in Snapshots
    OBVIOUS
  <1>2. Tail(s) \in Seq(Snapshots) /\ Len(Tail(s)) = Len(s) - 1 /\ Len(s) \in Nat
    OBVIOUS
  <1>3. \A i \in DOMAIN Tail(s) : i + 1 \in DOMAIN s /\ Tail(s)[i] = s[i + 1]
    OBVIOUS
  <1>4. ASSUME Tail(s) = s PROVE FALSE
    <2>1. Len(s) = Len(s) - 1
      BY <1>2, <1>4
    <2> QED
      BY <1>2, <2>1
  <1> QED
    BY <1>1, <1>2, <1>3, <1>4 DEF Snapshots

(* What a claim takes: as many due rows as its order names, each of them   *)
(* pending.                                                                *)
LEMMA ClaimedRows ==
  ASSUME NEW w \in Workers, NEW S \in Claimable(w), NEW order \in ClaimOrders(S)
  PROVE  /\ S \subseteq Messages
         /\ \A m \in S : status[m] = "PENDING"
         /\ Cardinality(S) \in Nat
         /\ S = {} <=> Cardinality(S) = 0
         /\ order \in [1..Cardinality(S) -> S]
  <1>1. S \subseteq Messages /\ \A m \in S : status[m] = "PENDING"
    BY DEF Claimable, Eligible
  <1>2. IsFiniteSet(S)
    BY <1>1, FS_Subset, IdentityAssumption
  <1> QED
    BY <1>1, <1>2, FS_CardinalityType, FS_EmptySet DEF ClaimOrders

-----------------------------------------------------------------------------
(* The parts of TypeOK a step can disturb.                                 *)

RowsTyped ==
  /\ status \in [Messages -> Statuses]
  /\ attempts \in [Messages -> Nat]
  /\ availableAt \in [Messages -> Int]
  /\ leaseOwner \in [Messages -> Workers \union {NoWorker}]
  /\ leaseExpiresAt \in [Messages -> Int]
  /\ \A m \in Messages : status[m] = "LEASED" <=> leaseOwner[m] # NoWorker

RunsTyped ==
  /\ pc \in [Workers -> Points]
  /\ runAt \in [Workers -> Int]
  /\ batch \in [Workers -> Seq(Snapshots)]
  /\ \A w \in Workers : pc[w] \in {"deliver", "accepted", "failed"} <=> batch[w] # <<>>
  /\ failure \in [Workers -> BOOLEAN]

ProviderTyped ==
  /\ \A k \in seenKeys : k.dedupeKey \in Messages
  /\ effects \in [Messages -> Nat]

(* Whatever a run holds is a row.                                          *)
LEMMA HeldMessage ==
  ASSUME TypeOK, NEW v \in Workers, NEW i \in DOMAIN batch[v]
  PROVE  batch[v][i].id \in Messages
  <1>1. batch[v] \in Seq(Snapshots)
    BY DEF TypeOK
  <1>2. batch[v][i] \in Snapshots
    BY <1>1
  <1> QED
    BY <1>2 DEF Snapshots

(* The run that has something to process has a current message.            *)
LEMMA CurrentMessage ==
  ASSUME TypeOK, NEW w \in Workers, pc[w] \in {"deliver", "accepted", "failed"}
  PROVE  /\ batch[w] \in Seq(Snapshots) /\ batch[w] # <<>>
         /\ Head(batch[w]).id \in Messages /\ Head(batch[w]).attempts \in Nat
         /\ Head(batch[w]) = batch[w][1] /\ 1 \in DOMAIN batch[w]
  <1>1. batch[w] \in Seq(Snapshots) /\ batch[w] # <<>>
    BY DEF TypeOK
  <1> QED
    BY <1>1, BatchParts

LEMMA Shortened ==
  ASSUME TypeOK, NEW w \in Workers, pc[w] \in {"deliver", "accepted", "failed"},
         Proceed(w) \/ Abandon(w), UNCHANGED <<runAt, failure>>
  PROVE  /\ RunsTyped'
         /\ batch'[w] # batch[w]
         /\ pc'[w] \in {"idle", "deliver"}
         /\ \A i \in DOMAIN batch'[w] : i + 1 \in DOMAIN batch[w] /\ batch'[w][i] = batch[w][i + 1]
         /\ \A v \in Workers \ {w} : batch'[v] = batch[v] /\ pc'[v] = pc[v]
  <1>1. batch[w] \in Seq(Snapshots) /\ batch[w] # <<>>
    BY CurrentMessage
  <1>2. /\ batch \in [Workers -> Seq(Snapshots)] /\ pc \in [Workers -> Points]
        /\ \A v \in Workers : pc[v] \in {"deliver", "accepted", "failed"} <=> batch[v] # <<>>
    BY DEF TypeOK
  <1>3. /\ batch'[w] \in Seq(Snapshots) /\ batch'[w] # batch[w] /\ pc'[w] \in {"idle", "deliver"}
        /\ batch' = [batch EXCEPT ![w] = batch'[w]]
        /\ pc' = [pc EXCEPT ![w] = pc'[w]]
        /\ pc'[w] = "deliver" <=> batch'[w] # <<>>
        /\ \A i \in DOMAIN batch'[w] : i + 1 \in DOMAIN batch[w] /\ batch'[w][i] = batch[w][i + 1]
    <2>1. CASE Proceed(w)
      BY <1>1, <1>2, <2>1, BatchParts DEF Proceed
    <2>2. CASE Abandon(w)
      BY <1>1, <1>2, <2>2 DEF Abandon
    <2> QED
      BY <2>1, <2>2
  <1>4. /\ pc' \in [Workers -> Points] /\ batch' \in [Workers -> Seq(Snapshots)]
        /\ pc'[w] \in {"deliver", "accepted", "failed"} <=> batch'[w] # <<>>
        /\ \A v \in Workers \ {w} : batch'[v] = batch[v] /\ pc'[v] = pc[v]
    BY <1>2, <1>3 DEF Points
  <1>5. RunsTyped'
    BY <1>2, <1>4 DEF RunsTyped, TypeOK
  <1> QED
    BY <1>3, <1>4, <1>5

-----------------------------------------------------------------------------
(* Each action keeps the invariant.                                        *)

LEMMA InitIInv == Init => IInv
  <1>1. ASSUME Init PROVE TypeOK
    BY <1>1, IdentityAssumption DEF Init, TypeOK, Statuses, Points
  <1>2. ASSUME Init PROVE OwnerIsNotRefused
    BY <1>2 DEF Init, OwnerIsNotRefused
  <1> QED
    BY <1>1, <1>2 DEF Init, IInv, OncePerKey, AcceptedWasSent, DeliveredWasSent, StartedInThePast

LEMMA EnqueueIInv ==
  ASSUME IInv, NEW m \in Messages, Enqueue(m)
  PROVE  IInv'
  <1>1. TypeOK'
    BY LimitsAssumption DEF IInv, TypeOK, Enqueue, workerVars, providerVars, Statuses
  <1>2. OncePerKey' /\ AcceptedWasSent' /\ StartedInThePast' /\ OwnerIsNotRefused'
    BY DEF IInv, Enqueue, workerVars, providerVars, OncePerKey, AcceptedWasSent, StartedInThePast, OwnerIsNotRefused
  <1>3. DeliveredWasSent'
    BY DEF IInv, TypeOK, Enqueue, providerVars, DeliveredWasSent
  <1> QED
    BY <1>1, <1>2, <1>3 DEF IInv

LEMMA StartRunIInv ==
  ASSUME IInv, NEW w \in Workers, StartRun(w)
  PROVE  IInv'
  <1>1. TypeOK'
    BY DEF IInv, TypeOK, StartRun, rowVars, providerVars, Points
  <1>2. OncePerKey' /\ AcceptedWasSent' /\ StartedInThePast' /\ DeliveredWasSent'
    BY DEF IInv, TypeOK, StartRun, rowVars, providerVars, OncePerKey, AcceptedWasSent, StartedInThePast, DeliveredWasSent
  <1>3. OwnerIsNotRefused'
    <2>1. batch[w] = <<>>
      BY DEF IInv, TypeOK, StartRun
    <2>2. \A v \in Workers : \A i \in DOMAIN batch'[v] : v # w
      BY <2>1 DEF StartRun
    <2>3. /\ batch' = batch /\ leaseOwner' = leaseOwner /\ leaseExpiresAt' = leaseExpiresAt
          /\ \A v \in Workers \ {w} : runAt'[v] = runAt[v]
      BY DEF StartRun, rowVars, IInv, TypeOK
    <2> QED
      BY <2>2, <2>3 DEF IInv, OwnerIsNotRefused
  <1> QED
    BY <1>1, <1>2, <1>3 DEF IInv

LEMMA RecoverIInv ==
  ASSUME IInv, NEW w \in Workers, RecoverExpiredLeases(w)
  PROVE  IInv'
  <1>1. TypeOK'
    <2>1. RowsTyped'
      BY IdentityAssumption DEF IInv, TypeOK, RecoverExpiredLeases, RowsTyped, Statuses, Expired
    <2>2. RunsTyped'
      BY DEF IInv, TypeOK, RecoverExpiredLeases, RunsTyped, Points
    <2> QED
      BY <2>1, <2>2 DEF IInv, TypeOK, RecoverExpiredLeases, providerVars, RowsTyped, RunsTyped
  <1>2. OncePerKey' /\ AcceptedWasSent' /\ StartedInThePast' /\ DeliveredWasSent'
    BY DEF IInv, TypeOK, RecoverExpiredLeases, providerVars, OncePerKey, AcceptedWasSent, StartedInThePast, DeliveredWasSent
  <1>3. OwnerIsNotRefused'
    <2>1. ASSUME NEW v \in Workers, NEW i \in DOMAIN batch[v], leaseOwner'[batch[v][i].id] = v
          PROVE  leaseExpiresAt'[batch[v][i].id] > runAt[v]
      <3> DEFINE m == batch[v][i].id
      <3>1. m \in Messages
        BY HeldMessage DEF IInv
      <3>2. ~Expired(w, m)
        BY <2>1, <3>1, IdentityAssumption DEF RecoverExpiredLeases
      <3> QED
        BY <2>1, <3>1, <3>2 DEF RecoverExpiredLeases, IInv, OwnerIsNotRefused
    <2> QED
      BY <2>1 DEF RecoverExpiredLeases, OwnerIsNotRefused
  <1> QED
    BY <1>1, <1>2, <1>3 DEF IInv

LEMMA ClaimIInv ==
  ASSUME IInv, NEW w \in Workers, Claim(w)
  PROVE  IInv'
  <1>1. PICK S \in Claimable(w) : \E order \in ClaimOrders(S) :
          /\ status' = [m \in Messages |-> IF m \in S THEN "LEASED" ELSE status[m]]
          /\ attempts' = [m \in Messages |-> IF m \in S THEN CountAttempt(attempts[m]) ELSE attempts[m]]
          /\ leaseOwner' = [m \in Messages |-> IF m \in S THEN w ELSE leaseOwner[m]]
          /\ leaseExpiresAt' = [m \in Messages |-> IF m \in S THEN LeaseUntil(w) ELSE leaseExpiresAt[m]]
          /\ batch' = [batch EXCEPT ![w] =
                         [i \in 1..Cardinality(S) |-> [id |-> order[i], attempts |-> attempts'[order[i]]]]]
          /\ pc' = [pc EXCEPT ![w] = IF S = {} THEN "idle" ELSE "deliver"]
    BY DEF Claim
  <1>2. PICK order \in ClaimOrders(S) :
          batch' = [batch EXCEPT ![w] =
                      [i \in 1..Cardinality(S) |-> [id |-> order[i], attempts |-> attempts'[order[i]]]]]
    BY <1>1
  <1>3. /\ S \subseteq Messages
        /\ \A m \in S : status[m] = "PENDING"
        /\ Cardinality(S) \in Nat
        /\ S = {} <=> Cardinality(S) = 0
        /\ order \in [1..Cardinality(S) -> S]
    BY ClaimedRows
  <1>4. pc[w] = "claim" /\ UNCHANGED <<availableAt, runAt, failure, providerVars, crashes>>
    BY DEF Claim
  <1>5. \A m \in Messages : CountAttempt(attempts[m]) \in Nat
    BY LimitsAssumption DEF IInv, TypeOK, CountAttempt
  <1>6. LeaseUntil(w) \in Int /\ LeaseUntil(w) > runAt[w]
    BY LimitsAssumption DEF IInv, TypeOK, LeaseUntil
  <1>7. RowsTyped'
    BY <1>1, <1>3, <1>4, <1>5, <1>6, IdentityAssumption DEF IInv, TypeOK, RowsTyped, Statuses
  <1>8. /\ batch'[w] \in Seq(Snapshots)
        /\ batch'[w] = <<>> <=> S = {}
        /\ \A i \in DOMAIN batch'[w] : batch'[w][i].id \in S
        /\ \A v \in Workers \ {w} : batch'[v] = batch[v] /\ pc'[v] = pc[v]
    <2>1. /\ w \in DOMAIN batch /\ w \in DOMAIN pc
          /\ batch'[w] = [i \in 1..Cardinality(S) |-> [id |-> order[i], attempts |-> attempts'[order[i]]]]
          /\ \A v \in Workers \ {w} : batch'[v] = batch[v] /\ pc'[v] = pc[v]
      BY <1>1, <1>2 DEF IInv, TypeOK
    <2>2. \A i \in 1..Cardinality(S) : [id |-> order[i], attempts |-> attempts'[order[i]]] \in Snapshots
      BY <1>3, <1>7 DEF Snapshots, RowsTyped
    <2>3. batch'[w] \in Seq(Snapshots) /\ Len(batch'[w]) = Cardinality(S) /\ DOMAIN batch'[w] = 1..Cardinality(S)
      BY <1>3, <2>1, <2>2
    <2>4. \A i \in DOMAIN batch'[w] : batch'[w][i].id \in S
      BY <1>3, <2>1, <2>3
    <2> QED
      BY <1>3, <2>1, <2>3, <2>4
  <1>9. RunsTyped'
    <2>1. batch' \in [Workers -> Seq(Snapshots)] /\ pc' \in [Workers -> Points]
      BY <1>1, <1>2, <1>8 DEF IInv, TypeOK, Points
    <2>2. pc'[w] \in {"deliver", "accepted", "failed"} <=> batch'[w] # <<>>
      BY <1>1, <1>8 DEF IInv, TypeOK
    <2> QED
      BY <1>4, <1>8, <2>1, <2>2 DEF IInv, TypeOK, RunsTyped
  <1>10. TypeOK'
    BY <1>4, <1>7, <1>9 DEF IInv, TypeOK, RowsTyped, RunsTyped, providerVars
  <1>11. OncePerKey' /\ StartedInThePast'
    BY <1>4 DEF IInv, OncePerKey, StartedInThePast, providerVars
  <1>12. DeliveredWasSent'
    BY <1>1, <1>3, <1>4 DEF IInv, TypeOK, DeliveredWasSent, providerVars
  <1>13. AcceptedWasSent'
    <2>1. pc'[w] # "accepted"
      BY <1>1 DEF IInv, TypeOK
    <2> QED
      BY <1>4, <1>8, <2>1 DEF IInv, AcceptedWasSent, providerVars
  <1>14. OwnerIsNotRefused'
    <2>1. ASSUME NEW i \in DOMAIN batch'[w]
          PROVE  leaseExpiresAt'[batch'[w][i].id] > runAt'[w]
      BY <1>1, <1>3, <1>4, <1>6, <1>8
    <2>2. ASSUME NEW v \in Workers \ {w}, NEW i \in DOMAIN batch'[v], leaseOwner'[batch'[v][i].id] = v
          PROVE  leaseExpiresAt'[batch'[v][i].id] > runAt'[v]
      <3>1. batch'[v] = batch[v] /\ batch[v][i].id \in Messages
        BY <1>8, HeldMessage DEF IInv
      <3>2. batch[v][i].id \notin S
        BY <1>1, <2>2, <3>1
      <3> QED
        BY <1>1, <1>4, <2>2, <3>1, <3>2 DEF IInv, OwnerIsNotRefused
    <2> QED
      BY <2>1, <2>2 DEF OwnerIsNotRefused
  <1> QED
    BY <1>10, <1>11, <1>12, <1>13, <1>14 DEF IInv

LEMMA DeliverIInv ==
  ASSUME IInv, NEW w \in Workers, Deliver(w)
  PROVE  IInv'
  <1> DEFINE m == Head(batch[w])
  <1>1. /\ batch[w] \in Seq(Snapshots) /\ batch[w] # <<>>
        /\ m.id \in Messages
    BY CurrentMessage DEF IInv, Deliver
  <1>2. PICK outcome \in Outcomes(m.id) :
          /\ IF Executed(outcome) /\ ProviderKey(m) \notin seenKeys
               THEN /\ seenKeys' = seenKeys \union {ProviderKey(m)}
                    /\ effects' = [effects EXCEPT ![m.id] = @ + 1]
               ELSE UNCHANGED providerVars
          /\ IF Succeeded(outcome)
               THEN pc' = [pc EXCEPT ![w] = "accepted"] /\ UNCHANGED failure
               ELSE /\ pc' = [pc EXCEPT ![w] = "failed"]
                    /\ failure' = [failure EXCEPT ![w] = outcome \notin {"invalid", "rejected"}]
    BY DEF Deliver
  <1>3. pc[w] = "deliver" /\ UNCHANGED <<rowVars, runAt, batch, crashes>>
    BY DEF Deliver
  <1>4. /\ effects \in [Messages -> Nat]
        /\ \A n \in Messages : effects[n] = IF [dedupeKey |-> n] \in seenKeys THEN 1 ELSE 0
    BY DEF IInv, TypeOK, OncePerKey
  <1> HIDE DEF m
  <1>5. /\ OncePerKey'
        /\ effects' \in [Messages -> Nat]
        /\ \A k \in seenKeys' : k.dedupeKey \in Messages
        /\ \A n \in Messages : effects'[n] >= effects[n]
        /\ Executed(outcome) => effects'[m.id] > 0
    <2>1. CASE Executed(outcome) /\ ProviderKey(m) \notin seenKeys
      <3>1. seenKeys' = seenKeys \union {[dedupeKey |-> m.id]} /\ effects' = [effects EXCEPT ![m.id] = @ + 1]
        BY <1>2, <2>1 DEF ProviderKey
      <3>2. effects[m.id] = 0
        BY <1>1, <1>4, <2>1 DEF ProviderKey
      <3>3. effects'[m.id] = 1 /\ [dedupeKey |-> m.id] \in seenKeys'
        BY <1>1, <1>4, <3>1, <3>2
      <3>4. ASSUME NEW n \in Messages, n # m.id
            PROVE  effects'[n] = effects[n] /\ ([dedupeKey |-> n] \in seenKeys' <=> [dedupeKey |-> n] \in seenKeys)
        <4>1. [dedupeKey |-> n] # [dedupeKey |-> m.id]
          BY <3>4
        <4> QED
          BY <1>4, <3>1, <3>4, <4>1
      <3>5. OncePerKey'
        BY <1>4, <3>3, <3>4 DEF OncePerKey
      <3>6. effects' \in [Messages -> Nat] /\ \A n \in Messages : effects'[n] >= effects[n]
        BY <1>1, <1>4, <3>1
      <3>7. \A k \in seenKeys' : k.dedupeKey \in Messages
        BY <1>1, <3>1 DEF IInv, TypeOK
      <3> QED
        BY <3>3, <3>5, <3>6, <3>7
    <2>2. CASE ~(Executed(outcome) /\ ProviderKey(m) \notin seenKeys)
      <3>1. seenKeys' = seenKeys /\ effects' = effects
        BY <1>2, <2>2 DEF providerVars
      <3>2. Executed(outcome) => effects[m.id] = 1
        BY <1>1, <1>4, <2>2 DEF ProviderKey
      <3> QED
        BY <1>4, <3>1, <3>2 DEF IInv, TypeOK, OncePerKey
    <2> QED
      BY <2>1, <2>2
  <1>6. /\ pc' \in [Workers -> Points]
        /\ failure' \in [Workers -> BOOLEAN]
        /\ pc'[w] \in {"accepted", "failed"}
        /\ pc'[w] = "accepted" => Executed(outcome)
        /\ \A v \in Workers \ {w} : pc'[v] = pc[v]
    BY <1>2 DEF IInv, TypeOK, Points, Succeeded, Executed
  <1>7. TypeOK'
    <2>1. \A v \in Workers : pc'[v] \in {"deliver", "accepted", "failed"} <=> batch[v] # <<>>
      BY <1>1, <1>6 DEF IInv, TypeOK
    <2> QED
      BY <1>3, <1>5, <1>6, <2>1 DEF IInv, TypeOK, rowVars
  <1>8. AcceptedWasSent'
    <2>1. ASSUME NEW v \in Workers, pc'[v] = "accepted"
          PROVE  effects'[Head(batch[v]).id] > 0
      <3>1. CASE v = w
        BY <1>5, <1>6, <2>1, <3>1 DEF m
      <3>2. CASE v # w
        <4>1. pc[v] = "accepted"
          BY <1>6, <2>1, <3>2
        <4>2. Head(batch[v]).id \in Messages /\ effects[Head(batch[v]).id] > 0
          BY <4>1, CurrentMessage DEF IInv, AcceptedWasSent
        <4> QED
          BY <1>4, <1>5, <4>2
      <3> QED
        BY <3>1, <3>2
    <2> QED
      BY <1>3, <2>1 DEF AcceptedWasSent
  <1>9. DeliveredWasSent'
    <2>1. ASSUME NEW n \in Messages, status[n] = "DELIVERED" PROVE effects'[n] > 0
      BY <1>4, <1>5, <2>1 DEF IInv, DeliveredWasSent
    <2> QED
      BY <1>3, <2>1 DEF DeliveredWasSent, rowVars
  <1>10. StartedInThePast' /\ OwnerIsNotRefused'
    BY <1>3 DEF IInv, StartedInThePast, OwnerIsNotRefused, rowVars
  <1> QED
    BY <1>5, <1>7, <1>8, <1>9, <1>10 DEF IInv

(* The end of a message's processing: the row is settled or postponed by   *)
(* the owner of its lease, and the run goes on, or nothing changes and the *)
(* run is over.                                                            *)
Settles(w, m, next, due) ==
  /\ LeasedMessage(w, m)
  /\ status' = [status EXCEPT ![m] = next]
  /\ availableAt' = [availableAt EXCEPT ![m] = due]
  /\ ReleaseLease(m)
  /\ Proceed(w)
  /\ UNCHANGED attempts

LEMMA SettlingIInv ==
  ASSUME IInv, NEW w \in Workers, NEW m \in Messages, NEW next \in {"PENDING", "DELIVERED", "DEAD_LETTER"}, NEW due \in Int,
         pc[w] \in {"accepted", "failed"}, next = "DELIVERED" => effects[m] > 0,
         \/ Settles(w, m, next, due)
         \/ Abandon(w) /\ UNCHANGED rowVars,
         UNCHANGED <<runAt, failure, providerVars, crashes>>
  PROVE  IInv'
  <1>1. TypeOK
    BY DEF IInv
  <1>2. /\ RunsTyped'
        /\ pc'[w] \in {"idle", "deliver"}
        /\ \A i \in DOMAIN batch'[w] : i + 1 \in DOMAIN batch[w] /\ batch'[w][i] = batch[w][i + 1]
        /\ \A v \in Workers \ {w} : batch'[v] = batch[v] /\ pc'[v] = pc[v]
    BY <1>1, Shortened DEF Settles
  <1>3. RowsTyped'
    <2>1. CASE Settles(w, m, next, due)
      <3>1. /\ status' = [status EXCEPT ![m] = next]
            /\ availableAt' = [availableAt EXCEPT ![m] = due]
            /\ leaseOwner' = [leaseOwner EXCEPT ![m] = NoWorker]
            /\ leaseExpiresAt' = [leaseExpiresAt EXCEPT ![m] = 0]
            /\ attempts' = attempts
        BY <2>1 DEF Settles, ReleaseLease
      <3>2. /\ status' \in [Messages -> Statuses]
            /\ \A n \in Messages : status'[n] = "LEASED" <=> leaseOwner'[n] # NoWorker
        BY <1>1, <3>1 DEF TypeOK, Statuses
      <3>3. /\ availableAt' \in [Messages -> Int]
            /\ leaseOwner' \in [Messages -> Workers \union {NoWorker}]
            /\ leaseExpiresAt' \in [Messages -> Int]
            /\ attempts' \in [Messages -> Nat]
        BY <1>1, <3>1 DEF TypeOK
      <3> QED
        BY <3>2, <3>3 DEF RowsTyped
    <2>2. CASE UNCHANGED rowVars
      BY <1>1, <2>2 DEF TypeOK, RowsTyped, rowVars
    <2> QED
      BY <2>1, <2>2
  <1>4. TypeOK'
    BY <1>1, <1>2, <1>3 DEF TypeOK, RowsTyped, RunsTyped, providerVars
  <1>5. OncePerKey' /\ StartedInThePast'
    BY DEF IInv, OncePerKey, StartedInThePast, providerVars
  <1>6. AcceptedWasSent'
    BY <1>2 DEF IInv, AcceptedWasSent, providerVars
  <1>7. DeliveredWasSent'
    BY <1>1 DEF IInv, DeliveredWasSent, providerVars, rowVars, Settles, TypeOK
  <1>8. \A n \in Messages : leaseOwner'[n] = NoWorker \/ (leaseOwner'[n] = leaseOwner[n] /\ leaseExpiresAt'[n] = leaseExpiresAt[n])
    <2>1. CASE Settles(w, m, next, due)
      BY <1>1, <2>1 DEF TypeOK, Settles, ReleaseLease
    <2>2. CASE UNCHANGED rowVars
      BY <2>2 DEF rowVars
    <2> QED
      BY <2>1, <2>2
  <1>9. OwnerIsNotRefused'
    <2>1. ASSUME NEW v \in Workers, NEW i \in DOMAIN batch'[v]
          PROVE  \E j \in DOMAIN batch[v] : batch'[v][i] = batch[v][j]
      BY <1>2
    <2>2. ASSUME NEW v \in Workers, NEW i \in DOMAIN batch'[v], leaseOwner'[batch'[v][i].id] = v
          PROVE  leaseExpiresAt'[batch'[v][i].id] > runAt'[v]
      <3>1. PICK j \in DOMAIN batch[v] : batch'[v][i] = batch[v][j]
        BY <2>1
      <3>2. batch[v][j].id \in Messages
        BY <1>1, HeldMessage
      <3> QED
        BY <1>8, <2>2, <3>1, <3>2, IdentityAssumption DEF IInv, OwnerIsNotRefused
    <2> QED
      BY <2>2 DEF OwnerIsNotRefused
  <1> QED
    BY <1>4, <1>5, <1>6, <1>7, <1>9 DEF IInv

LEMMA AcknowledgeSettles ==
  ASSUME TypeOK, NEW w \in Workers, Acknowledge(w)
  PROVE  \E m \in Messages, due \in Int :
           /\ pc[w] = "accepted"
           /\ m = Head(batch[w]).id
           /\ Settles(w, m, "DELIVERED", due) \/ (Abandon(w) /\ UNCHANGED rowVars)
           /\ UNCHANGED <<runAt, failure, providerVars, crashes>>
  <1> DEFINE m == Head(batch[w]).id
  <1>1. m \in Messages
    BY CurrentMessage DEF Acknowledge
  <1>2. availableAt[m] \in Int /\ availableAt = [availableAt EXCEPT ![m] = availableAt[m]]
    BY <1>1 DEF TypeOK
  <1>3. /\ pc[w] = "accepted"
        /\ Settles(w, m, "DELIVERED", availableAt[m]) \/ (Abandon(w) /\ UNCHANGED rowVars)
        /\ UNCHANGED <<runAt, failure, providerVars, crashes>>
    BY <1>2 DEF Acknowledge, Settles
  <1> HIDE DEF m
  <1> QED
    BY <1>1, <1>2, <1>3 DEF m

LEMMA RetrySettles ==
  ASSUME TypeOK, NEW w \in Workers, Retry(w)
  PROVE  \E m \in Messages, due \in Int, next \in {"PENDING", "DEAD_LETTER"} :
           /\ pc[w] = "failed"
           /\ Settles(w, m, next, due) \/ (Abandon(w) /\ UNCHANGED rowVars)
           /\ UNCHANGED <<runAt, failure, providerVars, crashes>>
  <1> DEFINE m == Head(batch[w]).id
             late == runAt[w] + RetryDelay(attempts[m])
  <1>1. m \in Messages
    BY CurrentMessage DEF Retry
  <1>2. availableAt[m] \in Int /\ availableAt = [availableAt EXCEPT ![m] = availableAt[m]]
    BY <1>1 DEF TypeOK
  <1>3. late \in Int
    <2>1. RetryDelay(attempts[m]) \in Nat /\ runAt[w] \in Int
      BY <1>1, RetryDelayType DEF TypeOK
    <2> QED
      BY <2>1
  <1>4. /\ pc[w] = "failed"
        /\ UNCHANGED <<runAt, failure, providerVars, crashes>>
        /\ \/ Settles(w, m, "DEAD_LETTER", availableAt[m])
           \/ Settles(w, m, "PENDING", late)
           \/ Abandon(w) /\ UNCHANGED rowVars
    BY <1>2 DEF Retry, Settles
  <1> HIDE DEF m, late
  <1>5. CASE Settles(w, m, "DEAD_LETTER", availableAt[m])
    BY <1>1, <1>2, <1>4, <1>5
  <1>6. CASE Settles(w, m, "PENDING", late)
    BY <1>1, <1>3, <1>4, <1>6
  <1>7. CASE Abandon(w) /\ UNCHANGED rowVars
    BY <1>1, <1>2, <1>4, <1>7
  <1> QED
    BY <1>4, <1>5, <1>6, <1>7

LEMMA CrashIInv ==
  ASSUME IInv, NEW w \in Workers, Crash(w)
  PROVE  IInv'
  <1>1. TypeOK /\ batch' = [batch EXCEPT ![w] = <<>>] /\ pc' = [pc EXCEPT ![w] = "idle"]
    BY DEF IInv, Crash, Abandon
  <1>2. crashes' = crashes + 1 /\ UNCHANGED <<rowVars, runAt, failure, providerVars>>
    BY DEF Crash
  <1>3. TypeOK'
    BY <1>1, <1>2 DEF TypeOK, rowVars, providerVars, Points
  <1>4. OncePerKey' /\ DeliveredWasSent' /\ StartedInThePast' /\ AcceptedWasSent'
    BY <1>1, <1>2 DEF IInv, TypeOK, OncePerKey, DeliveredWasSent, StartedInThePast, AcceptedWasSent, rowVars, providerVars
  <1>5. OwnerIsNotRefused'
    <2>1. \A v \in Workers : \A i \in DOMAIN batch'[v] : batch'[v] = batch[v]
      BY <1>1 DEF TypeOK
    <2> QED
      BY <1>2, <2>1 DEF IInv, OwnerIsNotRefused, rowVars
  <1> QED
    BY <1>3, <1>4, <1>5 DEF IInv

LEMMA TickIInv ==
  ASSUME IInv, Tick
  PROVE  IInv'
  <1>1. /\ \A w \in Workers : pc[w] # "idle" => runAt[w] > -MaxRun
        /\ availableAt' = [m \in Messages |-> IF status[m] = "PENDING" THEN Elapse(availableAt[m]) ELSE availableAt[m]]
        /\ leaseExpiresAt' = [m \in Messages |-> IF status[m] = "LEASED" THEN Elapse(leaseExpiresAt[m]) ELSE leaseExpiresAt[m]]
        /\ runAt' = [w \in Workers |-> IF pc[w] = "idle" THEN runAt[w] ELSE Elapse(runAt[w])]
        /\ UNCHANGED <<status, attempts, leaseOwner, pc, batch, failure, providerVars, crashes>>
    BY DEF Tick
  <1>2. \A t \in Int : Elapse(t) \in Int /\ Elapse(t) <= t /\ Elapse(t) >= t - 1 /\ (t > -MaxRun => Elapse(t) = t - 1)
    BY LimitsAssumption DEF Elapse
  <1>3. TypeOK'
    BY <1>1, <1>2 DEF IInv, TypeOK, providerVars
  <1>4. OncePerKey' /\ DeliveredWasSent' /\ AcceptedWasSent'
    BY <1>1 DEF IInv, OncePerKey, DeliveredWasSent, AcceptedWasSent, providerVars
  <1>5. StartedInThePast'
    BY <1>1, <1>2 DEF IInv, TypeOK, StartedInThePast
  <1>6. OwnerIsNotRefused'
    <2>1. ASSUME NEW v \in Workers, NEW i \in DOMAIN batch[v], leaseOwner[batch[v][i].id] = v
          PROVE  leaseExpiresAt'[batch[v][i].id] > runAt'[v]
      <3> DEFINE m == batch[v][i].id
      <3>1. m \in Messages
        BY HeldMessage DEF IInv
      <3>2. pc[v] # "idle"
        <4>1. batch[v] # <<>>
          OBVIOUS
        <4> QED
          BY <4>1 DEF IInv, TypeOK
      <3>3. leaseExpiresAt[m] > runAt[v]
        BY <2>1 DEF IInv, OwnerIsNotRefused
      <3>4. leaseExpiresAt[m] \in Int /\ runAt[v] \in Int
        BY <3>1 DEF IInv, TypeOK
      <3> HIDE DEF m
      <3>5. leaseExpiresAt'[m] \in Int /\ leaseExpiresAt'[m] >= leaseExpiresAt[m] - 1
        BY <1>1, <1>2, <3>1, <3>4
      <3>6. runAt'[v] = runAt[v] - 1
        BY <1>1, <1>2, <3>2, <3>4
      <3>7. leaseExpiresAt'[m] > runAt'[v]
        BY <3>3, <3>4, <3>5, <3>6
      <3> QED
        BY <3>7 DEF m
    <2> QED
      BY <1>1, <2>1 DEF OwnerIsNotRefused
  <1> QED
    BY <1>3, <1>4, <1>5, <1>6 DEF IInv

-----------------------------------------------------------------------------
LEMMA NextIInv ==
  ASSUME IInv, [Next]_vars
  PROVE  IInv'
  <1>1. ASSUME NEW m \in Messages, Enqueue(m) PROVE IInv'
    BY <1>1, EnqueueIInv
  <1>2. ASSUME NEW w \in Workers, StartRun(w) \/ Step(w) \/ Crash(w) PROVE IInv'
    <2>1. CASE Acknowledge(w)
      <3>1. PICK m \in Messages, due \in Int :
              /\ pc[w] = "accepted"
              /\ m = Head(batch[w]).id
              /\ Settles(w, m, "DELIVERED", due) \/ (Abandon(w) /\ UNCHANGED rowVars)
              /\ UNCHANGED <<runAt, failure, providerVars, crashes>>
        BY <2>1, AcknowledgeSettles DEF IInv
      <3>2. effects[m] > 0
        BY <3>1 DEF IInv, AcceptedWasSent
      <3> QED
        BY <3>1, <3>2, SettlingIInv
    <2>2. CASE Retry(w)
      <3>1. PICK m \in Messages, due \in Int, next \in {"PENDING", "DEAD_LETTER"} :
              /\ pc[w] = "failed"
              /\ Settles(w, m, next, due) \/ (Abandon(w) /\ UNCHANGED rowVars)
              /\ UNCHANGED <<runAt, failure, providerVars, crashes>>
        BY <2>2, RetrySettles DEF IInv
      <3>2. next # "DELIVERED"
        OBVIOUS
      <3> QED
        BY <3>1, <3>2, SettlingIInv
    <2> QED
      BY <1>2, <2>1, <2>2, StartRunIInv, RecoverIInv, ClaimIInv, DeliverIInv, CrashIInv DEF Step
  <1>3. CASE Tick
    BY <1>3, TickIInv
  <1>4. CASE UNCHANGED vars
    BY <1>4 DEF IInv, TypeOK, OncePerKey, AcceptedWasSent, DeliveredWasSent, StartedInThePast, OwnerIsNotRefused,
                vars, rowVars, workerVars, providerVars
  <1> QED
    BY <1>1, <1>2, <1>3, <1>4 DEF Next

(* The inductive invariant of rows, runs and provider.                     *)
THEOREM DeliveryInvariant == Spec => []IInv
  BY InitIInv, NextIInv, PTL DEF Spec

(* runOnce, acknowledge and the provider's idempotency key: what is        *)
(* DELIVERED was sent, and the provider acted on it once, however leases,  *)
(* answers and processes are lost.                                         *)
THEOREM DeliveredIsSentOnce == Spec => []DeliveredOnce
  <1>1. IInv => DeliveredOnce
    <2>1. ASSUME IInv, NEW m \in Messages PROVE effects[m] <= 1
      <3>1. effects[m] = 0 \/ effects[m] = 1
        BY <2>1 DEF IInv, OncePerKey
      <3> QED
        BY <3>1
    <2> QED
      BY <2>1 DEF IInv, DeliveredOnce, AtMostOneEffect
  <1> QED
    BY <1>1, DeliveryInvariant, PTL

-----------------------------------------------------------------------------
(* What a step may do to a lease and to a settled row.                     *)

LEMMA EndOfMessage ==
  ASSUME TypeOK, NEW v \in Workers, Acknowledge(v) \/ Retry(v)
  PROVE  \/ leaseOwner' = leaseOwner /\ status' = status
         \/ \E m \in Messages :
              /\ status[m] = "LEASED" /\ leaseOwner[m] = v
              /\ \A n \in Messages \ {m} : leaseOwner'[n] = leaseOwner[n] /\ status'[n] = status[n]
              /\ batch'[v] # batch[v]
  <1>1. pc[v] \in {"deliver", "accepted", "failed"}
    BY DEF Acknowledge, Retry
  <1>2. PICK m \in Messages, due \in Int, next \in {"PENDING", "DELIVERED", "DEAD_LETTER"} :
          /\ Settles(v, m, next, due) \/ (Abandon(v) /\ UNCHANGED rowVars)
          /\ UNCHANGED <<runAt, failure, providerVars, crashes>>
    BY AcknowledgeSettles, RetrySettles
  <1>3. CASE Settles(v, m, next, due)
    <2>1. batch'[v] # batch[v]
      BY <1>1, <1>2, <1>3, Shortened DEF Settles
    <2>2. status[m] = "LEASED" /\ leaseOwner[m] = v
      BY <1>3 DEF Settles, LeasedMessage
    <2>3. \A n \in Messages \ {m} : leaseOwner'[n] = leaseOwner[n] /\ status'[n] = status[n]
      BY <1>3 DEF Settles, ReleaseLease, TypeOK
    <2> QED
      BY <2>1, <2>2, <2>3
  <1> QED
    BY <1>2, <1>3 DEF rowVars

LEMMA StepRespectsLeases ==
  ASSUME IInv, [Next]_vars, NEW m \in Messages
  PROVE  /\ \A w \in Workers :
              leaseOwner[m] = w /\ leaseExpiresAt[m] > 0 /\ leaseOwner'[m] # w => batch'[w] # batch[w]
         /\ status[m] \in Terminal => status'[m] = status[m]
  <1> DEFINE Respected ==
        /\ \A w \in Workers :
             leaseOwner[m] = w /\ leaseExpiresAt[m] > 0 /\ leaseOwner'[m] # w => batch'[w] # batch[w]
        /\ status[m] \in Terminal => status'[m] = status[m]
  <1>1. ASSUME UNCHANGED leaseOwner, UNCHANGED status PROVE Respected
    BY <1>1
  <1>2. ASSUME NEW n \in Messages, Enqueue(n) PROVE Respected
    BY <1>2 DEF Enqueue, IInv, TypeOK, Terminal
  <1>3. ASSUME NEW v \in Workers, RecoverExpiredLeases(v) PROVE Respected
    <2>1. runAt[v] <= 0 /\ runAt[v] \in Int /\ leaseExpiresAt[m] \in Int
      BY DEF IInv, TypeOK, StartedInThePast
    <2>2. leaseExpiresAt[m] > 0 => ~Expired(v, m)
      BY <2>1 DEF Expired
    <2>3. status[m] \in Terminal => ~Expired(v, m)
      BY DEF Expired, Terminal
    <2>4. ~Expired(v, m) => leaseOwner'[m] = leaseOwner[m] /\ status'[m] = status[m]
      BY <1>3 DEF RecoverExpiredLeases
    <2> QED
      BY <2>2, <2>3, <2>4
  <1>4. ASSUME NEW v \in Workers, Claim(v) PROVE Respected
    <2>1. PICK S \in Claimable(v) : \E order \in ClaimOrders(S) :
            /\ status' = [n \in Messages |-> IF n \in S THEN "LEASED" ELSE status[n]]
            /\ leaseOwner' = [n \in Messages |-> IF n \in S THEN v ELSE leaseOwner[n]]
      BY <1>4 DEF Claim
    <2>2. \A n \in S : status[n] = "PENDING"
      BY DEF Claimable, Eligible
    <2>3. m \in S => leaseOwner[m] = NoWorker /\ status[m] \notin Terminal
      BY <2>2 DEF IInv, TypeOK, Terminal
    <2> QED
      BY <2>1, <2>3, IdentityAssumption
  <1>5. ASSUME NEW v \in Workers, Acknowledge(v) \/ Retry(v) PROVE Respected
    BY <1>1, <1>5, EndOfMessage DEF IInv, Terminal
  <1>6. ASSUME NEW v \in Workers, StartRun(v) \/ Deliver(v) \/ Crash(v) PROVE Respected
    BY <1>1, <1>6 DEF StartRun, Deliver, Crash, rowVars
  <1>7. CASE Tick
    BY <1>1, <1>7 DEF Tick
  <1>8. CASE UNCHANGED vars
    BY <1>1, <1>8 DEF vars, rowVars
  <1>9. ASSUME NEW v \in Workers, StartRun(v) \/ Step(v) \/ Crash(v) PROVE Respected
    BY <1>3, <1>4, <1>5, <1>6, <1>9 DEF Step
  <1> QED
    BY <1>2, <1>7, <1>8, <1>9 DEF Next

(* LeasedMessage, recoverExpiredLeases and claim: while a lease lasts      *)
(* nobody else can settle the row, its owner is not refused, only a step   *)
(* of the owner ends it, and a settled row stays settled.                  *)
THEOREM LeasesAreSafe == Spec => LeasesProtect
  <1>1. IInv => AtMostOneMutator /\ OwnerIsNotRefused
    BY DEF IInv, AtMostOneMutator, LeasedMessage
  <1>2. IInv /\ [Next]_vars =>
          [\A m \in Messages : \A w \in Workers :
             leaseOwner[m] = w /\ leaseExpiresAt[m] > 0 /\ leaseOwner'[m] # w => batch'[w] # batch[w]]_vars
    BY StepRespectsLeases
  <1>3. IInv /\ [Next]_vars => [\A m \in Messages : status[m] \in Terminal => status'[m] = status[m]]_vars
    BY StepRespectsLeases
  <1>4. Spec => [](AtMostOneMutator /\ OwnerIsNotRefused)
    BY <1>1, DeliveryInvariant, PTL
  <1>5. Spec => LeaseIsRespected
    BY <1>2, DeliveryInvariant, PTL DEF Spec, LeaseIsRespected
  <1>6. Spec => TerminalIsFinal
    BY <1>3, DeliveryInvariant, PTL DEF Spec, TerminalIsFinal
  <1> QED
    BY <1>4, <1>5, <1>6 DEF LeasesProtect

=============================================================================
