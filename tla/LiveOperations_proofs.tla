----------------------- MODULE LiveOperations_proofs ------------------------
(***************************************************************************)
(* Theorems about LiveOperations, for any published definition, any log    *)
(* the commands can write and any corrections in it.                       *)
(*                                                                         *)
(* The state is a fold of the whole log, so what a correction does to what *)
(* came after its target is a statement about every prefix of the log.     *)
(* SetInduction gives the induction over prefixes: a set of naturals that  *)
(* holds 0 and each successor of its members is Nat, by LeastElement.      *)
(* With it:                                                                *)
(*   - the projection exists, is unique, has the type of the state and     *)
(*     follows the log fact by fact (Replay..., EffectFollows);            *)
(*   - a value that only some facts set is what the latest of them says    *)
(*     (LatestCounts), which is LatestStandingFactHolds and, for protests  *)
(*     and appeals, half of DisputesAreShown;                              *)
(*   - two projections of which one leaves out one event differ only in    *)
(*     what that event is about (TakenOutIsLocal), which is EventsAreLocal.*)
(*                                                                         *)
(* The inductive invariant: the state is the projection of a well-formed   *)
(* log (LogInv), and no protest or appeal is filed twice by events that    *)
(* stand (FiledOnce), which corrections could break if they freed a name   *)
(* whose filing still stands.                                              *)
(***************************************************************************)
EXTENDS LiveOperations, FiniteSetTheorems, TLAPS

(* An entry of the log.                                                    *)
Event ==
  [kind : {"PRESENCE"}, entrant : Entrants, status : Presence] \union
  [kind : {"WALKOVER"}, contest : Contests, winner : Entrants] \union
  [kind : {"CALLED", "RECEIVED"}, contest : Contests] \union
  [kind : {"STARTED"}, contest : Contests, court : Courts, start : Times] \union
  [kind : {"SCORED"}, contest : Contests, score : Scores] \union
  [kind : {"COMPLETED"}, contest : Contests, end : Times] \union
  [kind : {"ENTRANTS"}, contest : Contests, entrants : SUBSET Entrants] \union
  [kind : {"RETIRED"}, contest : Contests, winner : Entrants, end : Times] \union
  [kind : {"PROTEST"}, protest : Protests, contest : Contests] \union
  [kind : {"RULING"}, protest : Protests, outcome : Outcomes] \union
  [kind : {"APPEAL"}, appeal : Appeals, protest : Protests] \union
  [kind : {"APPEAL_RULING"}, appeal : Appeals, outcome : Outcomes] \union
  [kind : {"RESOURCE"}, resource : Resources, yes : BOOLEAN, until : Times \union {NoTime}] \union
  [kind : {"TIE"}, order : Ties] \union
  [kind : {"CORRECTED"}, target : Nat, replacement : Replacements]

(* The projected state, hashable or not.                                   *)
State ==
  [presence : [Entrants -> Presence \union {"NONE"}],
   contests : [Contests -> Contest],
   resolved : [Contests -> SUBSET Entrants],
   available : [Resources -> [yes : BOOLEAN, until : Times \union {NoTime}]],
   protests : [Protests -> [status : {"NONE", "PENDING"} \union Outcomes, contest : Contests \union {NoContest}]],
   appeals : [Appeals -> [status : {"NONE", "PENDING"} \union Outcomes, protest : Protests \union {"NONE"}]]]

(* What an event says: a correction, what it puts in the other's place.    *)
FactOf(e) == IF e.kind = "CORRECTED" THEN e.replacement ELSE e

-----------------------------------------------------------------------------
(* Induction over the natural numbers, for a set of them.                  *)
LEMMA LeastElement ==
  ASSUME NEW B \in SUBSET Nat, B # {}
  PROVE  \E n \in B : \A m \in B : n <= m
  <1> DEFINE Below(n) == 0..(n - 1)
             T == {Below(n) : n \in B}
             R == StrictSubsetOrdering(Nat)
  <1>1. IsWellFoundedOn(R, FiniteSubsetsOf(Nat))
    BY FS_StrictSubsetOrderingWellFounded
  <1>2. T \subseteq FiniteSubsetsOf(Nat)
    <2> SUFFICES ASSUME NEW n \in B PROVE Below(n) \in FiniteSubsetsOf(Nat)
      OBVIOUS
    <2>1. IsFiniteSet(Below(n))
      BY FS_Interval
    <2>2. Below(n) \subseteq Nat
      OBVIOUS
    <2> QED
      BY <2>1, <2>2 DEF FiniteSubsetsOf
  <1>3. PICK x \in T : \A y \in T : ~ (<<y, x>> \in R)
    <2> HIDE DEF T, R
    <2>1. T # {} BY DEF T
    <2> QED BY <1>1, <1>2, <2>1, WFMin
  <1>4. PICK n \in B : x = Below(n)
    OBVIOUS
  <1>5. ASSUME NEW m \in B, m < n PROVE FALSE
    <2>1. Below(m) \subseteq Below(n) /\ Below(m) # Below(n) /\ Below(m) \subseteq Nat /\ Below(n) \subseteq Nat
      <3>1. m \in Below(n) /\ m \notin Below(m)
        BY <1>5
      <3>2. Below(m) \subseteq Below(n) /\ Below(m) \subseteq Nat /\ Below(n) \subseteq Nat
        BY <1>5
      <3> QED BY <3>1, <3>2
    <2>2. <<Below(m), Below(n)>> \in R
      BY <2>1 DEF StrictSubsetOrdering
    <2> QED BY <1>3, <1>4, <2>2
  <1> QED BY <1>5

LEMMA SetInduction ==
  ASSUME NEW S \in SUBSET Nat, 0 \in S, \A n \in S : n + 1 \in S
  PROVE  S = Nat
  <1> SUFFICES ASSUME Nat \ S # {} PROVE FALSE
    OBVIOUS
  <1>1. PICK n \in Nat \ S : \A m \in Nat \ S : n <= m
    BY LeastElement
  <1>2. n - 1 \in S
    BY <1>1
  <1> QED BY <1>1, <1>2

-----------------------------------------------------------------------------
(* The projection.                                                         *)

(* What Project computes: f is the projection of the first n events, those *)
(* at the positions in `out` left out.                                     *)
At(events, out, f, i) ==
  IF i = 0 THEN Initial ELSE IF i \in out THEN f[i - 1] ELSE Effect(f[i - 1], events[i])

IsReplay(f, events, out, n) == f = [i \in 0..n |-> At(events, out, f, i)]

(* There is one projection of the first n events,                          *)
LEMMA ReplayIsUnique ==
  ASSUME NEW events, NEW out, NEW n \in Nat,
         NEW f, IsReplay(f, events, out, n), NEW g, IsReplay(g, events, out, n)
  PROVE  f = g
  <1> DEFINE S == {i \in Nat : i <= n => f[i] = g[i]}
  <1>1. /\ f = [i \in 0..n |-> At(events, out, f, i)]
        /\ g = [i \in 0..n |-> At(events, out, g, i)]
    BY DEF IsReplay
  <1>2. 0 \in S
    BY <1>1 DEF At
  <1>3. ASSUME NEW i \in S PROVE i + 1 \in S
    <2>1. CASE i + 1 <= n
      <3>1. i \in Nat /\ i + 1 \in 0..n /\ (i + 1) - 1 = i /\ i + 1 # 0 /\ f[i] = g[i]
        BY <1>3, <2>1
      <3>2. At(events, out, f, i + 1) = At(events, out, g, i + 1)
        BY <3>1 DEF At
      <3>3. f[i + 1] = g[i + 1]
        BY <1>1, <3>1, <3>2
      <3> QED
        BY <3>1, <3>3
    <2> QED
      BY <1>3, <2>1
  <1> HIDE DEF S
  <1>4. S \in SUBSET Nat
    BY DEF S
  <1>5. S = Nat
    BY <1>2, <1>3, <1>4, SetInduction
  <1>6. \A i \in 0..n : f[i] = g[i]
    BY <1>5 DEF S
  <1> QED
    BY <1>1, <1>6

(* and there is one for any n.                                             *)
LEMMA ReplayExists ==
  ASSUME NEW events, NEW out, NEW n \in Nat
  PROVE  \E f : IsReplay(f, events, out, n)
  <1> DEFINE S == {i \in Nat : \E f : IsReplay(f, events, out, i)}
  <1>1. 0 \in S
    <2> DEFINE f == [i \in 0..0 |-> Initial]
    <2>1. \A i \in 0..0 : At(events, out, f, i) = Initial
      BY DEF At
    <2>2. IsReplay(f, events, out, 0)
      BY <2>1 DEF IsReplay
    <2> QED
      BY <2>2
  <1>2. ASSUME NEW i \in S PROVE i + 1 \in S
    <2>1. i \in Nat
      OBVIOUS
    <2>2. PICK f : f = [j \in 0..i |-> At(events, out, f, j)]
      BY DEF IsReplay
    <2> DEFINE g == [j \in 0..(i + 1) |-> IF j <= i THEN f[j] ELSE At(events, out, f, j)]
    <2>3. ASSUME NEW j \in 0..(i + 1) PROVE g[j] = At(events, out, g, j)
      <3>1. At(events, out, g, j) = At(events, out, f, j)
        <4>1. j = 0 \/ (j - 1 \in 0..(i + 1) /\ j - 1 <= i)
          BY <2>1
        <4>2. j = 0 \/ g[j - 1] = f[j - 1]
          BY <4>1
        <4> QED
          BY <4>2 DEF At
      <3>2. g[j] = At(events, out, f, j)
        BY <2>1, <2>2
      <3> QED
        BY <3>1, <3>2
    <2>4. IsReplay(g, events, out, i + 1)
      <3>1. g = [j \in 0..(i + 1) |-> g[j]]
        OBVIOUS
      <3> HIDE DEF g
      <3> QED
        BY <2>3, <3>1 DEF IsReplay
    <2> HIDE DEF g
    <2> QED
      BY <2>1, <2>4
  <1> HIDE DEF S
  <1>3. S \in SUBSET Nat
    BY DEF S
  <1>4. S = Nat
    BY <1>1, <1>2, <1>3, SetInduction
  <1> QED
    BY <1>4 DEF S

(* The states Project runs through.                                        *)
Replay(events) == CHOOSE f : IsReplay(f, events, Superseded(events), Len(events))

(* Project is its last value.                                              *)
LEMMA ReplayFacts ==
  ASSUME NEW events \in Seq(Event)
  PROVE  /\ Project(events) = Replay(events)[Len(events)]
         /\ Replay(events)[0] = Initial
         /\ \A i \in 1..Len(events) :
              Replay(events)[i] = IF i \in Superseded(events) THEN Replay(events)[i - 1]
                                  ELSE Effect(Replay(events)[i - 1], events[i])
  <1> DEFINE out == Superseded(events)
             n == Len(events)
             f == Replay(events)
  <1>0. n \in Nat
    OBVIOUS
  <1>1. \E g : IsReplay(g, events, out, n)
    BY <1>0, ReplayExists
  <1>2. IsReplay(f, events, out, n)
    BY <1>1 DEF Replay
  <1>3. Project(events) = f[n]
    <2> DEFINE g == CHOOSE g : g = [i \in 0..n |-> At(events, out, g, i)]
    <2>1. Project(events) = g[n]
      BY Zenon DEF Project, At
    <2>2. IsReplay(g, events, out, n)
      BY <1>1 DEF IsReplay
    <2> HIDE DEF g
    <2>3. g = f
      BY <1>0, <1>2, <2>2, ReplayIsUnique
    <2> QED
      BY <2>1, <2>3
  <1>4. \A i \in 0..n : f[i] = At(events, out, f, i)
    BY <1>2 DEF IsReplay
  <1> HIDE DEF f, out
  <1>5. f[0] = Initial
    BY <1>0, <1>4 DEF At
  <1>6. \A i \in 1..n : f[i] = IF i \in out THEN f[i - 1] ELSE Effect(f[i - 1], events[i])
    BY <1>0, <1>4 DEF At
  <1> QED
    BY <1>3, <1>5, <1>6 DEF f, out

-----------------------------------------------------------------------------
(* The effect of an event, subject by subject.                             *)

Kinds == {"PRESENCE", "WALKOVER", "CALLED", "RECEIVED", "STARTED", "SCORED", "COMPLETED", "ENTRANTS", "RETIRED",
          "PROTEST", "RULING", "APPEAL", "APPEAL_RULING", "RESOURCE", "TIE", "CORRECTED"}

ContestAfter(k, f) ==
  CASE f.kind = "WALKOVER" -> [Scheduled EXCEPT !.status = "WALKOVER", !.winner = f.winner]
    [] f.kind = "CALLED" -> [k EXCEPT !.called = TRUE]
    [] f.kind = "STARTED" -> [k EXCEPT !.status = "IN_PROGRESS", !.court = f.court, !.start = f.start]
    [] f.kind = "SCORED" -> [k EXCEPT !.score = f.score]
    [] f.kind = "COMPLETED" ->
         [k EXCEPT !.status = "COMPLETED", !.end = f.end, !.duration = IF k.start = NoTime THEN "NaN" ELSE "MINUTES"]
    [] f.kind = "RETIRED" ->
         [k EXCEPT !.status = "RETIRED", !.end = f.end, !.duration = IF k.start = NoTime THEN "NaN" ELSE "MINUTES",
                   !.winner = f.winner]
    [] f.kind = "RECEIVED" -> [k EXCEPT !.received = TRUE]
    [] f.kind = "SET_TIMING" /\ f.end = NoTime -> [k EXCEPT !.status = "IN_PROGRESS", !.start = f.start]
    [] f.kind = "SET_TIMING" /\ f.end # NoTime ->
         [k EXCEPT !.status = "COMPLETED", !.start = f.start, !.end = f.end, !.duration = "MINUTES"]
    [] f.kind = "SET_SCORE" -> [k EXCEPT !.score = f.score]

ContestKinds == {"WALKOVER", "CALLED", "STARTED", "SCORED", "COMPLETED", "RETIRED", "RECEIVED", "SET_TIMING", "SET_SCORE"}

(* t is s after the fact f.                                                *)
Follows(s, f, t) ==
  /\ \A x \in Entrants :
       t.presence[x] = IF f.kind \in {"PRESENCE", "SET_PRESENCE"} /\ f.entrant = x THEN f.status ELSE s.presence[x]
  /\ \A c \in Contests :
       /\ t.contests[c] = IF f.kind \in ContestKinds /\ f.contest = c THEN ContestAfter(s.contests[c], f) ELSE s.contests[c]
       /\ t.resolved[c] = IF f.kind = "ENTRANTS" /\ f.contest = c THEN f.entrants ELSE s.resolved[c]
  /\ \A r \in Resources :
       t.available[r] = IF f.kind \in {"RESOURCE", "SET_RESOURCE"} /\ f.resource = r
                          THEN [yes |-> f.yes, until |-> f.until] ELSE s.available[r]
  /\ \A p \in Protests :
       t.protests[p] = CASE f.kind = "PROTEST" /\ f.protest = p -> [status |-> "PENDING", contest |-> f.contest]
                         [] f.kind = "RULING" /\ f.protest = p -> [s.protests[p] EXCEPT !.status = f.outcome]
                         [] OTHER -> s.protests[p]
  /\ \A a \in Appeals :
       t.appeals[a] = CASE f.kind = "APPEAL" /\ f.appeal = a -> [status |-> "PENDING", protest |-> f.protest]
                        [] f.kind = "APPEAL_RULING" /\ f.appeal = a -> [s.appeals[a] EXCEPT !.status = f.outcome]
                        [] OTHER -> s.appeals[a]

(* An event that puts k in the place of contest c.                         *)
LEMMA ContestChange ==
  ASSUME NEW s \in State, NEW f, f.kind \in ContestKinds, f.contest \in Contests,
         NEW k \in Contest, k = ContestAfter(s.contests[f.contest], f)
  PROVE  LET t == [s EXCEPT !.contests[f.contest] = k] IN t \in State /\ Follows(s, f, t)
  BY DEF State, Follows, ContestKinds

(* The same for the other events.                                          *)
LEMMA PresenceChange ==
  ASSUME NEW s \in State, NEW f, f.kind \in {"PRESENCE", "SET_PRESENCE"}, f.entrant \in Entrants, f.status \in Presence
  PROVE  LET t == [s EXCEPT !.presence[f.entrant] = f.status] IN t \in State /\ Follows(s, f, t)
  BY DEF State, Follows, ContestKinds

LEMMA EntrantsChange ==
  ASSUME NEW s \in State, NEW f, f.kind \in {"ENTRANTS"}, f.contest \in Contests, f.entrants \in SUBSET Entrants
  PROVE  LET t == [s EXCEPT !.resolved[f.contest] = f.entrants] IN t \in State /\ Follows(s, f, t)
  BY DEF State, Follows, ContestKinds

LEMMA ResourceChange ==
  ASSUME NEW s \in State, NEW f, f.kind \in {"RESOURCE", "SET_RESOURCE"}, f.resource \in Resources, f.yes \in BOOLEAN, f.until \in Times \union {NoTime}
  PROVE  LET t == [s EXCEPT !.available[f.resource] = [yes |-> f.yes, until |-> f.until]] IN t \in State /\ Follows(s, f, t)
  BY DEF State, Follows, ContestKinds

LEMMA ProtestChange ==
  ASSUME NEW s \in State, NEW f, f.kind \in {"PROTEST"}, f.protest \in Protests, f.contest \in Contests
  PROVE  LET t == [s EXCEPT !.protests[f.protest] = [status |-> "PENDING", contest |-> f.contest]] IN t \in State /\ Follows(s, f, t)
  BY DEF State, Follows, ContestKinds

LEMMA RulingChange ==
  ASSUME NEW s \in State, NEW f, f.kind \in {"RULING"}, f.protest \in Protests, f.outcome \in Outcomes
  PROVE  LET t == [s EXCEPT !.protests[f.protest].status = f.outcome] IN t \in State /\ Follows(s, f, t)
  <1> DEFINE k == [s.protests[f.protest] EXCEPT !.status = f.outcome]
             t == [s EXCEPT !.protests[f.protest].status = f.outcome]
  <1>1. /\ s.protests[f.protest] \in [status : {"NONE", "PENDING"} \union Outcomes, contest : Contests \union {NoContest}]
        /\ s.protests \in [Protests -> [status : {"NONE", "PENDING"} \union Outcomes, contest : Contests \union {NoContest}]]
    BY DEF State
  <1>2. k \in [status : {"NONE", "PENDING"} \union Outcomes, contest : Contests \union {NoContest}]
    BY <1>1
  <1>3. t = [s EXCEPT !.protests[f.protest] = k]
    OBVIOUS
  <1>4. [s EXCEPT !.protests[f.protest] = k] \in State /\ Follows(s, f, [s EXCEPT !.protests[f.protest] = k])
    <2>1. k = [s.protests[f.protest] EXCEPT !.status = f.outcome]
      OBVIOUS
    <2> HIDE DEF k
    <2> QED
      BY <1>2, <2>1 DEF State, Follows, ContestKinds
  <1> QED
    BY <1>3, <1>4

LEMMA AppealChange ==
  ASSUME NEW s \in State, NEW f, f.kind \in {"APPEAL"}, f.appeal \in Appeals, f.protest \in Protests
  PROVE  LET t == [s EXCEPT !.appeals[f.appeal] = [status |-> "PENDING", protest |-> f.protest]] IN t \in State /\ Follows(s, f, t)
  BY DEF State, Follows, ContestKinds

LEMMA AppealRulingChange ==
  ASSUME NEW s \in State, NEW f, f.kind \in {"APPEAL_RULING"}, f.appeal \in Appeals, f.outcome \in Outcomes
  PROVE  LET t == [s EXCEPT !.appeals[f.appeal].status = f.outcome] IN t \in State /\ Follows(s, f, t)
  <1> DEFINE k == [s.appeals[f.appeal] EXCEPT !.status = f.outcome]
             t == [s EXCEPT !.appeals[f.appeal].status = f.outcome]
  <1>1. /\ s.appeals[f.appeal] \in [status : {"NONE", "PENDING"} \union Outcomes, protest : Protests \union {"NONE"}]
        /\ s.appeals \in [Appeals -> [status : {"NONE", "PENDING"} \union Outcomes, protest : Protests \union {"NONE"}]]
    BY DEF State
  <1>2. k \in [status : {"NONE", "PENDING"} \union Outcomes, protest : Protests \union {"NONE"}]
    BY <1>1
  <1>3. t = [s EXCEPT !.appeals[f.appeal] = k]
    OBVIOUS
  <1>4. [s EXCEPT !.appeals[f.appeal] = k] \in State /\ Follows(s, f, [s EXCEPT !.appeals[f.appeal] = k])
    <2>1. k = [s.appeals[f.appeal] EXCEPT !.status = f.outcome]
      OBVIOUS
    <2> HIDE DEF k
    <2> QED
      BY <1>2, <2>1 DEF State, Follows, ContestKinds
  <1> QED
    BY <1>3, <1>4

(* The fields of whatever an event may say.                                *)
FactFields(f) ==
  /\ f.kind \in Kinds \union {"SET_PRESENCE", "SET_TIMING", "SET_SCORE", "SET_RESOURCE"}
  /\ f.kind \in {"PRESENCE", "SET_PRESENCE"} => f.entrant \in Entrants /\ f.status \in Presence
  /\ f.kind \in ContestKinds \union {"ENTRANTS", "PROTEST"} => f.contest \in Contests
  /\ f.kind \in {"WALKOVER", "RETIRED"} => f.winner \in Entrants
  /\ f.kind = "STARTED" => f.court \in Courts
  /\ f.kind \in {"STARTED", "SET_TIMING"} => f.start \in Times
  /\ f.kind \in {"SCORED", "SET_SCORE"} => f.score \in Scores
  /\ f.kind \in {"COMPLETED", "RETIRED"} => f.end \in Times
  /\ f.kind = "SET_TIMING" => f.end \in Times \union {NoTime}
  /\ f.kind = "ENTRANTS" => f.entrants \in SUBSET Entrants
  /\ f.kind \in {"PROTEST", "RULING", "APPEAL"} => f.protest \in Protests
  /\ f.kind \in {"RULING", "APPEAL_RULING"} => f.outcome \in Outcomes
  /\ f.kind \in {"APPEAL", "APPEAL_RULING"} => f.appeal \in Appeals
  /\ f.kind \in {"RESOURCE", "SET_RESOURCE"} => f.resource \in Resources /\ f.yes \in BOOLEAN /\ f.until \in Times \union {NoTime}

LEMMA FactsHaveFields ==
  ASSUME NEW f \in Event \union Replacements
  PROVE  FactFields(f)
  <1>1. CASE f \in Event
    BY <1>1 DEF Event, FactFields, Kinds, ContestKinds
  <1>2. CASE f \in Replacements
    BY <1>2 DEF Replacements, FactFields, Kinds, ContestKinds
  <1> QED
    BY <1>1, <1>2

LEMMA ContestAfterType ==
  ASSUME NEW k \in Contest, NEW f, FactFields(f), f.kind \in ContestKinds
  PROVE  ContestAfter(k, f) \in Contest
  <1>1. CASE f.kind = "WALKOVER"
    BY <1>1 DEF FactFields, ContestAfter, Contest, Scheduled, Settled
  <1>2. CASE f.kind = "CALLED" \/ f.kind = "RECEIVED"
    BY <1>2 DEF FactFields, ContestAfter, Contest
  <1>3. CASE f.kind = "STARTED"
    BY <1>3 DEF FactFields, ContestAfter, Contest
  <1>4. CASE f.kind = "SCORED" \/ f.kind = "SET_SCORE"
    BY <1>4 DEF FactFields, ContestAfter, Contest
  <1>5. CASE f.kind = "COMPLETED"
    BY <1>5 DEF FactFields, ContestAfter, Contest, Settled
  <1>6. CASE f.kind = "RETIRED"
    BY <1>6 DEF FactFields, ContestAfter, Contest, Settled
  <1>7. CASE f.kind = "SET_TIMING" /\ f.end = NoTime
    BY <1>7 DEF FactFields, ContestAfter, Contest
  <1>8. CASE f.kind = "SET_TIMING" /\ f.end # NoTime
    BY <1>8 DEF FactFields, ContestAfter, Contest, Settled
  <1> QED
    BY <1>1, <1>2, <1>3, <1>4, <1>5, <1>6, <1>7, <1>8 DEF ContestKinds

LEMMA EventParts ==
  ASSUME NEW e \in Event
  PROVE  /\ e.kind \in Kinds
         /\ e.kind = "CORRECTED" => e.target \in Nat /\ e.replacement \in Replacements
  BY DEF Event, Kinds

LEMMA ReplacementKinds ==
  ASSUME NEW r \in Replacements
  PROVE  r.kind \in {"SET_PRESENCE", "SET_TIMING", "SET_SCORE", "SET_RESOURCE"}
  BY DEF Replacements

LEMMA ContestFollows ==
  ASSUME NEW s \in State, NEW f, FactFields(f), f.kind \in ContestKinds, NEW t,
         t = [s EXCEPT !.contests[f.contest] = ContestAfter(s.contests[f.contest], f)]
  PROVE  t \in State /\ Follows(s, f, t)
  <1>1. f.contest \in Contests
    BY DEF FactFields
  <1>2. s.contests[f.contest] \in Contest
    BY <1>1 DEF State
  <1>3. ContestAfter(s.contests[f.contest], f) \in Contest
    BY <1>2, ContestAfterType
  <1> QED
    BY <1>1, <1>3, ContestChange

LEMMA ReplacedFollows ==
  ASSUME NEW s \in State, NEW r \in Replacements
  PROVE  Replaced(s, r) \in State /\ Follows(s, r, Replaced(s, r))
  <1>1. FactFields(r)
    BY FactsHaveFields
  <1>2. CASE r.kind = "SET_PRESENCE"
    <2>1. Replaced(s, r) = [s EXCEPT !.presence[r.entrant] = r.status]
      BY <1>2 DEF Replaced
    <2> QED
      BY <1>1, <1>2, <2>1, PresenceChange DEF FactFields
  <1>3. CASE r.kind = "SET_RESOURCE"
    <2>1. Replaced(s, r) = [s EXCEPT !.available[r.resource] = [yes |-> r.yes, until |-> r.until]]
      BY <1>3 DEF Replaced
    <2> QED
      BY <1>1, <1>3, <2>1, ResourceChange DEF FactFields
  <1>4. CASE r.kind \in {"SET_TIMING", "SET_SCORE"}
    <2>1. Replaced(s, r) = [s EXCEPT !.contests[r.contest] = ContestAfter(s.contests[r.contest], r)]
      BY <1>4 DEF Replaced, ContestAfter
    <2> QED
      BY <1>1, <1>4, <2>1, ContestFollows DEF ContestKinds
  <1> QED
    BY <1>2, <1>3, <1>4, ReplacementKinds

(* Effect keeps the type of the state and changes what its fact says.      *)
LEMMA EffectFollows ==
  ASSUME NEW s \in State, NEW e \in Event
  PROVE  Effect(s, e) \in State /\ Follows(s, FactOf(e), Effect(s, e))
  <1>1. FactFields(e)
    BY FactsHaveFields
  <1>2. CASE e.kind = "CORRECTED"
    <2>1. Effect(s, e) = Replaced(s, e.replacement) /\ FactOf(e) = e.replacement /\ e.replacement \in Replacements
      BY <1>2, EventParts DEF Effect, FactOf
    <2> QED
      BY <2>1, ReplacedFollows
  <1>3. CASE e.kind \in {"WALKOVER", "CALLED", "STARTED", "SCORED", "COMPLETED", "RETIRED", "RECEIVED"}
    <2>1. e.contest \in Contests /\ s.contests \in [Contests -> Contest]
      BY <1>1, <1>3 DEF FactFields, ContestKinds, State
    <2>2. Effect(s, e) = [s EXCEPT !.contests[e.contest] = ContestAfter(s.contests[e.contest], e)]
      <3>1. s.contests[e.contest] \in Contest
        BY <2>1
      <3>2. CASE e.kind = "WALKOVER"
        BY <3>1, <3>2 DEF Effect, ContestAfter
      <3>3. CASE e.kind = "CALLED"
        BY <3>1, <3>3 DEF Effect, ContestAfter, Contest
      <3>4. CASE e.kind = "STARTED"
        BY <3>1, <3>4 DEF Effect, ContestAfter
      <3>5. CASE e.kind = "SCORED"
        BY <3>1, <3>5 DEF Effect, ContestAfter
      <3>6. CASE e.kind = "COMPLETED"
        BY <3>1, <3>6 DEF Effect, ContestAfter, Duration
      <3>7. CASE e.kind = "RETIRED"
        BY <3>1, <3>7 DEF Effect, ContestAfter, Duration
      <3>8. CASE e.kind = "RECEIVED"
        BY <3>1, <3>8 DEF Effect, ContestAfter
      <3> QED
        BY <1>3, <3>2, <3>3, <3>4, <3>5, <3>6, <3>7, <3>8
    <2>3. FactOf(e) = e
      BY <1>3 DEF FactOf
    <2> QED
      BY <1>1, <1>3, <2>2, <2>3, ContestFollows DEF ContestKinds
  <1>4. CASE e.kind = "PRESENCE"
    <2>1. Effect(s, e) = [s EXCEPT !.presence[e.entrant] = e.status] /\ FactOf(e) = e
      BY <1>4 DEF Effect, FactOf
    <2> QED
      BY <1>1, <1>4, <2>1, PresenceChange DEF FactFields
  <1>5. CASE e.kind = "ENTRANTS"
    <2>1. Effect(s, e) = [s EXCEPT !.resolved[e.contest] = e.entrants] /\ FactOf(e) = e
      BY <1>5 DEF Effect, FactOf
    <2> QED
      BY <1>1, <1>5, <2>1, EntrantsChange DEF FactFields
  <1>6. CASE e.kind = "RESOURCE"
    <2>1. Effect(s, e) = [s EXCEPT !.available[e.resource] = [yes |-> e.yes, until |-> e.until]] /\ FactOf(e) = e
      BY <1>6 DEF Effect, FactOf
    <2> QED
      BY <1>1, <1>6, <2>1, ResourceChange DEF FactFields
  <1>7. CASE e.kind = "PROTEST"
    <2>1. Effect(s, e) = [s EXCEPT !.protests[e.protest] = [status |-> "PENDING", contest |-> e.contest]] /\ FactOf(e) = e
      BY <1>7 DEF Effect, FactOf
    <2> QED
      BY <1>1, <1>7, <2>1, ProtestChange DEF FactFields
  <1>8. CASE e.kind = "RULING"
    <2>1. Effect(s, e) = [s EXCEPT !.protests[e.protest].status = e.outcome] /\ FactOf(e) = e
      BY <1>8 DEF Effect, FactOf
    <2> QED
      BY <1>1, <1>8, <2>1, RulingChange DEF FactFields
  <1>9. CASE e.kind = "APPEAL"
    <2>1. Effect(s, e) = [s EXCEPT !.appeals[e.appeal] = [status |-> "PENDING", protest |-> e.protest]] /\ FactOf(e) = e
      BY <1>9 DEF Effect, FactOf
    <2> QED
      BY <1>1, <1>9, <2>1, AppealChange DEF FactFields
  <1>10. CASE e.kind = "APPEAL_RULING"
    <2>1. Effect(s, e) = [s EXCEPT !.appeals[e.appeal].status = e.outcome] /\ FactOf(e) = e
      BY <1>10 DEF Effect, FactOf
    <2> QED
      BY <1>1, <1>10, <2>1, AppealRulingChange DEF FactFields
  <1>11. CASE e.kind = "TIE"
    <2>1. Effect(s, e) = s /\ FactOf(e) = e
      BY <1>11 DEF Effect, FactOf
    <2> QED
      BY <1>11, <2>1 DEF Follows, ContestKinds
  <1> QED
    BY <1>2, <1>3, <1>4, <1>5, <1>6, <1>7, <1>8, <1>9, <1>10, <1>11, EventParts DEF Kinds

-----------------------------------------------------------------------------
(* Longer logs.                                                            *)

LEMMA InitialType == Initial \in State
  BY DefinitionAssumption DEF Initial, State, Scheduled, Contest, Fixture

(* Whatever is taken out of the log, its projection is a state.            *)
LEMMA ReplayType ==
  ASSUME NEW events \in Seq(Event)
  PROVE  /\ \A i \in 0..Len(events) : Replay(events)[i] \in State
         /\ Project(events) \in State
  <1> DEFINE f == Replay(events)
             S == {i \in Nat : i <= Len(events) => f[i] \in State}
  <1>0. Len(events) \in Nat
    OBVIOUS
  <1>1. /\ Project(events) = f[Len(events)]
        /\ f[0] = Initial
        /\ \A i \in 1..Len(events) :
             f[i] = IF i \in Superseded(events) THEN f[i - 1] ELSE Effect(f[i - 1], events[i])
    BY ReplayFacts
  <1> HIDE DEF f
  <1>2. 0 \in S
    BY <1>1, InitialType
  <1>3. ASSUME NEW i \in S PROVE i + 1 \in S
    <2>1. CASE i + 1 <= Len(events)
      <3>1. i \in Nat /\ i + 1 \in 1..Len(events) /\ (i + 1) - 1 = i /\ f[i] \in State /\ events[i + 1] \in Event
        BY <1>0, <1>3, <2>1
      <3>2. f[i + 1] = IF i + 1 \in Superseded(events) THEN f[i] ELSE Effect(f[i], events[i + 1])
        BY <1>1, <3>1
      <3>3. Effect(f[i], events[i + 1]) \in State
        BY <3>1, EffectFollows
      <3> QED
        BY <3>1, <3>2, <3>3
    <2> QED
      BY <1>3, <2>1
  <1> HIDE DEF S
  <1>4. S \in SUBSET Nat
    BY DEF S
  <1>5. S = Nat
    BY <1>2, <1>3, <1>4, SetInduction
  <1>6. \A i \in 0..Len(events) : f[i] \in State
    BY <1>0, <1>5 DEF S
  <1> QED
    BY <1>0, <1>1, <1>6 DEF f

(* Two logs of the same beginning have the same projection of it.          *)
LEMMA ReplayAgrees ==
  ASSUME NEW events \in Seq(Event), NEW later \in Seq(Event), NEW n \in Nat, n <= Len(events), n <= Len(later),
         \A i \in 1..n : events[i] = later[i] /\ (i \in Superseded(events) <=> i \in Superseded(later))
  PROVE  Replay(events)[n] = Replay(later)[n]
  <1> DEFINE f == Replay(events)
             g == Replay(later)
             S == {i \in Nat : i <= n => f[i] = g[i]}
  <1>0. Len(events) \in Nat /\ Len(later) \in Nat
    OBVIOUS
  <1>1. /\ f[0] = Initial
        /\ \A i \in 1..Len(events) :
             f[i] = IF i \in Superseded(events) THEN f[i - 1] ELSE Effect(f[i - 1], events[i])
    BY ReplayFacts
  <1>2. /\ g[0] = Initial
        /\ \A i \in 1..Len(later) :
             g[i] = IF i \in Superseded(later) THEN g[i - 1] ELSE Effect(g[i - 1], later[i])
    BY ReplayFacts
  <1> HIDE DEF f, g
  <1>3. 0 \in S
    BY <1>1, <1>2
  <1>4. ASSUME NEW i \in S PROVE i + 1 \in S
    <2>1. CASE i + 1 <= n
      <3>1. /\ i \in Nat /\ i + 1 \in 1..Len(events) /\ i + 1 \in 1..Len(later) /\ i + 1 \in 1..n
            /\ (i + 1) - 1 = i /\ f[i] = g[i]
        BY <1>0, <1>4, <2>1
      <3>2. f[i + 1] = IF i + 1 \in Superseded(events) THEN f[i] ELSE Effect(f[i], events[i + 1])
        BY <1>1, <3>1
      <3>3. g[i + 1] = IF i + 1 \in Superseded(later) THEN g[i] ELSE Effect(g[i], later[i + 1])
        BY <1>2, <3>1
      <3> QED
        BY <3>1, <3>2, <3>3
    <2> QED
      BY <1>4, <2>1
  <1> HIDE DEF S
  <1>5. S \in SUBSET Nat
    BY DEF S
  <1>6. S = Nat
    BY <1>3, <1>4, <1>5, SetInduction
  <1> QED
    BY <1>6 DEF S, f, g

(* A longer log.                                                           *)
LEMMA AppendedTo ==
  ASSUME NEW events \in Seq(Event), NEW e \in Event
  PROVE  /\ Append(events, e) \in Seq(Event)
         /\ Len(events) \in Nat
         /\ Len(Append(events, e)) = Len(events) + 1
         /\ DOMAIN events = 1..Len(events)
         /\ DOMAIN Append(events, e) = 1..(Len(events) + 1)
         /\ \A i \in 1..Len(events) : Append(events, e)[i] = events[i]
         /\ Append(events, e)[Len(events) + 1] = e
         /\ Superseded(Append(events, e)) =
              Superseded(events) \union IF e.kind = "CORRECTED" THEN {e.target} ELSE {}
  <1>1. /\ Append(events, e) \in Seq(Event)
        /\ Len(events) \in Nat
        /\ Len(Append(events, e)) = Len(events) + 1
        /\ DOMAIN events = 1..Len(events)
        /\ DOMAIN Append(events, e) = 1..(Len(events) + 1)
        /\ \A i \in 1..Len(events) : Append(events, e)[i] = events[i]
        /\ Append(events, e)[Len(events) + 1] = e
    OBVIOUS
  <1> DEFINE later == Append(events, e)
  <1>2. \A i : i \in DOMAIN later <=> i \in DOMAIN events \/ i = Len(events) + 1
    BY <1>1
  <1> HIDE DEF later
  <1>3. ASSUME NEW i PROVE i \in Superseded(later) <=> i \in Superseded(events) \/ (e.kind = "CORRECTED" /\ i = e.target)
    <2>1. i \in Superseded(later) <=> \E j \in DOMAIN later : later[j].kind = "CORRECTED" /\ i = later[j].target
      BY DEF Superseded
    <2>2. i \in Superseded(events) <=> \E j \in DOMAIN events : events[j].kind = "CORRECTED" /\ i = events[j].target
      BY DEF Superseded
    <2>3. \A j \in DOMAIN events : later[j] = events[j]
      BY <1>1 DEF later
    <2>4. later[Len(events) + 1] = e
      BY <1>1 DEF later
    <2> QED
      BY <1>2, <2>1, <2>2, <2>3, <2>4
  <1> QED
    BY <1>1, <1>3 DEF later

(* Nothing in the log is corrected before it is there.                     *)
WellFormed(events) ==
  /\ events \in Seq(Event)
  /\ Superseded(events) \subseteq DOMAIN events

(* An event that corrects nothing acts on the projection as it is.         *)
LEMMA ProjectAppend ==
  ASSUME NEW events, WellFormed(events), NEW e \in Event, e.kind # "CORRECTED"
  PROVE  Project(Append(events, e)) = Effect(Project(events), e)
  <1> DEFINE later == Append(events, e)
             n == Len(events)
  <1>1. /\ later \in Seq(Event) /\ n \in Nat /\ Len(later) = n + 1
        /\ \A i \in 1..n : later[i] = events[i]
        /\ later[n + 1] = e
        /\ Superseded(later) = Superseded(events)
        /\ events \in Seq(Event) /\ DOMAIN events = 1..n
    <2>1. events \in Seq(Event)
      BY DEF WellFormed
    <2>2. Superseded(later) = Superseded(events) \union {}
      BY <2>1, AppendedTo
    <2> QED
      BY <2>1, <2>2, AppendedTo
  <1>2. n + 1 \notin Superseded(later)
    BY <1>1 DEF WellFormed
  <1> HIDE DEF later, n
  <1>3. n = Len(events) /\ later = Append(events, e)
    BY DEF later, n
  <1>4. Replay(events)[n] = Replay(later)[n]
    <2>1. n <= Len(events) /\ n <= Len(later)
      BY <1>1, <1>3
    <2>2. \A i \in 1..n : events[i] = later[i] /\ (i \in Superseded(events) <=> i \in Superseded(later))
      BY <1>1
    <2> QED
      BY <1>1, <2>1, <2>2, ReplayAgrees
  <1>5. Project(events) = Replay(events)[n]
    BY <1>1, <1>3, ReplayFacts
  <1>6. Project(later) = Replay(later)[n + 1] /\ n + 1 \in 1..Len(later) /\ (n + 1) - 1 = n
    BY <1>1, ReplayFacts
  <1>7. Replay(later)[n + 1] = Effect(Replay(later)[n], e)
    BY <1>1, <1>2, <1>6, ReplayFacts
  <1> QED
    BY <1>3, <1>4, <1>5, <1>6, <1>7

-----------------------------------------------------------------------------
(* Every step records an event, under the guards of its command.           *)

LogInv ==
  /\ WellFormed(log)
  /\ live = Project(log)
  /\ Hashable(live)

Permitted(e) ==
  /\ e.kind \in {"WALKOVER", "CALLED", "STARTED", "ENTRANTS"} => StatusOf(e.contest) = "SCHEDULED"
  /\ e.kind = "WALKOVER" => e.winner \in live.resolved[e.contest]
  /\ e.kind = "STARTED" =>
       IsResolved(e.contest) /\ Occupying(e.contest, e.court) = {} /\ Pending(e.contest) = {}
  /\ e.kind \in {"SCORED", "COMPLETED", "RETIRED"} => StatusOf(e.contest) = "IN_PROGRESS"
  /\ e.kind = "RETIRED" => e.winner \in live.resolved[e.contest]
  /\ e.kind = "RECEIVED" => IsSettled(e.contest)
  /\ e.kind = "PROTEST" => live.protests[e.protest].status = "NONE"
  /\ e.kind = "RULING" => live.protests[e.protest].status = "PENDING"
  /\ e.kind = "APPEAL" => MayAppeal(e.appeal, e.protest)
  /\ e.kind = "APPEAL_RULING" => live.appeals[e.appeal].status = "PENDING"
  /\ e.kind = "CORRECTED" =>
       /\ e.target \in DOMAIN log \ Superseded(log)
       /\ log[e.target].kind # "CORRECTED"

LEMMA ContestCommandRecords ==
  ASSUME live \in State, NEW c \in Contests, ContestCommand(c)
  PROVE  \E e \in Event : Permitted(e) /\ Record(e)
  <1> USE DEF Permitted, Event
  <1>1. ASSUME NEW x \in Entrants, DeclareNoShow(c, x) PROVE \E e \in Event : Permitted(e) /\ Record(e)
    <2> DEFINE e == [kind |-> "PRESENCE", entrant |-> x, status |-> "NO_SHOW"]
    <2>1. e \in Event /\ Permitted(e)
      BY DEF Presence
    <2> QED
      BY <1>1, <2>1 DEF DeclareNoShow
  <1>2. ASSUME NEW winner \in Entrants, NEW absent \in Entrants, AwardWalkover(c, winner, absent)
        PROVE  \E e \in Event : Permitted(e) /\ Record(e)
    <2> DEFINE e == [kind |-> "WALKOVER", contest |-> c, winner |-> winner]
    <2>1. e \in Event /\ Permitted(e)
      BY <1>2 DEF AwardWalkover
    <2> QED
      BY <1>2, <2>1 DEF AwardWalkover
  <1>3. ASSUME CallContest(c) PROVE \E e \in Event : Permitted(e) /\ Record(e)
    <2> DEFINE e == [kind |-> "CALLED", contest |-> c]
    <2>1. e \in Event /\ Permitted(e)
      BY <1>3 DEF CallContest
    <2> QED
      BY <1>3, <2>1 DEF CallContest
  <1>4. ASSUME NEW entrants \in SUBSET Entrants, ResolveContestEntrants(c, entrants)
        PROVE  \E e \in Event : Permitted(e) /\ Record(e)
    <2> DEFINE e == [kind |-> "ENTRANTS", contest |-> c, entrants |-> entrants]
    <2>1. e \in Event /\ Permitted(e)
      BY <1>4 DEF ResolveContestEntrants
    <2> QED
      BY <1>4, <2>1 DEF ResolveContestEntrants
  <1>5. ASSUME NEW court \in Courts, NEW now \in Times, NEW start \in Times, StartContest(c, court, now, start)
        PROVE  \E e \in Event : Permitted(e) /\ Record(e)
    <2> DEFINE e == [kind |-> "STARTED", contest |-> c, court |-> court, start |-> start]
    <2>1. e \in Event /\ Permitted(e)
      BY <1>5 DEF StartContest, MayStart
    <2> QED
      BY <1>5, <2>1 DEF StartContest
  <1>6. ASSUME NEW score \in Scores, RecordScore(c, score) PROVE \E e \in Event : Permitted(e) /\ Record(e)
    <2> DEFINE e == [kind |-> "SCORED", contest |-> c, score |-> score]
    <2>1. e \in Event /\ Permitted(e)
      BY <1>6 DEF RecordScore
    <2> QED
      BY <1>6, <2>1 DEF RecordScore
  <1>7. ASSUME NEW end \in Times, CompleteContest(c, end) PROVE \E e \in Event : Permitted(e) /\ Record(e)
    <2> DEFINE e == [kind |-> "COMPLETED", contest |-> c, end |-> end]
    <2>1. e \in Event /\ Permitted(e)
      BY <1>7 DEF CompleteContest, InPlayUntil
    <2> QED
      BY <1>7, <2>1 DEF CompleteContest
  <1>8. ASSUME NEW retired \in Entrants, NEW winner \in Entrants, NEW end \in Times, RecordRetirement(c, retired, winner, end)
        PROVE  \E e \in Event : Permitted(e) /\ Record(e)
    <2> DEFINE e == [kind |-> "RETIRED", contest |-> c, winner |-> winner, end |-> end]
    <2>1. e \in Event /\ Permitted(e)
      BY <1>8 DEF RecordRetirement, InPlayUntil
    <2> QED
      BY <1>8, <2>1 DEF RecordRetirement
  <1>9. ASSUME RecordResultReceipt(c) PROVE \E e \in Event : Permitted(e) /\ Record(e)
    <2> DEFINE e == [kind |-> "RECEIVED", contest |-> c]
    <2>1. e \in Event /\ Permitted(e)
      BY <1>9 DEF RecordResultReceipt
    <2> QED
      BY <1>9, <2>1 DEF RecordResultReceipt
  <1>10. ASSUME NEW p \in Protests, FileProtest(p, c) PROVE \E e \in Event : Permitted(e) /\ Record(e)
    <2> DEFINE e == [kind |-> "PROTEST", protest |-> p, contest |-> c]
    <2>1. e \in Event /\ Permitted(e)
      BY <1>10 DEF FileProtest
    <2> QED
      BY <1>10, <2>1 DEF FileProtest
  <1> QED
    BY <1>1, <1>2, <1>3, <1>4, <1>5, <1>6, <1>7, <1>8, <1>9, <1>10 DEF ContestCommand

(* Every command records one event, and its guards permit it.              *)
LEMMA NextRecords ==
  ASSUME LogInv, Next
  PROVE  \E e \in Event : Permitted(e) /\ Record(e)
  <1>0. live \in State
    BY ReplayType DEF LogInv, WellFormed
  <1>1. ASSUME NEW x \in Entrants, NEW status \in Presence, SetPresence(x, status)
        PROVE  \E e \in Event : Permitted(e) /\ Record(e)
    <2> DEFINE e == [kind |-> "PRESENCE", entrant |-> x, status |-> status]
    <2>1. e \in Event /\ Permitted(e)
      BY DEF Event, Permitted
    <2> QED
      BY <1>1, <2>1 DEF SetPresence
  <1>2. ASSUME NEW c \in Contests, ContestCommand(c) PROVE \E e \in Event : Permitted(e) /\ Record(e)
    BY <1>0, <1>2, ContestCommandRecords
  <1>3. ASSUME NEW p \in Protests, NEW outcome \in Outcomes, ResolveProtest(p, outcome)
        PROVE  \E e \in Event : Permitted(e) /\ Record(e)
    <2> DEFINE e == [kind |-> "RULING", protest |-> p, outcome |-> outcome]
    <2>1. e \in Event /\ Permitted(e)
      BY <1>3 DEF Event, Permitted, ResolveProtest
    <2> QED
      BY <1>3, <2>1 DEF ResolveProtest
  <1>4. ASSUME NEW a \in Appeals, NEW p \in Protests, FileAppeal(a, p) PROVE \E e \in Event : Permitted(e) /\ Record(e)
    <2> DEFINE e == [kind |-> "APPEAL", appeal |-> a, protest |-> p]
    <2>1. e \in Event /\ Permitted(e)
      BY <1>4 DEF Event, Permitted, FileAppeal
    <2> QED
      BY <1>4, <2>1 DEF FileAppeal
  <1>5. ASSUME NEW a \in Appeals, NEW outcome \in Outcomes, ResolveAppeal(a, outcome)
        PROVE  \E e \in Event : Permitted(e) /\ Record(e)
    <2> DEFINE e == [kind |-> "APPEAL_RULING", appeal |-> a, outcome |-> outcome]
    <2>1. e \in Event /\ Permitted(e)
      BY <1>5 DEF Event, Permitted, ResolveAppeal
    <2> QED
      BY <1>5, <2>1 DEF ResolveAppeal
  <1>6. ASSUME NEW r \in Resources, NEW yes \in BOOLEAN, NEW until \in Times \union {NoTime}, NEW now \in Times,
               ChangeResource(r, yes, until, now)
        PROVE  \E e \in Event : Permitted(e) /\ Record(e)
    <2> DEFINE e == [kind |-> "RESOURCE", resource |-> r, yes |-> yes, until |-> until]
    <2>1. e \in Event /\ Permitted(e)
      BY DEF Event, Permitted
    <2> QED
      BY <1>6, <2>1 DEF ChangeResource
  <1>7. ASSUME NEW order \in Ties, DecideStandingsTie(order) PROVE \E e \in Event : Permitted(e) /\ Record(e)
    <2> DEFINE e == [kind |-> "TIE", order |-> order]
    <2>1. e \in Event /\ Permitted(e)
      BY DEF Event, Permitted
    <2> QED
      BY <1>7, <2>1 DEF DecideStandingsTie
  <1>8. ASSUME NEW i \in DOMAIN log, NEW replacement \in Rewrites, CorrectOperation(i, replacement)
        PROVE  \E e \in Event : Permitted(e) /\ Record(e)
    <2> DEFINE e == [kind |-> "CORRECTED", target |-> i, replacement |-> replacement]
    <2>1. i \in Nat /\ replacement \in Replacements
      BY DefinitionAssumption DEF LogInv, WellFormed
    <2>2. e \in Event /\ Permitted(e)
      BY <1>8, <2>1 DEF Event, Permitted, CorrectOperation
    <2> QED
      BY <1>8, <2>2 DEF CorrectOperation
  <1> QED
    BY <1>1, <1>2, <1>3, <1>4, <1>5, <1>6, <1>7, <1>8 DEF Next

(* Recording an event keeps the state the projection of the log, and acts  *)
(* on it directly unless it is a correction.                               *)
LEMMA RecordKeepsLogInv ==
  ASSUME LogInv, NEW e \in Event, Permitted(e), Record(e)
  PROVE  /\ LogInv'
         /\ live \in State /\ live' \in State
         /\ log' = Append(log, e)
         /\ Superseded(log') = Superseded(log) \union IF e.kind = "CORRECTED" THEN {e.target} ELSE {}
         /\ e.kind # "CORRECTED" => Follows(live, FactOf(e), live')
  <1>1. log \in Seq(Event) /\ log' = Append(log, e) /\ live' = Project(log') /\ Hashable(live')
    BY DEF LogInv, WellFormed, Record
  <1>2. /\ Superseded(log') = Superseded(log) \union IF e.kind = "CORRECTED" THEN {e.target} ELSE {}
        /\ log' \in Seq(Event) /\ DOMAIN log = 1..Len(log) /\ DOMAIN log' = 1..(Len(log) + 1) /\ Len(log) \in Nat
    BY <1>1, AppendedTo
  <1>3. Superseded(log') \subseteq DOMAIN log'
    BY <1>2 DEF LogInv, WellFormed, Permitted
  <1>4. live \in State /\ live' \in State
    BY <1>1, <1>2, ReplayType DEF LogInv
  <1>5. ASSUME e.kind # "CORRECTED" PROVE Follows(live, FactOf(e), live')
    <2>1. live' = Effect(live, e)
      BY <1>1, <1>5, ProjectAppend DEF LogInv
    <2> QED
      BY <1>4, <2>1, EffectFollows
  <1>6. LogInv'
    BY <1>1, <1>2, <1>3 DEF LogInv, WellFormed
  <1> QED
    BY <1>1, <1>2, <1>4, <1>5, <1>6

LEMMA InitLogInv == Init => LogInv /\ Superseded(log) = {}
  <1> SUFFICES ASSUME Init PROVE LogInv /\ Superseded(log) = {}
    OBVIOUS
  <1>1. log = <<>> /\ log \in Seq(Event) /\ Len(log) = 0 /\ DOMAIN log = {}
    BY DEF Init
  <1>2. Superseded(log) = {}
    BY <1>1 DEF Superseded
  <1>3. Project(log) = Initial
    BY <1>1, ReplayFacts
  <1>4. Hashable(Initial)
    BY DEF Hashable, Initial, Scheduled
  <1> QED
    BY <1>1, <1>2, <1>3, <1>4 DEF Init, LogInv, WellFormed

LEMMA StutterLogInv ==
  ASSUME LogInv, UNCHANGED vars
  PROVE  LogInv'
  BY DEF LogInv, WellFormed, Hashable, Superseded, vars

(* acceptedEvent and the projection: the state is the projection of the    *)
(* log, and no event is corrected that is not in it.                       *)
THEOREM StateIsProjection == Spec => []LogInv
  <1>1. LogInv /\ [Next]_vars => LogInv'
    BY NextRecords, RecordKeepsLogInv, StutterLogInv
  <1> QED
    BY <1>1, InitLogInv, PTL DEF Spec

LEMMA TypesOfLive == LogInv => TypeOK
  <1>1. LogInv => live \in State
    BY ReplayType DEF LogInv, WellFormed
  <1> QED
    BY <1>1 DEF LogInv, TypeOK, State

-----------------------------------------------------------------------------
(* The rules of play, as long as nothing is corrected.                     *)

Lawful == CourtHoldsOne /\ PlayedInOrder /\ OnlySettledIsDecided /\ AppealedOnce

(* What a permitted event makes of a contest k: l.                         *)
AwardedTo(k, l, e) ==
  e.kind = "WALKOVER" /\ k.status = "SCHEDULED" /\ l = [Scheduled EXCEPT !.status = "WALKOVER", !.winner = e.winner]
Begun(k, l, e) ==
  e.kind = "STARTED" /\ k.status = "SCHEDULED" /\ l = [k EXCEPT !.status = "IN_PROGRESS", !.court = e.court, !.start = e.start]
Noted(k, l, e) ==
  \/ e.kind = "CALLED" /\ k.status = "SCHEDULED" /\ l = [k EXCEPT !.called = TRUE]
  \/ e.kind = "SCORED" /\ k.status = "IN_PROGRESS" /\ l = [k EXCEPT !.score = e.score]
  \/ e.kind = "RECEIVED" /\ k.status \in Settled /\ l = [k EXCEPT !.received = TRUE]
Ended(k, l, e) ==
  /\ e.kind \in {"COMPLETED", "RETIRED"} /\ k.status = "IN_PROGRESS"
  /\ \E d \in {"NaN", "MINUTES"} :
       l = [k EXCEPT !.status = e.kind, !.end = e.end, !.duration = d,
                     !.winner = IF e.kind = "RETIRED" THEN e.winner ELSE @]

LEMMA ContestStep ==
  ASSUME live \in State, NEW e \in Event, e.kind # "CORRECTED", Permitted(e), Follows(live, FactOf(e), live'), NEW c \in Contests,
         NEW k, k = live.contests[c], NEW l, l = live'.contests[c]
  PROVE  /\ \/ l = k
            \/ e.contest = c /\ (AwardedTo(k, l, e) \/ Begun(k, l, e) \/ Noted(k, l, e) \/ Ended(k, l, e))
         /\ \/ live'.resolved[c] = live.resolved[c]
            \/ e.contest = c /\ e.kind = "ENTRANTS" /\ k.status = "SCHEDULED"
  <1>0. k \in Contest
    BY DEF State
  <1>1. FactOf(e) = e
    BY DEF FactOf
  <1>2. live'.resolved[c] = live.resolved[c] \/ (e.contest = c /\ e.kind = "ENTRANTS" /\ k.status = "SCHEDULED")
    BY <1>1 DEF Follows, Permitted, StatusOf
  <1>3. CASE e.kind \notin ContestKinds \/ e.contest # c
    BY <1>1, <1>2, <1>3 DEF Follows
  <1>4. CASE e.kind \in ContestKinds /\ e.contest = c
    <2>1. l = ContestAfter(k, e)
      BY <1>1, <1>4 DEF Follows
    <2>2. e.kind \in {"WALKOVER", "CALLED", "STARTED", "SCORED", "COMPLETED", "RETIRED", "RECEIVED"}
      BY <1>4, EventParts DEF ContestKinds, Kinds
    <2>3. CASE e.kind = "WALKOVER"
      BY <1>2, <1>4, <2>1, <2>3 DEF ContestAfter, Permitted, StatusOf, AwardedTo
    <2>4. CASE e.kind = "CALLED"
      BY <1>2, <1>4, <2>1, <2>4 DEF ContestAfter, Permitted, StatusOf, Noted
    <2>5. CASE e.kind = "STARTED"
      BY <1>2, <1>4, <2>1, <2>5 DEF ContestAfter, Permitted, StatusOf, Begun
    <2>6. CASE e.kind = "SCORED"
      BY <1>2, <1>4, <2>1, <2>6 DEF ContestAfter, Permitted, StatusOf, Noted
    <2>7. CASE e.kind \in {"COMPLETED", "RETIRED"}
      <3> DEFINE d == IF k.start = NoTime THEN "NaN" ELSE "MINUTES"
      <3>1. l = [k EXCEPT !.status = e.kind, !.end = e.end, !.duration = d, !.winner = IF e.kind = "RETIRED" THEN e.winner ELSE @]
        BY <1>0, <2>1, <2>7 DEF ContestAfter, Contest
      <3>2. d \in {"NaN", "MINUTES"} /\ k.status = "IN_PROGRESS"
        BY <1>4, <2>7 DEF Permitted, StatusOf
      <3> HIDE DEF d
      <3>3. Ended(k, l, e)
        BY <2>7, <3>1, <3>2 DEF Ended
      <3> QED
        BY <1>2, <1>4, <3>3
    <2>8. CASE e.kind = "RECEIVED"
      BY <1>2, <1>4, <2>1, <2>8 DEF ContestAfter, Permitted, StatusOf, IsSettled, Noted
    <2> QED
      BY <2>2, <2>3, <2>4, <2>5, <2>6, <2>7, <2>8
  <1> QED
    BY <1>3, <1>4

(* The status of a contest only moves forward, by an event about it.       *)
LEMMA StatusStep ==
  ASSUME live \in State, NEW e \in Event, e.kind # "CORRECTED", Permitted(e), Follows(live, FactOf(e), live'), NEW c \in Contests
  PROVE  /\ IsSettled(c) => StatusOf(c)' = StatusOf(c)
         /\ StatusOf(c)' = "IN_PROGRESS" /\ StatusOf(c) # "IN_PROGRESS" =>
              /\ e.contest = c /\ StatusOf(c) = "SCHEDULED"
              /\ live'.contests[c].court = e.court
              /\ IsResolved(c) /\ Occupying(c, e.court) = {} /\ Pending(c) = {}
         /\ StatusOf(c)' = "IN_PROGRESS" /\ StatusOf(c) = "IN_PROGRESS" => live'.contests[c].court = live.contests[c].court
         /\ StatusOf(c)' \in {"COMPLETED", "RETIRED"} => StatusOf(c) = StatusOf(c)' \/ StatusOf(c) = "IN_PROGRESS"
  <1> DEFINE k == live.contests[c]
             l == live'.contests[c]
  <1>1. k \in Contest
    BY DEF State
  <1>2. \/ l.status = k.status /\ l.court = k.court
        \/ k.status = "SCHEDULED" /\ l.status = "WALKOVER"
        \/ e.contest = c /\ e.kind = "STARTED" /\ k.status = "SCHEDULED" /\ l.court = e.court /\ l.status = "IN_PROGRESS"
        \/ k.status = "IN_PROGRESS" /\ l.status \in {"COMPLETED", "RETIRED"}
    <2>1. CASE l = k
      BY <2>1
    <2>2. CASE AwardedTo(k, l, e)
      BY <2>2 DEF AwardedTo, Scheduled
    <2>3. CASE Noted(k, l, e)
      BY <1>1, <2>3 DEF Noted, Contest
    <2>4. CASE e.contest = c /\ Begun(k, l, e)
      BY <1>1, <2>4 DEF Begun, Contest
    <2>5. CASE Ended(k, l, e)
      BY <1>1, <2>5 DEF Ended, Contest
    <2> QED
      BY <2>1, <2>2, <2>3, <2>4, <2>5, ContestStep
  <1>3. StatusOf(c) = k.status /\ StatusOf(c)' = l.status
    BY DEF StatusOf
  <1> HIDE DEF k, l
  <1> QED
    BY <1>2, <1>3 DEF IsSettled, Settled, Permitted, k, l

LEMMA ResolvedStep ==
  ASSUME live \in State, NEW e \in Event, e.kind # "CORRECTED", Permitted(e), Follows(live, FactOf(e), live'), NEW c \in Contests
  PROVE  \/ live'.resolved[c] = live.resolved[c]
         \/ StatusOf(c) = "SCHEDULED" /\ live'.contests[c] = live.contests[c]
  <1>1. FactOf(e) = e
    BY DEF FactOf
  <1>2. live'.resolved[c] = live.resolved[c] \/ (e.kind = "ENTRANTS" /\ e.contest = c)
    BY <1>1 DEF Follows
  <1>3. e.kind = "ENTRANTS" => live'.contests[c] = live.contests[c]
    BY <1>1 DEF Follows, ContestKinds
  <1> QED
    BY <1>2, <1>3 DEF Permitted

(* No event that corrects nothing breaks the rules of play.                *)
LEMMA LawfulStep ==
  ASSUME live \in State, NEW e \in Event, e.kind # "CORRECTED", Permitted(e), Follows(live, FactOf(e), live'), Lawful
  PROVE  Lawful'
  <1>1. CourtHoldsOne'
    <2> SUFFICES ASSUME NEW c \in Contests, NEW d \in Contests, c # d,
                        StatusOf(c)' = "IN_PROGRESS", StatusOf(d)' = "IN_PROGRESS"
                 PROVE  live'.contests[c].court # live'.contests[d].court
      BY DEF CourtHoldsOne
    <2>1. CASE StatusOf(c) = "IN_PROGRESS" /\ StatusOf(d) = "IN_PROGRESS"
      BY <2>1, StatusStep DEF Lawful, CourtHoldsOne
    <2>2. CASE StatusOf(c) = "IN_PROGRESS" /\ StatusOf(d) # "IN_PROGRESS"
      BY <2>2, StatusStep DEF Occupying
    <2>3. CASE StatusOf(c) # "IN_PROGRESS" /\ StatusOf(d) = "IN_PROGRESS"
      BY <2>3, StatusStep DEF Occupying
    <2>4. CASE StatusOf(c) # "IN_PROGRESS" /\ StatusOf(d) # "IN_PROGRESS"
      BY <2>4, StatusStep
    <2> QED
      BY <2>1, <2>2, <2>3, <2>4
  <1>2. PlayedInOrder'
    <2> SUFFICES ASSUME NEW c \in Contests, StatusOf(c)' \in {"IN_PROGRESS", "COMPLETED", "RETIRED"}
                 PROVE  IsResolved(c)' /\ Pending(c)' = {}
      BY DEF PlayedInOrder
    <2>1. IsResolved(c) /\ Pending(c) = {}
      <3>1. CASE StatusOf(c) \in {"IN_PROGRESS", "COMPLETED", "RETIRED"}
        BY <3>1 DEF Lawful, PlayedInOrder
      <3>2. CASE StatusOf(c) \notin {"IN_PROGRESS", "COMPLETED", "RETIRED"}
        BY <3>2, StatusStep
      <3> QED
        BY <3>1, <3>2
    <2>2. live'.resolved[c] = live.resolved[c]
      BY ResolvedStep DEF StatusOf
    <2>3. \A d \in Definition[c].after : IsSettled(d) => IsSettled(d)'
      <3>1. Definition[c].after \subseteq Contests
        BY DefinitionAssumption DEF Fixture
      <3> QED
        BY <3>1, StatusStep DEF IsSettled
    <2> QED
      BY <2>1, <2>2, <2>3 DEF IsResolved, Pending
  <1>3. OnlySettledIsDecided'
    <2> SUFFICES ASSUME NEW c \in Contests
                 PROVE  /\ live'.contests[c].winner # NoEntrant => IsSettled(c)' /\ live'.contests[c].winner \in live'.resolved[c]
                        /\ live'.contests[c].received => IsSettled(c)'
      BY DEF OnlySettledIsDecided
    <2> DEFINE k == live.contests[c]
               l == live'.contests[c]
    <2>1. /\ k \in Contest
          /\ k.winner # NoEntrant => k.status \in Settled /\ k.winner \in live.resolved[c]
          /\ k.received => k.status \in Settled
      BY DEF State, Lawful, OnlySettledIsDecided, IsSettled, StatusOf
    <2>2. live'.resolved[c] = live.resolved[c] \/ (k.status = "SCHEDULED" /\ l = k)
      BY ResolvedStep DEF StatusOf
    <2>3. \/ l = k
          \/ e.contest = c /\ (AwardedTo(k, l, e) \/ Begun(k, l, e) \/ Noted(k, l, e) \/ Ended(k, l, e))
      BY ContestStep
    <2>4. IsSettled(c)' <=> l.status \in Settled
      BY DEF IsSettled, StatusOf
    <2>5. e.contest = c /\ e.kind \in {"WALKOVER", "RETIRED"} => e.winner \in live.resolved[c]
      BY DEF Permitted
    <2> HIDE DEF k, l
    <2>6. /\ l.winner # NoEntrant => l.status \in Settled /\ l.winner \in live'.resolved[c]
          /\ l.received => l.status \in Settled
      <3>1. CASE l = k
        BY <2>1, <2>2, <3>1 DEF Settled
      <3>2. CASE e.contest = c /\ AwardedTo(k, l, e)
        BY <2>2, <2>5, <3>2 DEF AwardedTo, Scheduled, Settled
      <3>3. CASE Begun(k, l, e)
        BY <2>1, <3>3 DEF Begun, Contest, Settled
      <3>4. CASE Noted(k, l, e)
        <4>1. l.winner = k.winner /\ l.status = k.status /\ (l.received => k.received \/ k.status \in Settled)
          BY <2>1, <3>4 DEF Noted, Contest
        <4> QED
          BY <2>1, <2>2, <4>1 DEF Settled
      <3>5. CASE e.contest = c /\ Ended(k, l, e)
        <4>1. /\ k.status = "IN_PROGRESS" /\ l.status = e.kind /\ e.kind \in {"COMPLETED", "RETIRED"}
              /\ l.winner = IF e.kind = "RETIRED" THEN e.winner ELSE k.winner
              /\ l.received = k.received
          BY <2>1, <3>5 DEF Ended, Contest
        <4> QED
          BY <2>1, <2>2, <2>5, <3>5, <4>1 DEF Settled
      <3> QED
        BY <2>3, <3>1, <3>2, <3>3, <3>4, <3>5
    <2> QED
      BY <2>4, <2>6 DEF k, l
  <1>4. AppealedOnce'
    <2>1. FactOf(e) = e
      BY DEF FactOf
    <2>2. ASSUME NEW a \in Appeals
          PROVE  \/ live'.appeals[a] = live.appeals[a]
                 \/ /\ e.kind = "APPEAL_RULING" /\ live.appeals[a].status = "PENDING"
                    /\ live'.appeals[a].protest = live.appeals[a].protest
                 \/ e.kind = "APPEAL" /\ e.appeal = a /\ live'.appeals[a].protest = e.protest
      <3>1. live.appeals[a] \in [status : {"NONE", "PENDING"} \union Outcomes, protest : Protests \union {"NONE"}]
        BY DEF State
      <3>2. live'.appeals[a] = CASE e.kind = "APPEAL" /\ e.appeal = a -> [status |-> "PENDING", protest |-> e.protest]
                                 [] e.kind = "APPEAL_RULING" /\ e.appeal = a -> [live.appeals[a] EXCEPT !.status = e.outcome]
                                 [] OTHER -> live.appeals[a]
        BY <2>1 DEF Follows
      <3>3. e.kind = "APPEAL_RULING" => live.appeals[e.appeal].status = "PENDING"
        BY DEF Permitted
      <3> QED
        BY <3>1, <3>2, <3>3
    <2>3. e.kind = "APPEAL" => \A b \in Appeals : live.appeals[b].protest # e.protest
      BY DEF Permitted, MayAppeal
    <2> QED
      BY <2>2, <2>3 DEF Lawful, AppealedOnce
  <1> QED
    BY <1>1, <1>2, <1>3, <1>4 DEF Lawful

(* START_CONTEST, AWARD_WALKOVER, RECORD_RESULT_RECEIPT and FILE_APPEAL:   *)
(* as long as nothing has been corrected, a court holds one contest,       *)
(* nothing is played out of order, only what is settled has a winner or a  *)
(* receipt, and a ruling is appealed once.                                 *)
THEOREM PlayIsLawful == Spec => []UncorrectedPlayIsLawful
  <1> DEFINE IInv == LogInv /\ UncorrectedPlayIsLawful
  <1>1. Init => IInv
    <2> SUFFICES ASSUME Init PROVE Lawful
      BY InitLogInv DEF UncorrectedPlayIsLawful, Lawful
    <2>1. /\ \A c \in Contests : live.contests[c] = Scheduled
          /\ \A a \in Appeals : live.appeals[a].status = "NONE"
      BY DEF Init, Initial
    <2> QED
      BY <2>1 DEF Lawful, CourtHoldsOne, PlayedInOrder, OnlySettledIsDecided, AppealedOnce, StatusOf, Scheduled
  <1>2. ASSUME IInv, [Next]_vars PROVE IInv'
    <2>1. CASE UNCHANGED vars
      <3>1. LogInv' /\ Superseded(log') = Superseded(log) /\ live' = live
        BY <1>2, <2>1, StutterLogInv DEF vars
      <3> QED
        BY <1>2, <3>1 DEF UncorrectedPlayIsLawful, CourtHoldsOne, PlayedInOrder, OnlySettledIsDecided, AppealedOnce,
                          StatusOf, IsResolved, Pending, IsSettled
    <2>2. ASSUME NEW e \in Event, Permitted(e), Record(e) PROVE IInv'
      <3>1. /\ LogInv'
            /\ live \in State
            /\ Superseded(log') = Superseded(log) \union IF e.kind = "CORRECTED" THEN {e.target} ELSE {}
            /\ e.kind # "CORRECTED" => Follows(live, FactOf(e), live')
        BY <1>2, <2>2, RecordKeepsLogInv
      <3>2. CASE e.kind = "CORRECTED"
        BY <3>1, <3>2 DEF UncorrectedPlayIsLawful
      <3>3. CASE e.kind # "CORRECTED" /\ Superseded(log) = {}
        <4>1. Lawful
          BY <1>2, <3>3 DEF UncorrectedPlayIsLawful, Lawful
        <4>2. Lawful'
          BY <2>2, <3>1, <3>3, <4>1, LawfulStep
        <4> QED
          BY <3>1, <4>2 DEF UncorrectedPlayIsLawful, Lawful
      <3> QED
        BY <3>1, <3>2, <3>3 DEF UncorrectedPlayIsLawful
    <2> QED
      BY <1>2, <2>1, <2>2, NextRecords
  <1> QED
    BY <1>1, <1>2, PTL DEF Spec

-----------------------------------------------------------------------------
(* Only a correction reopens what is settled.                              *)

(* What is settled stays as it is, but for the receipt.                    *)
LEMMA SettledStep ==
  ASSUME LogInv, [Next]_vars, ~Correcting
  PROVE  /\ \A c \in Contests : IsSettled(c) => live'.contests[c] = [live.contests[c] EXCEPT !.received = live'.contests[c].received]
         /\ \A p \in Protests : live.protests[p].status \in Outcomes => live'.protests[p] = live.protests[p]
         /\ \A a \in Appeals : live.appeals[a].status \in Outcomes => live'.appeals[a] = live.appeals[a]
  <1>0. live \in State
    BY ReplayType DEF LogInv, WellFormed
  <1>1. CASE UNCHANGED vars
    <2>1. \A c \in Contests : live.contests[c] = [live.contests[c] EXCEPT !.received = live.contests[c].received]
      BY <1>0 DEF State, Contest
    <2> QED
      BY <1>1, <2>1 DEF vars
  <1>2. ASSUME NEW e \in Event, Permitted(e), Record(e)
        PROVE  /\ \A c \in Contests : IsSettled(c) => live'.contests[c] = [live.contests[c] EXCEPT !.received = live'.contests[c].received]
               /\ \A p \in Protests : live.protests[p].status \in Outcomes => live'.protests[p] = live.protests[p]
               /\ \A a \in Appeals : live.appeals[a].status \in Outcomes => live'.appeals[a] = live.appeals[a]
    <2>1. /\ Superseded(log') = Superseded(log) \union IF e.kind = "CORRECTED" THEN {e.target} ELSE {}
          /\ e.kind # "CORRECTED" => Follows(live, FactOf(e), live')
      BY <1>2, RecordKeepsLogInv
    <2>2. e.kind # "CORRECTED"
      BY <1>2, <2>1 DEF Permitted, Correcting
    <2>3. FactOf(e) = e /\ Follows(live, e, live')
      BY <2>1, <2>2 DEF FactOf
    <2>4. ASSUME NEW c \in Contests, IsSettled(c)
          PROVE  live'.contests[c] = [live.contests[c] EXCEPT !.received = live'.contests[c].received]
      <3> DEFINE k == live.contests[c]
                 l == live'.contests[c]
      <3>1. k \in Contest /\ k.status \in Settled
        BY <1>0, <2>4 DEF State, IsSettled, StatusOf
      <3>2. \/ l = k
            \/ e.contest = c /\ (AwardedTo(k, l, e) \/ Begun(k, l, e) \/ Noted(k, l, e) \/ Ended(k, l, e))
        BY <1>0, <1>2, <2>1, <2>2, ContestStep
      <3> HIDE DEF k, l
      <3>3. l = k \/ l = [k EXCEPT !.received = TRUE]
        BY <3>1, <3>2 DEF AwardedTo, Begun, Noted, Ended, Settled
      <3>4. l = [k EXCEPT !.received = l.received]
        BY <3>1, <3>3 DEF Contest
      <3> QED
        BY <3>4 DEF k, l
    <2>5. ASSUME NEW p \in Protests, live.protests[p].status \in Outcomes
          PROVE  live'.protests[p] = live.protests[p]
      <3>1. ~(e.kind \in {"PROTEST", "RULING"} /\ e.protest = p)
        BY <1>2, <2>5 DEF Permitted, Outcomes
      <3> QED
        BY <2>3, <3>1 DEF Follows
    <2>6. ASSUME NEW a \in Appeals, live.appeals[a].status \in Outcomes
          PROVE  live'.appeals[a] = live.appeals[a]
      <3>1. ~(e.kind \in {"APPEAL", "APPEAL_RULING"} /\ e.appeal = a)
        BY <1>2, <2>6 DEF Permitted, MayAppeal, Outcomes
      <3> QED
        BY <2>3, <3>1 DEF Follows
    <2> QED
      BY <2>4, <2>5, <2>6
  <1> QED
    BY <1>1, <1>2, NextRecords

-----------------------------------------------------------------------------
(* The control room and the start of a contest read the same rules.        *)
LEMMA RoomAgrees == TypeOK => ControlRoomAgreesWithStart
  <1> SUFFICES ASSUME TypeOK, NEW c \in Contests, NEW t \in Times,
                      StatusOf(c) = "SCHEDULED", IsResolved(c), Occupying(c, Definition[c].court) = {}
               PROVE  MayStart(c, Definition[c].court, t, t) <=> HardReasons(c, t) = {}
    BY DEF ControlRoomAgreesWithStart
  <1>1. \A x \in live.resolved[c] : live.presence[x] \in Presence \union {"NONE"}
    BY DEF TypeOK
  <1>2. Missing(c) = {} <=> {live.presence[x] : x \in live.resolved[c]} \intersect {"NONE", "NO_SHOW", "WITHDRAWN"} = {}
    BY <1>1 DEF Missing, Presence
  <1>3. HardReasons(c, t) = {} <=> /\ {live.presence[x] : x \in live.resolved[c]} \intersect {"NONE", "NO_SHOW", "WITHDRAWN"} = {}
                                   /\ Pending(c) = {}
                                   /\ ~CourtClosedAt(Definition[c].court, t)
    BY DEF HardReasons
  <1> QED
    BY <1>2, <1>3 DEF MayStart

-----------------------------------------------------------------------------
(* What the latest of some events says.                                    *)

LEMMA MaxIs ==
  ASSUME NEW T \in SUBSET Int, NEW m \in T, \A y \in T : m >= y
  PROVE  Max(T) = m
  <1>1. Max(T) \in T /\ \A y \in T : Max(T) >= y
    BY DEF Max
  <1>2. Max(T) \in Int /\ m \in Int /\ Max(T) >= m /\ m >= Max(T)
    BY <1>1
  <1> QED
    BY <1>2

(* Of a value v that changes only at the positions F, to what is said      *)
(* there, nothing but the latest of them counts.                           *)
LEMMA LatestCounts ==
  ASSUME NEW n \in Nat, NEW F \in SUBSET (1..n), NEW v, NEW said,
         \A i \in 1..n : v[i] = IF i \in F THEN said[i] ELSE v[i - 1]
  PROVE  /\ F = {} => v[n] = v[0]
         /\ F # {} => Max(F) \in F /\ (\A i \in F : Max(F) >= i) /\ v[n] = said[Max(F)]
  <1> DEFINE Before(k) == F \intersect 1..k
             Latest(k) == IF Before(k) = {} THEN v[k] = v[0]
                          ELSE \E m \in Before(k) : (\A i \in Before(k) : m >= i) /\ v[k] = said[m]
             S == {k \in Nat : k <= n => Latest(k)}
  <1>1. 0 \in S
    OBVIOUS
  <1>2. ASSUME NEW k \in S PROVE k + 1 \in S
    <2>1. CASE k + 1 <= n
      <3>1. k \in Nat /\ k + 1 \in 1..n /\ (k + 1) - 1 = k /\ Latest(k)
        BY <1>2, <2>1
      <3>2. v[k + 1] = IF k + 1 \in F THEN said[k + 1] ELSE v[k]
        BY <3>1
      <3>3. CASE k + 1 \in F
        <4>1. k + 1 \in Before(k + 1) /\ \A i \in Before(k + 1) : k + 1 >= i
          BY <3>1, <3>3
        <4> QED
          BY <3>1, <3>2, <3>3, <4>1
      <3>4. CASE k + 1 \notin F
        <4>1. Before(k + 1) = Before(k)
          BY <3>1, <3>4
        <4> QED
          BY <3>1, <3>2, <3>4, <4>1
      <3> QED
        BY <3>3, <3>4
    <2> QED
      BY <1>2, <2>1
  <1> HIDE DEF S
  <1>3. S \in SUBSET Nat
    BY DEF S
  <1>4. S = Nat
    BY <1>1, <1>2, <1>3, SetInduction
  <1>5. Latest(n) /\ Before(n) = F
    <2>1. n \in S
      BY <1>4
    <2>2. Before(n) = F
      OBVIOUS
    <2> HIDE DEF Latest, Before
    <2>3. Latest(n)
      BY <2>1 DEF S
    <2> QED
      BY <2>2, <2>3
  <1>6. CASE F # {}
    <2>1. PICK m \in F : (\A i \in F : m >= i) /\ v[n] = said[m]
      BY <1>5, <1>6
    <2>2. Max(F) = m
      BY <2>1, MaxIs
    <2> QED
      BY <1>6, <2>1, <2>2
  <1> QED
    BY <1>5, <1>6

(* The projection of the log, one position after the other.                *)
LEMMA Positions ==
  ASSUME LogInv
  PROVE  /\ Len(log) \in Nat /\ DOMAIN log = 1..Len(log) /\ Standing \subseteq 1..Len(log)
         /\ live = Replay(log)[Len(log)] /\ Replay(log)[0] = Initial
         /\ \A i \in 0..Len(log) : Replay(log)[i] \in State
         /\ \A i \in 1..Len(log) :
              /\ i - 1 \in 0..Len(log)
              /\ i \in Standing => Follows(Replay(log)[i - 1], Fact(i), Replay(log)[i])
              /\ i \notin Standing => Replay(log)[i] = Replay(log)[i - 1]
         /\ \A i \in 1..Len(log) : Fact(i) = FactOf(log[i]) /\ Fact(i) \in Event \union Replacements /\ FactFields(Fact(i))
  <1>1. log \in Seq(Event) /\ live = Project(log)
    BY DEF LogInv, WellFormed
  <1>2. /\ Len(log) \in Nat /\ DOMAIN log = 1..Len(log) /\ Standing \subseteq 1..Len(log)
        /\ \A i \in 1..Len(log) : log[i] \in Event /\ i - 1 \in 0..Len(log)
    BY <1>1 DEF Standing
  <1>3. /\ live = Replay(log)[Len(log)] /\ Replay(log)[0] = Initial
        /\ \A i \in 0..Len(log) : Replay(log)[i] \in State
    BY <1>1, ReplayFacts, ReplayType
  <1>4. ASSUME NEW i \in 1..Len(log)
        PROVE  /\ i \in Standing => Follows(Replay(log)[i - 1], Fact(i), Replay(log)[i])
               /\ i \notin Standing => Replay(log)[i] = Replay(log)[i - 1]
    <2>1. Replay(log)[i] = IF i \in Superseded(log) THEN Replay(log)[i - 1] ELSE Effect(Replay(log)[i - 1], log[i])
      BY <1>1, ReplayFacts
    <2>2. i \in Standing <=> i \notin Superseded(log)
      BY <1>2 DEF Standing
    <2>3. Fact(i) = FactOf(log[i])
      BY DEF Fact, FactOf
    <2>4. Replay(log)[i - 1] \in State /\ log[i] \in Event
      BY <1>2, <1>3
    <2>5. Follows(Replay(log)[i - 1], FactOf(log[i]), Effect(Replay(log)[i - 1], log[i]))
      BY <2>4, EffectFollows
    <2> QED
      BY <2>1, <2>2, <2>3, <2>5
  <1>5. ASSUME NEW i \in 1..Len(log)
        PROVE  Fact(i) = FactOf(log[i]) /\ Fact(i) \in Event \union Replacements /\ FactFields(Fact(i))
    <2>1. log[i] \in Event
      BY <1>2
    <2>2. Fact(i) = FactOf(log[i]) /\ Fact(i) \in Event \union Replacements
      BY <2>1, EventParts DEF Fact, FactOf
    <2> QED
      BY <2>2, FactsHaveFields
  <1> QED
    BY <1>2, <1>3, <1>4, <1>5

LEMMA PresenceIsLatest ==
  ASSUME LogInv, NEW x \in Entrants
  PROVE  live.presence[x] = IF PresenceFacts(x) = {} THEN "NONE" ELSE Fact(Max(PresenceFacts(x))).status
  <1> DEFINE n == Len(log)
             v == [i \in 0..n |-> Replay(log)[i].presence[x]]
             said == [i \in 1..n |-> Fact(i).status]
             F == PresenceFacts(x)
  <1>1. n \in Nat /\ F \in SUBSET (1..n)
    BY Positions DEF PresenceFacts
  <1>2. ASSUME NEW i \in 1..n PROVE v[i] = IF i \in F THEN said[i] ELSE v[i - 1]
    <2>1. i - 1 \in 0..n /\ v[i] = Replay(log)[i].presence[x] /\ v[i - 1] = Replay(log)[i - 1].presence[x]
      BY <1>1, Positions
    <2>2. CASE i \in Standing
      <3>1. Follows(Replay(log)[i - 1], Fact(i), Replay(log)[i])
        BY <2>2, Positions
      <3> QED
        BY <2>1, <2>2, <3>1 DEF Follows, PresenceFacts
    <2>3. CASE i \notin Standing
      BY <2>1, <2>3, Positions DEF PresenceFacts
    <2> QED
      BY <2>2, <2>3
  <1>3. v[n] = live.presence[x] /\ v[0] = "NONE"
    BY <1>1, Positions DEF Initial
  <1>4. \A i \in F : said[i] = Fact(i).status
    BY <1>1
  <1> HIDE DEF v, n, F, said
  <1>5. /\ F = {} => v[n] = v[0]
        /\ F # {} => Max(F) \in F /\ (\A i \in F : Max(F) >= i) /\ v[n] = said[Max(F)]
    BY <1>1, <1>2, LatestCounts
  <1> QED
    BY <1>3, <1>4, <1>5 DEF F

LEMMA YesIsLatest ==
  ASSUME LogInv, NEW r \in Resources
  PROVE  live.available[r].yes = IF ResourceFacts(r) = {} THEN TRUE ELSE Fact(Max(ResourceFacts(r))).yes
  <1> DEFINE n == Len(log)
             v == [i \in 0..n |-> Replay(log)[i].available[r].yes]
             said == [i \in 1..n |-> Fact(i).yes]
             F == ResourceFacts(r)
  <1>1. n \in Nat /\ F \in SUBSET (1..n)
    BY Positions DEF ResourceFacts
  <1>2. ASSUME NEW i \in 1..n PROVE v[i] = IF i \in F THEN said[i] ELSE v[i - 1]
    <2>1. i - 1 \in 0..n /\ v[i] = Replay(log)[i].available[r].yes /\ v[i - 1] = Replay(log)[i - 1].available[r].yes
      BY <1>1, Positions
    <2>2. CASE i \in Standing
      <3>1. Follows(Replay(log)[i - 1], Fact(i), Replay(log)[i])
        BY <2>2, Positions
      <3>2. Replay(log)[i].available[r] = IF i \in F THEN [yes |-> Fact(i).yes, until |-> Fact(i).until]
                                          ELSE Replay(log)[i - 1].available[r]
        BY <2>2, <3>1 DEF Follows, ResourceFacts
      <3> QED
        BY <2>1, <3>2
    <2>3. CASE i \notin Standing
      BY <2>1, <2>3, Positions DEF ResourceFacts
    <2> QED
      BY <2>2, <2>3
  <1>3. v[n] = live.available[r].yes /\ v[0] = TRUE
    BY <1>1, Positions DEF Initial
  <1>4. \A i \in F : said[i] = Fact(i).yes
    BY <1>1
  <1> HIDE DEF v, n, F, said
  <1>5. /\ F = {} => v[n] = v[0]
        /\ F # {} => Max(F) \in F /\ (\A i \in F : Max(F) >= i) /\ v[n] = said[Max(F)]
    BY <1>1, <1>2, LatestCounts
  <1> QED
    BY <1>3, <1>4, <1>5 DEF F

(* The status a contest is left with by a fact about it.                   *)
LEMMA StatusAfter ==
  ASSUME NEW k \in Contest, NEW f, f.kind \in ContestKinds
  PROVE  ContestAfter(k, f).status = IF f.kind \in {"STARTED", "SET_TIMING"} \union Settled THEN StatusSaid(f) ELSE k.status
  <1>1. CASE f.kind = "SET_TIMING"
    BY <1>1 DEF ContestAfter, StatusSaid, Contest, Settled
  <1>2. CASE f.kind = "STARTED"
    BY <1>2 DEF ContestAfter, StatusSaid, Contest, Settled
  <1>3. CASE f.kind \in Settled
    <2>1. CASE f.kind = "WALKOVER"
      BY <2>1 DEF ContestAfter, StatusSaid, Contest, Settled, Scheduled
    <2>2. CASE f.kind = "COMPLETED"
      <3>1. ContestAfter(k, f).status = "COMPLETED"
        BY <2>2 DEF ContestAfter, Contest
      <3>2. StatusSaid(f) = "COMPLETED"
        BY <2>2 DEF StatusSaid, Settled
      <3> QED
        BY <1>3, <2>2, <3>1, <3>2
    <2>3. CASE f.kind = "RETIRED"
      <3>1. ContestAfter(k, f).status = "RETIRED"
        BY <2>3 DEF ContestAfter, Contest
      <3>2. StatusSaid(f) = "RETIRED"
        BY <2>3 DEF StatusSaid, Settled
      <3> QED
        BY <1>3, <2>3, <3>1, <3>2
    <2> QED
      BY <1>3, <2>1, <2>2, <2>3 DEF Settled
  <1>4. CASE f.kind \notin {"STARTED", "SET_TIMING"} \union Settled
    <2>1. f.kind \in {"CALLED", "SCORED", "SET_SCORE", "RECEIVED"}
      BY <1>4 DEF ContestKinds, Settled
    <2> QED
      BY <1>4, <2>1 DEF ContestAfter, Contest
  <1> QED
    BY <1>1, <1>2, <1>3, <1>4

LEMMA StatusIsLatest ==
  ASSUME LogInv, NEW c \in Contests
  PROVE  StatusOf(c) = IF StatusFacts(c) = {} THEN "SCHEDULED" ELSE StatusSaid(Fact(Max(StatusFacts(c))))
  <1> DEFINE n == Len(log)
             v == [i \in 0..n |-> Replay(log)[i].contests[c].status]
             said == [i \in 1..n |-> StatusSaid(Fact(i))]
             F == StatusFacts(c)
  <1>1. n \in Nat /\ F \in SUBSET (1..n)
    BY Positions DEF StatusFacts
  <1>2. ASSUME NEW i \in 1..n PROVE v[i] = IF i \in F THEN said[i] ELSE v[i - 1]
    <2>1. i - 1 \in 0..n /\ v[i] = Replay(log)[i].contests[c].status /\ v[i - 1] = Replay(log)[i - 1].contests[c].status
      BY <1>1, Positions
    <2>2. CASE i \in Standing
      <3> DEFINE f == Fact(i)
                 k == Replay(log)[i - 1].contests[c]
      <3>1. Follows(Replay(log)[i - 1], f, Replay(log)[i])
        BY <2>2, Positions
      <3>2. k \in Contest
        <4>1. Replay(log)[i - 1] \in State
          BY <2>1, Positions
        <4> QED
          BY <4>1 DEF State
      <3>3. Replay(log)[i].contests[c] = IF f.kind \in ContestKinds /\ f.contest = c THEN ContestAfter(k, f) ELSE k
        BY <3>1 DEF Follows
      <3>4. i \in F <=> f.kind \in {"STARTED", "SET_TIMING"} \union Settled /\ f.contest = c
        BY <2>2 DEF StatusFacts
      <3>5. {"STARTED", "SET_TIMING"} \union Settled \subseteq ContestKinds
        BY DEF Settled, ContestKinds
      <3>6. said[i] = StatusSaid(f)
        OBVIOUS
      <3> HIDE DEF f, k, F, said
      <3>7. CASE f.kind \in ContestKinds /\ f.contest = c
        <4>1. Replay(log)[i].contests[c].status =
                IF f.kind \in {"STARTED", "SET_TIMING"} \union Settled THEN StatusSaid(f) ELSE k.status
          BY <3>2, <3>3, <3>7, StatusAfter
        <4> QED
          BY <2>1, <3>4, <3>6, <3>7, <4>1 DEF k
      <3>8. CASE ~(f.kind \in ContestKinds /\ f.contest = c)
        BY <2>1, <3>3, <3>4, <3>5, <3>8 DEF k
      <3> QED
        BY <3>7, <3>8
    <2>3. CASE i \notin Standing
      BY <2>1, <2>3, Positions DEF StatusFacts
    <2> QED
      BY <2>2, <2>3
  <1>3. v[n] = StatusOf(c) /\ v[0] = "SCHEDULED"
    BY <1>1, Positions DEF Initial, Scheduled, StatusOf
  <1>4. \A i \in F : said[i] = StatusSaid(Fact(i))
    BY <1>1
  <1> HIDE DEF v, n, F, said
  <1>5. /\ F = {} => v[n] = v[0]
        /\ F # {} => Max(F) \in F /\ (\A i \in F : Max(F) >= i) /\ v[n] = said[Max(F)]
    BY <1>1, <1>2, LatestCounts
  <1> QED
    BY <1>3, <1>4, <1>5 DEF F

LEMMA LatestFactsHold == LogInv => LatestStandingFactHolds
  BY PresenceIsLatest, YesIsLatest, StatusIsLatest DEF LatestStandingFactHolds

-----------------------------------------------------------------------------
(* The disputes of the log.                                                *)

Filings(p) == {i \in Standing : Fact(i).kind = "PROTEST" /\ Fact(i).protest = p}
ProtestFacts(p) == {i \in Standing : Fact(i).kind \in {"PROTEST", "RULING"} /\ Fact(i).protest = p}
AppealFilings(a) == {i \in Standing : Fact(i).kind = "APPEAL" /\ Fact(i).appeal = a}
AppealFacts(a) == {i \in Standing : Fact(i).kind \in {"APPEAL", "APPEAL_RULING"} /\ Fact(i).appeal = a}

Said(f) == IF f.kind \in {"PROTEST", "APPEAL"} THEN "PENDING" ELSE f.outcome

(* What became of a protest or an appeal is what the latest standing event *)
(* about it says, and what it is about is what its latest filing says.     *)
LEMMA ProtestStatusIsLatest ==
  ASSUME LogInv, NEW p \in Protests
  PROVE  /\ ProtestFacts(p) = {} => live.protests[p].status = "NONE"
         /\ ProtestFacts(p) # {} => /\ Max(ProtestFacts(p)) \in ProtestFacts(p)
                  /\ \A i \in ProtestFacts(p) : Max(ProtestFacts(p)) >= i
                  /\ live.protests[p].status = Said(Fact(Max(ProtestFacts(p))))
  <1> DEFINE n == Len(log)
             v == [i \in 0..n |-> Replay(log)[i].protests[p].status]
             said == [i \in 1..n |-> Said(Fact(i))]
             F == ProtestFacts(p)
  <1>1. n \in Nat /\ F \in SUBSET (1..n)
    BY Positions DEF ProtestFacts
  <1>2. ASSUME NEW i \in 1..n PROVE v[i] = IF i \in F THEN said[i] ELSE v[i - 1]
    <2>1. /\ i - 1 \in 0..n
          /\ v[i] = Replay(log)[i].protests[p].status /\ v[i - 1] = Replay(log)[i - 1].protests[p].status
          /\ said[i] = Said(Fact(i))
      BY <1>1, Positions
    <2>2. CASE i \in Standing
      <3> DEFINE f == Fact(i)
                 k == Replay(log)[i - 1].protests[p]
                 l == Replay(log)[i].protests[p]
      <3>1. Follows(Replay(log)[i - 1], f, Replay(log)[i])
        BY <2>2, Positions
      <3>2. Replay(log)[i - 1] \in State
        BY <2>1, Positions
      <3>3. l = CASE f.kind = "PROTEST" /\ f.protest = p -> [status |-> "PENDING", contest |-> f.contest]
                  [] f.kind = "RULING" /\ f.protest = p -> [k EXCEPT !.status = f.outcome]
                  [] OTHER -> k
        BY <3>1 DEF Follows
      <3>4. k \in [status : {"NONE", "PENDING"} \union Outcomes, contest : Contests \union {NoContest}]
        BY <3>2 DEF State
      <3>5. i \in F <=> f.kind \in {"PROTEST", "RULING"} /\ f.protest = p
        BY <2>2 DEF ProtestFacts
      <3>6. v[i] = l.status /\ v[i - 1] = k.status /\ said[i] = Said(f)
        BY <2>1
      <3> HIDE DEF f, k, l, v, said, F
      <3>7. CASE f.kind = "PROTEST" /\ f.protest = p
        BY <3>3, <3>4, <3>5, <3>6, <3>7 DEF Said
      <3>8. CASE f.kind = "RULING" /\ f.protest = p
        BY <3>3, <3>4, <3>5, <3>6, <3>8 DEF Said
      <3>9. CASE ~(f.kind = "PROTEST" /\ f.protest = p) /\ ~(f.kind = "RULING" /\ f.protest = p)
        BY <3>3, <3>5, <3>6, <3>9
      <3> QED
        BY <3>7, <3>8, <3>9
    <2>3. CASE i \notin Standing
      BY <2>1, <2>3, Positions DEF ProtestFacts
    <2> QED
      BY <2>2, <2>3
  <1>3. v[n] = live.protests[p].status /\ v[0] = "NONE"
    BY <1>1, Positions DEF Initial
  <1>4. \A i \in F : said[i] = Said(Fact(i))
    BY <1>1
  <1> HIDE DEF v, n, F, said
  <1>5. /\ F = {} => v[n] = v[0]
        /\ F # {} => Max(F) \in F /\ (\A i \in F : Max(F) >= i) /\ v[n] = said[Max(F)]
    BY <1>1, <1>2, LatestCounts
  <1> QED
    BY <1>3, <1>4, <1>5 DEF F

LEMMA ProtestContestIsLatest ==
  ASSUME LogInv, NEW p \in Protests
  PROVE  /\ Filings(p) = {} => live.protests[p].contest = NoContest
         /\ Filings(p) # {} => /\ Max(Filings(p)) \in Filings(p)
                  /\ \A i \in Filings(p) : Max(Filings(p)) >= i
                  /\ live.protests[p].contest = Fact(Max(Filings(p))).contest
  <1> DEFINE n == Len(log)
             v == [i \in 0..n |-> Replay(log)[i].protests[p].contest]
             said == [i \in 1..n |-> Fact(i).contest]
             F == Filings(p)
  <1>1. n \in Nat /\ F \in SUBSET (1..n)
    BY Positions DEF Filings
  <1>2. ASSUME NEW i \in 1..n PROVE v[i] = IF i \in F THEN said[i] ELSE v[i - 1]
    <2>1. /\ i - 1 \in 0..n
          /\ v[i] = Replay(log)[i].protests[p].contest /\ v[i - 1] = Replay(log)[i - 1].protests[p].contest
          /\ said[i] = Fact(i).contest
      BY <1>1, Positions
    <2>2. CASE i \in Standing
      <3> DEFINE f == Fact(i)
                 k == Replay(log)[i - 1].protests[p]
                 l == Replay(log)[i].protests[p]
      <3>1. Follows(Replay(log)[i - 1], f, Replay(log)[i])
        BY <2>2, Positions
      <3>2. Replay(log)[i - 1] \in State
        BY <2>1, Positions
      <3>3. l = CASE f.kind = "PROTEST" /\ f.protest = p -> [status |-> "PENDING", contest |-> f.contest]
                  [] f.kind = "RULING" /\ f.protest = p -> [k EXCEPT !.status = f.outcome]
                  [] OTHER -> k
        BY <3>1 DEF Follows
      <3>4. k \in [status : {"NONE", "PENDING"} \union Outcomes, contest : Contests \union {NoContest}]
        BY <3>2 DEF State
      <3>5. i \in F <=> f.kind = "PROTEST" /\ f.protest = p
        BY <2>2 DEF Filings
      <3>6. v[i] = l.contest /\ v[i - 1] = k.contest /\ said[i] = f.contest
        BY <2>1
      <3> HIDE DEF f, k, l, v, said, F
      <3>7. CASE f.kind = "PROTEST" /\ f.protest = p
        BY <3>3, <3>4, <3>5, <3>6, <3>7 DEF Said
      <3>8. CASE f.kind = "RULING" /\ f.protest = p
        BY <3>3, <3>4, <3>5, <3>6, <3>8 DEF Said
      <3>9. CASE ~(f.kind = "PROTEST" /\ f.protest = p) /\ ~(f.kind = "RULING" /\ f.protest = p)
        BY <3>3, <3>5, <3>6, <3>9
      <3> QED
        BY <3>7, <3>8, <3>9
    <2>3. CASE i \notin Standing
      BY <2>1, <2>3, Positions DEF Filings
    <2> QED
      BY <2>2, <2>3
  <1>3. v[n] = live.protests[p].contest /\ v[0] = NoContest
    BY <1>1, Positions DEF Initial
  <1>4. \A i \in F : said[i] = Fact(i).contest
    BY <1>1
  <1> HIDE DEF v, n, F, said
  <1>5. /\ F = {} => v[n] = v[0]
        /\ F # {} => Max(F) \in F /\ (\A i \in F : Max(F) >= i) /\ v[n] = said[Max(F)]
    BY <1>1, <1>2, LatestCounts
  <1> QED
    BY <1>3, <1>4, <1>5 DEF F

LEMMA AppealStatusIsLatest ==
  ASSUME LogInv, NEW a \in Appeals
  PROVE  /\ AppealFacts(a) = {} => live.appeals[a].status = "NONE"
         /\ AppealFacts(a) # {} => /\ Max(AppealFacts(a)) \in AppealFacts(a)
                  /\ \A i \in AppealFacts(a) : Max(AppealFacts(a)) >= i
                  /\ live.appeals[a].status = Said(Fact(Max(AppealFacts(a))))
  <1> DEFINE n == Len(log)
             v == [i \in 0..n |-> Replay(log)[i].appeals[a].status]
             said == [i \in 1..n |-> Said(Fact(i))]
             F == AppealFacts(a)
  <1>1. n \in Nat /\ F \in SUBSET (1..n)
    BY Positions DEF AppealFacts
  <1>2. ASSUME NEW i \in 1..n PROVE v[i] = IF i \in F THEN said[i] ELSE v[i - 1]
    <2>1. /\ i - 1 \in 0..n
          /\ v[i] = Replay(log)[i].appeals[a].status /\ v[i - 1] = Replay(log)[i - 1].appeals[a].status
          /\ said[i] = Said(Fact(i))
      BY <1>1, Positions
    <2>2. CASE i \in Standing
      <3> DEFINE f == Fact(i)
                 k == Replay(log)[i - 1].appeals[a]
                 l == Replay(log)[i].appeals[a]
      <3>1. Follows(Replay(log)[i - 1], f, Replay(log)[i])
        BY <2>2, Positions
      <3>2. Replay(log)[i - 1] \in State
        BY <2>1, Positions
      <3>3. l = CASE f.kind = "APPEAL" /\ f.appeal = a -> [status |-> "PENDING", protest |-> f.protest]
                  [] f.kind = "APPEAL_RULING" /\ f.appeal = a -> [k EXCEPT !.status = f.outcome]
                  [] OTHER -> k
        BY <3>1 DEF Follows
      <3>4. k \in [status : {"NONE", "PENDING"} \union Outcomes, protest : Protests \union {"NONE"}]
        BY <3>2 DEF State
      <3>5. i \in F <=> f.kind \in {"APPEAL", "APPEAL_RULING"} /\ f.appeal = a
        BY <2>2 DEF AppealFacts
      <3>6. v[i] = l.status /\ v[i - 1] = k.status /\ said[i] = Said(f)
        BY <2>1
      <3> HIDE DEF f, k, l, v, said, F
      <3>7. CASE f.kind = "APPEAL" /\ f.appeal = a
        BY <3>3, <3>4, <3>5, <3>6, <3>7 DEF Said
      <3>8. CASE f.kind = "APPEAL_RULING" /\ f.appeal = a
        BY <3>3, <3>4, <3>5, <3>6, <3>8 DEF Said
      <3>9. CASE ~(f.kind = "APPEAL" /\ f.appeal = a) /\ ~(f.kind = "APPEAL_RULING" /\ f.appeal = a)
        BY <3>3, <3>5, <3>6, <3>9
      <3> QED
        BY <3>7, <3>8, <3>9
    <2>3. CASE i \notin Standing
      BY <2>1, <2>3, Positions DEF AppealFacts
    <2> QED
      BY <2>2, <2>3
  <1>3. v[n] = live.appeals[a].status /\ v[0] = "NONE"
    BY <1>1, Positions DEF Initial
  <1>4. \A i \in F : said[i] = Said(Fact(i))
    BY <1>1
  <1> HIDE DEF v, n, F, said
  <1>5. /\ F = {} => v[n] = v[0]
        /\ F # {} => Max(F) \in F /\ (\A i \in F : Max(F) >= i) /\ v[n] = said[Max(F)]
    BY <1>1, <1>2, LatestCounts
  <1> QED
    BY <1>3, <1>4, <1>5 DEF F

LEMMA AppealProtestIsLatest ==
  ASSUME LogInv, NEW a \in Appeals
  PROVE  /\ AppealFilings(a) = {} => live.appeals[a].protest = "NONE"
         /\ AppealFilings(a) # {} => /\ Max(AppealFilings(a)) \in AppealFilings(a)
                  /\ \A i \in AppealFilings(a) : Max(AppealFilings(a)) >= i
                  /\ live.appeals[a].protest = Fact(Max(AppealFilings(a))).protest
  <1> DEFINE n == Len(log)
             v == [i \in 0..n |-> Replay(log)[i].appeals[a].protest]
             said == [i \in 1..n |-> Fact(i).protest]
             F == AppealFilings(a)
  <1>1. n \in Nat /\ F \in SUBSET (1..n)
    BY Positions DEF AppealFilings
  <1>2. ASSUME NEW i \in 1..n PROVE v[i] = IF i \in F THEN said[i] ELSE v[i - 1]
    <2>1. /\ i - 1 \in 0..n
          /\ v[i] = Replay(log)[i].appeals[a].protest /\ v[i - 1] = Replay(log)[i - 1].appeals[a].protest
          /\ said[i] = Fact(i).protest
      BY <1>1, Positions
    <2>2. CASE i \in Standing
      <3> DEFINE f == Fact(i)
                 k == Replay(log)[i - 1].appeals[a]
                 l == Replay(log)[i].appeals[a]
      <3>1. Follows(Replay(log)[i - 1], f, Replay(log)[i])
        BY <2>2, Positions
      <3>2. Replay(log)[i - 1] \in State
        BY <2>1, Positions
      <3>3. l = CASE f.kind = "APPEAL" /\ f.appeal = a -> [status |-> "PENDING", protest |-> f.protest]
                  [] f.kind = "APPEAL_RULING" /\ f.appeal = a -> [k EXCEPT !.status = f.outcome]
                  [] OTHER -> k
        BY <3>1 DEF Follows
      <3>4. k \in [status : {"NONE", "PENDING"} \union Outcomes, protest : Protests \union {"NONE"}]
        BY <3>2 DEF State
      <3>5. i \in F <=> f.kind = "APPEAL" /\ f.appeal = a
        BY <2>2 DEF AppealFilings
      <3>6. v[i] = l.protest /\ v[i - 1] = k.protest /\ said[i] = f.protest
        BY <2>1
      <3> HIDE DEF f, k, l, v, said, F
      <3>7. CASE f.kind = "APPEAL" /\ f.appeal = a
        BY <3>3, <3>4, <3>5, <3>6, <3>7 DEF Said
      <3>8. CASE f.kind = "APPEAL_RULING" /\ f.appeal = a
        BY <3>3, <3>4, <3>5, <3>6, <3>8 DEF Said
      <3>9. CASE ~(f.kind = "APPEAL" /\ f.appeal = a) /\ ~(f.kind = "APPEAL_RULING" /\ f.appeal = a)
        BY <3>3, <3>5, <3>6, <3>9
      <3> QED
        BY <3>7, <3>8, <3>9
    <2>3. CASE i \notin Standing
      BY <2>1, <2>3, Positions DEF AppealFilings
    <2> QED
      BY <2>2, <2>3
  <1>3. v[n] = live.appeals[a].protest /\ v[0] = "NONE"
    BY <1>1, Positions DEF Initial
  <1>4. \A i \in F : said[i] = Fact(i).protest
    BY <1>1
  <1> HIDE DEF v, n, F, said
  <1>5. /\ F = {} => v[n] = v[0]
        /\ F # {} => Max(F) \in F /\ (\A i \in F : Max(F) >= i) /\ v[n] = said[Max(F)]
    BY <1>1, <1>2, LatestCounts
  <1> QED
    BY <1>3, <1>4, <1>5 DEF F

(* What a standing protest or appeal leaves is never "NONE" again.         *)
LEMMA FiledIsKnown ==
  ASSUME LogInv, NEW i \in Standing
  PROVE  /\ Fact(i).kind = "PROTEST" => live.protests[Fact(i).protest].status # "NONE"
         /\ Fact(i).kind = "APPEAL" => live.appeals[Fact(i).appeal].status # "NONE"
  <1>1. /\ Standing \subseteq 1..Len(log)
        /\ \A j \in Standing : FactFields(Fact(j))
    BY Positions
  <1>2. ASSUME Fact(i).kind = "PROTEST" PROVE live.protests[Fact(i).protest].status # "NONE"
    <2> DEFINE p == Fact(i).protest
               m == Max(ProtestFacts(p))
    <2>1. p \in Protests /\ i \in ProtestFacts(p)
      BY <1>1, <1>2 DEF FactFields, ProtestFacts
    <2>2. m \in ProtestFacts(p) /\ live.protests[p].status = Said(Fact(m))
      BY <2>1, ProtestStatusIsLatest
    <2>3. Said(Fact(m)) # "NONE"
      BY <1>1, <2>2 DEF FactFields, ProtestFacts, Said, Outcomes
    <2> QED
      BY <2>2, <2>3
  <1>3. ASSUME Fact(i).kind = "APPEAL" PROVE live.appeals[Fact(i).appeal].status # "NONE"
    <2> DEFINE a == Fact(i).appeal
               m == Max(AppealFacts(a))
    <2>1. a \in Appeals /\ i \in AppealFacts(a)
      BY <1>1, <1>3 DEF FactFields, AppealFacts
    <2>2. m \in AppealFacts(a) /\ live.appeals[a].status = Said(Fact(m))
      BY <2>1, AppealStatusIsLatest
    <2>3. Said(Fact(m)) # "NONE"
      BY <1>1, <2>2 DEF FactFields, AppealFacts, Said, Outcomes
    <2> QED
      BY <2>2, <2>3
  <1> QED
    BY <1>2, <1>3

(* FILE_PROTEST and FILE_APPEAL refuse a name that is taken, and taking    *)
(* out a later event frees none whose filing stands.                       *)
FiledOnce ==
  \A i, j \in Standing :
    /\ Fact(i).kind = "PROTEST" /\ Fact(j).kind = "PROTEST" /\ Fact(i).protest = Fact(j).protest => i = j
    /\ Fact(i).kind = "APPEAL" /\ Fact(j).kind = "APPEAL" /\ Fact(i).appeal = Fact(j).appeal => i = j

(* The guards of FILE_PROTEST and FILE_APPEAL read the projected state: a  *)
(* name is free only if no filing of it stands.                            *)
LEMMA RecordKeepsFiledOnce ==
  ASSUME LogInv, FiledOnce, NEW e \in Event, Permitted(e), Record(e)
  PROVE  FiledOnce'
  <1>0. PICK n : n = Len(log)
    OBVIOUS
  <1>1. /\ log \in Seq(Event) /\ log' = Append(log, e)
        /\ Superseded(log') = Superseded(log) \union IF e.kind = "CORRECTED" THEN {e.target} ELSE {}
    BY RecordKeepsLogInv DEF LogInv, WellFormed
  <1>2. /\ n \in Nat /\ DOMAIN log = 1..n /\ DOMAIN log' = 1..(n + 1)
        /\ \A i \in 1..n : log'[i] = log[i]
        /\ log'[n + 1] = e
    BY <1>0, <1>1, AppendedTo
  <1>3. \A i \in Standing' : i \in Standing \/ i = n + 1
    BY <1>1, <1>2 DEF Standing
  <1>4. \A i \in Standing : i \in 1..n /\ Fact(i)' = Fact(i)
    BY <1>2 DEF Standing, Fact
  <1>5. Fact(n + 1)' = FactOf(e)
    BY <1>2 DEF Fact, FactOf
  <1>6. FactOf(e).kind \in {"PROTEST", "APPEAL"} => FactOf(e) = e
    BY EventParts, ReplacementKinds DEF FactOf
  <1>7. ASSUME NEW j \in Standing
        PROVE  /\ ~(FactOf(e).kind = "PROTEST" /\ Fact(j).kind = "PROTEST" /\ FactOf(e).protest = Fact(j).protest)
               /\ ~(FactOf(e).kind = "APPEAL" /\ Fact(j).kind = "APPEAL" /\ FactOf(e).appeal = Fact(j).appeal)
    BY <1>6, FiledIsKnown DEF Permitted, MayAppeal
  <1>8. ASSUME NEW i \in Standing', NEW j \in Standing'
        PROVE  /\ (Fact(i).kind = "PROTEST" /\ Fact(j).kind = "PROTEST" /\ Fact(i).protest = Fact(j).protest)' => i = j
               /\ (Fact(i).kind = "APPEAL" /\ Fact(j).kind = "APPEAL" /\ Fact(i).appeal = Fact(j).appeal)' => i = j
    <2>1. CASE i \in Standing /\ j \in Standing
      BY <1>4, <2>1 DEF FiledOnce
    <2>2. CASE i = n + 1 /\ j \in Standing
      BY <1>4, <1>5, <1>7, <2>2
    <2>3. CASE i \in Standing /\ j = n + 1
      BY <1>4, <1>5, <1>7, <2>3
    <2>4. CASE i = n + 1 /\ j = n + 1
      BY <2>4
    <2> QED
      BY <1>3, <2>1, <2>2, <2>3, <2>4
  <1> QED
    BY <1>8 DEF FiledOnce

(* The control room looks at the protests and appeals that are pending in  *)
(* the state, the log at the filings without a later ruling.               *)
LEMMA DisputesShown ==
  ASSUME LogInv, FiledOnce
  PROVE  DisputesAreShown
  <1> SUFFICES ASSUME NEW c \in Contests
               PROVE  /\ PendingProtests(c) # {} <=>
                           \E p \in Protests : \E i \in Protested(p, c) :
                             ~\E j \in Standing : j > i /\ Fact(j).kind = "RULING" /\ Fact(j).protest = p
                      /\ PendingAppeals(c) # {} <=>
                           \E i \in Standing :
                             /\ Fact(i).kind = "APPEAL" /\ Protested(Fact(i).protest, c) # {}
                             /\ ~\E j \in Standing : j > i /\ Fact(j).kind = "APPEAL_RULING" /\ Fact(j).appeal = Fact(i).appeal
    BY DEF DisputesAreShown, OtherReasons, Answered
  <1>1. /\ Standing \subseteq Nat
        /\ \A j \in Standing : FactFields(Fact(j))
    BY Positions
  <1>2. Definition[c].after \subseteq Contests
    BY DefinitionAssumption DEF Fixture
  <1>3. ASSUME NEW p \in Protests
        PROVE  DependsOn(p, c) <=> Protested(p, c) # {}
    <2>1. CASE Filings(p) = {}
      <3>1. live.protests[p].contest = NoContest
        BY <2>1, ProtestContestIsLatest
      <3> QED
        BY <1>2, <2>1, <3>1, DefinitionAssumption DEF DependsOn, Protested, Filings
    <2>2. CASE Filings(p) # {}
      <3> DEFINE m == Max(Filings(p))
      <3>1. m \in Filings(p) /\ live.protests[p].contest = Fact(m).contest
        BY <2>2, ProtestContestIsLatest
      <3> HIDE DEF m
      <3>2. \A i \in Filings(p) : i = m
        BY <3>1 DEF FiledOnce, Filings
      <3> QED
        BY <3>1, <3>2 DEF DependsOn, Protested, Filings
    <2> QED
      BY <2>1, <2>2
  <1>4. ASSUME NEW p \in Protests, NEW i \in Standing, Fact(i).kind = "PROTEST", Fact(i).protest = p
        PROVE  live.protests[p].status = "PENDING" <=>
                 ~\E j \in Standing : j > i /\ Fact(j).kind = "RULING" /\ Fact(j).protest = p
    <2> DEFINE m == Max(ProtestFacts(p))
    <2>1. i \in ProtestFacts(p)
      BY <1>4 DEF ProtestFacts
    <2>2. m \in ProtestFacts(p) /\ (\A j \in ProtestFacts(p) : m >= j) /\ live.protests[p].status = Said(Fact(m))
      BY <2>1, ProtestStatusIsLatest
    <2> HIDE DEF m
    <2>3. m \in Standing /\ m \in Nat /\ i \in Nat /\ m >= i /\ Fact(m).kind \in {"PROTEST", "RULING"} /\ Fact(m).protest = p
      BY <1>1, <2>1, <2>2 DEF ProtestFacts
    <2>4. CASE Fact(m).kind = "PROTEST"
      <3>1. m = i
        BY <1>4, <2>3, <2>4 DEF FiledOnce
      <3>2. \A j \in Standing : Fact(j).kind = "RULING" /\ Fact(j).protest = p => i >= j
        BY <2>2, <3>1 DEF ProtestFacts
      <3>3. live.protests[p].status = "PENDING"
        BY <2>2, <2>4 DEF Said
      <3> QED
        BY <1>1, <2>3, <3>2, <3>3
    <2>5. CASE Fact(m).kind = "RULING"
      <3>1. m > i
        BY <1>4, <2>3, <2>5
      <3>2. live.protests[p].status # "PENDING"
        BY <1>1, <2>2, <2>3, <2>5 DEF Said, FactFields, Outcomes
      <3> QED
        BY <2>3, <2>5, <3>1, <3>2
    <2> QED
      BY <2>3, <2>4, <2>5
  <1>5. ASSUME NEW i \in Standing, Fact(i).kind = "APPEAL"
        PROVE  /\ live.appeals[Fact(i).appeal].protest = Fact(i).protest
               /\ live.appeals[Fact(i).appeal].status = "PENDING" <=>
                    ~\E j \in Standing : j > i /\ Fact(j).kind = "APPEAL_RULING" /\ Fact(j).appeal = Fact(i).appeal
    <2> DEFINE a == Fact(i).appeal
               m == Max(AppealFacts(a))
               k == Max(AppealFilings(a))
    <2>1. a \in Appeals /\ i \in AppealFacts(a) /\ i \in AppealFilings(a)
      BY <1>1, <1>5 DEF AppealFacts, AppealFilings, FactFields
    <2>2. m \in AppealFacts(a) /\ (\A j \in AppealFacts(a) : m >= j) /\ live.appeals[a].status = Said(Fact(m))
      BY <2>1, AppealStatusIsLatest
    <2>3. k \in AppealFilings(a) /\ live.appeals[a].protest = Fact(k).protest
      BY <2>1, AppealProtestIsLatest
    <2> HIDE DEF m, k
    <2>4. k = i
      BY <2>1, <2>3 DEF FiledOnce, AppealFilings
    <2>5. m \in Standing /\ m \in Nat /\ i \in Nat /\ m >= i /\ Fact(m).kind \in {"APPEAL", "APPEAL_RULING"} /\ Fact(m).appeal = a
      BY <1>1, <2>1, <2>2 DEF AppealFacts
    <2>6. CASE Fact(m).kind = "APPEAL"
      <3>1. m = i
        BY <1>5, <2>5, <2>6 DEF FiledOnce
      <3>2. \A j \in Standing : Fact(j).kind = "APPEAL_RULING" /\ Fact(j).appeal = a => i >= j
        BY <2>2, <3>1 DEF AppealFacts
      <3>3. live.appeals[a].status = "PENDING"
        BY <2>2, <2>6 DEF Said
      <3> QED
        BY <1>1, <2>3, <2>4, <2>5, <3>2, <3>3
    <2>7. CASE Fact(m).kind = "APPEAL_RULING"
      <3>1. m > i
        BY <1>5, <2>5, <2>7
      <3>2. live.appeals[a].status # "PENDING"
        BY <1>1, <2>2, <2>5, <2>7 DEF Said, FactFields, Outcomes
      <3> QED
        BY <2>3, <2>4, <2>5, <2>7, <3>1, <3>2
    <2> QED
      BY <2>5, <2>6, <2>7
  <1>6. PendingProtests(c) # {} <=>
          \E p \in Protests : \E i \in Protested(p, c) :
            ~\E j \in Standing : j > i /\ Fact(j).kind = "RULING" /\ Fact(j).protest = p
    <2>1. \A p \in Protests : \A i \in Protested(p, c) : i \in Standing /\ Fact(i).kind = "PROTEST" /\ Fact(i).protest = p
      BY DEF Protested
    <2>2. \A p \in Protests : p \in PendingProtests(c) <=> Protested(p, c) # {} /\ live.protests[p].status = "PENDING"
      BY <1>3 DEF PendingProtests
    <2>3. PendingProtests(c) \subseteq Protests
      BY DEF PendingProtests
    <2> QED
      BY <1>4, <2>1, <2>2, <2>3
  <1>7. ASSUME NEW a \in PendingAppeals(c)
        PROVE  \E i \in Standing :
                 /\ Fact(i).kind = "APPEAL" /\ Protested(Fact(i).protest, c) # {}
                 /\ ~\E j \in Standing : j > i /\ Fact(j).kind = "APPEAL_RULING" /\ Fact(j).appeal = Fact(i).appeal
    <2>1. /\ a \in Appeals /\ live.appeals[a].status = "PENDING"
          /\ \E p \in Protests : live.appeals[a].protest = p /\ DependsOn(p, c)
      BY DEF PendingAppeals
    <2> DEFINE m == Max(AppealFacts(a))
    <2>2. m \in AppealFacts(a) /\ live.appeals[a].status = Said(Fact(m))
      BY <2>1, AppealStatusIsLatest
    <2>3. m \in Standing /\ Fact(m).kind = "APPEAL" /\ Fact(m).appeal = a
      BY <1>1, <2>1, <2>2 DEF AppealFacts, Said, FactFields, Outcomes
    <2> HIDE DEF m
    <2>4. live.appeals[a].protest = Fact(m).protest
      BY <1>5, <2>3
    <2>5. Protested(Fact(m).protest, c) # {}
      BY <1>3, <2>1, <2>4
    <2> QED
      BY <1>5, <2>1, <2>3, <2>5
  <1>8. ASSUME NEW i \in Standing, Fact(i).kind = "APPEAL", Protested(Fact(i).protest, c) # {},
               ~\E j \in Standing : j > i /\ Fact(j).kind = "APPEAL_RULING" /\ Fact(j).appeal = Fact(i).appeal
        PROVE  PendingAppeals(c) # {}
    <2>1. Fact(i).appeal \in Appeals /\ Fact(i).protest \in Protests
      BY <1>1, <1>8 DEF FactFields
    <2>2. live.appeals[Fact(i).appeal].protest = Fact(i).protest /\ live.appeals[Fact(i).appeal].status = "PENDING"
      BY <1>5, <1>8
    <2>3. DependsOn(Fact(i).protest, c)
      BY <1>3, <1>8, <2>1
    <2> QED
      BY <2>1, <2>2, <2>3 DEF PendingAppeals
  <1> QED
    BY <1>6, <1>7, <1>8

-----------------------------------------------------------------------------
(* What an event is about is all it changes.                               *)

Untouched(s, t, named) ==
  /\ \A x \in Entrants \ named : t.presence[x] = s.presence[x]
  /\ \A c \in Contests \ named : t.contests[c] = s.contests[c] /\ t.resolved[c] = s.resolved[c]
  /\ \A r \in Resources \ named : t.available[r] = s.available[r]
  /\ \A p \in Protests \ named : t.protests[p] = s.protests[p]
  /\ \A a \in Appeals \ named : t.appeals[a] = s.appeals[a]

(* A fact changes only what it is about.                                   *)
LEMMA FollowsIsLocal ==
  ASSUME NEW s, NEW t, NEW f, f.kind # "CORRECTED", Follows(s, f, t),
         NEW named, Subject(f) \subseteq named
  PROVE  Untouched(s, t, named)
  <1>1. /\ f.kind \in {"PRESENCE", "SET_PRESENCE"} => f.entrant \in named
        /\ f.kind \in {"PROTEST", "RULING"} => f.protest \in named
        /\ f.kind \in {"APPEAL", "APPEAL_RULING"} => f.appeal \in named
        /\ f.kind \in {"RESOURCE", "SET_RESOURCE"} => f.resource \in named
        /\ f.kind \in ContestKinds \union {"ENTRANTS"} => f.contest \in named
    BY DEF Subject, ContestKinds
  <1>2. \A x \in Entrants \ named : t.presence[x] = s.presence[x]
    BY <1>1 DEF Follows
  <1>3. \A c \in Contests \ named : t.contests[c] = s.contests[c] /\ t.resolved[c] = s.resolved[c]
    BY <1>1 DEF Follows
  <1>4. \A r \in Resources \ named : t.available[r] = s.available[r]
    BY <1>1 DEF Follows
  <1>5. \A p \in Protests \ named : t.protests[p] = s.protests[p]
    BY <1>1 DEF Follows
  <1>6. \A a \in Appeals \ named : t.appeals[a] = s.appeals[a]
    BY <1>1 DEF Follows
  <1> QED
    BY <1>2, <1>3, <1>4, <1>5, <1>6 DEF Untouched

(* One fact keeps two states alike where they are.                         *)
LEMMA FollowsKeepsUntouched ==
  ASSUME NEW s, NEW t, NEW u, NEW v, NEW f, NEW named,
         Untouched(s, t, named), Follows(s, f, u), Follows(t, f, v)
  PROVE  Untouched(u, v, named)
  <1>1. \A x \in Entrants \ named : v.presence[x] = u.presence[x]
    BY DEF Follows, Untouched
  <1>2. \A c \in Contests \ named : v.contests[c] = u.contests[c] /\ v.resolved[c] = u.resolved[c]
    BY DEF Follows, Untouched
  <1>3. \A r \in Resources \ named : v.available[r] = u.available[r]
    BY DEF Follows, Untouched
  <1>4. ASSUME NEW p \in Protests \ named PROVE v.protests[p] = u.protests[p]
    <2> DEFINE After(k) == CASE f.kind = "PROTEST" /\ f.protest = p -> [status |-> "PENDING", contest |-> f.contest]
                             [] f.kind = "RULING" /\ f.protest = p -> [k EXCEPT !.status = f.outcome]
                             [] OTHER -> k
    <2>1. u.protests[p] = After(s.protests[p])
      BY DEF Follows
    <2>2. v.protests[p] = After(t.protests[p])
      BY DEF Follows
    <2>3. t.protests[p] = s.protests[p]
      BY DEF Untouched
    <2> HIDE DEF After
    <2> QED
      BY <2>1, <2>2, <2>3
  <1>5. ASSUME NEW a \in Appeals \ named PROVE v.appeals[a] = u.appeals[a]
    <2> DEFINE After(k) == CASE f.kind = "APPEAL" /\ f.appeal = a -> [status |-> "PENDING", protest |-> f.protest]
                             [] f.kind = "APPEAL_RULING" /\ f.appeal = a -> [k EXCEPT !.status = f.outcome]
                             [] OTHER -> k
    <2>1. u.appeals[a] = After(s.appeals[a])
      BY DEF Follows
    <2>2. v.appeals[a] = After(t.appeals[a])
      BY DEF Follows
    <2>3. t.appeals[a] = s.appeals[a]
      BY DEF Untouched
    <2> HIDE DEF After
    <2> QED
      BY <2>1, <2>2, <2>3
  <1> QED
    BY <1>1, <1>2, <1>3, <1>4, <1>5 DEF Untouched

(* A correction takes out its target underneath all that came after it.    *)
LEMMA TakenOutIsLocal ==
  ASSUME NEW events, WellFormed(events), NEW e \in Event, e.kind = "CORRECTED",
         e.target \in DOMAIN events, events[e.target].kind # "CORRECTED",
         NEW named, Subject(events[e.target]) \subseteq named
  PROVE  Untouched(Replay(events)[Len(events)], Replay(Append(events, e))[Len(events)], named)
  <1> DEFINE n == Len(events)
             later == Append(events, e)
             out == Superseded(events)
             f == Replay(events)
             g == Replay(later)
             S == {i \in Nat : i <= n => Untouched(f[i], g[i], named)}
  <1>1. events \in Seq(Event) /\ out \subseteq 1..n
    BY DEF WellFormed
  <1>2. /\ n \in Nat /\ DOMAIN events = 1..n /\ later \in Seq(Event) /\ Len(later) = n + 1
        /\ \A i \in 1..n : later[i] = events[i] /\ events[i] \in Event
        /\ Superseded(later) = out \union {e.target}
    BY <1>1, AppendedTo
  <1>3. /\ f[0] = Initial
        /\ \A i \in 1..n : f[i] = IF i \in out THEN f[i - 1] ELSE Effect(f[i - 1], events[i])
    BY <1>1, ReplayFacts
  <1>4. /\ g[0] = Initial
        /\ \A i \in 1..Len(later) : g[i] = IF i \in Superseded(later) THEN g[i - 1] ELSE Effect(g[i - 1], later[i])
    BY <1>2, ReplayFacts
  <1>5. \A i \in 0..n : f[i] \in State /\ g[i] \in State
    <2>1. \A i \in 0..n : f[i] \in State
      BY <1>1, ReplayType
    <2>2. \A i \in 0..Len(later) : g[i] \in State
      BY <1>2, ReplayType
    <2> QED
      BY <1>2, <2>1, <2>2
  <1> HIDE DEF f, g, later, n, out
  <1>6. 0 \in S
    BY <1>3, <1>4 DEF Untouched
  <1>7. ASSUME NEW i \in S PROVE i + 1 \in S
    <2>1. CASE i + 1 <= n
      <3>1. /\ i \in Nat /\ i + 1 \in 1..n /\ i + 1 \in 1..Len(later) /\ i \in 0..n
            /\ (i + 1) - 1 = i /\ Untouched(f[i], g[i], named)
        BY <1>2, <1>7, <2>1
      <3>2. f[i + 1] = IF i + 1 \in out THEN f[i] ELSE Effect(f[i], events[i + 1])
        BY <1>3, <3>1
      <3>3. g[i + 1] = IF i + 1 \in out \union {e.target} THEN g[i] ELSE Effect(g[i], events[i + 1])
        BY <1>2, <1>4, <3>1
      <3>4. f[i] \in State /\ g[i] \in State /\ events[i + 1] \in Event
        BY <1>2, <1>5, <3>1
      <3>5. CASE i + 1 \in out
        BY <3>1, <3>2, <3>3, <3>5
      <3>6. CASE i + 1 \notin out /\ i + 1 = e.target
        <4>1. Follows(f[i], events[i + 1], f[i + 1])
          BY <3>2, <3>4, <3>6, EffectFollows DEF FactOf
        <4>2. Untouched(f[i], f[i + 1], named)
          BY <3>6, <4>1, FollowsIsLocal
        <4>3. Untouched(f[i + 1], g[i], named)
          BY <3>1, <4>2 DEF Untouched
        <4> QED
          BY <3>3, <3>6, <4>3
      <3>7. CASE i + 1 \notin out /\ i + 1 # e.target
        <4>1. Follows(f[i], FactOf(events[i + 1]), f[i + 1]) /\ Follows(g[i], FactOf(events[i + 1]), g[i + 1])
          BY <3>2, <3>3, <3>4, <3>7, EffectFollows
        <4>2. Untouched(f[i + 1], g[i + 1], named)
          BY <3>1, <4>1, FollowsKeepsUntouched
        <4> QED
          BY <4>2
      <3> QED
        BY <3>1, <3>5, <3>6, <3>7
    <2> QED
      BY <1>7, <2>1
  <1> HIDE DEF S
  <1>8. S \in SUBSET Nat
    BY DEF S
  <1>9. S = Nat
    BY <1>6, <1>7, <1>8, SetInduction
  <1>10. n \in S
    BY <1>2, <1>9
  <1>11. Untouched(f[n], g[n], named)
    BY <1>2, <1>10 DEF S
  <1> QED
    BY <1>11 DEF f, g, later, n

(* An event changes only what it names: at once, or underneath the events  *)
(* after its target.                                                       *)
LEMMA LocalStep ==
  ASSUME LogInv, [Next]_vars
  PROVE  Untouched(live, live', Named(log'[Len(log')]))
  <1>1. CASE UNCHANGED vars
    BY <1>1 DEF vars, Untouched
  <1>2. ASSUME NEW e \in Event, Permitted(e), Record(e)
        PROVE  Untouched(live, live', Named(log'[Len(log')]))
    <2> DEFINE n == Len(log)
    <2>1. /\ log \in Seq(Event) /\ log' = Append(log, e) /\ live' = Project(log') /\ live = Project(log)
          /\ Superseded(log') = Superseded(log) \union IF e.kind = "CORRECTED" THEN {e.target} ELSE {}
          /\ e.kind # "CORRECTED" => Follows(live, FactOf(e), live')
      BY <1>2, RecordKeepsLogInv DEF LogInv, WellFormed
    <2>2. /\ n \in Nat /\ Len(log') = n + 1 /\ log'[n + 1] = e /\ log' \in Seq(Event) /\ DOMAIN log = 1..n
      BY <2>1, AppendedTo
    <2>3. CASE e.kind # "CORRECTED"
      <3>1. Named(e) = Subject(e) /\ FactOf(e) = e
        BY <2>3 DEF Named, FactOf
      <3> QED
        BY <2>1, <2>2, <2>3, <3>1, FollowsIsLocal
    <2>4. CASE e.kind = "CORRECTED"
      <3> DEFINE named == Named(e)
                 f == Replay(log)
                 g == Replay(Append(log, e))
      <3>1. Subject(e.replacement) \subseteq named /\ Subject(log[e.target]) \subseteq named
        BY <2>4 DEF Named
      <3>2. e.target \in DOMAIN log /\ log[e.target].kind # "CORRECTED"
        BY <1>2, <2>4 DEF Permitted
      <3> HIDE DEF named
      <3>3. Untouched(f[n], g[n], named)
        BY <2>4, <3>1, <3>2, TakenOutIsLocal DEF LogInv
      <3>4. f[n] = live /\ g[n + 1] = live'
        BY <2>1, <2>2, ReplayFacts
      <3>5. g[n + 1] = Effect(g[n], e)
        <4>1. n + 1 \in 1..Len(log') /\ (n + 1) - 1 = n
          BY <2>2
        <4>2. n + 1 \notin Superseded(log')
          BY <2>1, <2>2, <3>2 DEF LogInv, WellFormed
        <4>3. g[n + 1] = IF n + 1 \in Superseded(log') THEN g[(n + 1) - 1] ELSE Effect(g[(n + 1) - 1], log'[n + 1])
          BY <2>1, <2>2, <4>1, ReplayFacts
        <4> QED
          BY <2>2, <4>1, <4>2, <4>3
      <3>6. g[n] \in State
        <4>1. n \in 0..Len(log')
          BY <2>2
        <4> QED
          BY <2>1, <2>2, <4>1, ReplayType
      <3>7. Follows(g[n], e.replacement, g[n + 1])
        BY <2>4, <3>5, <3>6, EffectFollows DEF FactOf
      <3>8. e.replacement.kind # "CORRECTED"
        BY <2>4, EventParts, ReplacementKinds
      <3>9. Untouched(g[n], g[n + 1], named)
        BY <3>1, <3>7, <3>8, FollowsIsLocal
      <3> HIDE DEF f, g
      <3>10. Untouched(live, live', named)
        BY <3>3, <3>4, <3>9 DEF Untouched
      <3> QED
        BY <2>2, <3>10 DEF named
    <2> QED
      BY <2>3, <2>4
  <1> QED
    BY <1>1, <1>2, NextRecords

-----------------------------------------------------------------------------
(* Everything the projection promises.                                     *)

IInv == LogInv /\ FiledOnce

LEMMA StepKeepsIInv == IInv /\ [Next]_vars => IInv'
  <1>1. ASSUME IInv, Next PROVE IInv'
    BY <1>1, NextRecords, RecordKeepsLogInv, RecordKeepsFiledOnce DEF IInv
  <1>2. ASSUME IInv, UNCHANGED vars PROVE IInv'
    <2>1. LogInv'
      BY <1>2, StutterLogInv DEF IInv
    <2>2. FiledOnce'
      BY <1>2 DEF IInv, FiledOnce, Standing, Superseded, Fact, vars
    <2> QED
      BY <2>1, <2>2 DEF IInv
  <1> QED
    BY <1>1, <1>2

(* live-operations.ts: whatever is corrected, the projected state says     *)
(* what the standing events say, the control room shows the open disputes  *)
(* and reads the rules of START_CONTEST, a settled matter is reopened by   *)
(* correction only, and an event changes only what it is about.            *)
THEOREM ProjectionHolds == Spec => ProjectionIsTrue
  <1>1. Init => IInv
    <2>1. Init => Standing = {}
      BY DEF Init, Standing
    <2> QED
      BY <2>1, InitLogInv DEF IInv, FiledOnce
  <1>2. IInv => TypeOK /\ LatestStandingFactHolds /\ ControlRoomAgreesWithStart /\ DisputesAreShown
    BY TypesOfLive, LatestFactsHold, RoomAgrees, DisputesShown DEF IInv
  <1> DEFINE Final == ~Correcting =>
               /\ \A c \in Contests : IsSettled(c) => live'.contests[c] = [live.contests[c] EXCEPT !.received = live'.contests[c].received]
               /\ \A p \in Protests : live.protests[p].status \in Outcomes => live'.protests[p] = live.protests[p]
               /\ \A a \in Appeals : live.appeals[a].status \in Outcomes => live'.appeals[a] = live.appeals[a]
             Local == Untouched(live, live', Named(log'[Len(log')]))
  <1>3. IInv /\ [Next]_vars => [Final]_vars
    BY SettledStep DEF IInv
  <1>4. IInv /\ [Next]_vars => [Local]_vars
    BY LocalStep DEF IInv
  <1>5. Spec => SettledIsFinal
    BY <1>1, <1>3, StepKeepsIInv, PTL DEF Spec, SettledIsFinal
  <1>6. Spec => EventsAreLocal
    <2>1. IInv /\ [Next]_vars => [LET named == Named(log'[Len(log')])
                                  IN  /\ \A x \in Entrants \ named : live'.presence[x] = live.presence[x]
                                      /\ \A c \in Contests \ named : live'.contests[c] = live.contests[c] /\ live'.resolved[c] = live.resolved[c]
                                      /\ \A r \in Resources \ named : live'.available[r] = live.available[r]
                                      /\ \A p \in Protests \ named : live'.protests[p] = live.protests[p]
                                      /\ \A a \in Appeals \ named : live'.appeals[a] = live.appeals[a]]_vars
      BY <1>4 DEF Untouched
    <2> QED
      BY <1>1, <2>1, StepKeepsIInv, PTL DEF Spec, EventsAreLocal
  <1> QED
    BY <1>1, <1>2, <1>5, <1>6, StepKeepsIInv, PTL DEF Spec, ProjectionIsTrue

=============================================================================
