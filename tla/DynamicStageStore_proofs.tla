---------------------- MODULE DynamicStageStore_proofs ----------------------
(***************************************************************************)
(* Theorems about DynamicStageStore, for any definitions, any processes    *)
(* and whatever their clients ask, with no bound on streams or requests.   *)
(*                                                                         *)
(* Two invariants carry them.  RequestInv is about the service: the stream *)
(* replays to the stage, keys stay apart, and the command a process holds  *)
(* stands for its request and is the event under its key, if there is one. *)
(* StageInv is about one stage: the verifier accepts it, and its runtime   *)
(* is what the commands of its kind leave, with the certified cut ahead of *)
(* whom it leaves out, or the Swiss table rebuilt from rounds that differ. *)
(*                                                                         *)
(* Replays and rebuilt tables are functions on 0..n that are known by      *)
(* their steps, so what they end with is found by induction over a set of  *)
(* numbers.  Places are numbers in an order: the first of them are ahead   *)
(* of the others.                                                          *)
(***************************************************************************)
EXTENDS DynamicStageStore, SequenceTheorems, FiniteSetTheorems, TLAPS

----------------------------------------------------------------------------
(* Induction over the natural numbers, with the property as a set.         *)
LEMMA LeastNumber ==
  ASSUME NEW S \in SUBSET Nat, NEW s \in S
  PROVE  \E x \in S : \A y \in S : x <= y
  <1> DEFINE UpTo(x) == 0..x
             Ranges == {UpTo(x) : x \in S}
             Less == StrictSubsetOrdering(Nat)
  <1>1. ASSUME NEW x \in S
        PROVE  x \in Nat /\ UpTo(x) \in FiniteSubsetsOf(Nat)
    <2>1. x \in Nat /\ 0 \in Int /\ x \in Int
      OBVIOUS
    <2>2. IsFiniteSet(UpTo(x)) /\ UpTo(x) \subseteq Nat
      BY <2>1, FS_Interval
    <2> QED
      BY <2>1, <2>2 DEF FiniteSubsetsOf
  <1>2. \E r \in Ranges : \A t \in Ranges : <<t, r>> \notin Less
    <2>1. IsWellFoundedOn(Less, FiniteSubsetsOf(Nat))
      BY FS_StrictSubsetOrderingWellFounded
    <2>2. Ranges \subseteq FiniteSubsetsOf(Nat) /\ Ranges # {}
      BY <1>1
    <2> HIDE DEF Ranges, Less
    <2> QED
      BY <2>1, <2>2, WFMin
  <1>3. PICK x \in S : \A y \in S : <<UpTo(y), UpTo(x)>> \notin Less
    BY <1>2
  <1>4. ASSUME NEW y \in S, y < x
        PROVE  FALSE
    <2>1. x \in Nat /\ y \in Nat
      BY <1>1
    <2>2. UpTo(y) \subseteq UpTo(x) /\ x \in UpTo(x) /\ x \notin UpTo(y)
      BY <1>4, <2>1
    <2>3. UpTo(x) \subseteq Nat /\ UpTo(y) \subseteq Nat /\ UpTo(y) # UpTo(x)
      BY <2>1, <2>2
    <2>4. <<UpTo(y), UpTo(x)>> \in Less
      BY <2>2, <2>3 DEF StrictSubsetOrdering
    <2> QED
      BY <1>3, <2>4
  <1>5. \A y \in S : x \in Nat /\ y \in Nat
    BY <1>1
  <1> QED
    BY <1>4, <1>5

LEMMA Induction ==
  ASSUME NEW S, 0 \in S, \A n \in Nat : n \in S => n + 1 \in S
  PROVE  \A n \in Nat : n \in S
  <1> DEFINE missing == Nat \ S
  <1> SUFFICES ASSUME NEW n \in missing PROVE FALSE
    OBVIOUS
  <1>1. PICK x \in missing : \A y \in missing : x <= y
    BY LeastNumber
  <1>2. x # 0 /\ x - 1 \in Nat /\ x - 1 \notin missing
    BY <1>1
  <1> QED
    BY <1>2

(* A function on 0..n is known by its first value and by how each value    *)
(* follows from the one before.                                            *)
On0To(n, f) == f = [k \in 0..n |-> f[k]]
SameSteps(f, g, n) == \A k \in 1..n : f[k - 1] = g[k - 1] => f[k] = g[k]

LEMMA StepsDetermine ==
  ASSUME NEW n \in Nat, NEW f, NEW g, On0To(n, f), On0To(n, g), f[0] = g[0], SameSteps(f, g, n)
  PROVE  f = g
  <1> DEFINE S == {k \in Nat : k \in 0..n => f[k] = g[k]}
  <1>1. 0 \in S
    OBVIOUS
  <1>2. ASSUME NEW k \in Nat, k \in S PROVE k + 1 \in S
    <2> SUFFICES ASSUME k + 1 \in 0..n PROVE f[k + 1] = g[k + 1]
      OBVIOUS
    <2>1. k + 1 \in 1..n /\ k \in 0..n /\ (k + 1) - 1 = k
      OBVIOUS
    <2> QED
      BY <1>2, <2>1 DEF SameSteps
  <1> HIDE DEF S
  <1>3. \A k \in Nat : k \in S
    BY <1>1, <1>2, Induction
  <1>4. \A k \in 0..n : f[k] = g[k]
    BY <1>3 DEF S
  <1> QED
    BY <1>4 DEF On0To

----------------------------------------------------------------------------
IsSequence(s) == \E S : s \in Seq(S)

LEMMA SequenceFacts ==
  ASSUME NEW s, IsSequence(s)
  PROVE  Len(s) \in Nat /\ DOMAIN s = 1..Len(s)
  BY DEF IsSequence

LEMMA Appended ==
  ASSUME NEW s, IsSequence(s), NEW e
  PROVE  LET n == Len(s)
             t == Append(s, e)
         IN  /\ IsSequence(t) /\ n \in Nat /\ DOMAIN s = 1..n
             /\ Len(t) = n + 1 /\ DOMAIN t = 1..(n + 1)
             /\ t[n + 1] = e /\ \A k \in 1..n : t[k] = s[k]
  <1>1. PICK S : s \in Seq(S)
    BY DEF IsSequence
  <1> DEFINE T == S \union {e}
  <1>2. s \in Seq(T) /\ e \in T
    BY <1>1, SeqDef
  <1>3. Append(s, e) \in Seq(T)
    BY <1>2
  <1>4. Len(s) \in Nat /\ DOMAIN s = 1..Len(s)
    BY <1>2
  <1>5. /\ Len(Append(s, e)) = Len(s) + 1
        /\ \A k \in 1..Len(s) : Append(s, e)[k] = s[k]
        /\ Append(s, e)[Len(s) + 1] = e
    BY <1>2
  <1> QED
    BY <1>3, <1>4, <1>5 DEF IsSequence

----------------------------------------------------------------------------
(* A replay goes from one state to the next; what ReplayDynamicStage       *)
(* computes is where it ends.                                              *)
ReplayAt(f, d, events, k) ==
  IF k = 0 THEN DefineDynamicStage(d) ELSE TransitionDynamicStage(d, f[k - 1], events[k]).state
IsReplay(f, d, events) == f = [k \in 0..Len(events) |-> ReplayAt(f, d, events, k)]

LEMMA ReplayIsUnique ==
  ASSUME NEW d, NEW events, Len(events) \in Nat, NEW f, IsReplay(f, d, events), NEW g, IsReplay(g, d, events)
  PROVE  f = g
  <1> DEFINE n == Len(events)
  <1>1. DOMAIN f = 0..n /\ DOMAIN g = 0..n
    BY DEF IsReplay
  <1>2. \A k \in 0..n : f[k] = ReplayAt(f, d, events, k) /\ g[k] = ReplayAt(g, d, events, k)
    BY DEF IsReplay
  <1>3. f[0] = g[0]
    BY <1>2 DEF ReplayAt
  <1>4. SameSteps(f, g, n)
    BY <1>2 DEF ReplayAt, SameSteps
  <1>5. On0To(n, f) /\ On0To(n, g)
    BY DEF IsReplay, On0To
  <1>6. n \in Nat
    OBVIOUS
  <1> HIDE DEF n
  <1> QED
    BY <1>3, <1>4, <1>5, <1>6, StepsDetermine

LEMMA ReplayEnds ==
  ASSUME NEW d, NEW events, Len(events) \in Nat, NEW f, IsReplay(f, d, events)
  PROVE  ReplayDynamicStage(d, events) = f[Len(events)]
  <1> DEFINE g == CHOOSE h : IsReplay(h, d, events)
  <1>1. IsReplay(g, d, events)
    OBVIOUS
  <1>2. g = f
    BY <1>1, ReplayIsUnique
  <1>3. ReplayDynamicStage(d, events) = g[Len(events)]
    BY DEF ReplayDynamicStage, IsReplay, ReplayAt
  <1> QED
    BY <1>2, <1>3

(* What was replayed before is what a prefix replays to.                   *)
LEMMA PrefixReplays ==
  ASSUME NEW d, NEW events, IsSequence(events), NEW f, IsReplay(f, d, events), NEW k \in 0..Len(events)
  PROVE  ReplayDynamicStage(d, SubSeq(events, 1, k)) = f[k]
  <1> DEFINE prefix == SubSeq(events, 1, k)
             g == [j \in 0..k |-> f[j]]
  <1>1. Len(events) \in Nat /\ k \in Nat
    BY SequenceFacts
  <1>2. Len(prefix) = k /\ \A j \in 1..k : prefix[j] = events[j]
    BY <1>1 DEF IsSequence
  <1>3. \A j \in 0..k : f[j] = ReplayAt(f, d, events, j)
    BY <1>1 DEF IsReplay
  <1>4. ASSUME NEW j \in 0..k
        PROVE  ReplayAt(f, d, events, j) = ReplayAt(g, d, prefix, j)
    <2>1. CASE j = 0
      BY <2>1 DEF ReplayAt
    <2>2. CASE j # 0
      <3>1. j \in 1..k /\ j - 1 \in 0..k
        BY <1>1, <2>2
      <3>2. g[j - 1] = f[j - 1] /\ prefix[j] = events[j]
        BY <1>2, <3>1
      <3> QED
        BY <2>2, <3>2 DEF ReplayAt
    <2> QED
      BY <2>1, <2>2
  <1>5. IsReplay(g, d, prefix)
    <2>1. g = [j \in 0..k |-> ReplayAt(g, d, prefix, j)]
      BY <1>3, <1>4
    <2> QED
      BY <1>2, <2>1 DEF IsReplay
  <1> HIDE DEF g, prefix
  <1>6. ReplayDynamicStage(d, prefix) = g[k]
    BY <1>1, <1>2, <1>5, ReplayEnds
  <1> QED
    BY <1>6 DEF g, prefix

LEMMA ReplayGrows ==
  ASSUME NEW d, NEW events, IsSequence(events), NEW f, IsReplay(f, d, events), NEW c
  PROVE  LET n == Len(events)
             g == [k \in 0..(n + 1) |-> IF k = n + 1 THEN TransitionDynamicStage(d, f[n], c).state ELSE f[k]]
         IN  IsReplay(g, d, Append(events, c))
  <1> DEFINE n == Len(events)
             longer == Append(events, c)
             g == [k \in 0..(n + 1) |-> IF k = n + 1 THEN TransitionDynamicStage(d, f[n], c).state ELSE f[k]]
  <1>1. n \in Nat /\ Len(longer) = n + 1 /\ longer[n + 1] = c /\ \A k \in 1..n : longer[k] = events[k]
    BY Appended
  <1>2. \A k \in 0..n : f[k] = ReplayAt(f, d, events, k)
    BY DEF IsReplay
  <1>3. ASSUME NEW k \in 0..(n + 1)
        PROVE  g[k] = ReplayAt(g, d, longer, k)
    <2>1. CASE k = 0
      BY <1>1, <1>2, <2>1 DEF ReplayAt
    <2>2. CASE k \in 1..n
      <3>1. k - 1 \in 0..n /\ k \in 0..n
        BY <1>1, <2>2
      <3>2. g[k - 1] = f[k - 1] /\ g[k] = f[k] /\ longer[k] = events[k]
        BY <1>1, <2>2, <3>1
      <3> QED
        BY <1>2, <2>2, <3>1, <3>2 DEF ReplayAt
    <2>3. CASE k = n + 1
      <3>1. n \in 0..(n + 1) /\ n # n + 1 /\ k # 0 /\ k - 1 = n
        BY <1>1, <2>3
      <3>2. g[k] = TransitionDynamicStage(d, f[n], c).state /\ g[k - 1] = f[n]
        BY <2>3, <3>1
      <3> QED
        BY <1>1, <2>3, <3>1, <3>2 DEF ReplayAt
    <2> QED
      BY <1>1, <2>1, <2>2, <2>3
  <1>4. g = [k \in 0..(n + 1) |-> ReplayAt(g, d, longer, k)]
    BY <1>3
  <1> QED
    BY <1>1, <1>4 DEF IsReplay

----------------------------------------------------------------------------
(* What a transition answers.                                              *)
Known(s, c) == {k \in DOMAIN s.events : s.events[k].key = c.key}

Verdict(d, s, c, t) ==
  /\ t.status \in {"APPLIED", "REPLAYED", "REJECTED"}
  /\ t.code = "IDEMPOTENCY_CONFLICT" => \E k \in Known(s, c) : s.events[k] # c
  /\ t.status # "APPLIED" => t.state = s
  /\ t.status = "REPLAYED" => \E k \in Known(s, c) : s.events[k] = c
  /\ t.status = "APPLIED" =>
       /\ VerifyDynamicStage(d, s) /\ Known(s, c) = {} /\ c.expected = Len(s.events)
       /\ ~EffectOf(d, s, c).refused /\ t.code = "NONE"
       /\ t.state = [phase |-> EffectOf(d, s, c).phase, events |-> Append(s.events, c),
                     runtime |-> EffectOf(d, s, c).runtime, requests |-> EffectOf(d, s, c).requests]

LEMMA Answers ==
  ASSUME NEW d, NEW s, NEW c
  PROVE  Verdict(d, s, c, TransitionDynamicStage(d, s, c))
  <1> DEFINE t == TransitionDynamicStage(d, s, c)
             known == Known(s, c)
  <1>1. known = {k \in DOMAIN s.events : s.events[k].key = c.key}
    BY DEF Known
  <1>2. CASE ~VerifyDynamicStage(d, s)
    BY <1>2 DEF TransitionDynamicStage, Verdict
  <1>3. CASE VerifyDynamicStage(d, s) /\ known # {}
    <2>1. (CHOOSE k \in known : TRUE) \in known
      BY <1>3
    <2> HIDE DEF known
    <2>2. t = IF s.events[CHOOSE k \in known : TRUE] = c
              THEN [status |-> "REPLAYED", code |-> "NONE", state |-> s]
              ELSE [status |-> "REJECTED", code |-> "IDEMPOTENCY_CONFLICT", state |-> s]
      BY <1>1, <1>3 DEF TransitionDynamicStage
    <2> QED
      BY <2>1, <2>2 DEF known, Verdict
  <1>4. CASE VerifyDynamicStage(d, s) /\ known = {} /\ c.expected # Len(s.events)
    BY <1>1, <1>4 DEF TransitionDynamicStage, Verdict
  <1>5. CASE VerifyDynamicStage(d, s) /\ known = {} /\ c.expected = Len(s.events)
    <2> DEFINE e == EffectOf(d, s, c)
    <2>1. t = Applied(s, c, e)
      BY <1>1, <1>5 DEF TransitionDynamicStage
    <2> HIDE DEF t, e
    <2>2. CASE e.refused
      BY <2>1, <2>2 DEF Applied, Verdict, t
    <2>3. CASE ~e.refused
      <3>1. t = [status |-> "APPLIED", code |-> "NONE",
                 state |-> [phase |-> e.phase, events |-> Append(s.events, c), runtime |-> e.runtime, requests |-> e.requests]]
        BY <2>1, <2>3 DEF Applied
      <3> QED
        BY <1>5, <2>3, <3>1 DEF Verdict, e, t
    <2> QED
      BY <2>2, <2>3
  <1> QED
    BY <1>2, <1>3, <1>4, <1>5

LEMMA AppliesWhen ==
  ASSUME NEW d, NEW s, NEW c, VerifyDynamicStage(d, s), Known(s, c) = {}, c.expected = Len(s.events),
         ~EffectOf(d, s, c).refused
  PROVE  LET e == EffectOf(d, s, c)
         IN  TransitionDynamicStage(d, s, c).state =
               [phase |-> e.phase, events |-> Append(s.events, c), runtime |-> e.runtime, requests |-> e.requests]
  <1> DEFINE e == EffectOf(d, s, c)
             t == TransitionDynamicStage(d, s, c)
  <1>1. {k \in DOMAIN s.events : s.events[k].key = c.key} = {}
    BY DEF Known
  <1>2. t = Applied(s, c, e)
    BY <1>1 DEF TransitionDynamicStage
  <1>3. ~e.refused
    OBVIOUS
  <1> HIDE DEF t, e
  <1> QED
    BY <1>2, <1>3 DEF Applied, t, e

----------------------------------------------------------------------------
(* A request, and the command that stands for it.                          *)
WellFormed(r) ==
  /\ r = [x \in DOMAIN r |-> r[x]]
  /\ {"kind", "key", "expected", "schedule"} \subseteq DOMAIN r
  /\ r.key \in Nat /\ r.expected \in Nat /\ r.schedule = <<>>
  /\ IsRequest(r)

Stands(c, r) ==
  /\ c.kind = r.kind /\ c.key = r.key /\ c.expected = r.expected
  /\ Bare(c) = r
  /\ r.kind # "RECORD_LADDER_CHALLENGE" => c = r

(* A command that can be applied refers to the schedule it leads to.       *)
RefersToIts(d, s, c) ==
  c.kind = "RECORD_LADDER_CHALLENGE" /\ TransitionDynamicStage(d, s, c).status = "APPLIED" =>
    c.schedule = ScheduleReference(TransitionDynamicStage(d, s, c).state)

LEMMA ScheduleIsApart ==
  ASSUME NEW d, NEW s, IsSequence(s.events), NEW r, WellFormed(r), r.kind = "RECORD_LADDER_CHALLENGE", NEW x,
         LET c == [r EXCEPT !.schedule = x] IN TransitionDynamicStage(d, s, c).status = "APPLIED"
  PROVE  LET c == [r EXCEPT !.schedule = x]
         IN  ScheduleReference(TransitionDynamicStage(d, s, r).state) = ScheduleReference(TransitionDynamicStage(d, s, c).state)
  <1> DEFINE c == [r EXCEPT !.schedule = x]
             e == EffectOf(d, s, c)
             n == Len(s.events)
  <1>1. /\ c.kind = r.kind /\ c.key = r.key /\ c.expected = r.expected
        /\ c.challenger = r.challenger /\ c.defender = r.defender /\ c.winner = r.winner
    BY DEF WellFormed, IsRequest, Fields
  <1>2. TransitionDynamicStage(d, s, c).status = "APPLIED"
    OBVIOUS
  <1> HIDE DEF c
  <1>3. EffectOf(d, s, r) = e
    BY <1>1 DEF EffectOf, Executed, LadderChallenge
  <1>4. Known(s, r) = Known(s, c)
    BY <1>1 DEF Known
  <1>5. Verdict(d, s, c, TransitionDynamicStage(d, s, c))
    BY Answers
  <1>6. /\ VerifyDynamicStage(d, s) /\ Known(s, c) = {} /\ c.expected = n /\ ~e.refused
        /\ TransitionDynamicStage(d, s, c).state =
             [phase |-> e.phase, events |-> Append(s.events, c), runtime |-> e.runtime, requests |-> e.requests]
    BY <1>2, <1>5 DEF Verdict
  <1>7. TransitionDynamicStage(d, s, r).state =
          [phase |-> e.phase, events |-> Append(s.events, r), runtime |-> e.runtime, requests |-> e.requests]
    <2> HIDE DEF e
    <2>1. ~EffectOf(d, s, r).refused /\ Known(s, r) = {} /\ r.expected = Len(s.events)
      BY <1>1, <1>3, <1>4, <1>6
    <2> QED
      BY <1>3, <1>6, <2>1, AppliesWhen
  <1>8. Challenged(c) = Challenged(r)
    BY <1>1 DEF Challenged
  <1>9. [k \in DOMAIN Append(s.events, c) |-> Challenged(Append(s.events, c)[k])] =
        [k \in DOMAIN Append(s.events, r) |-> Challenged(Append(s.events, r)[k])]
    <2> DEFINE sc == Append(s.events, c)
               sr == Append(s.events, r)
    <2>1. n \in Nat /\ DOMAIN sc = 1..(n + 1) /\ sc[n + 1] = c /\ \A k \in 1..n : sc[k] = s.events[k]
      BY Appended
    <2>2. DOMAIN sr = 1..(n + 1) /\ sr[n + 1] = r /\ \A k \in 1..n : sr[k] = s.events[k]
      BY Appended
    <2> HIDE DEF sc, sr, n
    <2>3. \A k \in 1..(n + 1) : Challenged(sc[k]) = Challenged(sr[k])
      <3> TAKE k \in 1..(n + 1)
      <3>1. k = n + 1 \/ k \in 1..n
        BY <2>1
      <3> QED
        BY <1>8, <2>1, <2>2, <3>1
    <2>4. [k \in DOMAIN sc |-> Challenged(sc[k])] = [k \in DOMAIN sr |-> Challenged(sr[k])]
      BY <2>1, <2>2, <2>3
    <2> QED
      BY <2>4 DEF sc, sr
  <1> DEFINE sc == TransitionDynamicStage(d, s, c).state
             sr == TransitionDynamicStage(d, s, r).state
  <1>10. sc.requests = sr.requests /\ sc.events = Append(s.events, c) /\ sr.events = Append(s.events, r)
    BY <1>6, <1>7
  <1> HIDE DEF sc, sr
  <1>11. LadderRequests(sc) = LadderRequests(sr)
    BY <1>9, <1>10 DEF LadderRequests
  <1>12. ScheduleReference(sc) = ScheduleReference(sr)
    BY <1>10, <1>11 DEF ScheduleReference
  <1> QED
    BY <1>12 DEF sc, sr, c

LEMMA CommandStands ==
  ASSUME NEW s, IsSequence(s.events), NEW r, WellFormed(r),
         \A i, j \in DOMAIN s.events : s.events[i].key = s.events[j].key => i = j,
         \A k \in DOMAIN s.events : s.events[k].key = r.key => Stands(s.events[k], r)
  PROVE  LET c == CommandFor(s, r)
         IN  /\ Stands(c, r) /\ RefersToIts(def, s, c)
             /\ \A k \in DOMAIN s.events : s.events[k].key = r.key => c = s.events[k]
  <1> DEFINE c == CommandFor(s, r)
             prior == {k \in DOMAIN s.events : s.events[k].key = r.key /\ s.events[k].kind = r.kind}
             known == s.events[CHOOSE k \in prior : TRUE]
             x == ScheduleReference(TransitionDynamicStage(def, s, r).state)
  <1>1. CASE r.kind # "RECORD_LADDER_CHALLENGE"
    <2>1. c = r
      BY <1>1 DEF CommandFor
    <2>2. Bare(r) = r
      BY <1>1 DEF Bare
    <2> HIDE DEF c
    <2> QED
      BY <1>1, <2>1, <2>2 DEF Stands, RefersToIts, c
  <1>2. CASE r.kind = "RECORD_LADDER_CHALLENGE" /\ prior # {}
    <2>1. PICK k \in DOMAIN s.events : known = s.events[k] /\ s.events[k].key = r.key
      BY <1>2
    <2>2. Stands(s.events[k], r)
      BY <2>1
    <2>3. Bare(known) = r
      BY <2>1, <2>2 DEF Stands
    <2>4. c = known
      BY <1>2, <2>3 DEF CommandFor
    <2>5. c = s.events[k]
      BY <2>1, <2>4
    <2>6. \A j \in DOMAIN s.events : s.events[j].key = r.key => s.events[j] = s.events[k]
      BY <2>1
    <2>7. RefersToIts(def, s, c)
      <3>1. k \in Known(s, c)
        BY <2>5 DEF Known
      <3>2. Verdict(def, s, c, TransitionDynamicStage(def, s, c))
        BY Answers
      <3> QED
        BY <3>1, <3>2 DEF Verdict, RefersToIts
    <2> HIDE DEF c, known, prior
    <2> QED
      BY <2>2, <2>5, <2>6, <2>7 DEF c
  <1>3. CASE r.kind = "RECORD_LADDER_CHALLENGE" /\ prior = {}
    <2>1. c = [r EXCEPT !.schedule = x]
      BY <1>3 DEF CommandFor
    <2> HIDE DEF x, c
    <2>2. \A k \in DOMAIN s.events : s.events[k].key # r.key
      BY <1>3 DEF Stands
    <2>3. c.kind = r.kind /\ c.key = r.key /\ c.expected = r.expected /\ c.schedule = x
      BY <2>1 DEF WellFormed
    <2>4. [c EXCEPT !.schedule = <<>>] = r
      BY <2>1 DEF WellFormed
    <2>5. Bare(c) = r
      BY <1>3, <2>3, <2>4 DEF Bare
    <2>6. ASSUME TransitionDynamicStage(def, s, c).status = "APPLIED"
          PROVE  c.schedule = ScheduleReference(TransitionDynamicStage(def, s, c).state)
      <3>1. x = ScheduleReference(TransitionDynamicStage(def, s, c).state)
        BY <1>3, <2>1, <2>6, ScheduleIsApart DEF x
      <3> QED
        BY <2>3, <3>1
    <2> QED
      BY <1>3, <2>2, <2>3, <2>5, <2>6 DEF Stands, RefersToIts, c
  <1> QED
    BY <1>1, <1>2, <1>3

----------------------------------------------------------------------------
(* What holds of a process's request o, on a stage s: the events under its *)
(* key are its own, and so is the command prepared for it.                 *)
Serves(d, s, o) ==
  \/ o = Idle
  \/ /\ o.pc \in {"lost", "previewed", "decided"}
     /\ WellFormed(o.request) /\ o.request.expected <= Len(s.events)
     /\ \A k \in DOMAIN s.events : s.events[k].key = o.request.key => Stands(s.events[k], o.request)
     /\ o.pc # "lost" =>
          /\ Stands(o.command, o.request) /\ RefersToIts(d, s, o.command)
          /\ \A k \in DOMAIN s.events : s.events[k].key = o.request.key => o.command = s.events[k]

IsOperation(o) == o = [pc |-> o.pc, request |-> o.request, command |-> o.command]

(* The stream replays to the stage, and a challenge refers to the schedule *)
(* after it.                                                               *)
RefersAlong(f, events) ==
  \A k \in DOMAIN events : events[k].kind = "RECORD_LADDER_CHALLENGE" => events[k].schedule = ScheduleReference(f[k])
Stored(d, events, s) ==
  /\ IsSequence(events) /\ s.events = events
  /\ \A i, j \in DOMAIN events : events[i].key = events[j].key => i = j
  /\ \E f : IsReplay(f, d, events) /\ f[Len(events)] = s /\ RefersAlong(f, events)

(* Keys in use are bounded, and no two processes work under one key.       *)
Bounded(keys) == \E m \in Nat : keys \subseteq 0..m
Apart == \A p, q \in Processes : p # q /\ op[p].pc # "idle" /\ op[q].pc # "idle" => op[p].request.key # op[q].request.key

RequestInv ==
  /\ Stored(def, stream, stage)
  /\ op = [p \in Processes |-> op[p]]
  /\ \A p \in Processes : IsOperation(op[p]) /\ Serves(def, stage, op[p])
  /\ Apart
  /\ Bounded(KeysInUse)
  /\ conflicts = {}

LEMMA RequestInit == Init => RequestInv
  <1> SUFFICES ASSUME Init PROVE RequestInv
    OBVIOUS
  <1> DEFINE f == [k \in 0..0 |-> DefineDynamicStage(def)]
  <1>1. stream = <<>> /\ stage = DefineDynamicStage(def) /\ stage.events = <<>> /\ conflicts = {}
    BY DEF Init, DefineDynamicStage
  <1>2. IsSequence(stream) /\ Len(stream) = 0 /\ DOMAIN stream = {}
    <2>1. <<>> \in Seq({1})
      OBVIOUS
    <2> QED
      BY <1>1, <2>1 DEF IsSequence
  <1>3. IsReplay(f, def, stream) /\ f[Len(stream)] = stage
    <2>1. f = [k \in 0..0 |-> ReplayAt(f, def, stream, k)]
      BY DEF ReplayAt
    <2>2. f[0] = stage
      BY <1>1
    <2> HIDE DEF f
    <2> QED
      BY <1>2, <2>1, <2>2 DEF IsReplay
  <1>4. Stored(def, stream, stage)
    BY <1>1, <1>2, <1>3 DEF Stored, RefersAlong
  <1>5. op = [p \in Processes |-> Idle] /\ \A p \in Processes : op[p] = Idle
    BY DEF Init
  <1>6. Idle.pc = "idle" /\ Idle.request.key = 0 /\ IsOperation(Idle)
    BY DEF Idle, NoRequest, IsOperation
  <1>7. Apart
    BY <1>5, <1>6 DEF Apart
  <1>8. Bounded(KeysInUse)
    <2>1. KeysInUse \subseteq 0..0
      BY <1>1, <1>2, <1>5, <1>6 DEF KeysInUse
    <2> QED
      BY <2>1 DEF Bounded
  <1> QED
    BY <1>1, <1>4, <1>5, <1>6, <1>7, <1>8 DEF RequestInv, Serves

(* A process takes up, goes on with or leaves a request; nothing is stored. *)
LEMMA OperationChanges ==
  ASSUME RequestInv, NEW p \in Processes, NEW o, IsOperation(o), Serves(def, stage, o),
         o.request.key \in Nat,
         o.pc # "idle" => \A q \in Processes \ {p} : op[q].pc # "idle" => op[q].request.key # o.request.key,
         op' = [op EXCEPT ![p] = o], UNCHANGED <<def, stream, stage, conflicts>>
  PROVE  RequestInv'
  <1>1. op' = [q \in Processes |-> IF q = p THEN o ELSE op[q]]
    BY DEF RequestInv
  <1>2. \A q \in Processes : op'[q] = IF q = p THEN o ELSE op[q]
    BY <1>1
  <1>3. \A q \in Processes : IsOperation(op'[q]) /\ Serves(def', stage', op'[q])
    BY <1>2 DEF RequestInv
  <1>4. Apart'
    BY <1>2 DEF RequestInv, Apart
  <1>5. Bounded(KeysInUse')
    <2>1. PICK m \in Nat : KeysInUse \subseteq 0..m
      BY DEF RequestInv, Bounded
    <2> DEFINE x == o.request.key
               n == m + x
    <2>2. n \in Nat /\ 0..m \subseteq 0..n /\ x \in 0..n
      BY <2>1
    <2>3. KeysInUse' \subseteq KeysInUse \union {x}
      BY <1>2 DEF KeysInUse
    <2> HIDE DEF x, n
    <2>4. KeysInUse' \subseteq 0..n
      BY <2>1, <2>2, <2>3
    <2> QED
      BY <2>2, <2>4 DEF Bounded
  <1>6. op' = [q \in Processes |-> op'[q]]
    BY <1>1
  <1>7. Stored(def', stream', stage') /\ conflicts' = {}
    BY DEF RequestInv
  <1> QED
    BY <1>3, <1>4, <1>5, <1>6, <1>7 DEF RequestInv

LEMMA IdleServes ==
  ASSUME NEW d, NEW s
  PROVE  Serves(d, s, Idle) /\ IsOperation(Idle) /\ Idle.request.key = 0 /\ Idle.pc = "idle"
  BY DEF Serves, IsOperation, Idle, NoRequest

LEMMA AnswerKeeps ==
  ASSUME RequestInv, NEW p \in Processes, NEW r, NEW code, code # "IDEMPOTENCY_CONFLICT", Answer(p, r, code),
         UNCHANGED <<def, stream, stage>>
  PROVE  RequestInv'
  <1>1. op' = [op EXCEPT ![p] = Idle] /\ conflicts' = conflicts
    BY DEF Answer
  <1>2. Idle.request.key \in Nat
    BY IdleServes
  <1> QED
    BY <1>1, <1>2, IdleServes, OperationChanges

LEMMA ForgetKeeps ==
  ASSUME RequestInv, NEW p \in Processes, op[p].pc # "idle", Forget(p), UNCHANGED <<def, stream, stage>>
  PROVE  RequestInv'
  <1> DEFINE o == [pc |-> "lost", request |-> op[p].request, command |-> NoRequest]
  <1>1. op' = [op EXCEPT ![p] = o] /\ conflicts' = conflicts
    BY DEF Forget
  <1>2. o.pc = "lost" /\ o.request = op[p].request /\ IsOperation(o)
    BY DEF IsOperation
  <1>3. Serves(def, stage, op[p]) /\ op[p] # Idle
    BY IdleServes DEF RequestInv
  <1> HIDE DEF o
  <1>4. Serves(def, stage, o) /\ o.request.key \in Nat
    BY <1>2, <1>3 DEF Serves, WellFormed
  <1>5. \A q \in Processes \ {p} : op[q].pc # "idle" => op[q].request.key # o.request.key
    BY <1>2 DEF RequestInv, Apart
  <1> QED
    BY <1>1, <1>2, <1>4, <1>5, OperationChanges

(* A request of its own key is taken to the repository, or answered.       *)
LEMMA OrchestrateKeeps ==
  ASSUME RequestInv, NEW p \in Processes, NEW r, WellFormed(r), r.expected <= Len(stream),
         \A k \in DOMAIN stream : stream[k].key = r.key => Stands(stream[k], r),
         \A q \in Processes \ {p} : op[q].pc # "idle" => op[q].request.key # r.key,
         Orchestrate(p, r)
  PROVE  RequestInv'
  <1> DEFINE c == CommandFor(stage, r)
             t == TransitionDynamicStage(def, stage, c)
  <1>1. /\ IsSequence(stage.events) /\ stage.events = stream
        /\ \A i, j \in DOMAIN stage.events : stage.events[i].key = stage.events[j].key => i = j
    BY DEF RequestInv, Stored
  <1>2. /\ Stands(c, r) /\ RefersToIts(def, stage, c)
        /\ \A k \in DOMAIN stream : stream[k].key = r.key => c = stream[k]
    BY <1>1, CommandStands
  <1>3. t.code # "IDEMPOTENCY_CONFLICT"
    <2>1. Verdict(def, stage, c, t)
      BY Answers
    <2> HIDE DEF c, t
    <2>2. \A k \in Known(stage, c) : stage.events[k] = c
      BY <1>1, <1>2 DEF Known, Stands
    <2> QED
      BY <2>1, <2>2 DEF Verdict
  <1> HIDE DEF c, t
  <1>4. UNCHANGED <<def, stream, stage>>
    BY DEF Orchestrate
  <1>5. \/ Answer(p, r, t.code)
        \/ op' = [op EXCEPT ![p] = [pc |-> "previewed", request |-> r, command |-> c]] /\ UNCHANGED conflicts
    BY DEF Orchestrate, c, t
  <1>6. CASE Answer(p, r, t.code)
    BY <1>3, <1>4, <1>6, AnswerKeeps
  <1>7. CASE op' = [op EXCEPT ![p] = [pc |-> "previewed", request |-> r, command |-> c]] /\ UNCHANGED conflicts
    <2> DEFINE o == [pc |-> "previewed", request |-> r, command |-> c]
    <2>1. o.pc = "previewed" /\ o.request = r /\ o.command = c /\ IsOperation(o)
      BY DEF IsOperation
    <2>2. op' = [op EXCEPT ![p] = o] /\ UNCHANGED <<def, stream, stage, conflicts>>
      BY <1>4, <1>7
    <2> HIDE DEF o
    <2>3. Serves(def, stage, o)
      BY <1>1, <1>2, <2>1 DEF Serves
    <2>4. o.request.key \in Nat /\ \A q \in Processes \ {p} : op[q].pc # "idle" => op[q].request.key # o.request.key
      BY <2>1 DEF WellFormed
    <2> QED
      BY <2>1, <2>2, <2>3, <2>4, OperationChanges
  <1> QED
    BY <1>5, <1>6, <1>7

----------------------------------------------------------------------------
(* The key of a new request is above all in use.                           *)
LEMMA GreatestOf ==
  ASSUME NEW S, Bounded(S), NEW s \in S
  PROVE  Sets!Max(S) \in S /\ \A x \in S : Sets!Max(S) >= x
  <1>1. PICK m \in Nat : S \subseteq 0..m
    BY DEF Bounded
  <1> DEFINE U == {n \in Nat : \A x \in S : x <= n}
  <1>2. m \in U /\ U \in SUBSET Nat
    BY <1>1
  <1>3. PICK u \in U : \A n \in U : u <= n
    <2> HIDE DEF U
    <2> QED
      BY <1>2, LeastNumber
  <1>4. u \in S
    <2> SUFFICES ASSUME u \notin S PROVE FALSE
      OBVIOUS
    <2>1. s \in Nat /\ s < u
      BY <1>1, <1>3
    <2>2. u - 1 \in Nat /\ ~(u <= u - 1)
      BY <1>3, <2>1
    <2>3. \A x \in S : x <= u - 1
      BY <1>1, <1>3
    <2>4. u - 1 \in U
      BY <2>2, <2>3
    <2> QED
      BY <1>3, <2>2, <2>4
  <1>5. \A x \in S : u >= x
    BY <1>1, <1>3
  <1> QED
    BY <1>4, <1>5 DEF Sets!Max

LEMMA AskedIsWellFormed ==
  ASSUME NEW ask, IsRequest(ask), NEW key \in Nat, NEW n \in Nat
  PROVE  LET r == Asked(ask, key, n) IN WellFormed(r) /\ r.key = key /\ r.expected = n
  <1> DEFINE own == [key |-> key, expected |-> n, schedule |-> <<>>]
             r == Asked(ask, key, n)
  <1>1. r = [x \in {"key", "expected", "schedule"} \union DOMAIN ask |-> IF x \in {"key", "expected", "schedule"} THEN own[x] ELSE ask[x]]
    BY DEF Asked, Over
  <1>2. DOMAIN r = {"key", "expected", "schedule"} \union DOMAIN ask
    BY <1>1
  <1>3. \A x \in DOMAIN ask : x \notin {"key", "expected", "schedule"} => r[x] = ask[x]
    BY <1>1
  <1>4. r.key = key /\ r.expected = n /\ r.schedule = <<>>
    BY <1>1
  <1>5. r = [x \in DOMAIN r |-> r[x]]
    BY <1>1
  <1> HIDE DEF r
  <1>6. "kind" \in DOMAIN r /\ r.kind = ask.kind
    BY <1>2, <1>3 DEF IsRequest
  <1>7. Fields(r.kind) \subseteq DOMAIN r
    BY <1>2, <1>6 DEF IsRequest
  <1>8. r.kind = "SUBMIT_RANKING_RESULTS" => r.scores \in [DOMAIN r.scores -> Int]
    BY <1>3, <1>6 DEF IsRequest, Fields
  <1>9. r.kind = "SUBMIT_HEAT_RESULTS" => r.results \in [DOMAIN r.results -> Int]
    BY <1>3, <1>6 DEF IsRequest, Fields
  <1>10. r.kind = "CORRECT_HEAT_RESULT" => r.result \in Int
    BY <1>3, <1>6 DEF IsRequest, Fields
  <1>11. IsRequest(r)
    BY <1>6, <1>7, <1>8, <1>9, <1>10 DEF IsRequest
  <1>12. {"kind", "key", "expected", "schedule"} \subseteq DOMAIN r
    BY <1>2, <1>6
  <1> QED
    BY <1>4, <1>5, <1>11, <1>12 DEF WellFormed, r

LEMMA RequestKeeps ==
  ASSUME RequestInv, NEW p \in Processes, Request(p)
  PROVE  RequestInv'
  <1> DEFINE key == Sets!Max(KeysInUse \union {0}) + 1
  <1>1. key \in Nat /\ \A x \in KeysInUse : x # key
    <2> DEFINE S == KeysInUse \union {0}
    <2>1. PICK m \in Nat : KeysInUse \subseteq 0..m
      BY DEF RequestInv, Bounded
    <2>2. Bounded(S) /\ 0 \in S /\ S \subseteq Nat
      <3>1. 0 \in 0..m /\ 0..m \subseteq Nat
        BY <2>1
      <3> QED
        BY <2>1, <3>1 DEF Bounded
    <2>3. KeysInUse \subseteq S
      OBVIOUS
    <2> HIDE DEF S
    <2>4. Sets!Max(S) \in S /\ \A x \in S : Sets!Max(S) >= x
      BY <2>2, GreatestOf
    <2>5. Sets!Max(S) + 1 \in Nat /\ \A x \in S : x # Sets!Max(S) + 1
      <3> DEFINE u == Sets!Max(S)
      <3>1. u \in Nat /\ \A x \in S : x \in Nat /\ u >= x
        BY <2>2, <2>4
      <3> HIDE DEF u
      <3>2. u + 1 \in Nat /\ \A x \in S : x # u + 1
        BY <3>1
      <3> QED
        BY <3>2 DEF u
    <2> QED
      BY <2>3, <2>5 DEF S
  <1> HIDE DEF key
  <1>2. PICK n \in {Len(stream), Len(stream) - 1} \cap Nat :
          \E ask \in Requests(def, IF n = Len(stream) THEN stage ELSE ReplayDynamicStage(def, SubSeq(stream, 1, n))) :
            IsRequest(ask) /\ Orchestrate(p, Asked(ask, key, n))
    BY DEF Request, key
  <1>9. PICK ask : IsRequest(ask) /\ Orchestrate(p, Asked(ask, key, n))
    BY <1>2
  <1> DEFINE r == Asked(ask, key, n)
  <1>3. WellFormed(r) /\ r.key = key /\ r.expected = n
    BY <1>1, <1>2, <1>9, AskedIsWellFormed
  <1>4. Orchestrate(p, r)
    BY <1>9
  <1> HIDE DEF r
  <1>5. Len(stream) \in Nat
    BY SequenceFacts DEF RequestInv, Stored
  <1>6. r.expected <= Len(stream)
    BY <1>3, <1>5
  <1>7. \A k \in DOMAIN stream : stream[k].key # r.key
    BY <1>1, <1>3 DEF KeysInUse
  <1>8. \A q \in Processes : op[q].request.key # r.key
    BY <1>1, <1>3 DEF KeysInUse
  <1> QED
    BY <1>3, <1>4, <1>6, <1>7, <1>8, OrchestrateKeeps

LEMMA RetryKeeps ==
  ASSUME RequestInv, NEW p \in Processes, Retry(p)
  PROVE  RequestInv'
  <1> DEFINE r == op[p].request
  <1>1. op[p].pc = "lost" /\ Orchestrate(p, r)
    BY DEF Retry
  <1>2. Serves(def, stage, op[p]) /\ op[p] # Idle /\ stage.events = stream
    BY <1>1, IdleServes DEF RequestInv, Stored
  <1>3. /\ WellFormed(r) /\ r.expected <= Len(stream)
        /\ \A k \in DOMAIN stream : stream[k].key = r.key => Stands(stream[k], r)
    BY <1>2 DEF Serves
  <1>4. \A q \in Processes \ {p} : op[q].pc # "idle" => op[q].request.key # r.key
    BY <1>1 DEF RequestInv, Apart
  <1> HIDE DEF r
  <1> QED
    BY <1>1, <1>3, <1>4, OrchestrateKeeps

LEMMA RepositoryLoadKeeps ==
  ASSUME RequestInv, NEW p \in Processes, RepositoryLoad(p)
  PROVE  RequestInv'
  <1> DEFINE c == op[p].command
             t == TransitionDynamicStage(def, stage, c)
  <1>1. op[p].pc = "previewed" /\ UNCHANGED <<def, stream, stage>>
    BY DEF RepositoryLoad
  <1>2. Serves(def, stage, op[p]) /\ op[p] # Idle /\ IsOperation(op[p]) /\ stage.events = stream
    BY <1>1, IdleServes DEF RequestInv, Stored
  <1>3. CASE t.status = "APPLIED"
    <2> DEFINE o == [pc |-> "decided", request |-> op[p].request, command |-> c]
               e == [op[p] EXCEPT !.pc = "decided"]
    <2>1. op' = [op EXCEPT ![p] = e] /\ UNCHANGED conflicts
      BY <1>3 DEF RepositoryLoad
    <2>2. e = o
      BY <1>2 DEF IsOperation
    <2>3. o.pc = "decided" /\ o.request = op[p].request /\ o.command = c /\ IsOperation(o)
      BY DEF IsOperation
    <2> HIDE DEF o, e
    <2>4. Serves(def, stage, o) /\ o.request.key \in Nat
      BY <1>1, <1>2, <2>3 DEF Serves, WellFormed
    <2>5. \A q \in Processes \ {p} : op[q].pc # "idle" => op[q].request.key # o.request.key
      BY <1>1, <2>3 DEF RequestInv, Apart
    <2>6. op' = [op EXCEPT ![p] = o]
      BY <2>1, <2>2
    <2> QED
      BY <1>1, <2>1, <2>3, <2>4, <2>5, <2>6, OperationChanges
  <1>4. CASE t.status # "APPLIED"
    <2>1. Answer(p, op[p].request, t.code)
      BY <1>4 DEF RepositoryLoad
    <2>2. t.code # "IDEMPOTENCY_CONFLICT"
      <3>1. Verdict(def, stage, c, t)
        BY Answers
      <3>2. \A k \in Known(stage, c) : stage.events[k] = c
        BY <1>1, <1>2 DEF Known, Stands, Serves
      <3> HIDE DEF c, t
      <3> QED
        BY <3>1, <3>2 DEF Verdict
    <2> QED
      BY <1>1, <2>1, <2>2, AnswerKeeps
  <1> QED
    BY <1>3, <1>4

LEMMA CrashKeeps ==
  ASSUME RequestInv, NEW p \in Processes, Crash(p)
  PROVE  RequestInv'
  <1>1. op[p].pc # "idle" /\ Forget(p) /\ UNCHANGED <<def, stream, stage>>
    BY DEF Crash
  <1> QED
    BY <1>1, ForgetKeeps

(* An event under another key leaves a request what it was.                *)
LEMMA ServesOn ==
  ASSUME NEW d, NEW s, IsSequence(s.events), NEW c, NEW t, t.events = Append(s.events, c), NEW o, Serves(d, s, o),
         o # Idle => c.key # o.request.key
  PROVE  Serves(d, t, o)
  <1> DEFINE n == Len(s.events)
             r == o.request
  <1>1. CASE o = Idle
    BY <1>1 DEF Serves
  <1>2. CASE o # Idle
    <2>1. /\ n \in Nat /\ DOMAIN s.events = 1..n /\ Len(t.events) = n + 1 /\ DOMAIN t.events = 1..(n + 1)
          /\ t.events[n + 1] = c /\ \A k \in 1..n : t.events[k] = s.events[k]
      BY Appended
    <2>2. /\ o.pc \in {"lost", "previewed", "decided"} /\ WellFormed(r) /\ r.expected <= n
          /\ \A k \in 1..n : s.events[k].key = r.key => Stands(s.events[k], r)
          /\ o.pc # "lost" => Stands(o.command, r) /\ \A k \in 1..n : s.events[k].key = r.key => o.command = s.events[k]
      BY <1>2, <2>1 DEF Serves
    <2>3. r.expected <= n + 1 /\ r.expected # n + 1
      BY <2>1, <2>2 DEF WellFormed
    <2> HIDE DEF r, n
    <2>4. \A k \in 1..(n + 1) : t.events[k].key = r.key => k \in 1..n /\ t.events[k] = s.events[k]
      <3> SUFFICES ASSUME NEW k \in 1..(n + 1), t.events[k].key = r.key PROVE k \in 1..n /\ t.events[k] = s.events[k]
        OBVIOUS
      <3>1. k # n + 1
        BY <1>2, <2>1 DEF r
      <3>2. k \in 1..n
        BY <2>1, <3>1
      <3> QED
        BY <2>1, <3>2
    <2>5. ASSUME o.pc # "lost" PROVE RefersToIts(d, t, o.command)
      <3>1. o.command.expected # Len(t.events)
        BY <2>1, <2>2, <2>3, <2>5 DEF Stands
      <3>2. Verdict(d, t, o.command, TransitionDynamicStage(d, t, o.command))
        BY Answers
      <3> QED
        BY <3>1, <3>2 DEF Verdict, RefersToIts
    <2> QED
      BY <2>1, <2>2, <2>3, <2>4, <2>5 DEF Serves, r
  <1> QED
    BY <1>1, <1>2

(* The stored stage after an event.                                        *)
LEMMA StoredOn ==
  ASSUME NEW d, NEW events, NEW s, Stored(d, events, s), NEW c, NEW t, \A k \in DOMAIN events : events[k].key # c.key,
         t = TransitionDynamicStage(d, s, c).state, t.events = Append(events, c), RefersToIts(d, s, c)
  PROVE  Stored(d, Append(events, c), t)
  <1> DEFINE n == Len(events)
             longer == Append(events, c)
  <1>1. PICK f : IsReplay(f, d, events) /\ f[n] = s /\ RefersAlong(f, events)
    BY DEF Stored
  <1> DEFINE g == [k \in 0..(n + 1) |-> IF k = n + 1 THEN TransitionDynamicStage(d, f[n], c).state ELSE f[k]]
  <1>2. /\ IsSequence(longer) /\ n \in Nat /\ DOMAIN events = 1..n /\ Len(longer) = n + 1 /\ DOMAIN longer = 1..(n + 1)
        /\ longer[n + 1] = c /\ \A k \in 1..n : longer[k] = events[k]
    BY Appended DEF Stored
  <1>3. IsReplay(g, d, longer)
    BY <1>1, ReplayGrows DEF Stored
  <1>4. g[n + 1] = t /\ \A k \in 1..n : g[k] = f[k]
    BY <1>1, <1>2
  <1> HIDE DEF g, longer, n
  <1>5. t.events # s.events
    <2>1. Len(s.events) = n /\ Len(t.events) = n + 1
      BY <1>2 DEF Stored, n, longer
    <2> QED
      BY <1>2, <2>1
  <1>6. TransitionDynamicStage(d, s, c).status = "APPLIED"
    <2>1. Verdict(d, s, c, TransitionDynamicStage(d, s, c))
      BY Answers
    <2> QED
      BY <1>5, <2>1 DEF Verdict
  <1>7. \A k \in 1..(n + 1) : k = n + 1 \/ k \in 1..n
    BY <1>2
  <1>8. RefersAlong(g, longer)
    BY <1>1, <1>2, <1>4, <1>6, <1>7 DEF RefersAlong, RefersToIts
  <1>9. \A i, j \in 1..(n + 1) : longer[i].key = longer[j].key => i = j
    BY <1>2, <1>7 DEF Stored
  <1>10. t.events = longer
    BY DEF longer
  <1> QED
    BY <1>2, <1>3, <1>4, <1>8, <1>9, <1>10 DEF Stored, longer

LEMMA AppendEventKeeps ==
  ASSUME RequestInv, NEW p \in Processes, AppendEvent(p)
  PROVE  RequestInv'
  <1> DEFINE c == op[p].command
             r == op[p].request
             known == {k \in DOMAIN stream : stream[k].key = c.key}
             longer == Append(stream, c)
             replay == TransitionDynamicStage(def, stage, c).state
  <1>1. Serves(def, stage, op[p]) /\ op[p] # Idle /\ op[p].pc = "decided" /\ stage.events = stream /\ def' = def
    BY IdleServes DEF RequestInv, Stored, AppendEvent
  <1>2. /\ WellFormed(r) /\ Stands(c, r) /\ RefersToIts(def, stage, c) /\ c.key = r.key
        /\ \A k \in DOMAIN stream : stream[k].key = r.key => c = stream[k]
    BY <1>1 DEF Serves, Stands
  <1>3. CASE known # {}
    <2>1. stream[CHOOSE k \in known : TRUE] = c
      BY <1>2, <1>3
    <2> HIDE DEF known, c
    <2>2. Answer(p, r, "NONE") /\ UNCHANGED <<def, stream, stage>>
      BY <1>1, <1>3, <2>1 DEF AppendEvent, known, c
    <2> QED
      BY <2>2, AnswerKeeps
  <1>4. CASE known = {} /\ Len(stream) # c.expected
    <2>1. Answer(p, r, "VERSION_CONFLICT") /\ UNCHANGED <<def, stream, stage>>
      BY <1>1, <1>4 DEF AppendEvent
    <2> QED
      BY <2>1, AnswerKeeps
  <1>5. CASE known = {} /\ Len(stream) = c.expected
    <2>1. \/ Answer(p, r, "INVALID_EVENT_APPEND") /\ UNCHANGED <<def, stream, stage>>
          \/ /\ replay.events = longer /\ stream' = longer /\ stage' = replay
             /\ Answer(p, r, "NONE") \/ Forget(p)
      BY <1>1, <1>5 DEF AppendEvent
    <2>2. CASE Answer(p, r, "INVALID_EVENT_APPEND") /\ UNCHANGED <<def, stream, stage>>
      BY <2>2, AnswerKeeps
    <2>3. CASE /\ replay.events = longer /\ stream' = longer /\ stage' = replay
               /\ Answer(p, r, "NONE") \/ Forget(p)
      <3> DEFINE lost == [pc |-> "lost", request |-> r, command |-> NoRequest]
      <3>1. PICK o \in {Idle, lost} : op' = [op EXCEPT ![p] = o]
        BY <2>3 DEF Answer, Forget
      <3>2. conflicts' = {}
        BY <2>3 DEF Answer, Forget, RequestInv
      <3>3. lost.pc = "lost" /\ lost.request = r /\ IsOperation(lost)
        BY DEF IsOperation
      <3> HIDE DEF lost, known, c, r, replay
      <3>4. \A k \in DOMAIN stream : stream[k].key # c.key
        BY <1>5 DEF known
      <3>5. Stored(def, longer, replay)
        BY <1>1, <1>2, <2>3, <3>4, StoredOn DEF RequestInv, replay
      <3>6. /\ Len(stream) \in Nat /\ Len(longer) = Len(stream) + 1 /\ DOMAIN longer = 1..(Len(stream) + 1)
            /\ DOMAIN stream = 1..Len(stream) /\ longer[Len(stream) + 1] = c
            /\ \A k \in 1..Len(stream) : longer[k] = stream[k]
        BY Appended DEF RequestInv, Stored
      <3> HIDE DEF longer
      <3>7. \A q \in Processes : op'[q] = IF q = p THEN o ELSE op[q]
        BY <3>1 DEF RequestInv
      <3>8. op' = [q \in Processes |-> op'[q]]
        BY <3>1 DEF RequestInv
      <3>9. Serves(def', stage', o) /\ IsOperation(o) /\ o.request.key \in {0, r.key}
        <4>1. CASE o = Idle
          BY <4>1, IdleServes
        <4>2. CASE o = lost
          <5>1. r.expected <= Len(longer)
            BY <1>1, <1>2, <3>6 DEF Serves, WellFormed, r
          <5>2. \A k \in DOMAIN longer : longer[k].key = r.key => Stands(longer[k], r)
            <6> SUFFICES ASSUME NEW k \in DOMAIN longer, longer[k].key = r.key PROVE Stands(longer[k], r)
              OBVIOUS
            <6>1. k = Len(stream) + 1 \/ k \in DOMAIN stream
              BY <3>6
            <6>2. longer[k] = c
              BY <1>2, <3>4, <3>6, <6>1
            <6> QED
              BY <1>2, <6>2
          <5>3. stage'.events = longer
            BY <2>3
          <5> QED
            BY <1>2, <3>3, <4>2, <5>1, <5>2, <5>3 DEF Serves
        <4> QED
          BY <3>1, <4>1, <4>2
      <3>10. ASSUME NEW q \in Processes, q # p
             PROVE  Serves(def', stage', op[q])
        <4>1. Serves(def, stage, op[q]) /\ (op[q] # Idle => op[q].pc # "idle")
          BY DEF RequestInv, Serves
        <4>2. op[q] # Idle => op[q].request.key # c.key
          BY <1>1, <1>2, <3>10, <4>1 DEF RequestInv, Apart, r
        <4>3. IsSequence(stage.events) /\ stage'.events = Append(stage.events, c)
          BY <1>1, <2>3 DEF RequestInv, Stored, longer
        <4> QED
          BY <1>1, <4>1, <4>2, <4>3, ServesOn
      <3>11. \A q \in Processes : IsOperation(op'[q]) /\ Serves(def', stage', op'[q])
        BY <3>7, <3>9, <3>10 DEF RequestInv
      <3>12. Apart'
        <4>1. \A q \in Processes : op'[q].pc # "idle" => op[q].pc # "idle" /\ op'[q].request = op[q].request
          BY <1>1, <3>1, <3>3, <3>7, IdleServes DEF r
        <4> QED
          BY <4>1 DEF RequestInv, Apart
      <3>13. Bounded(KeysInUse')
        <4>1. PICK m \in Nat : KeysInUse \subseteq 0..m
          BY DEF RequestInv, Bounded
        <4>2. r.key \in KeysInUse /\ c.key = r.key
          BY <1>2 DEF KeysInUse, r
        <4>3. \A k \in DOMAIN stream' : stream'[k].key \in KeysInUse
          BY <2>3, <3>6, <4>2 DEF KeysInUse
        <4>4. \A q \in Processes : op'[q].request.key \in KeysInUse \union {0}
          BY <3>7, <3>9, <4>2 DEF KeysInUse
        <4>5. KeysInUse' \subseteq KeysInUse \union {0}
          BY <3>2, <4>3, <4>4 DEF KeysInUse
        <4>6. KeysInUse' \subseteq 0..m
          <5>1. 0 \in 0..m
            BY <4>1
          <5> QED
            BY <4>1, <4>5, <5>1
        <4> QED
          BY <4>1, <4>6 DEF Bounded
      <3> QED
        BY <1>1, <2>3, <3>2, <3>5, <3>8, <3>11, <3>12, <3>13 DEF RequestInv
    <2> QED
      BY <2>1, <2>2, <2>3
  <1> QED
    BY <1>3, <1>4, <1>5

LEMMA RequestNext == RequestInv /\ [Next]_vars => RequestInv'
  <1> SUFFICES ASSUME RequestInv, [Next]_vars PROVE RequestInv'
    OBVIOUS
  <1>1. CASE Next
    <2>1. PICK p \in Processes : Request(p) \/ Retry(p) \/ RepositoryLoad(p) \/ AppendEvent(p) \/ Crash(p)
      BY <1>1 DEF Next
    <2> QED
      BY <2>1, RequestKeeps, RetryKeeps, RepositoryLoadKeeps, AppendEventKeeps, CrashKeeps
  <1>2. CASE UNCHANGED vars
    BY <1>2 DEF vars, RequestInv, Apart, KeysInUse
  <1> QED
    BY <1>1, <1>2

----------------------------------------------------------------------------
(* A retry is never taken for another question, and every recorded         *)
(* challenge refers to the schedule its own event leads to, whoever        *)
(* computed it and however the processes interleave.                       *)
THEOREM RequestsRecognised == Spec => []RequestsAreRecognised
  <1>1. RequestInv => RequestsAreRecognised
    <2> SUFFICES ASSUME RequestInv PROVE ReferencesAreCurrent
      BY DEF RequestsAreRecognised, RetriesAreRecognised, RequestInv
    <2>1. PICK f : IsReplay(f, def, stream) /\ RefersAlong(f, stream)
      BY DEF RequestInv, Stored
    <2>2. IsSequence(stream) /\ DOMAIN stream = 1..Len(stream) /\ Len(stream) \in Nat
      BY SequenceFacts DEF RequestInv, Stored
    <2>3. \A k \in DOMAIN stream : ReplayDynamicStage(def, SubSeq(stream, 1, k)) = f[k]
      BY <2>1, <2>2, PrefixReplays
    <2> QED
      BY <2>1, <2>3 DEF RefersAlong, ReferencesAreCurrent
  <1> QED
    BY <1>1, RequestInit, RequestNext, PTL DEF Spec
----------------------------------------------------------------------------
(* Of any cost lists of one length one is lexically first.                 *)
FirstOf(X) == \E s \in X : \A t \in X : t # s => F!LexLess(s, t)
Firsts(n) == \A X \in SUBSET [1..n -> Nat] : X # {} => FirstOf(X)

LEMMA LexicallyFirst == \A n \in Nat : Firsts(n)
  <1> DEFINE S == {n \in Nat : Firsts(n)}
  <1>1. 0 \in S
    <2>1. ASSUME NEW X \in SUBSET [1..0 -> Nat], X # {} PROVE FirstOf(X)
      <3>1. \A s, t \in [1..0 -> Nat] : s = t
        OBVIOUS
      <3> QED
        BY <2>1, <3>1 DEF FirstOf
    <2> QED
      BY <2>1 DEF Firsts
  <1>2. ASSUME NEW n \in Nat, n \in S PROVE n + 1 \in S
    <2> SUFFICES ASSUME NEW X \in SUBSET [1..(n + 1) -> Nat], X # {} PROVE FirstOf(X)
      BY DEF Firsts
    <2> DEFINE Begins(x) == [j \in 1..n |-> x[j]]
               Y == {Begins(x) : x \in X}
    <2>1. n + 1 \in 1..(n + 1) /\ \A j \in 1..n : j \in 1..(n + 1)
      OBVIOUS
    <2>2. \A x \in X : x \in [1..(n + 1) -> Nat] /\ x[n + 1] \in Nat /\ \A j \in 1..n : x[j] \in Nat
      BY <2>1
    <2>3. \A x \in X : Begins(x) \in [1..n -> Nat]
      BY <2>2
    <2>4. Y \in SUBSET [1..n -> Nat] /\ Y # {}
      BY <2>3
    <2>5. PICK y \in Y : \A t \in Y : t # y => F!LexLess(y, t)
      <3> HIDE DEF Y
      <3> QED
        BY <1>2, <2>4 DEF Firsts, FirstOf
    <2> DEFINE Z == {x[n + 1] : x \in {x \in X : Begins(x) = y}}
    <2>6. Z \in SUBSET Nat /\ Z # {}
      BY <2>2
    <2>7. PICK z \in Z : \A w \in Z : z <= w
      <3> HIDE DEF Z
      <3> QED
        BY <2>6, LeastNumber
    <2>8. PICK s \in X : Begins(s) = y /\ s[n + 1] = z
      OBVIOUS
    <2> HIDE DEF Z, Y
    <2>9. ASSUME NEW t \in X, t # s PROVE F!LexLess(s, t)
      <3>1. s \in [1..(n + 1) -> Nat] /\ t \in [1..(n + 1) -> Nat]
        BY <2>2
      <3>2. CASE Begins(t) = y
        <4>1. \A j \in 1..n : s[j] = t[j]
          <5>1. \A j \in 1..n : Begins(s)[j] = s[j] /\ Begins(t)[j] = t[j]
            OBVIOUS
          <5> QED
            BY <2>8, <3>2, <5>1
        <4>2. s[n + 1] # t[n + 1]
          <5> SUFFICES ASSUME s[n + 1] = t[n + 1] PROVE FALSE
            OBVIOUS
          <5>1. \A j \in 1..(n + 1) : s[j] = t[j]
            BY <4>1
          <5> QED
            BY <2>9, <3>1, <5>1
        <4>3. t[n + 1] \in Z
          BY <3>2 DEF Z
        <4>4. s[n + 1] < t[n + 1]
          BY <2>1, <2>6, <2>7, <2>8, <3>1, <4>2, <4>3
        <4>5. n + 1 \in DOMAIN s /\ \A j \in 1..((n + 1) - 1) : s[j] = t[j]
          BY <3>1, <4>1
        <4> QED
          BY <4>4, <4>5 DEF F!LexLess
      <3>3. CASE Begins(t) # y
        <4> DEFINE u == Begins(t)
        <4>1. F!LexLess(y, u)
          <5>1. u \in Y /\ u # y
            BY <3>3 DEF Y
          <5> HIDE DEF u
          <5> QED
            BY <2>5, <5>1
        <4>2. PICK i \in DOMAIN y : y[i] < u[i] /\ \A j \in 1..(i - 1) : y[j] = u[j]
          BY <4>1 DEF F!LexLess
        <4>3. i \in 1..n /\ i \in DOMAIN s
          BY <2>8, <3>1, <4>2
        <4>4. \A j \in 1..n : y[j] = s[j] /\ u[j] = t[j]
          BY <2>8
        <4> HIDE DEF u
        <4>5. s[i] < t[i] /\ \A j \in 1..(i - 1) : s[j] = t[j]
          BY <4>2, <4>3, <4>4
        <4> QED
          BY <4>3, <4>5 DEF F!LexLess
      <3> QED
        BY <3>2, <3>3
    <2> QED
      BY <2>9 DEF FirstOf
  <1> HIDE DEF S
  <1>3. \A n \in Nat : n \in S
    BY <1>1, <1>2, Induction
  <1> QED
    BY <1>3 DEF S
----------------------------------------------------------------------------
(* What is computed step by step exists.                                   *)
Steps(g, n, V) == g \in [1..n -> [V -> V]]
Iteration(f, g, n, V, v) == f \in [0..n -> V] /\ f[0] = v /\ \A k \in 1..n : f[k] = g[k][f[k - 1]]

LEMMA Iterates ==
  ASSUME NEW V, NEW v \in V, NEW n \in Nat, NEW g, Steps(g, n, V)
  PROVE  \E f : Iteration(f, g, n, V, v)
  <1> DEFINE Upto(m) == \E f \in [0..m -> V] : f[0] = v /\ \A k \in 1..m : f[k] = g[k][f[k - 1]]
             S == {m \in Nat : m <= n => Upto(m)}
  <1>1. 0 \in S
    <2> DEFINE f == [k \in 0..0 |-> v]
    <2>1. f \in [0..0 -> V] /\ f[0] = v
      OBVIOUS
    <2> HIDE DEF f
    <2>2. \A k \in 1..0 : f[k] = g[k][f[k - 1]]
      OBVIOUS
    <2> QED
      BY <2>1, <2>2
  <1>2. ASSUME NEW m \in Nat, m \in S PROVE m + 1 \in S
    <2> SUFFICES ASSUME m + 1 <= n PROVE Upto(m + 1)
      OBVIOUS
    <2>1. PICK f \in [0..m -> V] : f[0] = v /\ \A k \in 1..m : f[k] = g[k][f[k - 1]]
      BY <1>2
    <2> DEFINE h == [k \in 0..(m + 1) |-> IF k = m + 1 THEN g[m + 1][f[m]] ELSE f[k]]
    <2>2. m + 1 \in 1..n /\ m \in 0..m
      OBVIOUS
    <2>3. g[m + 1] \in [V -> V] /\ f[m] \in V
      BY <2>2 DEF Steps
    <2>4. \A k \in 0..(m + 1) : k = m + 1 \/ k \in 0..m
      OBVIOUS
    <2>5. h \in [0..(m + 1) -> V]
      BY <2>3, <2>4
    <2>6. h[0] = v
      BY <2>1
    <2>7. \A k \in 1..(m + 1) : h[k] = g[k][h[k - 1]]
      <3> SUFFICES ASSUME NEW k \in 1..(m + 1) PROVE h[k] = g[k][h[k - 1]]
        OBVIOUS
      <3>1. k - 1 \in 0..m /\ k - 1 # m + 1 /\ h[k - 1] = f[k - 1]
        OBVIOUS
      <3>2. CASE k = m + 1
        BY <3>1, <3>2
      <3>3. CASE k # m + 1
        BY <2>1, <3>1, <3>3
      <3> QED
        BY <3>2, <3>3
    <2> HIDE DEF h
    <2> QED
      BY <2>5, <2>6, <2>7
  <1> HIDE DEF S
  <1>3. \A m \in Nat : m \in S
    BY <1>1, <1>2, Induction
  <1>4. n \in S
    BY <1>3
  <1> QED
    BY <1>4 DEF S, Iteration

LEMMA LengthOf ==
  ASSUME NEW A, NEW n \in Nat, NEW s \in [1..n -> A]
  PROVE  s \in Seq(A) /\ Len(s) = n
  <1>1. s \in Seq(A)
    BY SeqDef
  <1>2. DOMAIN s = 1..n /\ DOMAIN s = 1..Len(s) /\ Len(s) \in Nat
    BY <1>1
  <1> QED
    BY <1>1, <1>2

----------------------------------------------------------------------------
(* Swiss pairing.                                                          *)
Tallied(C) == IsFiniteSet(DOMAIN C) /\ DOMAIN C \subseteq Nat \ {F!NoEntrant} /\ \A i \in DOMAIN C : C[i].points \in Int

SumsGaps(f, C, b) ==
  f = [k \in 0..Len(b) |-> IF k = 0 THEN 0 ELSE f[k - 1] + F!Gap(C, b[k][1], b[k][2])]

LEMMA TotalGapIsNat ==
  ASSUME NEW C, Tallied(C), NEW n \in Nat, NEW b \in [1..n -> (DOMAIN C) \X (DOMAIN C)]
  PROVE  F!TotalGap(C, b) \in Nat
  <1> DEFINE gap(k) == F!Gap(C, b[k][1], b[k][2])
             g == [k \in 1..n |-> [x \in Nat |-> x + gap(k)]]
  <1>1. ASSUME NEW k \in 1..n PROVE gap(k) \in Nat
    <2>1. b[k] \in (DOMAIN C) \X (DOMAIN C)
      OBVIOUS
    <2>2. b[k][1] \in DOMAIN C /\ b[k][2] \in DOMAIN C
      BY <2>1
    <2>3. C[b[k][1]].points \in Int /\ C[b[k][2]].points \in Int
      BY <2>2 DEF Tallied
    <2> QED
      BY <2>3 DEF F!Gap
  <1> HIDE DEF gap
  <1>2. Steps(g, n, Nat)
    BY <1>1 DEF Steps
  <1>3. \A k \in 1..n, x \in Nat : g[k][x] = x + gap(k)
    OBVIOUS
  <1> HIDE DEF g
  <1>4. PICK f \in [0..n -> Nat] : f[0] = 0 /\ \A k \in 1..n : f[k] = g[k][f[k - 1]]
    <2>1. 0 \in Nat
      OBVIOUS
    <2>2. \E f : Iteration(f, g, n, Nat, 0)
      BY <1>2, <2>1, Iterates
    <2> QED
      BY <2>2 DEF Iteration
  <1>5. Len(b) = n
    BY LengthOf
  <1>6. \A k \in 0..n : f[k] = IF k = 0 THEN 0 ELSE f[k - 1] + gap(k)
    <2> SUFFICES ASSUME NEW k \in 0..n, k # 0 PROVE f[k] = f[k - 1] + gap(k)
      BY <1>4
    <2>1. k \in 1..n /\ f[k - 1] \in Nat
      OBVIOUS
    <2> QED
      BY <1>3, <1>4, <2>1
  <1>7. SumsGaps(f, C, b)
    <2>1. f = [k \in 0..n |-> IF k = 0 THEN 0 ELSE f[k - 1] + gap(k)]
      BY <1>6
    <2> QED
      BY <1>5, <2>1 DEF SumsGaps, gap
  <1> DEFINE h == CHOOSE h : SumsGaps(h, C, b)
  <1>8. SumsGaps(h, C, b)
    BY <1>7
  <1>9. F!TotalGap(C, b) = h[n]
    BY <1>5 DEF F!TotalGap, SumsGaps
  <1> HIDE DEF h
  <1>10. h = f
    <2>1. h = [k \in 0..n |-> IF k = 0 THEN 0 ELSE h[k - 1] + gap(k)]
      BY <1>5, <1>8 DEF SumsGaps, gap
    <2>2. DOMAIN h = 0..n /\ \A k \in 0..n : h[k] = IF k = 0 THEN 0 ELSE h[k - 1] + gap(k)
      BY <2>1
    <2>3. On0To(n, h) /\ On0To(n, f)
      BY <2>1, <2>2 DEF On0To
    <2>4. h[0] = f[0]
      BY <1>4, <2>2
    <2>5. SameSteps(h, f, n)
      BY <1>6, <2>2 DEF SameSteps
    <2> QED
      BY <2>3, <2>4, <2>5, StepsDetermine
  <1> QED
    BY <1>9, <1>10
----------------------------------------------------------------------------
(* Places in a finite order: whoever comes before has a smaller number,    *)
(* and every number is somebody's.                                         *)
Orders(Rel, S) ==
  /\ \A i \in S : <<i, i>> \notin Rel
  /\ \A i, j \in S : i # j => <<i, j>> \in Rel \/ <<j, i>> \in Rel
  /\ \A i, j, k \in S : <<i, j>> \in Rel /\ <<j, k>> \in Rel => <<i, k>> \in Rel
Before(Rel, S, i) == {j \in S : <<j, i>> \in Rel}
Number(Rel, S, i) == 1 + Cardinality(Before(Rel, S, i))

LEMMA NumbersGrow ==
  ASSUME NEW S, IsFiniteSet(S), NEW Rel, Orders(Rel, S)
  PROVE  /\ \A i \in S : Number(Rel, S, i) \in 1..Cardinality(S)
         /\ \A i, j \in S : <<i, j>> \in Rel => Number(Rel, S, i) < Number(Rel, S, j)
  <1> DEFINE B(i) == Before(Rel, S, i)
  <1>1. Cardinality(S) \in Nat
    BY FS_CardinalityType
  <1>2. ASSUME NEW i \in S
        PROVE  B(i) \subseteq S /\ i \notin B(i) /\ IsFiniteSet(B(i)) /\ Cardinality(B(i)) \in Nat
    <2>1. B(i) \subseteq S /\ i \notin B(i)
      BY DEF Before, Orders
    <2> QED
      BY <2>1, FS_Subset, FS_CardinalityType
  <1>3. ASSUME NEW i \in S PROVE Cardinality(B(i)) < Cardinality(S)
    <2>1. B(i) \subseteq S /\ B(i) # S
      BY <1>2
    <2> HIDE DEF B
    <2>2. Cardinality(B(i)) <= Cardinality(S) /\ (Cardinality(B(i)) = Cardinality(S) => B(i) = S)
      BY <2>1, FS_Subset
    <2> QED
      BY <1>1, <1>2, <2>1, <2>2
  <1>4. ASSUME NEW i \in S, NEW j \in S, <<i, j>> \in Rel PROVE Cardinality(B(i)) < Cardinality(B(j))
    <2>1. B(i) \subseteq B(j) /\ i \in B(j) /\ i \notin B(i)
      BY <1>4 DEF Before, Orders
    <2>2. IsFiniteSet(B(j)) /\ Cardinality(B(i)) \in Nat /\ Cardinality(B(j)) \in Nat
      BY <1>2
    <2> HIDE DEF B
    <2>3. B(i) # B(j)
      BY <2>1
    <2>4. Cardinality(B(i)) <= Cardinality(B(j)) /\ (Cardinality(B(i)) = Cardinality(B(j)) => B(i) = B(j))
      BY <2>1, <2>2, FS_Subset
    <2> QED
      BY <2>2, <2>3, <2>4
  <1> HIDE DEF B
  <1>5. \A i \in S : 1 + Cardinality(B(i)) \in 1..Cardinality(S)
    BY <1>1, <1>2, <1>3
  <1>6. \A i, j \in S : <<i, j>> \in Rel => 1 + Cardinality(B(i)) < 1 + Cardinality(B(j))
    BY <1>2, <1>4
  <1> QED
    BY <1>5, <1>6 DEF B, Number

LEMMA NumbersCount ==
  ASSUME NEW S, IsFiniteSet(S), NEW Rel, Orders(Rel, S)
  PROVE  /\ \A m \in 1..Cardinality(S) : \E i \in S : Number(Rel, S, i) = m
         /\ \A m \in 0..Cardinality(S) : Cardinality({i \in S : Number(Rel, S, i) <= m}) = m
  <1> DEFINE n == Cardinality(S)
             f == [i \in S |-> Number(Rel, S, i)]
  <1>1. n \in Nat
    BY FS_CardinalityType
  <1>2. f \in [S -> 1..n]
    BY NumbersGrow
  <1>3. \A i, j \in S : f[i] = f[j] => i = j
    <2> SUFFICES ASSUME NEW i \in S, NEW j \in S, i # j PROVE f[i] # f[j]
      OBVIOUS
    <2>1. f[i] \in 1..n /\ f[j] \in 1..n
      BY <1>2
    <2>2. f[i] < f[j] \/ f[j] < f[i]
      BY NumbersGrow DEF Orders
    <2> HIDE DEF f, n
    <2> QED
      BY <1>1, <2>1, <2>2
  <1>4. f \in Bijection(S, Range(f))
    BY <1>2, <1>3 DEF Bijection, Injection, Surjection, IsInjective, Range
  <1>5. \A i \in S : f[i] = Number(Rel, S, i)
    OBVIOUS
  <1> HIDE DEF f
  <1>6. Range(f) = 1..n
    <2>1. Range(f) \subseteq 1..n
      BY <1>2 DEF Range
    <2>2. IsFiniteSet(Range(f)) /\ Cardinality(Range(f)) = n
      BY <1>4, FS_Bijection DEF ExistsBijection
    <2>3. IsFiniteSet(1..n) /\ Cardinality(1..n) = n
      <3>1. 0 \in Int /\ 1 \in Int /\ n \in Int /\ 1 <= n + 1
        BY <1>1
      <3> QED
        BY <3>1, <1>1, FS_Interval
    <2> QED
      BY <2>1, <2>2, <2>3, FS_Subset
  <1>7. \A m \in 1..n : \E i \in S : f[i] = m
    BY <1>2, <1>6 DEF Range
  <1>8. ASSUME NEW m \in 0..n PROVE Cardinality({i \in S : f[i] <= m}) = m
    <2> DEFINE T == {i \in S : f[i] <= m}
               g == [i \in T |-> f[i]]
    <2>1. \A i \in T : i \in S /\ f[i] \in 1..m
      BY <1>1, <1>2
    <2>2. \A x \in 1..m : \E i \in T : f[i] = x
      BY <1>1, <1>7
    <2>3. g \in Bijection(T, 1..m)
      <3>1. g \in [T -> 1..m]
        BY <2>1
      <3>2. \A i, j \in T : g[i] = g[j] => i = j
        BY <1>3
      <3>3. \A x \in 1..m : \E i \in T : g[i] = x
        BY <2>2
      <3> HIDE DEF g, T
      <3> QED
        BY <3>1, <3>2, <3>3 DEF Bijection, Injection, Surjection, IsInjective
    <2>4. IsFiniteSet(T)
      BY FS_Subset
    <2> HIDE DEF g, T
    <2>5. Cardinality(T) = Cardinality(1..m)
      BY <2>3, <2>4, FS_Bijection DEF ExistsBijection
    <2>6. Cardinality(1..m) = m
      <3>1. m \in Int /\ 1 \in Int /\ m \in Nat /\ m >= 0
        BY <1>1
      <3> QED
        BY <3>1, FS_Interval
    <2> QED
      BY <2>5, <2>6 DEF T
  <1>9. \A m \in 0..n : {i \in S : Number(Rel, S, i) <= m} = {i \in S : f[i] <= m}
    BY <1>5
  <1> QED
    BY <1>5, <1>7, <1>8, <1>9

LEMMA LastOne ==
  ASSUME NEW S, IsFiniteSet(S), S # {}, NEW Rel, Orders(Rel, S)
  PROVE  \E i \in S : \A j \in S \ {i} : <<j, i>> \in Rel
  <1> DEFINE n == Cardinality(S)
  <1>1. n \in Nat /\ n # 0
    BY FS_CardinalityType, FS_EmptySet
  <1>2. n \in 1..n
    BY <1>1
  <1>3. PICK i \in S : Number(Rel, S, i) = n
    BY <1>2, NumbersCount
  <1>4. ASSUME NEW j \in S, j # i, <<i, j>> \in Rel PROVE FALSE
    <2>1. Number(Rel, S, j) \in 1..n /\ n < Number(Rel, S, j)
      BY <1>3, <1>4, NumbersGrow
    <2> HIDE DEF n
    <2> QED
      BY <1>1, <2>1
  <1> QED
    BY <1>4 DEF Orders
(* The instance counts as this module does.                                *)
LEMMA SameCardinality == \A S : F!Cardinality(S) = Cardinality(S)
  BY DEF F!Cardinality, Cardinality

----------------------------------------------------------------------------
(* What a certified pairing is: boards of a matching that the policy       *)
(* allows, which exist because the best of finitely many ways does.        *)
Pairs(A, n) == [1..n -> A \X A]
Lists(l, b, n) == \A k \in 1..n : l[2 * k - 1] = b[k][1] /\ l[2 * k] = b[k][2]
Costs(l, b, n) == \A k \in 1..n : l[2 * k + 1] = b[k][1] /\ l[2 * k + 2] = b[k][2]

LEMMA ListedIs ==
  ASSUME NEW A, A \subseteq Nat, NEW n \in Nat, NEW b \in Pairs(A, n)
  PROVE  F!Listed(b) \in Seq(Nat) /\ Len(F!Listed(b)) = 2 * n /\ Lists(F!Listed(b), b, n)
  <1> DEFINE l == F!Listed(b)
             at(x) == b[(x + 1) \div 2][IF x % 2 = 1 THEN 1 ELSE 2]
  <1>1. Len(b) = n
    BY LengthOf DEF Pairs
  <1>2. l = [x \in 1..(2 * n) |-> at(x)]
    BY <1>1 DEF F!Listed
  <1>3. \A k \in 1..n : b[k][1] \in Nat /\ b[k][2] \in Nat
    <2> SUFFICES ASSUME NEW k \in 1..n PROVE b[k][1] \in Nat /\ b[k][2] \in Nat
      OBVIOUS
    <2>1. b[k] \in A \X A
      BY DEF Pairs
    <2> QED
      BY <2>1
  <1>4. ASSUME NEW x \in 1..(2 * n) PROVE at(x) \in Nat
    <2>1. (x + 1) \div 2 \in 1..n
      OBVIOUS
    <2> QED
      BY <1>3, <2>1
  <1>5. ASSUME NEW k \in 1..n
        PROVE  /\ 2 * k - 1 \in 1..(2 * n) /\ 2 * k \in 1..(2 * n)
               /\ at(2 * k - 1) = b[k][1] /\ at(2 * k) = b[k][2]
    <2>1. ((2 * k - 1) + 1) \div 2 = k /\ (2 * k - 1) % 2 = 1 /\ (2 * k + 1) \div 2 = k /\ (2 * k) % 2 = 0
      OBVIOUS
    <2>2. 2 * k - 1 \in 1..(2 * n) /\ 2 * k \in 1..(2 * n)
      OBVIOUS
    <2>3. at(2 * k - 1) = b[k][1]
      BY <2>1
    <2>4. at(2 * k) = b[k][2]
      BY <2>1
    <2> HIDE DEF at
    <2> QED
      BY <2>2, <2>3, <2>4
  <1> HIDE DEF at, l
  <1>6. l \in [1..(2 * n) -> Nat] /\ 2 * n \in Nat
    BY <1>2, <1>4
  <1>7. l \in Seq(Nat) /\ Len(l) = 2 * n
    BY <1>6, LengthOf
  <1>8. \A k \in 1..n : l[2 * k - 1] = b[k][1] /\ l[2 * k] = b[k][2]
    BY <1>2, <1>5
  <1> QED
    BY <1>7, <1>8 DEF l, Lists

LEMMA MatchingIs ==
  ASSUME NEW C, NEW field, NEW n \in Nat, NEW m \in F!Matchings(C, field, n)
  PROVE  /\ m \in [1..n -> field \X field]
         /\ \A k \in 1..n : m[k][1] \in field /\ m[k][2] \in field /\ F!Leads(C, m[k][1], m[k][2])
         /\ \A k, l \in 1..n : k # l => {m[k][1], m[k][2]} \cap {m[l][1], m[l][2]} = {}
  <1> DEFINE pairs == {p \in field \X field : F!Leads(C, p[1], p[2])}
  <1>1. m \in [1..n -> pairs]
    BY DEF F!Matchings
  <1>2. \A k \in 1..n : m[k] \in field \X field /\ F!Leads(C, m[k][1], m[k][2])
    BY <1>1
  <1>3. \A k, l \in 1..n : k < l => {m[k][1], m[k][2]} \cap {m[l][1], m[l][2]} = {}
    BY DEF F!Matchings
  <1>4. \A k, l \in 1..n : k # l => k < l \/ l < k
    OBVIOUS
  <1> HIDE DEF pairs
  <1>5. m \in [1..n -> field \X field]
    BY <1>1, <1>2
  <1>6. \A k \in 1..n : m[k][1] \in field /\ m[k][2] \in field
    BY <1>2
  <1>7. \A k, l \in 1..n : k # l => {m[k][1], m[k][2]} \cap {m[l][1], m[l][2]} = {}
    BY <1>3, <1>4
  <1> QED
    BY <1>2, <1>5, <1>6, <1>7

LEMMA CostIs ==
  ASSUME NEW C, Tallied(C), NEW n \in Nat, NEW b \in Pairs(DOMAIN C, n)
  PROVE  F!Cost(C, b) \in [1..(2 + 2 * n) -> Nat] /\ Costs(F!Cost(C, b), b, n)
  <1> DEFINE l == F!Listed(b)
             h == <<F!Rematches(C, b), F!TotalGap(C, b)>>
  <1>1. l \in Seq(Nat) /\ Len(l) = 2 * n /\ Lists(l, b, n)
    <2>1. DOMAIN C \subseteq Nat
      BY DEF Tallied
    <2> QED
      BY <2>1, ListedIs
  <1>2. F!Rematches(C, b) \in Nat
    <2> DEFINE T == {k \in DOMAIN b : F!Rematch(C, b[k][1], b[k][2])}
    <2>1. IsFiniteSet(1..n)
      <3>1. 1 \in Int /\ n \in Int
        OBVIOUS
      <3> QED
        BY <3>1, FS_Interval
    <2>2. T \subseteq 1..n
      BY DEF Pairs
    <2> HIDE DEF T
    <2>3. Cardinality(T) \in Nat
      BY <2>1, <2>2, FS_Subset, FS_CardinalityType
    <2> QED
      BY <2>3, SameCardinality DEF F!Rematches, T
  <1>3. F!TotalGap(C, b) \in Nat
    BY TotalGapIsNat DEF Pairs
  <1>4. h \in Seq(Nat) /\ Len(h) = 2
    BY <1>2, <1>3
  <1> HIDE DEF l, h
  <1>5. h \o l \in Seq(Nat) /\ Len(h \o l) = 2 + 2 * n /\ \A x \in 1..(2 * n) : (h \o l)[x + 2] = l[x]
    <2>1. h \o l \in Seq(Nat) /\ Len(h \o l) = Len(h) + Len(l)
      BY <1>1, <1>4, ConcatProperties
    <2>2. ASSUME NEW x \in 1..(2 * n) PROVE (h \o l)[x + 2] = l[x]
      <3>1. \A i \in 1..(Len(h) + Len(l)) : (h \o l)[i] = IF i <= Len(h) THEN h[i] ELSE l[i - Len(h)]
        BY <1>1, <1>4, ConcatProperties
      <3>2. x + 2 \in 1..(Len(h) + Len(l)) /\ ~(x + 2 <= Len(h)) /\ (x + 2) - Len(h) = x
        BY <1>1, <1>4
      <3> QED
        BY <3>1, <3>2
    <2> QED
      BY <1>1, <1>4, <2>1, <2>2
  <1>6. h \o l \in [1..(2 + 2 * n) -> Nat]
    <2> DEFINE s == h \o l
    <2>1. s \in Seq(Nat) /\ Len(s) = 2 + 2 * n
      BY <1>5
    <2> HIDE DEF s
    <2>2. s \in [1..(2 + 2 * n) -> Nat]
      BY <2>1
    <2> QED
      BY <2>2 DEF s
  <1>7. \A k \in 1..n : (h \o l)[2 * k + 1] = b[k][1] /\ (h \o l)[2 * k + 2] = b[k][2]
    <2> SUFFICES ASSUME NEW k \in 1..n PROVE (h \o l)[2 * k + 1] = b[k][1] /\ (h \o l)[2 * k + 2] = b[k][2]
      OBVIOUS
    <2>1. 2 * k - 1 \in 1..(2 * n) /\ 2 * k \in 1..(2 * n) /\ (2 * k - 1) + 2 = 2 * k + 1
      OBVIOUS
    <2> QED
      BY <1>1, <1>5, <2>1 DEF Lists
  <1>8. F!Cost(C, b) = h \o l
    BY DEF F!Cost, h, l
  <1> QED
    BY <1>6, <1>7, <1>8 DEF Costs

LEMMA BestIsLawful ==
  ASSUME NEW C, Tallied(C), NEW n \in Nat, NEW L, L # {}, L \subseteq Pairs(DOMAIN C, n)
  PROVE  F!Best(C, L) \in L
  <1> DEFINE X == {F!Cost(C, b) : b \in L}
             N == 2 + 2 * n
  <1>1. X \in SUBSET [1..N -> Nat] /\ X # {} /\ N \in Nat
    BY CostIs
  <1>2. PICK s \in X : \A t \in X : t # s => F!LexLess(s, t)
    <2> HIDE DEF X, N
    <2> QED
      BY <1>1, LexicallyFirst DEF Firsts, FirstOf
  <1>3. PICK b \in L : s = F!Cost(C, b)
    BY <1>2
  <1>4. ASSUME NEW c \in L, F!Cost(C, c) = F!Cost(C, b) PROVE c = b
    <2>1. b \in Pairs(DOMAIN C, n) /\ c \in Pairs(DOMAIN C, n)
      OBVIOUS
    <2>2. \A k \in 1..n : b[k][1] = c[k][1] /\ b[k][2] = c[k][2]
      <3> DEFINE u == F!Cost(C, b)
                 w == F!Cost(C, c)
      <3>1. Costs(u, b, n)
        BY <2>1, CostIs
      <3>2. Costs(w, c, n)
        BY <2>1, CostIs
      <3>3. u = w
        BY <1>4
      <3> HIDE DEF u, w
      <3> QED
        BY <3>1, <3>2, <3>3 DEF Costs
    <2>3. \A k \in 1..n : b[k] = c[k]
      <3> SUFFICES ASSUME NEW k \in 1..n PROVE b[k] = c[k]
        OBVIOUS
      <3>1. b[k] \in (DOMAIN C) \X (DOMAIN C) /\ c[k] \in (DOMAIN C) \X (DOMAIN C)
        BY <2>1 DEF Pairs
      <3>2. b[k] = <<b[k][1], b[k][2]>> /\ c[k] = <<c[k][1], c[k][2]>>
        BY <3>1
      <3> QED
        BY <2>2, <3>2
    <2> QED
      BY <2>1, <2>3 DEF Pairs
  <1>5. \A c \in L \ {b} : F!LexLess(F!Cost(C, b), F!Cost(C, c))
    BY <1>2, <1>3, <1>4
  <1> QED
    BY <1>5 DEF F!Best
Board(b, k) == {b[k][1], b[k][2]}
Fits(C, policy, p) ==
  /\ Cardinality(DOMAIN C) >= 2
  /\ p.bye \in (DOMAIN C) \union {F!NoEntrant}
  /\ p.bye \in DOMAIN C /\ policy.bye = "LOWEST_RANKED_WITHOUT_BYE" => C[p.bye].byes = 0
  /\ \E n \in Nat :
       /\ p.pairings \in Pairs(DOMAIN C, n)
       /\ \A k \in 1..n : p.pairings[k][1] # p.pairings[k][2]
       /\ \A k, l \in 1..n : k # l => Board(p.pairings, k) \cap Board(p.pairings, l) = {}
       /\ policy.rematches = "FORBIDDEN" =>
            \A k \in 1..n : ~F!Rematch(C, p.pairings[k][1], p.pairings[k][2])

LEMMA LeadsOrders ==
  ASSUME NEW C, Tallied(C), NEW S, S \subseteq DOMAIN C
  PROVE  LET Rel == {p \in S \X S : F!Leads(C, p[1], p[2])}
         IN  Orders(Rel, S) /\ \A i, j \in S : <<i, j>> \in Rel => F!Leads(C, i, j)
  <1> DEFINE Rel == {p \in S \X S : F!Leads(C, p[1], p[2])}
  <1>1. \A i, j \in S : <<i, j>> \in Rel <=> F!Leads(C, i, j)
    OBVIOUS
  <1>2. \A i \in S : i \in Nat /\ C[i].points \in Int
    BY DEF Tallied
  <1>3. \A i \in S : ~F!Leads(C, i, i)
    BY <1>2 DEF F!Leads
  <1>4. \A i, j \in S : i # j => F!Leads(C, i, j) \/ F!Leads(C, j, i)
    BY <1>2 DEF F!Leads
  <1>5. \A i, j, k \in S : F!Leads(C, i, j) /\ F!Leads(C, j, k) => F!Leads(C, i, k)
    BY <1>2 DEF F!Leads
  <1> HIDE DEF Rel
  <1>6. Orders(Rel, S)
    BY <1>1, <1>3, <1>4, <1>5 DEF Orders
  <1> QED
    BY <1>1, <1>6 DEF Rel

LEMMA ByeIsEligible ==
  ASSUME NEW C, Tallied(C), NEW policy, F!Eligible(C, policy) # {}, F!Odd(C)
  PROVE  F!ByeOf(C, policy) \in F!Eligible(C, policy)
  <1> DEFINE S == F!Eligible(C, policy)
             Rel == {p \in S \X S : F!Leads(C, p[1], p[2])}
  <1>1. S \subseteq DOMAIN C /\ IsFiniteSet(S)
    <2>1. S \subseteq DOMAIN C
      BY DEF F!Eligible
    <2> HIDE DEF S
    <2> QED
      BY <2>1, FS_Subset DEF Tallied
  <1>2. Orders(Rel, S) /\ \A i, j \in S : <<i, j>> \in Rel => F!Leads(C, i, j)
    <2> HIDE DEF S
    <2> QED
      BY <1>1, LeadsOrders
  <1>3. S # {}
    OBVIOUS
  <1> HIDE DEF S, Rel
  <1>4. PICK i \in S : \A j \in S \ {i} : <<j, i>> \in Rel
    BY <1>1, <1>2, <1>3, LastOne
  <1>5. \E k \in S : \A j \in S \ {k} : F!Leads(C, j, k)
    BY <1>2, <1>4
  <1>6. (CHOOSE k \in S : \A j \in S \ {k} : F!Leads(C, j, k)) \in S
    BY <1>5
  <1>7. F!ByeOf(C, policy) = CHOOSE k \in S : \A j \in S \ {k} : F!Leads(C, j, k)
    BY <1>3 DEF F!ByeOf, S
  <1> QED
    BY <1>6, <1>7 DEF S

LEMMA PairingFits ==
  ASSUME NEW C, Tallied(C), NEW policy, F!PairSwissRound(C, policy).status = "CERTIFIED"
  PROVE  Fits(C, policy, F!PairSwissRound(C, policy))
  <1> DEFINE p == F!PairSwissRound(C, policy)
             L == F!LawfulPairings(C, policy)
             bye == F!ByeOf(C, policy)
             field == (DOMAIN C) \ {bye}
             size == Cardinality(DOMAIN C)
             n == size \div 2
  <1>1. /\ ~(F!Cardinality(DOMAIN C) < 2) /\ ~(F!Odd(C) /\ F!Eligible(C, policy) = {}) /\ L # {}
        /\ p.bye = bye /\ p.pairings = F!Best(C, L)
    <2> DEFINE none == \/ F!Cardinality(DOMAIN C) < 2
                       \/ F!Odd(C) /\ (policy.bye = "NONE" \/ F!Eligible(C, policy) = {})
                       \/ L = {}
    <2>1. p = IF none THEN F!Refused ELSE [status |-> "CERTIFIED", bye |-> bye, pairings |-> F!Best(C, L)]
      BY DEF F!PairSwissRound
    <2>2. F!Refused.status = "REJECTED"
      BY DEF F!Refused
    <2>3. p.status = "CERTIFIED"
      OBVIOUS
    <2>4. ~none
      <3> HIDE DEF p, none
      <3> QED
        BY <2>1, <2>2, <2>3
    <2> HIDE DEF p, L, bye
    <2> QED
      BY <2>1, <2>4
  <1>2. size \in Nat /\ size >= 2 /\ n \in Nat
    <2>1. size \in Nat
      BY FS_CardinalityType DEF Tallied
    <2>2. ~(size < 2)
      BY <1>1, SameCardinality
    <2> HIDE DEF size
    <2> QED
      BY <2>1, <2>2
  <1>3. /\ bye \in (DOMAIN C) \union {F!NoEntrant}
        /\ bye \in DOMAIN C /\ policy.bye = "LOWEST_RANKED_WITHOUT_BYE" => C[bye].byes = 0
    <2>1. CASE F!Odd(C)
      <3>1. bye \in F!Eligible(C, policy)
        BY <1>1, <2>1, ByeIsEligible
      <3> QED
        BY <3>1 DEF F!Eligible
    <2>2. CASE ~F!Odd(C)
      BY <2>2 DEF F!ByeOf, Tallied
    <2> QED
      BY <2>1, <2>2
  <1>4. \A m \in L : m \in F!Matchings(C, field, n)
    BY SameCardinality DEF F!LawfulPairings
  <1>5. \A m \in L : policy.rematches = "FORBIDDEN" => F!Rematches(C, m) = 0
    BY DEF F!LawfulPairings
  <1> HIDE DEF L, size, n, bye
  <1>6. L \subseteq Pairs(DOMAIN C, n)
    <2> SUFFICES ASSUME NEW m \in L PROVE m \in Pairs(DOMAIN C, n)
      OBVIOUS
    <2>1. m \in [1..n -> field \X field]
      BY <1>2, <1>4, MatchingIs
    <2> QED
      BY <2>1 DEF Pairs
  <1> DEFINE m == p.pairings
  <1>7. m \in L
    BY <1>1, <1>2, <1>6, BestIsLawful
  <1> HIDE DEF m, p
  <1>8. /\ \A k \in 1..n : F!Leads(C, m[k][1], m[k][2]) /\ m[k][1] \in DOMAIN C /\ m[k][2] \in DOMAIN C
        /\ \A k, l \in 1..n : k # l => Board(m, k) \cap Board(m, l) = {}
    BY <1>2, <1>4, <1>7, MatchingIs DEF Board
  <1>9. \A k \in 1..n : m[k][1] # m[k][2]
    <2>1. \A i \in DOMAIN C : i \in Nat /\ C[i].points \in Int
      BY DEF Tallied
    <2>2. \A i \in DOMAIN C : ~F!Leads(C, i, i)
      BY <2>1 DEF F!Leads
    <2> QED
      BY <1>8, <2>2
  <1>10. ASSUME policy.rematches = "FORBIDDEN" PROVE \A k \in 1..n : ~F!Rematch(C, m[k][1], m[k][2])
    <2> DEFINE T == {k \in DOMAIN m : F!Rematch(C, m[k][1], m[k][2])}
    <2>1. DOMAIN m = 1..n
      BY <1>6, <1>7 DEF Pairs
    <2>2. T \subseteq 1..n
      BY <2>1
    <2>3. IsFiniteSet(1..n)
      <3>1. 1 \in Int /\ n \in Int
        BY <1>2
      <3> QED
        BY <3>1, FS_Interval
    <2>4. Cardinality(T) = 0
      BY <1>5, <1>7, <1>10, SameCardinality DEF F!Rematches
    <2> HIDE DEF T
    <2>5. T = {}
      BY <2>2, <2>3, <2>4, FS_Subset, FS_EmptySet
    <2> QED
      BY <2>1, <2>5 DEF T
  <1>11. p.bye = bye
    BY <1>1
  <1>12. \E x \in Nat :
           /\ m \in Pairs(DOMAIN C, x)
           /\ \A k \in 1..x : m[k][1] # m[k][2]
           /\ \A k, l \in 1..x : k # l => Board(m, k) \cap Board(m, l) = {}
           /\ policy.rematches = "FORBIDDEN" => \A k \in 1..x : ~F!Rematch(C, m[k][1], m[k][2])
    BY <1>2, <1>6, <1>7, <1>8, <1>9, <1>10
  <1>13. size >= 2
    BY <1>2
  <1> QED
    BY <1>3, <1>11, <1>12, <1>13 DEF Fits, m, p, size
LEMMA SeedRankIsNat ==
  ASSUME NEW A, NEW order \in Seq(A), NEW i
  PROVE  F!SeedRank(order, i) \in Nat
  <1>1. Len(order) \in Nat /\ DOMAIN order = 1..Len(order)
    OBVIOUS
  <1>2. CASE i \in F!Seqs!ToSet(order)
    <2>1. \E k \in DOMAIN order : order[k] = i
      BY <1>2 DEF F!Seqs!ToSet
    <2>2. F!PositionOf(order, i) \in DOMAIN order
      BY <2>1 DEF F!PositionOf
    <2> QED
      BY <1>1, <1>2, <2>2 DEF F!SeedRank
  <1>3. CASE i \notin F!Seqs!ToSet(order)
    BY <1>1, <1>3 DEF F!SeedRank
  <1> QED
    BY <1>2, <1>3
----------------------------------------------------------------------------
(* What holds of a stage of each kind: first of the entrants' results that *)
(* qualify, then of Swiss rounds and tables.                               *)
Unbeaten(q, score, places, better) ==
  /\ q \subseteq DOMAIN score /\ q # {} /\ Cardinality(q) >= places
  /\ \A i \in q, j \in (DOMAIN score) \ q : ~F!Ahead(better, score[j], score[i])

TimedResults(recorded) == [i \in F!Timed(recorded) |-> recorded[i]]
HeatInv(d, s) ==
  LET r == s.runtime
  IN  /\ r.recorded \in [DOMAIN r.recorded -> Int]
      /\ s.phase = "COMPLETE" <=> r.certified
      /\ r.certified => DOMAIN r.recorded = ActiveEntrants(d) /\ Unbeaten(r.qualified, TimedResults(r.recorded), d.places, "LOWER")
      /\ ~r.certified => r.qualified = {}

RankingInv(d, s) ==
  LET r == s.runtime
  IN  /\ s.phase = "COMPLETE" <=> r.certified
      /\ r.certified => DOMAIN r.scores = d.entrants /\ Unbeaten(r.qualified, r.scores, d.places, d.better)
      /\ ~r.certified => r.qualified = {} /\ Len(s.events) <= 2

Standing(d) == [points : Int, opponents : SUBSET d.entrants, byes : Nat]
Table(d) == [d.entrants -> Standing(d)]

Boards(d, b) ==
  \E n \in Nat :
    /\ b \in Pairs(d.entrants, n)
    /\ \A k \in 1..n : b[k][1] # b[k][2]
    /\ \A k, l \in 1..n : k # l => Board(b, k) \cap Board(b, l) = {}
Drawn(d, x) == x.bye \in d.entrants \union {None} /\ Boards(d, x.pairings)
Played(d, rounds) ==
  /\ IsSequence(rounds)
  /\ \A k \in DOMAIN rounds : /\ Drawn(d, rounds[k]) /\ ValidSwissResults(rounds[k].pairings, rounds[k].results)
                               /\ DOMAIN rounds[k] = {"results", "bye", "pairings"}

(* Where the policy says so, no two rounds have a board of the same two    *)
(* entrants, and no two the same bye.                                      *)
Strangers(x, y) == \A b \in DOMAIN x.pairings, c \in DOMAIN y.pairings : Board(x.pairings, b) # Board(y.pairings, c)
Differ(d, x, y) ==
  /\ d.pairing.rematches = "FORBIDDEN" => Strangers(x, y)
  /\ d.pairing.bye = "LOWEST_RANKED_WITHOUT_BYE" => ~(x.bye # None /\ x.bye = y.bye)
AllDiffer(d, rounds) == \A k, l \in DOMAIN rounds : k # l => Differ(d, rounds[k], rounds[l])

VoidedIn(events) == \E k \in DOMAIN events : events[k].kind = "VOID_SWISS_ROUND"
Byeless(rounds) == \A k \in DOMAIN rounds : rounds[k].bye = None

(* The rounds with the open one.                                           *)
WithOpen(r) == Append(r.completed, [results |-> <<>>, bye |-> r.bye, pairings |-> r.pairings])

Numbered(d, requests, round) ==
  \E n \in Nat : requests \in [1..n -> (1..d.rounds) \X Nat] /\ \A i \in 1..n : requests[i][1] <= round

OpenInv(d, s) ==
  LET r == s.runtime
  IN  /\ Len(r.completed) = r.round - 1
      /\ Drawn(d, r) /\ AllDiffer(d, WithOpen(r))
      /\ \/ r.standings = WithSwissBye(d, RebuildSwissStandings(d, r.completed), r.bye)
         \/ /\ VoidedIn(s.events) /\ r.round = d.rounds
            /\ r.standings = RebuildSwissStandings(d, r.completed)
DoneInv(d, s) ==
  LET r == s.runtime
  IN  /\ Len(r.completed) = d.rounds /\ r.round = d.rounds /\ AllDiffer(d, r.completed)
      /\ \/ r.standings = RebuildSwissStandings(d, r.completed)
         \/ VoidedIn(s.events) /\ ~Byeless(r.completed)
SwissInv(d, s) ==
  LET r == s.runtime
  IN  /\ DOMAIN r = {"round", "standings", "pairings", "bye", "completed", "final"}
      /\ Played(d, r.completed)
      /\ s.phase = "DEFINITION" => r.completed = <<>> /\ s.requests = <<>> /\ r.standings = EmptyStandings(d)
      /\ s.phase # "DEFINITION" => d.entrants # {} /\ r.round \in 1..d.rounds /\ Numbered(d, s.requests, r.round)
      /\ s.phase \in {"READY", "RUNNING"} => OpenInv(d, s)
      /\ s.phase = "COMPLETE" => DoneInv(d, s)

StageInv(d, s) ==
  /\ IsSequence(s.events)
  /\ VerifyDynamicStage(d, s)
  /\ d.kind = "SWISS" => SwissInv(d, s)
  /\ d.kind = "HEATS" => HeatInv(d, s)
  /\ d.kind = "LADDER" => s.requests = <<>>
  /\ d.kind = "RANKING" => RankingInv(d, s)
----------------------------------------------------------------------------
(* Whom a certified cut leaves out is behind those it takes.               *)
Scored(score) == IsFiniteSet(DOMAIN score) /\ DOMAIN score \subseteq Nat /\ \A i \in DOMAIN score : score[i] \in Int
Preceding(score, better, cutoff, order) ==
  {p \in (DOMAIN score) \X (DOMAIN score) : F!Precedes(score, better, cutoff, order, p[1], p[2])}

LEMMA PrecedesOrders ==
  ASSUME NEW score, Scored(score), NEW better, NEW cutoff, NEW A, NEW order \in Seq(A)
  PROVE  Orders(Preceding(score, better, cutoff, order), DOMAIN score)
  <1> DEFINE S == DOMAIN score
             before(i, j) == F!Precedes(score, better, cutoff, order, i, j)
             rank(i) == F!SeedRank(order, i)
             ahead(i, j) == F!Ahead(better, score[i], score[j])
             Rel == Preceding(score, better, cutoff, order)
  <1>1. \A i, j \in S : <<i, j>> \in Rel <=> before(i, j)
    BY DEF Preceding
  <1>2. \A i \in S : rank(i) \in Nat /\ i \in Nat /\ score[i] \in Int
    BY SeedRankIsNat DEF Scored
  <1>3. \A i, j \in S : /\ ~ahead(i, i) /\ (score[i] = score[j] \/ ahead(i, j) \/ ahead(j, i))
                        /\ ahead(i, j) => score[i] # score[j]
    BY <1>2 DEF F!Ahead
  <1>4. \A i, j, k \in S : /\ ahead(i, j) /\ ahead(j, k) => ahead(i, k)
                           /\ ahead(i, j) /\ score[j] = score[k] => ahead(i, k)
                           /\ score[i] = score[j] /\ ahead(j, k) => ahead(i, k)
    BY <1>2 DEF F!Ahead
  <1>5. \A i, j \in S : before(i, j) <=>
          \/ ahead(i, j)
          \/ /\ score[i] = score[j]
             /\ IF cutoff = "SEED_ORDER" /\ rank(i) # rank(j) THEN rank(i) < rank(j) ELSE i < j
    BY DEF F!Precedes
  <1> HIDE DEF Rel, before, rank, ahead
  <1>6. \A i \in S : ~before(i, i)
    BY <1>2, <1>3, <1>5
  <1>7. \A i, j \in S : i # j => before(i, j) \/ before(j, i)
    BY <1>2, <1>3, <1>5
  <1>8. ASSUME NEW i \in S, NEW j \in S, NEW k \in S, before(i, j), before(j, k) PROVE before(i, k)
    <2>1. CASE ahead(i, j)
      BY <1>4, <1>5, <1>8, <2>1
    <2>2. CASE ahead(j, k)
      BY <1>4, <1>5, <1>8, <2>2
    <2>3. CASE score[i] = score[j] /\ score[j] = score[k] /\ ~ahead(i, j) /\ ~ahead(j, k)
      BY <1>2, <1>5, <1>8, <2>3
    <2> QED
      BY <1>5, <1>8, <2>1, <2>2, <2>3
  <1> QED
    BY <1>1, <1>6, <1>7, <1>8 DEF Orders, Rel

LEMMA PlaceIsNumber ==
  ASSUME NEW score, NEW better, NEW cutoff, NEW order, NEW i \in DOMAIN score
  PROVE  F!Place(score, better, cutoff, order, i) = Number(Preceding(score, better, cutoff, order), DOMAIN score, i)
  <1> DEFINE S == DOMAIN score
             T == {j \in S : F!Precedes(score, better, cutoff, order, j, i)}
             U == Before(Preceding(score, better, cutoff, order), S, i)
  <1>1. T = U
    BY DEF Before, Preceding
  <1> HIDE DEF T, U
  <1>2. F!Cardinality(T) = Cardinality(U)
    BY <1>1, SameCardinality
  <1> QED
    BY <1>2 DEF T, U, F!Place, Number

LEMMA QualifiedAreUnbeaten ==
  ASSUME NEW score, Scored(score), NEW places, NEW better, NEW cutoff, NEW A, NEW order \in Seq(A),
         F!QualifyRankingStage(score, places, better, cutoff, order).status = "CERTIFIED"
  PROVE  Unbeaten(F!QualifyRankingStage(score, places, better, cutoff, order).qualified, score, places, better)
  <1> DEFINE S == DOMAIN score
             Rel == Preceding(score, better, cutoff, order)
             place(i) == F!Place(score, better, cutoff, order, i)
             x == score[CHOOSE i \in S : place(i) = places]
             tied == {i \in S : score[i] = x}
             above == {i \in S : F!Ahead(better, score[i], x)}
             crosses == F!Cardinality(tied) > places - F!Cardinality(above)
             q == F!QualifyRankingStage(score, places, better, cutoff, order)
             all == crosses /\ cutoff = "ADVANCE_ALL"
             first == {i \in S : place(i) <= places}
  <1>1. places \in 1..F!Cardinality(S) /\ q.qualified = IF all THEN tied \union above ELSE first
    <2> DEFINE short == places \notin 1..F!Cardinality(S)
               torn == crosses /\ (cutoff = "UNRESOLVED" \/ (cutoff = "SEED_ORDER" /\ ~(tied \subseteq F!Seqs!ToSet(order))))
               who == IF all THEN tied \union above ELSE first
    <2>1. q = IF short THEN F!Refused ELSE IF torn THEN F!Refused ELSE [status |-> "CERTIFIED", qualified |-> who]
      BY DEF F!QualifyRankingStage
    <2>2. F!Refused.status # "CERTIFIED"
      BY DEF F!Refused
    <2> HIDE DEF torn, who
    <2>3. ~short /\ ~torn
      <3> HIDE DEF short
      <3>1. q.status = "CERTIFIED"
        OBVIOUS
      <3> HIDE DEF q
      <3> QED
        BY <2>1, <2>2, <3>1
    <2>4. q.qualified = who
      <3> HIDE DEF q, short
      <3> QED
        BY <2>1, <2>3
    <2> QED
      BY <2>3, <2>4 DEF who
  <1> HIDE DEF q, crosses
  <1>2. Cardinality(S) \in Nat /\ places \in 1..Cardinality(S) /\ IsFiniteSet(S)
    BY <1>1, SameCardinality, FS_CardinalityType DEF Scored
  <1>3. Orders(Rel, S)
    BY PrecedesOrders
  <1>4. \A i \in S : place(i) = Number(Rel, S, i)
    BY PlaceIsNumber
  <1>5. \A i, j \in S : F!Ahead(better, score[i], score[j]) => <<i, j>> \in Rel
    BY DEF Preceding, F!Precedes
  <1>6. \A i \in S : score[i] \in Int
    BY DEF Scored
  <1> HIDE DEF place, Rel
  <1>7. PICK c \in S : place(c) = places /\ x = score[c]
    <2>1. \E i \in S : Number(Rel, S, i) = places
      BY <1>2, <1>3, NumbersCount
    <2>2. \E i \in S : place(i) = places
      BY <1>4, <2>1
    <2>3. (CHOOSE i \in S : place(i) = places) \in S /\ place(CHOOSE i \in S : place(i) = places) = places
      BY <2>2
    <2> QED
      BY <2>3
  <1> HIDE DEF x
  <1>8. CASE all
    <2>1. tied \subseteq S /\ above \subseteq S /\ tied \cap above = {} /\ c \in tied
      BY <1>6, <1>7 DEF F!Ahead
    <2>2. F!Cardinality(tied) > places - F!Cardinality(above)
      BY <1>8 DEF crosses
    <2>3. Cardinality(tied) > places - Cardinality(above)
      BY <2>2, SameCardinality
    <2>4. Cardinality(tied \union above) >= places
      <3> HIDE DEF tied, above
      <3>1. /\ IsFiniteSet(tied) /\ IsFiniteSet(above) /\ IsFiniteSet(tied \cap above)
            /\ Cardinality(tied) \in Nat /\ Cardinality(above) \in Nat
        BY <1>2, <2>1, FS_Subset, FS_CardinalityType, FS_EmptySet
      <3>2. Cardinality(tied \union above) = Cardinality(tied) + Cardinality(above) - Cardinality(tied \cap above)
        BY <3>1, FS_Union
      <3>3. Cardinality(tied \cap above) = 0
        BY <2>1, FS_EmptySet
      <3> QED
        BY <1>2, <2>3, <3>1, <3>2, <3>3
    <2>5. \A i \in tied \union above, j \in S \ (tied \union above) : ~F!Ahead(better, score[j], score[i])
      BY <1>6, <1>7 DEF F!Ahead
    <2> HIDE DEF tied, above
    <2> QED
      BY <1>1, <1>8, <2>1, <2>4, <2>5 DEF Unbeaten, q
  <1>9. CASE ~all
    <2>1. first = {i \in S : Number(Rel, S, i) <= places}
      BY <1>4
    <2>2. Cardinality(first) = places
      BY <1>2, <1>3, <2>1, NumbersCount
    <2>3. c \in first
      BY <1>2, <1>7
    <2>4. ASSUME NEW i \in first, NEW j \in S \ first PROVE ~F!Ahead(better, score[j], score[i])
      <3>1. Number(Rel, S, i) \in 1..Cardinality(S) /\ Number(Rel, S, j) \in 1..Cardinality(S)
        BY <1>2, <1>3, NumbersGrow
      <3>2. Number(Rel, S, i) <= places /\ ~(Number(Rel, S, j) <= places)
        BY <2>1
      <3>3. ~(Number(Rel, S, j) < Number(Rel, S, i))
        BY <1>2, <3>1, <3>2
      <3> QED
        BY <1>2, <1>3, <1>5, <3>3, NumbersGrow
    <2> HIDE DEF first
    <2>5. first \subseteq S
      BY DEF first
    <2> QED
      BY <1>1, <1>2, <1>9, <2>2, <2>3, <2>4, <2>5 DEF Unbeaten, q
  <1> QED
    BY <1>8, <1>9
----------------------------------------------------------------------------
(* What the verifier asks of a state, said of its events themselves.       *)
Defined(d) ==
  /\ d.kind \in {"SWISS", "HEATS", "LADDER", "RANKING"}
  /\ IsFiniteSet(d.entrants) /\ d.entrants \subseteq Nat \ {None}
  /\ d.kind = "SWISS" => d.rounds \in Nat \ {0} /\ d.win \in Int /\ d.draw \in Int /\ d.bye \in Int
  /\ d.kind \in {"HEATS", "RANKING"} => d.seedOrder \in Seq(d.entrants)

Done(d, s) ==
  CASE d.kind = "SWISS" -> Len(s.runtime.completed) = d.rounds /\ DOMAIN s.runtime.final # {}
    [] d.kind = "HEATS" -> DOMAIN s.runtime.recorded = ActiveEntrants(d) /\ s.runtime.certified
    [] d.kind = "LADDER" -> \E k \in DOMAIN s.events : s.events[k].kind = "COMPLETE_LADDER"
    [] d.kind = "RANKING" -> s.runtime.certified
PhaseOf(d, s) ==
  CASE Len(s.events) = 0 -> "DEFINITION"
    [] Len(s.events) = 1 -> "READY"
    [] OTHER -> IF Done(d, s) THEN "COMPLETE" ELSE "RUNNING"
Ordered(d, events) ==
  /\ Len(events) > 0 => events[1].kind = "PREPARE"
  /\ Len(events) > 1 => events[2].kind = "START"
  /\ \A k \in 3..Len(events) :
       /\ events[k].kind \in ExecutionKinds(d)
       /\ events[k].kind = "COMPLETE_LADDER" => k = Len(events)
       /\ d.kind = "RANKING" => k = 3
Sizes(d, s) ==
  /\ d.kind = "SWISS" => Len(s.runtime.completed) <= d.rounds
  /\ d.kind = "HEATS" => DOMAIN s.runtime.recorded \subseteq ActiveEntrants(d)
Distinct(requests) == \A i, j \in DOMAIN requests : requests[i] = requests[j] => i = j

LEMMA VerifyIs ==
  ASSUME NEW d, NEW s, IsSequence(s.events)
  PROVE  VerifyDynamicStage(d, s) <=>
           s.phase = PhaseOf(d, s) /\ Ordered(d, s.events) /\ Sizes(d, s) /\ Distinct(s.requests)
  <1> DEFINE n == Len(s.events)
             kinds == [k \in DOMAIN s.events |-> s.events[k].kind]
  <1>1. n \in Nat /\ DOMAIN s.events = 1..n
    BY SequenceFacts
  <1>2. kinds = [k \in 1..n |-> s.events[k].kind]
    BY <1>1
  <1>3. Len(kinds) = n /\ (kinds = <<>> <=> n = 0)
    <2> DEFINE A == {kinds[k] : k \in 1..n}
    <2>1. kinds \in [1..n -> A]
      BY <1>2
    <2> HIDE DEF A, n, kinds
    <2> QED
      BY <1>1, <2>1, LengthOf
  <1>4. \A k \in 1..n : kinds[k] = s.events[k].kind
    BY <1>2
  <1>5. ExpectedPhase(d, s) = PhaseOf(d, s)
    <2>1. (\E k \in DOMAIN kinds : kinds[k] = "COMPLETE_LADDER") <=> \E k \in DOMAIN s.events : s.events[k].kind = "COMPLETE_LADDER"
      OBVIOUS
    <2>2. Len(kinds) = Len(s.events)
      BY <1>3
    <2> QED
      BY <2>1, <2>2 DEF ExpectedPhase, PhaseOf, Done
  <1>6. /\ kinds # <<>> => kinds[1] = "PREPARE"
        /\ Len(kinds) > 1 => kinds[2] = "START"
        /\ \A k \in 3..Len(kinds) :
             /\ kinds[k] \in ExecutionKinds(d)
             /\ kinds[k] = "COMPLETE_LADDER" => k = Len(kinds)
             /\ d.kind = "RANKING" => k = 3
        <=> Ordered(d, s.events)
    <2>1. n > 0 => 1 \in 1..n
      BY <1>1
    <2>2. n > 1 => 2 \in 1..n
      BY <1>1
    <2>3. \A k \in 3..n : k \in 1..n
      BY <1>1
    <2>4. n = 0 <=> ~(n > 0)
      BY <1>1
    <2> HIDE DEF kinds
    <2> QED
      BY <1>3, <1>4, <2>1, <2>2, <2>3, <2>4 DEF Ordered
  <1> QED
    BY <1>5, <1>6 DEF VerifyDynamicStage, Sizes, Distinct

(* How a command that is not refused begins or executes a stage.           *)
Begins(d, s, c, e) ==
  \/ c.kind = "PREPARE" /\ s.phase = "DEFINITION" /\ e = Prepare(d, s)
  \/ c.kind = "START" /\ s.phase = "READY" /\ e = Effect("RUNNING", s.runtime, s.requests)
Executes(d, s, c, e) ==
  CASE d.kind = "SWISS" -> \/ c.kind = "SUBMIT_SWISS_ROUND" /\ e = SubmitSwiss(d, s, c)
                           \/ c.kind = "CORRECT_SWISS_ROUND" /\ e = CorrectSwiss(d, s, c)
                           \/ c.kind = "VOID_SWISS_ROUND" /\ e = VoidSwiss(d, s, c)
    [] d.kind = "HEATS" -> \/ c.kind = "SUBMIT_HEAT_RESULTS" /\ e = SubmitHeat(d, s, c)
                           \/ c.kind = "CORRECT_HEAT_RESULT" /\ e = CorrectHeat(d, s, c)
                           \/ c.kind = "VOID_HEAT_RESULT" /\ e = VoidHeat(d, s, c)
    [] d.kind = "LADDER" -> \/ c.kind = "RECORD_LADDER_CHALLENGE" /\ e = LadderChallenge(d, s, c)
                            \/ c.kind = "COMPLETE_LADDER" /\ e = CompleteLadder(d, s, c)
    [] d.kind = "RANKING" -> c.kind = "SUBMIT_RANKING_RESULTS" /\ e = SubmitRanking(d, s, c)

LEMMA EffectRefuses == NoEffect.refused /\ \A phase, runtime, requests : ~Effect(phase, runtime, requests).refused
  BY DEF NoEffect, Effect

LEMMA EffectCases ==
  ASSUME NEW d, Defined(d), NEW s, NEW c, ~EffectOf(d, s, c).refused
  PROVE  LET e == EffectOf(d, s, c) IN Begins(d, s, c, e) \/ (c.kind \in ExecutionKinds(d) /\ Executes(d, s, c, e))
  <1> DEFINE e == EffectOf(d, s, c)
  <1>1. CASE c.kind = "PREPARE"
    <2>1. e = Prepare(d, s)
      BY <1>1 DEF EffectOf
    <2>2. s.phase # "DEFINITION" => Prepare(d, s) = NoEffect
      BY DEF Prepare
    <2> QED
      BY <1>1, <2>1, <2>2, EffectRefuses DEF Begins
  <1>2. CASE c.kind = "START"
    <2>1. e = IF s.phase = "READY" THEN Effect("RUNNING", s.runtime, s.requests) ELSE NoEffect
      BY <1>2 DEF EffectOf, Start
    <2> QED
      BY <1>2, <2>1, EffectRefuses DEF Begins
  <1>3. CASE c.kind \notin {"PREPARE", "START"}
    <2>1. c.kind \in ExecutionKinds(d) /\ e = Executed(d, s, c)
      <3>1. e = IF c.kind \in ExecutionKinds(d) THEN Executed(d, s, c) ELSE NoEffect
        BY <1>3 DEF EffectOf
      <3> QED
        BY <3>1, EffectRefuses
    <2>2. CASE d.kind = "SWISS"
      <3>1. ExecutionKinds(d) = {"SUBMIT_SWISS_ROUND", "CORRECT_SWISS_ROUND", "VOID_SWISS_ROUND"}
        BY <2>2 DEF ExecutionKinds
      <3> QED
        BY <2>1, <2>2, <3>1 DEF Executed, Executes
    <2>3. CASE d.kind = "HEATS"
      <3>1. ExecutionKinds(d) = {"SUBMIT_HEAT_RESULTS", "CORRECT_HEAT_RESULT", "VOID_HEAT_RESULT"}
        BY <2>3 DEF ExecutionKinds
      <3> QED
        BY <2>1, <2>3, <3>1 DEF Executed, Executes
    <2>4. CASE d.kind = "LADDER"
      <3>1. ExecutionKinds(d) = {"RECORD_LADDER_CHALLENGE", "COMPLETE_LADDER"}
        BY <2>4 DEF ExecutionKinds
      <3> QED
        BY <2>1, <2>4, <3>1 DEF Executed, Executes
    <2>5. CASE d.kind = "RANKING"
      <3>1. ExecutionKinds(d) = {"SUBMIT_RANKING_RESULTS"}
        BY <2>5 DEF ExecutionKinds
      <3> QED
        BY <2>1, <2>5, <3>1 DEF Executed, Executes
    <2> QED
      BY <2>1, <2>2, <2>3, <2>4, <2>5 DEF Defined
  <1> QED
    BY <1>1, <1>2, <1>3

(* The verifier accepts what follows an accepted state in this way.        *)
Follows(d, s, c, t) ==
  \/ c.kind = "PREPARE" /\ s.phase = "DEFINITION" /\ t.phase = "READY"
  \/ c.kind = "START" /\ s.phase = "READY" /\ t.phase = "RUNNING" /\ ~Done(d, t)
  \/ /\ c.kind \in ExecutionKinds(d) /\ s.phase \in {"RUNNING", "COMPLETE"}
     /\ d.kind = "LADDER" => s.phase = "RUNNING"
     /\ d.kind = "RANKING" => Len(s.events) <= 2
     /\ t.phase = IF Done(d, t) THEN "COMPLETE" ELSE "RUNNING"

LEMMA VerifiedAfter ==
  ASSUME NEW d, Defined(d), NEW s, IsSequence(s.events), VerifyDynamicStage(d, s), NEW c, NEW t,
         t.events = Append(s.events, c), Sizes(d, t), Distinct(t.requests), Follows(d, s, c, t)
  PROVE  IsSequence(t.events) /\ VerifyDynamicStage(d, t)
  <1> DEFINE n == Len(s.events)
  <1>1. /\ IsSequence(t.events) /\ n \in Nat /\ DOMAIN s.events = 1..n
        /\ Len(t.events) = n + 1 /\ DOMAIN t.events = 1..(n + 1)
        /\ Len(s.events) = n /\ t.events[n + 1] = c /\ \A k \in 1..n : t.events[k] = s.events[k]
    BY Appended
  <1> HIDE DEF n
  <1>2. s.phase = PhaseOf(d, s) /\ Ordered(d, s.events)
    BY VerifyIs
  <1>3. /\ s.phase = "DEFINITION" <=> n = 0
        /\ s.phase = "READY" <=> n = 1
        /\ s.phase = "COMPLETE" <=> n > 1 /\ Done(d, s)
    <2>1. n = 0 \/ n = 1 \/ (n # 0 /\ n # 1 /\ n > 1)
      BY <1>1
    <2>2. s.phase = CASE n = 0 -> "DEFINITION" [] n = 1 -> "READY" [] OTHER -> IF Done(d, s) THEN "COMPLETE" ELSE "RUNNING"
      BY <1>1, <1>2 DEF PhaseOf
    <2> QED
      BY <2>1, <2>2
  <1>4. t.phase = PhaseOf(d, t)
    <2>1. n + 1 # 0
      BY <1>1
    <2>2. CASE c.kind = "PREPARE" /\ s.phase = "DEFINITION" /\ t.phase = "READY"
      BY <1>1, <1>3, <2>2 DEF PhaseOf
    <2>3. CASE c.kind = "START" /\ s.phase = "READY" /\ t.phase = "RUNNING" /\ ~Done(d, t)
      BY <1>1, <1>3, <2>3 DEF PhaseOf
    <2>4. CASE s.phase \in {"RUNNING", "COMPLETE"} /\ t.phase = IF Done(d, t) THEN "COMPLETE" ELSE "RUNNING"
      BY <1>1, <1>3, <2>1, <2>4 DEF PhaseOf
    <2> QED
      BY <2>2, <2>3, <2>4 DEF Follows
  <1>5. /\ n = 0 => c.kind = "PREPARE"
        /\ n = 1 => c.kind = "START"
        /\ n > 1 => c.kind \in ExecutionKinds(d) /\ (d.kind = "LADDER" => ~Done(d, s)) /\ (d.kind = "RANKING" => n = 2)
    BY <1>1, <1>3 DEF Follows
  <1>6. Ordered(d, t.events)
    <2>1. t.events[1].kind = "PREPARE"
      BY <1>1, <1>2, <1>5 DEF Ordered
    <2>2. n + 1 > 1 => t.events[2].kind = "START"
      BY <1>1, <1>2, <1>5 DEF Ordered
    <2>3. ASSUME NEW k \in 3..(n + 1)
          PROVE  /\ t.events[k].kind \in ExecutionKinds(d)
                 /\ t.events[k].kind = "COMPLETE_LADDER" => k = n + 1
                 /\ d.kind = "RANKING" => k = 3
      <3>1. CASE k = n + 1
        BY <1>1, <1>5, <3>1
      <3>2. CASE k # n + 1
        <4>1. k \in 3..n /\ k \in 1..n /\ n > 1 /\ t.events[k] = s.events[k]
          BY <1>1, <3>2
        <4>2. s.events[k].kind \in ExecutionKinds(d) /\ (d.kind = "RANKING" => k = 3)
          BY <1>1, <1>2, <4>1 DEF Ordered
        <4>3. s.events[k].kind # "COMPLETE_LADDER"
          <5>1. CASE d.kind = "LADDER"
            BY <1>1, <1>5, <4>1, <5>1 DEF Done
          <5>2. CASE d.kind # "LADDER"
            BY <4>2, <5>2 DEF ExecutionKinds, Defined
          <5> QED
            BY <5>1, <5>2
        <4> QED
          BY <4>1, <4>2, <4>3
      <3> QED
        BY <3>1, <3>2
    <2> QED
      BY <1>1, <2>1, <2>2, <2>3 DEF Ordered
  <1> QED
    BY <1>1, <1>4, <1>6, VerifyIs

(* What is known of the phase of an accepted state.                        *)
LEMMA PhaseIs ==
  ASSUME NEW d, NEW s, IsSequence(s.events), VerifyDynamicStage(d, s)
  PROVE  /\ s.phase \in {"DEFINITION", "READY", "RUNNING", "COMPLETE"}
         /\ s.phase \in {"DEFINITION", "READY"} <=> Len(s.events) < 2
         /\ s.phase = "COMPLETE" => Done(d, s)
         /\ s.phase = "RUNNING" => ~Done(d, s)
         /\ Len(s.events) \in Nat /\ Sizes(d, s) /\ Distinct(s.requests)
  <1>1. s.phase = PhaseOf(d, s) /\ Sizes(d, s) /\ Distinct(s.requests)
    BY VerifyIs
  <1> DEFINE n == Len(s.events)
  <1>2. n \in Nat
    BY SequenceFacts
  <1>3. s.phase = CASE n = 0 -> "DEFINITION" [] n = 1 -> "READY" [] OTHER -> IF Done(d, s) THEN "COMPLETE" ELSE "RUNNING"
    BY <1>1 DEF PhaseOf
  <1> HIDE DEF n
  <1>4. n = 0 \/ n = 1 \/ (n # 0 /\ n # 1 /\ ~(n < 2))
    BY <1>2
  <1>5. /\ s.phase \in {"DEFINITION", "READY", "RUNNING", "COMPLETE"}
        /\ s.phase \in {"DEFINITION", "READY"} <=> n < 2
        /\ s.phase = "COMPLETE" => Done(d, s)
        /\ s.phase = "RUNNING" => ~Done(d, s)
    BY <1>3, <1>4
  <1> QED
    BY <1>1, <1>2, <1>5 DEF n

----------------------------------------------------------------------------
(* Ladders and ranking stages.                                             *)
Valued(c) ==
  /\ c.kind = "SUBMIT_RANKING_RESULTS" => c.scores \in [DOMAIN c.scores -> Int]
  /\ c.kind = "SUBMIT_HEAT_RESULTS" => c.results \in [DOMAIN c.results -> Int]
  /\ c.kind = "CORRECT_HEAT_RESULT" => c.result \in Int

(* A command that is not refused, and the state it leads to.               *)
Step(d, s, c, e, t) ==
  /\ e = EffectOf(d, s, c) /\ ~e.refused
  /\ t.phase = e.phase /\ t.events = Append(s.events, c) /\ t.runtime = e.runtime /\ t.requests = e.requests

LEMMA LadderStep ==
  ASSUME NEW d, Defined(d), d.kind = "LADDER", NEW s, StageInv(d, s), NEW c, NEW e, NEW t, Step(d, s, c, e, t)
  PROVE  StageInv(d, t)
  <1>1. /\ IsSequence(s.events) /\ VerifyDynamicStage(d, s) /\ s.requests = <<>> /\ Len(s.events) \in Nat
        /\ s.phase \in {"DEFINITION", "READY", "RUNNING", "COMPLETE"} /\ (s.phase \in {"DEFINITION", "READY"} <=> Len(s.events) < 2)
        /\ s.phase = "RUNNING" => ~Done(d, s)
    BY PhaseIs DEF StageInv
  <1>2. Begins(d, s, c, e) \/ (c.kind \in ExecutionKinds(d) /\ Executes(d, s, c, e))
    BY EffectCases DEF Step
  <1>3. /\ t.phase = e.phase /\ t.requests = e.requests /\ t.events = Append(s.events, c) /\ ~e.refused
        /\ Len(t.events) = Len(s.events) + 1
        /\ Done(d, t) <=> c.kind = "COMPLETE_LADDER" \/ Done(d, s)
    <2>1. /\ DOMAIN s.events = 1..Len(s.events) /\ DOMAIN t.events = 1..(Len(s.events) + 1)
          /\ t.events[Len(s.events) + 1] = c /\ \A k \in 1..Len(s.events) : t.events[k] = s.events[k]
          /\ Len(t.events) = Len(s.events) + 1
      BY <1>1, Appended DEF Step
    <2> QED
      BY <1>1, <2>1 DEF Done, Step
  <1>4. t.requests = <<>> /\ Follows(d, s, c, t)
    <2>1. CASE c.kind = "PREPARE" /\ s.phase = "DEFINITION" /\ e = Prepare(d, s)
      <3>1. e = Effect("READY", [order |-> d.initialOrder], <<>>)
        BY <2>1 DEF Prepare, Prepared
      <3> QED
        BY <1>3, <2>1, <3>1 DEF Follows, Effect
    <2>2. CASE c.kind = "START" /\ s.phase = "READY" /\ e = Effect("RUNNING", s.runtime, s.requests)
      <3>1. ~Done(d, s)
        <4>1. Len(s.events) < 2 /\ Ordered(d, s.events) /\ DOMAIN s.events = 1..Len(s.events)
          BY <1>1, <2>2, VerifyIs, SequenceFacts
        <4>2. \A k \in DOMAIN s.events : k = 1 /\ s.events[k].kind = "PREPARE"
          BY <1>1, <4>1 DEF Ordered
        <4> QED
          BY <4>2 DEF Done
      <3> QED
        BY <1>1, <1>3, <2>2, <3>1 DEF Follows, Effect
    <2>3. CASE c.kind = "RECORD_LADDER_CHALLENGE" /\ e = LadderChallenge(d, s, c)
      <3> DEFINE o == F!ApplyLadderChallenge(s.runtime.order, c.challenger, c.defender, c.winner, d.reach)
      <3>1. s.phase = "RUNNING" /\ e = Effect("RUNNING", [order |-> o.order], s.requests)
        <4>1. e = IF s.phase # "RUNNING" THEN NoEffect
                  ELSE IF o.status # "CERTIFIED" THEN NoEffect ELSE Effect("RUNNING", [order |-> o.order], s.requests)
          BY <2>3 DEF LadderChallenge
        <4> HIDE DEF o
        <4> QED
          BY <1>3, <4>1, EffectRefuses
      <3> HIDE DEF o
      <3>2. e.phase = "RUNNING" /\ e.requests = s.requests
        BY <3>1 DEF Effect
      <3>3. c.kind \in ExecutionKinds(d)
        BY <2>3 DEF ExecutionKinds
      <3> QED
        BY <1>1, <1>3, <2>3, <3>1, <3>2, <3>3 DEF Follows
    <2>4. CASE c.kind = "COMPLETE_LADDER" /\ e = CompleteLadder(d, s, c)
      <3>1. s.phase = "RUNNING" /\ e = Effect("COMPLETE", s.runtime, s.requests)
        BY <1>3, <2>4, EffectRefuses DEF CompleteLadder
      <3>2. e.phase = "COMPLETE" /\ e.requests = s.requests
        BY <3>1 DEF Effect
      <3>3. c.kind \in ExecutionKinds(d)
        BY <2>4 DEF ExecutionKinds
      <3> QED
        BY <1>1, <1>3, <2>4, <3>1, <3>2, <3>3 DEF Follows
    <2> QED
      BY <1>2, <2>1, <2>2, <2>3, <2>4 DEF Begins, Executes
  <1>5. Sizes(d, t) /\ Distinct(t.requests)
    BY <1>4 DEF Sizes, Distinct
  <1>6. IsSequence(t.events) /\ VerifyDynamicStage(d, t)
    BY <1>1, <1>3, <1>4, <1>5, VerifiedAfter
  <1> QED
    BY <1>4, <1>6 DEF StageInv

LEMMA RankingStep ==
  ASSUME NEW d, Defined(d), d.kind = "RANKING", NEW s, StageInv(d, s), NEW c, Valued(c), NEW e, NEW t, Step(d, s, c, e, t)
  PROVE  StageInv(d, t)
  <1>1. /\ IsSequence(s.events) /\ VerifyDynamicStage(d, s) /\ RankingInv(d, s) /\ Len(s.events) \in Nat
        /\ s.phase \in {"DEFINITION", "READY"} <=> Len(s.events) < 2
        /\ s.phase = "RUNNING" => ~Done(d, s)
    BY PhaseIs DEF StageInv
  <1>2. Begins(d, s, c, e) \/ (c.kind \in ExecutionKinds(d) /\ Executes(d, s, c, e))
    BY EffectCases DEF Step
  <1>3. /\ t.phase = e.phase /\ t.requests = e.requests /\ t.events = Append(s.events, c) /\ ~e.refused /\ t.runtime = e.runtime
        /\ Len(t.events) = Len(s.events) + 1
        /\ Done(d, t) <=> t.runtime.certified
    <2>1. Len(t.events) = Len(s.events) + 1
      BY <1>1, Appended DEF Step
    <2> QED
      BY <2>1 DEF Done, Step
  <1>4. Distinct(t.requests) /\ Follows(d, s, c, t) /\ RankingInv(d, t)
    <2>1. CASE c.kind = "PREPARE" /\ s.phase = "DEFINITION" /\ e = Prepare(d, s)
      <3>1. e = Effect("READY", s.runtime, <<<<0, 1>>>>)
        <4>1. e = IF Cardinality(d.entrants) < 2 \/ d.places \notin 1..Cardinality(d.entrants) THEN NoEffect
                  ELSE Effect("READY", s.runtime, <<<<0, 1>>>>)
          BY <2>1 DEF Prepare, Prepared
        <4> QED
          BY <1>3, <4>1, EffectRefuses
      <3>2. Distinct(<<<<0, 1>>>>)
        BY DEF Distinct
      <3>3. t.phase = "READY" /\ t.runtime = s.runtime /\ t.requests = <<<<0, 1>>>>
        BY <1>3, <3>1 DEF Effect
      <3>4. Len(t.events) <= 2
        BY <1>1, <1>3, <2>1
      <3>5. RankingInv(d, t)
        BY <1>1, <2>1, <3>3, <3>4 DEF RankingInv
      <3> QED
        BY <2>1, <3>2, <3>3, <3>5 DEF Follows
    <2>2. CASE c.kind = "START" /\ s.phase = "READY" /\ e = Effect("RUNNING", s.runtime, s.requests)
      <3>1. t.phase = "RUNNING" /\ t.runtime = s.runtime /\ t.requests = s.requests
        BY <1>3, <2>2 DEF Effect
      <3>2. Len(t.events) <= 2
        BY <1>1, <1>3, <2>2
      <3>3. Distinct(s.requests)
        BY <1>1, PhaseIs
      <3>4. RankingInv(d, t) /\ ~Done(d, t)
        BY <1>1, <1>3, <2>2, <3>1, <3>2 DEF RankingInv
      <3> QED
        BY <2>2, <3>1, <3>3, <3>4 DEF Follows
    <2>3. CASE c.kind = "SUBMIT_RANKING_RESULTS" /\ e = SubmitRanking(d, s, c)
      <3> DEFINE cut == F!QualifyRankingStage(c.scores, d.places, d.better, d.cutoffTies, d.seedOrder)
      <3>1. /\ s.phase = "RUNNING" /\ DOMAIN c.scores = d.entrants /\ cut.status = "CERTIFIED"
            /\ e = Effect("COMPLETE", [scores |-> c.scores, qualified |-> cut.qualified, certified |-> TRUE], s.requests)
        <4>1. e = IF s.phase # "RUNNING" \/ DOMAIN c.scores # d.entrants THEN NoEffect ELSE RankingCut(s, c.scores, cut)
          BY <2>3 DEF SubmitRanking
        <4> HIDE DEF cut
        <4>2. RankingCut(s, c.scores, cut) =
                IF cut.status # "CERTIFIED" THEN NoEffect
                ELSE Effect("COMPLETE", [scores |-> c.scores, qualified |-> cut.qualified, certified |-> TRUE], s.requests)
          BY DEF RankingCut
        <4> QED
          BY <1>3, <4>1, <4>2, EffectRefuses
      <3>2. Unbeaten(cut.qualified, c.scores, d.places, d.better)
        <4>1. c.scores \in [d.entrants -> Int] /\ IsFiniteSet(d.entrants) /\ d.entrants \subseteq Nat
          BY <2>3, <3>1 DEF Valued, Defined
        <4>2. Scored(c.scores)
          BY <3>1, <4>1 DEF Scored
        <4>3. d.seedOrder \in Seq(d.entrants) /\ cut.status = "CERTIFIED"
          BY <3>1 DEF Defined
        <4> QED
          BY <4>2, <4>3, QualifiedAreUnbeaten
      <3> HIDE DEF cut
      <3>3. /\ t.phase = "COMPLETE" /\ t.requests = s.requests /\ t.runtime.certified
            /\ t.runtime.qualified = cut.qualified /\ t.runtime.scores = c.scores
        BY <1>3, <3>1 DEF Effect
      <3>4. RankingInv(d, t)
        BY <3>1, <3>2, <3>3 DEF RankingInv
      <3>5. Len(s.events) <= 2
        BY <1>1, <3>1 DEF RankingInv
      <3>6. c.kind \in ExecutionKinds(d)
        BY <2>3 DEF ExecutionKinds
      <3>7. Distinct(s.requests)
        BY <1>1, PhaseIs
      <3> QED
        BY <1>3, <3>1, <3>3, <3>4, <3>5, <3>6, <3>7 DEF Follows
    <2> QED
      BY <1>2, <2>1, <2>2, <2>3 DEF Begins, Executes
  <1>5. Sizes(d, t)
    BY DEF Sizes
  <1>6. IsSequence(t.events) /\ VerifyDynamicStage(d, t)
    BY <1>1, <1>3, <1>4, <1>5, VerifiedAfter
  <1> QED
    BY <1>4, <1>6 DEF StageInv

----------------------------------------------------------------------------
(* Heats: what a command leaves recorded, and what is certified of it.     *)
Results(d, recorded) == recorded \in [DOMAIN recorded -> Int] /\ DOMAIN recorded \subseteq ActiveEntrants(d)
Evaluated(d, s, recorded, e) ==
  /\ DOMAIN recorded = ActiveEntrants(d)
  /\ \E q : /\ Unbeaten(q, TimedResults(recorded), d.places, "LOWER")
            /\ e = Effect("COMPLETE", [recorded |-> recorded, qualified |-> q, certified |-> TRUE], s.requests)

LEMMA EvaluationIs ==
  ASSUME NEW d, Defined(d), d.kind = "HEATS", NEW s, NEW recorded, Results(d, recorded), DOMAIN recorded = ActiveEntrants(d),
         NEW e, e = EvaluateHeat(d, s, recorded), ~e.refused
  PROVE  Evaluated(d, s, recorded, e)
  <1> DEFINE trial == F!RankTimeTrial(recorded, d.timeTies, d.seedOrder)
             timed == Fns!Restrict(recorded, F!Timed(recorded))
             cut == F!QualifyRankingStage(timed, d.places, "LOWER", d.cutoffTies, d.seedOrder)
  <1>1. e = IF trial.status # "CERTIFIED" THEN NoEffect ELSE HeatCut(s, recorded, cut)
    BY DEF EvaluateHeat
  <1>2. timed = TimedResults(recorded)
    BY DEF Fns!Restrict, TimedResults
  <1> HIDE DEF trial
  <1>3. /\ cut.status = "CERTIFIED"
        /\ e = Effect("COMPLETE", [recorded |-> recorded, qualified |-> cut.qualified, certified |-> TRUE], s.requests)
    <2> HIDE DEF cut
    <2>1. HeatCut(s, recorded, cut) =
            IF cut.status # "CERTIFIED" THEN NoEffect
            ELSE Effect("COMPLETE", [recorded |-> recorded, qualified |-> cut.qualified, certified |-> TRUE], s.requests)
      BY DEF HeatCut
    <2> QED
      BY <1>1, <2>1, EffectRefuses
  <1>4. Scored(timed)
    <2>1. DOMAIN timed \subseteq DOMAIN recorded /\ \A i \in DOMAIN timed : timed[i] = recorded[i]
      BY <1>2 DEF TimedResults, F!Timed
    <2>2. DOMAIN recorded \subseteq d.entrants /\ \A i \in DOMAIN recorded : recorded[i] \in Int
      BY DEF Results, ActiveEntrants
    <2> HIDE DEF timed
    <2>3. IsFiniteSet(d.entrants) /\ d.entrants \subseteq Nat
      BY DEF Defined
    <2>4. DOMAIN timed \subseteq d.entrants
      BY <2>1, <2>2
    <2>5. IsFiniteSet(DOMAIN timed)
      BY <2>3, <2>4, FS_Subset
    <2> QED
      BY <2>1, <2>2, <2>3, <2>4, <2>5 DEF Scored
  <1>5. Unbeaten(cut.qualified, timed, d.places, "LOWER")
    <2>1. d.seedOrder \in Seq(d.entrants)
      BY DEF Defined
    <2> HIDE DEF timed
    <2> QED
      BY <1>3, <1>4, <2>1, QualifiedAreUnbeaten
  <1> HIDE DEF cut, timed
  <1> QED
    BY <1>2, <1>3, <1>5 DEF Evaluated

LEMMA HeatOutcome ==
  ASSUME NEW d, d.kind = "HEATS", NEW s, NEW c, NEW e, NEW t, Step(d, s, c, e, t), NEW recorded, Results(d, recorded),
         e = Recorded(s, recorded) \/ Evaluated(d, s, recorded, e)
  PROVE  /\ HeatInv(d, t) /\ Sizes(d, t) /\ t.requests = s.requests
         /\ t.phase = IF Done(d, t) THEN "COMPLETE" ELSE "RUNNING"
  <1>1. t.phase = e.phase /\ t.requests = e.requests /\ t.runtime = e.runtime
    BY DEF Step
  <1>2. recorded \in [DOMAIN recorded -> Int] /\ DOMAIN recorded \subseteq ActiveEntrants(d)
    BY DEF Results
  <1>3. Done(d, t) <=> DOMAIN t.runtime.recorded = ActiveEntrants(d) /\ t.runtime.certified
    BY DEF Done
  <1>4. CASE e = Recorded(s, recorded)
    <2>1. /\ t.phase = "RUNNING" /\ t.requests = s.requests /\ ~t.runtime.certified
          /\ t.runtime.recorded = recorded /\ t.runtime.qualified = {}
      BY <1>1, <1>4 DEF Recorded, Effect
    <2> QED
      BY <1>2, <1>3, <2>1 DEF HeatInv, Sizes
  <1>5. CASE Evaluated(d, s, recorded, e)
    <2>1. PICK q : /\ Unbeaten(q, TimedResults(recorded), d.places, "LOWER") /\ DOMAIN recorded = ActiveEntrants(d)
                   /\ e = Effect("COMPLETE", [recorded |-> recorded, qualified |-> q, certified |-> TRUE], s.requests)
      BY <1>5 DEF Evaluated
    <2>2. /\ t.phase = "COMPLETE" /\ t.requests = s.requests /\ t.runtime.certified
          /\ t.runtime.recorded = recorded /\ t.runtime.qualified = q
      BY <1>1, <2>1 DEF Effect
    <2> QED
      BY <1>2, <1>3, <2>1, <2>2 DEF HeatInv, Sizes
  <1> QED
    BY <1>4, <1>5

LEMMA HeatsBegin ==
  ASSUME NEW d, Defined(d), d.kind = "HEATS", NEW s, StageInv(d, s), NEW c, NEW e, NEW t, Step(d, s, c, e, t), Begins(d, s, c, e)
  PROVE  HeatInv(d, t) /\ Sizes(d, t) /\ Distinct(t.requests) /\ Follows(d, s, c, t)
  <1>1. /\ HeatInv(d, s) /\ Sizes(d, s) /\ Distinct(s.requests)
        /\ t.phase = e.phase /\ t.requests = e.requests /\ ~e.refused /\ t.runtime = e.runtime
    BY PhaseIs DEF StageInv, Step
  <1>2. CASE c.kind = "PREPARE" /\ s.phase = "DEFINITION" /\ e = Prepare(d, s)
    <2> DEFINE a == F!AssignQualifyingHeats(Fns!Restrict(d.mark, ActiveEntrants(d)), d.heatCount, d.lanes, d.lanePriority,
                                            d.betterMark, d.seedTies)
               heats == [h \in 1..d.heatCount |-> <<0, h>>]
    <2>1. e = Effect("READY", s.runtime, heats)
      <3>1. e = IF a.status # "CERTIFIED" THEN NoEffect ELSE Effect("READY", s.runtime, heats)
        BY <1>2 DEF Prepare, Prepared
      <3> HIDE DEF a, heats
      <3> QED
        BY <1>1, <3>1, EffectRefuses
    <2>2. Distinct(heats)
      BY DEF Distinct
    <2> HIDE DEF heats
    <2>3. t.phase = "READY" /\ t.runtime = s.runtime /\ t.requests = heats
      BY <1>1, <2>1 DEF Effect
    <2> QED
      BY <1>1, <1>2, <2>2, <2>3 DEF HeatInv, Sizes, Follows
  <1>3. CASE c.kind = "START" /\ s.phase = "READY" /\ e = Effect("RUNNING", s.runtime, s.requests)
    <2>1. t.phase = "RUNNING" /\ t.runtime = s.runtime /\ t.requests = s.requests
      BY <1>1, <1>3 DEF Effect
    <2>2. ~Done(d, t)
      BY <1>1, <1>3, <2>1 DEF Done, HeatInv
    <2> QED
      BY <1>1, <1>3, <2>1, <2>2 DEF HeatInv, Sizes, Follows
  <1> QED
    BY <1>2, <1>3 DEF Begins

LEMMA HeatsStep ==
  ASSUME NEW d, Defined(d), d.kind = "HEATS", NEW s, StageInv(d, s), NEW c, Valued(c), NEW e, NEW t, Step(d, s, c, e, t)
  PROVE  StageInv(d, t)
  <1>1. /\ IsSequence(s.events) /\ VerifyDynamicStage(d, s) /\ HeatInv(d, s) /\ Distinct(s.requests)
        /\ t.events = Append(s.events, c) /\ ~e.refused
    BY PhaseIs DEF StageInv, Step
  <1>2. Begins(d, s, c, e) \/ (c.kind \in ExecutionKinds(d) /\ Executes(d, s, c, e))
    BY EffectCases DEF Step
  <1> DEFINE had == s.runtime.recorded
  <1>3. Results(d, had)
    BY <1>1, PhaseIs DEF HeatInv, Results, Sizes
  <1> HIDE DEF had
  <1>4. ASSUME c.kind \in ExecutionKinds(d), Executes(d, s, c, e)
        PROVE  /\ s.phase \in {"RUNNING", "COMPLETE"}
               /\ \E recorded : Results(d, recorded) /\ (e = Recorded(s, recorded) \/ Evaluated(d, s, recorded, e))
    <2>1. CASE c.kind = "SUBMIT_HEAT_RESULTS" /\ e = SubmitHeat(d, s, c)
      <3> DEFINE recorded == Over(c.results, had)
                 bad == \/ s.phase # "RUNNING"
                        \/ DOMAIN c.results = {}
                        \/ ~(DOMAIN c.results \subseteq ActiveEntrants(d) \ DOMAIN had)
      <3>1. e = IF bad THEN NoEffect
                ELSE IF DOMAIN recorded # ActiveEntrants(d) THEN Recorded(s, recorded) ELSE EvaluateHeat(d, s, recorded)
        BY <2>1 DEF SubmitHeat, had
      <3> HIDE DEF recorded
      <3>2. ~bad /\ e = IF DOMAIN recorded # ActiveEntrants(d) THEN Recorded(s, recorded) ELSE EvaluateHeat(d, s, recorded)
        <4> HIDE DEF bad
        <4> QED
          BY <1>1, <3>1, EffectRefuses
      <3>3. c.results \in [DOMAIN c.results -> Int]
        BY <2>1 DEF Valued
      <3>4. /\ recorded = [x \in DOMAIN recorded |-> recorded[x]]
            /\ DOMAIN recorded = DOMAIN c.results \union DOMAIN had
            /\ \A x \in DOMAIN recorded : recorded[x] = IF x \in DOMAIN c.results THEN c.results[x] ELSE had[x]
        BY DEF Over, recorded
      <3>5. DOMAIN recorded \subseteq ActiveEntrants(d)
        BY <1>3, <3>2, <3>4 DEF Results
      <3>6. \A x \in DOMAIN recorded : recorded[x] \in Int
        BY <1>3, <3>3, <3>4 DEF Results
      <3>7. Results(d, recorded)
        BY <3>4, <3>5, <3>6 DEF Results
      <3>8. e = Recorded(s, recorded) \/ Evaluated(d, s, recorded, e)
        BY <1>1, <3>2, <3>7, EvaluationIs
      <3> QED
        BY <3>2, <3>7, <3>8
    <2>2. CASE c.kind = "CORRECT_HEAT_RESULT" /\ e = CorrectHeat(d, s, c)
      <3> DEFINE recorded == [had EXCEPT ![c.who] = c.result]
      <3>1. e = IF ~CurrentResult(s, c) THEN NoEffect
                ELSE IF s.phase = "COMPLETE" THEN EvaluateHeat(d, s, recorded) ELSE Recorded(s, recorded)
        BY <2>2 DEF CorrectHeat, had
      <3>2. CurrentResult(s, c)
        BY <1>1, <3>1, EffectRefuses
      <3>3. Results(d, recorded) /\ DOMAIN recorded = DOMAIN had
        <4>1. c.result \in Int
          BY <2>2 DEF Valued
        <4> QED
          BY <1>3, <4>1 DEF Results
      <3>4. s.phase = "COMPLETE" => DOMAIN recorded = ActiveEntrants(d)
        BY <1>1, <3>3 DEF HeatInv, had
      <3> HIDE DEF recorded
      <3>5. e = Recorded(s, recorded) \/ Evaluated(d, s, recorded, e)
        BY <1>1, <3>1, <3>2, <3>3, <3>4, EvaluationIs
      <3> QED
        BY <3>2, <3>3, <3>5 DEF CurrentResult
    <2>3. CASE c.kind = "VOID_HEAT_RESULT" /\ e = VoidHeat(d, s, c)
      <3> DEFINE recorded == Fns!Restrict(had, DOMAIN had \ {c.who})
      <3>1. e = IF ~CurrentResult(s, c) THEN NoEffect ELSE Recorded(s, recorded)
        BY <2>3 DEF VoidHeat, had
      <3>2. CurrentResult(s, c)
        BY <1>1, <3>1, EffectRefuses
      <3>3. Results(d, recorded)
        BY <1>3 DEF Results, Fns!Restrict
      <3> HIDE DEF recorded
      <3> QED
        BY <3>1, <3>2, <3>3 DEF CurrentResult
    <2> QED
      BY <1>4, <2>1, <2>2, <2>3 DEF Executes
  <1>5. HeatInv(d, t) /\ Sizes(d, t) /\ Distinct(t.requests) /\ Follows(d, s, c, t)
    <2>1. CASE Begins(d, s, c, e)
      BY <2>1, HeatsBegin
    <2>2. CASE c.kind \in ExecutionKinds(d) /\ Executes(d, s, c, e)
      <3>1. /\ HeatInv(d, t) /\ Sizes(d, t) /\ t.requests = s.requests
            /\ t.phase = IF Done(d, t) THEN "COMPLETE" ELSE "RUNNING"
        BY <1>4, <2>2, HeatOutcome
      <3> QED
        BY <1>1, <1>4, <2>2, <3>1 DEF Follows
    <2> QED
      BY <1>2, <2>1, <2>2
  <1>6. IsSequence(t.events) /\ VerifyDynamicStage(d, t)
    BY <1>1, <1>5, VerifiedAfter
  <1> QED
    BY <1>5, <1>6 DEF StageInv
----------------------------------------------------------------------------
(* Swiss tables: what a round adds, and that nothing is taken away.        *)
Swiss(d) == Defined(d) /\ d.kind = "SWISS"
Grows(d, C, D) == \A i \in d.entrants : C[i].opponents \subseteq D[i].opponents /\ C[i].byes <= D[i].byes
MeetingsIn(d, C, pairings) ==
  \A b \in DOMAIN pairings : /\ pairings[b][1] \in d.entrants /\ pairings[b][2] \in d.entrants
                             /\ pairings[b][2] \in C[pairings[b][1]].opponents
ByeIn(d, C, bye) == bye # None => bye \in d.entrants /\ C[bye].byes # 0

LEMMA TableIs ==
  ASSUME NEW d, NEW C \in Table(d), NEW i \in d.entrants
  PROVE  /\ C[i].points \in Int /\ C[i].opponents \subseteq d.entrants /\ C[i].byes \in Nat
         /\ DOMAIN C = d.entrants
  <1>1. C[i] \in Standing(d) /\ DOMAIN C = d.entrants
    BY DEF Table
  <1> QED
    BY <1>1 DEF Standing

LEMMA StandingOf ==
  ASSUME NEW d, NEW x \in Int, NEW y \in SUBSET d.entrants, NEW z \in Nat
  PROVE  LET r == [points |-> x, opponents |-> y, byes |-> z]
         IN  r \in Standing(d) /\ r.points = x /\ r.opponents = y /\ r.byes = z
  BY DEF Standing

LEMMA BoardIs ==
  ASSUME NEW d, NEW pairings, Boards(d, pairings)
  PROVE  /\ \A b \in DOMAIN pairings : /\ pairings[b][1] \in d.entrants /\ pairings[b][2] \in d.entrants
                                       /\ pairings[b][1] # pairings[b][2]
         /\ \A b, c \in DOMAIN pairings : b # c => Board(pairings, b) \cap Board(pairings, c) = {}
  <1>1. PICK n \in Nat :
          /\ pairings \in Pairs(d.entrants, n)
          /\ \A k \in 1..n : pairings[k][1] # pairings[k][2]
          /\ \A k, l \in 1..n : k # l => Board(pairings, k) \cap Board(pairings, l) = {}
    BY DEF Boards
  <1>2. DOMAIN pairings = 1..n /\ \A k \in 1..n : pairings[k] \in d.entrants \X d.entrants
    BY <1>1 DEF Pairs
  <1>3. \A k \in 1..n : pairings[k][1] \in d.entrants /\ pairings[k][2] \in d.entrants
    BY <1>2
  <1> QED
    BY <1>1, <1>2, <1>3

LEMMA ByeTable ==
  ASSUME NEW d, Swiss(d), NEW C \in Table(d), NEW bye \in d.entrants \union {None}
  PROVE  /\ WithSwissBye(d, C, bye) \in Table(d) /\ Grows(d, C, WithSwissBye(d, C, bye))
         /\ ByeIn(d, WithSwissBye(d, C, bye), bye)
         /\ bye = None => WithSwissBye(d, C, bye) = C
  <1> DEFINE D == WithSwissBye(d, C, bye)
  <1>1. \A i \in d.entrants : C[i].points \in Int /\ C[i].opponents \subseteq d.entrants /\ C[i].byes \in Nat
    BY TableIs
  <1>2. DOMAIN C = d.entrants /\ d.bye \in Int /\ None \notin d.entrants /\ C = [i \in d.entrants |-> C[i]]
    BY DEF Table, Swiss, Defined
  <1>3. D = [i \in d.entrants |->
               IF i # bye THEN C[i]
               ELSE [points |-> C[i].points + d.bye, opponents |-> C[i].opponents, byes |-> C[i].byes + 1]]
    BY <1>2 DEF WithSwissBye
  <1> HIDE DEF D
  <1>4. ASSUME NEW i \in d.entrants
        PROVE  /\ D[i] \in Standing(d) /\ D[i].opponents = C[i].opponents
               /\ D[i].byes = IF i = bye THEN C[i].byes + 1 ELSE C[i].byes
    <2>1. CASE i # bye
      <3>1. D[i] = C[i]
        BY <1>3, <2>1
      <3>2. C[i] \in Standing(d)
        BY DEF Table
      <3> QED
        BY <2>1, <3>1, <3>2
    <2>2. CASE i = bye
      <3>1. D[i] = [points |-> C[i].points + d.bye, opponents |-> C[i].opponents, byes |-> C[i].byes + 1]
        BY <1>3, <2>2
      <3>2. C[i].points + d.bye \in Int /\ C[i].byes + 1 \in Nat /\ C[i].opponents \subseteq d.entrants
        BY <1>1, <1>2
      <3>3. D[i] \in Standing(d) /\ D[i].opponents = C[i].opponents /\ D[i].byes = C[i].byes + 1
        <4> DEFINE x == C[i].points + d.bye
                   y == C[i].opponents
                   z == C[i].byes + 1
        <4>1. D[i] = [points |-> x, opponents |-> y, byes |-> z] /\ x \in Int /\ y \subseteq d.entrants /\ z \in Nat
          BY <3>1, <3>2
        <4> HIDE DEF x, y, z
        <4>2. D[i] \in Standing(d) /\ D[i].opponents = y /\ D[i].byes = z
          BY <4>1, StandingOf
        <4> QED
          BY <4>2 DEF y, z
      <3> QED
        BY <2>2, <3>3
    <2> QED
      BY <2>1, <2>2
  <1>5. D \in Table(d)
    BY <1>3, <1>4 DEF Table
  <1>6. Grows(d, C, D)
    BY <1>1, <1>4 DEF Grows
  <1>7. ByeIn(d, D, bye)
    BY <1>1, <1>4 DEF ByeIn
  <1>8. bye = None => D = C
    BY <1>2, <1>3
  <1> QED
    BY <1>5, <1>6, <1>7, <1>8 DEF D

LEMMA ResultsTable ==
  ASSUME NEW d, Swiss(d), NEW C \in Table(d), NEW pairings, Boards(d, pairings), NEW results
  PROVE  /\ WithResults(d, C, pairings, results) \in Table(d) /\ Grows(d, C, WithResults(d, C, pairings, results))
         /\ MeetingsIn(d, WithResults(d, C, pairings, results), pairings)
  <1> DEFINE D == WithResults(d, C, pairings, results)
             boards(i) == {b \in DOMAIN pairings : i \in {pairings[b][1], pairings[b][2]}}
             winner(i) == results[CHOOSE b \in boards(i) : TRUE]
             gained(i) == IF boards(i) = {} THEN 0 ELSE IF winner(i) = i THEN d.win ELSE IF winner(i) = None THEN d.draw ELSE 0
             met(i) == (UNION {{pairings[b][1], pairings[b][2]} : b \in boards(i)}) \ {i}
  <1>1. \A i \in d.entrants : C[i].points \in Int /\ C[i].opponents \subseteq d.entrants /\ C[i].byes \in Nat
    BY TableIs
  <1>2. DOMAIN C = d.entrants /\ d.win \in Int /\ d.draw \in Int
    BY DEF Table, Swiss, Defined
  <1>3. D = [i \in d.entrants |-> [points |-> C[i].points + gained(i), opponents |-> C[i].opponents \union met(i), byes |-> C[i].byes]]
    BY <1>2 DEF WithResults
  <1>4. \A b \in DOMAIN pairings : pairings[b][1] \in d.entrants /\ pairings[b][2] \in d.entrants /\ pairings[b][1] # pairings[b][2]
    BY BoardIs
  <1>5. ASSUME NEW i \in d.entrants PROVE gained(i) \in Int /\ met(i) \subseteq d.entrants
    <2>1. gained(i) \in Int
      <3> HIDE DEF winner, boards
      <3> QED
        BY <1>2
    <2>2. met(i) \subseteq d.entrants
      BY <1>4
    <2> QED
      BY <2>1, <2>2
  <1>6. ASSUME NEW b \in DOMAIN pairings PROVE pairings[b][2] \in met(pairings[b][1])
    BY <1>4
  <1> HIDE DEF D, gained, met
  <1>7. ASSUME NEW i \in d.entrants
        PROVE  D[i] \in Standing(d) /\ D[i].opponents = C[i].opponents \union met(i) /\ D[i].byes = C[i].byes
    <2>1. C[i].points + gained(i) \in Int /\ C[i].opponents \union met(i) \subseteq d.entrants /\ C[i].byes \in Nat
      BY <1>1, <1>5
    <2>2. D[i] = [points |-> C[i].points + gained(i), opponents |-> C[i].opponents \union met(i), byes |-> C[i].byes]
      BY <1>3
    <2> QED
      BY <2>1, <2>2, StandingOf
  <1>9. D \in Table(d)
    BY <1>3, <1>7 DEF Table
  <1>10. Grows(d, C, D)
    BY <1>1, <1>7 DEF Grows
  <1>11. MeetingsIn(d, D, pairings)
    BY <1>4, <1>6, <1>7 DEF MeetingsIn
  <1> QED
    BY <1>9, <1>10, <1>11 DEF D

(* A rebuild goes from one table to the next; what it ends with knows all  *)
(* that happened in the rounds.                                            *)
Rounded(d, C, x) == WithResults(d, WithSwissBye(d, C, x.bye), x.pairings, x.results)
RebuildAt(f, d, rounds, k) == IF k = 0 THEN EmptyStandings(d) ELSE Rounded(d, f[k - 1], rounds[k])
Rebuilds(f, d, rounds) == f = [k \in 0..Len(rounds) |-> RebuildAt(f, d, rounds, k)]

LEMMA GrowsOn ==
  ASSUME NEW d, NEW A \in Table(d), NEW B \in Table(d), NEW C \in Table(d), Grows(d, A, B), Grows(d, B, C)
  PROVE  /\ Grows(d, A, C)
         /\ \A pairings : MeetingsIn(d, A, pairings) => MeetingsIn(d, C, pairings)
         /\ \A bye : ByeIn(d, A, bye) => ByeIn(d, C, bye)
  <1>1. \A i \in d.entrants : A[i].byes \in Nat /\ B[i].byes \in Nat /\ C[i].byes \in Nat
    BY TableIs
  <1>2. \A i \in d.entrants : A[i].opponents \subseteq C[i].opponents /\ A[i].byes <= C[i].byes
    BY <1>1 DEF Grows
  <1>3. \A bye : ByeIn(d, A, bye) => ByeIn(d, C, bye)
    BY <1>1, <1>2 DEF ByeIn
  <1>4. \A pairings : MeetingsIn(d, A, pairings) => MeetingsIn(d, C, pairings)
    BY <1>2 DEF MeetingsIn
  <1> QED
    BY <1>2, <1>3, <1>4 DEF Grows

LEMMA GrowsSelf ==
  ASSUME NEW d, NEW A \in Table(d)
  PROVE  Grows(d, A, A)
  <1>1. \A i \in d.entrants : A[i].byes \in Nat
    BY TableIs
  <1> QED
    BY <1>1 DEF Grows

LEMMA RoundTable ==
  ASSUME NEW d, Swiss(d), NEW C \in Table(d), NEW x, Drawn(d, x)
  PROVE  /\ Rounded(d, C, x) \in Table(d) /\ Grows(d, C, Rounded(d, C, x))
         /\ MeetingsIn(d, Rounded(d, C, x), x.pairings) /\ ByeIn(d, Rounded(d, C, x), x.bye)
  <1> DEFINE B == WithSwissBye(d, C, x.bye)
             D == WithResults(d, B, x.pairings, x.results)
  <1>1. x.bye \in d.entrants \union {None} /\ Boards(d, x.pairings)
    BY DEF Drawn
  <1>2. B \in Table(d) /\ Grows(d, C, B) /\ ByeIn(d, B, x.bye)
    BY <1>1, ByeTable
  <1> HIDE DEF B
  <1>3. D \in Table(d) /\ Grows(d, B, D) /\ MeetingsIn(d, D, x.pairings)
    BY <1>1, <1>2, ResultsTable
  <1> HIDE DEF D
  <1>4. Grows(d, C, D)
    BY <1>2, <1>3, GrowsOn
  <1>5. Grows(d, B, B)
    BY <1>2, GrowsSelf
  <1>6. ByeIn(d, D, x.bye)
    BY <1>2, <1>3, <1>5, GrowsOn
  <1> QED
    BY <1>3, <1>4, <1>6 DEF B, D, Rounded

LEMMA EmptyTable ==
  ASSUME NEW d
  PROVE  EmptyStandings(d) \in Table(d)
  <1>1. [points |-> 0, opponents |-> {}, byes |-> 0] \in Standing(d)
    BY DEF Standing
  <1> QED
    BY <1>1 DEF EmptyStandings, Table

LEMMA RebuildIs ==
  ASSUME NEW d, Swiss(d), NEW rounds, Played(d, rounds)
  PROVE  \E f : f \in [0..Len(rounds) -> Table(d)] /\ Rebuilds(f, d, rounds) /\ RebuildSwissStandings(d, rounds) = f[Len(rounds)]
  <1> DEFINE n == Len(rounds)
             T == Table(d)
             g == [k \in 1..n |-> [C \in T |-> Rounded(d, C, rounds[k])]]
             e == EmptyStandings(d)
  <1>1. n \in Nat /\ DOMAIN rounds = 1..n
    BY SequenceFacts DEF Played
  <1>2. \A k \in 1..n : Drawn(d, rounds[k])
    BY <1>1 DEF Played
  <1>3. \A k \in 1..n : \A C \in T : Rounded(d, C, rounds[k]) \in T
    BY <1>2, RoundTable
  <1>4. e \in T
    BY EmptyTable
  <1> HIDE DEF T, e
  <1>5. Steps(g, n, T)
    BY <1>3 DEF Steps
  <1>6. \A k \in 1..n, C \in T : g[k][C] = Rounded(d, C, rounds[k])
    OBVIOUS
  <1> HIDE DEF g, n
  <1>7. \E f : Iteration(f, g, n, T, e)
    BY <1>1, <1>4, <1>5, Iterates
  <1>8. PICK f : f \in [0..n -> T] /\ f[0] = e /\ \A k \in 1..n : f[k] = g[k][f[k - 1]]
    BY <1>7 DEF Iteration
  <1>9. \A k \in 0..n : f[k] = RebuildAt(f, d, rounds, k)
    <2> SUFFICES ASSUME NEW k \in 0..n, k # 0 PROVE f[k] = RebuildAt(f, d, rounds, k)
      BY <1>8 DEF RebuildAt, e
    <2>1. k \in 1..n /\ k - 1 \in 0..n
      BY <1>1
    <2>2. f[k - 1] \in T
      BY <1>8, <2>1
    <2> QED
      BY <1>6, <1>8, <2>1, <2>2 DEF RebuildAt
  <1>10. Rebuilds(f, d, rounds)
    <2>1. f = [k \in 0..n |-> RebuildAt(f, d, rounds, k)]
      BY <1>8, <1>9
    <2> QED
      BY <2>1 DEF Rebuilds, n
  <1> DEFINE h == CHOOSE h : Rebuilds(h, d, rounds)
  <1>11. Rebuilds(h, d, rounds)
    BY <1>10
  <1>12. RebuildSwissStandings(d, rounds) = h[n]
    BY DEF RebuildSwissStandings, Rebuilds, RebuildAt, Rounded, n
  <1> HIDE DEF h
  <1>13. h = f
    <2>1. h = [k \in 0..n |-> RebuildAt(h, d, rounds, k)]
      BY <1>11 DEF Rebuilds, n
    <2>2. \A k \in 0..n : h[k] = RebuildAt(h, d, rounds, k)
      BY <2>1
    <2>3. h[0] = f[0] /\ SameSteps(h, f, n)
      BY <1>1, <1>8, <1>9, <2>2 DEF SameSteps, RebuildAt, e
    <2>4. On0To(n, h) /\ On0To(n, f)
      BY <1>8, <2>1 DEF On0To
    <2> QED
      BY <1>1, <2>3, <2>4, StepsDetermine
  <1> QED
    BY <1>8, <1>10, <1>12, <1>13 DEF n, T

Knows(d, C, rounds, k) == \A l \in 1..k : MeetingsIn(d, C, rounds[l].pairings) /\ ByeIn(d, C, rounds[l].bye)

LEMMA RebuildKnows ==
  ASSUME NEW d, Swiss(d), NEW rounds, Played(d, rounds)
  PROVE  LET C == RebuildSwissStandings(d, rounds)
         IN  /\ C \in Table(d)
             /\ \A k \in DOMAIN rounds : MeetingsIn(d, C, rounds[k].pairings) /\ ByeIn(d, C, rounds[k].bye)
  <1> DEFINE n == Len(rounds)
             C == RebuildSwissStandings(d, rounds)
  <1>1. n \in Nat /\ DOMAIN rounds = 1..n
    BY SequenceFacts DEF Played
  <1>2. \A k \in 1..n : Drawn(d, rounds[k])
    BY <1>1 DEF Played
  <1>3. PICK f : f \in [0..n -> Table(d)] /\ Rebuilds(f, d, rounds) /\ C = f[n]
    BY RebuildIs
  <1>4. \A k \in 0..n : f[k] = RebuildAt(f, d, rounds, k)
    BY <1>3 DEF Rebuilds
  <1> HIDE DEF n, C
  <1> DEFINE S == {k \in Nat : k <= n => Knows(d, f[k], rounds, k)}
  <1>5. 0 \in S
    BY DEF Knows
  <1>6. ASSUME NEW k \in Nat, k \in S PROVE k + 1 \in S
    <2> SUFFICES ASSUME k + 1 <= n PROVE Knows(d, f[k + 1], rounds, k + 1)
      OBVIOUS
    <2>1. k \in 0..n /\ k + 1 \in 0..n /\ k + 1 \in 1..n /\ (k + 1) - 1 = k /\ k + 1 # 0 /\ k <= n
      BY <1>1
    <2> DEFINE A == f[k]
               B == f[k + 1]
    <2>2. A \in Table(d) /\ B \in Table(d)
      BY <1>3, <2>1
    <2>3. B = Rounded(d, A, rounds[k + 1])
      BY <1>4, <2>1 DEF RebuildAt
    <2>4. Knows(d, A, rounds, k)
      BY <1>6, <2>1
    <2> HIDE DEF A, B
    <2>5. Grows(d, A, B) /\ MeetingsIn(d, B, rounds[k + 1].pairings) /\ ByeIn(d, B, rounds[k + 1].bye)
      BY <1>2, <2>1, <2>2, <2>3, RoundTable
    <2>6. Grows(d, B, B)
      BY <2>2, GrowsSelf
    <2>7. \A l \in 1..k : MeetingsIn(d, B, rounds[l].pairings) /\ ByeIn(d, B, rounds[l].bye)
      BY <2>2, <2>4, <2>5, <2>6, GrowsOn DEF Knows
    <2>8. \A l \in 1..(k + 1) : l = k + 1 \/ l \in 1..k
      BY <2>1
    <2> QED
      BY <2>5, <2>7, <2>8 DEF Knows, B
  <1> HIDE DEF S
  <1>7. n \in S
    BY <1>1, <1>5, <1>6, Induction
  <1>8. Knows(d, f[n], rounds, n)
    BY <1>1, <1>7 DEF S
  <1>9. f[n] \in Table(d)
    BY <1>1, <1>3
  <1> QED
    BY <1>1, <1>3, <1>8, <1>9 DEF Knows, C

LEMMA RebuildGrows ==
  ASSUME NEW d, Swiss(d), NEW rounds, Played(d, rounds), NEW x, Played(d, Append(rounds, x))
  PROVE  RebuildSwissStandings(d, Append(rounds, x)) = Rounded(d, RebuildSwissStandings(d, rounds), x)
  <1> DEFINE n == Len(rounds)
             longer == Append(rounds, x)
  <1>1. n \in Nat /\ Len(longer) = n + 1 /\ longer[n + 1] = x /\ \A k \in 1..n : longer[k] = rounds[k]
    BY Appended DEF Played
  <1>2. PICK f : f \in [0..n -> Table(d)] /\ Rebuilds(f, d, rounds) /\ RebuildSwissStandings(d, rounds) = f[n]
    BY RebuildIs
  <1>3. PICK g : g \in [0..Len(longer) -> Table(d)] /\ Rebuilds(g, d, longer) /\ RebuildSwissStandings(d, longer) = g[Len(longer)]
    BY RebuildIs
  <1> HIDE DEF n, longer
  <1>4. g \in [0..(n + 1) -> Table(d)] /\ RebuildSwissStandings(d, longer) = g[n + 1]
    BY <1>1, <1>3
  <1>5. \A k \in 0..n : f[k] = RebuildAt(f, d, rounds, k)
    BY <1>2 DEF Rebuilds, n
  <1>6. \A k \in 0..(n + 1) : g[k] = RebuildAt(g, d, longer, k)
    BY <1>1, <1>3 DEF Rebuilds
  <1> DEFINE h == [k \in 0..n |-> g[k]]
  <1>7. \A k \in 0..n : h[k] = g[k] /\ k \in 0..(n + 1)
    BY <1>1
  <1>8. \A k \in 1..n : k \in 0..n /\ k - 1 \in 0..n /\ k # 0
    BY <1>1
  <1>9. On0To(n, h) /\ On0To(n, f)
    BY <1>2 DEF On0To
  <1>10. 0 \in 0..n
    BY <1>1
  <1> HIDE DEF h
  <1>11. h[0] = f[0]
    BY <1>5, <1>6, <1>7, <1>10 DEF RebuildAt
  <1>12. SameSteps(h, f, n)
    BY <1>1, <1>5, <1>6, <1>7, <1>8 DEF SameSteps, RebuildAt
  <1>13. h = f
    BY <1>1, <1>9, <1>11, <1>12, StepsDetermine
  <1>14. n \in 0..n /\ n + 1 \in 0..(n + 1) /\ (n + 1) - 1 = n /\ n + 1 # 0
    BY <1>1
  <1>15. g[n] = f[n]
    BY <1>7, <1>13, <1>14
  <1>16. g[n + 1] = Rounded(d, g[n], x)
    BY <1>1, <1>6, <1>14 DEF RebuildAt
  <1> QED
    BY <1>2, <1>4, <1>15, <1>16 DEF longer

----------------------------------------------------------------------------
(* Who is paired on the table of the rounds before meets nobody again.     *)
LEMMA TableTallied ==
  ASSUME NEW d, Swiss(d), NEW C \in Table(d)
  PROVE  Tallied(C) /\ DOMAIN C = d.entrants
  <1>1. DOMAIN C = d.entrants /\ \A i \in d.entrants : C[i].points \in Int
    BY TableIs DEF Table
  <1>2. IsFiniteSet(d.entrants) /\ d.entrants \subseteq Nat \ {F!NoEntrant}
    BY DEF Swiss, Defined, None, F!NoEntrant
  <1> QED
    BY <1>1, <1>2 DEF Tallied

LEMMA PairedRound ==
  ASSUME NEW d, Swiss(d), NEW rounds, Played(d, rounds), NEW p, p = F!PairSwissRound(RebuildSwissStandings(d, rounds), d.pairing),
         p.status = "CERTIFIED"
  PROVE  Drawn(d, p) /\ d.entrants # {} /\ \A k \in DOMAIN rounds : Differ(d, rounds[k], p)
  <1> DEFINE C == RebuildSwissStandings(d, rounds)
  <1>1. C \in Table(d) /\ \A k \in DOMAIN rounds : MeetingsIn(d, C, rounds[k].pairings) /\ ByeIn(d, C, rounds[k].bye)
    BY RebuildKnows
  <1> HIDE DEF C
  <1>2. Tallied(C) /\ DOMAIN C = d.entrants
    BY <1>1, TableTallied
  <1>3. Fits(C, d.pairing, p)
    BY <1>2, PairingFits DEF C
  <1>4. PICK n \in Nat :
          /\ p.pairings \in Pairs(d.entrants, n)
          /\ \A k \in 1..n : p.pairings[k][1] # p.pairings[k][2]
          /\ \A k, l \in 1..n : k # l => Board(p.pairings, k) \cap Board(p.pairings, l) = {}
          /\ d.pairing.rematches = "FORBIDDEN" =>
               \A k \in 1..n : ~F!Rematch(C, p.pairings[k][1], p.pairings[k][2])
    BY <1>2, <1>3 DEF Fits
  <1>5. /\ p.bye \in d.entrants \union {None} /\ Cardinality(d.entrants) >= 2
        /\ p.bye \in d.entrants /\ d.pairing.bye = "LOWEST_RANKED_WITHOUT_BYE" => C[p.bye].byes = 0
    BY <1>2, <1>3 DEF Fits, None, F!NoEntrant
  <1>6. d.entrants # {}
    BY <1>5, FS_EmptySet
  <1>7. Drawn(d, p)
    BY <1>4, <1>5 DEF Drawn, Boards
  <1>8. ASSUME NEW k \in DOMAIN rounds PROVE Differ(d, rounds[k], p)
    <2>1. ASSUME d.pairing.rematches = "FORBIDDEN", NEW b \in DOMAIN rounds[k].pairings, NEW c \in DOMAIN p.pairings,
                 Board(rounds[k].pairings, b) = Board(p.pairings, c)
          PROVE  FALSE
      <3> DEFINE x == rounds[k].pairings[b][1]
                 y == rounds[k].pairings[b][2]
                 v == p.pairings[c][1]
                 w == p.pairings[c][2]
      <3>1. y \in C[x].opponents
        BY <1>1 DEF MeetingsIn
      <3>2. c \in 1..n
        BY <1>4 DEF Pairs
      <3>3. v # w /\ ~F!Rematch(C, v, w)
        BY <1>4, <2>1, <3>2
      <3>4. {x, y} = {v, w}
        BY <2>1 DEF Board
      <3> HIDE DEF x, y, v, w
      <3>5. (v = x /\ w = y) \/ (v = y /\ w = x)
        BY <3>3, <3>4
      <3> QED
        BY <3>1, <3>3, <3>5 DEF F!Rematch
    <2>2. ASSUME d.pairing.bye = "LOWEST_RANKED_WITHOUT_BYE", rounds[k].bye # None, rounds[k].bye = p.bye
          PROVE  FALSE
      BY <1>1, <1>5, <2>2 DEF ByeIn
    <2> QED
      BY <2>1, <2>2 DEF Differ, Strangers
  <1> QED
    BY <1>6, <1>7, <1>8

LEMMA DifferBothWays ==
  ASSUME NEW d, NEW x, NEW y, Differ(d, x, y)
  PROVE  Differ(d, y, x)
  <1>1. Strangers(x, y) => Strangers(y, x)
    BY DEF Strangers
  <1> QED
    BY <1>1 DEF Differ

LEMMA DifferAlike ==
  ASSUME NEW d, NEW x, NEW y, NEW v, NEW w, x.pairings = v.pairings, x.bye = v.bye, y.pairings = w.pairings, y.bye = w.bye,
         Differ(d, x, y)
  PROVE  Differ(d, v, w)
  BY DEF Differ, Strangers

LEMMA AllDifferOn ==
  ASSUME NEW d, NEW rounds, IsSequence(rounds), AllDiffer(d, rounds), NEW x, \A k \in DOMAIN rounds : Differ(d, rounds[k], x)
  PROVE  AllDiffer(d, Append(rounds, x))
  <1> DEFINE n == Len(rounds)
             longer == Append(rounds, x)
  <1>1. /\ n \in Nat /\ DOMAIN rounds = 1..n /\ DOMAIN longer = 1..(n + 1)
        /\ longer[n + 1] = x /\ \A k \in 1..n : longer[k] = rounds[k]
    BY Appended
  <1> HIDE DEF n, longer
  <1>2. ASSUME NEW k \in 1..(n + 1), NEW l \in 1..(n + 1), k # l PROVE Differ(d, longer[k], longer[l])
    <2>1. CASE k = n + 1
      <3>1. l \in 1..n
        BY <1>1, <1>2, <2>1
      <3> QED
        BY <1>1, <2>1, <3>1, DifferBothWays
    <2>2. CASE l = n + 1
      <3>1. k \in 1..n
        BY <1>1, <1>2, <2>2
      <3> QED
        BY <1>1, <2>2, <3>1
    <2>3. CASE k # n + 1 /\ l # n + 1
      <3>1. k \in 1..n /\ l \in 1..n
        BY <1>1, <2>3
      <3> QED
        BY <1>1, <1>2, <3>1 DEF AllDiffer
    <2> QED
      BY <2>1, <2>2, <2>3
  <1> QED
    BY <1>1, <1>2 DEF AllDiffer, longer

LEMMA AllDifferAlike ==
  ASSUME NEW d, NEW rounds, AllDiffer(d, rounds), NEW others, DOMAIN others = DOMAIN rounds,
         \A k \in DOMAIN rounds : others[k].pairings = rounds[k].pairings /\ others[k].bye = rounds[k].bye
  PROVE  AllDiffer(d, others)
  <1>1. ASSUME NEW k \in DOMAIN rounds, NEW l \in DOMAIN rounds, k # l PROVE Differ(d, others[k], others[l])
    <2>1. Differ(d, rounds[k], rounds[l])
      BY <1>1 DEF AllDiffer
    <2> QED
      BY <2>1, DifferAlike
  <1> QED
    BY <1>1 DEF AllDiffer

(* The rounds before the last one, and the last one anew.                  *)
Replaces(s, x, front, t) ==
  LET n == Len(s)
  IN  /\ n \in Nat \ {0} /\ DOMAIN s = 1..n
      /\ IsSequence(front) /\ Len(front) = n - 1 /\ DOMAIN front = 1..(n - 1) /\ \A k \in 1..(n - 1) : front[k] = s[k]
      /\ IsSequence(t) /\ Len(t) = n /\ DOMAIN t = 1..n /\ t[n] = x /\ \A k \in 1..(n - 1) : t[k] = s[k]
      /\ t = Append(front, x)

LEMMA Replaced ==
  ASSUME NEW s, IsSequence(s), s # <<>>, NEW x
  PROVE  Replaces(s, x, Seqs!Front(s), Seqs!Front(s) \o <<x>>)
  <1> DEFINE n == Len(s)
             front == SubSeq(s, 1, n - 1)
             t == front \o <<x>>
  <1>1. PICK S : s \in Seq(S)
    BY DEF IsSequence
  <1>2. n \in Nat \ {0} /\ DOMAIN s = 1..n
    BY <1>1
  <1>3. front \in Seq(S) /\ Len(front) = n - 1 /\ \A k \in 1..(n - 1) : front[k] = s[k]
    BY <1>1, <1>2
  <1> HIDE DEF n
  <1>4. t = Append(front, x)
    <2> DEFINE T == S \union {x}
    <2>1. front \in Seq(T) /\ x \in T
      <3> HIDE DEF front
      <3> QED
        BY <1>3, SeqDef
    <2> HIDE DEF T, front
    <2> QED
      BY <2>1, AppendIsConcat
  <1> HIDE DEF front, t
  <1>5. IsSequence(front)
    BY <1>3 DEF IsSequence
  <1>6. /\ IsSequence(t) /\ Len(t) = n - 1 + 1 /\ DOMAIN front = 1..(n - 1) /\ DOMAIN t = 1..(n - 1 + 1)
        /\ t[n - 1 + 1] = x /\ \A k \in 1..(n - 1) : t[k] = front[k]
    BY <1>3, <1>4, <1>5, Appended
  <1>7. n - 1 + 1 = n
    BY <1>2
  <1> QED
    BY <1>2, <1>3, <1>4, <1>5, <1>6, <1>7 DEF n, front, t, Seqs!Front, Replaces

----------------------------------------------------------------------------
(* What the commands of a Swiss stage lead to.                             *)
LEMMA RequestsGrow ==
  ASSUME NEW d, NEW round \in 1..d.rounds, d.rounds \in Nat, NEW requests, Numbered(d, requests, round - 1), Distinct(requests),
         NEW pairings, Boards(d, pairings)
  PROVE  LET longer == requests \o SwissRequests(round, pairings)
         IN  Numbered(d, longer, round) /\ Distinct(longer)
  <1> DEFINE A == (1..d.rounds) \X Nat
             own == SwissRequests(round, pairings)
             longer == requests \o own
  <1>1. PICK n \in Nat : requests \in [1..n -> A] /\ \A i \in 1..n : requests[i][1] <= round - 1
    BY DEF Numbered
  <1>2. PICK m \in Nat : DOMAIN pairings = 1..m
    BY DEF Boards, Pairs
  <1>3. own = [b \in 1..m |-> <<round, b>>]
    BY <1>2 DEF SwissRequests
  <1>4. own \in [1..m -> A]
    BY <1>3
  <1>5. \A b \in 1..m : own[b] = <<round, b>>
    BY <1>3
  <1>6. \A i \in 1..n : requests[i][1] \in 1..d.rounds
    BY <1>1
  <1> HIDE DEF own, A
  <1>7. requests \in Seq(A) /\ Len(requests) = n /\ own \in Seq(A) /\ Len(own) = m
    BY <1>1, <1>4, LengthOf
  <1>8. /\ longer \in Seq(A) /\ Len(longer) = n + m
        /\ \A i \in 1..(n + m) : longer[i] = IF i <= n THEN requests[i] ELSE own[i - n]
    BY <1>7, ConcatProperties
  <1> HIDE DEF longer
  <1>9. longer \in [1..(n + m) -> A] /\ DOMAIN longer = 1..(n + m)
    BY <1>8
  <1>10. ASSUME NEW i \in 1..(n + m)
         PROVE  \/ i \in 1..n /\ longer[i] = requests[i] /\ longer[i][1] < round
                \/ i - n \in 1..m /\ longer[i] = <<round, i - n>>
    <2>1. CASE i <= n
      <3>1. i \in 1..n /\ longer[i] = requests[i]
        BY <1>8, <2>1
      <3> QED
        BY <1>1, <1>6, <3>1
    <2>2. CASE ~(i <= n)
      <3>1. i - n \in 1..m /\ longer[i] = own[i - n]
        BY <1>8, <2>2
      <3> QED
        BY <1>5, <3>1
    <2> QED
      BY <2>1, <2>2
  <1>11. \A i \in 1..(n + m) : longer[i][1] <= round
    <2> SUFFICES ASSUME NEW i \in 1..(n + m) PROVE longer[i][1] <= round
      OBVIOUS
    <2>1. CASE i \in 1..n /\ longer[i] = requests[i] /\ longer[i][1] < round
      BY <1>6, <2>1
    <2>2. CASE longer[i] = <<round, i - n>>
      BY <2>2
    <2> QED
      BY <1>10, <2>1, <2>2
  <1>12. ASSUME NEW i \in 1..(n + m), NEW j \in 1..(n + m), longer[i] = longer[j] PROVE i = j
    <2> DEFINE Old(k) == k \in 1..n /\ longer[k] = requests[k] /\ longer[k][1] < round
               Own(k) == k - n \in 1..m /\ longer[k] = <<round, k - n>>
    <2>1. (Old(i) \/ Own(i)) /\ (Old(j) \/ Own(j))
      BY <1>10
    <2>2. \A k \in 1..(n + m) : Own(k) => longer[k][1] = round /\ longer[k][2] = k - n
      OBVIOUS
    <2>3. \A k \in 1..(n + m) : ~(Old(k) /\ longer[k][1] = round)
      BY <1>6
    <2>4. CASE Old(i) /\ Old(j)
      <3>1. DOMAIN requests = 1..n
        BY <1>1
      <3> QED
        BY <1>12, <2>4, <3>1 DEF Distinct
    <2>5. CASE Own(i) /\ Own(j)
      <3> HIDE DEF Own, Old
      <3>1. longer[i][2] = i - n /\ longer[j][2] = j - n
        BY <2>2, <2>5
      <3>2. i - n = j - n
        BY <1>12, <3>1
      <3> QED
        BY <3>2
    <2>6. longer[i][1] = longer[j][1]
      BY <1>12
    <2> HIDE DEF Own, Old
    <2> QED
      BY <2>1, <2>2, <2>3, <2>4, <2>5, <2>6
  <1>13. n + m \in Nat
    OBVIOUS
  <1> QED
    BY <1>9, <1>11, <1>12, <1>13 DEF Numbered, Distinct, longer, own, A

IsRuntime(r) == DOMAIN r = {"round", "standings", "pairings", "bye", "completed", "final"}

(* What drawing the next round leaves.                                     *)
OpensRound(d, r, round, phase, e) ==
  LET t == e.runtime
  IN  /\ e.phase = phase /\ IsRuntime(t) /\ t.round = round /\ t.completed = r.completed /\ d.entrants # {}
      /\ t.standings = WithSwissBye(d, RebuildSwissStandings(d, t.completed), t.bye)
      /\ Drawn(d, t) /\ AllDiffer(d, WithOpen(t))
      /\ Numbered(d, e.requests, round) /\ Distinct(e.requests)

LEMMA PairRoundIs ==
  ASSUME NEW d, Swiss(d), NEW s, NEW r, IsRuntime(r), Played(d, r.completed), AllDiffer(d, r.completed),
         NEW round \in 1..d.rounds, Len(r.completed) = round - 1,
         NEW requests, Numbered(d, requests, round - 1), Distinct(requests), NEW phase,
         NEW e, e = PairRound(d, s, r, round, RebuildSwissStandings(d, r.completed), requests, phase), ~e.refused
  PROVE  OpensRound(d, r, round, phase, e)
  <1> DEFINE C == RebuildSwissStandings(d, r.completed)
             p == F!PairSwissRound(C, d.pairing)
             t == [r EXCEPT !.round = round, !.standings = WithSwissBye(d, C, p.bye), !.pairings = p.pairings, !.bye = p.bye]
  <1>1. e = IF p.status # "CERTIFIED" THEN NoEffect ELSE Effect(phase, t, requests \o SwissRequests(round, p.pairings))
    BY DEF PairRound, Paired
  <1>2. p.status = "CERTIFIED" => Drawn(d, p) /\ d.entrants # {} /\ \A k \in DOMAIN r.completed : Differ(d, r.completed[k], p)
    BY PairedRound
  <1> HIDE DEF p, C
  <1>3. /\ IsRuntime(t) /\ t.round = round /\ t.completed = r.completed /\ t.bye = p.bye /\ t.pairings = p.pairings
        /\ t.standings = WithSwissBye(d, C, p.bye)
    BY DEF IsRuntime
  <1> HIDE DEF t
  <1>4. p.status = "CERTIFIED" /\ e = Effect(phase, t, requests \o SwissRequests(round, p.pairings))
    BY <1>1, EffectRefuses
  <1>5. e.phase = phase /\ e.runtime = t /\ e.requests = requests \o SwissRequests(round, p.pairings)
    BY <1>4 DEF Effect
  <1>6. Drawn(d, t)
    BY <1>2, <1>3, <1>4 DEF Drawn
  <1>7. AllDiffer(d, WithOpen(t))
    <2> DEFINE x == [results |-> <<>>, bye |-> t.bye, pairings |-> t.pairings]
    <2>1. x.bye = p.bye /\ x.pairings = p.pairings
      BY <1>3
    <2>2. WithOpen(t) = Append(r.completed, x)
      BY <1>3 DEF WithOpen
    <2> HIDE DEF x
    <2>3. \A k \in DOMAIN r.completed : Differ(d, r.completed[k], x)
      BY <1>2, <1>4, <2>1, DifferAlike
    <2> QED
      BY <2>2, <2>3, AllDifferOn DEF Played
  <1>8. Numbered(d, e.requests, round) /\ Distinct(e.requests)
    <2>1. Boards(d, p.pairings) /\ d.rounds \in Nat
      BY <1>2, <1>4 DEF Drawn, Swiss, Defined
    <2> QED
      BY <1>5, <2>1, RequestsGrow
  <1> QED
    BY <1>2, <1>3, <1>4, <1>5, <1>6, <1>7, <1>8 DEF C, OpensRound

SwissGoal(d, s, c, t) == SwissInv(d, t) /\ Sizes(d, t) /\ Distinct(t.requests) /\ Follows(d, s, c, t)

LEMMA RankIs ==
  ASSUME NEW d, NEW rounds, RankSwiss(d, rounds).status = "CERTIFIED"
  PROVE  DOMAIN RankSwiss(d, rounds).rank = d.entrants
  <1>1. \A p, S, xs, ys, v : LET a == R!RankByValues(p, S, xs, ys, v) IN a.status = "CERTIFIED" => DOMAIN a.rank = S
    BY DEF R!RankByValues, R!Rejected
  <1>2. \A p, S, xs : LET a == R!RankWithPolicy(p, S, xs) IN a.status = "CERTIFIED" => DOMAIN a.rank = S
    BY <1>1 DEF R!RankWithPolicy, R!RankByPoints
  <1>3. \E p, xs : RankSwiss(d, rounds) = R!RankWithPolicy(p, d.entrants, xs)
    BY DEF RankSwiss
  <1> QED
    BY <1>2, <1>3

LEMMA RebuildEmpty ==
  ASSUME NEW d, Swiss(d)
  PROVE  Played(d, <<>>) /\ AllDiffer(d, <<>>) /\ RebuildSwissStandings(d, <<>>) = EmptyStandings(d) /\ Numbered(d, <<>>, 0)
  <1>1. Played(d, <<>>)
    BY DEF Played, IsSequence
  <1>2. AllDiffer(d, <<>>)
    BY DEF AllDiffer
  <1>3. PICK f : f \in [0..Len(<<>>) -> Table(d)] /\ Rebuilds(f, d, <<>>) /\ RebuildSwissStandings(d, <<>>) = f[Len(<<>>)]
    BY <1>1, RebuildIs
  <1>4. f[0] = RebuildAt(f, d, <<>>, 0)
    BY <1>3 DEF Rebuilds
  <1>5. Numbered(d, <<>>, 0)
    <2>1. <<>> \in [1..0 -> (1..d.rounds) \X Nat]
      OBVIOUS
    <2> QED
      BY <2>1 DEF Numbered
  <1> QED
    BY <1>1, <1>2, <1>3, <1>4, <1>5 DEF RebuildAt

LEMMA VoidedOn ==
  ASSUME NEW events, IsSequence(events), NEW c
  PROVE  VoidedIn(events) \/ c.kind = "VOID_SWISS_ROUND" => VoidedIn(Append(events, c))
  <1> DEFINE n == Len(events)
             longer == Append(events, c)
  <1>1. /\ n \in Nat /\ DOMAIN events = 1..n /\ DOMAIN longer = 1..(n + 1)
        /\ longer[n + 1] = c /\ \A k \in 1..n : longer[k] = events[k]
    BY Appended
  <1>2. n + 1 \in 1..(n + 1) /\ \A k \in 1..n : k \in 1..(n + 1)
    BY <1>1
  <1> QED
    BY <1>1, <1>2 DEF VoidedIn

(* What a stage knows of its rounds before a command.                      *)
LEMMA SwissFacts ==
  ASSUME NEW d, Swiss(d), NEW s, StageInv(d, s)
  PROVE  /\ IsSequence(s.events) /\ VerifyDynamicStage(d, s) /\ SwissInv(d, s) /\ Distinct(s.requests) /\ d.rounds \in Nat \ {0}
         /\ IsRuntime(s.runtime) /\ Played(d, s.runtime.completed)
  BY PhaseIs DEF StageInv, SwissInv, IsRuntime, Swiss, Defined

LEMMA SwissBegins ==
  ASSUME NEW d, Swiss(d), NEW s, StageInv(d, s), NEW c, NEW e, NEW t, Step(d, s, c, e, t), Begins(d, s, c, e)
  PROVE  SwissGoal(d, s, c, t)
  <1> DEFINE r == s.runtime
  <1>1. /\ IsSequence(s.events) /\ SwissInv(d, s) /\ Distinct(s.requests) /\ d.rounds \in Nat \ {0} /\ IsRuntime(r) /\ d.kind = "SWISS"
    BY SwissFacts DEF Swiss
  <1>2. t.phase = e.phase /\ t.requests = e.requests /\ ~e.refused /\ t.runtime = e.runtime /\ t.events = Append(s.events, c)
    BY DEF Step
  <1>3. CASE c.kind = "PREPARE" /\ s.phase = "DEFINITION" /\ e = Prepare(d, s)
    <2>1. r.completed = <<>> /\ r.standings = EmptyStandings(d)
      BY <1>1, <1>3 DEF SwissInv
    <2>2. /\ Played(d, r.completed) /\ AllDiffer(d, r.completed) /\ Numbered(d, <<>>, 0)
          /\ r.standings = RebuildSwissStandings(d, r.completed) /\ Len(r.completed) = 1 - 1
      BY <2>1, RebuildEmpty
    <2>3. e = PairRound(d, s, r, 1, RebuildSwissStandings(d, r.completed), <<>>, "READY")
      BY <1>1, <1>3, <2>2 DEF Prepare, Prepared
    <2>4. 1 \in 1..d.rounds /\ Numbered(d, <<>>, 1 - 1) /\ Distinct(<<>>)
      BY <1>1, <2>2 DEF Distinct
    <2> HIDE DEF r
    <2>5. /\ t.phase = "READY" /\ IsRuntime(t.runtime) /\ t.runtime.round = 1 /\ t.runtime.completed = r.completed /\ d.entrants # {}
          /\ t.runtime.standings = WithSwissBye(d, RebuildSwissStandings(d, t.runtime.completed), t.runtime.bye)
          /\ Drawn(d, t.runtime) /\ AllDiffer(d, WithOpen(t.runtime))
          /\ Numbered(d, t.requests, 1) /\ Distinct(t.requests)
      <3> DEFINE one == 1
                 none == <<>>
                 ready == "READY"
      <3>1. /\ one \in 1..d.rounds /\ Numbered(d, none, one - 1) /\ Distinct(none) /\ Len(r.completed) = one - 1
            /\ e = PairRound(d, s, r, one, RebuildSwissStandings(d, r.completed), none, ready)
        BY <2>2, <2>3, <2>4
      <3> HIDE DEF one, none, ready
      <3>2. OpensRound(d, r, one, ready, e)
        BY <1>1, <1>2, <2>2, <3>1, PairRoundIs
      <3> QED
        BY <1>2, <3>2 DEF one, ready, OpensRound
    <2>6. OpenInv(d, t)
      BY <2>2, <2>5 DEF OpenInv
    <2>7. SwissInv(d, t)
      BY <2>2, <2>4, <2>5, <2>6 DEF SwissInv, IsRuntime
    <2>8. Sizes(d, t)
      BY <1>1, <2>2, <2>5 DEF Sizes
    <2> QED
      BY <1>3, <2>5, <2>7, <2>8 DEF SwissGoal, Follows
  <1>4. CASE c.kind = "START" /\ s.phase = "READY" /\ e = Effect("RUNNING", s.runtime, s.requests)
    <2>1. t.phase = "RUNNING" /\ t.runtime = r /\ t.requests = s.requests
      BY <1>2, <1>4 DEF Effect
    <2>2. OpenInv(d, s) /\ d.entrants # {} /\ r.round \in 1..d.rounds /\ Numbered(d, s.requests, r.round) /\ Played(d, r.completed)
      BY <1>1, <1>4 DEF SwissInv
    <2>3. VoidedIn(s.events) => VoidedIn(t.events)
      BY <1>1, <1>2, VoidedOn
    <2> HIDE DEF r
    <2>4. OpenInv(d, t)
      BY <2>1, <2>2, <2>3 DEF OpenInv, r
    <2>5. SwissInv(d, t)
      BY <1>1, <2>1, <2>2, <2>4 DEF SwissInv, IsRuntime
    <2>6. Len(r.completed) = r.round - 1
      BY <2>2 DEF OpenInv, r
    <2>7. Sizes(d, t) /\ ~Done(d, t)
      BY <1>1, <2>1, <2>2, <2>6 DEF Sizes, Done
    <2> QED
      BY <1>1, <1>4, <2>1, <2>5, <2>7 DEF SwissGoal, Follows
  <1> QED
    BY <1>3, <1>4 DEF Begins

----------------------------------------------------------------------------
(* What the results of a round, a correction and a void lead to.           *)
LEMMA PlayedOn ==
  ASSUME NEW d, NEW rounds, Played(d, rounds), NEW x, Drawn(d, x), ValidSwissResults(x.pairings, x.results),
         DOMAIN x = {"results", "bye", "pairings"}
  PROVE  Played(d, Append(rounds, x))
  <1> DEFINE n == Len(rounds)
             longer == Append(rounds, x)
  <1>1. /\ n \in Nat /\ DOMAIN rounds = 1..n /\ DOMAIN longer = 1..(n + 1) /\ IsSequence(longer)
        /\ longer[n + 1] = x /\ \A k \in 1..n : longer[k] = rounds[k]
    BY Appended DEF Played
  <1> HIDE DEF n, longer
  <1>2. \A k \in 1..(n + 1) : longer[k] = x \/ (k \in 1..n /\ longer[k] = rounds[k])
    <2>1. \A k \in 1..(n + 1) : k = n + 1 \/ k \in 1..n
      BY <1>1
    <2> QED
      BY <1>1, <2>1
  <1> QED
    BY <1>1, <1>2 DEF Played, longer

(* A run of rounds that can be ranked completes the stage.                 *)
LEMMA FinishedIs ==
  ASSUME NEW d, Swiss(d), NEW s, StageInv(d, s), NEW c, NEW e, NEW t, Step(d, s, c, e, t),
         c.kind \in ExecutionKinds(d), s.phase \in {"RUNNING", "COMPLETE"},
         NEW standings, NEW pairings, NEW rounds, Played(d, rounds), AllDiffer(d, rounds),
         Len(rounds) = d.rounds, s.runtime.round = d.rounds, d.entrants # {}, Numbered(d, s.requests, d.rounds),
         standings = RebuildSwissStandings(d, rounds) \/ (VoidedIn(s.events) /\ ~Byeless(rounds)),
         e = Finished(s, standings, pairings, rounds, RankSwiss(d, rounds))
  PROVE  SwissGoal(d, s, c, t)
  <1> DEFINE r == s.runtime
             a == RankSwiss(d, rounds)
             u == [r EXCEPT !.standings = standings, !.pairings = pairings, !.completed = rounds, !.final = a.rank]
  <1>1. /\ IsSequence(s.events) /\ Distinct(s.requests) /\ d.rounds \in Nat \ {0} /\ IsRuntime(r) /\ d.kind = "SWISS"
    BY SwissFacts DEF Swiss
  <1>2. t.phase = e.phase /\ t.requests = e.requests /\ ~e.refused /\ t.runtime = e.runtime /\ t.events = Append(s.events, c)
    BY DEF Step
  <1>3. e = IF a.status # "CERTIFIED" THEN NoEffect ELSE Effect("COMPLETE", u, s.requests)
    BY DEF Finished
  <1>4. a.status = "CERTIFIED" => DOMAIN a.rank = d.entrants
    BY RankIs
  <1> HIDE DEF r, a
  <1>5. /\ IsRuntime(u) /\ u.round = r.round /\ u.standings = standings /\ u.completed = rounds /\ u.final = a.rank
    BY <1>1 DEF IsRuntime
  <1> HIDE DEF u
  <1>6. a.status = "CERTIFIED" /\ e = Effect("COMPLETE", u, s.requests)
    BY <1>2, <1>3, EffectRefuses
  <1>7. t.phase = "COMPLETE" /\ t.runtime = u /\ t.requests = s.requests
    BY <1>2, <1>6 DEF Effect
  <1>8. VoidedIn(s.events) => VoidedIn(t.events)
    BY <1>1, <1>2, VoidedOn
  <1>9. DoneInv(d, t)
    BY <1>5, <1>7, <1>8 DEF DoneInv, r
  <1>10. SwissInv(d, t)
    BY <1>1, <1>5, <1>7, <1>9 DEF SwissInv, IsRuntime, r
  <1>11. Sizes(d, t) /\ Done(d, t)
    BY <1>1, <1>4, <1>5, <1>6, <1>7 DEF Sizes, Done
  <1> QED
    BY <1>1, <1>7, <1>10, <1>11 DEF SwissGoal, Follows

(* The open round with its results, and the table they make.               *)
LEMMA RoundIsPlayed ==
  ASSUME NEW d, Swiss(d), NEW s, OpenInv(d, s), Played(d, s.runtime.completed), s.runtime.round \in 1..d.rounds,
         NEW results, ValidSwissResults(s.runtime.pairings, results)
  PROVE  LET r == s.runtime
             x == [results |-> results, bye |-> r.bye, pairings |-> r.pairings]
             rounds == Append(r.completed, x)
             standings == WithResults(d, r.standings, r.pairings, results)
         IN  /\ Played(d, rounds) /\ AllDiffer(d, rounds) /\ Len(rounds) = r.round
             /\ \/ standings = RebuildSwissStandings(d, rounds)
                \/ VoidedIn(s.events) /\ r.round = d.rounds /\ ~Byeless(rounds)
  <1> DEFINE r == s.runtime
             n == Len(r.completed)
             x == [results |-> results, bye |-> r.bye, pairings |-> r.pairings]
             y == [results |-> <<>>, bye |-> r.bye, pairings |-> r.pairings]
             rounds == Append(r.completed, x)
             open == Append(r.completed, y)
             C == RebuildSwissStandings(d, r.completed)
             standings == WithResults(d, r.standings, r.pairings, results)
  <1>1. /\ x.results = results /\ x.bye = r.bye /\ x.pairings = r.pairings /\ DOMAIN x = {"results", "bye", "pairings"}
        /\ y.bye = r.bye /\ y.pairings = r.pairings
    OBVIOUS
  <1>2. /\ n = r.round - 1 /\ Drawn(d, r) /\ AllDiffer(d, open)
        /\ \/ r.standings = WithSwissBye(d, C, r.bye)
           \/ VoidedIn(s.events) /\ r.round = d.rounds /\ r.standings = C
    BY DEF OpenInv, WithOpen
  <1>3. Played(d, r.completed) /\ IsSequence(r.completed) /\ r.round \in Nat
    BY DEF Played, Swiss, Defined
  <1> HIDE DEF x, y, r
  <1>4. /\ n \in Nat /\ Len(rounds) = n + 1 /\ DOMAIN rounds = 1..(n + 1) /\ DOMAIN open = 1..(n + 1)
        /\ rounds[n + 1] = x /\ open[n + 1] = y /\ \A k \in 1..n : rounds[k] = r.completed[k] /\ open[k] = r.completed[k]
    BY <1>3, Appended
  <1>5. Drawn(d, x)
    BY <1>1, <1>2 DEF Drawn
  <1>6. Played(d, rounds)
    <2>1. ValidSwissResults(x.pairings, x.results)
      BY <1>1 DEF r
    <2> QED
      BY <1>1, <1>3, <1>5, <2>1, PlayedOn
  <1>7. C \in Table(d)
    BY <1>3, RebuildKnows
  <1>8. RebuildSwissStandings(d, rounds) = Rounded(d, C, x)
    BY <1>3, <1>6, RebuildGrows
  <1> HIDE DEF n, C
  <1>9. AllDiffer(d, rounds)
    <2> HIDE DEF rounds, open
    <2>1. \A k \in 1..(n + 1) : k = n + 1 \/ k \in 1..n
      BY <1>4
    <2>2. \A k \in DOMAIN open : rounds[k].pairings = open[k].pairings /\ rounds[k].bye = open[k].bye
      BY <1>1, <1>4, <2>1
    <2> QED
      BY <1>2, <1>4, <2>2, AllDifferAlike
  <1>10. r.standings = WithSwissBye(d, C, r.bye) => standings = RebuildSwissStandings(d, rounds)
    BY <1>1, <1>8 DEF Rounded
  <1>11. r.bye = None => WithSwissBye(d, C, r.bye) = C
    BY <1>2, <1>7, ByeTable DEF Drawn
  <1>12. r.bye # None => ~Byeless(rounds)
    <2> HIDE DEF rounds
    <2>1. n + 1 \in 1..(n + 1)
      BY <1>4
    <2> QED
      BY <1>1, <1>4, <2>1 DEF Byeless
  <1>13. Len(rounds) = r.round
    <2> HIDE DEF rounds
    <2> QED
      BY <1>2, <1>3, <1>4 DEF n
  <1> QED
    BY <1>2, <1>6, <1>9, <1>10, <1>11, <1>12, <1>13 DEF r, x, C

LEMMA SwissSubmitted ==
  ASSUME NEW d, Swiss(d), NEW s, StageInv(d, s), NEW c, NEW e, NEW t, Step(d, s, c, e, t),
         c.kind = "SUBMIT_SWISS_ROUND", e = SubmitSwiss(d, s, c)
  PROVE  SwissGoal(d, s, c, t)
  <1> DEFINE r == s.runtime
             x == [results |-> c.results, bye |-> r.bye, pairings |-> r.pairings]
             rounds == Append(r.completed, x)
             standings == WithResults(d, r.standings, r.pairings, c.results)
             u == [r EXCEPT !.completed = rounds]
             next == c.round + 1
             running == "RUNNING"
             ended == <<>>
  <1>1. /\ IsSequence(s.events) /\ Distinct(s.requests) /\ d.rounds \in Nat \ {0} /\ IsRuntime(r) /\ d.kind = "SWISS" /\ SwissInv(d, s)
    BY SwissFacts DEF Swiss
  <1>2. t.phase = e.phase /\ t.requests = e.requests /\ ~e.refused /\ t.runtime = e.runtime /\ t.events = Append(s.events, c)
    BY DEF Step
  <1>3. e = IF s.phase # "RUNNING" \/ c.round # r.round THEN NoEffect
            ELSE IF ~ValidSwissResults(r.pairings, c.results) THEN NoEffect
            ELSE IF c.round < d.rounds THEN PairRound(d, s, u, next, standings, s.requests, running)
            ELSE Finished(s, standings, ended, rounds, RankSwiss(d, rounds))
    BY DEF SubmitSwiss
  <1> HIDE DEF rounds, standings, u, ended, running
  <1>4. /\ s.phase = "RUNNING" /\ c.round = r.round /\ ValidSwissResults(r.pairings, c.results)
        /\ e = IF c.round < d.rounds THEN PairRound(d, s, u, next, standings, s.requests, running)
               ELSE Finished(s, standings, ended, rounds, RankSwiss(d, rounds))
    BY <1>2, <1>3, EffectRefuses
  <1>5. OpenInv(d, s) /\ d.entrants # {} /\ r.round \in 1..d.rounds /\ Numbered(d, s.requests, r.round) /\ Played(d, r.completed)
    BY <1>1, <1>4 DEF SwissInv
  <1>6. /\ Played(d, rounds) /\ AllDiffer(d, rounds) /\ Len(rounds) = r.round
        /\ \/ standings = RebuildSwissStandings(d, rounds)
           \/ VoidedIn(s.events) /\ r.round = d.rounds /\ ~Byeless(rounds)
    BY <1>4, <1>5, RoundIsPlayed DEF rounds, standings
  <1>7. c.kind \in ExecutionKinds(d)
    BY <1>1 DEF ExecutionKinds
  <1>8. CASE c.round < d.rounds
    <2>1. r.round \in Nat /\ next \in 1..d.rounds /\ Len(rounds) = next - 1 /\ r.round = next - 1 /\ r.round # d.rounds
      BY <1>1, <1>4, <1>5, <1>6, <1>8
    <2>2. IsRuntime(u) /\ u.completed = rounds
      BY <1>1 DEF IsRuntime, u
    <2> HIDE DEF r, next
    <2>3. e = PairRound(d, s, u, next, RebuildSwissStandings(d, u.completed), s.requests, running)
      BY <1>4, <1>6, <1>8, <2>1, <2>2
    <2>4. OpensRound(d, u, next, running, e)
      <3>1. Played(d, u.completed) /\ AllDiffer(d, u.completed) /\ Len(u.completed) = next - 1 /\ Numbered(d, s.requests, next - 1)
        BY <1>5, <1>6, <2>1, <2>2
      <3> QED
        BY <1>1, <1>2, <2>1, <2>2, <2>3, <3>1, PairRoundIs
    <2>5. /\ t.phase = "RUNNING" /\ IsRuntime(t.runtime) /\ t.runtime.round = next /\ t.runtime.completed = rounds
          /\ t.runtime.standings = WithSwissBye(d, RebuildSwissStandings(d, t.runtime.completed), t.runtime.bye)
          /\ Drawn(d, t.runtime) /\ AllDiffer(d, WithOpen(t.runtime))
          /\ Numbered(d, t.requests, next) /\ Distinct(t.requests)
      BY <1>2, <2>2, <2>4 DEF OpensRound, running
    <2>6. OpenInv(d, t)
      BY <2>1, <2>5 DEF OpenInv
    <2>7. SwissInv(d, t)
      BY <1>5, <1>6, <2>1, <2>5, <2>6 DEF SwissInv, IsRuntime
    <2>8. Sizes(d, t) /\ ~Done(d, t)
      <3>1. Len(t.runtime.completed) <= d.rounds /\ Len(t.runtime.completed) # d.rounds
        BY <1>1, <1>6, <2>1, <2>5
      <3> QED
        BY <1>1, <3>1 DEF Sizes, Done
    <2> QED
      BY <1>4, <1>7, <1>1, <2>5, <2>7, <2>8 DEF SwissGoal, Follows
  <1>9. CASE ~(c.round < d.rounds)
    <2>1. r.round = d.rounds
      BY <1>1, <1>4, <1>5, <1>9
    <2>2. e = Finished(s, standings, ended, rounds, RankSwiss(d, rounds))
      BY <1>4, <1>9
    <2>3. standings = RebuildSwissStandings(d, rounds) \/ (VoidedIn(s.events) /\ ~Byeless(rounds))
      BY <1>6
    <2>4. /\ s.phase \in {"RUNNING", "COMPLETE"} /\ Len(rounds) = d.rounds /\ s.runtime.round = d.rounds
          /\ Numbered(d, s.requests, d.rounds)
      BY <1>4, <1>5, <1>6, <2>1
    <2> HIDE DEF r
    <2> QED
      BY <1>5, <1>6, <1>7, <2>2, <2>3, <2>4, FinishedIs
  <1> QED
    BY <1>8, <1>9

(* The round a correction or a void is about is the last one played.       *)
LEMMA Superseded ==
  ASSUME NEW d, Swiss(d), NEW s, StageInv(d, s), NEW c, Supersedes(s, c)
  PROVE  LET r == s.runtime
             latest == Seqs!Last(r.completed)
         IN  /\ s.phase = "COMPLETE" /\ IsSequence(r.completed) /\ r.completed # <<>> /\ c.round = d.rounds
             /\ Len(r.completed) = d.rounds /\ r.round = d.rounds /\ AllDiffer(d, r.completed)
             /\ d.rounds \in DOMAIN r.completed /\ DOMAIN r.completed = 1..d.rounds
             /\ latest = r.completed[d.rounds] /\ Drawn(d, latest) /\ DOMAIN latest = {"results", "bye", "pairings"}
             /\ d.entrants # {} /\ Numbered(d, s.requests, d.rounds) /\ Played(d, r.completed)
  <1> DEFINE r == s.runtime
  <1>1. s.phase = "COMPLETE" /\ r.completed # <<>> /\ c.round = Len(r.completed)
    BY DEF Supersedes
  <1>2. SwissInv(d, s) /\ Played(d, r.completed) /\ d.rounds \in Nat \ {0}
    BY SwissFacts
  <1>3. /\ Len(r.completed) = d.rounds /\ r.round = d.rounds /\ AllDiffer(d, r.completed)
        /\ d.entrants # {} /\ Numbered(d, s.requests, r.round)
    BY <1>1, <1>2 DEF SwissInv, DoneInv
  <1> HIDE DEF r
  <1>4. IsSequence(r.completed) /\ DOMAIN r.completed = 1..d.rounds /\ d.rounds \in DOMAIN r.completed
    BY <1>2, <1>3, SequenceFacts DEF Played
  <1>5. Seqs!Last(r.completed) = r.completed[d.rounds]
    BY <1>3 DEF Seqs!Last
  <1> QED
    BY <1>1, <1>2, <1>3, <1>4, <1>5 DEF Played, r

LEMMA SwissCorrected ==
  ASSUME NEW d, Swiss(d), NEW s, StageInv(d, s), NEW c, NEW e, NEW t, Step(d, s, c, e, t),
         c.kind = "CORRECT_SWISS_ROUND", e = CorrectSwiss(d, s, c)
  PROVE  SwissGoal(d, s, c, t)
  <1> DEFINE r == s.runtime
             latest == Seqs!Last(r.completed)
             x == [latest EXCEPT !.results = c.results]
             front == Seqs!Front(r.completed)
             rounds == front \o <<x>>
             standings == RebuildSwissStandings(d, rounds)
  <1>1. /\ d.rounds \in Nat \ {0} /\ d.kind = "SWISS" /\ ~e.refused
    BY SwissFacts DEF Swiss, Step
  <1>2. e = IF ~Supersedes(s, c) THEN NoEffect
            ELSE IF ~ValidSwissResults(latest.pairings, c.results) THEN NoEffect
            ELSE Finished(s, standings, s.runtime.pairings, rounds, RankSwiss(d, rounds))
    BY DEF CorrectSwiss
  <1> HIDE DEF latest, front, rounds, standings
  <1>3. /\ Supersedes(s, c) /\ ValidSwissResults(latest.pairings, c.results)
        /\ e = Finished(s, standings, s.runtime.pairings, rounds, RankSwiss(d, rounds))
    BY <1>1, <1>2, EffectRefuses
  <1>4. /\ s.phase = "COMPLETE" /\ IsSequence(r.completed) /\ r.completed # <<>>
        /\ Len(r.completed) = d.rounds /\ r.round = d.rounds /\ AllDiffer(d, r.completed)
        /\ DOMAIN r.completed = 1..d.rounds
        /\ latest = r.completed[d.rounds] /\ Drawn(d, latest) /\ DOMAIN latest = {"results", "bye", "pairings"}
        /\ d.entrants # {} /\ Numbered(d, s.requests, d.rounds) /\ Played(d, r.completed)
    BY <1>3, Superseded DEF latest
  <1>5. x.results = c.results /\ x.pairings = latest.pairings /\ x.bye = latest.bye /\ DOMAIN x = DOMAIN latest
    BY <1>4
  <1> HIDE DEF x, r
  <1>6. /\ IsSequence(front) /\ DOMAIN front = 1..(d.rounds - 1) /\ \A k \in 1..(d.rounds - 1) : front[k] = r.completed[k]
        /\ Len(rounds) = d.rounds /\ DOMAIN rounds = 1..d.rounds
        /\ rounds[d.rounds] = x /\ \A k \in 1..(d.rounds - 1) : rounds[k] = r.completed[k]
        /\ rounds = Append(front, x)
    <2> DEFINE y == r.completed
    <2> HIDE DEF y
    <2>1. IsSequence(y) /\ y # <<>> /\ Len(y) = d.rounds
      BY <1>4 DEF y
    <2>2. Replaces(y, x, Seqs!Front(y), Seqs!Front(y) \o <<x>>)
      BY <2>1, Replaced
    <2>3. front = Seqs!Front(y) /\ rounds = Seqs!Front(y) \o <<x>>
      BY DEF front, rounds, y
    <2> QED
      BY <2>1, <2>2, <2>3 DEF Replaces, y
  <1>7. \A k \in 1..d.rounds : k = d.rounds \/ k \in 1..(d.rounds - 1)
    BY <1>1
  <1>8. \A k \in 1..(d.rounds - 1) : k \in 1..d.rounds
    BY <1>1
  <1>9. Played(d, front)
    BY <1>4, <1>6, <1>8 DEF Played
  <1>10. Drawn(d, x) /\ ValidSwissResults(x.pairings, x.results)
    BY <1>3, <1>4, <1>5 DEF Drawn
  <1>11. Played(d, rounds)
    BY <1>4, <1>5, <1>6, <1>9, <1>10, PlayedOn
  <1>12. AllDiffer(d, rounds)
    <2>1. \A k \in DOMAIN r.completed : rounds[k].pairings = r.completed[k].pairings /\ rounds[k].bye = r.completed[k].bye
      BY <1>4, <1>5, <1>6, <1>7
    <2>2. AllDiffer(d, r.completed) /\ DOMAIN rounds = DOMAIN r.completed
      BY <1>4, <1>6
    <2> QED
      BY <2>1, <2>2, AllDifferAlike
  <1>13. c.kind \in ExecutionKinds(d) /\ s.phase \in {"RUNNING", "COMPLETE"} /\ standings = RebuildSwissStandings(d, rounds)
         /\ s.runtime.round = d.rounds
    BY <1>1, <1>4 DEF ExecutionKinds, standings, r
  <1> QED
    BY <1>3, <1>4, <1>6, <1>11, <1>12, <1>13, FinishedIs

LEMMA SwissVoided ==
  ASSUME NEW d, Swiss(d), NEW s, StageInv(d, s), NEW c, NEW e, NEW t, Step(d, s, c, e, t),
         c.kind = "VOID_SWISS_ROUND", e = VoidSwiss(d, s, c)
  PROVE  SwissGoal(d, s, c, t)
  <1> DEFINE r == s.runtime
             latest == Seqs!Last(r.completed)
             x == [results |-> <<>>, bye |-> latest.bye, pairings |-> latest.pairings]
             front == Seqs!Front(r.completed)
             rounds == front \o <<x>>
             standings == RebuildSwissStandings(d, front)
             u == [r EXCEPT !.round = c.round, !.standings = standings, !.pairings = latest.pairings, !.bye = latest.bye,
                            !.completed = front, !.final = <<>>]
  <1>1. /\ IsSequence(s.events) /\ Distinct(s.requests) /\ d.rounds \in Nat \ {0} /\ IsRuntime(r) /\ d.kind = "SWISS"
    BY SwissFacts DEF Swiss
  <1>2. t.phase = e.phase /\ t.requests = e.requests /\ ~e.refused /\ t.runtime = e.runtime /\ t.events = Append(s.events, c)
    BY DEF Step
  <1>3. e = IF ~Supersedes(s, c) THEN NoEffect ELSE Effect("RUNNING", u, s.requests)
    BY DEF VoidSwiss
  <1> HIDE DEF r, latest, front, standings
  <1>4. /\ IsRuntime(u) /\ u.round = c.round /\ u.standings = standings /\ u.pairings = latest.pairings /\ u.bye = latest.bye
        /\ u.completed = front
    BY <1>1 DEF IsRuntime
  <1>5. x.pairings = latest.pairings /\ x.bye = latest.bye
    OBVIOUS
  <1>6. WithOpen(u) = Append(front, x)
    BY <1>4 DEF WithOpen
  <1> HIDE DEF u, x, rounds
  <1>7. Supersedes(s, c) /\ e = Effect("RUNNING", u, s.requests)
    BY <1>2, <1>3, EffectRefuses
  <1>8. t.phase = "RUNNING" /\ t.runtime = u /\ t.requests = s.requests
    BY <1>2, <1>7 DEF Effect
  <1>9. /\ s.phase = "COMPLETE" /\ IsSequence(r.completed) /\ r.completed # <<>> /\ c.round = d.rounds
        /\ Len(r.completed) = d.rounds /\ AllDiffer(d, r.completed)
        /\ DOMAIN r.completed = 1..d.rounds
        /\ latest = r.completed[d.rounds] /\ Drawn(d, latest)
        /\ d.entrants # {} /\ Numbered(d, s.requests, d.rounds) /\ Played(d, r.completed)
    BY <1>7, Superseded DEF latest, r
  <1>10. /\ IsSequence(front) /\ Len(front) = d.rounds - 1 /\ DOMAIN front = 1..(d.rounds - 1)
         /\ \A k \in 1..(d.rounds - 1) : front[k] = r.completed[k]
         /\ DOMAIN rounds = 1..d.rounds
         /\ rounds[d.rounds] = x /\ \A k \in 1..(d.rounds - 1) : rounds[k] = r.completed[k]
         /\ rounds = Append(front, x)
    <2> DEFINE y == r.completed
    <2> HIDE DEF y
    <2>1. IsSequence(y) /\ y # <<>> /\ Len(y) = d.rounds
      BY <1>9 DEF y
    <2>2. Replaces(y, x, Seqs!Front(y), Seqs!Front(y) \o <<x>>)
      BY <2>1, Replaced
    <2>3. front = Seqs!Front(y) /\ rounds = Seqs!Front(y) \o <<x>>
      BY DEF front, rounds, y
    <2> QED
      BY <2>1, <2>2, <2>3 DEF Replaces, y
  <1>11. \A k \in 1..d.rounds : k = d.rounds \/ k \in 1..(d.rounds - 1)
    BY <1>1
  <1>12. \A k \in 1..(d.rounds - 1) : k \in 1..d.rounds
    BY <1>1
  <1>13. Played(d, front)
    BY <1>9, <1>10, <1>12 DEF Played
  <1>14. AllDiffer(d, WithOpen(u))
    <2>1. \A k \in DOMAIN r.completed : rounds[k].pairings = r.completed[k].pairings /\ rounds[k].bye = r.completed[k].bye
      BY <1>5, <1>9, <1>10, <1>11
    <2>2. AllDiffer(d, r.completed) /\ DOMAIN rounds = DOMAIN r.completed
      BY <1>9, <1>10
    <2>3. AllDiffer(d, rounds)
      BY <2>1, <2>2, AllDifferAlike
    <2> QED
      BY <1>6, <1>10, <2>3
  <1>15. VoidedIn(t.events)
    BY <1>1, <1>2, VoidedOn
  <1>16. Drawn(d, u)
    BY <1>4, <1>9 DEF Drawn
  <1>17. OpenInv(d, t)
    BY <1>4, <1>8, <1>9, <1>10, <1>14, <1>15, <1>16 DEF OpenInv, standings
  <1>18. SwissInv(d, t)
    <2>1. u.round \in 1..d.rounds /\ Numbered(d, t.requests, u.round)
      BY <1>1, <1>4, <1>8, <1>9
    <2> QED
      BY <1>4, <1>8, <1>9, <1>13, <1>17, <2>1 DEF SwissInv, IsRuntime
  <1>19. Sizes(d, t) /\ ~Done(d, t)
    <2>1. Len(t.runtime.completed) <= d.rounds /\ Len(t.runtime.completed) # d.rounds
      BY <1>1, <1>4, <1>8, <1>10
    <2> QED
      BY <1>1, <2>1 DEF Sizes, Done
  <1>20. c.kind \in ExecutionKinds(d)
    BY <1>1 DEF ExecutionKinds
  <1> QED
    BY <1>1, <1>8, <1>9, <1>18, <1>19, <1>20 DEF SwissGoal, Follows

LEMMA SwissStep ==
  ASSUME NEW d, Swiss(d), NEW s, StageInv(d, s), NEW c, NEW e, NEW t, Step(d, s, c, e, t)
  PROVE  StageInv(d, t)
  <1>1. Defined(d) /\ d.kind = "SWISS" /\ IsSequence(s.events) /\ VerifyDynamicStage(d, s) /\ t.events = Append(s.events, c)
    BY DEF StageInv, Step, Swiss
  <1>2. Begins(d, s, c, e) \/ (c.kind \in ExecutionKinds(d) /\ Executes(d, s, c, e))
    BY <1>1, EffectCases DEF Step
  <1>3. SwissGoal(d, s, c, t)
    <2>1. CASE Begins(d, s, c, e)
      BY <2>1, SwissBegins
    <2>2. CASE c.kind \in ExecutionKinds(d) /\ Executes(d, s, c, e)
      <3>1. \/ c.kind = "SUBMIT_SWISS_ROUND" /\ e = SubmitSwiss(d, s, c)
            \/ c.kind = "CORRECT_SWISS_ROUND" /\ e = CorrectSwiss(d, s, c)
            \/ c.kind = "VOID_SWISS_ROUND" /\ e = VoidSwiss(d, s, c)
        BY <1>1, <2>2 DEF Executes
      <3> QED
        BY <3>1, SwissSubmitted, SwissCorrected, SwissVoided
    <2> QED
      BY <1>2, <2>1, <2>2
  <1>4. IsSequence(t.events) /\ VerifyDynamicStage(d, t)
    BY <1>1, <1>3, VerifiedAfter DEF SwissGoal
  <1> QED
    BY <1>1, <1>3, <1>4 DEF StageInv, SwissGoal
----------------------------------------------------------------------------
(* No command leads a stage out of what holds of it, and a stage is stored *)
(* as such.                                                                *)
LEMMA StageStarts ==
  ASSUME NEW d, Defined(d)
  PROVE  StageInv(d, DefineDynamicStage(d))
  <1> DEFINE s == DefineDynamicStage(d)
             r == InitialRuntime(d)
  <1>1. s.phase = "DEFINITION" /\ s.events = <<>> /\ s.runtime = r /\ s.requests = <<>>
    BY DEF DefineDynamicStage
  <1> HIDE DEF s, r
  <1>2. IsSequence(s.events) /\ Len(s.events) = 0
    <2>1. <<>> \in Seq({1})
      OBVIOUS
    <2> QED
      BY <1>1, <2>1 DEF IsSequence
  <1>3. d.kind = "SWISS" => r = [round |-> 0, standings |-> EmptyStandings(d), pairings |-> <<>>, bye |-> None,
                                 completed |-> <<>>, final |-> <<>>]
    BY DEF InitialRuntime, r
  <1>4. d.kind = "HEATS" => r = [recorded |-> <<>>, qualified |-> {}, certified |-> FALSE]
    BY DEF InitialRuntime, r
  <1>5. d.kind = "RANKING" => r = [scores |-> <<>>, qualified |-> {}, certified |-> FALSE]
    BY DEF InitialRuntime, r
  <1>6. d.kind = "SWISS" => r.completed = <<>> /\ r.standings = EmptyStandings(d) /\ IsRuntime(r) /\ d.rounds \in Nat
    BY <1>3 DEF Defined, IsRuntime
  <1>7. d.kind = "HEATS" => r.recorded = <<>> /\ r.qualified = {} /\ ~r.certified
    BY <1>4
  <1>8. d.kind = "RANKING" => r.qualified = {} /\ ~r.certified
    BY <1>5
  <1>9. VerifyDynamicStage(d, s)
    <2>1. Sizes(d, s) /\ Distinct(s.requests)
      BY <1>1, <1>6, <1>7 DEF Sizes, Distinct
    <2>2. s.phase = PhaseOf(d, s) /\ Ordered(d, s.events)
      BY <1>1, <1>2 DEF PhaseOf, Ordered
    <2> QED
      BY <1>2, <2>1, <2>2, VerifyIs
  <1>10. d.kind = "SWISS" => SwissInv(d, s)
    <2>1. d.kind = "SWISS" => Played(d, <<>>)
      BY RebuildEmpty DEF Swiss
    <2> QED
      BY <1>1, <1>6, <2>1 DEF SwissInv, IsRuntime
  <1>11. d.kind = "HEATS" => HeatInv(d, s)
    <2>1. <<>> \in [{} -> Int] /\ DOMAIN <<>> = {}
      <3>1. <<>> \in [1..0 -> Int]
        OBVIOUS
      <3> QED
        BY <3>1
    <2>2. d.kind = "HEATS" => r.recorded \in [DOMAIN r.recorded -> Int]
      BY <1>7, <2>1
    <2> QED
      BY <1>1, <1>7, <2>2 DEF HeatInv
  <1>12. d.kind = "RANKING" => RankingInv(d, s)
    BY <1>1, <1>2, <1>8 DEF RankingInv
  <1> QED
    BY <1>1, <1>2, <1>9, <1>10, <1>11, <1>12 DEF StageInv, s

LEMMA TransitionKeeps ==
  ASSUME NEW d, Defined(d), NEW s, StageInv(d, s), NEW c, Valued(c)
  PROVE  StageInv(d, TransitionDynamicStage(d, s, c).state)
  <1> DEFINE a == TransitionDynamicStage(d, s, c)
             t == a.state
             e == EffectOf(d, s, c)
  <1>1. Verdict(d, s, c, a)
    BY Answers
  <1> HIDE DEF a
  <1>2. CASE a.status # "APPLIED"
    BY <1>1, <1>2 DEF Verdict, a
  <1>3. CASE a.status = "APPLIED"
    <2>1. ~e.refused /\ t = [phase |-> e.phase, events |-> Append(s.events, c), runtime |-> e.runtime, requests |-> e.requests]
      BY <1>1, <1>3 DEF Verdict
    <2> HIDE DEF t
    <2>2. Step(d, s, c, e, t)
      BY <2>1 DEF Step
    <2> HIDE DEF e
    <2>3. StageInv(d, t)
      <3>1. d.kind \in {"SWISS", "HEATS", "LADDER", "RANKING"}
        BY DEF Defined
      <3> QED
        BY <2>2, <3>1, SwissStep, HeatsStep, LadderStep, RankingStep DEF Swiss
    <2> QED
      BY <2>3 DEF t, a
  <1> QED
    BY <1>2, <1>3

LEMMA CommandIsValued ==
  ASSUME NEW r, WellFormed(r), NEW c, Stands(c, r)
  PROVE  Valued(c)
  <1>1. c.kind = r.kind /\ (r.kind # "RECORD_LADDER_CHALLENGE" => c = r) /\ IsRequest(r)
    BY DEF Stands, WellFormed
  <1> QED
    BY <1>1 DEF Valued, IsRequest

StoreInv == RequestInv /\ Defined(def) /\ StageInv(def, stage)

LEMMA StoreInit == Init => StoreInv
  <1> SUFFICES ASSUME Init PROVE StoreInv
    OBVIOUS
  <1>1. def \in Definitions /\ stage = DefineDynamicStage(def)
    BY DEF Init
  <1>2. Defined(def)
    BY <1>1, DefinitionsAssumption DEF Defined
  <1> QED
    BY <1>1, <1>2, RequestInit, StageStarts DEF StoreInv

LEMMA StoreNext == StoreInv /\ [Next]_vars => StoreInv'
  <1> SUFFICES ASSUME StoreInv, [Next]_vars PROVE StoreInv'
    OBVIOUS
  <1>1. RequestInv'
    BY RequestNext DEF StoreInv
  <1>2. def' = def
    BY DEF Next, vars, Request, Retry, Orchestrate, RepositoryLoad, AppendEvent, Crash
  <1>3. stage' = stage \/ \E p \in Processes : op[p].pc = "decided" /\ stage' = TransitionDynamicStage(def, stage, op[p].command).state
    <2>1. CASE UNCHANGED vars
      BY <2>1 DEF vars
    <2>2. CASE \E p \in Processes : Request(p) \/ Retry(p) \/ RepositoryLoad(p) \/ Crash(p)
      BY <2>2 DEF Request, Retry, Orchestrate, RepositoryLoad, Crash
    <2>3. ASSUME NEW p \in Processes, AppendEvent(p)
          PROVE  op[p].pc = "decided" /\ (stage' = stage \/ stage' = TransitionDynamicStage(def, stage, op[p].command).state)
      <3> DEFINE known == {k \in DOMAIN stream : stream[k].key = op[p].command.key}
      <3>1. CASE known # {}
        BY <2>3, <3>1 DEF AppendEvent
      <3>2. CASE known = {} /\ Len(stream) # op[p].command.expected
        BY <2>3, <3>2 DEF AppendEvent
      <3>3. CASE known = {} /\ Len(stream) = op[p].command.expected
        BY <2>3, <3>3 DEF AppendEvent
      <3> QED
        BY <3>1, <3>2, <3>3
    <2> QED
      BY <2>1, <2>2, <2>3 DEF Next
  <1>4. \A p \in Processes : op[p].pc = "decided" => Valued(op[p].command)
    <2> SUFFICES ASSUME NEW p \in Processes, op[p].pc = "decided" PROVE Valued(op[p].command)
      OBVIOUS
    <2>1. Serves(def, stage, op[p]) /\ op[p] # Idle
      BY IdleServes DEF StoreInv, RequestInv
    <2>2. WellFormed(op[p].request) /\ Stands(op[p].command, op[p].request)
      BY <2>1 DEF Serves
    <2> QED
      BY <2>2, CommandIsValued
  <1>5. StageInv(def, stage')
    BY <1>3, <1>4, TransitionKeeps DEF StoreInv
  <1> QED
    BY <1>1, <1>2, <1>5 DEF StoreInv

----------------------------------------------------------------------------
(* What is stored replays to itself and is accepted by the verifier, and   *)
(* so is what a decided command leads to, whoever runs beside it.          *)
THEOREM StoredStageUsable == Spec => []StoredStageIsUsable
  <1>1. StoreInv => StoredStageIsUsable
    <2> SUFFICES ASSUME StoreInv PROVE StoredStageIsUsable
      OBVIOUS
    <2>1. stage.events = stream /\ VerifyDynamicStage(def, stage)
      BY DEF StoreInv, RequestInv, Stored, StageInv
    <2>2. ASSUME NEW p \in Processes, op[p].pc = "decided"
          PROVE  VerifyDynamicStage(def, TransitionDynamicStage(def, stage, op[p].command).state)
      <3>1. Serves(def, stage, op[p]) /\ op[p] # Idle
        BY <2>2, IdleServes DEF StoreInv, RequestInv
      <3>2. Valued(op[p].command)
        BY <2>2, <3>1, CommandIsValued DEF Serves
      <3>3. StageInv(def, TransitionDynamicStage(def, stage, op[p].command).state)
        BY <3>2, TransitionKeeps DEF StoreInv
      <3> QED
        BY <3>3 DEF StageInv
    <2> QED
      BY <2>1, <2>2 DEF StoredStageIsUsable
  <1> QED
    BY <1>1, StoreInit, StoreNext, PTL DEF Spec

(* Nobody left out of a certified heat or ranking stage was better than    *)
(* somebody who qualified, through every correction and void.              *)
THEOREM QualifiersUnbeaten == Spec => []QualifiersAreUnbeaten
  <1>1. StoreInv => QualifiersAreUnbeaten
    <2> SUFFICES ASSUME StoreInv, def.kind \in {"HEATS", "RANKING"} PROVE QualifiersAreUnbeaten
      BY DEF QualifiersAreUnbeaten
    <2> DEFINE r == stage.runtime
               q == r.qualified
    <2>1. CASE def.kind = "HEATS"
      <3>1. HeatInv(def, stage)
        BY <2>1 DEF StoreInv, StageInv
      <3> DEFINE timed == TimedResults(r.recorded)
      <3>2. DOMAIN timed = F!Timed(r.recorded) /\ \A i \in F!Timed(r.recorded) : timed[i] = r.recorded[i]
        BY DEF TimedResults
      <3>3. /\ stage.phase = "COMPLETE" <=> r.certified
            /\ r.certified => DOMAIN r.recorded = ActiveEntrants(def) /\ Unbeaten(q, timed, def.places, "LOWER")
            /\ ~r.certified => q = {}
        BY <3>1 DEF HeatInv
      <3>4. Score = r.recorded /\ \A x, y : BetterScore(x, y) <=> F!Ahead("LOWER", x, y)
        BY <2>1 DEF Score, BetterScore, F!Ahead
      <3> HIDE DEF r, q, timed
      <3> QED
        BY <2>1, <3>2, <3>3, <3>4 DEF QualifiersAreUnbeaten, Unbeaten, r, q
    <2>2. CASE def.kind = "RANKING"
      <3>1. RankingInv(def, stage)
        BY <2>2 DEF StoreInv, StageInv
      <3>2. /\ stage.phase = "COMPLETE" <=> r.certified
            /\ r.certified => DOMAIN r.scores = def.entrants /\ Unbeaten(q, r.scores, def.places, def.better)
            /\ ~r.certified => q = {}
        BY <3>1 DEF RankingInv
      <3>3. Score = r.scores /\ \A x, y : BetterScore(x, y) <=> F!Ahead(def.better, x, y)
        BY <2>2 DEF Score, BetterScore, F!Ahead
      <3> HIDE DEF r, q
      <3> QED
        BY <2>2, <3>2, <3>3 DEF QualifiersAreUnbeaten, Unbeaten, r, q
    <2> QED
      BY <2>1, <2>2
  <1> QED
    BY <1>1, StoreInit, StoreNext, PTL DEF Spec

(* The rounds the property speaks of, beside those of the stage.           *)
Alike(rounds) ==
  /\ DOMAIN Rounds = DOMAIN rounds
  /\ \A k \in DOMAIN rounds : Rounds[k].pairings = rounds[k].pairings /\ Rounds[k].bye = rounds[k].bye

LEMMA RoundsAre ==
  ASSUME StoreInv, def.kind = "SWISS", stage.phase # "DEFINITION"
  PROVE  \E rounds : Alike(rounds) /\ AllDiffer(def, rounds) /\ \A k \in DOMAIN rounds : Drawn(def, rounds[k])
  <1> DEFINE r == stage.runtime
             completed == r.completed
             open == [bye |-> r.bye, pairings |-> r.pairings]
             x == [results |-> <<>>, bye |-> r.bye, pairings |-> r.pairings]
             done == [k \in DOMAIN completed |-> [bye |-> completed[k].bye, pairings |-> completed[k].pairings]]
             n == Len(completed)
  <1>1. SwissInv(def, stage) /\ stage.phase \in {"READY", "RUNNING", "COMPLETE"}
    BY PhaseIs DEF StoreInv, StageInv
  <1>2. Rounds = IF stage.phase = "COMPLETE" THEN done ELSE Append(done, open)
    BY DEF Rounds
  <1>3. Played(def, completed) /\ IsSequence(completed) /\ n \in Nat /\ DOMAIN completed = 1..n
    BY <1>1, SequenceFacts DEF SwissInv, Played
  <1>4. DOMAIN done = DOMAIN completed /\ \A k \in DOMAIN completed : done[k].pairings = completed[k].pairings /\ done[k].bye = completed[k].bye
    OBVIOUS
  <1>5. open.bye = r.bye /\ open.pairings = r.pairings /\ x.bye = r.bye /\ x.pairings = r.pairings
    OBVIOUS
  <1>6. IsSequence(done) /\ Len(done) = n
    <2> DEFINE S == {done[k] : k \in 1..n}
    <2>1. done \in [1..n -> S]
      BY <1>3
    <2> HIDE DEF S, done, n
    <2>2. done \in Seq(S) /\ Len(done) = n
      BY <1>3, <2>1, LengthOf
    <2> QED
      BY <2>2 DEF IsSequence
  <1> HIDE DEF open, x, done
  <1>7. CASE stage.phase = "COMPLETE"
    <2>1. AllDiffer(def, completed) /\ Alike(completed)
      BY <1>1, <1>2, <1>4, <1>7 DEF SwissInv, DoneInv, Alike
    <2> QED
      BY <1>3, <2>1 DEF Played
  <1>8. CASE stage.phase # "COMPLETE"
    <2> DEFINE rounds == Append(completed, x)
               shown == Append(done, open)
    <2>1. Drawn(def, r) /\ AllDiffer(def, rounds) /\ Rounds = shown
      BY <1>1, <1>2, <1>8 DEF SwissInv, OpenInv, WithOpen, x
    <2>2. Drawn(def, x)
      BY <1>5, <2>1 DEF Drawn
    <2>3. DOMAIN rounds = 1..(n + 1) /\ rounds[n + 1] = x /\ \A k \in 1..n : rounds[k] = completed[k]
      BY <1>3, Appended
    <2>4. DOMAIN shown = 1..(n + 1) /\ shown[n + 1] = open /\ \A k \in 1..n : shown[k] = done[k]
      BY <1>6, Appended
    <2> HIDE DEF rounds, shown, n, completed, r
    <2>5. \A k \in 1..(n + 1) : k = n + 1 \/ k \in 1..n
      BY <1>3
    <2>6. Alike(rounds)
      BY <1>3, <1>4, <1>5, <2>1, <2>3, <2>4, <2>5 DEF Alike
    <2>7. \A k \in DOMAIN rounds : Drawn(def, rounds[k])
      BY <1>3, <2>2, <2>3, <2>5 DEF Played
    <2> QED
      BY <2>1, <2>6, <2>7
  <1> QED
    BY <1>7, <1>8

(* In a Swiss stage nobody meets an opponent or sits out twice where the   *)
(* policy forbids it, and the final standings are those of its rounds      *)
(* unless a round with a bye was voided.                                   *)
THEOREM SwissSums == Spec => []SwissAddsUp
  <1>1. StoreInv => NobodyMeetsTwice
    <2> SUFFICES ASSUME StoreInv, def.kind = "SWISS", stage.phase # "DEFINITION" PROVE NobodyMeetsTwice
      BY DEF NobodyMeetsTwice
    <2>1. PICK rounds : Alike(rounds) /\ AllDiffer(def, rounds) /\ \A k \in DOMAIN rounds : Drawn(def, rounds[k])
      BY RoundsAre
    <2>2. \A k, l \in DOMAIN rounds : k # l => Differ(def, rounds[k], rounds[l])
      BY <2>1 DEF AllDiffer
    <2>3. \A k \in DOMAIN rounds : \A b : Met(k, b) = Board(rounds[k].pairings, b)
      BY <2>1 DEF Met, Alike, Board
    <2>4. ASSUME def.pairing.rematches = "FORBIDDEN", NEW k \in DOMAIN rounds, NEW l \in DOMAIN rounds,
                 NEW b \in DOMAIN rounds[k].pairings, NEW c \in DOMAIN rounds[l].pairings, Met(k, b) = Met(l, c)
          PROVE  k = l /\ b = c
      <3>1. Board(rounds[k].pairings, b) = Board(rounds[l].pairings, c)
        BY <2>3, <2>4
      <3>2. k = l
        BY <2>2, <2>4, <3>1 DEF Differ, Strangers
      <3>3. Boards(def, rounds[k].pairings)
        BY <2>1 DEF Drawn
      <3>4. b # c => Board(rounds[k].pairings, b) \cap Board(rounds[k].pairings, c) = {}
        BY <3>2, <3>3, BoardIs
      <3>5. Board(rounds[k].pairings, b) # {}
        BY DEF Board
      <3> QED
        BY <3>1, <3>2, <3>4, <3>5
    <2>5. ASSUME def.pairing.bye = "LOWEST_RANKED_WITHOUT_BYE", NEW k \in DOMAIN rounds, NEW l \in DOMAIN rounds,
                 Rounds[k].bye # None, Rounds[k].bye = Rounds[l].bye
          PROVE  k = l
      BY <2>1, <2>2, <2>5 DEF Differ, Alike
    <2>6. \A k \in DOMAIN rounds : Rounds[k].pairings = rounds[k].pairings
      BY <2>1 DEF Alike
    <2>7. DOMAIN Rounds = DOMAIN rounds
      BY <2>1 DEF Alike
    <2> QED
      BY <2>4, <2>5, <2>6, <2>7 DEF NobodyMeetsTwice
  <1>2. StoreInv => UnvoidedStandingsMatchRounds
    <2> SUFFICES ASSUME StoreInv, def.kind = "SWISS", stage.phase = "COMPLETE", Voided => \A k \in DOMAIN Rounds : Rounds[k].bye = None
                 PROVE  stage.runtime.standings = RebuildSwissStandings(def, stage.runtime.completed)
      BY DEF UnvoidedStandingsMatchRounds, FinalStandingsMatchRounds
    <2>1. DoneInv(def, stage) /\ stage.events = stream
      BY DEF StoreInv, StageInv, SwissInv, RequestInv, Stored
    <2>2. VoidedIn(stage.events) => Voided
      BY <2>1 DEF VoidedIn, Voided
    <2>3. (\A k \in DOMAIN Rounds : Rounds[k].bye = None) => Byeless(stage.runtime.completed)
      <3> DEFINE completed == stage.runtime.completed
      <3>1. Rounds = [k \in DOMAIN completed |-> [bye |-> completed[k].bye, pairings |-> completed[k].pairings]]
        BY DEF Rounds
      <3> HIDE DEF completed
      <3>2. DOMAIN Rounds = DOMAIN completed /\ \A k \in DOMAIN completed : Rounds[k].bye = completed[k].bye
        BY <3>1
      <3> QED
        BY <3>2 DEF Byeless, completed
    <2> QED
      BY <2>1, <2>2, <2>3 DEF DoneInv
  <1>3. StoreInv => SwissAddsUp
    BY <1>1, <1>2 DEF SwissAddsUp
  <1> QED
    BY <1>3, StoreInit, StoreNext, PTL DEF Spec
=============================================================================
