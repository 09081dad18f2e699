--------------------- MODULE CompetitionJourney_proofs ---------------------
(* What the competition journey keeps through edits, compilations that     *)
(* overlap them, play, repairs, failed writes, stops and restarts.  The    *)
(* invariant says of the record in memory and of the stored one alike that *)
(* it is lawful and accounts for the credentials given out, and that       *)
(* memory holds all that the store holds: a failed write leaves the store  *)
(* behind, the next one writes memory whole.  Every operation on a record  *)
(* has a lemma that it keeps the record lawful and takes nothing away;     *)
(* every action then follows from what storing a record does.              *)
(* A second invariant adds what a load looks at again: that the log on     *)
(* record is the replay of its commands, that repairs, reviews and         *)
(* closures rest on it, and that results kept aside are of published play. *)
EXTENDS CompetitionJourney, SequenceTheorems, FiniteSetTheorems, TLAPS

(* A publication was approved and ended the amendment it came from; what   *)
(* is played was published; closures and credentials are of what is played.*)
Settled(r) ==
  /\ r.publication # None => r.approval # None /\ r.amendment = None
  /\ r.live # None => r.publication # None
  /\ r.closure # None => r.live # None
  /\ r.credentials # None => r.live # None

(* A plan that is not published yet is that of the draft.                  *)
Current(r) == r.compiled # None /\ r.publication = None => r.compiled.content = Content(r)

(* The clearances that count were given after every stop, and play that    *)
(* goes on was cleared after every stop.                                   *)
ClearedSince(events, stop, what) ==
  \E k \in DOMAIN events : stop < k /\ events[k].kind = "RECORD_RESTART_CLEARANCE" /\ events[k].what = what
Ledger(s) ==
  /\ \A stop \in DOMAIN s.events : Target(s.events, stop) = "STOPPED" =>
       /\ \A what \in s.cleared : ClearedSince(s.events, stop, what)
       /\ s.mode \in {"NORMAL", "DEGRADED", "PAUSED"} =>
            \A what \in {"SAFETY", "COMPETITION"} : ClearedSince(s.events, stop, what)
  /\ RestartsAreCleared(s.events)

Lawful(r) ==
  /\ r \in Records
  /\ Settled(r)
  /\ Current(r)
  /\ r.live # None => Ledger(r.live.ops)

(* What a record holds is still there in the other.                        *)
Grows(old, new) ==
  /\ Extends(PublishedSoFar(old), PublishedSoFar(new))
  /\ old.live # None =>
       /\ new.live # None /\ Extends(old.live.log, new.live.log)
       /\ Extends(old.live.publications, new.live.publications)
       /\ Extends(old.live.ops.events, new.live.ops.events)
  /\ old.closure # None => new.closure = old.closure

(* Credentials are of commands given so far, and a command's answer is     *)
(* held.                                                                   *)
Grants(a) == a.tokens \union a.codes
Holds(a, claims) == \E g \in Grants(a) : g.claims = claims
Accounted(a) ==
  /\ \A g \in Grants(a) : g.claims.by \in Commands => g.claims.by[2] <= Len(a.events)
  /\ \A k \in DOMAIN a.events : a.events[k].result # Absent => Holds(a, a.events[k].result)

(* What was handed out is held, and revoked with all of its participant's. *)
Shut(a, h) ==
  \A k \in DOMAIN a.events :
    (k > h.after /\ a.events[k].kind \in {"ROTATED", "REVOKED"} /\ a.events[k].p = h.credential.p) =>
      \A g \in Grants(a) : g.claims = h.credential => g.revokedBy # Absent
Guarded(r, out) ==
  /\ r.credentials = None => out = {}
  /\ r.credentials # None =>
       /\ Accounted(r.credentials)
       /\ \A h \in out : Holds(r.credentials, h.credential) /\ Shut(r.credentials, h)

JourneyInv ==
  /\ Lawful(disk) /\ Guarded(disk, handed)
  /\ \A h \in handed : h.after \in Nat
  /\ memory # None => Lawful(memory) /\ Guarded(memory, handed) /\ Grows(disk, memory)

-----------------------------------------------------------------------------
(* Extension of sequences, element by element.                             *)
LEMMA ExtendsElements ==
  ASSUME NEW S, NEW s \in Seq(S), NEW t \in Seq(S)
  PROVE  Extends(s, t) <=> Len(s) <= Len(t) /\ \A i \in 1..Len(s) : t[i] = s[i]
  <1>1. Len(s) \in Nat /\ Len(t) \in Nat
    BY LenProperties
  <1>2. ASSUME Len(s) <= Len(t)
        PROVE  /\ SubSeq(t, 1, Len(s)) \in Seq(S) /\ Len(SubSeq(t, 1, Len(s))) = Len(s)
               /\ \A i \in 1..Len(s) : SubSeq(t, 1, Len(s))[i] = t[i]
    BY <1>1, <1>2, SubSeqProperties
  <1>3. ASSUME Len(s) <= Len(t), \A i \in 1..Len(s) : t[i] = s[i]
        PROVE  SubSeq(t, 1, Len(s)) = s
    BY <1>2, <1>3, SeqEqual, Zenon
  <1> QED
    BY <1>2, <1>3 DEF Extends

LEMMA ExtendsSelf ==
  ASSUME NEW S, NEW s \in Seq(S)
  PROVE  Extends(s, s)
  BY ExtendsElements, LenProperties

LEMMA ExtendsAppend ==
  ASSUME NEW S, NEW s \in Seq(S), NEW e \in S
  PROVE  Append(s, e) \in Seq(S) /\ Extends(s, Append(s, e))
  <1>1. /\ Append(s, e) \in Seq(S)
        /\ Len(Append(s, e)) = Len(s) + 1
        /\ \A i \in 1..Len(s) : Append(s, e)[i] = s[i]
    BY AppendProperties
  <1>2. Len(s) \in Nat
    BY LenProperties
  <1>3. Len(s) <= Len(Append(s, e)) /\ \A i \in 1..Len(s) : Append(s, e)[i] = s[i]
    BY <1>1, <1>2
  <1>4. Extends(s, Append(s, e))
    <2> DEFINE t == Append(s, e)
    <2> HIDE DEF t
    <2> QED
      BY <1>1, <1>3, ExtendsElements DEF t
  <1> QED
    BY <1>1, <1>4

LEMMA ExtendsTransitive ==
  ASSUME NEW S, NEW s \in Seq(S), NEW t \in Seq(S), NEW u \in Seq(S), Extends(s, t), Extends(t, u)
  PROVE  Extends(s, u)
  <1>1. Len(s) \in Nat /\ Len(t) \in Nat /\ Len(u) \in Nat
    BY LenProperties
  <1>2. Len(s) <= Len(t) /\ \A i \in 1..Len(s) : t[i] = s[i]
    BY ExtendsElements
  <1>3. Len(t) <= Len(u) /\ \A i \in 1..Len(t) : u[i] = t[i]
    BY ExtendsElements
  <1>4. Len(s) <= Len(u) /\ \A i \in 1..Len(s) : u[i] = s[i]
    BY <1>1, <1>2, <1>3
  <1> QED
    BY <1>4, ExtendsElements

(* Of some places there is a last: the one with the fewest places after it *)
LEMMA LatestPlace ==
  ASSUME NEW n \in Nat, NEW at \in SUBSET (1..n), at # {}
  PROVE  \E i \in at : \A j \in at : j <= i
  <1> DEFINE After(i) == (i + 1)..n
             Rests == {After(i) : i \in at}
             R == StrictSubsetOrdering(Nat)
  <1>1. ASSUME NEW i \in at
        PROVE  i \in 1..n /\ After(i) \in FiniteSubsetsOf(Nat)
    <2>1. i \in 1..n /\ i + 1 \in Int /\ n \in Int
      OBVIOUS
    <2>2. IsFiniteSet(After(i)) /\ After(i) \subseteq Nat
      BY <2>1, FS_Interval
    <2> QED
      BY <2>1, <2>2 DEF FiniteSubsetsOf
  <1>2. \E x \in Rests : \A y \in Rests : <<y, x>> \notin R
    <2>1. IsWellFoundedOn(R, FiniteSubsetsOf(Nat))
      BY FS_StrictSubsetOrderingWellFounded
    <2>2. Rests \subseteq FiniteSubsetsOf(Nat) /\ Rests # {}
      BY <1>1
    <2> HIDE DEF Rests, R
    <2> QED
      BY <2>1, <2>2, WFMin
  <1>3. PICK i \in at : \A j \in at : <<After(j), After(i)>> \notin R
    BY <1>2
  <1>4. ASSUME NEW j \in at, i < j
        PROVE  FALSE
    <2>1. i \in 1..n /\ j \in 1..n /\ After(i) \subseteq Nat
      BY <1>1 DEF FiniteSubsetsOf
    <2>2. After(j) \subseteq After(i) /\ j \in After(i) /\ j \notin After(j)
      BY <1>4, <2>1
    <2>3. After(j) \subseteq Nat /\ After(j) # After(i)
      BY <2>1, <2>2
    <2>4. <<After(j), After(i)>> \in R
      BY <2>1, <2>2, <2>3 DEF StrictSubsetOrdering
    <2> QED
      BY <1>3, <2>4
  <1>5. \A j \in at : i \in Nat /\ j \in Nat
    BY <1>1
  <1> QED
    BY <1>4, <1>5

LEMMA LastOfPlaces ==
  ASSUME NEW S, NEW log \in Seq(S), NEW at \in SUBSET DOMAIN log, at # {}
  PROVE  \E i \in at : LastOf(log, at) = log[i]
  <1>1. DOMAIN log = 1..Len(log) /\ Len(log) \in Nat
    BY LenProperties
  <1>2. \E i \in at : \A j \in at : j <= i
    BY <1>1, LatestPlace
  <1> DEFINE i == CHOOSE k \in at : \A j \in at : j <= k
  <1>3. i \in at
    BY <1>2
  <1>4. LastOf(log, at) = log[i]
    BY DEF LastOf
  <1> QED
    BY <1>3, <1>4

-----------------------------------------------------------------------------
(* What an organiser has not approved has nothing that a stored record     *)
(* would have to keep, but for the amendment it is made under.             *)
LEMMA EditKeeps ==
  ASSUME NEW r, Lawful(r), r.approval = None, NEW q \in Records,
         q.amendment = r.amendment, q.superseded = r.superseded,
         q.compiled = None, q.approval = None, q.publication = None,
         q.live = r.live, q.closure = r.closure, q.credentials = r.credentials
  PROVE  Lawful(q) /\ Grows(r, q) /\ r.credentials = None
  <1>1. r \in Records /\ r.publication = None /\ r.live = None /\ r.closure = None /\ r.credentials = None
    BY DEF Lawful, Settled
  <1>2. PublishedSoFar(q) = PublishedSoFar(r)
    BY <1>1 DEF PublishedSoFar
  <1>3. PublishedSoFar(r) \in Seq(Plans)
    <2>1. r.superseded \in Seq(Plans)
      BY <1>1 DEF Records
    <2>2. r.amendment # None => r.amendment.publication \in Plans
      BY <1>1 DEF Records, OrNone, Amendments
    <2>3. r.amendment # None => <<r.amendment.publication>> \in Seq(Plans)
      BY <2>2
    <2>4. \A s \in Seq(Plans) : r.superseded \o s \in Seq(Plans)
      BY <2>1, ConcatProperties
    <2>5. <<>> \in Seq(Plans)
      OBVIOUS
    <2> QED
      BY <1>1, <2>3, <2>4, <2>5 DEF PublishedSoFar
  <1>4. Extends(PublishedSoFar(r), PublishedSoFar(q))
    BY <1>2, <1>3, ExtendsSelf
  <1>5. Grows(r, q)
    BY <1>1, <1>4 DEF Grows
  <1>6. Lawful(q)
    BY <1>1 DEF Lawful, Settled, Current
  <1> QED
    BY <1>1, <1>5, <1>6

LEMMA RecordFields ==
  ASSUME NEW r \in Records
  PROVE  /\ r.version \in Nat /\ r.version + 1 \in Nat
         /\ r.facts \in Facts /\ r.placement \in OrNone(Placements) /\ r.rules \in OrNone(Groupings) /\ r.controls \in BOOLEAN
         /\ r.history \in [placed : OrNone(Placements), rules : OrNone(Groupings), controls : BOOLEAN]
         /\ r.compiled \in OrNone(Plans) /\ r.approval \in OrNone(Approvals) /\ r.publication \in OrNone(Plans)
         /\ r.amendment \in OrNone(Amendments) /\ r.superseded \in Seq(Plans)
         /\ r.live \in OrNone(LiveStates) /\ r.closure \in OrNone(Closures) /\ r.credentials \in OrNone(Credentials)
  BY DEF Records

LEMMA NoneIsNothing == ASSUME NEW S PROVE None \in OrNone(S) /\ S \subseteq OrNone(S)
  BY DEF OrNone

(* Types of the edits.                                                     *)
LEMMA EditTypes ==
  ASSUME NEW r \in Records
  PROVE  /\ \A f \in Facts : Revise(r, f) \in Records
         /\ \A f \in Facts : ReplaceSources(r, f) \in Records
         /\ \A g \in Groupings : Place(r, g) \in Records
         /\ DrawAutomatically(r) \in Records
         /\ \A g \in OrNone(Groupings) : SetRules(r, g) \in Records
         /\ \A c \in BOOLEAN : SetControls(r, c) \in Records
  <1> USE RecordFields, NoneIsNothing
  <1>1. ASSUME NEW f \in Facts
        PROVE  Revise(r, f) \in Records
    BY DEF Revise, NewRecord, Records
  <1>2. ASSUME NEW f \in Facts
        PROVE  ReplaceSources(r, f) \in Records
    BY DEF ReplaceSources, Edited, Records
  <1>3. ASSUME NEW g \in Groupings
        PROVE  Place(r, g) \in Records
    <2> DEFINE p == [basis |-> r.facts.pools, grouping |-> g]
    <2>1. p \in OrNone(Placements)
      BY DEF Placements
    <2> HIDE DEF p
    <2>2. [Edited(r) EXCEPT !.placement = p, !.history.placed = p] \in Records
      BY <2>1 DEF Edited, Records
    <2> QED
      BY <2>2 DEF Place, p
  <1>4. DrawAutomatically(r) \in Records
    BY DEF DrawAutomatically, Edited, Records
  <1>5. ASSUME NEW g \in OrNone(Groupings)
        PROVE  SetRules(r, g) \in Records
    BY DEF SetRules, Edited, Records
  <1>6. ASSUME NEW c \in BOOLEAN
        PROVE  SetControls(r, c) \in Records
    BY DEF SetControls, Edited, Records
  <1> QED
    BY <1>1, <1>2, <1>3, <1>4, <1>5, <1>6

(* What an operation makes of a record that is no access of participants.  *)
Keeps(r, q) == Lawful(q) /\ Grows(r, q) /\ q.credentials = r.credentials

LEMMA EditSteps ==
  ASSUME NEW r, Lawful(r), r.approval = None
  PROVE  /\ \A f \in Facts : Keeps(r, Revise(r, f)) /\ Keeps(r, ReplaceSources(r, f))
         /\ \A g \in Groupings : Keeps(r, Place(r, g))
         /\ Keeps(r, DrawAutomatically(r))
         /\ \A g \in OrNone(Groupings) : Keeps(r, SetRules(r, g))
         /\ \A c \in BOOLEAN : Keeps(r, SetControls(r, c))
  <1>1. r \in Records /\ r.live = None /\ r.closure = None /\ r.credentials = None
    BY DEF Lawful, Settled
  <1> DEFINE Same(q) == /\ q.amendment = r.amendment /\ q.superseded = r.superseded
                        /\ q.compiled = None /\ q.approval = None /\ q.publication = None
                        /\ q.live = r.live /\ q.closure = r.closure /\ q.credentials = r.credentials
  <1>2. \A q \in Records : Same(q) => Keeps(r, q)
    BY EditKeeps DEF Keeps
  <1>3. ASSUME NEW f \in Facts
        PROVE  Same(Revise(r, f)) /\ Same(ReplaceSources(r, f))
    BY <1>1, RecordFields DEF Revise, ReplaceSources, NewRecord, Edited, Records
  <1>4. ASSUME NEW g \in Groupings
        PROVE  Same(Place(r, g))
    BY <1>1, RecordFields DEF Place, Edited, Records
  <1>5. Same(DrawAutomatically(r))
    BY <1>1, RecordFields DEF DrawAutomatically, Edited, Records
  <1>6. ASSUME NEW g \in OrNone(Groupings)
        PROVE  Same(SetRules(r, g))
    BY <1>1, RecordFields DEF SetRules, Edited, Records
  <1>7. ASSUME NEW c \in BOOLEAN
        PROVE  Same(SetControls(r, c))
    BY <1>1, RecordFields DEF SetControls, Edited, Records
  <1> HIDE DEF Same
  <1> QED
    BY <1>1, <1>2, <1>3, <1>4, <1>5, <1>6, <1>7, EditTypes

(* Publications so far, as a sequence of plans.                            *)
LEMMA PublishedIsSequence ==
  ASSUME NEW r \in Records
  PROVE  PublishedSoFar(r) \in Seq(Plans)
  <1>1. r.superseded \in Seq(Plans)
    BY DEF Records
  <1>2. r.amendment # None => r.amendment.publication \in Plans
    BY DEF Records, OrNone, Amendments
  <1>3. r.publication # None => r.publication \in Plans
    BY DEF Records, OrNone
  <1>4. \A p \in Plans : <<p>> \in Seq(Plans)
    OBVIOUS
  <1>5. <<>> \in Seq(Plans)
    OBVIOUS
  <1>6. \A s \in Seq(Plans) : r.superseded \o s \in Seq(Plans)
    BY <1>1, ConcatProperties
  <1> QED
    BY <1>2, <1>3, <1>4, <1>5, <1>6 DEF PublishedSoFar

LEMMA GrowsSelf ==
  ASSUME NEW r \in Records
  PROVE  Grows(r, r)
  <1>1. Extends(PublishedSoFar(r), PublishedSoFar(r))
    BY PublishedIsSequence, ExtendsSelf
  <1>2. ASSUME r.live # None
        PROVE  /\ Extends(r.live.log, r.live.log) /\ Extends(r.live.publications, r.live.publications)
               /\ Extends(r.live.ops.events, r.live.ops.events)
    <2>1. r.live \in LiveStates
      BY <1>2 DEF Records, OrNone
    <2>2. /\ r.live.log \in Seq(LogEvents) /\ r.live.publications \in Seq(LivePublications)
          /\ r.live.ops.events \in Seq(Safety)
      BY <2>1 DEF LiveStates, Operations
    <2> QED
      BY <2>2, ExtendsSelf
  <1> QED
    BY <1>1, <1>2 DEF Grows

LEMMA GrowsTransitive ==
  ASSUME NEW r \in Records, NEW q \in Records, NEW v \in Records, Grows(r, q), Grows(q, v)
  PROVE  Grows(r, v)
  <1>1. Extends(PublishedSoFar(r), PublishedSoFar(v))
    <2>1. /\ PublishedSoFar(r) \in Seq(Plans) /\ PublishedSoFar(q) \in Seq(Plans) /\ PublishedSoFar(v) \in Seq(Plans)
      BY PublishedIsSequence
    <2>2. Extends(PublishedSoFar(r), PublishedSoFar(q)) /\ Extends(PublishedSoFar(q), PublishedSoFar(v))
      BY DEF Grows
    <2> QED
      BY <2>1, <2>2, ExtendsTransitive
  <1>2. ASSUME r.live # None
        PROVE  /\ v.live # None
               /\ Extends(r.live.log, v.live.log) /\ Extends(r.live.publications, v.live.publications)
               /\ Extends(r.live.ops.events, v.live.ops.events)
    <2>1. q.live # None /\ v.live # None
      BY <1>2 DEF Grows
    <2>2. r.live \in LiveStates /\ q.live \in LiveStates /\ v.live \in LiveStates
      BY <1>2, <2>1 DEF Records, OrNone
    <2>3. \A l \in LiveStates : /\ l.log \in Seq(LogEvents) /\ l.publications \in Seq(LivePublications)
                                /\ l.ops.events \in Seq(Safety)
      BY DEF LiveStates, Operations
    <2>4. /\ Extends(r.live.log, q.live.log) /\ Extends(r.live.publications, q.live.publications)
          /\ Extends(r.live.ops.events, q.live.ops.events)
          /\ Extends(q.live.log, v.live.log) /\ Extends(q.live.publications, v.live.publications)
          /\ Extends(q.live.ops.events, v.live.ops.events)
      BY <1>2, <2>1 DEF Grows
    <2>5. Extends(r.live.log, v.live.log)
      BY <2>2, <2>3, <2>4, ExtendsTransitive
    <2>6. Extends(r.live.publications, v.live.publications)
      BY <2>2, <2>3, <2>4, ExtendsTransitive
    <2>7. Extends(r.live.ops.events, v.live.ops.events)
      BY <2>2, <2>3, <2>4, ExtendsTransitive
    <2> QED
      BY <2>1, <2>5, <2>6, <2>7
  <1>3. r.closure # None => v.closure = r.closure
    BY DEF Grows
  <1> QED
    BY <1>1, <1>2, <1>3 DEF Grows

LEMMA NextRevisionType ==
  ASSUME NEW r \in Records
  PROVE  NextRevision(r) \in Nat
  <1>1. r.compiled # None => r.compiled.revision \in Nat
    BY DEF Records, OrNone, Plans
  <1>2. r.amendment # None => r.amendment.publication \in Plans
    BY DEF Records, OrNone, Amendments
  <1>3. r.amendment # None => r.amendment.publication.revision \in Nat
    BY <1>2 DEF Plans
  <1> QED
    BY <1>1, <1>3 DEF NextRevision

(* A compilation records the plan of the draft as it stands.               *)
LEMMA CompileSteps ==
  ASSUME NEW r, Lawful(r), r.approval = None, NEW s
  PROVE  Keeps(r, Compile(r, s))
  <1> DEFINE q == Compile(r, s)
             plan == [revision |-> NextRevision(r), content |-> Content(r)]
  <1>1. r \in Records /\ r.publication = None /\ r.live = None /\ r.closure = None /\ r.credentials = None
    BY DEF Lawful, Settled
  <1>2. q = [r EXCEPT !.compiled = plan]
    BY DEF Compile, Reusable
  <1>3. plan \in Plans
    BY <1>1, RecordFields, NextRevisionType, NoneIsNothing DEF Plans, Content, OrNone
  <1> HIDE DEF plan
  <1>4. /\ q \in Records /\ q.compiled = plan
        /\ q.facts = r.facts /\ q.placement = r.placement /\ q.rules = r.rules /\ q.controls = r.controls
        /\ q.approval = r.approval /\ q.publication = r.publication /\ q.amendment = r.amendment /\ q.superseded = r.superseded
        /\ q.live = r.live /\ q.closure = r.closure /\ q.credentials = r.credentials
    BY <1>1, <1>2, <1>3, RecordFields, NoneIsNothing DEF Records
  <1> HIDE DEF q
  <1>5. Content(q) = Content(r)
    BY <1>4 DEF Content, Applies
  <1>6. Current(q)
    BY <1>4, <1>5 DEF Current, plan
  <1>7. Lawful(q)
    BY <1>1, <1>4, <1>6 DEF Lawful, Settled
  <1>8. PublishedSoFar(q) = PublishedSoFar(r)
    BY <1>4 DEF PublishedSoFar
  <1>9. Grows(r, q)
    BY <1>1, <1>4, <1>8, PublishedIsSequence, ExtendsSelf DEF Grows
  <1> QED
    BY <1>4, <1>7, <1>9 DEF Keeps, q

LEMMA ExtendsConcat ==
  ASSUME NEW S, NEW s \in Seq(S), NEW e \in S
  PROVE  Extends(s \o <<>>, s \o <<e>>) /\ s \o <<e>> = Append(s, e)
  <1>1. s \o <<>> = s
    BY ConcatEmptySeq
  <1>2. s \o <<e>> = Append(s, e)
    BY AppendIsConcat
  <1> QED
    BY <1>1, <1>2, ExtendsAppend

(* Approval publishes the plan, and the amended publication goes to the    *)
(* history.                                                                *)
LEMMA ApproveSteps ==
  ASSUME NEW r, Lawful(r), r.compiled # None, r.publication = None, NEW who \in People
  PROVE  Keeps(r, Approve(r, who))
  <1> DEFINE q == Approve(r, who)
             a == [revision |-> r.compiled.revision, by |-> who]
             past == IF r.amendment = None THEN r.superseded ELSE Append(r.superseded, r.amendment.publication)
  <1>1. r \in Records /\ r.live = None /\ r.closure = None /\ r.credentials = None
    BY DEF Lawful, Settled
  <1>2. r.compiled \in Plans
    BY <1>1, RecordFields DEF OrNone
  <1>3. a \in Approvals /\ a # None
    BY <1>2, JourneyAssumption DEF Approvals, Plans
  <1>4. r.amendment # None => r.amendment.publication \in Plans
    BY <1>1, RecordFields DEF OrNone, Amendments
  <1>5. past \in Seq(Plans)
    BY <1>1, <1>4, RecordFields, ExtendsAppend
  <1>6. q = [r EXCEPT !.approval = a, !.publication = r.compiled, !.amendment = None, !.superseded = past]
    BY DEF Approve
  <1> HIDE DEF a, past
  <1>7. /\ q \in Records /\ q.approval = a /\ q.publication = r.compiled /\ q.amendment = None /\ q.superseded = past
        /\ q.live = r.live /\ q.closure = r.closure /\ q.credentials = r.credentials
    BY <1>1, <1>2, <1>3, <1>5, <1>6, RecordFields, NoneIsNothing DEF Records
  <1> HIDE DEF q
  <1>8. Lawful(q)
    BY <1>1, <1>3, <1>7 DEF Lawful, Settled, Current
  <1>9. PublishedSoFar(q) = past \o <<r.compiled>>
    BY <1>7 DEF PublishedSoFar
  <1>10. r.superseded \in Seq(Plans)
    BY <1>1, RecordFields
  <1>11. Extends(PublishedSoFar(r), PublishedSoFar(q))
    <2>1. CASE r.amendment = None
      <3>1. PublishedSoFar(r) = r.superseded \o <<>> /\ past = r.superseded
        BY <2>1 DEF PublishedSoFar, past
      <3> QED
        BY <1>2, <1>9, <1>10, <3>1, ExtendsConcat
    <2>2. CASE r.amendment # None
      <3>1. PublishedSoFar(r) = r.superseded \o <<r.amendment.publication>>
        BY <2>2 DEF PublishedSoFar
      <3>2. past = Append(r.superseded, r.amendment.publication)
        BY <2>2 DEF past
      <3>3. PublishedSoFar(r) = past
        BY <1>4, <1>10, <2>2, <3>1, <3>2, ExtendsConcat
      <3>4. past \o <<>> = past
        BY <1>5, ConcatEmptySeq
      <3> QED
        BY <1>2, <1>5, <1>9, <3>3, <3>4, ExtendsConcat
    <2> QED
      BY <2>1, <2>2
  <1>12. Grows(r, q)
    BY <1>1, <1>11 DEF Grows
  <1> QED
    BY <1>7, <1>8, <1>12 DEF Keeps, q

(* An amendment takes a publication that is not played back to the draft.  *)
LEMMA AmendSteps ==
  ASSUME NEW r, Lawful(r), r.publication # None, r.live = None
  PROVE  Keeps(r, Amend(r))
  <1> DEFINE q == Amend(r)
             m == [approval |-> r.approval, publication |-> r.publication]
  <1>1. r \in Records /\ r.closure = None /\ r.credentials = None /\ r.approval # None /\ r.amendment = None
    BY DEF Lawful, Settled
  <1>2. m \in Amendments /\ m # None
    BY <1>1, RecordFields, JourneyAssumption DEF Amendments, OrNone
  <1>3. q = [r EXCEPT !.version = r.version + 1, !.compiled = None, !.approval = None, !.publication = None, !.amendment = m]
    BY DEF Amend
  <1>4. m.publication = r.publication
    OBVIOUS
  <1> HIDE DEF m
  <1>5. /\ q \in Records /\ q.compiled = None /\ q.approval = None /\ q.publication = None /\ q.amendment = m
        /\ q.superseded = r.superseded /\ q.live = r.live /\ q.closure = r.closure /\ q.credentials = r.credentials
    BY <1>1, <1>2, <1>3, RecordFields, NoneIsNothing DEF Records
  <1> HIDE DEF q
  <1>6. Lawful(q)
    BY <1>1, <1>5 DEF Lawful, Settled, Current
  <1>7. PublishedSoFar(q) = PublishedSoFar(r)
    BY <1>1, <1>2, <1>4, <1>5 DEF PublishedSoFar
  <1>8. Grows(r, q)
    BY <1>1, <1>5, <1>7, PublishedIsSequence, ExtendsSelf DEF Grows
  <1> QED
    BY <1>5, <1>6, <1>8 DEF Keeps, q

-----------------------------------------------------------------------------
(* Play.  The fields of a live state, and what may take its place.         *)
LEMMA LiveFields ==
  ASSUME NEW l \in LiveStates
  PROVE  /\ l.base \in Nat /\ l.log \in Seq(LogEvents) /\ l.ops \in Operations
         /\ l.noShow \in OrNone(NoShows) /\ l.resource \in OrNone(Resources)
         /\ l.publications \in Seq(LivePublications)
         /\ l.ops.events \in Seq(Safety)
  BY DEF LiveStates, Operations

LEMMA LiveKeeps ==
  ASSUME NEW r, Lawful(r), r.live # None, NEW l \in LiveStates,
         Extends(r.live.log, l.log), Extends(r.live.publications, l.publications),
         Extends(r.live.ops.events, l.ops.events), Ledger(l.ops)
  PROVE  Keeps(r, [r EXCEPT !.live = l])
  <1> DEFINE q == [r EXCEPT !.live = l]
  <1>1. r \in Records /\ r.publication # None /\ r.approval # None /\ r.amendment = None
    BY DEF Lawful, Settled
  <1>2. l # None
    BY JourneyAssumption
  <1>3. /\ q \in Records /\ q.live = l
        /\ q.facts = r.facts /\ q.placement = r.placement /\ q.rules = r.rules /\ q.controls = r.controls
        /\ q.compiled = r.compiled /\ q.approval = r.approval /\ q.publication = r.publication
        /\ q.amendment = r.amendment /\ q.superseded = r.superseded
        /\ q.closure = r.closure /\ q.credentials = r.credentials
    BY <1>1, RecordFields, NoneIsNothing DEF Records
  <1> HIDE DEF q
  <1>4. Lawful(q)
    BY <1>1, <1>2, <1>3 DEF Lawful, Settled, Current
  <1>5. PublishedSoFar(q) = PublishedSoFar(r)
    BY <1>3 DEF PublishedSoFar
  <1>6. Grows(r, q)
    BY <1>1, <1>2, <1>3, <1>5, PublishedIsSequence, ExtendsSelf DEF Grows
  <1> QED
    BY <1>3, <1>4, <1>6 DEF Keeps, q

(* Activation starts with an empty log and no clearances.                  *)
LEMMA NoEvents ==
  /\ CreateOperations(Assigned) \in Operations
  /\ Ledger(CreateOperations(Assigned))
  <1>1. CreateOperations(Assigned) \in Operations
    BY JourneyAssumption DEF CreateOperations, Operations, AllowedTransitions
  <1>2. DOMAIN CreateOperations(Assigned).events = {}
    BY DEF CreateOperations
  <1>3. Ledger(CreateOperations(Assigned))
    BY <1>2 DEF Ledger, RestartsAreCleared
  <1> QED
    BY <1>1, <1>3

LEMMA ActivateSteps ==
  ASSUME NEW r, Lawful(r), r.publication # None, r.live = None
  PROVE  Keeps(r, ActivateLive(r, Assigned))
  <1> DEFINE l == [base |-> r.publication.revision, log |-> <<>>, ops |-> CreateOperations(Assigned),
                   noShow |-> None, resource |-> None, publications |-> <<>>]
             q == [r EXCEPT !.live = l]
  <1>1. r \in Records /\ r.closure = None /\ r.credentials = None /\ r.approval # None /\ r.amendment = None
    BY DEF Lawful, Settled
  <1>2. r.publication.revision \in Nat
    BY <1>1, RecordFields DEF OrNone, Plans
  <1>3. l \in LiveStates /\ l # None /\ l.ops = CreateOperations(Assigned)
    <2>1. l \in LiveStates
      BY <1>2, NoEvents, NoneIsNothing DEF LiveStates
    <2> QED
      BY <2>1, JourneyAssumption
  <1> HIDE DEF l
  <1>4. /\ q \in Records /\ q.live = l
        /\ q.compiled = r.compiled /\ q.approval = r.approval /\ q.publication = r.publication
        /\ q.amendment = r.amendment /\ q.superseded = r.superseded
        /\ q.closure = r.closure /\ q.credentials = r.credentials
    BY <1>1, <1>3, RecordFields, NoneIsNothing DEF Records
  <1> HIDE DEF q
  <1>5. Lawful(q)
    BY <1>1, <1>3, <1>4, NoEvents DEF Lawful, Settled, Current
  <1>6. PublishedSoFar(q) = PublishedSoFar(r)
    BY <1>4 DEF PublishedSoFar
  <1>7. Grows(r, q)
    BY <1>1, <1>4, <1>6, PublishedIsSequence, ExtendsSelf DEF Grows
  <1>8. ActivateLive(r, Assigned) = q
    BY DEF ActivateLive, q, l
  <1> QED
    BY <1>4, <1>5, <1>7, <1>8 DEF Keeps

(* Results are those of sides, and so is what they demand of the final.    *)
LEMMA WinnerType ==
  ASSUME NEW log \in Seq(LogEvents), NEW c, Terminal(log, c)
  PROVE  Winner(log, c) \in Winners
  <1>1. About(log, c) # {} /\ About(log, c) \in SUBSET DOMAIN log
    BY DEF Terminal, Status, About
  <1>2. PICK i \in About(log, c) : LastOf(log, About(log, c)) = log[i]
    BY <1>1, LastOfPlaces, Zenon
  <1>3. log[i] \in LogEvents
    BY <1>1, <1>2, ElementOfSeq, LenProperties
  <1>4. log[i].kind # "RESOLVE"
    BY <1>2 DEF About
  <1>5. log[i].winner \in Winners
    BY <1>3, <1>4 DEF LogEvents
  <1> QED
    BY <1>2, <1>5 DEF Winner

LEMMA ResolutionType ==
  ASSUME NEW log \in Seq(LogEvents), ExpectedResolution(log) # None
  PROVE  ExpectedResolution(log) \in [Pool -> Winners]
  BY WinnerType DEF ExpectedResolution

LEMMA AdvanceType ==
  ASSUME NEW log \in Seq(LogEvents), CanAdvance(log)
  PROVE  AdvanceLiveProgression(log) \in Seq(LogEvents) /\ Extends(log, AdvanceLiveProgression(log))
  <1>1. CASE ExpectedResolution(log) = Resolved(log)
    BY <1>1, ExtendsSelf DEF AdvanceLiveProgression
  <1>2. CASE ExpectedResolution(log) # Resolved(log)
    <2> DEFINE e == [kind |-> "RESOLVE", contest |-> Final, winner |-> ExpectedResolution(log)]
    <2>1. ExpectedResolution(log) \in [Pool -> Winners]
      BY <1>2, ResolutionType DEF CanAdvance
    <2>2. e \in LogEvents
      BY <2>1 DEF LogEvents
    <2>3. AdvanceLiveProgression(log) = Append(log, e)
      BY <1>2 DEF AdvanceLiveProgression
    <2> QED
      BY <2>2, <2>3, ExtendsAppend
  <1> QED
    BY <1>1, <1>2

LEMMA PlaySteps ==
  ASSUME NEW r, Lawful(r), r.live # None,
         NEW e \in LogEvents, CanAdvance(Append(r.live.log, e))
  PROVE  Keeps(r, SubmitLive(r, e))
  <1> DEFINE log == AdvanceLiveProgression(Append(r.live.log, e))
             l == [r.live EXCEPT !.log = log]
  <1>1. r.live \in LiveStates
    BY RecordFields DEF Lawful, OrNone
  <1>2. Append(r.live.log, e) \in Seq(LogEvents) /\ Extends(r.live.log, Append(r.live.log, e))
    BY <1>1, LiveFields, ExtendsAppend
  <1>3. log \in Seq(LogEvents) /\ Extends(Append(r.live.log, e), log)
    BY <1>2, AdvanceType
  <1>4. Extends(r.live.log, log)
    BY <1>1, <1>2, <1>3, LiveFields, ExtendsTransitive
  <1>5. SubmitLive(r, e) = [r EXCEPT !.live = l]
    BY DEF SubmitLive
  <1> HIDE DEF log
  <1>6. l \in LiveStates /\ l.log = log /\ l.publications = r.live.publications /\ l.ops = r.live.ops
    BY <1>1, <1>3, LiveFields DEF LiveStates
  <1> HIDE DEF l
  <1>7. /\ Extends(r.live.publications, l.publications) /\ Extends(r.live.ops.events, l.ops.events) /\ Ledger(l.ops)
    BY <1>1, <1>6, LiveFields, ExtendsSelf DEF Lawful
  <1> QED
    BY <1>4, <1>5, <1>6, <1>7, LiveKeeps

(* A safety command: what it does to the ledger of clearances.             *)
LEMMA ProjectType ==
  ASSUME NEW s \in Operations, NEW c \in Safety, Accepts(s, c)
  PROVE  /\ ProjectEvent(s, c) \in Operations
         /\ ProjectEvent(s, c).events = Append(s.events, c)
         /\ c.kind = "TRANSITION_MODE" => ProjectEvent(s, c).mode = c.what
         /\ c.kind # "TRANSITION_MODE" => ProjectEvent(s, c).mode = s.mode
         /\ c.kind = "RECORD_RESTART_CLEARANCE" => ProjectEvent(s, c).cleared = s.cleared \union {c.what}
         /\ c.kind = "TRANSITION_MODE" /\ c.what = "STOPPED" => ProjectEvent(s, c).cleared = {}
         /\ c.kind # "RECORD_RESTART_CLEARANCE" /\ ~(c.kind = "TRANSITION_MODE" /\ c.what = "STOPPED") =>
              ProjectEvent(s, c).cleared = s.cleared
  <1> DEFINE log == Append(s.events, c)
             e == [s EXCEPT !.events = log]
  <1>1. /\ s.mode \in DOMAIN AllowedTransitions /\ s.assigned \in [Functions -> Names] /\ s.incidents \in SUBSET Names
        /\ s.cleared \in SUBSET DOMAIN ClearanceFunction /\ s.events \in Seq(Safety)
    BY DEF Operations
  <1>2. log \in Seq(Safety)
    BY <1>1, ExtendsAppend
  <1>3. c.what \in Names /\ c.fn \in Functions
    BY JourneyAssumption DEF Names
  <1> HIDE DEF log
  <1>4. /\ e \in Operations /\ e.events = log /\ e.mode = s.mode /\ e.cleared = s.cleared
        /\ e.assigned = s.assigned /\ e.incidents = s.incidents
    BY <1>1, <1>2 DEF Operations
  <1> HIDE DEF e
  <1>5. CASE c.kind = "RECORD_INCIDENT"
    <2>1. ProjectEvent(s, c) = [e EXCEPT !.incidents = s.incidents \union {c.what}]
      BY <1>4, <1>5 DEF ProjectEvent, e, log
    <2>2. s.incidents \union {c.what} \in SUBSET Names
      BY <1>1, <1>3
    <2> QED
      BY <1>4, <1>5, <2>1, <2>2 DEF Operations, log
  <1>6. CASE c.kind = "TRANSITION_MODE"
    <2> DEFINE cleared == IF c.what = "STOPPED" THEN {} ELSE s.cleared
    <2>1. ProjectEvent(s, c) = [e EXCEPT !.mode = c.what, !.cleared = cleared]
      BY <1>4, <1>6 DEF ProjectEvent, e, log
    <2>2. c.what \in DOMAIN AllowedTransitions
      BY <1>1, <1>6 DEF Accepts, AllowedTransitions
    <2>3. cleared \in SUBSET DOMAIN ClearanceFunction
      BY <1>1
    <2> HIDE DEF cleared
    <2>4. /\ ProjectEvent(s, c) \in Operations /\ ProjectEvent(s, c).events = log
          /\ ProjectEvent(s, c).mode = c.what /\ ProjectEvent(s, c).cleared = cleared
      BY <1>4, <2>1, <2>2, <2>3 DEF Operations
    <2> QED
      BY <1>6, <2>4 DEF cleared, log
  <1>7. CASE c.kind = "RECORD_RESTART_CLEARANCE"
    <2>1. ProjectEvent(s, c) = [e EXCEPT !.cleared = s.cleared \union {c.what}]
      BY <1>4, <1>7 DEF ProjectEvent, e, log
    <2>2. s.cleared \union {c.what} \in SUBSET DOMAIN ClearanceFunction
      BY <1>1, <1>7, JourneyAssumption
    <2>3. /\ ProjectEvent(s, c) \in Operations /\ ProjectEvent(s, c).events = log
          /\ ProjectEvent(s, c).mode = s.mode /\ ProjectEvent(s, c).cleared = s.cleared \union {c.what}
      BY <1>4, <2>1, <2>2 DEF Operations
    <2> QED
      BY <1>7, <2>3 DEF log
  <1>8. CASE c.kind = "TRANSFER_AUTHORITY"
    <2> DEFINE assigned == [s.assigned EXCEPT ![c.fn] = c.what]
    <2>1. ProjectEvent(s, c) = [e EXCEPT !.assigned = assigned]
      BY <1>4, <1>8 DEF ProjectEvent, e, log
    <2>2. assigned \in [Functions -> Names]
      BY <1>1, <1>3
    <2> HIDE DEF assigned
    <2>3. /\ ProjectEvent(s, c) \in Operations /\ ProjectEvent(s, c).events = log
          /\ ProjectEvent(s, c).mode = s.mode /\ ProjectEvent(s, c).cleared = s.cleared
      BY <1>4, <2>1, <2>2 DEF Operations
    <2> QED
      BY <1>8, <2>3 DEF log
  <1> QED
    BY <1>5, <1>6, <1>7, <1>8, JourneyAssumption

(* Every stop takes the clearances back, and play goes on only when both   *)
(* are given.                                                              *)
LEMMA LedgerSteps ==
  ASSUME NEW s \in Operations, NEW c \in Safety, Accepts(s, c), Ledger(s)
  PROVE  Ledger(ProjectEvent(s, c))
  <1> DEFINE q == ProjectEvent(s, c)
             n == Len(s.events)
             Both == {"SAFETY", "COMPETITION"}
             Running == {"NORMAL", "DEGRADED", "PAUSED"}
  <1>1. s.events \in Seq(Safety) /\ s.cleared \in SUBSET Both /\ n \in Nat /\ s.mode \in DOMAIN AllowedTransitions
    BY LenProperties DEF Operations, ClearanceFunction
  <1>2. q.events = Append(s.events, c)
    BY ProjectType
  <1>3. /\ DOMAIN s.events = 1..n /\ DOMAIN q.events = 1..(n + 1)
        /\ q.events[n + 1] = c /\ \A i \in 1..n : q.events[i] = s.events[i]
    BY <1>1, <1>2, AppendProperties, LenProperties
  <1>4. \A i \in 1..n : Target(q.events, i) = Target(s.events, i)
    BY <1>3 DEF Target
  <1>5. ASSUME NEW stop \in 1..n, NEW what, ClearedSince(s.events, stop, what)
        PROVE  ClearedSince(q.events, stop, what)
    <2>1. PICK k \in 1..n : stop < k /\ s.events[k].kind = "RECORD_RESTART_CLEARANCE" /\ s.events[k].what = what
      BY <1>3, <1>5 DEF ClearedSince
    <2>2. k \in 1..(n + 1) /\ q.events[k] = s.events[k]
      BY <1>1, <1>3
    <2> QED
      BY <1>3, <2>1, <2>2 DEF ClearedSince
  <1>6. ASSUME NEW stop \in 1..n, Target(s.events, stop) = "STOPPED", NEW what \in q.cleared
        PROVE  ClearedSince(q.events, stop, what)
    <2>1. CASE what \in s.cleared
      BY <1>3, <1>5, <1>6, <2>1 DEF Ledger
    <2>2. CASE what \notin s.cleared
      <3>1. c.kind = "RECORD_RESTART_CLEARANCE" /\ what = c.what
        BY <1>6, <2>2, ProjectType
      <3>2. stop < n + 1 /\ n + 1 \in 1..(n + 1)
        BY <1>1
      <3> QED
        BY <1>3, <3>1, <3>2 DEF ClearedSince
    <2> QED
      BY <2>1, <2>2
  <1>7. ASSUME NEW stop \in 1..n, Target(s.events, stop) = "STOPPED", s.mode \in Running, NEW what \in Both
        PROVE  ClearedSince(q.events, stop, what)
    BY <1>3, <1>5, <1>7 DEF Ledger
  <1>8. ASSUME c.kind = "TRANSITION_MODE", c.what \in Running \union {"RECOVERING"}, s.mode \notin Running
        PROVE  s.cleared = Both
    BY <1>1, <1>8 DEF Accepts, AllowedTransitions
  <1>9. ASSUME NEW stop \in 1..n, Target(s.events, stop) = "STOPPED", NEW what \in Both,
               c.kind = "TRANSITION_MODE", c.what \in Running \union {"RECOVERING"}
        PROVE  ClearedSince(q.events, stop, what)
    <2>1. CASE s.mode \in Running
      BY <1>7, <1>9, <2>1
    <2>2. CASE s.mode \notin Running
      <3>1. q.cleared = s.cleared
        BY <1>9, ProjectType
      <3> QED
        BY <1>6, <1>8, <1>9, <2>2, <3>1
    <2> QED
      BY <2>1, <2>2
  <1>10. ASSUME NEW stop \in 1..n, Target(s.events, stop) = "STOPPED", q.mode \in Running, NEW what \in Both
         PROVE  ClearedSince(q.events, stop, what)
    <2>1. CASE c.kind = "TRANSITION_MODE"
      BY <1>9, <1>10, <2>1, ProjectType
    <2>2. CASE c.kind # "TRANSITION_MODE"
      BY <1>7, <1>10, <2>2, ProjectType
    <2> QED
      BY <2>1, <2>2
  <1>11. ASSUME NEW stop \in DOMAIN q.events, Target(q.events, stop) = "STOPPED"
         PROVE  /\ \A what \in q.cleared : ClearedSince(q.events, stop, what)
                /\ q.mode \in Running => \A what \in Both : ClearedSince(q.events, stop, what)
    <2>1. CASE stop \in 1..n
      BY <1>4, <1>6, <1>10, <1>11, <2>1
    <2>2. CASE stop = n + 1
      <3>1. c.kind = "TRANSITION_MODE" /\ c.what = "STOPPED"
        BY <1>3, <1>11, <2>2 DEF Target
      <3> QED
        BY <3>1, ProjectType
    <2> QED
      BY <1>1, <1>3, <1>11, <2>1, <2>2
  <1>12. RestartsAreCleared(q.events)
    <2> SUFFICES ASSUME NEW stop \in 1..(n + 1), NEW restart \in 1..(n + 1), stop < restart,
                        Target(q.events, stop) = "STOPPED", Target(q.events, restart) \in {"RECOVERING", "NORMAL"},
                        NEW clearance \in Both
                 PROVE  \E k \in stop..restart : q.events[k].kind = "RECORD_RESTART_CLEARANCE" /\ q.events[k].what = clearance
      BY <1>3 DEF RestartsAreCleared
    <2>1. stop \in 1..n
      BY <1>1
    <2>2. CASE restart \in 1..n
      <3>1. Target(s.events, stop) = "STOPPED" /\ Target(s.events, restart) \in {"RECOVERING", "NORMAL"}
        BY <1>4, <2>1, <2>2
      <3>2. PICK k \in stop..restart : s.events[k].kind = "RECORD_RESTART_CLEARANCE" /\ s.events[k].what = clearance
        BY <1>3, <2>1, <2>2, <3>1 DEF Ledger, RestartsAreCleared
      <3>3. k \in 1..n
        BY <1>1, <2>1, <2>2
      <3> QED
        BY <1>3, <3>2, <3>3
    <2>3. CASE restart = n + 1
      <3>1. c.kind = "TRANSITION_MODE" /\ c.what \in Running \union {"RECOVERING"}
        BY <1>3, <2>3 DEF Target
      <3>2. Target(s.events, stop) = "STOPPED"
        BY <1>4, <2>1
      <3>3. ClearedSince(q.events, stop, clearance)
        BY <1>9, <2>1, <3>1, <3>2
      <3>4. PICK k \in 1..(n + 1) : stop < k /\ q.events[k].kind = "RECORD_RESTART_CLEARANCE" /\ q.events[k].what = clearance
        BY <1>3, <3>3 DEF ClearedSince
      <3>5. k \in stop..restart
        BY <1>1, <2>1, <2>3, <3>4
      <3> QED
        BY <3>4, <3>5
    <2> QED
      BY <1>1, <2>2, <2>3
  <1> QED
    BY <1>11, <1>12 DEF Ledger

LEMMA OperateSteps ==
  ASSUME NEW r, Lawful(r), r.live # None, NEW c \in Safety, Accepts(r.live.ops, c)
  PROVE  Keeps(r, Operate(r, c))
  <1> DEFINE ops == ProjectEvent(r.live.ops, c)
             l == [r.live EXCEPT !.ops = ops]
  <1>1. r.live \in LiveStates
    BY RecordFields DEF Lawful, OrNone
  <1>2. ops \in Operations /\ ops.events = Append(r.live.ops.events, c) /\ Ledger(ops)
    BY <1>1, LiveFields, ProjectType, LedgerSteps DEF Lawful
  <1>3. Operate(r, c) = [r EXCEPT !.live = l]
    BY DEF Operate
  <1>4. Extends(r.live.ops.events, ops.events)
    BY <1>1, <1>2, LiveFields, ExtendsAppend
  <1> HIDE DEF ops
  <1>5. l \in LiveStates /\ l.log = r.live.log /\ l.publications = r.live.publications /\ l.ops = ops
    BY <1>1, <1>2, LiveFields DEF LiveStates
  <1> HIDE DEF l
  <1>6. Extends(r.live.log, l.log) /\ Extends(r.live.publications, l.publications)
    BY <1>1, <1>5, LiveFields, ExtendsSelf
  <1> QED
    BY <1>2, <1>3, <1>4, <1>5, <1>6, LiveKeeps

(* Proposals change nothing that was published; an approval is of the log  *)
(* the proposal was made on.                                               *)
LEMMA ProposeSteps ==
  ASSUME NEW r, Lawful(r), r.live # None,
         NEW noShow \in OrNone(NoShows), NEW resource \in OrNone(Resources)
  PROVE  /\ Keeps(r, [r EXCEPT !.live.noShow = noShow])
         /\ Keeps(r, [r EXCEPT !.live.noShow = noShow, !.live.resource = resource])
  <1>1. r.live \in LiveStates
    BY RecordFields DEF Lawful, OrNone
  <1>2. \A l \in LiveStates :
          l.log = r.live.log /\ l.publications = r.live.publications /\ l.ops = r.live.ops =>
            Keeps(r, [r EXCEPT !.live = l])
    <2> SUFFICES ASSUME NEW l \in LiveStates,
                        l.log = r.live.log, l.publications = r.live.publications, l.ops = r.live.ops
                 PROVE  Keeps(r, [r EXCEPT !.live = l])
      OBVIOUS
    <2>1. /\ Extends(r.live.log, l.log) /\ Extends(r.live.publications, l.publications)
          /\ Extends(r.live.ops.events, l.ops.events) /\ Ledger(l.ops)
      BY <1>1, LiveFields, ExtendsSelf DEF Lawful
    <2> QED
      BY <2>1, LiveKeeps
  <1> DEFINE k == [r.live EXCEPT !.noShow = noShow]
             l == [r.live EXCEPT !.noShow = noShow, !.resource = resource]
  <1>3. k \in LiveStates /\ k.log = r.live.log /\ k.publications = r.live.publications /\ k.ops = r.live.ops
    BY <1>1, LiveFields DEF LiveStates
  <1>4. l \in LiveStates /\ l.log = r.live.log /\ l.publications = r.live.publications /\ l.ops = r.live.ops
    BY <1>1, LiveFields DEF LiveStates
  <1>5. r \in Records
    BY DEF Lawful
  <1>6. [r EXCEPT !.live.noShow = noShow] = [r EXCEPT !.live = k]
    OBVIOUS
  <1>7. [r EXCEPT !.live.noShow = noShow, !.live.resource = resource] = [r EXCEPT !.live = l]
    BY <1>1, <1>5 DEF Records, LiveStates
  <1> QED
    BY <1>2, <1>3, <1>4, <1>6, <1>7

LEMMA OperationalType ==
  ASSUME NEW r, Lawful(r), r.live # None
  PROVE  OperationalRevision(r) \in Nat /\ r.publication.revision \in Nat
  <1>1. r.live \in LiveStates /\ r.publication \in Plans
    BY RecordFields DEF Lawful, Settled, OrNone
  <1>2. r.publication.revision \in Nat
    BY <1>1 DEF Plans
  <1>3. ASSUME r.live.publications # <<>>
        PROVE  Latest(r.live).revision \in Nat
    <2>1. r.live.publications \in Seq(LivePublications)
      BY <1>1, LiveFields
    <2>2. Len(r.live.publications) \in 1..Len(r.live.publications)
      BY <1>3, <2>1, LenProperties
    <2>3. Latest(r.live) \in LivePublications
      BY <2>1, <2>2, ElementOfSeq DEF Latest
    <2> QED
      BY <2>3 DEF LivePublications
  <1> QED
    BY <1>2, <1>3 DEF OperationalRevision

LEMMA RepairKeeps ==
  ASSUME NEW r, Lawful(r), r.live # None,
         NEW e \in LogEvents, NEW p \in LivePublications
  PROVE  Keeps(r, [r EXCEPT !.live.log = Append(r.live.log, e), !.live.publications = Append(@, p)])
  <1> DEFINE log == Append(r.live.log, e)
             publications == Append(r.live.publications, p)
             l == [r.live EXCEPT !.log = log, !.publications = publications]
  <1>1. r.live \in LiveStates /\ r \in Records
    BY RecordFields DEF Lawful, OrNone
  <1>2. log \in Seq(LogEvents) /\ Extends(r.live.log, log)
    BY <1>1, LiveFields, ExtendsAppend
  <1>3. publications \in Seq(LivePublications) /\ Extends(r.live.publications, publications)
    BY <1>1, LiveFields, ExtendsAppend
  <1>4. [r EXCEPT !.live.log = log, !.live.publications = Append(@, p)] = [r EXCEPT !.live = l]
    BY <1>1 DEF Records, LiveStates
  <1> HIDE DEF log, publications
  <1>5. l \in LiveStates /\ l.log = log /\ l.publications = publications /\ l.ops = r.live.ops
    BY <1>1, <1>2, <1>3, LiveFields DEF LiveStates
  <1> HIDE DEF l
  <1>6. Extends(r.live.ops.events, l.ops.events) /\ Ledger(l.ops)
    BY <1>1, <1>5, LiveFields, ExtendsSelf DEF Lawful
  <1>7. Keeps(r, [r EXCEPT !.live = l])
    BY <1>2, <1>3, <1>5, <1>6, LiveKeeps
  <1> QED
    BY <1>4, <1>7 DEF log

LEMMA ApproveNoShowSteps ==
  ASSUME NEW r, Lawful(r), r.live # None, r.live.noShow # None, r.live.log = r.live.noShow.base, NEW by \in People
  PROVE  Keeps(r, ApproveNoShow(r, by))
  <1> DEFINE p == r.live.noShow
             e == [kind |-> "WALKOVER", contest |-> p.contest, winner |-> p.winner]
             log == Append(r.live.log, e)
             entry == [kind |-> "NO_SHOW", revision |-> OperationalRevision(r) + 1,
                       base |-> r.live.base, proposal |-> p, log |-> log, by |-> by]
  <1>1. r.live \in LiveStates
    BY RecordFields DEF Lawful, OrNone
  <1>2. p \in NoShows
    BY <1>1, LiveFields DEF OrNone
  <1>3. e \in LogEvents
    BY <1>2 DEF NoShows, LogEvents, OrNone, Winners
  <1>4. log \in Seq(LogEvents)
    BY <1>1, <1>3, LiveFields, ExtendsAppend
  <1>5. OperationalRevision(r) + 1 \in Nat /\ r.live.base \in Nat
    BY <1>1, LiveFields, OperationalType
  <1>6. entry \in LivePublications
    <2> HIDE DEF log, p
    <2> QED
      BY <1>2, <1>4, <1>5 DEF LivePublications
  <1>7. ApproveNoShow(r, by) = [r EXCEPT !.live.log = log, !.live.publications = Append(@, entry)]
    BY DEF ApproveNoShow
  <1>8. \A f \in LogEvents, q \in LivePublications :
          Keeps(r, [r EXCEPT !.live.log = Append(r.live.log, f), !.live.publications = Append(@, q)])
    BY RepairKeeps
  <1> HIDE DEF e, entry
  <1> QED
    BY <1>3, <1>6, <1>7, <1>8

LEMMA ApproveResourceSteps ==
  ASSUME NEW r, Lawful(r), r.live # None, r.live.resource # None, r.live.log = r.live.resource.base, NEW by \in People
  PROVE  Keeps(r, ApproveResourceChange(r, by))
  <1> DEFINE p == r.live.resource
             e == [kind |-> "CLOSE_COURT", contest |-> None, winner |-> None]
             log == Append(r.live.log, e)
             entry == [kind |-> p.kind, revision |-> p.revision + 1, base |-> p.revision,
                       proposal |-> p, log |-> log, by |-> by]
  <1>1. r.live \in LiveStates
    BY RecordFields DEF Lawful, OrNone
  <1>2. p \in Resources
    BY <1>1, LiveFields DEF OrNone
  <1>3. e \in LogEvents
    BY DEF LogEvents, OrNone, Winners
  <1>4. log \in Seq(LogEvents)
    BY <1>1, <1>3, LiveFields, ExtendsAppend
  <1>5. p.kind \in {"COURT_OUTAGE", "DELAY_OVERRUN"} /\ p.revision \in Nat
    BY <1>2 DEF Resources
  <1>6. entry \in LivePublications
    <2> HIDE DEF log, p
    <2> QED
      BY <1>2, <1>4, <1>5 DEF LivePublications
  <1>7. ApproveResourceChange(r, by) = [r EXCEPT !.live.log = log, !.live.publications = Append(@, entry)]
    BY DEF ApproveResourceChange
  <1>8. \A f \in LogEvents, q \in LivePublications :
          Keeps(r, [r EXCEPT !.live.log = Append(r.live.log, f), !.live.publications = Append(@, q)])
    BY RepairKeeps
  <1> HIDE DEF e, entry
  <1> QED
    BY <1>3, <1>6, <1>7, <1>8

(* The closure is derived from results that are all there.                 *)
LEMMA CloseSteps ==
  ASSUME NEW r, Lawful(r), r.live # None, r.closure = None, CanDeriveClosure(r.live), NEW by \in People
  PROVE  Keeps(r, Close(r, by))
  <1> DEFINE d == DeriveClosure(r, by)
             q == [r EXCEPT !.closure = d]
  <1>1. r.live \in LiveStates /\ r \in Records
    BY RecordFields DEF Lawful, OrNone
  <1>2. Results(r.live.log) \in [Contests -> Winners]
    BY <1>1, LiveFields, WinnerType DEF CanDeriveClosure, Results
  <1>3. d \in Closures
    BY <1>1, <1>2, LiveFields, OperationalType DEF DeriveClosure, Closures
  <1>4. Close(r, by) = q
    BY DEF Close
  <1> HIDE DEF d
  <1>5. /\ q \in Records /\ q.live = r.live
        /\ q.facts = r.facts /\ q.placement = r.placement /\ q.rules = r.rules /\ q.controls = r.controls
        /\ q.compiled = r.compiled /\ q.approval = r.approval /\ q.publication = r.publication
        /\ q.amendment = r.amendment /\ q.superseded = r.superseded /\ q.credentials = r.credentials
    BY <1>1, <1>3, RecordFields, NoneIsNothing DEF Records
  <1> HIDE DEF q
  <1>6. Lawful(q)
    BY <1>5 DEF Lawful, Settled, Current, Content, Applies
  <1>7. PublishedSoFar(q) = PublishedSoFar(r)
    BY <1>5 DEF PublishedSoFar
  <1>8. Grows(r, q)
    BY <1>1, <1>5, <1>7, LiveFields, PublishedIsSequence, ExtendsSelf DEF Grows
  <1> QED
    BY <1>4, <1>5, <1>6, <1>8 DEF Keeps

-----------------------------------------------------------------------------
(* Access of participants.  A change of the credentials forgets no grant,  *)
(* makes none valid again, and adds only grants that are not held yet; a   *)
(* rotation or revocation leaves the participant no grant held before.     *)
Succeeds(a, b) ==
  /\ b \in Credentials
  /\ \A g \in Grants(a) : Holds(b, g.claims)
  /\ \A g \in Grants(b) :
       \/ \E old \in Grants(a) : old.claims = g.claims /\ (old.revokedBy # Absent => g.revokedBy # Absent)
       \/ ~Holds(a, g.claims) /\ (g.claims.by \in Commands => g.claims.by[2] <= Len(b.events))
  /\ \/ b.events = a.events
     \/ \E e \in AccessEvents :
          /\ b.events = Append(a.events, e)
          /\ e.result # Absent => Holds(b, e.result)
          /\ e.kind \in {"ROTATED", "REVOKED"} =>
               \A g \in Grants(b) : Holds(a, g.claims) /\ g.claims.p = e.p => g.revokedBy # Absent

LEMMA CredentialFields ==
  ASSUME NEW a \in Credentials
  PROVE  /\ a.tokens \in SUBSET [claims : Tokens, revokedBy : Commands \union {Absent}]
         /\ a.codes \in SUBSET [claims : Codes, revokedBy : Commands \union {Absent}]
         /\ a.events \in Seq(AccessEvents) /\ Len(a.events) \in Nat /\ DOMAIN a.events = 1..Len(a.events)
  BY LenProperties DEF Credentials

LEMMA SuccessorIsShut ==
  ASSUME NEW a \in Credentials, NEW b, Succeeds(a, b), Accounted(a)
  PROVE  /\ Accounted(b)
         /\ \A h : Holds(a, h.credential) /\ Shut(a, h) => Holds(b, h.credential) /\ Shut(b, h)
  <1> DEFINE n == Len(a.events)
  <1>1. b \in Credentials /\ n \in Nat /\ DOMAIN a.events = 1..n /\ Len(b.events) \in Nat /\ DOMAIN b.events = 1..Len(b.events)
    BY CredentialFields DEF Succeeds
  <1>2. /\ Len(b.events) \in {n, n + 1}
        /\ \A k \in 1..n : b.events[k] = a.events[k]
        /\ \A k \in DOMAIN b.events \ 1..n :
             /\ k = n + 1
             /\ b.events[k].result # Absent => Holds(b, b.events[k].result)
             /\ b.events[k].kind \in {"ROTATED", "REVOKED"} =>
                  \A g \in Grants(b) : Holds(a, g.claims) /\ g.claims.p = b.events[k].p => g.revokedBy # Absent
    <2>1. CASE b.events = a.events
      BY <1>1, <2>1
    <2>2. CASE b.events # a.events
      <3>1. PICK e \in AccessEvents :
              /\ b.events = Append(a.events, e)
              /\ e.result # Absent => Holds(b, e.result)
              /\ e.kind \in {"ROTATED", "REVOKED"} =>
                   \A g \in Grants(b) : Holds(a, g.claims) /\ g.claims.p = e.p => g.revokedBy # Absent
        BY <2>2 DEF Succeeds
      <3>2. /\ Len(b.events) = n + 1 /\ b.events[n + 1] = e
            /\ \A k \in 1..n : b.events[k] = a.events[k]
        BY <3>1, CredentialFields, AppendProperties
      <3>3. \A k \in DOMAIN b.events \ 1..n : k = n + 1
        BY <1>1, <3>2
      <3> QED
        BY <3>1, <3>2, <3>3
    <2> QED
      BY <2>1, <2>2
  <1>3. \A claims : Holds(a, claims) => Holds(b, claims)
    BY DEF Succeeds, Holds
  <1>4. Accounted(b)
    <2>1. ASSUME NEW g \in Grants(b), g.claims.by \in Commands
          PROVE  g.claims.by[2] <= Len(b.events)
      <3>1. CASE \E old \in Grants(a) : old.claims = g.claims
        <4>1. g.claims.by[2] <= n /\ g.claims.by[2] \in Nat
          BY <2>1, <3>1 DEF Accounted, Commands
        <4> QED
          BY <1>1, <1>2, <4>1
      <3>2. CASE ~\E old \in Grants(a) : old.claims = g.claims
        BY <2>1, <3>2 DEF Succeeds
      <3> QED
        BY <3>1, <3>2
    <2>2. ASSUME NEW k \in DOMAIN b.events, b.events[k].result # Absent
          PROVE  Holds(b, b.events[k].result)
      <3>1. CASE k \in 1..n
        BY <1>1, <1>2, <1>3, <2>2, <3>1 DEF Accounted
      <3>2. CASE k \notin 1..n
        BY <1>2, <2>2, <3>2
      <3> QED
        BY <3>1, <3>2
    <2> QED
      BY <2>1, <2>2 DEF Accounted
  <1>5. ASSUME NEW h, Holds(a, h.credential), Shut(a, h)
        PROVE  Shut(b, h)
    <2> SUFFICES ASSUME NEW k \in DOMAIN b.events, k > h.after, b.events[k].kind \in {"ROTATED", "REVOKED"},
                        b.events[k].p = h.credential.p, NEW g \in Grants(b), g.claims = h.credential
                 PROVE  g.revokedBy # Absent
      BY DEF Shut
    <2>1. CASE k \in 1..n
      <3>1. \A old \in Grants(a) : old.claims = h.credential => old.revokedBy # Absent
        BY <1>1, <1>2, <1>5, <2>1 DEF Shut
      <3> QED
        BY <1>5, <3>1 DEF Succeeds
    <2>2. CASE k \notin 1..n
      BY <1>2, <1>5, <2>2
    <2> QED
      BY <2>1, <2>2
  <1> QED
    BY <1>3, <1>4, <1>5

(* What was just handed out has nothing to be revoked by.                  *)
LEMMA NewlyHandedOut ==
  ASSUME NEW a \in Credentials, NEW c
  PROVE  Shut(a, [credential |-> c, after |-> Len(a.events)])
  BY CredentialFields DEF Shut

LEMMA TokensAreNoCodes ==
  ASSUME NEW t \in Tokens, NEW c \in Codes
  PROVE  t # c
  <1>1. DOMAIN t = {"p", "expires", "by"}
    BY DEF Tokens
  <1>2. DOMAIN c = {"p", "codeExpires", "accessExpires", "by"}
    BY DEF Codes
  <1>3. "expires" \in DOMAIN t /\ "expires" \notin DOMAIN c
    BY <1>1, <1>2
  <1> QED
    BY <1>3

(* RevokeOf revokes all of a participant's grants and leaves the others.   *)
Revokes(grants, revoked, p) ==
  /\ \A g \in grants : \E next \in revoked : next.claims = g.claims
  /\ \A next \in revoked :
       /\ \E g \in grants : g.claims = next.claims /\ (g.revokedBy # Absent => next.revokedBy # Absent)
       /\ next.claims.p = p => next.revokedBy # Absent

LEMMA RevokeOfGrants ==
  ASSUME NEW C, NEW grants \in SUBSET [claims : C, revokedBy : Commands \union {Absent}],
         NEW p, NEW command \in Commands
  PROVE  /\ RevokeOf(grants, p, command) \in SUBSET [claims : C, revokedBy : Commands \union {Absent}]
         /\ Revokes(grants, RevokeOf(grants, p, command), p)
  <1> DEFINE Revoked(g) == [g EXCEPT !.revokedBy = command]
             active == ActiveOf(grants, p)
  <1>1. RevokeOf(grants, p, command) = (grants \ active) \union {Revoked(g) : g \in active}
    BY DEF RevokeOf
  <1>2. command # Absent
    BY JourneyAssumption
  <1>3. \A g \in grants : /\ Revoked(g) \in [claims : C, revokedBy : Commands \union {Absent}]
                          /\ Revoked(g).claims = g.claims /\ Revoked(g).revokedBy = command
    OBVIOUS
  <1>4. active \subseteq grants /\ \A g \in grants \ active : g.claims.p = p => g.revokedBy # Absent
    BY DEF ActiveOf
  <1> HIDE DEF Revoked, active
  <1> QED
    BY <1>1, <1>2, <1>3, <1>4 DEF Revokes

LEMMA GrantTypes ==
  ASSUME NEW C, NEW claims \in C
  PROVE  Grant(claims) \in [claims : C, revokedBy : Commands \union {Absent}] /\ Grant(claims).claims = claims
  BY DEF Grant

(* Issuing: access links, an offline pack, and what a code recovers.       *)
LEMMA IssueSucceeds ==
  ASSUME NEW a \in Credentials, NEW added \in SUBSET Tokens,
         \A t \in added : Granted(a.tokens, t) = {} /\ t.by \notin Commands
  PROVE  LET b == [a EXCEPT !.tokens = a.tokens \union {Grant(t) : t \in added}]
         IN  Succeeds(a, b) /\ Len(b.events) = Len(a.events) /\ \A t \in added : Holds(b, t)
  <1> DEFINE new == {Grant(t) : t \in added}
             tokens == a.tokens \union new
             b == [a EXCEPT !.tokens = tokens]
  <1>1. tokens \in SUBSET [claims : Tokens, revokedBy : Commands \union {Absent}]
    <2>1. \A t \in added : Grant(t) \in [claims : Tokens, revokedBy : Commands \union {Absent}]
      BY DEF Grant
    <2>2. a.tokens \in SUBSET [claims : Tokens, revokedBy : Commands \union {Absent}]
      BY CredentialFields
    <2> QED
      BY <2>1, <2>2
  <1>2. \A t \in added : Grant(t) \in new /\ Grant(t).claims = t
    BY GrantTypes
  <1>3. \A g \in new : g.claims \in added
    BY <1>2
  <1> HIDE DEF new
  <1>4. /\ b \in Credentials /\ b.tokens = tokens /\ b.codes = a.codes /\ b.events = a.events
    BY <1>1, CredentialFields DEF Credentials
  <1> HIDE DEF b
  <1>5. Grants(b) = Grants(a) \union new
    BY <1>4 DEF Grants
  <1>6. \A g \in new : ~Holds(a, g.claims)
    <2> SUFFICES ASSUME NEW g \in new, NEW old \in Grants(a), old.claims = g.claims
                 PROVE  FALSE
      BY DEF Holds
    <2>1. old \notin a.tokens
      BY <1>3 DEF Granted
    <2>2. old \in a.codes
      BY <2>1 DEF Grants
    <2>3. old.claims \in Codes
      BY <2>2, CredentialFields
    <2>4. g.claims \in Tokens
      BY <1>3
    <2> QED
      BY <2>3, <2>4, TokensAreNoCodes
  <1>7. \A t \in added : Holds(b, t)
    BY <1>2, <1>5 DEF Holds
  <1>8. Succeeds(a, b)
    BY <1>3, <1>4, <1>5, <1>6 DEF Succeeds, Holds
  <1> QED
    BY <1>4, <1>7, <1>8 DEF b, tokens, new

LEMMA WithGrantIsIssue ==
  ASSUME NEW a \in Credentials, NEW t \in Tokens, t.by \notin Commands
  PROVE  LET b == [a EXCEPT !.tokens = WithGrant(@, t)]
         IN  Succeeds(a, b) /\ Len(b.events) = Len(a.events) /\ Holds(b, t)
  <1> DEFINE b == [a EXCEPT !.tokens = WithGrant(a.tokens, t)]
  <1>1. CASE Granted(a.tokens, t) = {}
    <2>1. b = [a EXCEPT !.tokens = a.tokens \union {Grant(u) : u \in {t}}]
      <3>1. {Grant(u) : u \in {t}} = {Grant(t)}
        OBVIOUS
      <3> QED
        BY <1>1, <3>1 DEF WithGrant
    <2>2. \A u \in {t} : Granted(a.tokens, u) = {} /\ u.by \notin Commands
      BY <1>1
    <2>3. {t} \in SUBSET Tokens
      OBVIOUS
    <2> HIDE DEF b
    <2>4. Succeeds(a, b) /\ Len(b.events) = Len(a.events) /\ \A u \in {t} : Holds(b, u)
      BY <2>1, <2>2, <2>3, IssueSucceeds
    <2> QED
      BY <2>4 DEF b
  <1>2. CASE Granted(a.tokens, t) # {}
    <2>1. b = a
      BY <1>2, CredentialFields DEF WithGrant, Credentials
    <2>2. Holds(a, t)
      BY <1>2 DEF Granted, Holds, Grants
    <2>3. Succeeds(a, a)
      BY DEF Succeeds, Holds
    <2> HIDE DEF b
    <2>4. Succeeds(a, b) /\ Len(b.events) = Len(a.events) /\ Holds(b, t)
      BY <2>1, <2>2, <2>3
    <2> QED
      BY <2>4 DEF b
  <1> QED
    BY <1>1, <1>2

(* Commands: rotation, revocation and a recovery code.                     *)
LEMMA NextCommand ==
  ASSUME NEW a \in Credentials, Accounted(a)
  PROVE  LET command == <<"command", Len(a.events) + 1>>
         IN  command \in Commands /\ \A g \in Grants(a) : g.claims.by # command
  <1> DEFINE command == <<"command", Len(a.events) + 1>>
  <1>1. Len(a.events) \in Nat
    BY CredentialFields
  <1>2. command \in Commands /\ command[2] = Len(a.events) + 1
    BY <1>1 DEF Commands
  <1>3. ASSUME NEW g \in Grants(a), g.claims.by = command
        PROVE  FALSE
    <2>1. command[2] <= Len(a.events)
      BY <1>2, <1>3 DEF Accounted
    <2> QED
      BY <1>1, <1>2, <2>1
  <1> QED
    BY <1>2, <1>3

LEMMA RecordedEvent ==
  ASSUME NEW a \in Credentials, NEW e \in AccessEvents
  PROVE  LET b == Recorded(a, e.command, e.kind, e.p, e.affected, e.result)
         IN  b \in Credentials /\ b.tokens = a.tokens /\ b.codes = a.codes /\ b.events = Append(a.events, e)
  <1> DEFINE f == [command |-> e.command, kind |-> e.kind, p |-> e.p, affected |-> e.affected, result |-> e.result]
             events == Append(a.events, e)
             b == [a EXCEPT !.events = events]
  <1>1. f = e
    BY DEF AccessEvents
  <1>2. events \in Seq(AccessEvents)
    BY CredentialFields, AppendProperties
  <1>3. Recorded(a, e.command, e.kind, e.p, e.affected, e.result) = b
    BY <1>1 DEF Recorded
  <1> HIDE DEF events
  <1>4. b \in Credentials /\ b.tokens = a.tokens /\ b.codes = a.codes /\ b.events = events
    BY <1>2, CredentialFields DEF Credentials
  <1> QED
    BY <1>3, <1>4 DEF events

LEMMA AffectedType ==
  ASSUME NEW a \in Credentials, NEW p
  PROVE  Affected(a, p) \in SUBSET (Tokens \union Codes)
  BY CredentialFields DEF Affected, ActiveOf

LEMMA RevokeSucceeds ==
  ASSUME NEW a \in Credentials, Accounted(a), NEW p \in Participants
  PROVE  Succeeds(a, RevokeAccess(a, <<"command", Len(a.events) + 1>>, p))
  <1> DEFINE command == <<"command", Len(a.events) + 1>>
             tokens == RevokeOf(a.tokens, p, command)
             codes == RevokeOf(a.codes, p, command)
             mid == [a EXCEPT !.tokens = tokens, !.codes = codes]
             e == [command |-> command, kind |-> "REVOKED", p |-> p, affected |-> Affected(a, p), result |-> Absent]
             b == Recorded(mid, e.command, e.kind, e.p, e.affected, e.result)
  <1>1. command \in Commands
    BY NextCommand
  <1>2. e \in AccessEvents
    BY <1>1, AffectedType DEF AccessEvents
  <1>3. RevokeAccess(a, command, p) = b
    BY DEF RevokeAccess
  <1>4. /\ e.kind = "REVOKED" /\ e.p = p /\ e.result = Absent
    OBVIOUS
  <1> HIDE DEF command, e
  <1>6. /\ tokens \in SUBSET [claims : Tokens, revokedBy : Commands \union {Absent}]
        /\ codes \in SUBSET [claims : Codes, revokedBy : Commands \union {Absent}]
    BY <1>1, CredentialFields, RevokeOfGrants
  <1>7. Revokes(a.tokens, tokens, p) /\ Revokes(a.codes, codes, p)
    <2>1. a.tokens \in SUBSET [claims : Tokens, revokedBy : Commands \union {Absent}]
      BY CredentialFields
    <2>2. a.codes \in SUBSET [claims : Codes, revokedBy : Commands \union {Absent}]
      BY CredentialFields
    <2>3. Revokes(a.tokens, tokens, p)
      BY <1>1, <2>1, RevokeOfGrants, Zenon
    <2>4. Revokes(a.codes, codes, p)
      BY <1>1, <2>2, RevokeOfGrants, Zenon
    <2> QED
      BY <2>3, <2>4
  <1> HIDE DEF tokens, codes
  <1>8. /\ b \in Credentials /\ b.tokens = tokens /\ b.codes = codes /\ b.events = Append(a.events, e)
    <2>1. mid \in Credentials /\ mid.tokens = tokens /\ mid.codes = codes /\ mid.events = a.events
      BY <1>6, CredentialFields DEF Credentials
    <2> HIDE DEF mid
    <2> QED
      BY <1>2, <2>1, RecordedEvent
  <1> HIDE DEF b
  <1>9. \A g \in Grants(a) : Holds(b, g.claims)
    BY <1>7, <1>8 DEF Grants, Holds, Revokes
  <1>10. \A g \in Grants(b) : \E old \in Grants(a) : old.claims = g.claims /\ (old.revokedBy # Absent => g.revokedBy # Absent)
    BY <1>7, <1>8 DEF Grants, Revokes
  <1>11. \A g \in Grants(b) : g.claims.p = p => g.revokedBy # Absent
    BY <1>7, <1>8 DEF Grants, Revokes
  <1>12. Succeeds(a, b)
    BY <1>2, <1>4, <1>8, <1>9, <1>10, <1>11 DEF Succeeds
  <1> QED
    BY <1>3, <1>12 DEF command

LEMMA WithGrantFacts ==
  ASSUME NEW grants, NEW t
  PROVE  /\ grants \subseteq WithGrant(grants, t)
         /\ \A g \in WithGrant(grants, t) : g \in grants \/ g = Grant(t)
         /\ \E g \in WithGrant(grants, t) : g.claims = t
  <1>1. Grant(t).claims = t
    BY DEF Grant
  <1> QED
    BY <1>1 DEF WithGrant, Granted

LEMMA RotateSucceeds ==
  ASSUME NEW a \in Credentials, Accounted(a), NEW p \in Participants, NEW expires \in Times
  PROVE  LET command == <<"command", Len(a.events) + 1>>
             b       == RotateAccess(a, command, p, expires)
         IN  Succeeds(a, b) /\ Holds(b, TokenClaims(p, expires, command))
  <1> DEFINE command == <<"command", Len(a.events) + 1>>
             token == TokenClaims(p, expires, command)
             revoked == RevokeOf(a.tokens, p, command)
             tokens == WithGrant(revoked, token)
             codes == RevokeOf(a.codes, p, command)
             mid == [a EXCEPT !.tokens = tokens, !.codes = codes]
             e == [command |-> command, kind |-> "ROTATED", p |-> p, affected |-> Affected(a, p), result |-> token]
             b == Recorded(mid, e.command, e.kind, e.p, e.affected, e.result)
  <1>1. command \in Commands /\ command[2] = Len(a.events) + 1 /\ \A g \in Grants(a) : g.claims.by # command
    BY NextCommand
  <1>2. token \in Tokens /\ token.by = command /\ token.p = p
    BY <1>1 DEF Tokens, TokenClaims
  <1>3. e \in AccessEvents
    BY <1>1, <1>2, AffectedType DEF AccessEvents
  <1>4. RotateAccess(a, command, p, expires) = b
    BY DEF RotateAccess
  <1>5. e.kind = "ROTATED" /\ e.p = p /\ e.result = token
    OBVIOUS
  <1> HIDE DEF command, e, token
  <1>6. /\ revoked \in SUBSET [claims : Tokens, revokedBy : Commands \union {Absent}]
        /\ codes \in SUBSET [claims : Codes, revokedBy : Commands \union {Absent}]
    BY <1>1, CredentialFields, RevokeOfGrants
  <1>7. Revokes(a.tokens, revoked, p) /\ Revokes(a.codes, codes, p)
    <2>1. a.tokens \in SUBSET [claims : Tokens, revokedBy : Commands \union {Absent}]
      BY CredentialFields
    <2>2. a.codes \in SUBSET [claims : Codes, revokedBy : Commands \union {Absent}]
      BY CredentialFields
    <2>3. Revokes(a.tokens, revoked, p)
      BY <1>1, <2>1, RevokeOfGrants, Zenon
    <2>4. Revokes(a.codes, codes, p)
      BY <1>1, <2>2, RevokeOfGrants, Zenon
    <2> QED
      BY <2>3, <2>4
  <1> HIDE DEF revoked, codes
  <1>8. /\ revoked \subseteq tokens
        /\ \A g \in tokens : g \in revoked \/ g = Grant(token)
        /\ \E g \in tokens : g.claims = token
    BY WithGrantFacts
  <1>9. tokens \in SUBSET [claims : Tokens, revokedBy : Commands \union {Absent}]
    BY <1>2, <1>6, <1>8 DEF Grant
  <1>10. Grant(token).claims = token
    BY DEF Grant
  <1> HIDE DEF tokens
  <1>11. /\ b \in Credentials /\ b.tokens = tokens /\ b.codes = codes /\ b.events = Append(a.events, e)
    <2>1. mid \in Credentials /\ mid.tokens = tokens /\ mid.codes = codes /\ mid.events = a.events
      BY <1>6, <1>9, CredentialFields DEF Credentials
    <2> HIDE DEF mid
    <2> QED
      BY <1>3, <2>1, RecordedEvent
  <1> HIDE DEF b
  <1>12. Len(b.events) = Len(a.events) + 1
    BY <1>3, <1>11, CredentialFields, AppendProperties
  <1>13. Holds(b, token)
    BY <1>8, <1>11 DEF Grants, Holds
  <1>14. \A g \in Grants(a) : Holds(b, g.claims)
    BY <1>7, <1>8, <1>11 DEF Grants, Holds, Revokes
  <1>15. \A g \in Grants(b) : g.claims = token \/ g \in revoked \union codes
    BY <1>8, <1>10, <1>11 DEF Grants
  <1>16. \A g \in revoked \union codes :
           /\ \E old \in Grants(a) : old.claims = g.claims /\ (old.revokedBy # Absent => g.revokedBy # Absent)
           /\ g.claims.p = p => g.revokedBy # Absent
    BY <1>7 DEF Grants, Revokes
  <1>17. ~Holds(a, token) /\ token.by[2] <= Len(b.events)
    <2>1. ~Holds(a, token)
      BY <1>1, <1>2 DEF Holds
    <2>2. token.by[2] = Len(b.events) /\ Len(b.events) \in Nat
      BY <1>1, <1>2, <1>12, CredentialFields
    <2> QED
      BY <2>1, <2>2
  <1>18. \A g \in Grants(b) :
           \/ \E old \in Grants(a) : old.claims = g.claims /\ (old.revokedBy # Absent => g.revokedBy # Absent)
           \/ ~Holds(a, g.claims) /\ (g.claims.by \in Commands => g.claims.by[2] <= Len(b.events))
    BY <1>15, <1>16, <1>17
  <1>19. \A g \in Grants(b) : Holds(a, g.claims) /\ g.claims.p = p => g.revokedBy # Absent
    BY <1>15, <1>16, <1>17
  <1>20. Succeeds(a, b)
    BY <1>3, <1>5, <1>11, <1>13, <1>14, <1>18, <1>19 DEF Succeeds
  <1> QED
    BY <1>4, <1>13, <1>20 DEF command, token

LEMMA RecoveryCodeSucceeds ==
  ASSUME NEW a \in Credentials, Accounted(a), NEW p \in Participants, NEW expires \in Times, NEW last \in Times
  PROVE  LET command == <<"command", Len(a.events) + 1>>
             b       == IssueRecoveryCode(a, command, p, <<expires, last>>)
         IN  Succeeds(a, b) /\ Holds(b, CodeClaims(command, p, <<expires, last>>))
  <1> DEFINE command == <<"command", Len(a.events) + 1>>
             code == CodeClaims(command, p, <<expires, last>>)
             codes == a.codes \union {Grant(code)}
             mid == [a EXCEPT !.codes = codes]
             e == [command |-> command, kind |-> "RECOVERY_ISSUED", p |-> p, affected |-> {}, result |-> code]
             b == Recorded(mid, e.command, e.kind, e.p, e.affected, e.result)
  <1>1. command \in Commands /\ command[2] = Len(a.events) + 1 /\ \A g \in Grants(a) : g.claims.by # command
    BY NextCommand
  <1>2. code \in Codes /\ code.by = command
    BY <1>1 DEF Codes, CodeClaims
  <1>3. e \in AccessEvents
    BY <1>1, <1>2 DEF AccessEvents
  <1>4. IssueRecoveryCode(a, command, p, <<expires, last>>) = b
    BY DEF IssueRecoveryCode
  <1>5. e.kind = "RECOVERY_ISSUED" /\ e.result = code
    OBVIOUS
  <1>6. Grant(code).claims = code /\ codes \in SUBSET [claims : Codes, revokedBy : Commands \union {Absent}]
    BY <1>2, CredentialFields DEF Grant
  <1>7. \A g \in codes : g \in a.codes \/ g.claims = code
    BY <1>6
  <1>8. a.codes \subseteq codes /\ \E g \in codes : g.claims = code
    BY <1>6
  <1> HIDE DEF command, e, code, codes
  <1>9. b \in Credentials /\ b.tokens = a.tokens /\ b.codes = codes /\ b.events = Append(a.events, e)
    <2>1. mid \in Credentials /\ mid.tokens = a.tokens /\ mid.codes = codes /\ mid.events = a.events
      BY <1>6, CredentialFields DEF Credentials
    <2> HIDE DEF mid
    <2> QED
      BY <1>3, <2>1, RecordedEvent
  <1> HIDE DEF b
  <1>10. Len(b.events) = Len(a.events) + 1
    BY <1>3, <1>9, CredentialFields, AppendProperties
  <1>11. Holds(b, code) /\ \A g \in Grants(a) : Holds(b, g.claims)
    BY <1>8, <1>9 DEF Grants, Holds
  <1>12. ~Holds(a, code)
    BY <1>1, <1>2 DEF Holds
  <1>13. code.by[2] <= Len(b.events)
    <2>1. code.by[2] = Len(b.events) /\ Len(b.events) \in Nat
      BY <1>1, <1>2, <1>10, CredentialFields
    <2> QED
      BY <2>1
  <1>14. \A g \in Grants(b) : g \in Grants(a) \/ g.claims = code
    BY <1>7, <1>9 DEF Grants
  <1>15. Succeeds(a, b)
    BY <1>3, <1>5, <1>9, <1>11, <1>12, <1>13, <1>14 DEF Succeeds
  <1> QED
    BY <1>4, <1>11, <1>15 DEF command, code

-----------------------------------------------------------------------------
(* A record is kept with new credentials.                                  *)
LEMMA CredentialsKeep ==
  ASSUME NEW r, Lawful(r), r.live # None, NEW a \in Credentials
  PROVE  LET q == [r EXCEPT !.credentials = a]
         IN  Lawful(q) /\ Grows(r, q) /\ q.credentials = a /\ q.live = r.live
  <1> DEFINE q == [r EXCEPT !.credentials = a]
  <1>1. r \in Records
    BY DEF Lawful
  <1>2. /\ q \in Records /\ q.credentials = a /\ q.live = r.live
        /\ q.facts = r.facts /\ q.placement = r.placement /\ q.rules = r.rules /\ q.controls = r.controls
        /\ q.compiled = r.compiled /\ q.approval = r.approval /\ q.publication = r.publication
        /\ q.amendment = r.amendment /\ q.superseded = r.superseded /\ q.closure = r.closure
    BY <1>1, RecordFields, NoneIsNothing DEF Records
  <1> HIDE DEF q
  <1>3. Lawful(q)
    BY <1>2 DEF Lawful, Settled, Current, Content, Applies
  <1>4. PublishedSoFar(q) = PublishedSoFar(r)
    BY <1>2 DEF PublishedSoFar
  <1>5. Extends(r.live.log, q.live.log) /\ Extends(r.live.publications, q.live.publications)
        /\ Extends(r.live.ops.events, q.live.ops.events)
    <2>1. r.live \in LiveStates
      BY <1>1, RecordFields DEF OrNone
    <2> QED
      BY <1>2, <2>1, LiveFields, ExtendsSelf
  <1>6. Grows(r, q)
    BY <1>1, <1>2, <1>4, <1>5, PublishedIsSequence, ExtendsSelf DEF Grows
  <1> QED
    BY <1>2, <1>3, <1>6 DEF q

(* Behaviours start from lawful records with nothing handed out.           *)
LEMMA StartIsLawful ==
  ASSUME NEW r, StartsFrom(r)
  PROVE  Lawful(r) /\ Guarded(r, {})
  <1> PICK f \in Facts, who \in People :
        LET published == Approve(Compile(NewRecord(f), None), who)
            running   == ActivateLive(published, Assigned)
        IN  \/ r = NewRecord(f)
            \/ /\ Compilable(NewRecord(f), 1)
               /\ r \in {published, running, [running EXCEPT !.credentials = NoCredentials]}
    BY DEF StartsFrom
  <1> DEFINE draft == NewRecord(f)
             compiled == Compile(draft, None)
             published == Approve(compiled, who)
             running == ActivateLive(published, Assigned)
             looked == [running EXCEPT !.credentials = NoCredentials]
  <1>1. /\ draft \in Records /\ draft.approval = None /\ draft.publication = None /\ draft.live = None
        /\ draft.closure = None /\ draft.credentials = None /\ draft.compiled = None
    BY NoneIsNothing DEF NewRecord, Records
  <1>2. Lawful(draft)
    BY <1>1 DEF Lawful, Settled, Current
  <1> HIDE DEF draft
  <1>3. Lawful(compiled) /\ compiled.credentials = None
    BY <1>1, <1>2, CompileSteps DEF Keeps
  <1>4. compiled.compiled # None /\ compiled.publication = None
    <2> DEFINE plan == [revision |-> NextRevision(draft), content |-> Content(draft)]
    <2>1. compiled = [draft EXCEPT !.compiled = plan]
      BY DEF Compile, Reusable
    <2>2. plan \in Plans
      BY <1>1, RecordFields, NextRevisionType, NoneIsNothing DEF Plans, Content, OrNone
    <2> HIDE DEF plan
    <2>3. compiled.compiled = plan /\ compiled.publication = draft.publication
      BY <1>1, <2>1 DEF Records
    <2> QED
      BY <1>1, <2>2, <2>3, JourneyAssumption
  <1> HIDE DEF compiled
  <1>5. Lawful(published) /\ published.credentials = None
    BY <1>3, <1>4, ApproveSteps DEF Keeps
  <1>6. published.publication # None /\ published.live = None
    <2>1. compiled \in Records /\ compiled.live = None
      BY <1>3, <1>4 DEF Lawful, Settled
    <2>2. published.publication = compiled.compiled /\ published.live = compiled.live
      BY <2>1 DEF Approve, Records
    <2> QED
      BY <1>4, <2>1, <2>2
  <1> HIDE DEF published
  <1>7. Lawful(running) /\ running.credentials = None
    BY <1>5, <1>6, ActivateSteps DEF Keeps
  <1>8. running.live # None
    <2>1. published \in Records /\ published.publication.revision \in Nat
      BY <1>5, <1>6, RecordFields DEF Lawful, OrNone, Plans
    <2>2. running.live = [base |-> published.publication.revision, log |-> <<>>, ops |-> CreateOperations(Assigned),
                          noShow |-> None, resource |-> None, publications |-> <<>>]
      BY <2>1 DEF ActivateLive, Records
    <2>3. running.live \in LiveStates
      BY <2>1, <2>2, NoEvents, NoneIsNothing DEF LiveStates
    <2> QED
      BY <2>3, JourneyAssumption
  <1> HIDE DEF running
  <1>9. NoCredentials \in Credentials /\ Accounted(NoCredentials)
    BY DEF NoCredentials, Credentials, Accounted, Grants
  <1>10. Lawful(looked) /\ looked.credentials = NoCredentials
    BY <1>7, <1>8, <1>9, CredentialsKeep
  <1> HIDE DEF looked
  <1>11. r \in {draft, published, running, looked}
    BY DEF draft, compiled, published, running, looked
  <1>12. Lawful(r) /\ (r.credentials = None \/ r.credentials = NoCredentials)
    BY <1>1, <1>2, <1>5, <1>7, <1>10, <1>11
  <1> QED
    BY <1>9, <1>12 DEF Guarded

LEMMA InitInvariant == Init => JourneyInv
  <1> SUFFICES ASSUME Init PROVE JourneyInv
    OBVIOUS
  <1>1. StartsFrom(scene.record)
    BY JourneyAssumption DEF Init
  <1>2. Lawful(scene.record) /\ Guarded(scene.record, {})
    BY <1>1, StartIsLawful
  <1>3. Grows(scene.record, scene.record)
    BY <1>2, GrowsSelf DEF Lawful
  <1> QED
    BY <1>2, <1>3 DEF Init, JourneyInv

-----------------------------------------------------------------------------
(* One step.  What a step owes the record in memory it owes the store as   *)
(* well, which is what memory was, is, or falls behind it.                 *)
Advances == JourneyInv' /\ Grows(disk, disk')

LEMMA SameCredentials ==
  ASSUME NEW r, NEW q, q.credentials = r.credentials, NEW out, Guarded(r, out)
  PROVE  Guarded(q, out)
  BY DEF Guarded

LEMMA StoreKeeps ==
  ASSUME JourneyInv, Up, NEW q, Keeps(memory, q), Store(q), handed' = handed
  PROVE  Advances
  <1>1. Lawful(memory) /\ Guarded(memory, handed) /\ Grows(disk, memory) /\ Lawful(disk)
    BY DEF JourneyInv, Up
  <1>2. Lawful(q) /\ Grows(memory, q) /\ Guarded(q, handed)
    BY <1>1, SameCredentials, Zenon DEF Keeps
  <1>3. disk \in Records /\ memory \in Records /\ q \in Records
    BY <1>1, <1>2 DEF Lawful
  <1>4. Grows(disk, q) /\ Grows(disk, disk) /\ Grows(q, q)
    BY <1>1, <1>2, <1>3, GrowsTransitive, GrowsSelf, Zenon
  <1>5. memory' = q /\ (disk' = q \/ disk' = disk)
    BY DEF Store
  <1>6. Grows(disk, disk') /\ Grows(disk', memory') /\ Lawful(memory') /\ Guarded(memory', handed)
    BY <1>2, <1>4, <1>5
  <1>7. Lawful(disk') /\ Guarded(disk', handed)
    BY <1>1, <1>2, <1>5 DEF JourneyInv
  <1> QED
    BY <1>6, <1>7 DEF JourneyInv, Advances

LEMMA NothingStored ==
  ASSUME JourneyInv, disk' = disk, handed' = handed, memory' \in {None, memory, disk}
  PROVE  Advances
  <1>1. Lawful(disk) /\ Guarded(disk, handed) /\ Grows(disk, disk)
    BY GrowsSelf DEF JourneyInv, Lawful
  <1>2. memory' # None => Lawful(memory') /\ Guarded(memory', handed) /\ Grows(disk, memory')
    BY <1>1 DEF JourneyInv
  <1> QED
    BY <1>1, <1>2 DEF JourneyInv, Advances

(* Credentials are handed out with the record that holds them.             *)
LEMMA GuardedSuccessor ==
  ASSUME NEW r, Lawful(r), r.credentials # None, NEW out, Guarded(r, out),
         NEW b, Succeeds(r.credentials, b)
  PROVE  LET q == [r EXCEPT !.credentials = b] IN Lawful(q) /\ Grows(r, q) /\ Guarded(q, out) /\ q.credentials = b
  <1>1. r.credentials \in Credentials /\ r.live # None
    BY RecordFields DEF Lawful, Settled, OrNone
  <1>2. b \in Credentials /\ b # None
    BY JourneyAssumption DEF Succeeds
  <1> DEFINE q == [r EXCEPT !.credentials = b]
  <1>3. Lawful(q) /\ Grows(r, q) /\ q.credentials = b
    BY <1>1, <1>2, CredentialsKeep, Zenon
  <1>4. Accounted(r.credentials) /\ \A h \in out : Holds(r.credentials, h.credential) /\ Shut(r.credentials, h)
    BY DEF Guarded
  <1>5. Accounted(b) /\ \A h \in out : Holds(b, h.credential) /\ Shut(b, h)
    <2>1. Accounted(b) /\ \A h : Holds(r.credentials, h.credential) /\ Shut(r.credentials, h) => Holds(b, h.credential) /\ Shut(b, h)
      BY <1>1, <1>4, SuccessorIsShut, Zenon
    <2> QED
      BY <1>4, <2>1, Zenon
  <1> HIDE DEF q
  <1>6. Guarded(q, out)
    BY <1>2, <1>3, <1>5 DEF Guarded
  <1> QED
    BY <1>3, <1>6 DEF q

LEMMA HandOutKeeps ==
  ASSUME JourneyInv, Granting, NEW b, Succeeds(A, b), NEW given, \A c \in given : Holds(b, c), HandOut(b, given)
  PROVE  Advances
  <1> DEFINE q    == [memory EXCEPT !.credentials = b]
             none == {[credential |-> c, after |-> Len(b.events)] : c \in {}}
             new  == {[credential |-> c, after |-> Len(b.events)] : c \in given}
  <1>1. /\ Lawful(memory) /\ Guarded(memory, handed) /\ Grows(disk, memory) /\ Lawful(disk) /\ Guarded(disk, handed)
        /\ memory # None /\ memory.credentials = A /\ A # None
    BY DEF JourneyInv, Granting, Live, Up, A
  <1>2. b \in Credentials /\ b # None /\ Len(b.events) \in Nat
    BY JourneyAssumption, CredentialFields DEF Succeeds
  <1>3. Lawful(q) /\ Grows(memory, q) /\ Guarded(q, handed) /\ q.credentials = b
    BY <1>1, GuardedSuccessor
  <1>4. A = b => q = memory
    <2>1. A \in Credentials
      BY <1>1, RecordFields DEF Lawful, OrNone
    <2>2. memory \in Records
      BY <1>1 DEF Lawful
    <2>3. memory = [memory EXCEPT !.credentials = memory.credentials]
      BY <2>2 DEF Records
    <2> QED
      BY <1>1, <2>3
  <1> HIDE DEF q
  <1>5. Guarded(q, handed \union new)
    <2>1. \A c \in given : Shut(b, [credential |-> c, after |-> Len(b.events)])
      BY <1>2, NewlyHandedOut
    <2>2. \A h \in new : Holds(b, h.credential) /\ Shut(b, h)
      BY <2>1
    <2> HIDE DEF new
    <2> QED
      BY <1>2, <1>3, <2>2 DEF Guarded
  <1> HIDE DEF new
  <1>6. memory' = q /\ disk' \in {disk, q}
    <2>1. CASE b = A
      BY <1>4, <2>1 DEF HandOut
    <2>2. CASE b # A
      BY <2>2 DEF HandOut, Store, q
    <2> QED
      BY <2>1, <2>2
  <1>7. IF disk' = memory' THEN handed' = handed \union new ELSE handed' = handed
    <2>1. none = {}
      OBVIOUS
    <2>2. CASE disk' = memory'
      BY <2>2 DEF HandOut, new
    <2>3. CASE disk' # memory'
      <3>1. handed' = handed \union none
        BY <2>3 DEF HandOut
      <3> QED
        BY <2>1, <2>3, <3>1
    <2> QED
      BY <2>2, <2>3
  <1>8. Grows(disk, disk') /\ Grows(disk', memory') /\ Lawful(disk') /\ Lawful(memory')
    <2>1. disk \in Records /\ memory \in Records /\ q \in Records
      BY <1>1, <1>3 DEF Lawful
    <2>2. Grows(disk, q) /\ Grows(disk, disk) /\ Grows(q, q)
      BY <1>1, <1>3, <2>1, GrowsTransitive, GrowsSelf, Zenon
    <2> QED
      BY <1>1, <1>3, <1>6, <2>2
  <1>9. Guarded(memory', handed') /\ Guarded(disk', handed')
    <2>1. Guarded(memory', handed')
      BY <1>3, <1>5, <1>6, <1>7
    <2>2. CASE disk' = memory'
      BY <2>1, <2>2
    <2>3. CASE disk' # memory'
      <3>1. disk' = disk
        BY <1>6, <2>3
      <3> QED
        BY <1>1, <1>7, <2>1, <2>3, <3>1
    <2> QED
      BY <2>2, <2>3
  <1>10. \A h \in handed' : h.after \in Nat
    BY <1>2, <1>7 DEF JourneyInv, new
  <1> QED
    BY <1>8, <1>9, <1>10 DEF JourneyInv, Advances

LEMMA QuietlyKeeps ==
  ASSUME JourneyInv, Up, NEW q, Keeps(memory, q), StoreQuietly(q)
  PROVE  Advances
  <1>1. Store(q) /\ handed' = handed
    BY DEF StoreQuietly
  <1> QED
    BY <1>1, StoreKeeps

LEMMA DraftKeeps == ASSUME JourneyInv, Edit \/ EditPlan PROVE Advances
  <1>1. Up /\ Lawful(memory) /\ memory.approval = None
    BY DEF Edit, EditPlan, Drafting, Editable, JourneyInv, Up
  <1>2. CASE Edit
    <2>1. PICK f \in Facts : StoreQuietly(Revise(memory, f)) \/ StoreQuietly(ReplaceSources(memory, f))
      BY <1>2 DEF Edit
    <2>2. Keeps(memory, Revise(memory, f)) /\ Keeps(memory, ReplaceSources(memory, f))
      BY <1>1, EditSteps
    <2> QED
      BY <1>1, <2>1, <2>2, QuietlyKeeps, Zenon
  <1>3. CASE EditPlan
    <2>1. CASE \E g \in Groupings : StoreQuietly(Place(memory, g))
      BY <1>1, <2>1, EditSteps, QuietlyKeeps, Zenon
    <2>2. CASE StoreQuietly(DrawAutomatically(memory))
      BY <1>1, <2>2, EditSteps, QuietlyKeeps, Zenon
    <2>3. CASE \E g \in OrNone(Groupings) : StoreQuietly(SetRules(memory, g))
      BY <1>1, <2>3, EditSteps, QuietlyKeeps, Zenon
    <2>4. CASE \E c \in BOOLEAN : StoreQuietly(SetControls(memory, c))
      BY <1>1, <2>4, EditSteps, QuietlyKeeps, Zenon
    <2> QED
      BY <1>3, <2>1, <2>2, <2>3, <2>4 DEF EditPlan, OrNone
  <1> QED
    BY <1>2, <1>3

(* However the draft changed while its solution was prepared, the plan     *)
(* recorded is that of the draft at the time it is recorded.               *)
LEMMA CompileKeeps == ASSUME JourneyInv, StartCompile \/ FinishCompile PROVE Advances
  <1>1. CASE StartCompile
    BY <1>1, NothingStored DEF StartCompile
  <1>2. CASE FinishCompile
    <2>1. Up /\ Lawful(memory)
      BY <1>2 DEF FinishCompile, JourneyInv, Up
    <2>2. CASE Compilable(memory, prepared.version) /\ NextRevision(memory) <= scene.revision
      <3>1. memory.approval = None
        BY <2>2 DEF Compilable, Editable
      <3>2. Keeps(memory, Compile(memory, prepared))
        BY <2>1, <3>1, CompileSteps
      <3>3. Store(Compile(memory, prepared)) /\ handed' = handed
        BY <1>2, <2>2 DEF FinishCompile
      <3> QED
        BY <2>1, <3>2, <3>3, StoreKeeps
    <2>3. CASE ~(Compilable(memory, prepared.version) /\ NextRevision(memory) <= scene.revision)
      <3>1. UNCHANGED <<scene, memory, disk, handed, now, faults>>
        BY <1>2, <2>3 DEF FinishCompile
      <3> QED
        BY <3>1, NothingStored
    <2> QED
      BY <2>2, <2>3
  <1> QED
    BY <1>1, <1>2

LEMMA PublishKeeps == ASSUME JourneyInv, ApproveAndPublish \/ ReopenForAmendment PROVE Advances
  <1>1. Up /\ Lawful(memory)
    BY DEF ApproveAndPublish, ReopenForAmendment, JourneyInv, Up
  <1>2. CASE ApproveAndPublish
    <2>1. PICK who \in People : StoreQuietly(Approve(memory, who))
      BY <1>2 DEF ApproveAndPublish
    <2>2. memory.compiled # None /\ memory.publication = None
      BY <1>2 DEF ApproveAndPublish, CanApprove
    <2>3. Keeps(memory, Approve(memory, who))
      BY <1>1, <2>2, ApproveSteps
    <2> QED
      BY <1>1, <2>1, <2>3, QuietlyKeeps
  <1>3. CASE ReopenForAmendment
    <2>1. memory.publication # None /\ memory.live = None /\ StoreQuietly(Amend(memory))
      BY <1>3 DEF ReopenForAmendment, CanAmend
    <2>2. Keeps(memory, Amend(memory))
      BY <1>1, <2>1, AmendSteps
    <2> QED
      BY <1>1, <2>1, <2>2, QuietlyKeeps
  <1> QED
    BY <1>2, <1>3

LEMMA PlayKeeps == ASSUME JourneyInv, Activate \/ Play \/ Command PROVE Advances
  <1>1. Up /\ Lawful(memory)
    BY DEF Activate, Play, Command, Live, JourneyInv, Up
  <1>2. CASE Activate
    <2>1. memory.publication # None /\ memory.live = None /\ StoreQuietly(ActivateLive(memory, Assigned))
      BY <1>2 DEF Activate, CanActivate
    <2>2. Keeps(memory, ActivateLive(memory, Assigned))
      BY <1>1, <2>1, ActivateSteps
    <2> QED
      BY <1>1, <2>1, <2>2, QuietlyKeeps
  <1>3. CASE Play
    <2>1. PICK kind \in {"START", "COMPLETE", "CORRECT", "WALKOVER"}, c \in Contests, w \in Sides :
            LET e == [kind |-> kind, contest |-> c, winner |-> IF kind = "START" THEN None ELSE w]
            IN  /\ CanSubmitLive(memory, OperationalRevision(memory), Len(memory.live.log), e)
                /\ StoreQuietly(SubmitLive(memory, e))
      BY <1>3 DEF Play
    <2> DEFINE e == [kind |-> kind, contest |-> c, winner |-> IF kind = "START" THEN None ELSE w]
    <2>2. e \in LogEvents
      BY DEF LogEvents, OrNone, Winners
    <2>3. memory.live # None /\ CanAdvance(Append(memory.live.log, e)) /\ StoreQuietly(SubmitLive(memory, e))
      BY <1>3, <2>1 DEF Play, Live, CanSubmitLive
    <2> HIDE DEF e
    <2>4. Keeps(memory, SubmitLive(memory, e))
      BY <1>1, <2>2, <2>3, PlaySteps
    <2> QED
      BY <1>1, <2>3, <2>4, QuietlyKeeps
  <1>4. CASE Command
    <2>1. PICK c \in Safety : CanOperate(memory, OperationalRevision(memory), c) /\ StoreQuietly(Operate(memory, c))
      BY <1>4 DEF Command
    <2>2. memory.live # None /\ Accepts(memory.live.ops, c)
      BY <1>4, <2>1 DEF Command, Live, CanOperate
    <2>3. Keeps(memory, Operate(memory, c))
      BY <1>1, <2>2, OperateSteps
    <2> QED
      BY <1>1, <2>1, <2>3, QuietlyKeeps
  <1> QED
    BY <1>2, <1>3, <1>4

LEMMA ProposalKeeps == ASSUME JourneyInv, Propose PROVE Advances
  <1>1. Up /\ Lawful(memory) /\ memory.live # None
    BY DEF Propose, Live, JourneyInv, Up
  <1>2. memory.live.log \in Seq(LogEvents)
    BY <1>1, RecordFields, LiveFields DEF Lawful, OrNone
  <1>3. ASSUME NEW by \in People, NEW c \in Contests, NEW w \in Sides, StoreQuietly(ProposeNoShow(memory, c, w, by))
        PROVE  Advances
    <2> DEFINE p == [base |-> memory.live.log, contest |-> c, winner |-> w, by |-> by]
    <2>1. p \in OrNone(NoShows)
      BY <1>2 DEF NoShows, OrNone
    <2>2. ProposeNoShow(memory, c, w, by) = [memory EXCEPT !.live.noShow = p]
      BY DEF ProposeNoShow
    <2> HIDE DEF p
    <2>3. Keeps(memory, [memory EXCEPT !.live.noShow = p])
      BY <1>1, <2>1, NoneIsNothing, ProposeSteps, Zenon
    <2> QED
      BY <1>1, <1>3, <2>2, <2>3, QuietlyKeeps, Zenon
  <1>4. ASSUME NEW by \in People, NEW kind \in {"COURT_OUTAGE", "DELAY_OVERRUN"}, StoreQuietly(ProposeResource(memory, kind, by))
        PROVE  Advances
    <2> DEFINE p == ResourceProposal(memory, kind, by)
    <2>1. p \in OrNone(Resources)
      BY <1>1, <1>2, OperationalType DEF ResourceProposal, Resources, OrNone
    <2>2. ProposeResource(memory, kind, by) = [memory EXCEPT !.live.noShow = None, !.live.resource = p]
      BY DEF ProposeResource
    <2> HIDE DEF p
    <2>3. None \in OrNone(NoShows)
      BY NoneIsNothing
    <2>4. Keeps(memory, [memory EXCEPT !.live.noShow = None, !.live.resource = p])
      BY <1>1, <2>1, <2>3, ProposeSteps, Zenon
    <2> QED
      BY <1>1, <1>4, <2>2, <2>4, QuietlyKeeps, Zenon
  <1> QED
    BY <1>3, <1>4 DEF Propose

LEMMA ApprovalKeeps == ASSUME JourneyInv, ApproveRepair PROVE Advances
  <1>1. Up /\ Lawful(memory) /\ memory.live # None
    BY DEF ApproveRepair, Live, JourneyInv, Up
  <1>2. ASSUME NEW by \in People, CanApproveNoShow(memory, memory.publication.revision, memory.live.noShow, by),
               StoreQuietly(ApproveNoShow(memory, by))
        PROVE  Advances
    <2>1. memory.live.noShow # None /\ memory.live.log = memory.live.noShow.base
      BY <1>2 DEF CanApproveNoShow
    <2>2. Keeps(memory, ApproveNoShow(memory, by))
      BY <1>1, <2>1, ApproveNoShowSteps
    <2> QED
      BY <1>1, <1>2, <2>2, QuietlyKeeps
  <1>3. ASSUME NEW by \in People, CanApproveResource(memory, OperationalRevision(memory), memory.live.resource, by),
               StoreQuietly(ApproveResourceChange(memory, by))
        PROVE  Advances
    <2>1. memory.live.resource # None /\ memory.live.log = memory.live.resource.base
      BY <1>3 DEF CanApproveResource
    <2>2. Keeps(memory, ApproveResourceChange(memory, by))
      BY <1>1, <2>1, ApproveResourceSteps
    <2> QED
      BY <1>1, <1>3, <2>2, QuietlyKeeps
  <1> QED
    BY <1>2, <1>3 DEF ApproveRepair

LEMMA ClosureKeeps == ASSUME JourneyInv, CloseCompetition PROVE Advances
  <1>1. Up /\ Lawful(memory) /\ memory.live # None
    BY DEF CloseCompetition, Live, JourneyInv, Up
  <1>2. PICK by \in People :
          /\ CanClose(memory, memory.publication.revision, OperationalRevision(memory), Len(memory.live.log), by)
          /\ StoreQuietly(Close(memory, by))
    BY DEF CloseCompetition
  <1>3. memory.closure = None /\ CanDeriveClosure(memory.live)
    BY <1>2 DEF CanClose, Projected
  <1>4. Keeps(memory, Close(memory, by))
    BY <1>1, <1>3, CloseSteps
  <1> QED
    BY <1>1, <1>2, <1>4, QuietlyKeeps

LEMMA GrantingFacts ==
  ASSUME JourneyInv, Granting
  PROVE  A \in Credentials /\ Accounted(A) /\ \A h \in handed : Holds(A, h.credential)
  <1>1. Lawful(memory) /\ Guarded(memory, handed) /\ memory.credentials # None /\ memory.credentials = A
    BY DEF JourneyInv, Granting, Live, Up, A
  <1>2. A \in Credentials
    BY <1>1, RecordFields DEF Lawful, OrNone
  <1> QED
    BY <1>1, <1>2 DEF Guarded

LEMMA IssueKeeps == ASSUME JourneyInv, GrantAccess PROVE Advances
  <1>1. Granting /\ A \in Credentials
    BY GrantingFacts DEF GrantAccess
  <1>2. ASSUME NEW expires \in Times, NEW p \in Participants,
               HandOut(IssueAccess(A, p, expires), {TokenClaims(p, expires, Absent)})
        PROVE  Advances
    <2> DEFINE t == TokenClaims(p, expires, Absent)
    <2>1. t \in Tokens /\ t.by \notin Commands
      BY JourneyAssumption DEF TokenClaims, Tokens
    <2>2. IssueAccess(A, p, expires) = [A EXCEPT !.tokens = WithGrant(@, t)]
      BY DEF IssueAccess
    <2> HIDE DEF t
    <2>3. Succeeds(A, IssueAccess(A, p, expires)) /\ Holds(IssueAccess(A, p, expires), t)
      BY <1>1, <2>1, <2>2, WithGrantIsIssue
    <2>4. \A c \in {t} : Holds(IssueAccess(A, p, expires), c)
      BY <2>3
    <2>5. HandOut(IssueAccess(A, p, expires), {t})
      BY <1>2 DEF t
    <2> QED
      BY <1>1, <2>3, <2>4, <2>5, HandOutKeeps, Zenon
  <1>3. ASSUME NEW expires \in Times,
               HandOut(IssueOfflinePack(A, expires), {TokenClaims(p, expires, Absent) : p \in Participants})
        PROVE  Advances
    <2> DEFINE missing == {p \in Participants : Granted(A.tokens, TokenClaims(p, expires, Absent)) = {}}
               added   == {TokenClaims(p, expires, Absent) : p \in missing}
               all     == {TokenClaims(p, expires, Absent) : p \in Participants}
               b       == IssueOfflinePack(A, expires)
    <2>1. \A p \in Participants : TokenClaims(p, expires, Absent) \in Tokens /\ TokenClaims(p, expires, Absent).by \notin Commands
      BY JourneyAssumption DEF TokenClaims, Tokens
    <2>2. added \in SUBSET Tokens /\ \A t \in added : Granted(A.tokens, t) = {} /\ t.by \notin Commands
      BY <2>1
    <2>3. b = [A EXCEPT !.tokens = A.tokens \union {Grant(t) : t \in added}]
      <3>1. {Grant(TokenClaims(p, expires, Absent)) : p \in missing} = {Grant(t) : t \in added}
        OBVIOUS
      <3>2. b = [A EXCEPT !.tokens = A.tokens \union {Grant(TokenClaims(p, expires, Absent)) : p \in missing}]
        BY DEF IssueOfflinePack
      <3> QED
        BY <3>1, <3>2, Zenon
    <2>4. \A t \in all : t \in added \/ Granted(A.tokens, t) # {}
      OBVIOUS
    <2> HIDE DEF missing, added, b
    <2>5. Succeeds(A, b) /\ \A t \in added : Holds(b, t)
      BY <1>1, <2>2, <2>3, IssueSucceeds
    <2>6. \A t \in all : Holds(b, t)
      <3> HIDE DEF all
      <3> SUFFICES ASSUME NEW t \in all, t \notin added PROVE Holds(b, t)
        BY <2>5
      <3>1. PICK g \in Grants(A) : g.claims = t
        BY <2>4 DEF Granted, Grants
      <3> QED
        BY <2>5, <3>1 DEF Succeeds
    <2>7. HandOut(b, all)
      BY <1>3 DEF b
    <2> HIDE DEF all
    <2> QED
      BY <1>1, <2>5, <2>6, <2>7, HandOutKeeps, Zenon
  <1> QED
    BY <1>2, <1>3 DEF GrantAccess

LEMMA ControlKeeps == ASSUME JourneyInv, ControlAccess PROVE Advances
  <1>1. Granting /\ A \in Credentials /\ Accounted(A)
    BY GrantingFacts DEF ControlAccess
  <1> DEFINE command == <<"command", Len(A.events) + 1>>
  <1>2. ASSUME NEW p \in Participants, NEW expires \in Times,
               HandOut(RotateAccess(A, command, p, expires), {TokenClaims(p, expires, command)})
        PROVE  Advances
    <2>1. Succeeds(A, RotateAccess(A, command, p, expires))
          /\ Holds(RotateAccess(A, command, p, expires), TokenClaims(p, expires, command))
      BY <1>1, RotateSucceeds, Zenon
    <2>2. \A c \in {TokenClaims(p, expires, command)} : Holds(RotateAccess(A, command, p, expires), c)
      BY <2>1, Zenon
    <2> QED
      BY <1>1, <1>2, <2>1, <2>2, HandOutKeeps, Zenon
  <1>3. ASSUME NEW p \in Participants, HandOut(RevokeAccess(A, command, p), {})
        PROVE  Advances
    <2>1. Succeeds(A, RevokeAccess(A, command, p))
      BY <1>1, RevokeSucceeds, Zenon
    <2> DEFINE nothing == {}
    <2>2. HandOut(RevokeAccess(A, command, p), nothing) /\ \A c \in nothing : Holds(RevokeAccess(A, command, p), c)
      BY <1>3
    <2> HIDE DEF nothing
    <2> QED
      BY <1>1, <2>1, <2>2, HandOutKeeps, Zenon
  <1>4. ASSUME NEW p \in Participants, NEW expires \in Times, NEW last \in Times,
               HandOut(IssueRecoveryCode(A, command, p, <<expires, last>>), {CodeClaims(command, p, <<expires, last>>)})
        PROVE  Advances
    <2>1. Succeeds(A, IssueRecoveryCode(A, command, p, <<expires, last>>))
          /\ Holds(IssueRecoveryCode(A, command, p, <<expires, last>>), CodeClaims(command, p, <<expires, last>>))
      BY <1>1, RecoveryCodeSucceeds, Zenon
    <2>2. \A c \in {CodeClaims(command, p, <<expires, last>>)} : Holds(IssueRecoveryCode(A, command, p, <<expires, last>>), c)
      BY <2>1, Zenon
    <2> QED
      BY <1>1, <1>4, <2>1, <2>2, HandOutKeeps, Zenon
  <1> QED
    BY <1>2, <1>3, <1>4, Zenon DEF ControlAccess

(* A repeated command answers with what is held, revoked or not.           *)
LEMMA RepeatKeeps == ASSUME JourneyInv, RepeatAccessCommand PROVE Advances
  <1>1. Granting /\ A \in Credentials /\ Accounted(A)
    BY GrantingFacts DEF RepeatAccessCommand
  <1>2. PICK k \in DOMAIN A.events : A.events[k].result # Absent /\ HandOut(A, {A.events[k].result})
    BY DEF RepeatAccessCommand
  <1>3. \A c \in {A.events[k].result} : Holds(A, c)
    BY <1>1, <1>2 DEF Accounted
  <1>4. Succeeds(A, A)
    BY <1>1 DEF Succeeds, Holds
  <1> QED
    BY <1>1, <1>2, <1>3, <1>4, HandOutKeeps, Zenon

LEMMA HeldCode ==
  ASSUME NEW a \in Credentials, NEW c, Holds(a, c), IsCode(c)
  PROVE  c \in Codes
  <1>1. PICK g \in Grants(a) : g.claims = c
    BY DEF Holds
  <1>2. c \in Tokens \/ c \in Codes
    BY <1>1, CredentialFields DEF Grants
  <1>3. c \notin Tokens
    BY DEF IsCode, Tokens
  <1> QED
    BY <1>2, <1>3

LEMMA RecoveryKeeps == ASSUME JourneyInv, Recover PROVE Advances
  <1>1. Granting /\ A \in Credentials /\ \A h \in handed : Holds(A, h.credential)
    BY GrantingFacts DEF Recover
  <1>2. PICK h \in handed :
          IsCode(h.credential) /\ HandOut(RecoverAccess(A, h.credential), {RecoveredToken(h.credential)})
    BY DEF Recover
  <1> DEFINE code == h.credential
             t    == RecoveredToken(code)
  <1>3. code \in Codes
    BY <1>1, <1>2, HeldCode
  <1>4. t \in Tokens /\ t.by \notin Commands
    <2>1. code.p \in Participants /\ code.accessExpires \in Times /\ code.by \in Commands
      BY <1>3 DEF Codes
    <2> HIDE DEF code
    <2>2. t = [p |-> code.p, expires |-> code.accessExpires, by |-> <<"recovery", code.by>>]
      BY DEF RecoveredToken, TokenClaims
    <2>3. <<"recovery", code.by>> \in {"recovery"} \X Commands
      BY <2>1
    <2>4. <<"recovery", code.by>> \notin Commands
      BY DEF Commands
    <2> QED
      BY <2>1, <2>2, <2>3, <2>4 DEF Tokens
  <1>5. RecoverAccess(A, code) = [A EXCEPT !.tokens = WithGrant(@, t)]
    BY DEF RecoverAccess
  <1> HIDE DEF t
  <1>6. Succeeds(A, RecoverAccess(A, code)) /\ Holds(RecoverAccess(A, code), t)
    BY <1>1, <1>4, <1>5, WithGrantIsIssue
  <1>7. \A c \in {t} : Holds(RecoverAccess(A, code), c)
    BY <1>6
  <1>8. HandOut(RecoverAccess(A, code), {t})
    BY <1>2 DEF t
  <1> HIDE DEF code
  <1> QED
    BY <1>1, <1>6, <1>7, <1>8, HandOutKeeps, Zenon

LEMMA TimeKeeps == ASSUME JourneyInv, Tick \/ Stop \/ Restart \/ UNCHANGED vars PROVE Advances
  <1>1. disk' = disk /\ handed' = handed /\ memory' \in {None, memory, disk}
    BY DEF Tick, Stop, Restart, vars
  <1> QED
    BY <1>1, NothingStored

LEMMA StepKeeps == JourneyInv /\ [Next]_vars => Advances
  BY DraftKeeps, CompileKeeps, PublishKeeps, PlayKeeps, ProposalKeeps, ApprovalKeeps, ClosureKeeps,
     IssueKeeps, ControlKeeps, RepeatKeeps, RecoveryKeeps, TimeKeeps
     DEF Next

-----------------------------------------------------------------------------
(* The inductive invariant.                                                *)
THEOREM JourneyInvariant == Spec => []JourneyInv
  <1>1. JourneyInv /\ [Next]_vars => JourneyInv'
    BY StepKeeps DEF Advances
  <1> QED
    BY InitInvariant, <1>1, PTL DEF Spec

(* Compiling reads the draft, prepares its solution while other requests   *)
(* are served, and records a plan afterwards: the plan on record is that   *)
(* of the draft as it stands, never of one edited meanwhile.               *)
THEOREM PlanStaysCurrent == Spec => []PlanIsCurrent
  <1>1. JourneyInv => PlanIsCurrent
    BY DEF JourneyInv, Lawful, Current, PlanIsCurrent, Up
  <1> QED
    BY JourneyInvariant, <1>1, PTL

(* A stop takes back the restart clearances given before it, so that no    *)
(* play on record resumed after a stop before both leads cleared it again. *)
THEOREM RestartsStayCleared == Spec => []PlayRestartsCleared
  <1>1. JourneyInv => PlayRestartsCleared
    BY DEF JourneyInv, Lawful, Ledger, PlayRestartsCleared
  <1> QED
    BY JourneyInvariant, <1>1, PTL

(* A rotation or revocation shuts out all that was handed out before it,   *)
(* through repeated commands, recoveries, failed writes and restarts.      *)
THEOREM RevokedStayOut == Spec => []RevokedStaysOut
  <1>1. JourneyInv => RevokedStaysOut
    <2> SUFFICES ASSUME JourneyInv, Granting, NEW h \in handed, NEW k \in DOMAIN A.events,
                        k > h.after, A.events[k].kind \in {"ROTATED", "REVOKED"}, A.events[k].p = h.credential.p
                 PROVE  ~Opens(A, h.credential)
      BY DEF RevokedStaysOut
    <2>1. Shut(A, h)
      BY DEF JourneyInv, Guarded, Granting, Live, Up, A
    <2>2. \A g \in Grants(A) : g.claims = h.credential => g.revokedBy # Absent
      BY <2>1 DEF Shut
    <2> QED
      BY <2>2 DEF Opens, CanRecover, ResolvesCode, ResolvesToken, Granted, Grants
  <1> QED
    BY JourneyInvariant, <1>1, PTL

(* Superseded publications, the live log, what was published during play   *)
(* and the closure, once in the store, stay there whatever is edited,      *)
(* amended, fails to be written or is loaded again.                        *)
THEOREM PublishedTruthGrows == Spec => DurableTruthOnlyGrows
  <1>1. JourneyInv /\ [Next]_vars => Grows(disk, disk')
    BY StepKeeps DEF Advances
  <1>2. Grows(disk, disk') =>
          /\ Extends(PublishedSoFar(disk), PublishedSoFar(disk'))
          /\ disk.live # None =>
               /\ disk'.live # None /\ Extends(disk.live.log, disk'.live.log)
               /\ Extends(disk.live.publications, disk'.live.publications)
               /\ Extends(disk.live.ops.events, disk'.live.ops.events)
          /\ disk.closure # None => disk'.closure = disk.closure
    BY DEF Grows
  <1>3. JourneyInv /\ [Next]_vars =>
          [/\ Extends(PublishedSoFar(disk), PublishedSoFar(disk'))
           /\ disk.live # None =>
                /\ disk'.live # None /\ Extends(disk.live.log, disk'.live.log)
                /\ Extends(disk.live.publications, disk'.live.publications)
                /\ Extends(disk.live.ops.events, disk'.live.ops.events)
           /\ disk.closure # None => disk'.closure = disk.closure]_vars
    BY <1>1, <1>2
  <1> QED
    BY JourneyInvariant, <1>3, PTL DEF Spec, DurableTruthOnlyGrows

(* The replay of the operations f, command by command, from the            *)
(* assignments they started with.                                          *)
Advanced(before, c) == IF before # None /\ Accepts(before, c) THEN ProjectEvent(before, c) ELSE None
ReplayAt(f, assigned, events, k) == IF k = 0 THEN CreateOperations(assigned) ELSE Advanced(f[k - 1], events[k])
IsReplay(f, assigned, events) == f = [k \in 0..Len(events) |-> ReplayAt(f, assigned, events, k)]

Replayed(s) == \E f : IsReplay(f, Assigned, s.events) /\ f[Len(s.events)] = s
Transferred(s) == \E k \in DOMAIN s.events : s.events[k].kind = "TRANSFER_AUTHORITY"

LEMMA ReplayIsUnique ==
  ASSUME NEW assigned, NEW events \in Seq(Safety),
         NEW f, IsReplay(f, assigned, events), NEW g, IsReplay(g, assigned, events)
  PROVE  f = g
  <1> DEFINE n == Len(events)
             differ == {k \in 1..n : f[n + 1 - k] # g[n + 1 - k]}
  <1>1. n \in Nat
    BY LenProperties
  <1>2. \A k \in 0..n : f[k] = ReplayAt(f, assigned, events, k) /\ g[k] = ReplayAt(g, assigned, events, k)
    BY DEF IsReplay
  <1>3. f[0] = g[0]
    BY <1>1, <1>2 DEF ReplayAt
  <1>4. ASSUME differ # {} PROVE FALSE
    <2>1. differ \in SUBSET (1..n)
      OBVIOUS
    <2>2. PICK i \in differ : \A j \in differ : j <= i
      <3> HIDE DEF differ
      <3> QED
        BY <1>1, <1>4, <2>1, LatestPlace
    <2> DEFINE k == n + 1 - i
    <2>3. i \in 1..n /\ k \in 1..n /\ f[k] # g[k]
      BY <1>1
    <2>4. f[k - 1] = g[k - 1]
      <3>1. CASE i = n
        BY <1>1, <1>3, <3>1
      <3>2. CASE i # n
        <4>1. i + 1 \in 1..n /\ ~(i + 1 <= i) /\ n + 1 - (i + 1) = k - 1
          BY <1>1, <2>3, <3>2
        <4>2. i + 1 \notin differ
          BY <2>2, <4>1
        <4> QED
          BY <4>1, <4>2
      <3> QED
        BY <3>1, <3>2
    <2>5. k \in 0..n /\ k # 0
      BY <1>1, <2>3
    <2> HIDE DEF k
    <2>6. f[k] = g[k]
      BY <1>2, <2>4, <2>5 DEF ReplayAt
    <2> QED
      BY <2>3, <2>6
  <1>5. \A k \in 0..n : f[k] = g[k]
    <2> SUFFICES ASSUME NEW k \in 0..n, k # 0 PROVE f[k] = g[k]
      BY <1>3
    <2>1. n + 1 - k \in 1..n /\ n + 1 - (n + 1 - k) = k
      BY <1>1
    <2>2. n + 1 - k \notin differ
      BY <1>4
    <2> QED
      BY <2>1, <2>2
  <1>6. f = [k \in 0..n |-> f[k]] /\ g = [k \in 0..n |-> g[k]]
    <2>1. f = [k \in 0..n |-> ReplayAt(f, assigned, events, k)] /\ g = [k \in 0..n |-> ReplayAt(g, assigned, events, k)]
      BY DEF IsReplay
    <2> QED
      BY <2>1
  <1> QED
    BY <1>5, <1>6

(* Replayed operations that nobody transferred are what the verifier       *)
(* replays.                                                                *)
LEMMA ReplayVerifies ==
  ASSUME NEW s \in Operations, Replayed(s), s.assigned = Assigned
  PROVE  VerifyOperations(s)
  <1> DEFINE n == Len(s.events)
             g == CHOOSE g : IsReplay(g, Assigned, s.events)
  <1>1. PICK f : IsReplay(f, Assigned, s.events) /\ f[n] = s
    BY DEF Replayed
  <1>2. IsReplay(g, Assigned, s.events)
    BY <1>1
  <1> HIDE DEF g
  <1>3. s.events \in Seq(Safety)
    BY DEF Operations
  <1>4. g = f
    BY <1>1, <1>2, <1>3, ReplayIsUnique
  <1>5. VerifyOperations(s) <=> g[n] = s
    <2> DEFINE h == CHOOSE h : h = [k \in 0..Len(s.events) |-> IF k = 0 THEN CreateOperations(s.assigned)
                 ELSE IF h[k - 1] # None /\ Accepts(h[k - 1], s.events[k]) THEN ProjectEvent(h[k - 1], s.events[k]) ELSE None]
    <2>1. VerifyOperations(s) <=> h[n] = s
      BY Zenon DEF VerifyOperations
    <2>2. h = CHOOSE replay : IsReplay(replay, s.assigned, s.events)
      BY Zenon DEF IsReplay, ReplayAt, Advanced
    <2> HIDE DEF h
    <2> QED
      BY <2>1, <2>2 DEF g
  <1> QED
    BY <1>1, <1>4, <1>5

(* A command that is accepted prolongs the replay.                         *)
LEMMA ReplayGrows ==
  ASSUME NEW s \in Operations, Replayed(s), NEW c \in Safety, Accepts(s, c)
  PROVE  Replayed(ProjectEvent(s, c))
  <1> DEFINE n == Len(s.events)
             q == ProjectEvent(s, c)
             events == Append(s.events, c)
  <1>1. PICK f : IsReplay(f, Assigned, s.events) /\ f[n] = s
    BY DEF Replayed
  <1>2. s.events \in Seq(Safety) /\ n \in Nat
    BY LenProperties DEF Operations
  <1>3. q.events = events
    BY ProjectType
  <1>4. Len(events) = n + 1 /\ events[n + 1] = c /\ \A k \in 1..n : events[k] = s.events[k]
    BY <1>2, AppendProperties
  <1> HIDE DEF events, q
  <1> DEFINE g == [k \in 0..(n + 1) |-> IF k = n + 1 THEN q ELSE f[k]]
  <1>5. \A k \in 0..n : f[k] = ReplayAt(f, Assigned, s.events, k)
    BY <1>1 DEF IsReplay
  <1>6. ASSUME NEW k \in 0..(n + 1)
        PROVE  g[k] = ReplayAt(g, Assigned, events, k)
    <2>1. CASE k = n + 1
      <3>1. k # 0 /\ g[k] = q /\ g[k - 1] = f[n] /\ events[k] = c
        BY <1>2, <1>4, <2>1
      <3>2. s # None
        BY JourneyAssumption
      <3> HIDE DEF g
      <3> QED
        BY <1>1, <3>1, <3>2 DEF ReplayAt, Advanced, q
    <2>2. CASE k # n + 1 /\ k # 0
      <3>1. k \in 1..n /\ k \in 0..n /\ k - 1 \in 0..(n + 1) /\ k - 1 # n + 1 /\ g[k] = f[k] /\ g[k - 1] = f[k - 1] /\ events[k] = s.events[k]
        BY <1>2, <1>4, <2>2
      <3> HIDE DEF g
      <3> QED
        BY <1>5, <3>1 DEF ReplayAt
    <2>3. CASE k # n + 1 /\ k = 0
      <3>1. k \in 0..n /\ g[k] = f[k]
        BY <1>2, <2>3
      <3> HIDE DEF g
      <3> QED
        BY <1>5, <2>3, <3>1 DEF ReplayAt
    <2> QED
      BY <2>1, <2>2, <2>3
  <1>7. IsReplay(g, Assigned, events)
    <2>1. g = [k \in 0..(n + 1) |-> g[k]]
      OBVIOUS
    <2> HIDE DEF g
    <2> QED
      BY <1>4, <1>6, <2>1 DEF IsReplay
  <1>8. g[n + 1] = q
    BY <1>2
  <1> HIDE DEF g
  <1> QED
    BY <1>3, <1>4, <1>7, <1>8 DEF Replayed, q

(* What a log extends is a prefix of it, as the load asks.                 *)
LEMMA ExtendsIsPrefix ==
  ASSUME NEW S, NEW s \in Seq(S), NEW t \in Seq(S), Extends(s, t)
  PROVE  Seqs!IsPrefix(s, t)
  <1>1. SubSeq(s, 1, Len(s)) = s
    BY SubSeqFull
  <1> QED
    BY <1>1 DEF Extends, Seqs!IsPrefix

(* What the results demand of the final, and what the log says of it, as   *)
(* the log grows.                                                          *)
Decided(log) == (\A k \in DOMAIN log : log[k].kind # "WALKOVER") => ExpectedResolution(log) = Resolved(log)

LEMMA AppendedPlaces ==
  ASSUME NEW log \in Seq(LogEvents), NEW e \in LogEvents
  PROVE  LET n == Len(log)
             new == Append(log, e)
         IN  /\ new \in Seq(LogEvents) /\ n \in Nat /\ DOMAIN log = 1..n /\ DOMAIN new = 1..(n + 1)
             /\ new[n + 1] = e /\ \A k \in 1..n : new[k] = log[k]
  BY AppendProperties, LenProperties

LEMMA LastOfPrefix ==
  ASSUME NEW log \in Seq(LogEvents), NEW e \in LogEvents, NEW at \in SUBSET DOMAIN log, at # {}
  PROVE  LastOf(Append(log, e), at) = LastOf(log, at)
  <1> DEFINE i == CHOOSE k \in at : \A j \in at : j <= k
             new == Append(log, e)
  <1>1. Len(log) \in Nat /\ DOMAIN log = 1..Len(log) /\ \A k \in 1..Len(log) : new[k] = log[k]
    BY AppendedPlaces
  <1>2. \E k \in at : \A j \in at : j <= k
    BY <1>1, LatestPlace
  <1>3. i \in at
    BY <1>2
  <1>4. new[i] = log[i]
    BY <1>1, <1>3
  <1> HIDE DEF new
  <1>5. LastOf(new, at) = new[i] /\ LastOf(log, at) = log[i]
    BY DEF LastOf
  <1> QED
    BY <1>4, <1>5 DEF new

LEMMA LastOfAppended ==
  ASSUME NEW log \in Seq(LogEvents), NEW e \in LogEvents, NEW at \in SUBSET DOMAIN log
  PROVE  LastOf(Append(log, e), at \union {Len(log) + 1}) = e
  <1> DEFINE n == Len(log)
             all == at \union {n + 1}
             new == Append(log, e)
             i == CHOOSE k \in all : \A j \in all : j <= k
  <1>1. n \in Nat /\ at \subseteq 1..n /\ new[n + 1] = e
    BY AppendedPlaces
  <1>2. n + 1 \in all /\ \A j \in all : j <= n + 1
    BY <1>1
  <1>3. \A k \in all : n + 1 <= k => k = n + 1
    BY <1>1
  <1>4. i \in all /\ \A j \in all : j <= i
    <2> HIDE DEF all
    <2> QED
      BY <1>2
  <1> HIDE DEF all
  <1>5. i = n + 1
    BY <1>2, <1>3, <1>4
  <1> HIDE DEF new
  <1>6. LastOf(new, all) = new[i]
    BY DEF LastOf
  <1> QED
    BY <1>1, <1>5, <1>6 DEF all, new

(* What is about no contest changes no result.                             *)
LEMMA AsideKeepsResults ==
  ASSUME NEW log \in Seq(LogEvents), NEW e \in LogEvents, e.kind \in {"RESOLVE", "CLOSE_COURT"}
  PROVE  ExpectedResolution(Append(log, e)) = ExpectedResolution(log)
  <1> DEFINE new == Append(log, e)
             n == Len(log)
  <1>1. /\ n \in Nat /\ DOMAIN log = 1..n /\ DOMAIN new = 1..(n + 1) /\ new[n + 1] = e
        /\ \A k \in 1..n : new[k] = log[k]
    BY AppendedPlaces
  <1> HIDE DEF new
  <1>2. \A c : About(new, c) = About(log, c)
    BY <1>1 DEF About
  <1>3. \A c : About(log, c) \in SUBSET DOMAIN log
    BY DEF About
  <1>4. \A c : About(log, c) # {} => LastOf(new, About(log, c)) = LastOf(log, About(log, c))
    BY <1>3, LastOfPrefix, Zenon DEF new
  <1>5. \A c : Status(new, c) = Status(log, c)
    BY <1>2, <1>4 DEF Status
  <1>6. \A c : Terminal(new, c) <=> Terminal(log, c)
    BY <1>5 DEF Terminal
  <1>7. \A c : Terminal(log, c) => Winner(new, c) = Winner(log, c)
    <2>1. \A c : Terminal(log, c) => About(log, c) # {}
      BY DEF Terminal, Status
    <2> QED
      BY <1>2, <1>4, <2>1 DEF Winner
  <1>8. (\A c \in Pool : Terminal(log, c)) => [c \in Pool |-> Winner(new, c)] = [c \in Pool |-> Winner(log, c)]
    BY <1>7
  <1>9. ExpectedResolution(new) = ExpectedResolution(log)
    BY <1>6, <1>8 DEF ExpectedResolution
  <1> QED
    BY <1>9 DEF new

LEMMA ClosedCourtDecides ==
  ASSUME NEW log \in Seq(LogEvents), NEW e \in LogEvents, e.kind = "CLOSE_COURT", Decided(log)
  PROVE  Decided(Append(log, e))
  <1> DEFINE new == Append(log, e)
             n == Len(log)
             at == {i \in DOMAIN log : log[i].kind = "RESOLVE"}
  <1>1. /\ n \in Nat /\ DOMAIN log = 1..n /\ DOMAIN new = 1..(n + 1) /\ new[n + 1] = e
        /\ \A k \in 1..n : new[k] = log[k]
    BY AppendedPlaces
  <1>2. at \in SUBSET DOMAIN log /\ (at # {} => LastOf(new, at) = LastOf(log, at))
    BY LastOfPrefix
  <1>3. ExpectedResolution(new) = ExpectedResolution(log)
    BY AsideKeepsResults
  <1> HIDE DEF new
  <1>4. {i \in DOMAIN new : new[i].kind = "RESOLVE"} = at
    BY <1>1
  <1>5. Resolved(new) = Resolved(log)
    BY <1>2, <1>4 DEF Resolved
  <1>6. (\A k \in DOMAIN new : new[k].kind # "WALKOVER") => \A k \in DOMAIN log : log[k].kind # "WALKOVER"
    BY <1>1
  <1>7. Decided(new)
    BY <1>3, <1>5, <1>6 DEF Decided
  <1> QED
    BY <1>7 DEF new

LEMMA WalkoverDecides ==
  ASSUME NEW log \in Seq(LogEvents), NEW e \in LogEvents, e.kind = "WALKOVER"
  PROVE  Decided(Append(log, e))
  <1> DEFINE new == Append(log, e)
             n == Len(log)
  <1>1. n \in Nat /\ DOMAIN new = 1..(n + 1) /\ new[n + 1] = e
    BY AppendedPlaces
  <1> HIDE DEF new
  <1>2. n + 1 \in DOMAIN new /\ new[n + 1].kind = "WALKOVER"
    BY <1>1
  <1>3. Decided(new)
    BY <1>2 DEF Decided
  <1> QED
    BY <1>3 DEF new

(* Play resolves the final as the results demand.                          *)
LEMMA AdvanceDecides ==
  ASSUME NEW log \in Seq(LogEvents), CanAdvance(log)
  PROVE  Decided(AdvanceLiveProgression(log))
  <1> DEFINE e == [kind |-> "RESOLVE", contest |-> Final, winner |-> ExpectedResolution(log)]
             new == Append(log, e)
             n == Len(log)
             at == {i \in DOMAIN log : log[i].kind = "RESOLVE"}
  <1>1. CASE ExpectedResolution(log) = Resolved(log)
    BY <1>1 DEF AdvanceLiveProgression, Decided
  <1>2. CASE ExpectedResolution(log) # Resolved(log)
    <2>1. ExpectedResolution(log) \in [Pool -> Winners]
      BY <1>2, ResolutionType DEF CanAdvance
    <2>2. e \in LogEvents /\ e.kind = "RESOLVE" /\ e.winner = ExpectedResolution(log)
      BY <2>1 DEF LogEvents
    <2>3. AdvanceLiveProgression(log) = new
      BY <1>2 DEF AdvanceLiveProgression
    <2> HIDE DEF e
    <2>4. /\ n \in Nat /\ DOMAIN log = 1..n /\ DOMAIN new = 1..(n + 1) /\ new[n + 1] = e
          /\ \A k \in 1..n : new[k] = log[k]
      BY <2>2, AppendedPlaces
    <2>5. ExpectedResolution(new) = ExpectedResolution(log)
      BY <2>2, AsideKeepsResults
    <2>6. at \in SUBSET DOMAIN log
      OBVIOUS
    <2>7. LastOf(new, at \union {n + 1}) = e
      <3> HIDE DEF at
      <3> QED
        BY <2>2, <2>6, LastOfAppended
    <2> HIDE DEF new
    <2>8. {i \in DOMAIN new : new[i].kind = "RESOLVE"} = at \union {n + 1}
      BY <2>2, <2>4
    <2>9. Resolved(new) = e.winner
      <3> HIDE DEF at
      <3> QED
        BY <2>7, <2>8 DEF Resolved
    <2>10. Decided(new)
      BY <2>2, <2>5, <2>9 DEF Decided
    <2> QED
      BY <2>3, <2>10
  <1> QED
    BY <1>1, <1>2

(* Before play nothing is decided: the pool has contests to be played.     *)
LEMMA NothingIsDecided == Decided(<<>>)
  <1> DEFINE empty == <<>>
  <1>1. DOMAIN empty = {}
    OBVIOUS
  <1> HIDE DEF empty
  <1>2. \A c : ~Terminal(empty, c)
    BY <1>1 DEF Terminal, Status, About
  <1>3. ExpectedResolution(empty) = None
    BY <1>2, JourneyAssumption DEF ExpectedResolution
  <1>4. Resolved(empty) = None
    BY <1>1 DEF Resolved
  <1>5. Decided(empty)
    BY <1>3, <1>4 DEF Decided
  <1> QED
    BY <1>5 DEF empty

-----------------------------------------------------------------------------
(* What else a stored record keeps, so that it loads again.  The history   *)
(* of edits tells the draft as it stands.                                  *)
Noted(r) == r.history = [placed |-> r.placement, rules |-> r.rules, controls |-> r.controls]

(* Who approved a plan approved what is published, and an amendment is     *)
(* compiled under a revision past the one it amends.                       *)
Reviewed(r) ==
  /\ r.approval # None => r.publication # None /\ r.approval.revision = r.publication.revision
  /\ r.amendment # None =>
       /\ r.amendment.approval.revision = r.amendment.publication.revision
       /\ r.compiled # None => r.compiled.revision > r.amendment.publication.revision

(* Play l of a revision: its operations replay, its log decides the final, *)
(* and its proposal and its latest repair are of logs it went through.     *)
Proposed(revision, l) ==
  l.resource # None =>
    /\ Extends(l.resource.base, l.log)
    /\ l.resource.revision = revision \/ \E k \in DOMAIN l.publications : l.publications[k].revision = l.resource.revision
Repair(l, p) ==
  /\ Extends(p.log, l.log)
  /\ p.revision = p.base + 1
  /\ IF p.kind = "NO_SHOW" THEN p.proposal \in NoShows /\ p.base = l.base
     ELSE p.proposal \in Resources /\ p.kind = p.proposal.kind
  /\ p.proposal # None /\ p.by # p.proposal.by
Sound(revision, l) ==
  /\ Replayed(l.ops) /\ (Transferred(l.ops) \/ l.ops.assigned = Assigned)
  /\ Decided(l.log)
  /\ Proposed(revision, l)
  /\ l.publications # <<>> => Repair(l, Latest(l))

(* Access of participants: a token or a code has one grant, and commands,  *)
(* numbered as they come, did what they answered.                          *)
Unique(grants) == \A g, h \in grants : g.claims = h.claims => g = h
RevokedBy(grants, e) == {g.claims : g \in {h \in grants : h.claims.p = e.p /\ h.revokedBy = e.command}}
Answered(tokens, codes, e) ==
  /\ e.kind = "ROTATED" => e.result.p = e.p /\ e.result.by = e.command /\ Granted(tokens, e.result) # {}
  /\ e.kind = "RECOVERY_ISSUED" => e.result.p = e.p /\ e.result.by = e.command /\ Granted(codes, e.result) # {}
  /\ e.kind \in {"ROTATED", "REVOKED"} => e.affected \subseteq RevokedBy(tokens, e) \union RevokedBy(codes, e)
Evidenced(a) ==
  /\ Unique(a.tokens) /\ Unique(a.codes)
  /\ \A k \in DOMAIN a.events :
       a.events[k].command = <<"command", k>> /\ Answered(a.tokens, a.codes, a.events[k])

Kept(r) ==
  /\ Noted(r)
  /\ Reviewed(r)
  /\ r.live # None => Sound(r.publication.revision, r.live)
  /\ VerifyClosure(r)
  /\ r.credentials # None => Evidenced(r.credentials)

LEMMA ProposalsDiffer ==
  ASSUME NEW n \in NoShows, NEW p \in Resources
  PROVE  n # p
  <1>1. DOMAIN n = {"base", "contest", "winner", "by"} /\ DOMAIN p = {"kind", "revision", "base", "by"}
    BY DEF NoShows, Resources
  <1>2. "contest" \in DOMAIN n /\ "contest" \notin DOMAIN p
    BY <1>1
  <1> QED
    BY <1>2

LEMMA EvidencedVerifies ==
  ASSUME NEW a \in Credentials, Evidenced(a)
  PROVE  VerifyParticipantCredentials(a)
  <1>1. \A grants \in {a.tokens, a.codes} : \A g, h \in grants : g.claims = h.claims => g = h
    BY DEF Evidenced, Unique
  <1>2. DOMAIN a.events = 1..Len(a.events) /\ Len(a.events) \in Nat
    BY CredentialFields
  <1>3. ASSUME NEW k \in DOMAIN a.events, NEW j \in 1..(k - 1)
        PROVE  a.events[j].command # a.events[k].command
    <2>1. j \in DOMAIN a.events /\ j # k
      BY <1>2
    <2>2. a.events[j].command = <<"command", j>> /\ a.events[k].command = <<"command", k>>
      BY <2>1 DEF Evidenced
    <2> QED
      BY <2>1, <2>2
  <1>4. \A k \in DOMAIN a.events : Answered(a.tokens, a.codes, a.events[k])
    BY DEF Evidenced
  <1> QED
    BY <1>1, <1>3, <1>4 DEF VerifyParticipantCredentials, Answered, RevokedBy

(* Kept records load, but for what is known to leave a store that does not.*)
LEMMA KeptLoads ==
  ASSUME Lawful(disk), Kept(disk)
  PROVE  ReopensOtherwise
  <1> DEFINE r == disk
             l == disk.live
  <1>1. r \in Records /\ Settled(r)
    BY DEF Lawful
  <1> SUFFICES ASSUME ~RulesOutlivedTheirPools, ~AmendmentWasCompiledTwice,
                      l # None => ~AuthorityWasTransferred /\ ~PublishedProposalWasReplaced /\ ~NoShowDecidedThePool
               PROVE  Loads(r)
    BY DEF ReopensOtherwise
  <1>2. VerifyStoredPoolMembership(r) /\ VerifyStoredScheduleControls(r)
    <2>1. r.history.rules = r.rules /\ r.history.placed = r.placement /\ r.history.controls = r.controls
      BY DEF Kept, Noted
    <2>2. r.rules # None => r.rules \in r.facts.met /\ (r.placement # None => r.placement.grouping = r.rules)
      BY DEF RulesOutlivedTheirPools
    <2> QED
      BY <2>1, <2>2 DEF VerifyStoredPoolMembership, VerifyStoredScheduleControls
  <1>3. VerifyAmendment(r)
    <2> SUFFICES ASSUME r.amendment # None
                 PROVE  /\ r.live = None /\ r.closure = None /\ r.approval = None /\ r.publication = None
                        /\ r.amendment.approval.revision = r.amendment.publication.revision
                        /\ r.compiled # None => r.compiled.revision = r.amendment.publication.revision + 1
      BY DEF VerifyAmendment
    <2>1. r.publication = None /\ r.live = None /\ r.closure = None
      BY <1>1 DEF Settled
    <2>2. r.approval = None /\ r.amendment.approval.revision = r.amendment.publication.revision
      BY <2>1 DEF Kept, Reviewed
    <2>3. ASSUME r.compiled # None
          PROVE  r.compiled.revision = r.amendment.publication.revision + 1
      <3>1. r.compiled \in Plans /\ r.amendment.publication \in Plans
        BY <1>1, <2>3, RecordFields DEF OrNone, Amendments
      <3>2. r.compiled.revision \in Nat /\ r.amendment.publication.revision \in Nat
        BY <3>1 DEF Plans
      <3>3. r.compiled.revision > r.amendment.publication.revision
        BY <2>3 DEF Kept, Reviewed
      <3>4. ~(r.compiled.revision > r.amendment.publication.revision + 1)
        BY <2>3 DEF AmendmentWasCompiledTwice
      <3> QED
        BY <3>2, <3>3, <3>4
    <2> QED
      BY <2>1, <2>2, <2>3
  <1>4. r.live = None => r.closure = None
    BY <1>1 DEF Settled
  <1>5. ASSUME l # None
        PROVE  /\ VerifyOperations(l.ops) /\ l.ops.assigned = Assigned
               /\ VerifyLiveProgression(l.log) /\ VerifyResourceProposal(r) /\ VerifyLivePublication(r)
    <2>1. l \in LiveStates /\ Sound(r.publication.revision, l)
      BY <1>1, <1>5, RecordFields DEF OrNone, Kept
    <2>2. /\ l.log \in Seq(LogEvents) /\ l.ops \in Operations /\ l.publications \in Seq(LivePublications)
          /\ l.noShow \in OrNone(NoShows) /\ l.resource \in OrNone(Resources)
      BY <2>1, LiveFields
    <2>3. l.ops.assigned = Assigned
      BY <1>5, <2>1 DEF Sound, Transferred, AuthorityWasTransferred
    <2>4. VerifyOperations(l.ops)
      BY <2>1, <2>2, <2>3, ReplayVerifies DEF Sound
    <2>5. VerifyLiveProgression(l.log)
      BY <1>5, <2>1 DEF VerifyLiveProgression, Sound, Decided, NoShowDecidedThePool
    <2>6. VerifyResourceProposal(r)
      <3> SUFFICES ASSUME l.resource # None
                   PROVE  /\ Seqs!IsPrefix(l.resource.base, l.log)
                          /\ \/ l.resource.revision = r.publication.revision
                             \/ \E k \in DOMAIN l.publications : l.publications[k].revision = l.resource.revision
        BY DEF VerifyResourceProposal
      <3>1. l.resource.base \in Seq(LogEvents)
        BY <2>2 DEF OrNone, Resources
      <3>2. Extends(l.resource.base, l.log)
        BY <2>1 DEF Sound, Proposed
      <3>3. Seqs!IsPrefix(l.resource.base, l.log)
        BY <2>2, <3>1, <3>2, ExtendsIsPrefix
      <3> QED
        BY <2>1, <3>3 DEF Sound, Proposed
    <2>7. VerifyLivePublication(r)
      <3> DEFINE p == Latest(l)
      <3> SUFFICES ASSUME l.publications # <<>>
                   PROVE  /\ Seqs!IsPrefix(p.log, l.log)
                          /\ p.revision = p.base + 1
                          /\ IF p.kind = "NO_SHOW" THEN p.proposal = l.noShow /\ p.base = l.base
                             ELSE p.proposal = l.resource /\ p.kind = l.resource.kind
                          /\ p.by # p.proposal.by
        BY DEF VerifyLivePublication
      <3>1. Repair(l, p) /\ p.proposal \in {l.noShow, l.resource}
        BY <1>5, <2>1 DEF Sound, PublishedProposalWasReplaced
      <3>2. Len(l.publications) \in 1..Len(l.publications)
        BY <2>2, LenProperties
      <3>3. p \in LivePublications
        BY <2>2, <3>2, ElementOfSeq DEF Latest
      <3>4. Seqs!IsPrefix(p.log, l.log)
        <4>1. p.log \in Seq(LogEvents)
          BY <3>3 DEF LivePublications
        <4> QED
          BY <2>2, <3>1, <4>1, ExtendsIsPrefix DEF Repair
      <3>5. p.kind = "NO_SHOW" => p.proposal = l.noShow
        <4> SUFFICES ASSUME p.kind = "NO_SHOW", p.proposal = l.resource PROVE p.proposal = l.noShow
          BY <3>1
        <4>1. p.proposal \in NoShows /\ p.proposal # None
          BY <3>1 DEF Repair
        <4> QED
          BY <2>2, <4>1, ProposalsDiffer DEF OrNone
      <3>6. p.kind # "NO_SHOW" => p.proposal = l.resource
        <4> SUFFICES ASSUME p.kind # "NO_SHOW", p.proposal = l.noShow PROVE p.proposal = l.resource
          BY <3>1
        <4>1. p.proposal \in Resources /\ p.proposal # None
          BY <3>1 DEF Repair
        <4> QED
          BY <2>2, <4>1, ProposalsDiffer DEF OrNone
      <3> QED
        BY <3>1, <3>4, <3>5, <3>6 DEF Repair
    <2> QED
      BY <2>3, <2>4, <2>5, <2>6, <2>7
  <1>6. VerifyClosure(r) /\ (r.credentials # None => VerifyParticipantCredentials(r.credentials))
    BY <1>1, RecordFields, EvidencedVerifies DEF Kept, OrNone
  <1>7. VerifyRecord(r)
    BY <1>2, <1>3, <1>4, <1>5, <1>6 DEF VerifyRecord
  <1> QED
    BY <1>5, <1>6, <1>7 DEF Loads, VerifyStored

(* The draft.  An edit notes what it changes and sets the plan aside.      *)
LEMMA EditKept ==
  ASSUME NEW r, Lawful(r), Kept(r), r.approval = None, NEW q, Noted(q),
         q.amendment = r.amendment, q.compiled = None, q.approval = None,
         q.live = r.live, q.closure = r.closure, q.credentials = r.credentials
  PROVE  Kept(q)
  <1>1. r.publication = None /\ r.live = None /\ r.closure = None /\ r.credentials = None
    BY DEF Lawful, Settled
  <1>2. Reviewed(q)
    BY DEF Reviewed, Kept
  <1> QED
    BY <1>1, <1>2 DEF Kept, VerifyClosure

LEMMA HistoryFields ==
  ASSUME NEW r \in Records, Noted(r)
  PROVE  r.history.placed = r.placement /\ r.history.rules = r.rules /\ r.history.controls = r.controls
  BY DEF Noted

LEMMA EditStepsKept ==
  ASSUME NEW r, Lawful(r), Kept(r), r.approval = None
  PROVE  /\ \A f \in Facts : Kept(Revise(r, f)) /\ Kept(ReplaceSources(r, f))
         /\ \A g \in Groupings : Kept(Place(r, g))
         /\ Kept(DrawAutomatically(r))
         /\ \A g \in OrNone(Groupings) : Kept(SetRules(r, g))
         /\ \A c \in BOOLEAN : Kept(SetControls(r, c))
  <1>1. r \in Records /\ r.live = None /\ r.closure = None /\ r.credentials = None
    BY DEF Lawful, Settled
  <1>2. r.history = [placed |-> r.placement, rules |-> r.rules, controls |-> r.controls]
    BY DEF Kept, Noted
  <1> DEFINE Same(q) == /\ q.amendment = r.amendment /\ q.compiled = None /\ q.approval = None
                        /\ q.live = r.live /\ q.closure = r.closure /\ q.credentials = r.credentials
                        /\ q.history = [placed |-> q.placement, rules |-> q.rules, controls |-> q.controls]
  <1>3. \A q : Same(q) => Kept(q)
    <2> SUFFICES ASSUME NEW q, Same(q) PROVE Kept(q)
      OBVIOUS
    <2>1. Noted(q)
      BY DEF Noted
    <2> QED
      BY <2>1, EditKept
  <1>4. ASSUME NEW f \in Facts
        PROVE  Same(Revise(r, f)) /\ Same(ReplaceSources(r, f))
    BY <1>1, <1>2, RecordFields DEF Revise, ReplaceSources, NewRecord, Edited, Records
  <1>5. ASSUME NEW g \in Groupings
        PROVE  Same(Place(r, g))
    <2> DEFINE p == [basis |-> r.facts.pools, grouping |-> g]
    <2> HIDE DEF p
    <2>1. Same([Edited(r) EXCEPT !.placement = p, !.history.placed = p])
      BY <1>1, <1>2, RecordFields DEF Edited, Records
    <2> QED
      BY <2>1 DEF Place, p
  <1>6. Same(DrawAutomatically(r))
    BY <1>1, <1>2, RecordFields DEF DrawAutomatically, Edited, Records
  <1>7. ASSUME NEW g \in OrNone(Groupings)
        PROVE  Same(SetRules(r, g))
    BY <1>1, <1>2, RecordFields DEF SetRules, Edited, Records
  <1>8. ASSUME NEW c \in BOOLEAN
        PROVE  Same(SetControls(r, c))
    BY <1>1, <1>2, RecordFields DEF SetControls, Edited, Records
  <1> HIDE DEF Same
  <1> QED
    BY <1>3, <1>4, <1>5, <1>6, <1>7, <1>8

(* A compilation goes past every revision before it.                       *)
LEMMA CompileKept ==
  ASSUME NEW r, Lawful(r), Kept(r), r.approval = None, NEW s
  PROVE  Kept(Compile(r, s))
  <1> DEFINE q == Compile(r, s)
             plan == [revision |-> NextRevision(r), content |-> Content(r)]
  <1>1. r \in Records /\ r.publication = None /\ r.live = None /\ r.closure = None /\ r.credentials = None
    BY DEF Lawful, Settled
  <1>2. q = [r EXCEPT !.compiled = plan]
    BY DEF Compile, Reusable
  <1>3. r.amendment # None => NextRevision(r) > r.amendment.publication.revision
    <2> SUFFICES ASSUME r.amendment # None PROVE NextRevision(r) > r.amendment.publication.revision
      OBVIOUS
    <2>1. r.amendment.publication \in Plans
      BY <1>1, RecordFields DEF OrNone, Amendments
    <2>2. r.amendment.publication.revision \in Nat
      BY <2>1 DEF Plans
    <2>3. r.compiled # None => r.compiled.revision \in Nat /\ r.compiled.revision > r.amendment.publication.revision
      BY <1>1, RecordFields DEF Kept, Reviewed, OrNone, Plans
    <2> QED
      BY <2>2, <2>3 DEF NextRevision
  <1>4. plan.revision = NextRevision(r)
    OBVIOUS
  <1> HIDE DEF plan
  <1>5. /\ q.compiled = plan /\ q.placement = r.placement /\ q.rules = r.rules /\ q.controls = r.controls /\ q.history = r.history
        /\ q.approval = r.approval /\ q.publication = r.publication /\ q.amendment = r.amendment
        /\ q.live = r.live /\ q.closure = r.closure /\ q.credentials = r.credentials
    BY <1>1, <1>2 DEF Records
  <1> HIDE DEF q
  <1>6. Noted(q)
    BY <1>5 DEF Noted, Kept
  <1>7. Reviewed(q)
    BY <1>3, <1>4, <1>5 DEF Reviewed, Kept
  <1>8. Kept(q)
    BY <1>1, <1>5, <1>6, <1>7 DEF Kept, VerifyClosure
  <1> QED
    BY <1>8 DEF q

LEMMA ApproveKept ==
  ASSUME NEW r, Lawful(r), Kept(r), r.compiled # None, r.publication = None, NEW who \in People
  PROVE  Kept(Approve(r, who))
  <1> DEFINE q == Approve(r, who)
             a == [revision |-> r.compiled.revision, by |-> who]
             past == IF r.amendment = None THEN r.superseded ELSE Append(r.superseded, r.amendment.publication)
  <1>1. r \in Records /\ r.live = None /\ r.closure = None /\ r.credentials = None
    BY DEF Lawful, Settled
  <1>2. q = [r EXCEPT !.approval = a, !.publication = r.compiled, !.amendment = None, !.superseded = past]
    BY DEF Approve
  <1>3. a.revision = r.compiled.revision
    OBVIOUS
  <1> HIDE DEF a, past
  <1>4. /\ q.approval = a /\ q.publication = r.compiled /\ q.amendment = None
        /\ q.placement = r.placement /\ q.rules = r.rules /\ q.controls = r.controls /\ q.history = r.history
        /\ q.live = r.live /\ q.closure = r.closure /\ q.credentials = r.credentials
    BY <1>1, <1>2 DEF Records
  <1> HIDE DEF q
  <1>5. Noted(q) /\ Reviewed(q)
    BY <1>3, <1>4 DEF Noted, Reviewed, Kept
  <1>6. Kept(q)
    BY <1>1, <1>4, <1>5 DEF Kept, VerifyClosure
  <1> QED
    BY <1>6 DEF q

LEMMA AmendKept ==
  ASSUME NEW r, Lawful(r), Kept(r), r.publication # None, r.live = None
  PROVE  Kept(Amend(r))
  <1> DEFINE q == Amend(r)
             m == [approval |-> r.approval, publication |-> r.publication]
  <1>1. r \in Records /\ r.closure = None /\ r.credentials = None /\ r.approval # None
    BY DEF Lawful, Settled
  <1>2. q = [r EXCEPT !.version = r.version + 1, !.compiled = None, !.approval = None, !.publication = None, !.amendment = m]
    BY DEF Amend
  <1>3. m.approval = r.approval /\ m.publication = r.publication
    OBVIOUS
  <1> HIDE DEF m
  <1>4. /\ q.compiled = None /\ q.approval = None /\ q.amendment = m
        /\ q.placement = r.placement /\ q.rules = r.rules /\ q.controls = r.controls /\ q.history = r.history
        /\ q.live = r.live /\ q.closure = r.closure /\ q.credentials = r.credentials
    BY <1>1, <1>2 DEF Records
  <1> HIDE DEF q
  <1>5. Noted(q) /\ Reviewed(q)
    BY <1>1, <1>3, <1>4 DEF Noted, Reviewed, Kept
  <1>6. Kept(q)
    BY <1>1, <1>4, <1>5 DEF Kept, VerifyClosure
  <1> QED
    BY <1>6 DEF q

(* Play.  Any sound state may take the place of another while the          *)
(* competition is open.                                                    *)
LEMMA LiveKept ==
  ASSUME NEW r, Lawful(r), Kept(r), r.live # None, r.closure = None,
         NEW l \in LiveStates, Sound(r.publication.revision, l)
  PROVE  Kept([r EXCEPT !.live = l])
  <1> DEFINE q == [r EXCEPT !.live = l]
  <1>1. r \in Records
    BY DEF Lawful
  <1>2. /\ q.live = l /\ q.placement = r.placement /\ q.rules = r.rules /\ q.controls = r.controls /\ q.history = r.history
        /\ q.compiled = r.compiled /\ q.approval = r.approval /\ q.publication = r.publication
        /\ q.amendment = r.amendment /\ q.closure = r.closure /\ q.credentials = r.credentials
    BY <1>1 DEF Records
  <1> HIDE DEF q
  <1>3. Noted(q) /\ Reviewed(q)
    BY <1>2 DEF Noted, Reviewed, Kept
  <1>4. Kept(q)
    BY <1>2, <1>3 DEF Kept, VerifyClosure
  <1> QED
    BY <1>4 DEF q

LEMMA LiveIsSound ==
  ASSUME NEW r, Lawful(r), Kept(r), r.live # None
  PROVE  r \in Records /\ r.live \in LiveStates /\ Sound(r.publication.revision, r.live)
  BY RecordFields DEF Lawful, Kept, OrNone

(* Nothing was replayed, played or repaired at activation.                 *)
LEMMA ReplayStarts == Replayed(CreateOperations(Assigned)) /\ CreateOperations(Assigned).assigned = Assigned
  <1> DEFINE s == CreateOperations(Assigned)
             f == [k \in 0..0 |-> s]
  <1>1. s.events = <<>> /\ s.assigned = Assigned
    BY DEF CreateOperations
  <1>2. Len(s.events) = 0
    BY <1>1
  <1>3. \A k \in 0..0 : ReplayAt(f, Assigned, s.events, k) = s
    BY DEF ReplayAt
  <1>4. IsReplay(f, Assigned, s.events)
    BY <1>2, <1>3 DEF IsReplay
  <1>5. f[0] = s
    OBVIOUS
  <1> HIDE DEF f, s
  <1>6. Replayed(s)
    BY <1>2, <1>4, <1>5 DEF Replayed
  <1> QED
    BY <1>1, <1>6 DEF s

LEMMA ActivateKept ==
  ASSUME NEW r, Lawful(r), Kept(r), r.publication # None, r.live = None
  PROVE  Kept(ActivateLive(r, Assigned))
  <1> DEFINE l == [base |-> r.publication.revision, log |-> <<>>, ops |-> CreateOperations(Assigned),
                   noShow |-> None, resource |-> None, publications |-> <<>>]
             q == [r EXCEPT !.live = l]
  <1>1. r \in Records /\ r.closure = None /\ r.credentials = None
    BY DEF Lawful, Settled
  <1>2. Sound(r.publication.revision, l)
    <2>1. l.ops = CreateOperations(Assigned) /\ l.log = <<>> /\ l.resource = None /\ l.publications = <<>>
      OBVIOUS
    <2> HIDE DEF l
    <2> QED
      BY <2>1, ReplayStarts, NothingIsDecided DEF Sound, Proposed
  <1> HIDE DEF l
  <1>3. /\ q.live = l /\ q.placement = r.placement /\ q.rules = r.rules /\ q.controls = r.controls /\ q.history = r.history
        /\ q.compiled = r.compiled /\ q.approval = r.approval /\ q.publication = r.publication
        /\ q.amendment = r.amendment /\ q.closure = r.closure /\ q.credentials = r.credentials
    BY <1>1 DEF Records
  <1> HIDE DEF q
  <1>4. Noted(q) /\ Reviewed(q)
    BY <1>3 DEF Noted, Reviewed, Kept
  <1>5. Kept(q)
    BY <1>1, <1>2, <1>3, <1>4 DEF Kept, VerifyClosure
  <1>6. ActivateLive(r, Assigned) = q
    BY DEF ActivateLive, q, l
  <1> QED
    BY <1>5, <1>6

(* A longer log leaves proposals and repairs of the log before sound.      *)
LEMMA LongerLogIsSound ==
  ASSUME NEW revision, NEW l \in LiveStates, Sound(revision, l), NEW k \in LiveStates,
         Extends(l.log, k.log), Decided(k.log),
         k.base = l.base, k.ops = l.ops, k.resource = l.resource, k.publications = l.publications
  PROVE  Sound(revision, k)
  <1>1. /\ l.log \in Seq(LogEvents) /\ k.log \in Seq(LogEvents) /\ l.resource \in OrNone(Resources)
        /\ l.publications \in Seq(LivePublications)
    BY LiveFields
  <1>2. Proposed(revision, k)
    <2> SUFFICES ASSUME l.resource # None PROVE Extends(l.resource.base, k.log)
      BY DEF Sound, Proposed
    <2>1. l.resource.base \in Seq(LogEvents) /\ Extends(l.resource.base, l.log)
      BY <1>1 DEF OrNone, Resources, Sound, Proposed
    <2> QED
      BY <1>1, <2>1, ExtendsTransitive
  <1>3. ASSUME k.publications # <<>>
        PROVE  Repair(k, Latest(k))
    <2> DEFINE p == Latest(l)
    <2>1. Latest(k) = p /\ Repair(l, p)
      BY <1>3 DEF Latest, Sound
    <2>2. Len(l.publications) \in 1..Len(l.publications)
      BY <1>1, <1>3, LenProperties
    <2>3. p \in LivePublications
      BY <1>1, <2>2, ElementOfSeq DEF Latest
    <2> HIDE DEF p
    <2>4. p.log \in Seq(LogEvents)
      BY <2>3 DEF LivePublications
    <2>5. Extends(p.log, k.log)
      BY <1>1, <2>1, <2>4, ExtendsTransitive DEF Repair
    <2> QED
      BY <2>1, <2>5 DEF Repair
  <1> QED
    BY <1>2, <1>3 DEF Sound

LEMMA PlayKept ==
  ASSUME NEW r, Lawful(r), Kept(r), r.live # None, r.closure = None,
         NEW e \in LogEvents, CanAdvance(Append(r.live.log, e))
  PROVE  Kept(SubmitLive(r, e))
  <1> DEFINE log == AdvanceLiveProgression(Append(r.live.log, e))
             l == [r.live EXCEPT !.log = log]
  <1>1. r.live \in LiveStates /\ Sound(r.publication.revision, r.live)
    BY LiveIsSound
  <1>2. Append(r.live.log, e) \in Seq(LogEvents) /\ Extends(r.live.log, Append(r.live.log, e))
    BY <1>1, LiveFields, ExtendsAppend
  <1>3. log \in Seq(LogEvents) /\ Extends(Append(r.live.log, e), log) /\ Decided(log)
    BY <1>2, AdvanceType, AdvanceDecides
  <1>4. Extends(r.live.log, log)
    BY <1>1, <1>2, <1>3, LiveFields, ExtendsTransitive
  <1>5. SubmitLive(r, e) = [r EXCEPT !.live = l]
    BY DEF SubmitLive
  <1> HIDE DEF log
  <1>6. /\ l \in LiveStates /\ l.log = log
        /\ l.base = r.live.base /\ l.ops = r.live.ops /\ l.resource = r.live.resource /\ l.publications = r.live.publications
    BY <1>1, <1>3, LiveFields DEF LiveStates
  <1> HIDE DEF l
  <1>7. Sound(r.publication.revision, l)
    BY <1>1, <1>3, <1>4, <1>6, LongerLogIsSound
  <1> QED
    BY <1>5, <1>6, <1>7, LiveKept

(* Only a transfer changes the assignments.                                *)
LEMMA OperateKept ==
  ASSUME NEW r, Lawful(r), Kept(r), r.live # None, r.closure = None, NEW c \in Safety, Accepts(r.live.ops, c)
  PROVE  Kept(Operate(r, c))
  <1> DEFINE s == r.live.ops
             ops == ProjectEvent(s, c)
             l == [r.live EXCEPT !.ops = ops]
             n == Len(s.events)
  <1>1. r.live \in LiveStates /\ Sound(r.publication.revision, r.live)
    BY LiveIsSound
  <1>2. s \in Operations /\ s.events \in Seq(Safety) /\ Replayed(s) /\ (Transferred(s) \/ s.assigned = Assigned)
    BY <1>1, LiveFields DEF Sound
  <1>3. ops \in Operations /\ ops.events = Append(s.events, c) /\ Replayed(ops)
    BY <1>2, ProjectType, ReplayGrows
  <1>4. /\ n \in Nat /\ DOMAIN s.events = 1..n /\ DOMAIN ops.events = 1..(n + 1)
        /\ ops.events[n + 1] = c /\ \A i \in 1..n : ops.events[i] = s.events[i]
    BY <1>2, <1>3, AppendProperties, LenProperties
  <1>5. Transferred(s) \/ c.kind = "TRANSFER_AUTHORITY" => Transferred(ops)
    <2> HIDE DEF s, ops
    <2> QED
      BY <1>4 DEF Transferred
  <1>6. c.kind # "TRANSFER_AUTHORITY" => ops.assigned = s.assigned
    BY <1>2, JourneyAssumption DEF ProjectEvent, Operations
  <1>7. Operate(r, c) = [r EXCEPT !.live = l]
    BY DEF Operate
  <1> HIDE DEF ops
  <1>8. /\ l \in LiveStates /\ l.ops = ops /\ l.log = r.live.log
        /\ l.base = r.live.base /\ l.resource = r.live.resource /\ l.publications = r.live.publications
    BY <1>1, <1>3, LiveFields DEF LiveStates
  <1> HIDE DEF l
  <1>9. Sound(r.publication.revision, l)
    BY <1>1, <1>2, <1>3, <1>5, <1>6, <1>8 DEF Sound, Proposed, Repair, Latest
  <1> QED
    BY <1>7, <1>8, <1>9, LiveKept

(* A proposal is of the log and the revision it was made on.               *)
LEMMA ProposeNoShowKept ==
  ASSUME NEW r, Lawful(r), Kept(r), r.live # None, r.closure = None, NEW p \in OrNone(NoShows)
  PROVE  Kept([r EXCEPT !.live.noShow = p])
  <1> DEFINE l == [r.live EXCEPT !.noShow = p]
  <1>1. r.live \in LiveStates /\ Sound(r.publication.revision, r.live)
    BY LiveIsSound
  <1>2. [r EXCEPT !.live.noShow = p] = [r EXCEPT !.live = l]
    OBVIOUS
  <1>3. /\ l \in LiveStates /\ l.ops = r.live.ops /\ l.log = r.live.log
        /\ l.base = r.live.base /\ l.resource = r.live.resource /\ l.publications = r.live.publications
    BY <1>1, LiveFields DEF LiveStates
  <1> HIDE DEF l
  <1>4. Extends(r.live.log, l.log) /\ Decided(l.log)
    BY <1>1, <1>3, LiveFields, ExtendsSelf DEF Sound
  <1>5. Sound(r.publication.revision, l)
    BY <1>1, <1>3, <1>4, LongerLogIsSound
  <1> QED
    BY <1>2, <1>3, <1>5, LiveKept

(* The revision in force is that of the publication or of a repair.        *)
LEMMA OperationalIsPublished ==
  ASSUME NEW r, Lawful(r), r.live # None
  PROVE  \/ OperationalRevision(r) = r.publication.revision
         \/ \E k \in DOMAIN r.live.publications : r.live.publications[k].revision = OperationalRevision(r)
  <1>1. r.live.publications \in Seq(LivePublications)
    BY RecordFields, LiveFields DEF Lawful, OrNone
  <1>2. CASE r.live.publications = <<>>
    BY <1>2 DEF OperationalRevision
  <1>3. CASE r.live.publications # <<>>
    <2> DEFINE n == Len(r.live.publications)
    <2>1. n \in DOMAIN r.live.publications
      BY <1>1, <1>3, LenProperties
    <2>2. OperationalRevision(r) = r.live.publications[n].revision
      BY <1>3 DEF OperationalRevision, Latest
    <2> QED
      BY <2>1, <2>2
  <1> QED
    BY <1>2, <1>3

LEMMA ProposeResourceKept ==
  ASSUME NEW r, Lawful(r), Kept(r), r.live # None, r.closure = None,
         NEW kind \in {"COURT_OUTAGE", "DELAY_OVERRUN"}, NEW by \in People
  PROVE  Kept(ProposeResource(r, kind, by))
  <1> DEFINE p == ResourceProposal(r, kind, by)
             l == [r.live EXCEPT !.noShow = None, !.resource = p]
  <1>1. r \in Records /\ r.live \in LiveStates /\ Sound(r.publication.revision, r.live)
    BY LiveIsSound
  <1>2. p \in Resources /\ p.base = r.live.log /\ p.revision = OperationalRevision(r)
    BY <1>1, LiveFields, OperationalType DEF ResourceProposal, Resources
  <1>3. ProposeResource(r, kind, by) = [r EXCEPT !.live.noShow = None, !.live.resource = p]
    BY DEF ProposeResource
  <1> HIDE DEF p
  <1>4. [r EXCEPT !.live.noShow = None, !.live.resource = p] = [r EXCEPT !.live = l]
    BY <1>1 DEF Records, LiveStates
  <1>5. /\ l \in LiveStates /\ l.ops = r.live.ops /\ l.log = r.live.log
        /\ l.base = r.live.base /\ l.resource = p /\ l.publications = r.live.publications
    BY <1>1, <1>2, LiveFields, NoneIsNothing DEF LiveStates
  <1> HIDE DEF l
  <1>6. Proposed(r.publication.revision, l)
    BY <1>1, <1>2, <1>5, LiveFields, ExtendsSelf, OperationalIsPublished DEF Proposed
  <1>7. Sound(r.publication.revision, l)
    BY <1>1, <1>5, <1>6 DEF Sound, Repair, Latest
  <1> QED
    BY <1>3, <1>4, <1>5, <1>7, LiveKept

(* A repair is of the proposal under review and of the log as it stands.   *)
LEMMA RepairKept ==
  ASSUME NEW r, Lawful(r), Kept(r), r.live # None, r.closure = None,
         NEW e \in LogEvents, NEW p \in LivePublications, p.log = Append(r.live.log, e), Decided(p.log),
         p.revision = p.base + 1, p.proposal # None, p.by # p.proposal.by,
         IF p.kind = "NO_SHOW" THEN p.proposal \in NoShows /\ p.base = r.live.base
         ELSE p.proposal \in Resources /\ p.kind = p.proposal.kind
  PROVE  Kept([r EXCEPT !.live.log = Append(r.live.log, e), !.live.publications = Append(@, p)])
  <1> DEFINE log == Append(r.live.log, e)
             publications == Append(r.live.publications, p)
             l == [r.live EXCEPT !.log = log, !.publications = publications]
             n == Len(r.live.publications)
  <1>1. r \in Records /\ r.live \in LiveStates /\ Sound(r.publication.revision, r.live)
    BY LiveIsSound
  <1>2. log \in Seq(LogEvents) /\ Extends(r.live.log, log) /\ Extends(log, log)
    BY <1>1, LiveFields, ExtendsAppend, ExtendsSelf
  <1>3. /\ publications \in Seq(LivePublications) /\ n \in Nat /\ DOMAIN r.live.publications = 1..n
        /\ Len(publications) = n + 1 /\ DOMAIN publications = 1..(n + 1) /\ publications[n + 1] = p
        /\ \A k \in 1..n : publications[k] = r.live.publications[k]
    BY <1>1, LiveFields, AppendProperties, LenProperties
  <1>4. [r EXCEPT !.live.log = log, !.live.publications = Append(@, p)] = [r EXCEPT !.live = l]
    BY <1>1 DEF Records, LiveStates
  <1>5. p.log = log
    OBVIOUS
  <1> HIDE DEF log, publications
  <1>6. /\ l \in LiveStates /\ l.log = log /\ l.publications = publications
        /\ l.ops = r.live.ops /\ l.base = r.live.base /\ l.resource = r.live.resource
    BY <1>1, <1>2, <1>3, LiveFields DEF LiveStates
  <1> HIDE DEF l
  <1>7. Proposed(r.publication.revision, l)
    <2> DEFINE proposal == r.live.resource
    <2> SUFFICES ASSUME proposal # None
                 PROVE  /\ Extends(proposal.base, log)
                        /\ \/ proposal.revision = r.publication.revision
                           \/ \E k \in DOMAIN publications : publications[k].revision = proposal.revision
      BY <1>6 DEF Proposed
    <2>1. /\ Extends(proposal.base, r.live.log)
          /\ \/ proposal.revision = r.publication.revision
             \/ \E k \in DOMAIN r.live.publications : r.live.publications[k].revision = proposal.revision
      BY <1>1 DEF Sound, Proposed
    <2>2. proposal.base \in Seq(LogEvents)
      BY <1>1, LiveFields DEF OrNone, Resources
    <2>3. Extends(proposal.base, log)
      BY <1>1, <1>2, <2>1, <2>2, LiveFields, ExtendsTransitive
    <2>4. \A k \in 1..n : k \in 1..(n + 1)
      BY <1>3
    <2> QED
      BY <1>3, <2>1, <2>3, <2>4
  <1>8. Latest(l) = p
    BY <1>3, <1>6 DEF Latest
  <1>9. Repair(l, p)
    BY <1>2, <1>5, <1>6 DEF Repair
  <1>10. Sound(r.publication.revision, l)
    BY <1>1, <1>5, <1>6, <1>7, <1>8, <1>9 DEF Sound
  <1>11. Kept([r EXCEPT !.live = l])
    BY <1>6, <1>10, LiveKept
  <1> QED
    BY <1>4, <1>11 DEF log

LEMMA ApproveNoShowKept ==
  ASSUME NEW r, Lawful(r), Kept(r), NEW by \in People,
         CanApproveNoShow(r, r.publication.revision, r.live.noShow, by)
  PROVE  Kept(ApproveNoShow(r, by))
  <1> DEFINE p == r.live.noShow
             e == [kind |-> "WALKOVER", contest |-> p.contest, winner |-> p.winner]
             log == Append(r.live.log, e)
             entry == [kind |-> "NO_SHOW", revision |-> OperationalRevision(r) + 1,
                       base |-> r.live.base, proposal |-> p, log |-> log, by |-> by]
  <1>1. /\ r.closure = None /\ r.live # None /\ r.publication.revision = r.live.base
        /\ p # None /\ r.live.publications = <<>> /\ r.live.log = p.base /\ by # p.by
    BY DEF CanApproveNoShow, Based
  <1>2. r.live \in LiveStates
    BY <1>1, LiveIsSound
  <1>3. p \in NoShows
    BY <1>1, <1>2, LiveFields DEF OrNone
  <1>4. e \in LogEvents /\ e.kind = "WALKOVER"
    BY <1>3 DEF NoShows, LogEvents, OrNone, Winners
  <1>5. log \in Seq(LogEvents) /\ Decided(log)
    BY <1>2, <1>4, LiveFields, ExtendsAppend, WalkoverDecides
  <1>6. OperationalRevision(r) = r.live.base /\ r.live.base \in Nat
    BY <1>1, <1>2, LiveFields DEF OperationalRevision
  <1>7. ApproveNoShow(r, by) = [r EXCEPT !.live.log = log, !.live.publications = Append(@, entry)]
    BY <1>1 DEF ApproveNoShow
  <1>8. /\ entry \in LivePublications /\ entry.log = log /\ entry.kind = "NO_SHOW" /\ entry.revision = r.live.base + 1
        /\ entry.base = r.live.base /\ entry.proposal = p /\ entry.by = by
    <2> HIDE DEF log, p
    <2> QED
      BY <1>3, <1>5, <1>6 DEF LivePublications
  <1> HIDE DEF e, entry, p
  <1>9. Kept([r EXCEPT !.live.log = Append(r.live.log, e), !.live.publications = Append(@, entry)])
    BY <1>1, <1>3, <1>4, <1>5, <1>8, RepairKept
  <1> QED
    BY <1>7, <1>9

LEMMA ApproveResourceKept ==
  ASSUME NEW r, Lawful(r), Kept(r), NEW by \in People,
         CanApproveResource(r, OperationalRevision(r), r.live.resource, by)
  PROVE  Kept(ApproveResourceChange(r, by))
  <1> DEFINE p == r.live.resource
             e == [kind |-> "CLOSE_COURT", contest |-> None, winner |-> None]
             log == Append(r.live.log, e)
             entry == [kind |-> p.kind, revision |-> p.revision + 1, base |-> p.revision,
                       proposal |-> p, log |-> log, by |-> by]
  <1>1. r.closure = None /\ r.live # None /\ p # None /\ r.live.log = p.base /\ by # p.by
    BY DEF CanApproveResource, Projected
  <1>2. r.live \in LiveStates /\ Decided(r.live.log)
    BY <1>1, LiveIsSound DEF Sound
  <1>3. p \in Resources
    BY <1>1, <1>2, LiveFields DEF OrNone
  <1>4. p.kind \in {"COURT_OUTAGE", "DELAY_OVERRUN"} /\ p.revision \in Nat
    BY <1>3 DEF Resources
  <1>5. e \in LogEvents /\ e.kind = "CLOSE_COURT"
    BY DEF LogEvents, OrNone, Winners
  <1>6. log \in Seq(LogEvents) /\ Decided(log)
    BY <1>2, <1>5, LiveFields, ExtendsAppend, ClosedCourtDecides
  <1>7. ApproveResourceChange(r, by) = [r EXCEPT !.live.log = log, !.live.publications = Append(@, entry)]
    BY <1>1 DEF ApproveResourceChange
  <1>8. /\ entry \in LivePublications /\ entry.log = log /\ entry.kind = p.kind /\ entry.revision = p.revision + 1
        /\ entry.base = p.revision /\ entry.proposal = p /\ entry.by = by
    <2> HIDE DEF log, p
    <2> QED
      BY <1>3, <1>4, <1>6 DEF LivePublications
  <1> HIDE DEF e, entry, p
  <1>9. entry.kind # "NO_SHOW"
    BY <1>4, <1>8
  <1>10. Kept([r EXCEPT !.live.log = Append(r.live.log, e), !.live.publications = Append(@, entry)])
    BY <1>1, <1>3, <1>5, <1>6, <1>8, <1>9, RepairKept
  <1> QED
    BY <1>7, <1>10

(* The closure on record is the one the record derives.                    *)
LEMMA CloseKept ==
  ASSUME NEW r, Lawful(r), Kept(r), r.live # None, r.closure = None, CanDeriveClosure(r.live), NEW by \in People
  PROVE  Kept(Close(r, by))
  <1> DEFINE d == DeriveClosure(r, by)
             q == [r EXCEPT !.closure = d]
  <1>1. r \in Records
    BY DEF Lawful
  <1>2. Close(r, by) = q
    BY DEF Close
  <1>3. d.by = by /\ d.revision = r.publication.revision
    BY DEF DeriveClosure
  <1> HIDE DEF d
  <1>4. /\ q.closure = d /\ q.live = r.live /\ q.placement = r.placement /\ q.rules = r.rules /\ q.controls = r.controls
        /\ q.history = r.history /\ q.compiled = r.compiled /\ q.approval = r.approval /\ q.publication = r.publication
        /\ q.amendment = r.amendment /\ q.credentials = r.credentials
    BY <1>1 DEF Records
  <1> HIDE DEF q
  <1>5. Noted(q) /\ Reviewed(q)
    BY <1>4 DEF Noted, Reviewed, Kept
  <1>6. DeriveClosure(q, by) = d
    BY <1>4 DEF DeriveClosure, OperationalRevision, d
  <1>7. VerifyClosure(q)
    BY <1>3, <1>4, <1>6 DEF VerifyClosure
  <1>8. Kept(q)
    BY <1>4, <1>5, <1>7 DEF Kept
  <1> QED
    BY <1>2, <1>8

-----------------------------------------------------------------------------
(* Access of participants.  What a command answered stays true while       *)
(* grants stay as they were revoked.                                       *)
Persists(grants, next) ==
  \A g \in grants : \E h \in next : h.claims = g.claims /\ (g.revokedBy # Absent => h.revokedBy = g.revokedBy)

LEMMA AnswersPersist ==
  ASSUME NEW e, e.command \in Commands, NEW tokens, NEW codes, Answered(tokens, codes, e),
         NEW t, Persists(tokens, t), NEW c, Persists(codes, c)
  PROVE  Answered(t, c, e)
  <1>1. e.command # Absent
    BY JourneyAssumption
  <1>2. ASSUME NEW grants, NEW next, Persists(grants, next)
        PROVE  RevokedBy(grants, e) \subseteq RevokedBy(next, e)
    BY <1>1, <1>2 DEF RevokedBy, Persists
  <1>3. ASSUME NEW grants, NEW next, Persists(grants, next), NEW claims, Granted(grants, claims) # {}
        PROVE  Granted(next, claims) # {}
    <2>1. PICK g \in grants : g.claims = claims
      BY <1>3 DEF Granted
    <2>2. PICK h \in next : h.claims = claims
      BY <1>3, <2>1 DEF Persists
    <2> QED
      BY <2>2 DEF Granted
  <1>4. RevokedBy(tokens, e) \subseteq RevokedBy(t, e) /\ RevokedBy(codes, e) \subseteq RevokedBy(c, e)
    BY <1>2
  <1>5. /\ Granted(tokens, e.result) # {} => Granted(t, e.result) # {}
        /\ Granted(codes, e.result) # {} => Granted(c, e.result) # {}
    BY <1>3
  <1> QED
    BY <1>4, <1>5 DEF Answered

LEMMA EvidenceGrows ==
  ASSUME NEW a \in Credentials, Evidenced(a), NEW b \in Credentials,
         Unique(b.tokens), Unique(b.codes), Persists(a.tokens, b.tokens), Persists(a.codes, b.codes),
         \/ b.events = a.events
         \/ \E e \in AccessEvents :
              /\ b.events = Append(a.events, e) /\ e.command = <<"command", Len(a.events) + 1>>
              /\ Answered(b.tokens, b.codes, e)
  PROVE  Evidenced(b)
  <1> DEFINE n == Len(a.events)
  <1>1. a.events \in Seq(AccessEvents) /\ n \in Nat /\ DOMAIN a.events = 1..n
    BY CredentialFields
  <1>2. ASSUME NEW k \in 1..n
        PROVE  a.events[k].command = <<"command", k>> /\ Answered(b.tokens, b.codes, a.events[k])
    <2>1. a.events[k] \in AccessEvents
      BY <1>1, ElementOfSeq
    <2>2. a.events[k].command = <<"command", k>> /\ Answered(a.tokens, a.codes, a.events[k])
      BY <1>1 DEF Evidenced
    <2>3. a.events[k].command \in Commands
      BY <2>1 DEF AccessEvents
    <2> QED
      BY <2>2, <2>3, AnswersPersist
  <1>3. CASE b.events = a.events
    BY <1>1, <1>2, <1>3 DEF Evidenced
  <1>4. CASE b.events # a.events
    <2>1. PICK e \in AccessEvents :
            /\ b.events = Append(a.events, e) /\ e.command = <<"command", n + 1>>
            /\ Answered(b.tokens, b.codes, e)
      BY <1>4
    <2>2. DOMAIN b.events = 1..(n + 1) /\ b.events[n + 1] = e /\ \A k \in 1..n : b.events[k] = a.events[k]
      BY <1>1, <2>1, AppendProperties, LenProperties
    <2>3. \A k \in 1..(n + 1) : k \in 1..n \/ k = n + 1
      BY <1>1
    <2> QED
      BY <1>2, <2>1, <2>2, <2>3 DEF Evidenced
  <1> QED
    BY <1>3, <1>4

LEMMA PersistsSelf == ASSUME NEW grants PROVE Persists(grants, grants)
  BY DEF Persists

(* New claims have one grant.                                              *)
LEMMA AddedGrants ==
  ASSUME NEW grants, Unique(grants), NEW added, \A t \in added : Granted(grants, t) = {}
  PROVE  LET next == grants \union {Grant(t) : t \in added}
         IN  Unique(next) /\ Persists(grants, next) /\ \A t \in added : Granted(next, t) # {}
  <1> DEFINE new == {Grant(t) : t \in added}
             next == grants \union new
  <1>1. \A t \in added : Grant(t) \in new /\ Grant(t).claims = t
    BY DEF Grant
  <1>2. \A g \in new : g.claims \in added /\ g = Grant(g.claims)
    BY <1>1
  <1>3. \A g \in new, h \in grants : h.claims # g.claims
    <2> HIDE DEF new
    <2>1. \A t \in added, h \in grants : h.claims # t
      BY DEF Granted
    <2> QED
      BY <1>2, <2>1
  <1> HIDE DEF new
  <1>4. Unique(next)
    <2> SUFFICES ASSUME NEW g \in next, NEW h \in next, g.claims = h.claims PROVE g = h
      BY DEF Unique
    <2>1. CASE g \in grants /\ h \in grants
      BY <2>1 DEF Unique
    <2>2. CASE g \in new /\ h \in new
      BY <1>2, <2>2
    <2> QED
      BY <1>3, <2>1, <2>2
  <1>5. Persists(grants, next)
    BY DEF Persists
  <1>6. \A t \in added : Granted(next, t) # {}
    BY <1>1 DEF Granted
  <1> QED
    BY <1>4, <1>5, <1>6 DEF next, new

LEMMA IssueEvidenced ==
  ASSUME NEW a \in Credentials, Evidenced(a), NEW added \in SUBSET Tokens, \A t \in added : Granted(a.tokens, t) = {}
  PROVE  Evidenced([a EXCEPT !.tokens = a.tokens \union {Grant(t) : t \in added}])
  <1> DEFINE tokens == a.tokens \union {Grant(t) : t \in added}
             b == [a EXCEPT !.tokens = tokens]
  <1>1. Unique(tokens) /\ Persists(a.tokens, tokens)
    <2>1. Unique(a.tokens)
      BY DEF Evidenced
    <2> QED
      BY <2>1, AddedGrants, Zenon
  <1>2. tokens \in SUBSET [claims : Tokens, revokedBy : Commands \union {Absent}]
    <2>1. \A t \in added : Grant(t) \in [claims : Tokens, revokedBy : Commands \union {Absent}]
      BY DEF Grant
    <2>2. a.tokens \in SUBSET [claims : Tokens, revokedBy : Commands \union {Absent}]
      BY CredentialFields
    <2> QED
      BY <2>1, <2>2
  <1> HIDE DEF tokens
  <1>3. b \in Credentials /\ b.tokens = tokens /\ b.codes = a.codes /\ b.events = a.events
    BY <1>2, CredentialFields DEF Credentials
  <1> HIDE DEF b
  <1>4. Unique(b.codes) /\ Persists(a.codes, b.codes)
    BY <1>3, PersistsSelf DEF Evidenced
  <1>5. Evidenced(b)
    BY <1>1, <1>3, <1>4, EvidenceGrows
  <1> QED
    BY <1>5 DEF b, tokens

LEMMA WithGrantEvidenced ==
  ASSUME NEW a \in Credentials, Evidenced(a), NEW t \in Tokens
  PROVE  Evidenced([a EXCEPT !.tokens = WithGrant(@, t)])
  <1> DEFINE b == [a EXCEPT !.tokens = WithGrant(a.tokens, t)]
  <1>1. CASE Granted(a.tokens, t) = {}
    <2>1. b = [a EXCEPT !.tokens = a.tokens \union {Grant(u) : u \in {t}}]
      <3>1. {Grant(u) : u \in {t}} = {Grant(t)}
        OBVIOUS
      <3> QED
        BY <1>1, <3>1 DEF WithGrant
    <2>2. {t} \in SUBSET Tokens /\ \A u \in {t} : Granted(a.tokens, u) = {}
      BY <1>1
    <2> HIDE DEF b
    <2>3. Evidenced(b)
      BY <2>1, <2>2, IssueEvidenced
    <2> QED
      BY <2>3 DEF b
  <1>2. CASE Granted(a.tokens, t) # {}
    <2>1. b = a
      BY <1>2, CredentialFields DEF WithGrant, Credentials
    <2> QED
      BY <2>1
  <1> QED
    BY <1>1, <1>2

(* A revocation: what was active is revoked by the command.                *)
Withdraws(grants, next, p, command) ==
  /\ Unique(next) /\ Persists(grants, next)
  /\ \A g \in ActiveOf(grants, p) : \E h \in next : h.claims = g.claims /\ h.claims.p = p /\ h.revokedBy = command
  /\ \A h \in next : \E g \in grants : h.claims = g.claims

LEMMA RevokeOfEvidence ==
  ASSUME NEW C, NEW grants \in SUBSET [claims : C, revokedBy : Commands \union {Absent}], Unique(grants),
         NEW p, NEW command \in Commands
  PROVE  Withdraws(grants, RevokeOf(grants, p, command), p, command)
  <1> DEFINE Revoked(g) == [g EXCEPT !.revokedBy = command]
             active == ActiveOf(grants, p)
             next == RevokeOf(grants, p, command)
  <1>1. next = (grants \ active) \union {Revoked(g) : g \in active}
    BY DEF RevokeOf
  <1>2. \A g \in grants : Revoked(g).claims = g.claims /\ Revoked(g).revokedBy = command
    OBVIOUS
  <1>3. active \subseteq grants /\ \A g \in active : g.claims.p = p /\ g.revokedBy = Absent
    BY DEF ActiveOf
  <1> HIDE DEF Revoked, active, next
  <1>4. Unique(next)
    <2> SUFFICES ASSUME NEW g \in next, NEW h \in next, g.claims = h.claims PROVE g = h
      BY DEF Unique
    <2>1. PICK x \in grants : x.claims = g.claims /\ g = IF x \in active THEN Revoked(x) ELSE x
      BY <1>1, <1>2, <1>3
    <2>2. PICK y \in grants : y.claims = h.claims /\ h = IF y \in active THEN Revoked(y) ELSE y
      BY <1>1, <1>2, <1>3
    <2>3. x = y
      BY <2>1, <2>2 DEF Unique
    <2> QED
      BY <2>1, <2>2, <2>3
  <1>5. Persists(grants, next)
    <2> SUFFICES ASSUME NEW g \in grants
                 PROVE  \E h \in next : h.claims = g.claims /\ (g.revokedBy # Absent => h.revokedBy = g.revokedBy)
      BY DEF Persists
    <2>1. CASE g \in active
      <3>1. Revoked(g) \in next /\ Revoked(g).claims = g.claims /\ g.revokedBy = Absent
        BY <1>1, <1>2, <1>3, <2>1
      <3> QED
        BY <3>1
    <2>2. CASE g \notin active
      <3>1. g \in next
        BY <1>1, <2>2
      <3> QED
        BY <3>1
    <2> QED
      BY <2>1, <2>2
  <1>6. ASSUME NEW g \in active
        PROVE  \E h \in next : h.claims = g.claims /\ h.claims.p = p /\ h.revokedBy = command
    <2>1. Revoked(g) \in next /\ Revoked(g).claims = g.claims /\ Revoked(g).revokedBy = command /\ g.claims.p = p
      BY <1>1, <1>2, <1>3
    <2> QED
      BY <2>1
  <1>7. \A h \in next : \E g \in grants : h.claims = g.claims
    BY <1>1, <1>2, <1>3
  <1> QED
    BY <1>4, <1>5, <1>6, <1>7 DEF Withdraws, next, active

LEMMA RevokedEvidence ==
  ASSUME NEW a \in Credentials, Evidenced(a), NEW p, NEW command \in Commands
  PROVE  /\ Withdraws(a.tokens, RevokeOf(a.tokens, p, command), p, command)
         /\ Withdraws(a.codes, RevokeOf(a.codes, p, command), p, command)
  <1>1. a.tokens \in SUBSET [claims : Tokens, revokedBy : Commands \union {Absent}] /\ Unique(a.tokens)
    BY CredentialFields DEF Evidenced
  <1>2. a.codes \in SUBSET [claims : Codes, revokedBy : Commands \union {Absent}] /\ Unique(a.codes)
    BY CredentialFields DEF Evidenced
  <1>3. Withdraws(a.tokens, RevokeOf(a.tokens, p, command), p, command)
    BY <1>1, RevokeOfEvidence
  <1>4. Withdraws(a.codes, RevokeOf(a.codes, p, command), p, command)
    BY <1>2, RevokeOfEvidence
  <1> QED
    BY <1>3, <1>4

(* What was active of a participant is among what the command revoked.     *)
LEMMA AffectedIsRevoked ==
  ASSUME NEW a, NEW p, NEW tokens, NEW codes, NEW e, e.p = p, e.affected = Affected(a, p),
         \A g \in ActiveOf(a.tokens, p) : \E h \in tokens : h.claims = g.claims /\ h.claims.p = p /\ h.revokedBy = e.command,
         \A g \in ActiveOf(a.codes, p) : \E h \in codes : h.claims = g.claims /\ h.claims.p = p /\ h.revokedBy = e.command
  PROVE  e.affected \subseteq RevokedBy(tokens, e) \union RevokedBy(codes, e)
  BY DEF Affected, RevokedBy

LEMMA RevokeEvidenced ==
  ASSUME NEW a \in Credentials, Evidenced(a), NEW p \in Participants
  PROVE  Evidenced(RevokeAccess(a, <<"command", Len(a.events) + 1>>, p))
  <1> DEFINE command == <<"command", Len(a.events) + 1>>
             tokens == RevokeOf(a.tokens, p, command)
             codes == RevokeOf(a.codes, p, command)
             mid == [a EXCEPT !.tokens = tokens, !.codes = codes]
             e == [command |-> command, kind |-> "REVOKED", p |-> p, affected |-> Affected(a, p), result |-> Absent]
             b == Recorded(mid, e.command, e.kind, e.p, e.affected, e.result)
  <1>1. command \in Commands
    BY CredentialFields DEF Commands
  <1>2. e \in AccessEvents
    BY <1>1, AffectedType DEF AccessEvents
  <1>3. RevokeAccess(a, command, p) = b
    BY DEF RevokeAccess
  <1>4. e.command = command /\ e.kind = "REVOKED" /\ e.p = p /\ e.affected = Affected(a, p)
    OBVIOUS
  <1>5. command = <<"command", Len(a.events) + 1>>
    OBVIOUS
  <1> HIDE DEF command, e
  <1>6. /\ a.tokens \in SUBSET [claims : Tokens, revokedBy : Commands \union {Absent}] /\ Unique(a.tokens)
        /\ a.codes \in SUBSET [claims : Codes, revokedBy : Commands \union {Absent}] /\ Unique(a.codes)
    BY CredentialFields DEF Evidenced
  <1>7. /\ tokens \in SUBSET [claims : Tokens, revokedBy : Commands \union {Absent}]
        /\ codes \in SUBSET [claims : Codes, revokedBy : Commands \union {Absent}]
    BY <1>1, <1>6, RevokeOfGrants
  <1>8. Withdraws(a.tokens, tokens, p, command) /\ Withdraws(a.codes, codes, p, command)
    BY <1>1, RevokedEvidence, Zenon
  <1> HIDE DEF tokens, codes
  <1>9. /\ Unique(tokens) /\ Persists(a.tokens, tokens) /\ Unique(codes) /\ Persists(a.codes, codes)
        /\ \A g \in ActiveOf(a.tokens, p) : \E h \in tokens : h.claims = g.claims /\ h.claims.p = p /\ h.revokedBy = command
        /\ \A g \in ActiveOf(a.codes, p) : \E h \in codes : h.claims = g.claims /\ h.claims.p = p /\ h.revokedBy = command
    BY <1>8 DEF Withdraws
  <1>10. b \in Credentials /\ b.tokens = tokens /\ b.codes = codes /\ b.events = Append(a.events, e)
    <2>1. mid \in Credentials /\ mid.tokens = tokens /\ mid.codes = codes /\ mid.events = a.events
      BY <1>7, CredentialFields DEF Credentials
    <2> HIDE DEF mid
    <2> QED
      BY <1>2, <2>1, RecordedEvent
  <1> HIDE DEF b
  <1>11. Answered(b.tokens, b.codes, e)
    <2>1. e.affected \subseteq RevokedBy(tokens, e) \union RevokedBy(codes, e)
      BY <1>4, <1>9, AffectedIsRevoked
    <2> QED
      BY <1>4, <1>10, <2>1 DEF Answered
  <1>12. Evidenced(b)
    BY <1>2, <1>4, <1>5, <1>9, <1>10, <1>11, EvidenceGrows
  <1> QED
    BY <1>3, <1>12 DEF command

LEMMA RotateEvidenced ==
  ASSUME NEW a \in Credentials, Accounted(a), Evidenced(a), NEW p \in Participants, NEW expires \in Times
  PROVE  Evidenced(RotateAccess(a, <<"command", Len(a.events) + 1>>, p, expires))
  <1> DEFINE command == <<"command", Len(a.events) + 1>>
             token == TokenClaims(p, expires, command)
             revoked == RevokeOf(a.tokens, p, command)
             tokens == WithGrant(revoked, token)
             codes == RevokeOf(a.codes, p, command)
             mid == [a EXCEPT !.tokens = tokens, !.codes = codes]
             e == [command |-> command, kind |-> "ROTATED", p |-> p, affected |-> Affected(a, p), result |-> token]
             b == Recorded(mid, e.command, e.kind, e.p, e.affected, e.result)
  <1>1. command \in Commands /\ \A g \in Grants(a) : g.claims.by # command
    BY NextCommand
  <1>2. token \in Tokens /\ token.by = command /\ token.p = p
    BY <1>1 DEF Tokens, TokenClaims
  <1>3. e \in AccessEvents
    BY <1>1, <1>2, AffectedType DEF AccessEvents
  <1>4. RotateAccess(a, command, p, expires) = b
    BY DEF RotateAccess
  <1>5. e.command = command /\ e.kind = "ROTATED" /\ e.p = p /\ e.affected = Affected(a, p) /\ e.result = token
    OBVIOUS
  <1>6. command = <<"command", Len(a.events) + 1>>
    OBVIOUS
  <1> HIDE DEF command, e, token
  <1>7. /\ a.tokens \in SUBSET [claims : Tokens, revokedBy : Commands \union {Absent}] /\ Unique(a.tokens)
        /\ a.codes \in SUBSET [claims : Codes, revokedBy : Commands \union {Absent}] /\ Unique(a.codes)
    BY CredentialFields DEF Evidenced
  <1>8. /\ revoked \in SUBSET [claims : Tokens, revokedBy : Commands \union {Absent}]
        /\ codes \in SUBSET [claims : Codes, revokedBy : Commands \union {Absent}]
    BY <1>1, <1>7, RevokeOfGrants
  <1>9. Withdraws(a.tokens, revoked, p, command) /\ Withdraws(a.codes, codes, p, command)
    BY <1>1, RevokedEvidence, Zenon
  <1> HIDE DEF revoked, codes
  <1>10. /\ Unique(revoked) /\ Persists(a.tokens, revoked) /\ Unique(codes) /\ Persists(a.codes, codes)
         /\ \A g \in ActiveOf(a.tokens, p) : \E h \in revoked : h.claims = g.claims /\ h.claims.p = p /\ h.revokedBy = command
         /\ \A h \in revoked : \E g \in a.tokens : h.claims = g.claims
         /\ \A g \in ActiveOf(a.codes, p) : \E h \in codes : h.claims = g.claims /\ h.claims.p = p /\ h.revokedBy = command
    BY <1>9 DEF Withdraws
  <1>11. Granted(revoked, token) = {}
    BY <1>1, <1>2, <1>10 DEF Granted, Grants
  <1>12. tokens = revoked \union {Grant(t) : t \in {token}}
    <2>1. {Grant(t) : t \in {token}} = {Grant(token)}
      OBVIOUS
    <2> QED
      BY <1>11, <2>1 DEF WithGrant
  <1>13. tokens \in SUBSET [claims : Tokens, revokedBy : Commands \union {Absent}]
    BY <1>2, <1>8, WithGrantFacts DEF Grant
  <1> HIDE DEF tokens
  <1>14. Unique(tokens) /\ Persists(revoked, tokens) /\ Granted(tokens, token) # {} /\ revoked \subseteq tokens
    <2> DEFINE one == {token}
    <2>1. \A t \in one : Granted(revoked, t) = {}
      BY <1>11
    <2>2. tokens = revoked \union {Grant(t) : t \in one} /\ token \in one
      BY <1>12
    <2> HIDE DEF one
    <2> DEFINE sum == revoked \union {Grant(t) : t \in one}
    <2>3. Unique(sum) /\ Persists(revoked, sum) /\ \A t \in one : Granted(sum, t) # {}
      BY <1>10, <2>1, AddedGrants, Zenon
    <2> QED
      BY <2>2, <2>3
  <1>15. Persists(a.tokens, tokens)
    BY <1>10, <1>14 DEF Persists
  <1>16. \A g \in ActiveOf(a.tokens, p) : \E h \in tokens : h.claims = g.claims /\ h.claims.p = p /\ h.revokedBy = command
    BY <1>10, <1>14
  <1>17. b \in Credentials /\ b.tokens = tokens /\ b.codes = codes /\ b.events = Append(a.events, e)
    <2>1. mid \in Credentials /\ mid.tokens = tokens /\ mid.codes = codes /\ mid.events = a.events
      BY <1>8, <1>13, CredentialFields DEF Credentials
    <2> HIDE DEF mid
    <2> QED
      BY <1>3, <2>1, RecordedEvent
  <1> HIDE DEF b
  <1>18. Answered(b.tokens, b.codes, e)
    <2>1. e.affected \subseteq RevokedBy(tokens, e) \union RevokedBy(codes, e)
      BY <1>5, <1>10, <1>16, AffectedIsRevoked
    <2> QED
      BY <1>2, <1>5, <1>14, <1>17, <2>1 DEF Answered
  <1>19. Evidenced(b)
    BY <1>3, <1>5, <1>6, <1>10, <1>14, <1>15, <1>17, <1>18, EvidenceGrows
  <1> QED
    BY <1>4, <1>19 DEF command

LEMMA RecoveryCodeEvidenced ==
  ASSUME NEW a \in Credentials, Accounted(a), Evidenced(a), NEW p \in Participants, NEW expires \in Times, NEW last \in Times
  PROVE  Evidenced(IssueRecoveryCode(a, <<"command", Len(a.events) + 1>>, p, <<expires, last>>))
  <1> DEFINE command == <<"command", Len(a.events) + 1>>
             code == CodeClaims(command, p, <<expires, last>>)
             one == {code}
             codes == a.codes \union {Grant(t) : t \in one}
             mid == [a EXCEPT !.codes = codes]
             e == [command |-> command, kind |-> "RECOVERY_ISSUED", p |-> p, affected |-> {}, result |-> code]
             b == Recorded(mid, e.command, e.kind, e.p, e.affected, e.result)
  <1>1. command \in Commands /\ \A g \in Grants(a) : g.claims.by # command
    BY NextCommand
  <1>2. code \in Codes /\ code.by = command /\ code.p = p
    BY <1>1 DEF Codes, CodeClaims
  <1>3. e \in AccessEvents
    BY <1>1, <1>2 DEF AccessEvents
  <1>4. IssueRecoveryCode(a, command, p, <<expires, last>>) = b
    <2>1. codes = a.codes \union {Grant(code)}
      OBVIOUS
    <2> QED
      BY <2>1 DEF IssueRecoveryCode
  <1>5. e.command = command /\ e.kind = "RECOVERY_ISSUED" /\ e.p = p /\ e.result = code
    OBVIOUS
  <1>6. command = <<"command", Len(a.events) + 1>>
    OBVIOUS
  <1> HIDE DEF command, e, code
  <1>7. Unique(a.tokens) /\ Unique(a.codes)
    BY DEF Evidenced
  <1>8. \A t \in one : Granted(a.codes, t) = {} /\ t \in Codes
    BY <1>1, <1>2 DEF Granted, Grants
  <1>9. code \in one
    OBVIOUS
  <1> HIDE DEF one
  <1>10. codes \in SUBSET [claims : Codes, revokedBy : Commands \union {Absent}]
    <2>1. \A t \in one : Grant(t) \in [claims : Codes, revokedBy : Commands \union {Absent}]
      BY <1>8 DEF Grant
    <2>2. a.codes \in SUBSET [claims : Codes, revokedBy : Commands \union {Absent}]
      BY CredentialFields
    <2> QED
      BY <2>1, <2>2
  <1>11. Unique(codes) /\ Persists(a.codes, codes) /\ \A t \in one : Granted(codes, t) # {}
    BY <1>7, <1>8, AddedGrants, Zenon
  <1> HIDE DEF codes
  <1>12. b \in Credentials /\ b.tokens = a.tokens /\ b.codes = codes /\ b.events = Append(a.events, e)
    <2>1. mid \in Credentials /\ mid.tokens = a.tokens /\ mid.codes = codes /\ mid.events = a.events
      BY <1>10, CredentialFields DEF Credentials
    <2> HIDE DEF mid
    <2> QED
      BY <1>3, <2>1, RecordedEvent
  <1> HIDE DEF b
  <1>13. Answered(b.tokens, b.codes, e)
    BY <1>2, <1>5, <1>9, <1>11, <1>12 DEF Answered
  <1>14. Persists(a.tokens, b.tokens)
    BY <1>12, PersistsSelf
  <1>15. Evidenced(b)
    BY <1>3, <1>5, <1>6, <1>7, <1>11, <1>12, <1>13, <1>14, EvidenceGrows
  <1> QED
    BY <1>4, <1>15 DEF command

LEMMA CredentialsKept ==
  ASSUME NEW r, Lawful(r), Kept(r), r.live # None, NEW a, Evidenced(a)
  PROVE  Kept([r EXCEPT !.credentials = a])
  <1> DEFINE q == [r EXCEPT !.credentials = a]
  <1>1. r \in Records
    BY DEF Lawful
  <1>2. /\ q.credentials = a /\ q.live = r.live /\ q.placement = r.placement /\ q.rules = r.rules /\ q.controls = r.controls
        /\ q.history = r.history /\ q.compiled = r.compiled /\ q.approval = r.approval /\ q.publication = r.publication
        /\ q.amendment = r.amendment /\ q.closure = r.closure
    BY <1>1 DEF Records
  <1> HIDE DEF q
  <1>3. Noted(q) /\ Reviewed(q)
    BY <1>2 DEF Noted, Reviewed, Kept
  <1>4. VerifyClosure(q)
    BY <1>2 DEF VerifyClosure, DeriveClosure, OperationalRevision, Kept
  <1>5. Kept(q)
    BY <1>2, <1>3, <1>4 DEF Kept
  <1> QED
    BY <1>5 DEF q

-----------------------------------------------------------------------------
(* The record in memory and the stored one are kept, whichever is behind.  *)
BothKept == Kept(disk) /\ (memory # None => Kept(memory))

LEMMA StartIsKept ==
  ASSUME NEW r, StartsFrom(r)
  PROVE  Kept(r)
  <1> PICK f \in Facts, who \in People :
        LET published == Approve(Compile(NewRecord(f), None), who)
            running   == ActivateLive(published, Assigned)
        IN  \/ r = NewRecord(f)
            \/ /\ Compilable(NewRecord(f), 1)
               /\ r \in {published, running, [running EXCEPT !.credentials = NoCredentials]}
    BY DEF StartsFrom
  <1> DEFINE draft == NewRecord(f)
             compiled == Compile(draft, None)
             published == Approve(compiled, who)
             running == ActivateLive(published, Assigned)
             looked == [running EXCEPT !.credentials = NoCredentials]
  <1>1. /\ draft \in Records /\ draft.approval = None /\ draft.publication = None /\ draft.live = None
        /\ draft.closure = None /\ draft.credentials = None /\ draft.compiled = None /\ draft.amendment = None
        /\ draft.placement = None /\ draft.rules = None /\ draft.controls = FALSE
        /\ draft.history = [placed |-> None, rules |-> None, controls |-> FALSE]
    BY NoneIsNothing DEF NewRecord, Records
  <1>2. Lawful(draft) /\ Kept(draft)
    BY <1>1 DEF Lawful, Settled, Current, Kept, Noted, Reviewed, VerifyClosure
  <1> HIDE DEF draft
  <1>3. Lawful(compiled) /\ Kept(compiled)
    BY <1>1, <1>2, CompileSteps, CompileKept DEF Keeps
  <1>4. compiled.compiled # None /\ compiled.publication = None
    <2> DEFINE plan == [revision |-> NextRevision(draft), content |-> Content(draft)]
    <2>1. compiled = [draft EXCEPT !.compiled = plan]
      BY DEF Compile, Reusable
    <2>2. plan \in Plans
      BY <1>1, RecordFields, NextRevisionType, NoneIsNothing DEF Plans, Content, OrNone
    <2> HIDE DEF plan
    <2>3. compiled.compiled = plan /\ compiled.publication = draft.publication
      BY <1>1, <2>1 DEF Records
    <2> QED
      BY <1>1, <2>2, <2>3, JourneyAssumption
  <1> HIDE DEF compiled
  <1>5. Lawful(published) /\ Kept(published)
    BY <1>3, <1>4, ApproveSteps, ApproveKept DEF Keeps
  <1>6. published.publication # None /\ published.live = None
    <2>1. compiled \in Records /\ compiled.live = None
      BY <1>3, <1>4 DEF Lawful, Settled
    <2>2. published.publication = compiled.compiled /\ published.live = compiled.live
      BY <2>1 DEF Approve, Records
    <2> QED
      BY <1>4, <2>1, <2>2
  <1> HIDE DEF published
  <1>7. Lawful(running) /\ Kept(running)
    BY <1>5, <1>6, ActivateSteps, ActivateKept DEF Keeps
  <1>8. running.live # None
    <2>1. published \in Records /\ published.publication.revision \in Nat
      BY <1>5, <1>6, RecordFields DEF Lawful, OrNone, Plans
    <2>2. running.live = [base |-> published.publication.revision, log |-> <<>>, ops |-> CreateOperations(Assigned),
                          noShow |-> None, resource |-> None, publications |-> <<>>]
      BY <2>1 DEF ActivateLive, Records
    <2>3. running.live \in LiveStates
      BY <2>1, <2>2, NoEvents, NoneIsNothing DEF LiveStates
    <2> QED
      BY <2>3, JourneyAssumption
  <1> HIDE DEF running
  <1>9. Evidenced(NoCredentials)
    BY DEF NoCredentials, Evidenced, Unique
  <1>10. Kept(looked)
    BY <1>7, <1>8, <1>9, CredentialsKept
  <1> HIDE DEF looked
  <1>11. r \in {draft, published, running, looked}
    BY DEF draft, compiled, published, running, looked
  <1> QED
    BY <1>2, <1>5, <1>7, <1>10, <1>11

LEMMA StoreIsKept ==
  ASSUME BothKept, NEW q, Kept(q), Store(q)
  PROVE  BothKept'
  <1>1. memory' = q /\ (disk' = q \/ disk' = disk)
    BY DEF Store
  <1> QED
    BY <1>1 DEF BothKept

LEMMA NothingStoredIsKept ==
  ASSUME BothKept, disk' = disk, memory' \in {None, memory, disk}
  PROVE  BothKept'
  BY DEF BothKept

LEMMA HandOutIsKept ==
  ASSUME JourneyInv, BothKept, Granting, NEW b, Evidenced(b), NEW given, HandOut(b, given)
  PROVE  BothKept'
  <1> DEFINE q == [memory EXCEPT !.credentials = b]
  <1>1. Lawful(memory) /\ Kept(memory) /\ memory.live # None
    BY DEF JourneyInv, BothKept, Granting, Live, Up
  <1>2. Kept(q)
    BY <1>1, CredentialsKept, Zenon
  <1>3. CASE b = A
    BY <1>3, NothingStoredIsKept DEF HandOut
  <1>4. CASE b # A
    <2>1. Store(q)
      BY <1>4 DEF HandOut
    <2> HIDE DEF q
    <2> QED
      BY <1>2, <2>1, StoreIsKept
  <1> QED
    BY <1>3, <1>4

LEMMA DraftIsKept ==
  ASSUME JourneyInv, BothKept, Edit \/ EditPlan \/ StartCompile \/ FinishCompile \/ ApproveAndPublish \/ ReopenForAmendment
  PROVE  BothKept'
  <1>1. Up /\ Lawful(memory) /\ Kept(memory)
    BY DEF Edit, EditPlan, StartCompile, FinishCompile, ApproveAndPublish, ReopenForAmendment, Drafting, JourneyInv, BothKept, Up
  <1>2. CASE Edit \/ EditPlan
    <2>1. memory.approval = None
      BY <1>2 DEF Edit, EditPlan, Drafting, Editable
    <2>2. /\ \A f \in Facts : Kept(Revise(memory, f)) /\ Kept(ReplaceSources(memory, f))
          /\ \A g \in Groupings : Kept(Place(memory, g))
          /\ Kept(DrawAutomatically(memory))
          /\ \A g \in OrNone(Groupings) : Kept(SetRules(memory, g))
          /\ \A c \in BOOLEAN : Kept(SetControls(memory, c))
      BY <1>1, <2>1, EditStepsKept
    <2>3. \A q : StoreQuietly(q) => Store(q)
      BY DEF StoreQuietly
    <2>4. CASE Edit
      BY <2>2, <2>3, <2>4, StoreIsKept, Zenon DEF Edit
    <2>5. CASE EditPlan
      <3>1. \/ \E g \in Groupings : Store(Place(memory, g))
            \/ Store(DrawAutomatically(memory))
            \/ \E g \in OrNone(Groupings) : Store(SetRules(memory, g))
            \/ \E c \in BOOLEAN : Store(SetControls(memory, c))
        BY <2>3, <2>5 DEF EditPlan, OrNone
      <3> QED
        BY <2>2, <3>1, StoreIsKept, Zenon
    <2> QED
      BY <1>2, <2>4, <2>5
  <1>3. CASE StartCompile
    BY <1>3, NothingStoredIsKept DEF StartCompile
  <1>4. CASE FinishCompile
    <2>1. CASE Compilable(memory, prepared.version) /\ NextRevision(memory) <= scene.revision
      <3>1. memory.approval = None
        BY <2>1 DEF Compilable, Editable
      <3>2. Kept(Compile(memory, prepared))
        BY <1>1, <3>1, CompileKept
      <3>3. Store(Compile(memory, prepared))
        BY <1>4, <2>1 DEF FinishCompile
      <3> QED
        BY <3>2, <3>3, StoreIsKept
    <2>2. CASE ~(Compilable(memory, prepared.version) /\ NextRevision(memory) <= scene.revision)
      BY <1>4, <2>2, NothingStoredIsKept DEF FinishCompile
    <2> QED
      BY <2>1, <2>2
  <1>5. CASE ApproveAndPublish
    <2>1. PICK who \in People : Store(Approve(memory, who))
      BY <1>5 DEF ApproveAndPublish, StoreQuietly
    <2>2. memory.compiled # None /\ memory.publication = None
      BY <1>5 DEF ApproveAndPublish, CanApprove
    <2>3. Kept(Approve(memory, who))
      BY <1>1, <2>2, ApproveKept
    <2> QED
      BY <2>1, <2>3, StoreIsKept
  <1>6. CASE ReopenForAmendment
    <2>1. memory.publication # None /\ memory.live = None /\ Store(Amend(memory))
      BY <1>6 DEF ReopenForAmendment, CanAmend, StoreQuietly
    <2>2. Kept(Amend(memory))
      BY <1>1, <2>1, AmendKept
    <2> QED
      BY <2>1, <2>2, StoreIsKept
  <1> QED
    BY <1>2, <1>3, <1>4, <1>5, <1>6

LEMMA PlayIsKept ==
  ASSUME JourneyInv, BothKept, Activate \/ Play \/ Command \/ Propose \/ ApproveRepair \/ CloseCompetition
  PROVE  BothKept'
  <1>1. Up /\ Lawful(memory) /\ Kept(memory)
    BY DEF Activate, Play, Command, Propose, ApproveRepair, CloseCompetition, Live, JourneyInv, BothKept, Up
  <1>2. CASE Activate
    <2>1. memory.publication # None /\ memory.live = None /\ Store(ActivateLive(memory, Assigned))
      BY <1>2 DEF Activate, CanActivate, StoreQuietly
    <2>2. Kept(ActivateLive(memory, Assigned))
      BY <1>1, <2>1, ActivateKept
    <2> QED
      BY <2>1, <2>2, StoreIsKept
  <1>3. CASE Play
    <2>1. PICK kind \in {"START", "COMPLETE", "CORRECT", "WALKOVER"}, c \in Contests, w \in Sides :
            LET e == [kind |-> kind, contest |-> c, winner |-> IF kind = "START" THEN None ELSE w]
            IN  /\ CanSubmitLive(memory, OperationalRevision(memory), Len(memory.live.log), e)
                /\ StoreQuietly(SubmitLive(memory, e))
      BY <1>3 DEF Play
    <2> DEFINE e == [kind |-> kind, contest |-> c, winner |-> IF kind = "START" THEN None ELSE w]
    <2>2. e \in LogEvents
      BY DEF LogEvents, OrNone, Winners
    <2>3. /\ memory.live # None /\ memory.closure = None /\ CanAdvance(Append(memory.live.log, e))
          /\ Store(SubmitLive(memory, e))
      BY <1>3, <2>1 DEF Play, Live, CanSubmitLive, Projected, StoreQuietly
    <2> HIDE DEF e
    <2>4. Kept(SubmitLive(memory, e))
      BY <1>1, <2>2, <2>3, PlayKept
    <2> QED
      BY <2>3, <2>4, StoreIsKept
  <1>4. CASE Command
    <2>1. PICK c \in Safety : CanOperate(memory, OperationalRevision(memory), c) /\ StoreQuietly(Operate(memory, c))
      BY <1>4 DEF Command
    <2>2. memory.live # None /\ memory.closure = None /\ Accepts(memory.live.ops, c) /\ Store(Operate(memory, c))
      BY <1>4, <2>1 DEF Command, Live, CanOperate, Projected, StoreQuietly
    <2>3. Kept(Operate(memory, c))
      BY <1>1, <2>2, OperateKept
    <2> QED
      BY <2>2, <2>3, StoreIsKept
  <1>5. CASE Propose
    <2>1. memory.live # None
      BY <1>5 DEF Propose, Live
    <2>2. memory.live.log \in Seq(LogEvents)
      BY <1>1, <2>1, RecordFields, LiveFields DEF Lawful, OrNone
    <2>3. ASSUME NEW by \in People, NEW c \in Contests, NEW w \in Sides, memory.closure = None,
                 Store(ProposeNoShow(memory, c, w, by))
          PROVE  BothKept'
      <3> DEFINE p == [base |-> memory.live.log, contest |-> c, winner |-> w, by |-> by]
      <3>1. p \in OrNone(NoShows)
        BY <2>2 DEF NoShows, OrNone
      <3>2. ProposeNoShow(memory, c, w, by) = [memory EXCEPT !.live.noShow = p]
        BY DEF ProposeNoShow
      <3> HIDE DEF p
      <3>3. Kept([memory EXCEPT !.live.noShow = p])
        BY <1>1, <2>1, <2>3, <3>1, ProposeNoShowKept, Zenon
      <3> QED
        BY <2>3, <3>2, <3>3, StoreIsKept, Zenon
    <2>4. ASSUME NEW by \in People, NEW kind \in {"COURT_OUTAGE", "DELAY_OVERRUN"}, memory.closure = None,
                 Store(ProposeResource(memory, kind, by))
          PROVE  BothKept'
      BY <1>1, <2>1, <2>4, ProposeResourceKept, StoreIsKept, Zenon
    <2> QED
      BY <1>5, <2>3, <2>4 DEF Propose, CanProposeNoShow, CanProposeResource, Based, Projected, StoreQuietly
  <1>6. CASE ApproveRepair
    <2>1. PICK by \in People :
            \/ /\ CanApproveNoShow(memory, memory.publication.revision, memory.live.noShow, by)
               /\ Store(ApproveNoShow(memory, by))
            \/ /\ CanApproveResource(memory, OperationalRevision(memory), memory.live.resource, by)
               /\ Store(ApproveResourceChange(memory, by))
      BY <1>6 DEF ApproveRepair, StoreQuietly
    <2> QED
      BY <1>1, <2>1, ApproveNoShowKept, ApproveResourceKept, StoreIsKept, Zenon
  <1>7. CASE CloseCompetition
    <2>1. PICK by \in People :
            /\ CanClose(memory, memory.publication.revision, OperationalRevision(memory), Len(memory.live.log), by)
            /\ StoreQuietly(Close(memory, by))
      BY <1>7 DEF CloseCompetition
    <2>2. memory.live # None /\ memory.closure = None /\ CanDeriveClosure(memory.live) /\ Store(Close(memory, by))
      BY <1>7, <2>1 DEF CloseCompetition, Live, CanClose, Projected, StoreQuietly
    <2>3. Kept(Close(memory, by))
      BY <1>1, <2>2, CloseKept
    <2> QED
      BY <2>2, <2>3, StoreIsKept
  <1> QED
    BY <1>2, <1>3, <1>4, <1>5, <1>6, <1>7

LEMMA AccessIsKept ==
  ASSUME JourneyInv, BothKept, GrantAccess \/ ControlAccess \/ RepeatAccessCommand \/ Recover
  PROVE  BothKept'
  <1>1. /\ Granting /\ A \in Credentials /\ Accounted(A)
        /\ \A h \in handed : Holds(A, h.credential)
    BY GrantingFacts DEF GrantAccess, ControlAccess, RepeatAccessCommand, Recover
  <1>2. Evidenced(A)
    BY <1>1 DEF BothKept, Kept, Granting, Live, Up, A
  <1>3. CASE GrantAccess
    <2>1. ASSUME NEW expires \in Times, NEW p \in Participants,
                 HandOut(IssueAccess(A, p, expires), {TokenClaims(p, expires, Absent)})
          PROVE  BothKept'
      <3> DEFINE t == TokenClaims(p, expires, Absent)
      <3>1. t \in Tokens
        BY DEF TokenClaims, Tokens
      <3>2. IssueAccess(A, p, expires) = [A EXCEPT !.tokens = WithGrant(@, t)]
        BY DEF IssueAccess
      <3> HIDE DEF t
      <3>3. Evidenced(IssueAccess(A, p, expires))
        BY <1>1, <1>2, <3>1, <3>2, WithGrantEvidenced
      <3> QED
        BY <1>1, <2>1, <3>3, HandOutIsKept, Zenon
    <2>2. ASSUME NEW expires \in Times,
                 HandOut(IssueOfflinePack(A, expires), {TokenClaims(p, expires, Absent) : p \in Participants})
          PROVE  BothKept'
      <3> DEFINE missing == {p \in Participants : Granted(A.tokens, TokenClaims(p, expires, Absent)) = {}}
                 added   == {TokenClaims(p, expires, Absent) : p \in missing}
                 b       == IssueOfflinePack(A, expires)
      <3>1. \A p \in Participants : TokenClaims(p, expires, Absent) \in Tokens
        BY DEF TokenClaims, Tokens
      <3>2. added \in SUBSET Tokens /\ \A t \in added : Granted(A.tokens, t) = {}
        BY <3>1
      <3>3. b = [A EXCEPT !.tokens = A.tokens \union {Grant(t) : t \in added}]
        <4>1. {Grant(TokenClaims(p, expires, Absent)) : p \in missing} = {Grant(t) : t \in added}
          OBVIOUS
        <4>2. b = [A EXCEPT !.tokens = A.tokens \union {Grant(TokenClaims(p, expires, Absent)) : p \in missing}]
          BY DEF IssueOfflinePack
        <4> QED
          BY <4>1, <4>2, Zenon
      <3> HIDE DEF missing, added, b
      <3>4. Evidenced(b)
        BY <1>1, <1>2, <3>2, <3>3, IssueEvidenced
      <3> QED
        BY <1>1, <2>2, <3>4, HandOutIsKept, Zenon DEF b
    <2> QED
      BY <1>3, <2>1, <2>2 DEF GrantAccess
  <1>4. CASE ControlAccess
    <2> DEFINE command == <<"command", Len(A.events) + 1>>
    <2>1. PICK p \in Participants, expires \in Times :
            \/ HandOut(RotateAccess(A, command, p, expires), {TokenClaims(p, expires, command)})
            \/ HandOut(RevokeAccess(A, command, p), {})
            \/ \E last \in Times :
                 HandOut(IssueRecoveryCode(A, command, p, <<expires, last>>), {CodeClaims(command, p, <<expires, last>>)})
      BY <1>4, Zenon DEF ControlAccess
    <2>2. /\ Evidenced(RotateAccess(A, command, p, expires)) /\ Evidenced(RevokeAccess(A, command, p))
          /\ \A last \in Times : Evidenced(IssueRecoveryCode(A, command, p, <<expires, last>>))
      BY <1>1, <1>2, RotateEvidenced, RevokeEvidenced, RecoveryCodeEvidenced, Zenon
    <2> QED
      BY <1>1, <2>1, <2>2, HandOutIsKept, Zenon
  <1>5. CASE RepeatAccessCommand
    BY <1>1, <1>2, <1>5, HandOutIsKept, Zenon DEF RepeatAccessCommand
  <1>6. CASE Recover
    <2>1. PICK h \in handed :
            IsCode(h.credential) /\ HandOut(RecoverAccess(A, h.credential), {RecoveredToken(h.credential)})
      BY <1>6 DEF Recover
    <2> DEFINE code == h.credential
               t    == RecoveredToken(code)
    <2>2. code \in Codes
      BY <1>1, <2>1, HeldCode
    <2>3. t \in Tokens
      <3>1. code.p \in Participants /\ code.accessExpires \in Times /\ code.by \in Commands
        BY <2>2 DEF Codes
      <3> HIDE DEF code
      <3>2. <<"recovery", code.by>> \in {"recovery"} \X Commands
        BY <3>1
      <3> QED
        BY <3>1, <3>2 DEF RecoveredToken, TokenClaims, Tokens
    <2>4. RecoverAccess(A, code) = [A EXCEPT !.tokens = WithGrant(@, t)]
      BY DEF RecoverAccess
    <2> HIDE DEF t
    <2>5. Evidenced(RecoverAccess(A, code))
      BY <1>1, <1>2, <2>3, <2>4, WithGrantEvidenced
    <2> QED
      BY <1>1, <2>1, <2>5, HandOutIsKept, Zenon
  <1> QED
    BY <1>3, <1>4, <1>5, <1>6

(* Every stored record loads again, unless the pools its rules were made   *)
(* for are gone, an amendment was compiled twice, or play went through a   *)
(* transfer of authority, a proposal in place of a published one, or a     *)
(* no-show that decided the pool: no other operation, failed write, stop   *)
(* or restart leaves a store the process refuses.                          *)
THEOREM StoredRecordsReopen == Spec => []ReopensOtherwise
  <1>1. Init => BothKept
    BY StartIsKept, JourneyAssumption DEF Init, BothKept
  <1>2. JourneyInv /\ BothKept /\ [Next]_vars => BothKept'
    <2> SUFFICES ASSUME JourneyInv, BothKept, [Next]_vars PROVE BothKept'
      OBVIOUS
    <2>1. CASE Tick \/ Stop \/ Restart \/ UNCHANGED vars
      <3>1. disk' = disk /\ memory' \in {None, memory, disk}
        BY <2>1 DEF Tick, Stop, Restart, vars
      <3> QED
        BY <3>1, NothingStoredIsKept
    <2> QED
      BY <2>1, DraftIsKept, PlayIsKept, AccessIsKept DEF Next
  <1>3. JourneyInv /\ BothKept => ReopensOtherwise
    BY KeptLoads DEF JourneyInv, BothKept
  <1> QED
    BY JourneyInvariant, <1>1, <1>2, <1>3, PTL DEF Spec
=============================================================================
