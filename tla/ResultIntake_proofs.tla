------------------------ MODULE ResultIntake_proofs -------------------------
(***************************************************************************)
(* What the run ResultIntake checks, for any contests, entrants, commands, *)
(* desks, configurations, deliveries, durations and number of events.      *)
(*                                                                         *)
(* Tournament truth (TruthStaysPlayable, OneLineOfTruth, AnswersAreTrue):  *)
(* the inductive invariant adds what a result in the record tells of the   *)
(* result in force: a contest with a record has one in force, so a first   *)
(* result opens its line, and the one in force ends it, so what supersedes *)
(* it follows it.                                                          *)
(* Rate limits: the requests let through fall into the present window, the *)
(* one before and older ones.                                              *)
(* Webhooks: a claim stands until it runs out, no two handlers hold claims *)
(* of one event and one time, and what was accepted is remembered for as   *)
(* long as its claim lives.                                                *)
(* The ledger: every event has its number and its own hash.                *)
(* The gateway: whatever is reported, the mapping it has was not refused,  *)
(* so it can be read in both directions.                                   *)
(***************************************************************************)
EXTENDS ResultIntake, FiniteSetTheorems, TLAPS

Result == [event : Nat, contest : Contests, status : {"RECORDED", "VOIDED"}, entrants : SUBSET Entrants,
           winner : Entrants \cup {None}, supersedes : Nat \cup {None}]

Request == [id : {c.id : c \in Submitted}, content : TournamentCommand, expected : Nat,
            stage : {"SENT", "DECIDED", "ACCEPTED"}]

(* Types of what the firewall reads. *)
TypeOK ==
  /\ version \in Nat
  /\ definitions \in Nat
  /\ processed \in Seq({c.id : c \in Submitted})
  /\ operationals \in Seq([plan : Nat, contests : Rosters])
  /\ history \in Seq(Result)
  /\ DOMAIN effective \subseteq Contests
  /\ \A x \in DOMAIN effective : effective[x] \in Result /\ effective[x].contest = x
  /\ desk \in [Desks -> Request \cup {None}]

(* The record and what is in force. *)
Recorded ==
  /\ \A i \in 1..Len(history) : history[i].contest \in DOMAIN effective
  /\ OneLineOfTruth

(* One event for each command id, and its content is remembered. *)
Answered ==
  /\ \A i, j \in 1..Len(processed) : processed[i] = processed[j] => i = j
  /\ DOMAIN fingerprints = Ids
  /\ \A d \in Desks : At(d, "ACCEPTED") => desk[d].id \in Ids /\ fingerprints[desk[d].id] = desk[d].content

IInv == TypeOK /\ TruthStaysPlayable /\ Recorded /\ Answered

-----------------------------------------------------------------------------
(* A command of a kind has the fields of that kind.                        *)
LEMMA KindsTell ==
  ASSUME NEW c \in TournamentCommand
  PROVE  /\ c.kind = "ACTIVATE_OPERATIONAL" => c \in Operate
         /\ c.kind = "RECORD_RESULT" => c \in Record
         /\ c.kind = "CORRECT_RESULT" => c \in Correct
         /\ c.kind = "VOID_RESULT" => c \in Void
         /\ c.kind \in {"REGISTER_DEFINITION", "ACTIVATE_PLAN", "ACTIVATE_OPERATIONAL",
                        "RECORD_RESULT", "CORRECT_RESULT", "VOID_RESULT"}
  BY DEF TournamentCommand, Register, Plan, Operate, Record, Correct, Void

(* The roster in force assigns entrants to contests.                       *)
LEMMA RegisteredTyped ==
  ASSUME TypeOK
  PROVE  /\ DOMAIN Registered \subseteq Contests
         /\ \A x \in DOMAIN Registered : Registered[x] \in SUBSET Entrants
  <1>1. CASE operationals = <<>>
    BY <1>1 DEF Registered
  <1>2. CASE operationals # <<>>
    <2>1. Len(operationals) \in 1..Len(operationals)
      BY <1>2 DEF TypeOK
    <2> DEFINE S == [plan : Nat, contests : Rosters]
    <2>2. operationals \in Seq(S)
      BY DEF TypeOK
    <2>3. operationals[Len(operationals)] \in S
      <3> HIDE DEF S
      <3> QED
        BY <2>1, <2>2
    <2>4. Registered \in Rosters
      BY <1>2, <2>3 DEF Registered
    <2>5. PICK C \in SUBSET Contests : Registered \in [C -> SUBSET Entrants]
      BY <2>4, RosterAssumption
    <2> QED
      BY <2>5
  <1> QED
    BY <1>1, <1>2

(* The result a lawful command enters, and what it says of the one before. *)
LEMMA ResultEntered ==
  ASSUME TypeOK, NEW c \in TournamentCommand, Lawful(c),
         c.kind \in {"RECORD_RESULT", "CORRECT_RESULT", "VOID_RESULT"}
  PROVE  LET r == ActualResult(c, version + 1) IN
         /\ r \in Result
         /\ r.contest \in DOMAIN Registered
         /\ Registered[r.contest] = r.entrants
         /\ r.status = "RECORDED" => r.winner \in r.entrants
         /\ r.contest \in DOMAIN effective =>
              /\ r.supersedes # None
              /\ effective[r.contest].status = "RECORDED"
              /\ effective[r.contest].event = r.supersedes
  <1>1. CASE c.kind = "RECORD_RESULT"
    <2>1. c \in Record
      BY <1>1, KindsTell
    <2> QED
      BY <1>1, <2>1, RegisteredTyped DEF TypeOK, Lawful, ValidResult, ActualResult, Result, Record
  <1>2. CASE c.kind = "CORRECT_RESULT"
    <2>1. c \in Correct
      BY <1>2, KindsTell
    <2> QED
      BY <1>2, <2>1, RegisteredTyped, NoneAssumption
      DEF TypeOK, Lawful, ValidResult, SupersedesCurrent, ActualResult, Result, Correct
  <1>3. CASE c.kind = "VOID_RESULT"
    <2>1. c \in Void
      BY <1>3, KindsTell
    <2> QED
      BY <1>3, <2>1, RegisteredTyped, NoneAssumption
      DEF TypeOK, Lawful, SupersedesCurrent, ActualResult, Result, Void
  <1> QED
    BY <1>1, <1>2, <1>3

(* Entering a result about the roster keeps all results about it.          *)
LEMMA EnterKeepsTruth ==
  ASSUME TypeOK, TruthStaysPlayable, NEW r \in Result, Enter(r),
         r.contest \in DOMAIN Registered, Registered[r.contest] = r.entrants,
         r.status = "RECORDED" => r.winner \in r.entrants
  PROVE  TruthStaysPlayable'
  <1>1. Registered' = Registered
    BY DEF Enter, layerVars, Registered
  <1>2. DOMAIN effective' = DOMAIN effective \cup {r.contest}
    BY DEF Enter
  <1>3. SUFFICES ASSUME NEW x \in DOMAIN effective'
                 PROVE  /\ x \in DOMAIN Registered
                        /\ Registered[x] = effective'[x].entrants
                        /\ effective'[x].status = "RECORDED" => effective'[x].winner \in Registered[x]
    BY <1>1 DEF TruthStaysPlayable
  <1>4. CASE x = r.contest
    <2>1. effective'[x] = r
      BY <1>2, <1>4 DEF Enter
    <2> QED
      BY <1>4, <2>1
  <1>5. CASE x # r.contest
    <2>1. x \in DOMAIN effective /\ effective'[x] = effective[x]
      BY <1>2, <1>5 DEF Enter
    <2> QED
      BY <2>1 DEF TruthStaysPlayable
  <1> QED
    BY <1>4, <1>5

(* The result entered ends the line of its contest, and supersedes what    *)
(* ended it before.                                                        *)
LEMMA EnterKeepsLine ==
  ASSUME TypeOK, Recorded, NEW r \in Result, Enter(r),
         r.contest \in DOMAIN effective =>
           /\ r.supersedes # None
           /\ effective[r.contest].status = "RECORDED"
           /\ effective[r.contest].event = r.supersedes
  PROVE  Recorded'
  <1> DEFINE n == Len(history)
  <1>1. n \in Nat /\ Len(history') = n + 1 /\ history'[n + 1] = r /\ \A i \in 1..n : history'[i] = history[i]
    BY DEF TypeOK, Enter
  <1>2. /\ DOMAIN effective' = DOMAIN effective \cup {r.contest}
        /\ effective'[r.contest] = r
        /\ \A x \in DOMAIN effective : x # r.contest => effective'[x] = effective[x]
    BY DEF Enter
  <1>3. \A i \in 1..n : history[i].contest \in DOMAIN effective
    BY DEF Recorded
  <1>4. ASSUME NEW j \in 1..n, history[j].contest = r.contest, \A k \in j + 1..n : history[k].contest # r.contest
        PROVE  history[j] = effective[r.contest]
    <2>1. \A k \in j + 1..n : ~SameContest(k, j)
      BY <1>4 DEF SameContest
    <2>2. effective[history[j].contest] = history[j]
      BY <2>1 DEF Recorded, OneLineOfTruth
    <2> QED
      BY <1>4, <2>2
  <1>5. \A i \in 1..n + 1 : history'[i].contest \in DOMAIN effective'
    BY <1>1, <1>2, <1>3
  <1>6. ASSUME NEW i \in 1..n + 1, NEW j \in 1..n + 1, Follows(j, i)'
        PROVE  history'[i].supersedes = history'[j].event /\ history'[j].status = "RECORDED"
    <2>1. j < i /\ history'[j].contest = history'[i].contest
          /\ \A k \in j + 1..i - 1 : history'[k].contest # history'[i].contest
      BY <1>6 DEF Follows, SameContest
    <2>2. CASE i = n + 1
      <3>1. j \in 1..n
        BY <1>1, <2>1, <2>2
      <3>2. history[j].contest = r.contest
        BY <1>1, <2>1, <2>2, <3>1
      <3>3. \A k \in j + 1..n : history[k].contest # r.contest
        BY <1>1, <2>1, <2>2, <3>1
      <3>4. history[j] = effective[r.contest]
        BY <1>4, <3>1, <3>2, <3>3
      <3>5. r.contest \in DOMAIN effective
        BY <1>3, <3>1, <3>2
      <3> QED
        BY <1>1, <2>2, <3>1, <3>4, <3>5
    <2>3. CASE i # n + 1
      <3>1. i \in 1..n /\ j \in 1..n
        BY <1>1, <2>1, <2>3
      <3>2. \A k \in j + 1..i - 1 : k \in 1..n
        BY <1>1, <3>1
      <3>3. Follows(j, i)
        BY <1>1, <2>1, <3>1, <3>2 DEF Follows, SameContest
      <3>4. history[i].supersedes = history[j].event /\ history[j].status = "RECORDED"
        BY <3>1, <3>3 DEF Recorded, OneLineOfTruth
      <3>5. history'[i] = history[i] /\ history'[j] = history[j]
        BY <1>1, <3>1
      <3> QED
        BY <3>4, <3>5
    <2> QED
      BY <2>2, <2>3
  <1>7. ASSUME NEW i \in 1..n + 1, history'[i].supersedes = None
        PROVE  \A j \in 1..i - 1 : ~SameContest(j, i)'
    <2>1. CASE i = n + 1
      <3>1. r.contest \notin DOMAIN effective
        BY <1>1, <1>7, <2>1
      <3> QED
        BY <1>1, <1>3, <2>1, <3>1 DEF SameContest
    <2>2. CASE i # n + 1
      <3>1. i \in 1..n /\ \A j \in 1..i - 1 : j \in 1..n
        BY <1>1, <2>2
      <3>2. history'[i] = history[i] /\ \A j \in 1..i - 1 : history'[j] = history[j]
        BY <1>1, <3>1
      <3>3. \A j \in 1..i - 1 : ~SameContest(j, i)
        BY <1>7, <3>1, <3>2 DEF Recorded, OneLineOfTruth
      <3> QED
        BY <3>2, <3>3 DEF SameContest
    <2> QED
      BY <2>1, <2>2
  <1>8. ASSUME NEW i \in 1..n + 1, \A k \in i + 1..n + 1 : ~SameContest(k, i)'
        PROVE  effective'[history'[i].contest] = history'[i]
    <2>1. CASE i = n + 1
      BY <1>1, <1>2, <2>1
    <2>2. CASE i # n + 1
      <3>1. i \in 1..n /\ n + 1 \in i + 1..n + 1 /\ \A k \in i + 1..n : k \in 1..n /\ k \in i + 1..n + 1
        BY <1>1, <2>2
      <3>2. history[i].contest # r.contest
        BY <1>1, <1>8, <3>1 DEF SameContest
      <3>3. \A k \in i + 1..n : ~SameContest(k, i)
        BY <1>1, <1>8, <3>1 DEF SameContest
      <3>4. effective[history[i].contest] = history[i]
        BY <3>1, <3>3 DEF Recorded, OneLineOfTruth
      <3> QED
        BY <1>1, <1>2, <1>3, <3>1, <3>2, <3>4
    <2> QED
      BY <2>1, <2>2
  <1>9. ASSUME NEW x \in DOMAIN effective'
        PROVE  \E i \in 1..n + 1 : history'[i] = effective'[x]
    <2>1. CASE x = r.contest
      BY <1>1, <1>2, <2>1
    <2>2. CASE x # r.contest
      <3>1. PICK i \in 1..n : history[i] = effective[x]
        BY <1>2, <2>2 DEF Recorded, OneLineOfTruth
      <3> QED
        BY <1>1, <1>2, <2>2, <3>1
    <2> QED
      BY <2>1, <2>2
  <1>10. OneLineOfTruth'
    BY <1>1, <1>6, <1>7, <1>8, <1>9 DEF OneLineOfTruth
  <1> QED
    BY <1>1, <1>5, <1>10 DEF Recorded

-----------------------------------------------------------------------------
(* Only AppendEvent changes what is recorded; the other steps move desks.  *)
LEMMA InitInv == TruthInit => IInv
  BY DEF TruthInit, IInv, TypeOK, TruthStaysPlayable, Recorded, OneLineOfTruth, Answered, Ids, At

LEMMA UnchangedLine ==
  ASSUME Recorded, history' = history, effective' = effective
  PROVE  Recorded'
  <1>1. \A i, j : SameContest(i, j)' = SameContest(i, j)
    BY DEF SameContest
  <1>2. \A i, j : Follows(i, j)' = Follows(i, j)
    BY <1>1 DEF Follows
  <1>3. OneLineOfTruth'
    BY <1>1, <1>2, Zenon DEF Recorded, OneLineOfTruth
  <1> QED
    BY <1>3 DEF Recorded

LEMMA Untouched ==
  ASSUME IInv, UNCHANGED <<version, processed, fingerprints, layerVars, effective, history>>
  PROVE  /\ (desk' \in [Desks -> Request \cup {None}]) => TypeOK'
         /\ TruthStaysPlayable' /\ Recorded'
         /\ (\A d \in Desks : At(d, "ACCEPTED")' => desk'[d].id \in Ids /\ fingerprints[desk'[d].id] = desk'[d].content)
              => Answered'
  <1>1. (desk' \in [Desks -> Request \cup {None}]) => TypeOK'
    BY DEF IInv, TypeOK, layerVars
  <1>2. TruthStaysPlayable'
    BY DEF IInv, TruthStaysPlayable, Registered, layerVars
  <1>3. Recorded'
    BY UnchangedLine DEF IInv
  <1>4. (\A d \in Desks : At(d, "ACCEPTED")' => desk'[d].id \in Ids /\ fingerprints[desk'[d].id] = desk'[d].content)
          => Answered'
    BY DEF IInv, Answered, Ids
  <1> QED
    BY <1>1, <1>2, <1>3, <1>4

LEMMA DeskStep ==
  ASSUME IInv, NEW d \in Desks, Send(d) \/ AnswerAgain(d) \/ Decide(d) \/ SendAgain(d) \/ GiveUp(d)
  PROVE  IInv'
  <1>1. UNCHANGED <<version, processed, fingerprints, layerVars, effective, history>>
    BY DEF Send, AnswerAgain, Decide, SendAgain, GiveUp
  <1>2. /\ desk' \in [Desks -> Request \cup {None}]
        /\ \A e \in Desks \ {d} : desk'[e] = desk[e]
        /\ At(d, "ACCEPTED")' => desk'[d].id \in Ids /\ fingerprints[desk'[d].id] = desk'[d].content
    <2>1. desk \in [Desks -> Request \cup {None}] /\ version \in Nat
      BY DEF IInv, TypeOK
    <2>2. CASE Send(d)
      <3>1. PICK c \in Submitted :
              desk' = [desk EXCEPT ![d] = [id |-> c.id, content |-> c.content, expected |-> version, stage |-> "SENT"]]
        BY <2>2 DEF Send
      <3>2. [id |-> c.id, content |-> c.content, expected |-> version, stage |-> "SENT"] \in Request
        BY <2>1, SubmittedAssumption DEF Request
      <3> QED
        BY <2>1, <3>1, <3>2 DEF At
    <2>3. CASE AnswerAgain(d)
      <3>1. desk[d] \in Request
        BY <2>1, <2>3 DEF AnswerAgain, At
      <3>2. [desk[d] EXCEPT !.stage = "ACCEPTED"] \in Request
        BY <3>1 DEF Request
      <3>3. desk' = [desk EXCEPT ![d] = [desk[d] EXCEPT !.stage = "ACCEPTED"]]
        BY <2>3 DEF AnswerAgain
      <3>4. desk'[d].id = desk[d].id /\ desk'[d].content = desk[d].content
        BY <2>1, <3>1, <3>3 DEF Request
      <3> QED
        BY <2>1, <2>3, <3>2, <3>3, <3>4 DEF AnswerAgain, Known
    <2>4. CASE Decide(d)
      <3>1. desk[d] \in Request
        BY <2>1, <2>4 DEF Decide, At
      <3>2. [desk[d] EXCEPT !.stage = "DECIDED"] \in Request
        BY <3>1 DEF Request
      <3>3. desk' = [desk EXCEPT ![d] = [desk[d] EXCEPT !.stage = "DECIDED"]]
        BY <2>4 DEF Decide
      <3>4. desk'[d].stage = "DECIDED"
        BY <2>1, <3>1, <3>3 DEF Request
      <3> QED
        BY <2>1, <3>2, <3>3, <3>4 DEF At
    <2>5. CASE SendAgain(d)
      <3>1. desk[d] \in Request
        BY <2>1, <2>5 DEF SendAgain, Waiting
      <3>2. [desk[d] EXCEPT !.expected = version, !.stage = "SENT"] \in Request
        BY <2>1, <3>1 DEF Request
      <3>3. desk' = [desk EXCEPT ![d] = [desk[d] EXCEPT !.expected = version, !.stage = "SENT"]]
        BY <2>1, <2>5 DEF SendAgain
      <3>4. desk'[d].stage = "SENT"
        BY <2>1, <3>1, <3>3 DEF Request
      <3> QED
        BY <2>1, <3>2, <3>3, <3>4 DEF At
    <2>6. CASE GiveUp(d)
      BY <2>1, <2>6 DEF GiveUp, At
    <2> QED
      BY <2>2, <2>3, <2>4, <2>5, <2>6
  <1>3. \A e \in Desks : At(e, "ACCEPTED")' => desk'[e].id \in Ids /\ fingerprints[desk'[e].id] = desk'[e].content
    BY <1>2 DEF IInv, Answered, At
  <1> QED
    BY <1>1, <1>2, <1>3, Untouched DEF IInv

(* What one event does to the layers and to the results.                   *)
LEMMA EvolveStep ==
  ASSUME IInv, NEW c \in TournamentCommand, Lawful(c), Evolve(c), version' = version + 1,
         processed' \in Seq({e.id : e \in Submitted}), desk' \in [Desks -> Request \cup {None}]
  PROVE  TypeOK' /\ TruthStaysPlayable' /\ Recorded'
  <1>1. version \in Nat /\ definitions \in Nat
    BY DEF IInv, TypeOK
  <1>2. CASE c.kind \in {"REGISTER_DEFINITION", "ACTIVATE_PLAN"}
    <2>1. /\ definitions' \in Nat
          /\ operationals' = operationals /\ effective' = effective /\ history' = history
      BY <1>1, <1>2 DEF Evolve
    <2>2. Registered' = Registered
      BY <2>1 DEF Registered
    <2>3. TypeOK'
      BY <1>1, <2>1 DEF IInv, TypeOK
    <2>4. TruthStaysPlayable'
      BY <2>1, <2>2 DEF IInv, TruthStaysPlayable
    <2>5. Recorded'
      BY <2>1, UnchangedLine DEF IInv
    <2> QED
      BY <2>3, <2>4, <2>5
  <1>3. CASE c.kind = "ACTIVATE_OPERATIONAL"
    <2>1. c \in Operate /\ KeepsResults(c.contests)
      BY <1>3, KindsTell DEF Lawful
    <2>2. /\ operationals' = Append(operationals, [plan |-> c.plan, contests |-> c.contests])
          /\ definitions' = definitions /\ effective' = effective /\ history' = history
      BY <1>3 DEF Evolve
    <2> DEFINE S == [plan : Nat, contests : Rosters]
               o == [plan |-> c.plan, contests |-> c.contests]
    <2>3. o \in S
      BY <2>1 DEF Operate
    <2>4. operationals \in Seq(S)
      BY DEF IInv, TypeOK
    <2>5. operationals' \in Seq(S) /\ operationals' # <<>> /\ operationals'[Len(operationals')] = o
      <3> HIDE DEF S, o
      <3>1. operationals' = Append(operationals, o)
        BY <2>2 DEF o
      <3> QED
        BY <2>3, <2>4, <3>1
    <2>6. Registered' = c.contests
      BY <2>5 DEF Registered
    <2>7. TruthStaysPlayable'
      BY <2>1, <2>2, <2>6 DEF IInv, TruthStaysPlayable, KeepsResults
    <2>8. Recorded'
      BY <2>2, UnchangedLine DEF IInv
    <2> QED
      BY <1>1, <2>2, <2>5, <2>7, <2>8 DEF IInv, TypeOK
  <1>4. CASE c.kind \in {"RECORD_RESULT", "CORRECT_RESULT", "VOID_RESULT"}
    <2> DEFINE r == ActualResult(c, version + 1)
    <2>1. Enter(r)
      BY <1>4 DEF Evolve
    <2>2. /\ r \in Result
          /\ r.contest \in DOMAIN Registered
          /\ Registered[r.contest] = r.entrants
          /\ r.status = "RECORDED" => r.winner \in r.entrants
          /\ r.contest \in DOMAIN effective =>
               /\ r.supersedes # None
               /\ effective[r.contest].status = "RECORDED"
               /\ effective[r.contest].event = r.supersedes
      BY <1>4, ResultEntered DEF IInv
    <2> HIDE DEF r
    <2>3. TruthStaysPlayable'
      BY <2>1, <2>2, EnterKeepsTruth DEF IInv
    <2>4. Recorded'
      BY <2>1, <2>2, EnterKeepsLine DEF IInv
    <2>5. history' \in Seq(Result)
      BY <2>1, <2>2 DEF IInv, TypeOK, Enter
    <2>6. /\ DOMAIN effective' \subseteq Contests
          /\ \A x \in DOMAIN effective' : effective'[x] \in Result /\ effective'[x].contest = x
      <3>1. DOMAIN effective' = DOMAIN effective \cup {r.contest} /\ effective'[r.contest] = r
            /\ \A x \in DOMAIN effective : x # r.contest => effective'[x] = effective[x]
        BY <2>1 DEF Enter
      <3>2. r.contest \in Contests
        BY <2>2 DEF Result
      <3> QED
        BY <2>2, <3>1, <3>2 DEF IInv, TypeOK
    <2> QED
      BY <1>1, <2>1, <2>3, <2>4, <2>5, <2>6 DEF IInv, TypeOK, Enter, layerVars
  <1> QED
    BY <1>2, <1>3, <1>4, KindsTell

(* An event is of a new command id, so no answer given before changes.     *)
LEMMA AppendStep ==
  ASSUME IInv, NEW d \in Desks, AppendEvent(d)
  PROVE  IInv'
  <1>1. PICK stage \in {"ACCEPTED", "SENT"} : desk' = [desk EXCEPT ![d] = [desk[d] EXCEPT !.stage = stage]]
    BY DEF AppendEvent
  <1>2. desk[d] \in Request /\ desk \in [Desks -> Request \cup {None}]
    BY DEF AppendEvent, At, IInv, TypeOK
  <1> DEFINE id == desk[d].id
             content == desk[d].content
  <1>3. id \in {e.id : e \in Submitted} /\ content \in TournamentCommand
    BY <1>2 DEF Request
  <1>4. [desk[d] EXCEPT !.stage = stage] \in Request
    BY <1>2 DEF Request
  <1>5. /\ desk' \in [Desks -> Request \cup {None}]
        /\ desk'[d].id = id /\ desk'[d].content = content
        /\ \A e \in Desks \ {d} : desk'[e] = desk[e]
    BY <1>1, <1>2, <1>4 DEF Request
  <1>6. /\ id \notin Ids
        /\ processed' = Append(processed, id)
        /\ fingerprints' = [i \in DOMAIN fingerprints \cup {id} |-> IF i = id THEN content ELSE fingerprints[i]]
        /\ Lawful(content) /\ Evolve(content) /\ version' = version + 1
    BY DEF AppendEvent, Linked
  <1> HIDE DEF id, content
  <1>7. processed \in Seq({e.id : e \in Submitted})
    BY DEF IInv, TypeOK
  <1>8. processed' \in Seq({e.id : e \in Submitted})
    BY <1>3, <1>6, <1>7
  <1>9. TypeOK' /\ TruthStaysPlayable' /\ Recorded'
    BY <1>3, <1>5, <1>6, <1>8, EvolveStep
  <1>10. Len(processed') = Len(processed) + 1 /\ Len(processed) \in Nat /\ processed'[Len(processed) + 1] = id
         /\ \A i \in 1..Len(processed) : processed'[i] = processed[i]
    BY <1>6, <1>7
  <1>11. Ids' = Ids \cup {id}
    BY <1>10 DEF Ids
  <1>12. Answered'
    <2>1. \A i, j \in 1..Len(processed') : processed'[i] = processed'[j] => i = j
      <3>1. \A i \in 1..Len(processed) : processed[i] # id
        BY <1>6 DEF Ids
      <3> QED
        BY <1>10, <3>1 DEF IInv, Answered
    <2>2. DOMAIN fingerprints' = Ids'
      BY <1>6, <1>11 DEF IInv, Answered
    <2>3. ASSUME NEW e \in Desks, At(e, "ACCEPTED")'
          PROVE  desk'[e].id \in Ids' /\ fingerprints'[desk'[e].id] = desk'[e].content
      <3>1. CASE e = d
        BY <1>5, <1>6, <1>11, <3>1
      <3>2. CASE e # d
        <4>1. desk[e].id \in Ids /\ fingerprints[desk[e].id] = desk[e].content /\ desk'[e] = desk[e]
          BY <1>5, <2>3, <3>2 DEF IInv, Answered, At
        <4>2. desk[e].id \in DOMAIN fingerprints /\ desk[e].id # id
          BY <1>6, <4>1 DEF IInv, Answered
        <4> QED
          BY <1>6, <1>11, <4>1, <4>2
      <3> QED
        BY <3>1, <3>2
    <2> QED
      BY <2>1, <2>2, <2>3 DEF Answered
  <1> QED
    BY <1>9, <1>12 DEF IInv

LEMMA NextInv == IInv /\ [TruthNext]_truthVars => IInv'
  <1>1. ASSUME IInv, UNCHANGED truthVars PROVE IInv'
    <2>1. UNCHANGED <<version, processed, fingerprints, layerVars, effective, history>> /\ desk' = desk
      BY <1>1 DEF truthVars, layerVars
    <2> QED
      BY <1>1, <2>1, Untouched DEF IInv, TypeOK, Answered, At
  <1> QED
    BY <1>1, DeskStep, AppendStep DEF TruthNext

LEMMA Invariance == TruthSpec => []IInv
  BY InitInv, NextInv, PTL DEF TruthSpec

(***************************************************************************)
(* No result is left about a contest or entrants the roster in force does  *)
(* not know (tournament-state.ts, KeepsResults and ValidResult).           *)
(***************************************************************************)
THEOREM ResultsStayPlayable == TruthSpec => []TruthStaysPlayable
  <1>1. IInv => TruthStaysPlayable
    BY DEF IInv
  <1> QED
    BY <1>1, Invariance, PTL

(***************************************************************************)
(* Results of a contest supersede one another in one line, however many    *)
(* desks correct it at once (tournament-state.ts, SupersedesCurrent).      *)
(***************************************************************************)
THEOREM OneLine == TruthSpec => []OneLineOfTruth
  <1>1. IInv => OneLineOfTruth
    BY DEF IInv, Recorded
  <1> QED
    BY <1>1, Invariance, PTL

(* An id that was answered is in the record once, and with its content.    *)
LEMMA AnswersTrueByInv == IInv => AnswersAreTrue
  <1> SUFFICES ASSUME IInv PROVE AnswersAreTrue
    OBVIOUS
  <1>1. ASSUME NEW d \in Desks, At(d, "ACCEPTED")
        PROVE  \E i \in 1..Len(processed) : \A j \in 1..Len(processed) : (processed[j] = desk[d].id) = (j = i)
    <2>1. PICK i \in 1..Len(processed) : processed[i] = desk[d].id
      BY <1>1 DEF IInv, Answered, Ids
    <2>2. \A j \in 1..Len(processed) : (processed[j] = desk[d].id) = (j = i)
      BY <2>1 DEF IInv, Answered
    <2> QED
      BY <2>2
  <1> QED
    BY <1>1 DEF IInv, Answered, AnswersAreTrue

(***************************************************************************)
(* What was answered "accepted" took effect exactly once, with the content *)
(* that was sent (tournament-state.ts, Known and the envelope's checks).   *)
(***************************************************************************)
THEOREM AcceptedIsRecorded == TruthSpec => []AnswersAreTrue
  BY AnswersTrueByInv, Invariance, PTL

-----------------------------------------------------------------------------
(***************************************************************************)
(* Rate limits.                                                            *)
(***************************************************************************)
Bucket == [started : Nat, expires : Nat, count : Nat]

RateTypes ==
  /\ clock \in Nat
  /\ allowed \in Seq(Nat)
  /\ bucket \in Bucket \cup {Nil}
  /\ bucket # Nil => bucket.expires = bucket.started + Window /\ bucket.started <= clock
  /\ comeBack # Nil => bucket # Nil /\ comeBack = bucket.expires

(* The requests in `log` that were let through: those after m were counted *)
(* into the present window b, those after l into the one before, and all   *)
(* others lie a window further back.                                       *)
Fits(log, b, l, m) ==
  /\ l \in Nat /\ m \in Nat /\ l <= m /\ m <= Len(log)
  /\ m - l <= RateLimit /\ Len(log) - m <= RateLimit
  /\ \A i \in 1..Len(log) :
       /\ log[i] < b.expires
       /\ i <= m => log[i] < b.started
       /\ i <= l => log[i] < b.started - Window

InStretch(log, t) == {i \in 1..Len(log) : log[i] \in t..t + Window - Patience - 1}
Stretches(log) == \A t \in Nat : Cardinality(InStretch(log, t)) <= 2 * RateLimit

RateInv ==
  /\ RateTypes
  /\ bucket = Nil => allowed = <<>>
  /\ bucket # Nil => \E l, m \in Nat : Fits(allowed, bucket, l, m) /\ Len(allowed) - m <= bucket.count
  /\ Stretches(allowed)

LEMMA NextWindowFits ==
  ASSUME NEW log \in Seq(Nat), NEW b \in Bucket, NEW l, NEW m, Fits(log, b, l, m),
         NEW c \in Bucket, b.expires = b.started + Window, b.expires <= c.started, c.expires = c.started + Window
  PROVE  Fits(log, c, m, Len(log))
  <1>1. Len(log) \in Nat /\ Window \in Nat /\ Window >= 1 /\ RateLimit \in Nat
    BY LimitsAssumption
  <1>2. \A i \in 1..Len(log) : log[i] \in Nat
    OBVIOUS
  <1>3. b.started \in Nat /\ c.started \in Nat
    BY DEF Bucket
  <1>4. ASSUME NEW i \in 1..Len(log)
        PROVE  /\ log[i] < c.expires
               /\ log[i] < c.started
               /\ i <= m => log[i] < c.started - Window
    <2>1. log[i] \in Nat /\ log[i] < b.started + Window /\ b.started + Window <= c.started
      BY <1>2 DEF Fits
    <2>2. i <= m => log[i] < b.started
      BY DEF Fits
    <2> QED
      BY <1>1, <1>3, <2>1, <2>2
  <1>5. m \in Nat /\ m <= Len(log) /\ Len(log) - m <= RateLimit
    BY DEF Fits
  <1> QED
    BY <1>1, <1>4, <1>5 DEF Fits

LEMMA MoreFits ==
  ASSUME NEW log \in Seq(Nat), NEW b \in Bucket, NEW l, NEW m, Fits(log, b, l, m),
         NEW now \in Nat, now < b.expires, Len(log) + 1 - m <= RateLimit
  PROVE  Fits(Append(log, now), b, l, m)
  <1>1. /\ Len(log) \in Nat /\ Len(Append(log, now)) = Len(log) + 1 /\ Append(log, now)[Len(log) + 1] = now
        /\ \A i \in 1..Len(log) : Append(log, now)[i] = log[i]
    OBVIOUS
  <1> DEFINE more == Append(log, now)
  <1> HIDE DEF more
  <1>2. ASSUME NEW i \in 1..Len(log) + 1
        PROVE  /\ more[i] < b.expires
               /\ i <= m => more[i] < b.started
               /\ i <= l => more[i] < b.started - Window
    <2>1. CASE i = Len(log) + 1
      BY <1>1, <2>1 DEF Fits, more
    <2>2. CASE i \in 1..Len(log)
      <3>1. more[i] = log[i]
        BY <1>1, <2>2 DEF more
      <3> QED
        BY <2>2, <3>1 DEF Fits
    <2> QED
      BY <1>1, <2>1, <2>2
  <1>3. m <= Len(log) + 1
    BY <1>1 DEF Fits
  <1> QED
    BY <1>1, <1>2, <1>3 DEF Fits, more

LEMMA StretchOfMore ==
  ASSUME NEW log \in Seq(Nat), Stretches(log), NEW now \in Nat, NEW k \in 0..Len(log),
         Len(log) + 1 - k <= 2 * RateLimit, \A i \in 1..k : log[i] < now + Patience - Window
  PROVE  Stretches(Append(log, now))
  <1> DEFINE n == Len(log)
             more == Append(log, now)
  <1>0. /\ n \in Nat /\ Len(more) = n + 1 /\ more[n + 1] = now /\ \A i \in 1..n : more[i] = log[i]
        /\ \A i \in 1..n : log[i] \in Nat
        /\ Window \in Nat /\ Patience \in Nat /\ RateLimit \in Nat
    BY LimitsAssumption
  <1> HIDE DEF more, n
  <1> SUFFICES ASSUME NEW t \in Nat PROVE Cardinality(InStretch(more, t)) <= 2 * RateLimit
    BY DEF Stretches, more
  <1> DEFINE stretch == t..t + Window - Patience - 1
  <1>1. CASE now \notin stretch
    <2>1. InStretch(more, t) \subseteq InStretch(log, t)
      BY <1>0, <1>1 DEF InStretch, n
    <2>2. InStretch(log, t) \subseteq InStretch(more, t)
      BY <1>0 DEF InStretch, n
    <2>3. InStretch(more, t) = InStretch(log, t)
      BY <2>1, <2>2
    <2> QED
      BY <2>3 DEF Stretches
  <1>2. CASE now \in stretch
    <2>1. InStretch(more, t) \subseteq k + 1..n + 1
      <3>1. t <= now /\ now <= t + Window - Patience - 1
        BY <1>0, <1>2
      <3>2. ASSUME NEW i \in 1..k PROVE more[i] = log[i] /\ log[i] < t
        <4>1. i \in 1..n /\ log[i] \in Nat /\ log[i] < now + Patience - Window
          BY <1>0 DEF n
        <4> QED
          BY <1>0, <3>1, <4>1
      <3> QED
        BY <1>0, <3>2 DEF InStretch, n
    <2>2. IsFiniteSet(k + 1..n + 1) /\ Cardinality(k + 1..n + 1) = n + 1 - k
      <3>1. k + 1 \in Int /\ n + 1 \in Int /\ k + 1 <= n + 1 /\ (n + 1) - (k + 1) + 1 = n + 1 - k
        BY <1>0 DEF n
      <3> QED
        BY <3>1, FS_Interval
    <2>3. IsFiniteSet(InStretch(more, t)) /\ Cardinality(InStretch(more, t)) <= n + 1 - k
      <3>1. PICK late : late = k + 1..n + 1
        OBVIOUS
      <3>2. IsFiniteSet(late) /\ InStretch(more, t) \in SUBSET late
        BY <2>1, <2>2, <3>1
      <3>3. IsFiniteSet(InStretch(more, t)) /\ Cardinality(InStretch(more, t)) <= Cardinality(late)
        BY ONLY <3>2, FS_Subset
      <3> QED
        BY <2>2, <3>1, <3>3
    <2>4. Cardinality(InStretch(more, t)) \in Nat
      BY <2>3, FS_CardinalityType
    <2> QED
      BY <1>0, <2>3, <2>4 DEF n
  <1> QED
    BY <1>1, <1>2

LEMMA RateInitInv == RateInit /\ clock = 0 => RateInv
  <1> SUFFICES ASSUME RateInit, clock = 0 PROVE RateInv
    OBVIOUS
  <1>1. allowed = <<>> /\ bucket = Nil /\ comeBack = Nil
    BY DEF RateInit
  <1>2. Stretches(<<>>)
    <2>1. \A t \in Nat : InStretch(<<>>, t) = {}
      BY DEF InStretch
    <2>2. Cardinality({}) = 0
      BY FS_EmptySet
    <2>3. RateLimit \in Nat
      BY LimitsAssumption
    <2>4. ASSUME NEW t \in Nat PROVE Cardinality(InStretch(<<>>, t)) <= 2 * RateLimit
      <3>1. InStretch(<<>>, t) = {}
        BY <2>1
      <3>2. Cardinality(InStretch(<<>>, t)) = 0
        BY ONLY <2>2, <3>1
      <3> QED
        BY <2>3, <3>2
    <2> QED
      BY <2>4 DEF Stretches
  <1> QED
    BY <1>1, <1>2 DEF RateInv, RateTypes

LEMMA ConsumeKeepsRateInv ==
  ASSUME RateInv, Consume
  PROVE  RateInv'
  <1>0. /\ Window \in Nat /\ Patience \in Nat /\ RateLimit \in Nat /\ Window >= 1 /\ RateLimit >= 1
        /\ clock \in Nat /\ allowed \in Seq(Nat) /\ Len(allowed) \in Nat
    BY LimitsAssumption DEF RateInv, RateTypes
  <1>1. PICK now \in {t \in clock - Patience..clock : t >= 0} :
          /\ bucket' = Counted(now)
          /\ \/ Admits(now) /\ allowed' = Append(allowed, now) /\ comeBack' = Nil
             \/ ~Admits(now) /\ comeBack' = bucket'.expires /\ UNCHANGED allowed
             \/ comeBack' = Nil /\ UNCHANGED allowed
          /\ UNCHANGED clock
    BY DEF Consume
  <1>2. now \in Nat /\ now <= clock /\ now >= clock - Patience
    BY <1>0, <1>1
  <1>3. PICK b : b = bucket'
    OBVIOUS
  <1>4. /\ b \in Bucket /\ b # Nil /\ b.expires = b.started + Window /\ b.started <= clock /\ now < b.expires
        /\ \E l, m \in Nat : Fits(allowed, b, l, m) /\ Len(allowed) - m + 1 <= b.count
    <2>1. CASE bucket = Nil \/ bucket.expires <= now
      <3>1. b = [started |-> now, expires |-> now + Window, count |-> 1]
        BY <1>1, <1>3, <2>1 DEF Counted
      <3>2. b \in Bucket /\ b.expires = b.started + Window /\ b.started = now /\ b.count = 1
        BY <1>0, <1>2, <3>1 DEF Bucket
      <3>3. b # Nil
        BY <3>2, NilAssumption DEF Bucket
      <3>4. CASE bucket = Nil
        <4>1. Fits(allowed, b, 0, 0) /\ Len(allowed) = 0
          BY <1>0, <3>4 DEF RateInv, Fits
        <4> QED
          BY <1>0, <1>2, <3>2, <3>3, <4>1
      <3>5. CASE bucket # Nil
        <4>1. bucket \in Bucket /\ bucket.expires = bucket.started + Window /\ bucket.expires <= b.started
          BY <2>1, <3>2, <3>5 DEF RateInv, RateTypes
        <4>2. PICK l \in Nat, m \in Nat : Fits(allowed, bucket, l, m)
          BY <3>5 DEF RateInv
        <4>3. Fits(allowed, b, m, Len(allowed))
          BY <1>0, <3>2, <4>1, <4>2, NextWindowFits
        <4> QED
          BY <1>0, <1>2, <3>2, <3>3, <4>2, <4>3
      <3> QED
        BY <3>4, <3>5
    <2>2. CASE ~(bucket = Nil \/ bucket.expires <= now)
      <3>1. b = [bucket EXCEPT !.count = @ + 1] /\ bucket \in Bucket /\ bucket.expires = bucket.started + Window
            /\ bucket.started <= clock
        BY <1>1, <1>3, <2>2 DEF Counted, RateInv, RateTypes
      <3>2. b \in Bucket /\ b.started = bucket.started /\ b.expires = bucket.expires /\ b.count = bucket.count + 1
        BY <3>1 DEF Bucket
      <3>3. b # Nil
        BY <3>2, NilAssumption DEF Bucket
      <3>4. PICK l \in Nat, m \in Nat : Fits(allowed, bucket, l, m) /\ Len(allowed) - m <= bucket.count
        BY <2>2 DEF RateInv
      <3>5. Fits(allowed, b, l, m)
        BY <3>2, <3>4 DEF Fits
      <3>6. Len(allowed) - m + 1 <= b.count
        BY <1>0, <3>1, <3>2, <3>4 DEF Bucket
      <3>7. now < b.expires
        BY <1>2, <2>2, <3>1, <3>2 DEF Bucket
      <3> QED
        BY <3>1, <3>2, <3>3, <3>5, <3>6, <3>7
    <2> QED
      BY <2>1, <2>2
  <1>5. PICK l \in Nat, m \in Nat : Fits(allowed, b, l, m) /\ Len(allowed) - m + 1 <= b.count
    BY <1>4
  <1>6. b.started \in Nat /\ b.count \in Nat
    BY <1>4 DEF Bucket
  <1>7. CASE UNCHANGED allowed
    <2>1. RateTypes'
      BY <1>0, <1>1, <1>3, <1>4, <1>7 DEF RateTypes
    <2>2. Fits(allowed', b, l, m) /\ Len(allowed') - m <= b.count
      BY <1>0, <1>5, <1>6, <1>7
    <2>3. Stretches(allowed')
      BY <1>7 DEF RateInv
    <2> QED
      BY <1>3, <1>4, <2>1, <2>2, <2>3 DEF RateInv
  <1>8. CASE Admits(now) /\ allowed' = Append(allowed, now) /\ comeBack' = Nil
    <2>1. b.count <= RateLimit
      BY <1>1, <1>3, <1>8 DEF Admits
    <2>2. Len(allowed) + 1 - m <= RateLimit /\ m - l <= RateLimit /\ l <= m /\ m <= Len(allowed)
      BY <1>0, <1>5, <1>6, <2>1 DEF Fits
    <2>3. Fits(allowed', b, l, m)
      BY <1>0, <1>2, <1>4, <1>5, <1>8, <2>2, MoreFits
    <2>4. Len(allowed') - m <= b.count
      BY <1>0, <1>5, <1>6, <1>8
    <2>5. \A i \in 1..l : allowed[i] < now + Patience - Window
      <3>1. \A i \in 1..l : allowed[i] < b.started - Window /\ allowed[i] \in Nat
        BY <1>0, <1>5, <2>2 DEF Fits
      <3> QED
        BY <1>0, <1>2, <1>4, <1>6, <3>1
    <2>6. l \in 0..Len(allowed) /\ Len(allowed) + 1 - l <= 2 * RateLimit
      BY <1>0, <2>2
    <2>7. Stretches(allowed')
      BY <1>0, <1>2, <1>8, <2>5, <2>6, StretchOfMore DEF RateInv
    <2>8. RateTypes'
      BY <1>0, <1>1, <1>2, <1>3, <1>4, <1>8 DEF RateTypes
    <2> QED
      BY <1>3, <1>4, <2>3, <2>4, <2>7, <2>8 DEF RateInv
  <1> QED
    BY <1>1, <1>7, <1>8

(* Time, and what happens elsewhere, changes nothing of a member's window. *)
LEMMA TimeKeepsRateInv ==
  ASSUME RateInv, UNCHANGED rateVars, UNCHANGED clock \/ Tick
  PROVE  RateInv'
  <1>1. bucket' = bucket /\ allowed' = allowed /\ comeBack' = comeBack
    BY DEF rateVars
  <1>2. clock \in Nat /\ clock' \in Nat /\ clock <= clock'
    BY DEF RateInv, RateTypes, Tick
  <1>3. RateTypes'
    <2>1. bucket # Nil => bucket.started \in Nat /\ bucket.started <= clock'
      BY <1>2 DEF RateInv, RateTypes, Bucket
    <2> QED
      BY <1>1, <1>2, <2>1 DEF RateInv, RateTypes
  <1>4. /\ bucket' = Nil => allowed' = <<>>
        /\ bucket' # Nil => \E l, m \in Nat : Fits(allowed', bucket', l, m) /\ Len(allowed') - m <= bucket'.count
        /\ Stretches(allowed')
    BY <1>1 DEF RateInv
  <1> QED
    BY <1>3, <1>4 DEF RateInv

LEMMA RateIsKeptByInv == RateInv => RateIsKept
  <1> SUFFICES ASSUME RateInv PROVE RateIsKept
    OBVIOUS
  <1>1. \A t \in 0..LastTick : Cardinality({i \in 1..Len(allowed) : allowed[i] \in t..t + Window - Patience - 1}) <= 2 * RateLimit
    BY DEF RateInv, Stretches, InStretch
  <1>2. ASSUME comeBack # Nil, clock >= comeBack PROVE Admits(clock)
    <2>1. Counted(clock).count = 1
      BY <1>2 DEF RateInv, RateTypes, Counted
    <2> QED
      BY <2>1, LimitsAssumption DEF Admits
  <1> QED
    BY <1>1, <1>2 DEF RateIsKept

-----------------------------------------------------------------------------
(***************************************************************************)
(* Webhooks.                                                               *)
(***************************************************************************)
Delivery == [stage : {"READ", "HELD", "TAKEN", "FAILED"}, hook : Hooks, stamp : Nat, now : Nat]
ReplayClaim == [status : {"PENDING", "COMPLETED"}, expires : Nat]

InTime(d) == d.now - d.stamp \in -MaxSkew..MaxSkew

WebhookTypes ==
  /\ clock \in Nat
  /\ handlers \in [Handlers -> Delivery \cup {Nil}]
  /\ replays \in [Hooks -> ReplayClaim \cup {Nil}]
  /\ accepted \in Seq(Delivery)
  /\ \A h \in Handlers : handlers[h] # Nil => handlers[h].now <= clock /\ InTime(handlers[h])
  /\ \A i \in 1..Len(accepted) : InTime(accepted[i])

(* A handler that once held the claim of its event. *)
Claimed(h) == handlers[h] # Nil /\ handlers[h].stage # "READ"
RunsOut(hook, time) == replays[hook] # Nil /\ replays[hook].expires = time
(* Its claim is gone for good: it can neither complete nor release. *)
Superseded(h) == clock >= Expiry(h) /\ ~RunsOut(handlers[h].hook, Expiry(h))

(* A claim stands until it runs out. *)
Guarded == \A h \in Handlers : Claimed(h) => RunsOut(handlers[h].hook, Expiry(h)) \/ clock >= Expiry(h)

OneHolder ==
  \A h, k \in Handlers :
    Claimed(h) /\ Claimed(k) /\ handlers[h].hook = handlers[k].hook /\ handlers[h].now = handlers[k].now => h = k

(* What was accepted is remembered for as long as its claim lives. *)
Remembered ==
  \A i \in 1..Len(accepted) :
    \/ RunsOut(accepted[i].hook, accepted[i].now + Ttl) /\ replays[accepted[i].hook].status = "COMPLETED"
    \/ clock >= accepted[i].now + Ttl

(* Whoever works on an accepted event read its clock late enough, or works in vain. *)
Apart ==
  \A h \in Handlers, i \in 1..Len(accepted) :
    Claimed(h) /\ handlers[h].hook = accepted[i].hook =>
      handlers[h].now - accepted[i].now >= Ttl - Patience \/ Superseded(h)

AcceptedApart ==
  \A i, j \in 1..Len(accepted) :
    i < j /\ accepted[i].hook = accepted[j].hook => accepted[j].now - accepted[i].now >= Ttl - Patience

HandedOver ==
  /\ \A h \in Handlers : Working(h, "TAKEN") => handlers[h].hook \in handed
  /\ \A i \in 1..Len(accepted) : accepted[i].hook \in handed

WebhookInv == WebhookTypes /\ Guarded /\ OneHolder /\ Remembered /\ Apart /\ AcceptedApart /\ HandedOver

-----------------------------------------------------------------------------
(***************************************************************************)
(* The ledger.                                                             *)
(***************************************************************************)
(* An event that was written: its fields, its hash and its place. *)
Written(e, i) ==
  /\ e = [body |-> e.body, hash |-> e.body]
  /\ e.body = [sequence |-> i, previous |-> e.body.previous, kind |-> e.body.kind, contest |-> e.body.contest,
               supersedes |-> e.body.supersedes, outcome |-> e.body.outcome]
  /\ e.body.outcome = [status |-> e.body.outcome.status, entrants |-> e.body.outcome.entrants,
                       winner |-> e.body.outcome.winner, loser |-> e.body.outcome.loser]
  /\ e.body.outcome.status \in {"COMPLETED", "WALKOVER", "VOIDED"}

LedgerInv ==
  /\ events \in Seq({events[i] : i \in 1..Len(events)})
  /\ \A i \in 1..Len(events) : Written(events[i], i)
  /\ Verified(events)

-----------------------------------------------------------------------------
(***************************************************************************)
(* The gateway.                                                            *)
(***************************************************************************)
Truth == [contest : Contests, entrants : Entrants \X Entrants, winner : Entrants, loser : Entrants,
          status : {"COMPLETED", "WALKOVER"}, score : Nat \X Nat]

Report == [contest : Names, entrants : Names \X Names, winner : Names, loser : Names,
           status : {"COMPLETED", "WALKOVER"}, score : Nat \X Nat]

IntakeInv ==
  /\ known # None => IsInjective(known)
  /\ \A p \in published : p.truth \in Truths /\ WellFormed(p.truth)
  /\ taken \in Seq({taken[i] : i \in 1..Len(taken)})
  /\ \A i \in 1..Len(taken) : taken[i].result = Internally(taken[i].envelope.result)
  /\ IntakeIsFaithful

(* A ledger in which every event has its number shows what is done to it.  *)
LEMMA LedgerShows == LedgerInv => LedgerShowsItsHistory
  <1> SUFFICES ASSUME LedgerInv PROVE LedgerShowsItsHistory
    OBVIOUS
  <1> DEFINE S == {events[i] : i \in 1..Len(events)}
  <1>1. events \in Seq(S) /\ Len(events) \in Nat
    BY DEF LedgerInv
  <1> HIDE DEF S
  <1>2. \A i \in 1..Len(events) : events[i].body.sequence = i /\ events[i].hash = events[i].body
    BY DEF LedgerInv, Verified, Chained
  <1> SUFFICES ASSUME NEW i \in 1..Len(events)
               PROVE  /\ i < Len(events) => ~Verified(Without(events, i)) /\ ~Verified(Exchanged(events, i))
                      /\ ~Verified(SubSeq(events, 1, i) \o SubSeq(events, i, Len(events)))
                      /\ ~Verified([events EXCEPT ![i].body.outcome.winner = None, ![i].body.outcome.status = "ALTERED"])
                      /\ Verified(SubSeq(events, 1, i))
    BY DEF LedgerShowsItsHistory, LedgerInv
  <1>3. ASSUME NEW log, NEW n \in 1..Len(log), log[n].body.sequence # n PROVE ~Verified(log)
    BY <1>3 DEF Verified, Chained
  <1>4. ASSUME i < Len(events) PROVE ~Verified(Without(events, i))
    <2>1. /\ SubSeq(events, 1, i - 1) \in Seq(S) /\ Len(SubSeq(events, 1, i - 1)) = i - 1
          /\ SubSeq(events, i + 1, Len(events)) \in Seq(S) /\ Len(SubSeq(events, i + 1, Len(events))) = Len(events) - i
          /\ SubSeq(events, i + 1, Len(events))[1] = events[i + 1]
      BY <1>1, <1>4
    <2>2. Len(Without(events, i)) = Len(events) - 1 /\ Without(events, i)[i] = events[i + 1]
      <3>1. PICK front, back : front = SubSeq(events, 1, i - 1) /\ back = SubSeq(events, i + 1, Len(events))
        OBVIOUS
      <3>2. /\ front \in Seq(S) /\ Len(front) = i - 1
            /\ back \in Seq(S) /\ Len(back) = Len(events) - i /\ back[1] = events[i + 1]
        BY <2>1, <3>1
      <3>3. Len(front \o back) = Len(events) - 1 /\ (front \o back)[i] = back[1]
        <4>1. ASSUME NEW s \in Seq(S), NEW t \in Seq(S), NEW m \in Nat, Len(s) = m, Len(t) >= 1
              PROVE  Len(s \o t) = Len(s) + Len(t) /\ (s \o t)[m + 1] = t[1]
          BY <4>1
        <4>2. PICK m \in Nat : m = i - 1
          OBVIOUS
        <4>3. Len(back) >= 1
          BY <1>1, <1>4, <3>2
        <4>4. Len(front \o back) = Len(front) + Len(back) /\ (front \o back)[m + 1] = back[1]
          BY <3>2, <4>1, <4>2, <4>3
        <4>5. PICK whole : whole = front \o back
          OBVIOUS
        <4>6. Len(whole) = Len(front) + Len(back) /\ whole[m + 1] = back[1]
          BY <4>4, <4>5, Zenon
        <4>7. Len(whole) = Len(events) - 1 /\ whole[i] = back[1]
          BY <1>1, <3>2, <4>2, <4>6
        <4> QED
          BY <4>5, <4>7
      <3> QED
        BY <3>1, <3>2, <3>3 DEF Without
    <2>3. i \in 1..Len(Without(events, i)) /\ Without(events, i)[i].body.sequence # i
      BY <1>1, <1>2, <1>4, <2>2
    <2> QED
      BY <1>3, <2>3
  <1>5. ASSUME i < Len(events) PROVE ~Verified(Exchanged(events, i))
    <2>1. Exchanged(events, i)[i] = events[i + 1] /\ Len(Exchanged(events, i)) = Len(events)
      BY <1>1, <1>5 DEF Exchanged
    <2>2. i \in 1..Len(Exchanged(events, i)) /\ Exchanged(events, i)[i].body.sequence # i
      BY <1>1, <1>2, <1>5, <2>1
    <2> QED
      BY <1>3, <2>2
  <1>6. ~Verified(SubSeq(events, 1, i) \o SubSeq(events, i, Len(events)))
    <2>1. /\ SubSeq(events, 1, i) \in Seq(S) /\ Len(SubSeq(events, 1, i)) = i
          /\ SubSeq(events, i, Len(events)) \in Seq(S) /\ Len(SubSeq(events, i, Len(events))) = Len(events) - i + 1
          /\ SubSeq(events, i, Len(events))[1] = events[i]
      BY <1>1
    <2> DEFINE log == SubSeq(events, 1, i) \o SubSeq(events, i, Len(events))
    <2>2. Len(log) = Len(events) + 1 /\ log[i + 1] = events[i]
      BY <1>1, <2>1
    <2>3. i + 1 \in 1..Len(log) /\ log[i + 1].body.sequence # i + 1
      BY <1>1, <1>2, <2>2
    <2> HIDE DEF log
    <2>4. ~Verified(log)
      BY <1>3, <2>3
    <2> QED
      BY <2>4 DEF log
  <1>7. ~Verified([events EXCEPT ![i].body.outcome.winner = None, ![i].body.outcome.status = "ALTERED"])
    <2> DEFINE e == events[i]
               altered == [[e EXCEPT !.body.outcome.winner = None] EXCEPT !.body.outcome.status = "ALTERED"]
               log == [events EXCEPT ![i].body.outcome.winner = None, ![i].body.outcome.status = "ALTERED"]
    <2>1. Written(e, i)
      BY DEF LedgerInv
    <2>2. "body" \in DOMAIN e /\ "hash" \in DOMAIN e
      BY <2>1 DEF Written
    <2>3. "outcome" \in DOMAIN e.body
      BY <2>1 DEF Written
    <2>4. "status" \in DOMAIN e.body.outcome
      BY <2>1 DEF Written
    <2>5. altered.body.outcome.status = "ALTERED" /\ altered.hash = e.hash
      BY <2>2, <2>3, <2>4
    <2>6. e.hash.outcome.status # "ALTERED"
      BY <2>1, <1>2 DEF Written
    <2>7. Len(log) = Len(events) /\ log[i] = altered
      <3>1. PICK first : first = [e EXCEPT !.body.outcome.winner = None]
        OBVIOUS
      <3>2. PICK once : once = [events EXCEPT ![i] = first]
        OBVIOUS
      <3>3. once \in Seq(S \cup {first}) /\ Len(once) = Len(events) /\ once[i] = first
        BY <1>1, <3>2
      <3>4. PICK last : last = [first EXCEPT !.body.outcome.status = "ALTERED"]
        OBVIOUS
      <3>5. log = [once EXCEPT ![i] = last] /\ last = altered
        BY <3>1, <3>2, <3>3, <3>4
      <3>6. Len([once EXCEPT ![i] = last]) = Len(events) /\ [once EXCEPT ![i] = last][i] = last
        BY <1>1, <3>3
      <3> QED
        BY <3>5, <3>6
    <2>8. log[i].hash # log[i].body
      BY <2>5, <2>6, <2>7
    <2> HIDE DEF log
    <2>9. ~Verified(log)
      BY <1>1, <2>7, <2>8 DEF Verified
    <2> QED
      BY <2>9 DEF log
  <1>8. Verified(SubSeq(events, 1, i))
    <2>1. Len(SubSeq(events, 1, i)) = i /\ \A j \in 1..i : SubSeq(events, 1, i)[j] = events[j]
      BY <1>1
    <2> DEFINE log == SubSeq(events, 1, i)
    <2> HIDE DEF log
    <2>2. Len(log) = i /\ \A j \in 1..i : log[j] = events[j] /\ j \in 1..Len(events)
      BY <1>1, <2>1 DEF log
    <2>3. \A j \in 1..i : j # 1 => j - 1 \in 1..i
      BY <1>1
    <2>4. ASSUME NEW j \in 1..i
          PROVE  /\ log[j].hash = log[j].body
                 /\ Chained(log, j)
                 /\ log[j].body.supersedes # None => \E k \in 1..j - 1 : log[k].body.sequence = log[j].body.supersedes
      <3>1. /\ events[j].hash = events[j].body
            /\ Chained(events, j)
            /\ events[j].body.supersedes # None => \E k \in 1..j - 1 : events[k].body.sequence = events[j].body.supersedes
        BY <2>2 DEF LedgerInv, Verified
      <3>2. Chained(log, j)
        BY <2>2, <2>3, <3>1 DEF Chained
      <3>3. \A k \in 1..j - 1 : k \in 1..i
        OBVIOUS
      <3> QED
        BY <2>2, <3>1, <3>2, <3>3
    <2>5. Verified(log)
      BY <2>2, <2>4 DEF Verified
    <2> QED
      BY <2>5 DEF log
  <1> QED
    BY <1>4, <1>5, <1>6, <1>7, <1>8

(* What is appended is chained to what there is. *)
LEMMA AppendKeepsLedger ==
  ASSUME LedgerInv,
         NEW kind, NEW x, NEW supersedes, NEW outcome,
         supersedes = None \/ supersedes \in 1..Len(events),
         outcome = [status |-> outcome.status, entrants |-> outcome.entrants, winner |-> outcome.winner, loser |-> outcome.loser],
         outcome.status \in {"COMPLETED", "WALKOVER", "VOIDED"},
         AppendAdjudication(kind, x, supersedes, outcome)
  PROVE  LedgerInv'
  <1> DEFINE body == [sequence |-> Len(events) + 1, previous |-> LastHash, kind |-> kind, contest |-> x,
                      supersedes |-> supersedes, outcome |-> outcome]
             e == [body |-> body, hash |-> body]
             n == Len(events)
             S == {events[i] : i \in 1..Len(events)}
  <1>1. events' = Append(events, e)
    BY DEF AppendAdjudication
  <1>2. events \in Seq(S) /\ n \in Nat
    BY DEF LedgerInv
  <1>3. /\ body.sequence = n + 1 /\ body.previous = LastHash /\ body.supersedes = supersedes /\ body.outcome = outcome
        /\ e.body = body /\ e.hash = body
    OBVIOUS
  <1>4. body.kind = kind /\ body.contest = x
    OBVIOUS
  <1>5. Written(e, n + 1)
    BY <1>3, <1>4 DEF Written
  <1> HIDE DEF body, e, S
  <1>6. Len(events') = n + 1 /\ events'[n + 1] = e /\ \A i \in 1..n : events'[i] = events[i]
    BY <1>1, <1>2
  <1>7. events' \in Seq({events'[i] : i \in 1..Len(events')})
    <2>1. S \cup {e} = {events'[i] : i \in 1..Len(events')}
      BY <1>2, <1>6 DEF S
    <2>2. events' \in Seq(S \cup {e})
      BY <1>1, <1>2
    <2> QED
      BY <2>1, <2>2
  <1>8. \A i \in 1..Len(events') : Written(events'[i], i)
    <2>1. \A i \in 1..n : Written(events[i], i)
      BY DEF LedgerInv
    <2> QED
      BY <1>2, <1>5, <1>6, <2>1
  <1>9. Verified(events')
    <2>1. \A i \in 1..n : /\ events[i].hash = events[i].body
                          /\ Chained(events, i)
                          /\ events[i].body.supersedes # None => \E j \in 1..i - 1 : events[j].body.sequence = events[i].body.supersedes
      BY DEF LedgerInv, Verified
    <2>2. ASSUME NEW i \in 1..n
          PROVE  /\ events'[i].hash = events'[i].body
                 /\ Chained(events', i)
                 /\ events'[i].body.supersedes # None => \E j \in 1..i - 1 : events'[j].body.sequence = events'[i].body.supersedes
      <3>1. \A j \in 1..i - 1 : j \in 1..n
        BY <1>2
      <3>2. i # 1 => i - 1 \in 1..n
        BY <1>2
      <3>3. Chained(events', i)
        BY <1>6, <2>1, <3>2 DEF Chained
      <3> QED
        BY <1>6, <2>1, <3>1, <3>3
    <2>3. e.hash = e.body /\ Chained(events', n + 1)
      <3>1. LastHash = IF n + 1 = 1 THEN None ELSE events'[n].hash
        <4>1. n = 0 <=> events = <<>>
          BY <1>2
        <4>2. n # 0 => n \in 1..n /\ Last(events) = events[n]
          BY <1>2 DEF Last
        <4> QED
          BY <1>2, <1>6, <4>1, <4>2 DEF LastHash
      <3> QED
        BY <1>2, <1>3, <1>6, <3>1 DEF Chained
    <2>4. e.body.supersedes # None => \E j \in 1..n : events'[j].body.sequence = e.body.supersedes
      <3>1. \A j \in 1..n : events'[j].body.sequence = j
        BY <1>6, <2>1 DEF Chained
      <3> QED
        BY <1>3, <3>1
    <2> QED
      BY <1>2, <1>6, <2>2, <2>3, <2>4 DEF Verified
  <1> QED
    BY <1>7, <1>8, <1>9 DEF LedgerInv

LEMMA LedgerStep == LedgerInv /\ LedgerNext => LedgerInv'
  <1> SUFFICES ASSUME LedgerInv, LedgerNext PROVE LedgerInv'
    OBVIOUS
  <1> DEFINE Regular(o) == /\ o = [status |-> o.status, entrants |-> o.entrants, winner |-> o.winner, loser |-> o.loser]
                           /\ o.status \in {"COMPLETED", "WALKOVER", "VOIDED"}
  <1>1. \A pair, w : Regular(Decided("COMPLETED", pair, w)) /\ Regular(Decided("WALKOVER", pair, w)) /\ Regular(VoidOf(pair))
    BY DEF Decided, VoidOf
  <1>2. \E kind, x, supersedes, outcome :
          /\ supersedes = None \/ supersedes \in 1..Len(events)
          /\ Regular(outcome)
          /\ AppendAdjudication(kind, x, supersedes, outcome)
    <2> HIDE DEF Regular
    <2>1. CASE RecordResult
      BY <1>1, <2>1 DEF RecordResult
    <2>2. CASE RecordWalkover
      BY <1>1, <2>2 DEF RecordWalkover
    <2>3. CASE AdjudicateWithdrawal
      BY <1>1, <2>3 DEF AdjudicateWithdrawal
    <2>4. CASE CorrectResult
      BY <1>1, <2>4 DEF CorrectResult
    <2>5. CASE VoidResult
      BY <1>1, <2>5 DEF VoidResult
    <2> QED
      BY <2>1, <2>2, <2>3, <2>4, <2>5 DEF LedgerNext
  <1> QED
    BY <1>2, AppendKeepsLedger

LEMMA LedgerInitInv == LedgerInit => LedgerInv
  BY DEF LedgerInit, LedgerInv, Verified

-----------------------------------------------------------------------------
(* What a mapping says of an entrant is what the configuration says.       *)
LEMMA MappingPairs ==
  ASSUME NEW c, NEW e \in DOMAIN Mapping(c)
  PROVE  \E i \in 1..Len(c) : c[i][1] = e /\ c[i][2] = Mapping(c)[e]
  <1>1. \E i \in 1..Len(c) : c[i][1] = e
    BY DEF Mapping
  <1> DEFINE k == CHOOSE i \in 1..Len(c) : c[i][1] = e
  <1>2. k \in 1..Len(c) /\ c[k][1] = e
    BY <1>1
  <1>3. Mapping(c)[e] = c[k][2]
    BY DEF Mapping
  <1> QED
    BY <1>2, <1>3

(* A mapping that is not refused can be read backwards.                     *)
LEMMA MappingInjective ==
  ASSUME NEW c, Unambiguous(c) PROVE IsInjective(Mapping(c))
  <1> SUFFICES ASSUME NEW a \in DOMAIN Mapping(c), NEW b \in DOMAIN Mapping(c), Mapping(c)[a] = Mapping(c)[b]
               PROVE  a = b
    BY DEF IsInjective
  <1>1. PICK i \in 1..Len(c) : c[i][1] = a /\ c[i][2] = Mapping(c)[a]
    BY MappingPairs
  <1>2. PICK j \in 1..Len(c) : c[j][1] = b /\ c[j][2] = Mapping(c)[b]
    BY MappingPairs
  <1> QED
    BY <1>1, <1>2 DEF Unambiguous

LEMMA ReadBackwards ==
  ASSUME NEW f, IsInjective(f)
  PROVE  /\ \A e \in DOMAIN f : AntiFunction(f)[f[e]] = e
         /\ \A x \in Range(f) : AntiFunction(f)[x] \in DOMAIN f /\ f[AntiFunction(f)[x]] = x
  <1>1. ASSUME NEW x \in Range(f) PROVE AntiFunction(f)[x] \in DOMAIN f /\ f[AntiFunction(f)[x]] = x
    <2> DEFINE Back == CHOOSE e \in DOMAIN f : x \in Range(f) => f[e] = x
    <2>1. \E e \in DOMAIN f : f[e] = x
      BY DEF Range
    <2>2. Back \in DOMAIN f /\ f[Back] = x
      BY <2>1
    <2>3. AntiFunction(f)[x] = Back
      BY DEF AntiFunction, Inverse
    <2> QED
      BY <2>2, <2>3
  <1>2. \A e \in DOMAIN f : f[e] \in Range(f)
    BY DEF Range
  <1> QED
    BY <1>1, <1>2 DEF IsInjective

(* What is said in other names, part by part.                               *)
LEMMA RenamedParts ==
  ASSUME NEW r, NEW m,
         r = [contest |-> r.contest, entrants |-> r.entrants, winner |-> r.winner, loser |-> r.loser,
              status |-> r.status, score |-> r.score]
  PROVE  Renamed(r, m) = [contest |-> r.contest, entrants |-> <<m[r.entrants[1]], m[r.entrants[2]]>>,
                          winner |-> m[r.winner], loser |-> m[r.loser], status |-> r.status, score |-> r.score]
  <1>0. PICK C, N, W, L, S, T : /\ C = {r.contest} /\ N = {r.entrants} /\ W = {r.winner} /\ L = {r.loser}
                                /\ S = {r.status} /\ T = {r.score}
    OBVIOUS
  <1>1. PICK names : names = <<m[r.entrants[1]], m[r.entrants[2]]>>
    OBVIOUS
  <1>2. PICK first, second : first = m[r.winner] /\ second = m[r.loser]
    OBVIOUS
  <1>3. PICK q1 : q1 = [r EXCEPT !.entrants = names]
    OBVIOUS
  <1>4. q1 \in [contest : C, entrants : {names}, winner : W, loser : L, status : S, score : T]
    <2>1. r \in [contest : C, entrants : N, winner : W, loser : L, status : S, score : T]
      BY <1>0
    <2> QED
      BY <1>3, <2>1
  <1>5. PICK q2 : q2 = [q1 EXCEPT !.winner = first]
    OBVIOUS
  <1>6. q2 \in [contest : C, entrants : {names}, winner : {first}, loser : L, status : S, score : T]
    BY <1>4, <1>5
  <1>7. PICK q3 : q3 = [q2 EXCEPT !.loser = second]
    OBVIOUS
  <1>8. q3 \in [contest : C, entrants : {names}, winner : {first}, loser : {second}, status : S, score : T]
    BY <1>6, <1>7
  <1>9. q3 = [contest |-> r.contest, entrants |-> names, winner |-> first, loser |-> second,
              status |-> r.status, score |-> r.score]
    BY <1>0, <1>8
  <1>10. Renamed(r, m) = q3
    <2>1. Renamed(r, m) = [r EXCEPT !.entrants = names, !.winner = first, !.loser = second]
      BY <1>1, <1>2, Zenon DEF Renamed
    <2> QED
      BY <2>1, <1>3, <1>5, <1>7, Zenon
  <1> QED
    BY <1>1, <1>2, <1>9, <1>10, Zenon

(* What was reported in names the gateway knows, it can say in those names. *)
LEMMA ReportReads ==
  ASSUME NEW r \in Report, WellFormed(r), IsInjective(known), {r.entrants[1], r.entrants[2]} \subseteq Range(known)
  PROVE  /\ WellFormed(Internally(r))
         /\ {Internally(r).entrants[1], Internally(r).entrants[2]} \subseteq DOMAIN known
         /\ Externally(Internally(r)) = r
  <1>1. PICK back : back = AntiFunction(known)
    OBVIOUS
  <1>2. \A x \in Range(known) : back[x] \in DOMAIN known /\ known[back[x]] = x
    BY <1>1, ReadBackwards
  <1>3. r = [contest |-> r.contest, entrants |-> r.entrants, winner |-> r.winner, loser |-> r.loser,
             status |-> r.status, score |-> r.score]
        /\ r.entrants = <<r.entrants[1], r.entrants[2]>>
    BY DEF Report
  <1>4. PICK q : q = [contest |-> r.contest, entrants |-> <<back[r.entrants[1]], back[r.entrants[2]]>>,
                      winner |-> back[r.winner], loser |-> back[r.loser], status |-> r.status, score |-> r.score]
    OBVIOUS
  <1>5. Internally(r) = q
    <2>1. Renamed(r, back) = q
      BY <1>3, <1>4, RenamedParts
    <2> QED
      BY <1>1, <2>1 DEF Internally
  <1>6. /\ r.entrants[1] \in Range(known) /\ r.entrants[2] \in Range(known)
        /\ r.winner \in Range(known) /\ r.loser \in Range(known)
    BY DEF WellFormed
  <1>7. Externally(q) = r
    <2>1. q = [contest |-> q.contest, entrants |-> q.entrants, winner |-> q.winner, loser |-> q.loser,
               status |-> q.status, score |-> q.score]
      BY <1>4
    <2>2. Externally(q) = [contest |-> q.contest, entrants |-> <<known[q.entrants[1]], known[q.entrants[2]]>>,
                           winner |-> known[q.winner], loser |-> known[q.loser], status |-> q.status, score |-> q.score]
      BY <2>1, RenamedParts DEF Externally
    <2>3. /\ known[q.entrants[1]] = r.entrants[1] /\ known[q.entrants[2]] = r.entrants[2]
          /\ known[q.winner] = r.winner /\ known[q.loser] = r.loser
      BY <1>2, <1>4, <1>6
    <2>4. q.contest = r.contest /\ q.status = r.status /\ q.score = r.score
      BY <1>4
    <2> QED
      BY <1>3, <2>2, <2>3, <2>4
  <1>8. q.entrants[1] \in DOMAIN known /\ q.entrants[2] \in DOMAIN known
    BY <1>2, <1>4, <1>6
  <1>9. WellFormed(q)
    <2>1. q.entrants[1] # q.entrants[2]
      BY <1>2, <1>4, <1>6 DEF WellFormed
    <2>2. {q.winner, q.loser} = {q.entrants[1], q.entrants[2]}
      BY <1>4 DEF WellFormed
    <2> QED
      BY <1>4, <2>1, <2>2 DEF WellFormed
  <1> QED
    BY <1>5, <1>7, <1>8, <1>9

(* Truth that the gateway would say in these words comes back from them.    *)
LEMMA TruthReturns ==
  ASSUME NEW r \in Truth, WellFormed(r), IsInjective(known), {r.entrants[1], r.entrants[2]} \subseteq DOMAIN known
  PROVE  Internally(Externally(r)) = r
  <1>1. PICK back : back = AntiFunction(known)
    OBVIOUS
  <1>2. \A e \in DOMAIN known : back[known[e]] = e
    BY <1>1, ReadBackwards
  <1>3. r = [contest |-> r.contest, entrants |-> r.entrants, winner |-> r.winner, loser |-> r.loser,
             status |-> r.status, score |-> r.score]
        /\ r.entrants = <<r.entrants[1], r.entrants[2]>>
    BY DEF Truth
  <1>4. PICK q : q = [contest |-> r.contest, entrants |-> <<known[r.entrants[1]], known[r.entrants[2]]>>,
                      winner |-> known[r.winner], loser |-> known[r.loser], status |-> r.status, score |-> r.score]
    OBVIOUS
  <1>5. Externally(r) = q
    BY <1>3, <1>4, RenamedParts DEF Externally
  <1>6. /\ r.entrants[1] \in DOMAIN known /\ r.entrants[2] \in DOMAIN known
        /\ r.winner \in DOMAIN known /\ r.loser \in DOMAIN known
    BY DEF WellFormed
  <1>7. Renamed(q, back) = r
    <2>1. q = [contest |-> q.contest, entrants |-> q.entrants, winner |-> q.winner, loser |-> q.loser,
               status |-> q.status, score |-> q.score]
      BY <1>4
    <2>2. Renamed(q, back) = [contest |-> q.contest, entrants |-> <<back[q.entrants[1]], back[q.entrants[2]]>>,
                              winner |-> back[q.winner], loser |-> back[q.loser], status |-> q.status, score |-> q.score]
      BY <2>1, RenamedParts
    <2>3. /\ back[q.entrants[1]] = r.entrants[1] /\ back[q.entrants[2]] = r.entrants[2]
          /\ back[q.winner] = r.winner /\ back[q.loser] = r.loser
      BY <1>2, <1>4, <1>6
    <2>4. q.contest = r.contest /\ q.status = r.status /\ q.score = r.score
      BY <1>4
    <2> QED
      BY <1>3, <2>2, <2>3, <2>4
  <1> QED
    BY <1>1, <1>5, <1>7 DEF Internally

LEMMA IntakeInitInv == IntakeInit => IntakeInv
  <1> SUFFICES ASSUME IntakeInit PROVE IntakeInv
    OBVIOUS
  <1>1. known # None => IsInjective(known)
    BY MappingInjective DEF IntakeInit
  <1>2. published = {} /\ taken = <<>> /\ keys = {} /\ messages = {}
    BY DEF IntakeInit
  <1> QED
    BY <1>1, <1>2 DEF IntakeInv, IntakeIsFaithful

(* What is published later agrees with what was taken before: it says the  *)
(* same in the provider's names, and these names are one entrant's each.   *)
LEMMA PublishKeepsIntake == IntakeInv /\ PublishTruth => IntakeInv'
  <1> SUFFICES ASSUME IntakeInv, PublishTruth PROVE IntakeInv'
    OBVIOUS
  <1>1. PICK r \in Truths :
          /\ known # None /\ WellFormed(r)
          /\ {r.entrants[1], r.entrants[2]} \subseteq DOMAIN known
          /\ published' = published \cup {[truth |-> r, abroad |-> Externally(r)]}
          /\ UNCHANGED <<known, keys, messages, taken, lives>>
    BY DEF PublishTruth
  <1>2. \A p \in published' : p.truth \in Truths /\ WellFormed(p.truth)
    BY <1>1 DEF IntakeInv
  <1>3. IsInjective(known)
    BY <1>1 DEF IntakeInv
  <1>4. ASSUME NEW i \in 1..Len(taken) PROVE ReadAsSent(taken[i])'
    <2>1. ReadAsSent(taken[i])
      BY DEF IntakeInv, IntakeIsFaithful
    <2>2. ASSUME NEW p \in published', StillSaid(p), p.abroad = taken[i].envelope.result
          PROVE  taken[i].result = p.truth
      <3>1. p.truth \in Truth /\ WellFormed(p.truth)
        BY <1>2, TruthsAssumption DEF Truth
      <3>2. Internally(Externally(p.truth)) = p.truth /\ Externally(p.truth) = p.abroad
        BY <1>3, <2>2, <3>1, TruthReturns DEF StillSaid
      <3> QED
        BY <2>2, <3>2 DEF IntakeInv
    <2>3. \A p : StillSaid(p)' <=> StillSaid(p)
      BY <1>1 DEF StillSaid, Externally
    <2> QED
      BY <1>1, <2>1, <2>2, <2>3 DEF ReadAsSent, Externally
  <1>5. IntakeIsFaithful'
    BY <1>1, <1>4 DEF IntakeInv, IntakeIsFaithful
  <1>6. (\A i \in 1..Len(taken) : taken[i].result = Internally(taken[i].envelope.result))'
    BY <1>1 DEF IntakeInv, Internally
  <1> QED
    BY <1>1, <1>2, <1>5, <1>6 DEF IntakeInv

LEMMA AcceptKeepsIntake == IntakeInv /\ AcceptInbound => IntakeInv'
  <1> SUFFICES ASSUME IntakeInv, AcceptInbound PROVE IntakeInv'
    OBVIOUS
  <1>1. PICK e \in Envelopes :
          /\ known # None /\ WellFormed(e.result) /\ e.signed /\ Fresh(e)
          /\ {e.result.entrants[1], e.result.entrants[2]} \subseteq Range(known)
          /\ keys' = keys \cup {e.key}
          /\ messages' = messages \cup {e.message}
          /\ taken' = Append(taken, [envelope |-> e, result |-> Internally(e.result)])
          /\ UNCHANGED <<known, published, lives>>
    BY DEF AcceptInbound
  <1> DEFINE one == [envelope |-> e, result |-> Internally(e.result)]
             n == Len(taken)
             S == {taken[i] : i \in 1..Len(taken)}
  <1>2. one.envelope = e /\ one.result = Internally(e.result)
    OBVIOUS
  <1>3. IsInjective(known)
    BY <1>1 DEF IntakeInv
  <1>4. ReadAsSent(one)
    <2>1. e.result \in Report
      BY ReportedAssumption DEF Envelopes, Report
    <2>2. /\ WellFormed(one.result)
          /\ {one.result.entrants[1], one.result.entrants[2]} \subseteq DOMAIN known
          /\ Externally(one.result) = e.result
      BY <1>1, <1>2, <1>3, <2>1, ReportReads
    <2>3. ASSUME NEW p \in published, StillSaid(p), p.abroad = e.result
          PROVE  one.result = p.truth
      <3>1. p.truth \in Truth /\ WellFormed(p.truth)
        BY TruthsAssumption DEF IntakeInv, Truth
      <3>2. Internally(Externally(p.truth)) = p.truth /\ Externally(p.truth) = p.abroad
        BY <1>3, <2>3, <3>1, TruthReturns DEF StillSaid
      <3> QED
        BY <1>2, <2>3, <3>2
    <2> HIDE DEF one
    <2> QED
      BY <1>1, <1>2, <2>2, <2>3 DEF ReadAsSent
  <1>5. taken \in Seq(S) /\ n \in Nat
    BY DEF IntakeInv
  <1> HIDE DEF one, S
  <1>6. taken' = Append(taken, one)
    BY <1>1 DEF one
  <1>7. Len(taken') = n + 1 /\ taken'[n + 1] = one /\ \A i \in 1..n : taken'[i] = taken[i]
    BY <1>5, <1>6
  <1>8. taken' \in Seq({taken'[i] : i \in 1..Len(taken')})
    <2>1. S \cup {one} = {taken'[i] : i \in 1..Len(taken')}
      BY <1>5, <1>7 DEF S
    <2>2. taken' \in Seq(S \cup {one})
      BY <1>5, <1>6
    <2> QED
      BY <2>1, <2>2
  <1>9. /\ keys = {taken[i].envelope.key : i \in 1..n}
        /\ messages = {taken[i].envelope.message : i \in 1..n}
    BY DEF IntakeInv, IntakeIsFaithful
  <1>10. /\ keys' = {taken'[i].envelope.key : i \in 1..Len(taken')}
         /\ messages' = {taken'[i].envelope.message : i \in 1..Len(taken')}
    BY <1>1, <1>2, <1>5, <1>7, <1>9
  <1>11. ASSUME NEW i \in 1..Len(taken')
         PROVE  /\ ReadAsSent(taken[i])'
                /\ \A j \in 1..i - 1 : /\ taken'[j].envelope.message # taken'[i].envelope.message
                                       /\ taken'[j].envelope.key # taken'[i].envelope.key
    <2>1. ASSUME NEW t PROVE ReadAsSent(t)' <=> ReadAsSent(t)
      BY <1>1 DEF ReadAsSent, StillSaid, Externally
    <2>2. CASE i = n + 1
      <3>1. taken'[i] = one /\ \A j \in 1..i - 1 : j \in 1..n /\ taken'[j] = taken[j]
        BY <1>5, <1>7, <2>2
      <3>2. e.message \notin messages /\ e.key \notin keys
        BY <1>1 DEF Fresh
      <3> QED
        BY <1>2, <1>4, <1>9, <2>1, <3>1, <3>2
    <2>3. CASE i \in 1..n
      <3>1. taken'[i] = taken[i] /\ \A j \in 1..i - 1 : j \in 1..n /\ taken'[j] = taken[j]
        BY <1>5, <1>7, <2>3
      <3> QED
        BY <2>1, <2>3, <3>1 DEF IntakeInv, IntakeIsFaithful
    <2> QED
      BY <1>5, <1>7, <2>2, <2>3
  <1>12. IntakeIsFaithful'
    BY <1>10, <1>11 DEF IntakeIsFaithful
  <1>13. (\A i \in 1..Len(taken) : taken[i].result = Internally(taken[i].envelope.result))'
    <2>1. \A r : Internally(r)' = Internally(r)
      BY <1>1 DEF Internally
    <2>2. \A i \in 1..n : taken[i].result = Internally(taken[i].envelope.result)
      BY DEF IntakeInv
    <2> QED
      BY <1>2, <1>5, <1>7, <2>1, <2>2
  <1> QED
    BY <1>1, <1>8, <1>12, <1>13 DEF IntakeInv

(* A gateway that is built anew has forgotten what it took, and may know others. *)
LEMMA RestartKeepsIntake == IntakeInv /\ Restart => IntakeInv'
  <1> SUFFICES ASSUME IntakeInv, Restart PROVE IntakeInv'
    OBVIOUS
  <1>1. PICK c \in Configurations : Build(c)
    BY DEF Restart
  <1>2. published' = published
    BY DEF Restart
  <1>3. known' # None => IsInjective(known')
    BY <1>1, MappingInjective DEF Build
  <1>4. taken' = <<>> /\ keys' = {} /\ messages' = {}
    BY <1>1 DEF Build
  <1>5. IntakeIsFaithful'
    BY <1>4 DEF IntakeIsFaithful
  <1> QED
    BY <1>2, <1>3, <1>4, <1>5 DEF IntakeInv

LEMMA IntakeStep == IntakeInv /\ IntakeNext => IntakeInv'
  BY PublishKeepsIntake, AcceptKeepsIntake, RestartKeepsIntake DEF IntakeNext

-----------------------------------------------------------------------------
LEMMA WebhookInitInv == WebhookInit /\ clock = 0 => WebhookInv
  <1> SUFFICES ASSUME WebhookInit, clock = 0 PROVE WebhookInv
    OBVIOUS
  <1>1. accepted = <<>> /\ Len(accepted) = 0 /\ \A h \in Handlers : handlers[h] = Nil
    BY DEF WebhookInit
  <1>2. WebhookTypes
    BY <1>1 DEF WebhookInit, WebhookTypes
  <1>3. \A h \in Handlers : ~Claimed(h) /\ ~Working(h, "TAKEN")
    BY <1>1 DEF Claimed, Working
  <1> QED
    BY <1>1, <1>2, <1>3 DEF WebhookInv, Guarded, OneHolder, Remembered, Apart, AcceptedApart, HandedOver

(* What a delivery and a claim are made of. *)
LEMMA WebhookFields ==
  ASSUME WebhookTypes
  PROVE  /\ clock \in Nat /\ Ttl \in Nat /\ MaxSkew \in Nat /\ Patience \in Nat /\ Ttl > 2 * MaxSkew + Patience
         /\ Len(accepted) \in Nat
         /\ \A h \in Handlers : handlers[h] # Nil =>
              /\ handlers[h] \in Delivery /\ handlers[h].hook \in Hooks /\ handlers[h].now \in Nat
              /\ handlers[h].now <= clock /\ Expiry(h) \in Nat
         /\ \A i \in 1..Len(accepted) :
              accepted[i] \in Delivery /\ accepted[i].hook \in Hooks /\ accepted[i].now \in Nat /\ accepted[i].stamp \in Nat
         /\ \A k \in Hooks : replays[k] # Nil => replays[k] \in ReplayClaim /\ replays[k].expires \in Nat
  <1>1. clock \in Nat /\ Ttl \in Nat /\ MaxSkew \in Nat /\ Patience \in Nat /\ Ttl > 2 * MaxSkew + Patience
    BY LimitsAssumption, TtlOutlivesSignature DEF WebhookTypes
  <1>2. /\ accepted \in Seq(Delivery) /\ handlers \in [Handlers -> Delivery \cup {Nil}]
        /\ replays \in [Hooks -> ReplayClaim \cup {Nil}]
    BY DEF WebhookTypes
  <1>3. ASSUME NEW d \in Delivery PROVE d.hook \in Hooks /\ d.now \in Nat /\ d.stamp \in Nat
    BY DEF Delivery
  <1>4. Len(accepted) \in Nat /\ \A i \in 1..Len(accepted) : accepted[i] \in Delivery
    BY <1>2
  <1>5. \A h \in Handlers : handlers[h] # Nil => handlers[h] \in Delivery /\ handlers[h].now <= clock
    BY DEF WebhookTypes
  <1>6. ASSUME NEW k \in Hooks, replays[k] # Nil PROVE replays[k] \in ReplayClaim /\ replays[k].expires \in Nat
    BY <1>2, <1>6 DEF ReplayClaim
  <1>7. ASSUME NEW h \in Handlers, handlers[h] # Nil PROVE Expiry(h) \in Nat
    BY <1>1, <1>3, <1>5, <1>7 DEF Expiry
  <1> QED
    BY <1>1, <1>3, <1>4, <1>5, <1>6, <1>7

(* Nothing that is recorded is Nil. *)
LEMMA NotNil == Nil \notin Delivery /\ Nil \notin ReplayClaim
  BY NilAssumption DEF Delivery, ReplayClaim

(* A handler that goes on, and one that ends. *)
LEMMA ProceedTyped ==
  ASSUME WebhookTypes, NEW h \in Handlers, handlers[h] # Nil, NEW stage \in {"READ", "HELD", "TAKEN", "FAILED"},
         Proceed(h, stage)
  PROVE  /\ handlers' \in [Handlers -> Delivery \cup {Nil}]
         /\ handlers'[h] \in Delivery /\ handlers'[h] # Nil
         /\ handlers'[h].stage = stage /\ handlers'[h].hook = handlers[h].hook
         /\ handlers'[h].now = handlers[h].now /\ handlers'[h].stamp = handlers[h].stamp
         /\ \A k \in Handlers : k # h => handlers'[k] = handlers[k]
  <1>1. PICK d : d = [handlers[h] EXCEPT !.stage = stage]
    OBVIOUS
  <1>2. handlers[h] \in Delivery /\ handlers \in [Handlers -> Delivery \cup {Nil}]
    BY DEF WebhookTypes
  <1>3. d \in Delivery /\ d.stage = stage /\ d.hook = handlers[h].hook /\ d.now = handlers[h].now /\ d.stamp = handlers[h].stamp
    BY <1>1, <1>2 DEF Delivery
  <1>4. handlers' = [handlers EXCEPT ![h] = d]
    BY <1>1, <1>2 DEF Proceed
  <1>5. d # Nil
    BY <1>3, NotNil
  <1> QED
    BY <1>2, <1>3, <1>4, <1>5

LEMMA ReplyTyped ==
  ASSUME WebhookTypes, NEW h \in Handlers, Reply(h)
  PROVE  /\ handlers' \in [Handlers -> Delivery \cup {Nil}]
         /\ handlers'[h] = Nil
         /\ \A k \in Handlers : k # h => handlers'[k] = handlers[k]
  BY DEF WebhookTypes, Reply

(* A step that leaves what was accepted alone, lets no claim run out at    *)
(* another time, reopens none and gives none to any handler.               *)
LEMMA QuietStep ==
  ASSUME WebhookInv, WebhookTypes', UNCHANGED accepted,
         \A k \in Hooks :
           /\ replays'[k] # Nil <=> replays[k] # Nil
           /\ replays[k] # Nil => replays'[k].expires = replays[k].expires
           /\ replays[k] # Nil /\ replays[k].status = "COMPLETED" => replays'[k].status = "COMPLETED",
         clock <= clock', handed \subseteq handed',
         \A k \in Handlers : Claimed(k)' => Claimed(k) /\ handlers'[k].hook = handlers[k].hook /\ handlers'[k].now = handlers[k].now,
         \A k \in Handlers : Working(k, "TAKEN")' => handlers'[k].hook \in handed'
  PROVE  WebhookInv'
  <1>0. WebhookTypes
    BY DEF WebhookInv
  <1>1. /\ clock \in Nat /\ clock' \in Nat /\ Ttl \in Nat /\ clock <= clock'
        /\ \A k \in Handlers : handlers[k] # Nil => Expiry(k) \in Nat /\ handlers[k].hook \in Hooks
        /\ \A n \in 1..Len(accepted) : accepted[n].now \in Nat /\ accepted[n].hook \in Hooks
    BY <1>0, WebhookFields DEF WebhookTypes
  <1>2. \A k \in Handlers : Claimed(k)' => /\ Claimed(k) /\ handlers[k] # Nil /\ handlers[k].hook \in Hooks
                                           /\ handlers'[k].hook = handlers[k].hook /\ Expiry(k)' = Expiry(k)
    BY <1>1 DEF Expiry, Claimed
  <1>3. \A hook \in Hooks : \A time : RunsOut(hook, time)' <=> RunsOut(hook, time)
    BY DEF RunsOut
  <1>4. ASSUME NEW k \in Handlers, Claimed(k)'
        PROVE  RunsOut(handlers[k].hook, Expiry(k))' \/ clock' >= Expiry(k)'
    <2>1. RunsOut(handlers[k].hook, Expiry(k)) \/ clock >= Expiry(k)
      BY <1>2, <1>4 DEF WebhookInv, Guarded
    <2> QED
      BY <1>1, <1>2, <1>3, <1>4, <2>1
  <1>5. OneHolder'
    BY DEF WebhookInv, OneHolder
  <1>6. Remembered'
    <2>1. ASSUME NEW n \in 1..Len(accepted)
          PROVE  \/ RunsOut(accepted[n].hook, accepted[n].now + Ttl)' /\ replays'[accepted[n].hook].status = "COMPLETED"
                 \/ clock' >= accepted[n].now + Ttl
      <3>1. CASE RunsOut(accepted[n].hook, accepted[n].now + Ttl) /\ replays[accepted[n].hook].status = "COMPLETED"
        BY <1>1, <3>1 DEF RunsOut
      <3>2. CASE clock >= accepted[n].now + Ttl
        BY <1>1, <3>2
      <3> QED
        BY <3>1, <3>2 DEF WebhookInv, Remembered
    <2> QED
      BY <2>1 DEF Remembered
  <1>7. ASSUME NEW k \in Handlers, Claimed(k)', Superseded(k) PROVE Superseded(k)'
    <2>1. clock' >= Expiry(k)'
      BY <1>1, <1>2, <1>7 DEF Superseded
    <2>2. ~RunsOut(handlers[k].hook, Expiry(k))'
      BY <1>2, <1>3, <1>7 DEF Superseded
    <2> QED
      BY <2>1, <2>2 DEF Superseded
  <1>8. Apart'
    BY <1>2, <1>7 DEF WebhookInv, Apart
  <1>9. AcceptedApart' /\ HandedOver'
    BY DEF WebhookInv, AcceptedApart, HandedOver
  <1>10. Guarded'
    BY <1>4 DEF Guarded
  <1> QED
    BY <1>5, <1>6, <1>8, <1>9, <1>10 DEF WebhookInv

LEMMA DeliverStep ==
  ASSUME WebhookInv, NEW h \in Handlers, Deliver(h), UNCHANGED clock PROVE WebhookInv'
  <1>0. WebhookTypes
    BY DEF WebhookInv
  <1>1. PICK hook \in Hooks, stamp \in 0..LastTick :
          /\ NotStale(stamp)
          /\ handlers' = [handlers EXCEPT ![h] = [stage |-> "READ", hook |-> hook, stamp |-> stamp, now |-> clock]]
          /\ UNCHANGED <<replays, handed, accepted>>
    BY DEF Deliver
  <1>2. PICK d : d = [stage |-> "READ", hook |-> hook, stamp |-> stamp, now |-> clock]
    OBVIOUS
  <1>3. d \in Delivery /\ d.stage = "READ" /\ d.now = clock /\ clock \in Nat /\ InTime(d)
    BY <1>0, <1>1, <1>2, WebhookFields DEF Delivery, InTime, NotStale
  <1>4. handlers'[h] = d /\ \A k \in Handlers : k # h => handlers'[k] = handlers[k]
    BY <1>0, <1>1, <1>2 DEF WebhookTypes
  <1>5. handlers' \in [Handlers -> Delivery \cup {Nil}]
    BY <1>0, <1>1, <1>2, <1>3 DEF WebhookTypes
  <1>6. \A k \in Handlers : handlers'[k] # Nil => handlers'[k].now <= clock' /\ InTime(handlers'[k])
    BY <1>0, <1>3, <1>4 DEF WebhookTypes
  <1>7. WebhookTypes'
    BY <1>0, <1>1, <1>5, <1>6 DEF WebhookTypes
  <1>8. \A k \in Handlers : Claimed(k)' => Claimed(k) /\ handlers'[k] = handlers[k]
    BY <1>3, <1>4 DEF Claimed
  <1>9. \A k \in Handlers : Working(k, "TAKEN")' => Working(k, "TAKEN") /\ handlers'[k] = handlers[k]
    BY <1>3, <1>4 DEF Working
  <1>10. \A k \in Handlers : Working(k, "TAKEN")' => handlers'[k].hook \in handed'
    BY <1>1, <1>9 DEF WebhookInv, HandedOver
  <1> QED
    BY <1>1, <1>3, <1>7, <1>8, <1>10, QuietStep

(* A handler that ends or goes on, when nobody's claim changes. *)
LEMMA HandlerStep ==
  ASSUME WebhookInv, NEW h \in Handlers, handlers[h] # Nil,
         UNCHANGED <<clock, replays, accepted>>, handed \subseteq handed',
         Reply(h) \/ (Claimed(h) /\ (Proceed(h, "FAILED") \/ (Proceed(h, "TAKEN") /\ handlers[h].hook \in handed')))
  PROVE  WebhookInv'
  <1>0. WebhookTypes
    BY DEF WebhookInv
  <1>1. /\ handlers' \in [Handlers -> Delivery \cup {Nil}]
        /\ \A k \in Handlers : k # h => handlers'[k] = handlers[k]
        /\ \/ handlers'[h] = Nil
           \/ /\ Claimed(h) /\ handlers'[h].hook = handlers[h].hook
              /\ handlers'[h].now = handlers[h].now /\ handlers'[h].stamp = handlers[h].stamp
              /\ handlers'[h].stage = "TAKEN" => handlers[h].hook \in handed'
    <2>1. CASE Reply(h)
      BY <1>0, <2>1, ReplyTyped
    <2>2. CASE Claimed(h) /\ Proceed(h, "FAILED")
      BY <1>0, <2>2, ProceedTyped
    <2>3. CASE Claimed(h) /\ Proceed(h, "TAKEN") /\ handlers[h].hook \in handed'
      BY <1>0, <2>3, ProceedTyped
    <2> QED
      BY <2>1, <2>2, <2>3
  <1>2. \A k \in Handlers : handlers'[k] # Nil => handlers'[k].now <= clock' /\ InTime(handlers'[k])
    BY <1>0, <1>1 DEF WebhookTypes, InTime
  <1>3. WebhookTypes'
    BY <1>0, <1>1, <1>2 DEF WebhookTypes
  <1>4. \A k \in Handlers : Claimed(k)' => Claimed(k) /\ handlers'[k].hook = handlers[k].hook /\ handlers'[k].now = handlers[k].now
    BY <1>1 DEF Claimed
  <1>5. \A k \in Handlers : Working(k, "TAKEN")' => handlers'[k].hook \in handed'
    BY <1>1 DEF Working, WebhookInv, HandedOver
  <1>6. clock <= clock'
    BY <1>0, WebhookFields
  <1> QED
    BY <1>3, <1>4, <1>5, <1>6, QuietStep

(* A handler takes the claim of its event: whoever held it before works in *)
(* vain from now on, and what was accepted before lies far enough back.    *)
LEMMA ClaimStep ==
  ASSUME WebhookInv, NEW h \in Handlers, Claim(h), UNCHANGED clock PROVE WebhookInv'
  <1>0. WebhookTypes
    BY DEF WebhookInv
  <1>1. PICK hook, now, until : hook = handlers[h].hook /\ now = handlers[h].now /\ until = Expiry(h)
    OBVIOUS
  <1>2. /\ handlers[h] # Nil /\ handlers[h].stage = "READ" /\ clock - now <= Patience
        /\ UNCHANGED <<clock, handed, accepted>>
    BY <1>1 DEF Claim, Working
  <1>3. hook \in Hooks /\ now \in Nat /\ until \in Nat /\ until = now + Ttl /\ clock < until /\ now <= clock
    <2>1. until = now + Ttl
      BY <1>1 DEF Expiry
    <2> QED
      BY <1>0, <1>1, <1>2, <2>1, WebhookFields
  <1>4. CASE ~Claimable(h)
    BY <1>2, <1>4, HandlerStep DEF Claim
  <1>5. CASE Claimable(h)
    <2>1. PICK claim : claim = [status |-> "PENDING", expires |-> until]
      OBVIOUS
    <2>2. replays' = [replays EXCEPT ![hook] = claim] /\ (Proceed(h, "HELD") \/ Reply(h))
      BY <1>1, <1>5, <2>1 DEF Claim
    <2>3. claim \in ReplayClaim /\ claim # Nil /\ claim.expires = until
      BY <1>3, <2>1, NotNil DEF ReplayClaim
    <2>4. /\ replays' \in [Hooks -> ReplayClaim \cup {Nil}]
          /\ replays'[hook] = claim /\ \A k \in Hooks : k # hook => replays'[k] = replays[k]
      BY <1>0, <1>3, <2>2, <2>3 DEF WebhookTypes
    <2>5. /\ handlers' \in [Handlers -> Delivery \cup {Nil}]
          /\ \A k \in Handlers : k # h => handlers'[k] = handlers[k]
          /\ handlers'[h] # Nil => /\ handlers'[h].hook = hook /\ handlers'[h].now = now
                                   /\ handlers'[h].stamp = handlers[h].stamp /\ handlers'[h].stage = "HELD"
      <3>1. CASE Proceed(h, "HELD")
        BY <1>0, <1>1, <1>2, <3>1, ProceedTyped
      <3>2. CASE Reply(h)
        BY <1>0, <3>2, ReplyTyped
      <3> QED
        BY <2>2, <3>1, <3>2
    <2>6. WebhookTypes'
      <3>1. \A k \in Handlers : handlers'[k] # Nil => handlers'[k].now <= clock' /\ InTime(handlers'[k])
        BY <1>0, <1>1, <1>2, <2>5 DEF WebhookTypes, InTime
      <3> QED
        BY <1>0, <1>2, <2>4, <2>5, <3>1 DEF WebhookTypes
    <2>7. \A time : RunsOut(hook, time)' <=> time = until
      BY <2>3, <2>4 DEF RunsOut
    <2>8. \A k \in Hooks : k # hook => \A time : RunsOut(k, time)' <=> RunsOut(k, time)
      BY <2>4 DEF RunsOut
    <2>9. handlers'[h] # Nil => Expiry(h)' = until
      BY <1>3, <2>5 DEF Expiry
    <2>10. ASSUME NEW k \in Handlers, k # h, Claimed(k)'
           PROVE  /\ Claimed(k) /\ handlers'[k] = handlers[k] /\ Expiry(k)' = Expiry(k)
                  /\ handlers[k].hook \in Hooks /\ Expiry(k) \in Nat /\ Expiry(k) = handlers[k].now + Ttl
      <3>1. Claimed(k) /\ handlers'[k] = handlers[k] /\ handlers[k] # Nil
        BY <2>5, <2>10 DEF Claimed
      <3>2. Expiry(k)' = Expiry(k) /\ Expiry(k) = handlers[k].now + Ttl
        BY <3>1 DEF Expiry
      <3> QED
        BY <1>0, <3>1, <3>2, WebhookFields
    <2>11. ASSUME NEW k \in Handlers, k # h, Claimed(k)', handlers[k].hook = hook
           PROVE  clock >= Expiry(k)
      <3>1. RunsOut(hook, Expiry(k)) => Expiry(k) <= now
        BY <1>1, <1>5 DEF Claimable, RunsOut
      <3>2. Claimed(k) /\ Expiry(k) \in Nat
        BY <2>10, <2>11
      <3>3. RunsOut(hook, Expiry(k)) \/ clock >= Expiry(k)
        BY <2>11, <3>2 DEF WebhookInv, Guarded
      <3> QED
        BY <1>0, <1>3, <3>1, <3>2, <3>3, WebhookFields
    <2>12. ASSUME NEW i \in 1..Len(accepted), accepted[i].hook = hook
           PROVE  clock >= accepted[i].now + Ttl /\ now - accepted[i].now >= Ttl - Patience
      <3>1. RunsOut(hook, accepted[i].now + Ttl) => accepted[i].now + Ttl <= now
        BY <1>1, <1>5 DEF Claimable, RunsOut
      <3>2. RunsOut(hook, accepted[i].now + Ttl) \/ clock >= accepted[i].now + Ttl
        BY <2>12 DEF WebhookInv, Remembered
      <3>3. accepted[i].now \in Nat /\ clock \in Nat /\ Ttl \in Nat /\ Patience \in Nat
        BY <1>0, WebhookFields
      <3>4. clock >= accepted[i].now + Ttl
        BY <1>3, <3>1, <3>2, <3>3
      <3> QED
        BY <1>2, <1>3, <3>3, <3>4
    <2>13. Guarded'
      <3>1. ASSUME NEW k \in Handlers, Claimed(k)'
            PROVE  RunsOut(handlers[k].hook, Expiry(k))' \/ clock' >= Expiry(k)'
        <4>1. CASE k = h
          BY <2>5, <2>7, <2>9, <3>1, <4>1 DEF Claimed
        <4>2. CASE k # h /\ handlers[k].hook = hook
          BY <1>2, <2>10, <2>11, <3>1, <4>2
        <4>3. CASE k # h /\ handlers[k].hook # hook
          <5>1. RunsOut(handlers[k].hook, Expiry(k)) \/ clock >= Expiry(k)
            BY <2>10, <3>1, <4>3 DEF WebhookInv, Guarded
          <5> QED
            BY <1>2, <2>8, <2>10, <3>1, <4>3, <5>1
        <4> QED
          BY <4>1, <4>2, <4>3
      <3> QED
        BY <3>1 DEF Guarded
    <2>14. OneHolder'
      <3>1. ASSUME NEW k \in Handlers, k # h, Claimed(k)', Claimed(h)',
                   handlers'[k].hook = handlers'[h].hook, handlers'[k].now = handlers'[h].now
            PROVE  FALSE
        <4>1. handlers[k].hook = hook /\ handlers[k].now = now
          BY <2>5, <2>10, <3>1 DEF Claimed
        <4>2. clock >= until
          BY <1>3, <2>10, <2>11, <3>1, <4>1
        <4> QED
          BY <1>0, <1>3, <4>2, WebhookFields
      <3>2. \A k, m \in Handlers :
              k # h /\ m # h /\ Claimed(k)' /\ Claimed(m)' /\ handlers'[k].hook = handlers'[m].hook
                 /\ handlers'[k].now = handlers'[m].now => k = m
        BY <2>10 DEF WebhookInv, OneHolder
      <3> QED
        BY <3>1, <3>2 DEF OneHolder
    <2>15. Remembered'
      <3>1. ASSUME NEW i \in 1..Len(accepted)
            PROVE  \/ RunsOut(accepted[i].hook, accepted[i].now + Ttl)' /\ replays'[accepted[i].hook].status = "COMPLETED"
                   \/ clock >= accepted[i].now + Ttl
        <4>1. CASE accepted[i].hook = hook
          BY <2>12, <4>1
        <4>2. CASE accepted[i].hook # hook
          <5>1. accepted[i].hook \in Hooks
            BY <1>0, WebhookFields
          <5>2. \/ RunsOut(accepted[i].hook, accepted[i].now + Ttl) /\ replays[accepted[i].hook].status = "COMPLETED"
                \/ clock >= accepted[i].now + Ttl
            BY DEF WebhookInv, Remembered
          <5> QED
            BY <1>2, <2>4, <4>2, <5>1, <5>2 DEF RunsOut
        <4> QED
          BY <4>1, <4>2
      <3> QED
        BY <1>2, <3>1 DEF Remembered
    <2>16. Apart'
      <3>1. ASSUME NEW k \in Handlers, NEW i \in 1..Len(accepted), Claimed(k)', handlers'[k].hook = accepted[i].hook
            PROVE  handlers'[k].now - accepted[i].now >= Ttl - Patience \/ Superseded(k)'
        <4>1. CASE k = h
          BY <2>5, <2>12, <3>1, <4>1 DEF Claimed
        <4>2. CASE k # h /\ handlers[k].hook = hook
          <5>1. clock' >= Expiry(k)' /\ Expiry(k)' # until
            BY <1>0, <1>2, <1>3, <2>10, <2>11, <3>1, <4>2, WebhookFields
          <5>2. ~RunsOut(handlers[k].hook, Expiry(k))'
            BY <2>7, <2>10, <3>1, <4>2, <5>1
          <5> QED
            BY <5>1, <5>2 DEF Superseded
        <4>3. CASE k # h /\ handlers[k].hook # hook
          <5>1. handlers[k].now - accepted[i].now >= Ttl - Patience \/ Superseded(k)
            BY <2>10, <3>1, <4>3 DEF WebhookInv, Apart
          <5>2. Superseded(k) => Superseded(k)'
            BY <1>2, <2>8, <2>10, <3>1, <4>3 DEF Superseded
          <5> QED
            BY <2>10, <3>1, <4>3, <5>1, <5>2
        <4> QED
          BY <4>1, <4>2, <4>3
      <3> QED
        BY <1>2, <3>1 DEF Apart
    <2>17. AcceptedApart' /\ HandedOver'
      <3>1. \A k \in Handlers : Working(k, "TAKEN")' => Working(k, "TAKEN") /\ handlers'[k] = handlers[k]
        BY <2>5 DEF Working
      <3> QED
        BY <1>2, <3>1 DEF WebhookInv, AcceptedApart, HandedOver
    <2> QED
      BY <2>6, <2>13, <2>14, <2>15, <2>16, <2>17 DEF WebhookInv
  <1> QED
    BY <1>4, <1>5

(* A handler whose claim still stands is alone with its event.             *)
LEMMA HeldAlone ==
  ASSUME WebhookInv, NEW h \in Handlers, Claimed(h), Holds(h),
         NEW hook, NEW until, hook = handlers[h].hook, until = Expiry(h)
  PROVE  /\ hook \in Hooks /\ until \in Nat /\ handlers[h] # Nil /\ until = handlers[h].now + Ttl
         /\ replays[hook] = [status |-> "PENDING", expires |-> until]
         /\ \A time : RunsOut(hook, time) <=> time = until
         /\ \A k \in Handlers :
              Claimed(k) /\ k # h /\ handlers[k].hook = hook => clock >= Expiry(k) /\ Superseded(k)
         /\ \A i \in 1..Len(accepted) :
              accepted[i].hook = hook =>
                handlers[h].now - accepted[i].now >= Ttl - Patience /\ clock >= accepted[i].now + Ttl
  <1>0. WebhookTypes
    BY DEF WebhookInv
  <1>1. handlers[h] # Nil
    BY DEF Claimed
  <1>2. hook \in Hooks /\ until \in Nat /\ handlers[h].now \in Nat
    BY <1>0, <1>1, WebhookFields
  <1>3. until = handlers[h].now + Ttl
    BY DEF Expiry
  <1>4. replays[hook] = [status |-> "PENDING", expires |-> until]
    BY DEF Holds
  <1>5. replays[hook] # Nil /\ replays[hook].expires = until /\ replays[hook].status = "PENDING"
    <2>1. [status |-> "PENDING", expires |-> until] \in ReplayClaim
      BY <1>2 DEF ReplayClaim
    <2> QED
      BY <1>4, <2>1, NotNil
  <1>6. \A time : RunsOut(hook, time) <=> time = until
    BY <1>5 DEF RunsOut
  <1>7. ASSUME NEW k \in Handlers, Claimed(k), k # h, handlers[k].hook = hook
        PROVE  clock >= Expiry(k) /\ Superseded(k)
    <2>1. handlers[k].now # handlers[h].now
      BY <1>7 DEF WebhookInv, OneHolder
    <2>2. handlers[k].now \in Nat /\ Ttl \in Nat
      BY <1>0, <1>7, WebhookFields DEF Claimed
    <2>3. Expiry(k) = handlers[k].now + Ttl
      BY DEF Expiry
    <2>4. Expiry(k) # until
      BY <1>2, <1>3, <2>1, <2>2, <2>3
    <2>5. ~RunsOut(handlers[k].hook, Expiry(k))
      BY <1>6, <1>7, <2>4
    <2> QED
      BY <1>7, <2>5 DEF WebhookInv, Guarded, Superseded
  <1>8. ASSUME NEW i \in 1..Len(accepted), accepted[i].hook = hook
        PROVE  handlers[h].now - accepted[i].now >= Ttl - Patience /\ clock >= accepted[i].now + Ttl
    <2>1. ~Superseded(h)
      BY <1>6 DEF Superseded
    <2>2. handlers[h].now - accepted[i].now >= Ttl - Patience
      BY <1>8, <2>1 DEF WebhookInv, Apart
    <2>3. clock >= accepted[i].now + Ttl
      BY <1>5, <1>8 DEF WebhookInv, Remembered
    <2> QED
      BY <2>2, <2>3
  <1> QED
    BY <1>1, <1>2, <1>3, <1>4, <1>6, <1>7, <1>8

(* The last answer of a handler, with or without 202: no handler is added. *)
LEMMA CompleteStep ==
  ASSUME WebhookInv, NEW h \in Handlers, Complete(h), UNCHANGED clock PROVE WebhookInv'
  <1>0. WebhookTypes
    BY DEF WebhookInv
  <1>1. /\ Claimed(h) /\ handlers[h] # Nil /\ handlers[h].stage = "TAKEN"
        /\ UNCHANGED <<clock, handed>>
    BY DEF Complete, Working, Claimed
  <1>2. CASE Proceed(h, "FAILED") /\ UNCHANGED <<replays, accepted>>
    BY <1>1, <1>2, HandlerStep
  <1>3. ASSUME Holds(h), replays' = [replays EXCEPT ![handlers[h].hook].status = "COMPLETED"],
               \/ Reply(h) /\ accepted' = Append(accepted, handlers[h])
               \/ Proceed(h, "FAILED") /\ UNCHANGED accepted
        PROVE  WebhookInv'
    <2>1. PICK hook, until : hook = handlers[h].hook /\ until = Expiry(h)
      OBVIOUS
    <2>2. /\ hook \in Hooks /\ until \in Nat /\ until = handlers[h].now + Ttl
          /\ replays[hook] = [status |-> "PENDING", expires |-> until]
          /\ \A k \in Handlers :
               Claimed(k) /\ k # h /\ handlers[k].hook = hook => clock >= Expiry(k) /\ Superseded(k)
          /\ \A i \in 1..Len(accepted) :
               accepted[i].hook = hook => handlers[h].now - accepted[i].now >= Ttl - Patience
      BY <1>1, <1>3, <2>1, HeldAlone
    <2>3. PICK claim : claim = [status |-> "COMPLETED", expires |-> until]
      OBVIOUS
    <2>4. claim \in ReplayClaim /\ claim # Nil /\ claim.expires = until /\ claim.status = "COMPLETED"
      BY <2>2, <2>3, NotNil DEF ReplayClaim
    <2>5. replays' = [replays EXCEPT ![hook] = claim]
      <3>1. [replays[hook] EXCEPT !.status = "COMPLETED"] = claim
        BY <2>2, <2>3
      <3> QED
        BY <1>3, <2>1, <3>1
    <2>6. /\ replays' \in [Hooks -> ReplayClaim \cup {Nil}]
          /\ replays'[hook] = claim /\ \A k \in Hooks : k # hook => replays'[k] = replays[k]
      BY <1>0, <2>2, <2>4, <2>5 DEF WebhookTypes
    <2>7. replays[hook] # Nil /\ replays[hook].expires = until
      <3>1. [status |-> "PENDING", expires |-> until] \in ReplayClaim
        BY <2>2 DEF ReplayClaim
      <3> QED
        BY <2>2, <3>1, NotNil
    <2>8. \A k \in Hooks :
            /\ replays'[k] # Nil <=> replays[k] # Nil
            /\ replays[k] # Nil => replays'[k].expires = replays[k].expires
            /\ replays[k] # Nil /\ replays[k].status = "COMPLETED" => replays'[k].status = "COMPLETED"
      BY <2>4, <2>6, <2>7
    <2>9. CASE Proceed(h, "FAILED") /\ UNCHANGED accepted
      <3>1. /\ handlers' \in [Handlers -> Delivery \cup {Nil}]
            /\ handlers'[h] # Nil /\ handlers'[h].stage = "FAILED" /\ handlers'[h].hook = handlers[h].hook
            /\ handlers'[h].now = handlers[h].now /\ handlers'[h].stamp = handlers[h].stamp
            /\ \A k \in Handlers : k # h => handlers'[k] = handlers[k]
        BY <1>0, <1>1, <2>9, ProceedTyped
      <3>2. \A k \in Handlers : handlers'[k] # Nil => handlers'[k].now <= clock' /\ InTime(handlers'[k])
        BY <1>0, <1>1, <3>1 DEF WebhookTypes, InTime
      <3>3. WebhookTypes'
        BY <1>0, <1>1, <2>6, <2>9, <3>1, <3>2 DEF WebhookTypes
      <3>4. \A k \in Handlers : Claimed(k)' => Claimed(k) /\ handlers'[k].hook = handlers[k].hook /\ handlers'[k].now = handlers[k].now
        BY <1>1, <3>1 DEF Claimed
      <3>5. \A k \in Handlers : Working(k, "TAKEN")' => handlers'[k].hook \in handed'
        BY <1>1, <3>1 DEF Working, WebhookInv, HandedOver
      <3>6. clock <= clock' /\ handed \subseteq handed'
        BY <1>0, <1>1, WebhookFields
      <3> QED
        BY <2>8, <2>9, <3>3, <3>4, <3>5, <3>6, QuietStep
    <2>10. CASE Reply(h) /\ accepted' = Append(accepted, handlers[h])
      <3>1. /\ handlers' \in [Handlers -> Delivery \cup {Nil}]
            /\ handlers'[h] = Nil
            /\ \A k \in Handlers : k # h => handlers'[k] = handlers[k]
        BY <1>0, <2>10, ReplyTyped
      <3>2. \A k \in Handlers : handlers'[k] # Nil => k # h /\ handlers'[k] = handlers[k]
        BY <3>1
      <3>3. handlers[h] \in Delivery /\ InTime(handlers[h]) /\ accepted \in Seq(Delivery) /\ Len(accepted) \in Nat
        BY <1>0, <1>1 DEF WebhookTypes
      <3>4. PICK one, n : one = handlers[h] /\ n = Len(accepted)
        OBVIOUS
      <3>5. /\ accepted' \in Seq(Delivery) /\ Len(accepted') = n + 1
            /\ accepted'[n + 1] = one /\ \A i \in 1..n : accepted'[i] = accepted[i]
        BY <2>10, <3>3, <3>4
      <3>6. WebhookTypes'
        <4>1. \A i \in 1..n + 1 : InTime(accepted'[i])
          BY <1>0, <3>3, <3>4, <3>5 DEF WebhookTypes
        <4>2. \A k \in Handlers : handlers'[k] # Nil => handlers'[k].now <= clock' /\ InTime(handlers'[k])
          BY <1>0, <1>1, <3>2 DEF WebhookTypes
        <4> QED
          BY <1>0, <1>1, <2>6, <3>1, <3>5, <4>1, <4>2 DEF WebhookTypes
      <3>7. \A k \in Handlers :
              Claimed(k)' => Claimed(k) /\ k # h /\ handlers'[k] = handlers[k] /\ Expiry(k)' = Expiry(k) /\ handlers[k].hook \in Hooks
        <4>1. \A k \in Handlers : Claimed(k)' => Claimed(k) /\ k # h /\ handlers'[k] = handlers[k] /\ handlers[k] # Nil
          BY <3>2 DEF Claimed
        <4> QED
          BY <1>0, <4>1, WebhookFields DEF Expiry
      <3>8. \A k \in Hooks : \A time : RunsOut(k, time)' <=> RunsOut(k, time)
        BY <2>8 DEF RunsOut
      <3>9. Guarded'
        BY <1>1, <3>7, <3>8 DEF WebhookInv, Guarded
      <3>10. OneHolder'
        BY <3>7 DEF WebhookInv, OneHolder
      <3>11. Remembered'
        <4>1. replays'[hook] # Nil /\ replays'[hook].expires = until /\ replays'[hook].status = "COMPLETED"
          BY <2>4, <2>6
        <4>2. one.hook = hook /\ one.now + Ttl = until
          BY <2>1, <2>2, <3>4
        <4>3. ASSUME NEW i \in 1..n
              PROVE  \/ /\ replays'[accepted[i].hook] # Nil /\ replays'[accepted[i].hook].expires = accepted[i].now + Ttl
                        /\ replays'[accepted[i].hook].status = "COMPLETED"
                     \/ clock >= accepted[i].now + Ttl
          <5>1. accepted[i].hook \in Hooks
            BY <1>0, <3>4, WebhookFields
          <5>2. \/ RunsOut(accepted[i].hook, accepted[i].now + Ttl) /\ replays[accepted[i].hook].status = "COMPLETED"
                \/ clock >= accepted[i].now + Ttl
            BY <3>4 DEF WebhookInv, Remembered
          <5> QED
            BY <2>8, <5>1, <5>2 DEF RunsOut
        <4>4. \A i \in 1..n + 1 : i = n + 1 \/ i \in 1..n
          BY <3>3, <3>4
        <4>5. ASSUME NEW i \in 1..n + 1
              PROVE  \/ /\ replays'[accepted'[i].hook] # Nil /\ replays'[accepted'[i].hook].expires = accepted'[i].now + Ttl
                        /\ replays'[accepted'[i].hook].status = "COMPLETED"
                     \/ clock' >= accepted'[i].now + Ttl
          BY <1>1, <3>5, <4>1, <4>2, <4>3, <4>4
        <4> QED
          BY <3>5, <4>5 DEF Remembered, RunsOut
      <3>12. Apart'
        <4>1. \A k \in Handlers : Claimed(k)' /\ Superseded(k) => Superseded(k)'
          BY <1>1, <3>7, <3>8 DEF Superseded
        <4>2. ASSUME NEW k \in Handlers, NEW i \in 1..n + 1, Claimed(k)', handlers'[k].hook = accepted'[i].hook
              PROVE  handlers'[k].now - accepted'[i].now >= Ttl - Patience \/ Superseded(k)'
          <5>1. CASE i = n + 1
            BY <2>1, <2>2, <3>4, <3>5, <3>7, <4>1, <4>2, <5>1
          <5>2. CASE i \in 1..n
            BY <3>4, <3>5, <3>7, <4>1, <4>2, <5>2 DEF WebhookInv, Apart
          <5> QED
            BY <3>3, <3>4, <5>1, <5>2
        <4> QED
          BY <3>5, <4>2 DEF Apart
      <3>13. AcceptedApart'
        <4>1. ASSUME NEW i \in 1..n + 1, NEW j \in 1..n + 1, i < j, accepted'[i].hook = accepted'[j].hook
              PROVE  accepted'[j].now - accepted'[i].now >= Ttl - Patience
          <5>1. i \in 1..n /\ (j = n + 1 \/ j \in 1..n)
            BY <3>3, <3>4, <4>1
          <5>2. CASE j = n + 1
            BY <2>1, <2>2, <3>4, <3>5, <4>1, <5>1, <5>2
          <5>3. CASE j \in 1..n
            BY <3>4, <3>5, <4>1, <5>1, <5>3 DEF WebhookInv, AcceptedApart
          <5> QED
            BY <5>1, <5>2, <5>3
        <4> QED
          BY <3>5, <4>1 DEF AcceptedApart
      <3>14. HandedOver'
        <4>1. one.hook \in handed
          BY <1>1, <3>4 DEF WebhookInv, HandedOver, Working
        <4>2. \A k \in Handlers : Working(k, "TAKEN")' => Working(k, "TAKEN") /\ handlers'[k] = handlers[k]
          BY <3>2 DEF Working
        <4>3. \A i \in 1..n + 1 : i = n + 1 \/ i \in 1..n
          BY <3>3, <3>4
        <4>4. \A i \in 1..n + 1 : accepted'[i].hook \in handed'
          BY <1>1, <3>4, <3>5, <4>1, <4>3 DEF WebhookInv, HandedOver
        <4> QED
          BY <1>1, <3>5, <4>2, <4>4 DEF WebhookInv, HandedOver
      <3> QED
        BY <3>6, <3>9, <3>10, <3>11, <3>12, <3>13, <3>14 DEF WebhookInv
    <2> QED
      BY <1>3, <2>9, <2>10
  <1> QED
    BY <1>2, <1>3 DEF Complete

LEMMA ReleaseStep ==
  ASSUME WebhookInv, NEW h \in Handlers, Release(h), UNCHANGED clock PROVE WebhookInv'
  <1>0. WebhookTypes
    BY DEF WebhookInv
  <1>1. /\ Claimed(h) /\ handlers[h] # Nil /\ Reply(h)
        /\ UNCHANGED <<clock, handed, accepted>>
    BY DEF Release, Working, Claimed
  <1>2. CASE ~Holds(h)
    BY <1>1, <1>2, HandlerStep DEF Release
  <1>3. CASE Holds(h)
    <2>1. PICK hook, until : hook = handlers[h].hook /\ until = Expiry(h)
      OBVIOUS
    <2>2. /\ hook \in Hooks /\ until \in Nat
          /\ \A k \in Handlers : Claimed(k) /\ k # h /\ handlers[k].hook = hook => clock >= Expiry(k)
          /\ \A i \in 1..Len(accepted) : accepted[i].hook = hook => clock >= accepted[i].now + Ttl
      BY <1>1, <1>3, <2>1, HeldAlone
    <2>3. replays' = [replays EXCEPT ![hook] = Nil]
      BY <1>3, <2>1 DEF Release
    <2>4. /\ replays' \in [Hooks -> ReplayClaim \cup {Nil}]
          /\ replays'[hook] = Nil /\ \A k \in Hooks : k # hook => replays'[k] = replays[k]
      BY <1>0, <2>2, <2>3 DEF WebhookTypes
    <2>5. /\ handlers' \in [Handlers -> Delivery \cup {Nil}]
          /\ handlers'[h] = Nil
          /\ \A k \in Handlers : k # h => handlers'[k] = handlers[k]
      BY <1>0, <1>1, ReplyTyped
    <2>6. \A k \in Handlers : handlers'[k] # Nil => k # h /\ handlers'[k] = handlers[k]
      BY <2>5
    <2>7. WebhookTypes'
      <3>1. \A k \in Handlers : handlers'[k] # Nil => handlers'[k].now <= clock' /\ InTime(handlers'[k])
        BY <1>0, <1>1, <2>6 DEF WebhookTypes
      <3> QED
        BY <1>0, <1>1, <2>4, <2>5, <3>1 DEF WebhookTypes
    <2>8. \A k \in Handlers :
            Claimed(k)' => Claimed(k) /\ k # h /\ handlers'[k] = handlers[k] /\ Expiry(k)' = Expiry(k) /\ handlers[k].hook \in Hooks
      <3>1. \A k \in Handlers : Claimed(k)' => Claimed(k) /\ k # h /\ handlers'[k] = handlers[k] /\ handlers[k] # Nil
        BY <2>6 DEF Claimed
      <3> QED
        BY <1>0, <3>1, WebhookFields DEF Expiry
    <2>9. \A time : ~RunsOut(hook, time)'
      BY <2>4 DEF RunsOut
    <2>10. \A k \in Hooks : k # hook => \A time : RunsOut(k, time)' <=> RunsOut(k, time)
      BY <2>4 DEF RunsOut
    <2>11. Guarded'
      <3>1. ASSUME NEW k \in Handlers, Claimed(k)'
            PROVE  RunsOut(handlers[k].hook, Expiry(k))' \/ clock' >= Expiry(k)'
        <4>1. CASE handlers[k].hook = hook
          BY <1>1, <2>2, <2>8, <3>1, <4>1
        <4>2. CASE handlers[k].hook # hook
          <5>1. RunsOut(handlers[k].hook, Expiry(k)) \/ clock >= Expiry(k)
            BY <2>8, <3>1 DEF WebhookInv, Guarded
          <5> QED
            BY <1>1, <2>8, <2>10, <3>1, <4>2, <5>1
        <4> QED
          BY <4>1, <4>2
      <3> QED
        BY <3>1 DEF Guarded
    <2>12. OneHolder'
      BY <2>8 DEF WebhookInv, OneHolder
    <2>13. Remembered'
      <3>1. ASSUME NEW i \in 1..Len(accepted)
            PROVE  \/ RunsOut(accepted[i].hook, accepted[i].now + Ttl)' /\ replays'[accepted[i].hook].status = "COMPLETED"
                   \/ clock >= accepted[i].now + Ttl
        <4>1. accepted[i].hook \in Hooks
          BY <1>0, WebhookFields
        <4>2. \/ RunsOut(accepted[i].hook, accepted[i].now + Ttl) /\ replays[accepted[i].hook].status = "COMPLETED"
              \/ clock >= accepted[i].now + Ttl
          BY DEF WebhookInv, Remembered
        <4> QED
          BY <1>1, <2>2, <2>4, <4>1, <4>2 DEF RunsOut
      <3> QED
        BY <1>1, <3>1 DEF Remembered
    <2>14. Apart'
      <3>1. ASSUME NEW k \in Handlers, Claimed(k)', Superseded(k) PROVE Superseded(k)'
        <4>1. clock' >= Expiry(k)' /\ ~RunsOut(handlers[k].hook, Expiry(k))
          BY <1>1, <2>8, <3>1 DEF Superseded
        <4>2. ~RunsOut(handlers[k].hook, Expiry(k))'
          BY <2>8, <2>9, <2>10, <3>1, <4>1
        <4> QED
          BY <4>1, <4>2 DEF Superseded
      <3> QED
        BY <1>1, <2>8, <3>1 DEF WebhookInv, Apart
    <2>15. AcceptedApart' /\ HandedOver'
      <3>1. \A k \in Handlers : Working(k, "TAKEN")' => Working(k, "TAKEN") /\ handlers'[k] = handlers[k]
        BY <2>6 DEF Working
      <3> QED
        BY <1>1, <3>1 DEF WebhookInv, AcceptedApart, HandedOver
    <2> QED
      BY <2>7, <2>11, <2>12, <2>13, <2>14, <2>15 DEF WebhookInv
  <1> QED
    BY <1>2, <1>3

(* Time, and what happens elsewhere, changes no claim. *)
LEMMA TimeKeepsWebhooks ==
  ASSUME WebhookInv, UNCHANGED webhookVars, UNCHANGED clock \/ Tick PROVE WebhookInv'
  <1>0. WebhookTypes
    BY DEF WebhookInv
  <1>1. UNCHANGED <<handlers, replays, handed, accepted>>
    BY DEF webhookVars
  <1>2. clock \in Nat /\ clock' \in Nat /\ clock <= clock'
    BY <1>0 DEF WebhookTypes, Tick
  <1>3. \A k \in Handlers : handlers[k] # Nil => handlers[k].now \in Nat /\ handlers[k].now <= clock
    BY <1>0, WebhookFields
  <1>4. \A k \in Handlers : handlers'[k] # Nil => handlers'[k].now <= clock' /\ InTime(handlers'[k])
    BY <1>0, <1>1, <1>2, <1>3 DEF WebhookTypes
  <1>5. WebhookTypes'
    BY <1>0, <1>1, <1>2, <1>4 DEF WebhookTypes
  <1>6. \A k \in Handlers : Claimed(k)' => Claimed(k)
    BY <1>1 DEF Claimed
  <1>7. \A k \in Handlers : Working(k, "TAKEN")' => handlers'[k].hook \in handed'
    BY <1>1 DEF Working, WebhookInv, HandedOver
  <1> QED
    BY <1>1, <1>2, <1>5, <1>6, <1>7, QuietStep

LEMMA WebhookStep == WebhookInv /\ WebhookNext => WebhookInv'
  <1> SUFFICES ASSUME WebhookInv, WebhookNext PROVE WebhookInv'
    OBVIOUS
  <1>1. CASE Tick /\ UNCHANGED webhookVars
    BY <1>1, TimeKeepsWebhooks
  <1>2. ASSUME NEW h \in Handlers, UNCHANGED clock,
               Deliver(h) \/ Claim(h) \/ Receive(h) \/ Complete(h) \/ Release(h) \/ Lose(h)
        PROVE  WebhookInv'
    <2>1. CASE Receive(h)
      <3>1. Claimed(h) /\ handlers[h] # Nil /\ UNCHANGED <<replays, accepted>>
        BY <2>1 DEF Receive, Working, Claimed
      <3>2. handed \subseteq handed' /\ (Proceed(h, "FAILED") \/ (Proceed(h, "TAKEN") /\ handlers[h].hook \in handed'))
        BY <2>1 DEF Receive
      <3> QED
        BY <1>2, <3>1, <3>2, HandlerStep
    <2>2. CASE Lose(h)
      BY <1>2, <2>2, HandlerStep DEF Lose
    <2> QED
      BY <1>2, <2>1, <2>2, DeliverStep, ClaimStep, CompleteStep, ReleaseStep
  <1> QED
    BY <1>1, <1>2 DEF WebhookNext

LEMMA WebhooksTakenOnceByInv == WebhookInv => WebhooksAreTakenOnce
  <1> SUFFICES ASSUME WebhookInv PROVE WebhooksAreTakenOnce
    OBVIOUS
  <1>0. WebhookTypes
    BY DEF WebhookInv
  <1>1. ASSUME NEW i \in 1..Len(accepted), NEW j \in 1..Len(accepted), i < j, accepted[i].hook = accepted[j].hook
        PROVE  accepted[i].stamp # accepted[j].stamp /\ accepted[j].now - accepted[i].now >= Ttl - Patience
    <2>1. accepted[j].now - accepted[i].now >= Ttl - Patience
      BY <1>1 DEF WebhookInv, AcceptedApart
    <2>2. /\ accepted[i].now - accepted[i].stamp \in -MaxSkew..MaxSkew
          /\ accepted[j].now - accepted[j].stamp \in -MaxSkew..MaxSkew
      BY <1>0 DEF WebhookTypes, InTime
    <2>3. /\ Ttl \in Nat /\ MaxSkew \in Nat /\ Patience \in Nat /\ Ttl > 2 * MaxSkew + Patience
          /\ accepted[i].now \in Nat /\ accepted[i].stamp \in Nat /\ accepted[j].now \in Nat /\ accepted[j].stamp \in Nat
      BY <1>0, WebhookFields
    <2>4. \A d \in -MaxSkew..MaxSkew : d \in Int /\ -MaxSkew <= d /\ d <= MaxSkew
      BY <2>3
    <2>5. /\ accepted[i].now - accepted[i].stamp >= -MaxSkew
          /\ accepted[j].now - accepted[j].stamp <= MaxSkew
      BY <2>2, <2>4
    <2>6. accepted[j].stamp - accepted[i].stamp >= Ttl - Patience - 2 * MaxSkew
      <3>1. \A ni, si, nj, sj, ttl, skew, patience \in Nat :
              nj - ni >= ttl - patience /\ ni - si >= -skew /\ nj - sj <= skew => sj - si >= ttl - patience - 2 * skew
        OBVIOUS
      <3> QED
        BY <2>1, <2>3, <2>5, <3>1
    <2> QED
      BY <2>1, <2>3, <2>6
  <1>2. ASSUME NEW h \in Handlers, NEW k \in Handlers, h # k, Processing(h), Processing(k), handlers[h].hook = handlers[k].hook
        PROVE  clock >= Expiry(h) \/ clock >= Expiry(k)
    <2>1. Claimed(h) /\ Claimed(k)
      BY <1>2 DEF Processing, Working, Claimed
    <2>2. handlers[h].now # handlers[k].now
      BY <1>2, <2>1 DEF WebhookInv, OneHolder
    <2>3. handlers[h].now \in Nat /\ handlers[k].now \in Nat /\ Ttl \in Nat
      BY <1>0, <2>1, WebhookFields DEF Claimed
    <2>4. Expiry(h) # Expiry(k)
      BY <2>2, <2>3 DEF Expiry
    <2> QED
      BY <1>2, <2>1, <2>4 DEF WebhookInv, Guarded, RunsOut
  <1> QED
    BY <1>1, <1>2 DEF WebhooksAreTakenOnce, WebhookInv, HandedOver

-----------------------------------------------------------------------------
(***************************************************************************)
(* All stores together: a step is one store's, and time is the edge's.     *)
(***************************************************************************)
Inv == IInv /\ LedgerInv /\ IntakeInv /\ WebhookInv /\ RateInv

vars == <<part, truthVars, ledgerVars, intakeVars, edgeVars>>

LEMMA EdgeUntouched ==
  ASSUME WebhookInv, RateInv, UNCHANGED edgeVars PROVE WebhookInv' /\ RateInv'
  <1>1. UNCHANGED clock /\ UNCHANGED webhookVars /\ UNCHANGED rateVars
    BY DEF edgeVars
  <1> QED
    BY <1>1, TimeKeepsWebhooks, TimeKeepsRateInv

LEMMA LedgerUntouched == LedgerInv /\ UNCHANGED ledgerVars => LedgerInv'
  <1> SUFFICES ASSUME LedgerInv, UNCHANGED ledgerVars PROVE LedgerInv'
    OBVIOUS
  <1>1. events' = events
    BY DEF ledgerVars
  <1>2. Verified(events)' <=> Verified(events)
    BY <1>1 DEF Verified, Chained
  <1>3. (\A i \in 1..Len(events) : Written(events[i], i))' <=> \A i \in 1..Len(events) : Written(events[i], i)
    BY <1>1 DEF Written
  <1>4. (events \in Seq({events[i] : i \in 1..Len(events)}))' <=> events \in Seq({events[i] : i \in 1..Len(events)})
    BY <1>1
  <1> QED
    BY <1>2, <1>3, <1>4 DEF LedgerInv

LEMMA IntakeUntouched == IntakeInv /\ UNCHANGED intakeVars => IntakeInv'
  <1> SUFFICES ASSUME IntakeInv, UNCHANGED intakeVars PROVE IntakeInv'
    OBVIOUS
  <1>1. UNCHANGED <<known, keys, messages, published, taken>>
    BY DEF intakeVars
  <1> QED
    BY <1>1 DEF IntakeInv, IntakeIsFaithful, ReadAsSent, StillSaid, Externally, Internally

LEMMA AllInit == Init => Inv
  BY InitInv, LedgerInitInv, IntakeInitInv, WebhookInitInv, RateInitInv DEF Init, Inv

LEMMA AllNext == Inv /\ [Next]_vars => Inv'
  <1> SUFFICES ASSUME Inv, [Next]_vars PROVE Inv'
    OBVIOUS
  <1>0. IInv /\ LedgerInv /\ IntakeInv /\ WebhookInv /\ RateInv
    BY DEF Inv
  <1>1. UNCHANGED truthVars => IInv'
    BY <1>0, NextInv
  <1>2. CASE TruthNext /\ UNCHANGED <<part, ledgerVars, intakeVars, edgeVars>>
    <2>1. IInv'
      BY <1>0, <1>2, NextInv
    <2> QED
      BY <1>0, <1>2, <2>1, LedgerUntouched, IntakeUntouched, EdgeUntouched DEF Inv
  <1>3. CASE LedgerNext /\ UNCHANGED <<part, truthVars, intakeVars, edgeVars>>
    BY <1>0, <1>1, <1>3, LedgerStep, IntakeUntouched, EdgeUntouched DEF Inv
  <1>4. CASE IntakeNext /\ UNCHANGED <<part, truthVars, ledgerVars, edgeVars>>
    BY <1>0, <1>1, <1>4, LedgerUntouched, IntakeStep, EdgeUntouched DEF Inv
  <1>5. CASE WebhookNext /\ UNCHANGED <<part, truthVars, ledgerVars, intakeVars, rateVars>>
    <2>1. UNCHANGED clock \/ Tick
      BY <1>5 DEF WebhookNext
    <2>2. WebhookInv' /\ RateInv'
      BY <1>0, <1>5, <2>1, WebhookStep, TimeKeepsRateInv
    <2> QED
      BY <1>0, <1>1, <1>5, <2>2, LedgerUntouched, IntakeUntouched DEF Inv
  <1>6. CASE RateNext /\ UNCHANGED <<part, truthVars, ledgerVars, intakeVars, webhookVars>>
    <2>1. UNCHANGED clock \/ Tick
      BY <1>6 DEF RateNext, Consume
    <2>2. RateInv'
      BY <1>0, <1>6, ConsumeKeepsRateInv, TimeKeepsRateInv DEF RateNext
    <2>3. WebhookInv'
      BY <1>0, <1>6, <2>1, TimeKeepsWebhooks
    <2> QED
      BY <1>0, <1>1, <1>6, <2>2, <2>3, LedgerUntouched, IntakeUntouched DEF Inv
  <1>7. CASE UNCHANGED vars
    BY <1>0, <1>1, <1>7, LedgerUntouched, IntakeUntouched, EdgeUntouched DEF Inv, vars
  <1> QED
    BY <1>2, <1>3, <1>4, <1>5, <1>6, <1>7 DEF Next

(***************************************************************************)
(* The stores keep their invariants together, whatever their number of     *)
(* events, reports, restarts, deliveries and requests (adjudication.ts,    *)
(* integration-gateway.ts, postgres-production-coordination.ts).           *)
(***************************************************************************)
THEOREM IntakeInvariant == Spec => []Inv
  <1>1. Init => Inv
    BY AllInit
  <1>2. Inv /\ [Next]_vars => Inv'
    BY AllNext
  <1> QED
    BY <1>1, <1>2, PTL DEF Spec, vars

(***************************************************************************)
(* The certified truth of a tournament keeps its three promises beside     *)
(* the other stores too.                                                   *)
(***************************************************************************)
THEOREM TruthStaysCertified == Spec => [](TruthStaysPlayable /\ OneLineOfTruth /\ AnswersAreTrue)
  <1>1. Inv => TruthStaysPlayable /\ OneLineOfTruth /\ AnswersAreTrue
    BY AnswersTrueByInv DEF Inv, IInv, Recorded
  <1> QED
    BY <1>1, IntakeInvariant, PTL

(***************************************************************************)
(* A ledger of any length verifies as it was written, and with an event    *)
(* removed, exchanged, repeated or altered it does not                     *)
(* (verifyAdjudicationLedger).                                             *)
(***************************************************************************)
THEOREM LedgerIsEvidence == Spec => []LedgerShowsItsHistory
  <1>1. Inv => LedgerShowsItsHistory
    BY LedgerShows DEF Inv
  <1> QED
    BY <1>1, IntakeInvariant, PTL

(***************************************************************************)
(* Whatever a provider sends and however its mapping is corrected, what a  *)
(* gateway accepts is what was sent, about entrants it knows, and counts   *)
(* once; published truth that it would still publish in the same words     *)
(* comes back as that truth.  Webhooks are taken once however late a       *)
(* handler is, and no member is let through more often than two windows    *)
(* allow, on any number of replicas (acceptInboundResult, registerIdentity, *)
(* claim, complete, release, consume).                                     *)
(***************************************************************************)
THEOREM IncomingIsCountedOnce == Spec => []IncomingCountsOnce
  <1>1. Inv => IncomingCountsOnce
    BY WebhooksTakenOnceByInv, RateIsKeptByInv DEF Inv, IntakeInv, IncomingCountsOnce
  <1> QED
    BY <1>1, IntakeInvariant, PTL

=============================================================================
