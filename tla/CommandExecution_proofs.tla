----------------------- MODULE CommandExecution_proofs ----------------------
(***************************************************************************)
(* Proofs about CommandExecution, for any number of concurrent requests,   *)
(* identities, contents and times, and any bound.                          *)
(***************************************************************************)
EXTENDS CommandExecution, SequenceTheorems, TLAPS

(* A request that is about to append was permitted on the state it read.   *)
PermittedOnSeen ==
  \A c \in Clients : pc[c] = "append" => Permitted(command[c].content, seen[c])

(* A request that is about to answer after an append has its entry.        *)
AppendedBeforeReread ==
  \A c \in Clients : pc[c] = "reread" =>
    \E i \in 1..Len(stream) : stream[i].id = command[c].id /\ stream[i].content = command[c].content

(* The inductive invariant.                                                *)
Inv ==
  /\ TypeOK
  /\ DecidedOnCurrentState
  /\ OneEffectPerCommand
  /\ GuardsHoldAtAppend
  /\ AcceptedTookEffect
  /\ PermittedOnSeen
  /\ AppendedBeforeReread

Entries == [id : Identities, content : Contents, at : Times, base : Nat]

-----------------------------------------------------------------------------
(* The initial states satisfy the invariant: the stream is empty and no    *)
(* request is under way.                                                   *)
LEMMA InitInv == Init => Inv
  <1> SUFFICES ASSUME Init PROVE Inv
    OBVIOUS
  <1>1. TypeOK
    <2>1. stream \in Seq(Entries) /\ Len(stream) = 0
      BY DEF Init, Entries
    <2> QED
      BY <2>1 DEF Init, TypeOK, Entries, Points, Answers
  <1>2. Len(stream) = 0
    BY DEF Init
  <1> QED
    BY <1>1, <1>2 DEF Init, Inv, DecidedOnCurrentState, OneEffectPerCommand, GuardsHoldAtAppend,
       AcceptedTookEffect, PermittedOnSeen, AppendedBeforeReread

(* What an append does to the stream: it is one entry longer, and the      *)
(* entries that were there are still there.                                *)
LEMMA Appended ==
  ASSUME TypeOK, NEW c \in Clients, stream' = Append(stream, Entry(c))
  PROVE  /\ Entry(c) \in Entries
         /\ stream' \in Seq(Entries)
         /\ Len(stream') = Len(stream) + 1
         /\ stream'[Len(stream) + 1] = Entry(c)
         /\ \A i \in 1..Len(stream) : stream'[i] = stream[i]
  <1>1. Entry(c) \in Entries
    BY DEF TypeOK, Entry, Entries, Submissions
  <1>2. stream \in Seq(Entries)
    BY DEF TypeOK, Entries
  <1> QED
    BY <1>1, <1>2

(* The four ways an append can end, as far as the stream is concerned.     *)
LEMMA AppendCases ==
  ASSUME NEW c \in Clients, AppendEvents(c)
  PROVE  \/ stream' = stream
         \/ /\ stream' = Append(stream, Entry(c))
            /\ IsNew(c) /\ IsCurrent(c)
            /\ pc' = [pc EXCEPT ![c] = "reread"]
            /\ answer' = answer
  BY DEF AppendEvents, Goto, Finish

-----------------------------------------------------------------------------
(* Every step preserves the types.                                         *)
LEMMA TypeStep == TypeOK /\ [Next]_vars => TypeOK'
  <1> SUFFICES ASSUME TypeOK, [Next]_vars PROVE TypeOK'
    OBVIOUS
  <1> USE DEF TypeOK, Points, Answers
  <1>1. CASE UNCHANGED vars
    BY <1>1 DEF vars
  <1>2. ASSUME NEW c \in Clients, NEW s \in Submissions, Submit(c, s) PROVE TypeOK'
    BY <1>2 DEF Submit, Goto
  <1>3. ASSUME NEW c \in Clients, ReadState(c) PROVE TypeOK'
    <2>1. Len(stream) \in Nat
      OBVIOUS
    <2> QED
      BY <1>3, <2>1 DEF ReadState, Goto
  <1>4. ASSUME NEW c \in Clients, ReadPrior(c) PROVE TypeOK'
    BY <1>4 DEF ReadPrior, Goto, Finish
  <1>5. ASSUME NEW c \in Clients, LoadArtifacts(c) PROVE TypeOK'
    BY <1>5 DEF LoadArtifacts, Goto, Finish
  <1>6. ASSUME NEW c \in Clients, AppendEvents(c) PROVE TypeOK'
    <2>1. /\ pc' \in [Clients -> Points]
          /\ answer' \in [Clients -> Answers]
          /\ command' = command
          /\ seen' = seen
      BY <1>6 DEF AppendEvents, Goto, Finish
    <2>2. CASE stream' = stream
      BY <2>1, <2>2
    <2>3. CASE stream' = Append(stream, Entry(c))
      <3>1. stream' \in Seq(Entries) /\ Len(stream') = Len(stream) + 1
        BY <2>3, Appended
      <3>2. \A d \in Clients : seen[d] <= Len(stream) + 1
        <4> TAKE d \in Clients
        <4>1. seen[d] <= Len(stream) /\ Len(stream) \in Nat /\ seen[d] \in Nat
          OBVIOUS
        <4> QED BY <4>1
      <3> QED
        BY <2>1, <3>1, <3>2 DEF Entries
    <2> QED
      BY <1>6, <2>2, <2>3, AppendCases
  <1>7. ASSUME NEW c \in Clients, ReadBack(c) PROVE TypeOK'
    <2>1. Len(stream) \in Nat
      OBVIOUS
    <2> QED
      BY <1>7, <2>1 DEF ReadBack, Finish
  <1>8. ASSUME NEW c \in Clients, Lose(c) PROVE TypeOK'
    BY <1>8 DEF Lose, Finish
  <1> QED
    BY <1>1, <1>2, <1>3, <1>4, <1>5, <1>6, <1>7, <1>8 DEF Next

-----------------------------------------------------------------------------
(* A permission given for a version that exists does not depend on what is *)
(* appended after it.                                                      *)
LEMMA PermittedIsStable ==
  ASSUME TypeOK, NEW c \in Clients, stream' = Append(stream, Entry(c)),
         NEW content, NEW version \in Nat, version <= Len(stream),
         Permitted(content, version)
  PROVE  content \in Exclusive => \A i \in 1..version : stream'[i].content # content
  <1>1. \A i \in 1..version : i \in 1..Len(stream)
    BY DEF TypeOK
  <1>2. \A i \in 1..version : stream'[i] = stream[i]
    BY <1>1, Appended
  <1> QED
    BY <1>2 DEF Permitted

(* An append preserves the invariant: the version check makes the state    *)
(* that was judged the state that is appended to.                          *)
LEMMA AppendStep ==
  ASSUME Inv, NEW c \in Clients, AppendEvents(c), TypeOK',
         stream' = Append(stream, Entry(c)), IsNew(c), IsCurrent(c),
         pc' = [pc EXCEPT ![c] = "reread"], answer' = answer
  PROVE  Inv'
  <1> DEFINE n == Len(stream)
  <1>1. /\ n \in Nat
        /\ Len(stream') = n + 1
        /\ stream'[n + 1] = Entry(c)
        /\ \A i \in 1..n : stream'[i] = stream[i]
    BY Appended DEF Inv, TypeOK
  <1>2. /\ Entry(c).id = command[c].id
        /\ Entry(c).content = command[c].content
        /\ Entry(c).base = n
    BY DEF Entry, IsCurrent
  <1>3. command' = command /\ seen' = seen /\ pc[c] = "append"
    BY DEF AppendEvents
  <1>4. \A i \in 1..(n + 1) : i \in 1..n \/ i = n + 1
    BY <1>1
  <1> HIDE DEF n
  <1>5. DecidedOnCurrentState'
    <2> SUFFICES ASSUME NEW i \in 1..(n + 1) PROVE stream'[i].base = i - 1
      BY <1>1 DEF DecidedOnCurrentState
    <2>1. CASE i \in 1..n
      BY <1>1, <2>1 DEF Inv, DecidedOnCurrentState, n
    <2>2. CASE i = n + 1
      BY <1>1, <1>2, <2>2
    <2> QED
      BY <1>4, <2>1, <2>2
  <1>6. \A i \in 1..n : stream[i].id # command[c].id
    BY DEF IsNew, EntriesOf, Inv, TypeOK, n
  <1>7. OneEffectPerCommand'
    <2> SUFFICES ASSUME NEW i \in 1..(n + 1), NEW j \in 1..(n + 1), stream'[i].id = stream'[j].id
                 PROVE  i = j
      BY <1>1 DEF OneEffectPerCommand
    <2>1. CASE i \in 1..n /\ j \in 1..n
      BY <1>1, <2>1 DEF Inv, OneEffectPerCommand, n
    <2>2. CASE i \in 1..n /\ j = n + 1
      BY <1>1, <1>2, <1>6, <2>2
    <2>3. CASE i = n + 1 /\ j \in 1..n
      BY <1>1, <1>2, <1>6, <2>3
    <2> QED
      BY <1>4, <2>1, <2>2, <2>3
  <1>8. command[c].content \in Exclusive => \A i \in 1..n : stream[i].content # command[c].content
    <2>1. Permitted(command[c].content, seen[c])
      BY <1>3 DEF Inv, PermittedOnSeen
    <2> QED
      BY <2>1 DEF Permitted, IsCurrent, n
  <1>9. GuardsHoldAtAppend'
    <2> SUFFICES ASSUME NEW i \in 1..(n + 1), NEW j \in 1..(n + 1),
                        stream'[i].content \in Exclusive, stream'[i].content = stream'[j].content
                 PROVE  i = j
      BY <1>1 DEF GuardsHoldAtAppend
    <2>1. CASE i \in 1..n /\ j \in 1..n
      BY <1>1, <2>1 DEF Inv, GuardsHoldAtAppend, n
    <2>2. CASE i \in 1..n /\ j = n + 1
      BY <1>1, <1>2, <1>8, <2>2
    <2>3. CASE i = n + 1 /\ j \in 1..n
      BY <1>1, <1>2, <1>8, <2>3
    <2> QED
      BY <1>4, <2>1, <2>2, <2>3
  <1>10. \A i \in 1..n : i \in 1..(n + 1)
    BY <1>1
  <1>11. AcceptedTookEffect'
    <2> SUFFICES ASSUME NEW d \in Clients, answer[d] = "ACCEPTED"
                 PROVE  \E i \in 1..(n + 1) : stream'[i].id = command[d].id /\ stream'[i].content = command[d].content
      BY <1>1, <1>3 DEF AcceptedTookEffect
    <2>1. PICK i \in 1..n : stream[i].id = command[d].id /\ stream[i].content = command[d].content
      BY DEF Inv, AcceptedTookEffect, n
    <2> QED
      BY <1>1, <1>10, <2>1
  <1>12. PermittedOnSeen'
    <2> SUFFICES ASSUME NEW d \in Clients, pc'[d] = "append"
                 PROVE  command[d].content \in Exclusive =>
                          \A i \in 1..seen[d] : stream'[i].content # command[d].content
      BY <1>3 DEF PermittedOnSeen, Permitted
    <2>1. pc[d] = "append"
      BY DEF Inv, TypeOK
    <2>2. Permitted(command[d].content, seen[d]) /\ seen[d] \in Nat /\ seen[d] <= Len(stream)
      BY <2>1 DEF Inv, PermittedOnSeen, TypeOK
    <2> QED
      BY <2>2, PermittedIsStable DEF Inv
  <1>13. AppendedBeforeReread'
    <2> SUFFICES ASSUME NEW d \in Clients, pc'[d] = "reread"
                 PROVE  \E i \in 1..(n + 1) : stream'[i].id = command[d].id /\ stream'[i].content = command[d].content
      BY <1>1, <1>3 DEF AppendedBeforeReread
    <2>1. CASE d = c
      BY <1>1, <1>2, <2>1
    <2>2. CASE d # c
      <3>1. pc[d] = "reread"
        BY <2>2 DEF Inv, TypeOK
      <3>2. PICK i \in 1..n : stream[i].id = command[d].id /\ stream[i].content = command[d].content
        BY <3>1 DEF Inv, AppendedBeforeReread, n
      <3> QED
        BY <1>1, <1>10, <3>2
    <2> QED
      BY <2>1, <2>2
  <1> QED
    BY <1>5, <1>7, <1>9, <1>11, <1>12, <1>13 DEF Inv

(* Every step preserves the invariant.                                     *)
LEMMA InvStep == Inv /\ [Next]_vars => Inv'
  <1> SUFFICES ASSUME Inv, [Next]_vars PROVE Inv'
    OBVIOUS
  <1>0. TypeOK /\ TypeOK'
    BY TypeStep DEF Inv
  <1>1. CASE UNCHANGED vars
    BY <1>0, <1>1 DEF Inv, vars, DecidedOnCurrentState, OneEffectPerCommand, GuardsHoldAtAppend,
       AcceptedTookEffect, PermittedOnSeen, AppendedBeforeReread, Permitted
  <1>2. ASSUME stream' = stream
        PROVE  DecidedOnCurrentState' /\ OneEffectPerCommand' /\ GuardsHoldAtAppend'
    BY <1>2 DEF Inv, DecidedOnCurrentState, OneEffectPerCommand, GuardsHoldAtAppend
  <1>3. ASSUME NEW c \in Clients, NEW s \in Submissions, Submit(c, s) PROVE Inv'
    BY <1>0, <1>2, <1>3 DEF Inv, Submit, Goto, TypeOK, AcceptedTookEffect, PermittedOnSeen,
       AppendedBeforeReread, Permitted
  <1>4. ASSUME NEW c \in Clients, ReadState(c) PROVE Inv'
    BY <1>0, <1>2, <1>4 DEF Inv, ReadState, Goto, TypeOK, AcceptedTookEffect, PermittedOnSeen,
       AppendedBeforeReread, Permitted
  <1>5. ASSUME NEW c \in Clients, ReadPrior(c) PROVE Inv'
    <2>1. stream' = stream /\ command' = command /\ seen' = seen
      BY <1>5 DEF ReadPrior
    <2>2. PermittedOnSeen' /\ AppendedBeforeReread'
      <3>1. pc'[c] \in {"load", "idle"} /\ \A d \in Clients \ {c} : pc'[d] = pc[d]
        BY <1>0, <1>5 DEF ReadPrior, Goto, Finish, TypeOK
      <3> QED
        BY <2>1, <3>1 DEF Inv, PermittedOnSeen, AppendedBeforeReread, Permitted
    <2>3. AcceptedTookEffect'
      <3>1. CASE answer' = answer
        BY <2>1, <3>1 DEF Inv, AcceptedTookEffect
      <3>2. CASE \E i \in EntriesOf(command[c].id) : SameContent(c, i)
        <4>1. PICK i \in DOMAIN stream :
                stream[i].id = command[c].id /\ stream[i].content = command[c].content
          BY <3>2 DEF EntriesOf, SameContent
        <4>2. i \in 1..Len(stream)
          BY <1>0, <4>1 DEF TypeOK
        <4>3. \A d \in Clients \ {c} : answer'[d] = answer[d]
          BY <1>0, <1>5 DEF ReadPrior, Finish, TypeOK
        <4> QED
          BY <2>1, <4>1, <4>2, <4>3 DEF Inv, AcceptedTookEffect
      <3>3. CASE answer' = [answer EXCEPT ![c] = "CONFLICT"]
        BY <1>0, <2>1, <3>3 DEF Inv, AcceptedTookEffect, TypeOK
      <3> QED
        BY <1>5, <3>1, <3>2, <3>3 DEF ReadPrior, Finish
    <2> QED
      BY <1>0, <1>2, <2>1, <2>2, <2>3 DEF Inv
  <1>6. ASSUME NEW c \in Clients, LoadArtifacts(c) PROVE Inv'
    <2>1. stream' = stream /\ command' = command /\ seen' = seen
      BY <1>6 DEF LoadArtifacts
    <2>2. /\ pc'[c] \in {"append", "idle"}
          /\ pc'[c] = "append" => Permitted(command[c].content, seen[c])
          /\ answer'[c] # "ACCEPTED" \/ answer'[c] = answer[c]
          /\ \A d \in Clients \ {c} : pc'[d] = pc[d] /\ answer'[d] = answer[d]
      BY <1>0, <1>6 DEF LoadArtifacts, Goto, Finish, TypeOK
    <2>3. PermittedOnSeen'
      BY <2>1, <2>2 DEF Inv, PermittedOnSeen, Permitted
    <2>4. AppendedBeforeReread' /\ AcceptedTookEffect'
      BY <2>1, <2>2 DEF Inv, AppendedBeforeReread, AcceptedTookEffect
    <2> QED
      BY <1>0, <1>2, <2>1, <2>3, <2>4 DEF Inv
  <1>7. ASSUME NEW c \in Clients, AppendEvents(c) PROVE Inv'
    <2>1. CASE stream' = stream
      <3>1. command' = command /\ seen' = seen
        BY <1>7 DEF AppendEvents
      <3>2. AcceptedTookEffect' /\ PermittedOnSeen'
        BY <1>0, <1>7, <2>1, <3>1 DEF Inv, AppendEvents, Goto, Finish, TypeOK, AcceptedTookEffect,
           PermittedOnSeen, Permitted
      <3>3. AppendedBeforeReread'
        <4>1. CASE \E i \in EntriesOf(command[c].id) : stream[i] = Entry(c)
          <5>1. PICK i \in DOMAIN stream :
                  stream[i].id = command[c].id /\ stream[i].content = command[c].content
            BY <4>1 DEF EntriesOf, Entry
          <5>2. i \in 1..Len(stream)
            BY <1>0, <5>1 DEF TypeOK
          <5>3. \A d \in Clients \ {c} : pc'[d] = pc[d]
            BY <1>0, <1>7 DEF AppendEvents, Goto, Finish, TypeOK
          <5> QED
            BY <2>1, <3>1, <5>1, <5>2, <5>3 DEF Inv, AppendedBeforeReread
        <4>2. CASE pc' = [pc EXCEPT ![c] = "idle"]
          BY <1>0, <2>1, <3>1, <4>2 DEF Inv, AppendedBeforeReread, TypeOK
        <4>3. CASE stream' = Append(stream, Entry(c))
          <5>1. Len(stream') = Len(stream) + 1 /\ Len(stream) \in Nat
            BY <1>0, <4>3, Appended DEF TypeOK
          <5> QED
            BY <2>1, <5>1
        <4> QED
          BY <1>7, <4>1, <4>2, <4>3 DEF AppendEvents, Goto, Finish
      <3> QED
        BY <1>0, <1>2, <2>1, <3>2, <3>3 DEF Inv
    <2>2. CASE /\ stream' = Append(stream, Entry(c))
               /\ IsNew(c) /\ IsCurrent(c)
               /\ pc' = [pc EXCEPT ![c] = "reread"]
               /\ answer' = answer
      BY <1>0, <1>7, <2>2, AppendStep
    <2> QED
      BY <1>7, <2>1, <2>2, AppendCases
  <1>8. ASSUME NEW c \in Clients, ReadBack(c) PROVE Inv'
    <2>1. AcceptedTookEffect'
      BY <1>0, <1>8 DEF Inv, ReadBack, Finish, TypeOK, AcceptedTookEffect, AppendedBeforeReread
    <2>2. PermittedOnSeen' /\ AppendedBeforeReread'
      BY <1>0, <1>8 DEF Inv, ReadBack, Finish, TypeOK, PermittedOnSeen, AppendedBeforeReread, Permitted
    <2> QED
      BY <1>0, <1>2, <1>8, <2>1, <2>2 DEF Inv, ReadBack
  <1>9. ASSUME NEW c \in Clients, Lose(c) PROVE Inv'
    BY <1>0, <1>2, <1>9 DEF Inv, Lose, Finish, TypeOK, AcceptedTookEffect, PermittedOnSeen,
       AppendedBeforeReread, Permitted
  <1> QED
    BY <1>1, <1>3, <1>4, <1>5, <1>6, <1>7, <1>8, <1>9 DEF Next

-----------------------------------------------------------------------------
(* The invariant holds in every reachable state of execute.                *)
THEOREM Invariant == Spec => []Inv
  BY InitInv, InvStep, PTL DEF Spec

(* The variables of execute keep their types.                              *)
THEOREM TypeCorrect == Spec => []TypeOK
  <1>1. Inv => TypeOK
    BY DEF Inv
  <1> QED
    BY <1>1, Invariant, PTL

(* Every entry of the stream was decided on exactly the entries before it. *)
THEOREM CurrentState == Spec => []DecidedOnCurrentState
  <1>1. Inv => DecidedOnCurrentState
    BY DEF Inv
  <1> QED
    BY <1>1, Invariant, PTL

(* No command identity takes effect twice.                                 *)
THEOREM OneEffect == Spec => []OneEffectPerCommand
  <1>1. Inv => OneEffectPerCommand
    BY DEF Inv
  <1> QED
    BY <1>1, Invariant, PTL

(* What eventsFor refuses the second time happens once.                    *)
THEOREM GuardsHold == Spec => []GuardsHoldAtAppend
  <1>1. Inv => GuardsHoldAtAppend
    BY DEF Inv
  <1> QED
    BY <1>1, Invariant, PTL

(* A command answered with 200 took effect, with its own content.          *)
THEOREM AcceptedIsTrue == Spec => []AcceptedTookEffect
  <1>1. Inv => AcceptedTookEffect
    BY DEF Inv
  <1> QED
    BY <1>1, Invariant, PTL
-----------------------------------------------------------------------------
(* A function on 1..n is a sequence of length n.                           *)
LEMMA FunctionIsSeq ==
  ASSUME NEW S, NEW n \in Nat, NEW f \in [1..n -> S]
  PROVE  f \in Seq(S) /\ Len(f) = n
  OBVIOUS

(* A step of execute that appends is one atomic command, and every other   *)
(* step changes nothing.                                                   *)
LEMMA AppendIsExecute ==
  ASSUME Inv, NEW c \in Clients, pc[c] = "append",
         stream' = Append(stream, Entry(c)), IsNew(c), IsCurrent(c)
  PROVE  Atomic!Execute(command[c].id, command[c].content)
  <1>1. /\ Len(stream) \in Nat
        /\ Len(stream') = Len(stream) + 1
        /\ stream'[Len(stream) + 1] = Entry(c)
        /\ \A i \in 1..Len(stream) : stream'[i] = stream[i]
    BY Appended DEF Inv, TypeOK
  <1>2. Entry(c).id = command[c].id /\ Entry(c).content = command[c].content
    BY DEF Entry
  <1>3. DOMAIN History = 1..Len(stream) /\ DOMAIN stream = 1..Len(stream)
    BY DEF History, Inv, TypeOK
  <1>4. ~Atomic!TookEffect(command[c].id)
    BY <1>3 DEF Atomic!TookEffect, History, IsNew, EntriesOf
  <1>5. Atomic!Permitted(command[c].content, History)
    <2>1. Permitted(command[c].content, Len(stream))
      BY DEF Inv, PermittedOnSeen, IsCurrent
    <2> QED
      BY <1>3, <2>1 DEF Atomic!Permitted, Permitted, History
  <1>6. History' = Append(History, [id |-> command[c].id, content |-> command[c].content])
    <2> DEFINE Item == [id : Identities, content : Contents]
               new == [id |-> command[c].id, content |-> command[c].content]
    <2>1. \A i \in 1..Len(stream) : History[i] \in Item
      <3> DEFINE Stored == [id : Identities, content : Contents, at : Times, base : Nat]
      <3>1. stream \in Seq(Stored)
        BY DEF Inv, TypeOK
      <3>2. \A i \in 1..Len(stream) : stream[i] \in Stored
        <4> HIDE DEF Stored
        <4> QED
          BY <3>1, ElementOfSeq
      <3>3. \A i \in 1..Len(stream) : stream[i].id \in Identities /\ stream[i].content \in Contents
        BY <3>2
      <3> HIDE DEF Stored
      <3> QED
        BY <3>3 DEF History
    <2>2. new \in Item
      BY DEF Inv, TypeOK, Submissions
    <2>3. History \in Seq(Item) /\ Len(History) = Len(stream)
      <3>1. History \in [1..Len(stream) -> Item]
        BY <2>1 DEF History
      <3> HIDE DEF Item
      <3> QED
        BY <1>1, <3>1, FunctionIsSeq
    <2>4. /\ Append(History, new) \in Seq(Item)
          /\ Len(Append(History, new)) = Len(stream) + 1
          /\ \A i \in 1..Len(stream) : Append(History, new)[i] = History[i]
          /\ Append(History, new)[Len(stream) + 1] = new
      BY <2>2, <2>3, AppendProperties
    <2>5. History' = [i \in 1..(Len(stream) + 1) |-> [id |-> stream'[i].id, content |-> stream'[i].content]]
      BY <1>1 DEF History
    <2>6. \A i \in 1..(Len(stream) + 1) : History'[i] = Append(History, new)[i]
      <3> SUFFICES ASSUME NEW i \in 1..(Len(stream) + 1) PROVE History'[i] = Append(History, new)[i]
        OBVIOUS
      <3>1. CASE i \in 1..Len(stream)
        BY <1>1, <2>4, <2>5, <3>1 DEF History
      <3>2. CASE i = Len(stream) + 1
        BY <1>1, <1>2, <2>4, <2>5, <3>2
      <3>3. i \in 1..Len(stream) \/ i = Len(stream) + 1
        BY <1>1
      <3> QED
        BY <3>1, <3>2, <3>3
    <2>7. History' \in Seq(Item) /\ Len(History') = Len(stream) + 1
      <3>1. \A i \in 1..(Len(stream) + 1) : History'[i] \in Item
        BY <2>4, <2>6, ElementOfSeq
      <3>2. History' \in [1..(Len(stream) + 1) -> Item]
        BY <2>5, <3>1
      <3> HIDE DEF Item
      <3> QED
        BY <1>1, <3>2, FunctionIsSeq
    <2> QED
      BY <2>4, <2>6, <2>7, SeqEqual
  <1> QED
    BY <1>4, <1>5, <1>6 DEF Atomic!Execute

(* Every step of execute is one atomic command or leaves the history alone. *)
LEMMA StepIsAtomic == Inv /\ [Next]_vars => [Atomic!Next]_History
  <1> SUFFICES ASSUME Inv, [Next]_vars PROVE [Atomic!Next]_History
    OBVIOUS
  <1>1. CASE stream' = stream
    BY <1>1 DEF History
  <1>2. ASSUME NEW c \in Clients, AppendEvents(c) PROVE [Atomic!Next]_History
    <2>1. CASE stream' = Append(stream, Entry(c)) /\ IsNew(c) /\ IsCurrent(c)
      <3>1. pc[c] = "append"
        BY <1>2 DEF AppendEvents
      <3>2. Atomic!Execute(command[c].id, command[c].content)
        BY <2>1, <3>1, AppendIsExecute
      <3>3. command[c].id \in Identities /\ command[c].content \in Contents
        BY DEF Inv, TypeOK, Submissions
      <3> QED
        BY <3>2, <3>3 DEF Atomic!Next
    <2> QED
      BY <1>1, <1>2, <2>1, AppendCases
  <1> QED
    BY <1>1, <1>2 DEF Next, vars, Submit, ReadState, ReadPrior, LoadArtifacts, ReadBack, Lose

(* The interleaved execute implements atomic commands: this is what allows *)
(* the domain modules to treat a command as one step.                      *)
THEOREM Refinement == Spec => ImplementsAtomicCommands
  <1>1. Init => Atomic!Init
    BY DEF Init, Atomic!Init, History
  <1> QED
    BY <1>1, Invariant, StepIsAtomic, PTL DEF Spec, ImplementsAtomicCommands, Atomic!Spec

(* The four invariants together, as the runs check them. *)
THEOREM Honest == Spec => []CommandsAreHonest
BY CurrentState, OneEffect, GuardsHold, AcceptedIsTrue, PTL DEF CommandsAreHonest
=============================================================================
