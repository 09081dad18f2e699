-------------------------- MODULE EventStore_proofs --------------------------
(***************************************************************************)
(* StoreIsWhole, OnlyKeyOrderStopsReplay and ImplementsEventLog for any    *)
(* clients, streams, requests and transactions.  The inductive invariant   *)
(* says of each stream, as committed and as each open transaction sees it, *)
(* what the properties say of the committed one: its events and the        *)
(* requests recorded for it fit together.  A transaction has changed only  *)
(* streams it holds the lock of, so on every stream at most one of these   *)
(* views differs from the committed one.                                   *)
(***************************************************************************)
EXTENDS EventStore, SequenceTheorems, TLAPS

Commands == {r.command : r \in Requests}
Hashes == {<<>>} \union {Digest(k, p, v, "codeUnit") : k \in Commands, p \in Payloads, v \in Nat}
Events == [command : Commands, payload : Payloads, version : Nat, previousHash : Hashes, eventHash : Hashes]

Types ==
  /\ streams \in [Streams -> Seq(Events)]
  /\ commands \subseteq Requests
  /\ lock \in [Streams -> Clients \union {NoClient}]
  /\ pc \in [Clients -> {"idle", "prior", "lock", "commit"}]
  /\ todo \in [Clients -> Seq(Requests)]
  /\ done \in [Clients -> SUBSET Requests]
  /\ written \in [Clients -> [Streams -> Seq(Events)]]
  /\ recorded \in [Clients -> SUBSET Requests]
  /\ acked \subseteq Requests

(* Where a transaction stands, and what it may have changed.               *)
Progress ==
  \A c \in Clients :
    /\ todo[c] # <<>> <=> pc[c] \in {"prior", "lock"}
    /\ recorded[c] \subseteq done[c]
    /\ done[c] \subseteq commands \union recorded[c]
    /\ pc[c] = "idle" => done[c] = {}

On(s, requests) == {r \in requests : r.stream = s}

Owning ==
  \A c \in Clients, s \in Streams :
    /\ lock[s] # c => written[c][s] = <<>> /\ On(s, recorded[c]) = {}
    /\ \A r \in On(s, recorded[c]) : r.expectedVersion >= Len(streams[s])

(* The events of one stream and the requests recorded for it.              *)
HoldsEvent(r, i, event) ==
  /\ r.command = event.command
  /\ i \in Span(r)
  /\ r.events[i - r.expectedVersion] = event.payload

InPlace(events, requests) ==
  \A r \in requests : \A i \in Span(r) : i \in 1..Len(events) /\ HoldsEvent(r, i, events[i])

Accounted(events, requests) ==
  \A i \in 1..Len(events) : \E r \in requests : HoldsEvent(r, i, events[i])

OnePerIdentity(requests) ==
  \A q, r \in requests : q.command = r.command => q = r

Chained(events) ==
  \A i \in 1..Len(events) :
    /\ events[i].version = i
    /\ events[i].eventHash = Digest(events[i].command, events[i].payload, i, "codeUnit")
    /\ events[i].previousHash = IF i = 1 THEN <<>> ELSE events[i - 1].eventHash

Whole(events, requests) ==
  /\ InPlace(events, requests)
  /\ Accounted(events, requests)
  /\ OnePerIdentity(requests)
  /\ Chained(events)

Views ==
  \A s \in Streams :
    /\ Whole(streams[s], On(s, commands))
    /\ \A c \in Clients : Whole(Visible(c, s), On(s, commands \union recorded[c]))

IInv == Types /\ Progress /\ Owning /\ Views /\ OutboxMatchesLog /\ acked \subseteq commands

-----------------------------------------------------------------------------
(* What appendCore adds.                                                   *)

LEMMA RequestTyped ==
  ASSUME NEW r \in Requests
  PROVE  /\ r.stream \in Streams
         /\ r.expectedVersion \in Nat
         /\ r.events \in Seq(Payloads)
         /\ Len(r.events) \in Nat
         /\ r.command \in Commands
  BY StoreAssumption DEF Commands

LEMMA HeadHashTyped ==
  ASSUME NEW base \in Seq(Events)
  PROVE  HeadHash(base) \in Hashes
  <1>1. CASE base = <<>>
    BY <1>1 DEF HeadHash, Hashes
  <1>2. CASE base # <<>>
    <2>1. base[Len(base)] \in Events
      BY <1>2
    <2> QED
      BY <1>2, <2>1 DEF HeadHash, Events
  <1> QED
    BY <1>1, <1>2

LEMMA EnvelopesTyped ==
  ASSUME NEW base \in Seq(Events), NEW r \in Requests
  PROVE  /\ Envelopes(base, r) \in Seq(Events)
         /\ Len(Envelopes(base, r)) = Len(r.events)
  <1> DEFINE envelope(i) ==
         [command |-> r.command, payload |-> r.events[i], version |-> Len(base) + i,
          previousHash |-> IF i = 1 THEN HeadHash(base)
                           ELSE Digest(r.command, r.events[i - 1], Len(base) + i - 1, "codeUnit"),
          eventHash |-> Digest(r.command, r.events[i], Len(base) + i, "codeUnit")]
  <1>1. ASSUME NEW i \in 1..Len(r.events)
        PROVE  envelope(i) \in Events
    <2>1. r.events[i] \in Payloads /\ r.command \in Commands /\ Len(base) + i \in Nat
      BY RequestTyped
    <2>2. Digest(r.command, r.events[i], Len(base) + i, "codeUnit") \in Hashes
      BY <2>1 DEF Hashes
    <2>3. CASE i = 1
      BY <2>1, <2>2, <2>3, HeadHashTyped DEF Events
    <2>4. CASE i # 1
      <3>1. r.events[i - 1] \in Payloads /\ Len(base) + i - 1 \in Nat
        BY <2>4, RequestTyped
      <3>2. Digest(r.command, r.events[i - 1], Len(base) + i - 1, "codeUnit") \in Hashes
        BY <2>1, <3>1 DEF Hashes
      <3> QED
        BY <2>1, <2>2, <2>4, <3>2 DEF Events
    <2> QED
      BY <2>3, <2>4
  <1>2. Envelopes(base, r) = [i \in 1..Len(r.events) |-> envelope(i)]
    BY DEF Envelopes
  <1> HIDE DEF envelope
  <1> QED
    BY <1>1, <1>2, RequestTyped

(* An append leaves what was there, numbers on and links to it.            *)
LEMMA AppendedEvents ==
  ASSUME NEW base \in Seq(Events), NEW r \in Requests, r.expectedVersion = Len(base)
  PROVE  LET after == base \o Envelopes(base, r) IN
         /\ after \in Seq(Events)
         /\ Len(after) = Len(base) + Len(r.events)
         /\ \A i \in 1..Len(base) : after[i] = base[i]
         /\ \A i \in Span(r) :
              /\ i \in 1..Len(after) /\ i > Len(base)
              /\ HoldsEvent(r, i, after[i])
              /\ after[i].version = i
              /\ after[i].eventHash = Digest(after[i].command, after[i].payload, i, "codeUnit")
              /\ after[i].previousHash = IF i = 1 THEN <<>> ELSE after[i - 1].eventHash
         /\ \A i \in 1..Len(after) : i > Len(base) => i \in Span(r)
  <1> DEFINE new == Envelopes(base, r)
             after == base \o new
  <1>1. new \in Seq(Events) /\ Len(new) = Len(r.events)
    BY EnvelopesTyped
  <1>2. /\ after \in Seq(Events)
        /\ Len(after) = Len(base) + Len(r.events)
        /\ \A i \in 1..Len(base) + Len(r.events) : after[i] = IF i <= Len(base) THEN base[i] ELSE new[i - Len(base)]
    <2> HIDE DEF new
    <2>1. /\ base \o new \in Seq(Events)
          /\ Len(base \o new) = Len(base) + Len(new)
          /\ \A i \in 1..Len(base) + Len(new) : (base \o new)[i] = IF i <= Len(base) THEN base[i] ELSE new[i - Len(base)]
      BY <1>1
    <2> QED
      BY <1>1, <2>1
  <1>3. Len(base) \in Nat /\ Len(r.events) \in Nat
    BY RequestTyped
  <1>4. \A i \in 1..Len(base) : after[i] = base[i]
    <2> HIDE DEF after
    <2> QED
      BY <1>2, <1>3
  <1>5. ASSUME NEW i \in Span(r)
        PROVE  /\ i \in 1..Len(after) /\ i > Len(base)
               /\ i - Len(base) \in 1..Len(r.events)
               /\ after[i] = new[i - Len(base)]
    <2> HIDE DEF after, new
    <2> QED
      BY <1>2, <1>3 DEF Span
  <1>6. ASSUME NEW i \in 1..Len(r.events)
        PROVE  /\ new[i].command = r.command
               /\ new[i].payload = r.events[i]
               /\ new[i].version = Len(base) + i
               /\ new[i].previousHash = IF i = 1 THEN HeadHash(base)
                                        ELSE Digest(r.command, r.events[i - 1], Len(base) + i - 1, "codeUnit")
               /\ new[i].eventHash = Digest(r.command, r.events[i], Len(base) + i, "codeUnit")
    BY DEF Envelopes
  <1>7. ASSUME NEW i \in Span(r)
        PROVE  /\ HoldsEvent(r, i, after[i])
               /\ after[i].version = i
               /\ after[i].eventHash = Digest(after[i].command, after[i].payload, i, "codeUnit")
    <2> DEFINE j == i - Len(base)
    <2>1. after[i] = new[j] /\ j \in 1..Len(r.events) /\ Len(base) + j = i
      BY <1>3, <1>5 DEF Span
    <2> HIDE DEF j, after, new
    <2>2. /\ after[i].command = r.command
          /\ after[i].payload = r.events[j]
          /\ after[i].version = i
          /\ after[i].eventHash = Digest(r.command, r.events[j], i, "codeUnit")
      BY <2>1, <1>6
    <2> QED
      BY <2>2 DEF HoldsEvent, j
  <1>8. ASSUME NEW i \in Span(r)
        PROVE  after[i].previousHash = IF i = 1 THEN <<>> ELSE after[i - 1].eventHash
    <2>1. CASE i = Len(base) + 1
      <3>1. after[i].previousHash = HeadHash(base)
        <4>1. i - Len(base) = 1 /\ after[i] = new[1] /\ 1 \in 1..Len(r.events)
          <5> HIDE DEF after, new
          <5> QED
            BY <1>3, <1>5, <2>1
        <4> HIDE DEF after, new
        <4> QED
          BY <4>1, <1>6
      <3>2. CASE base = <<>>
        BY <2>1, <3>1, <3>2 DEF HeadHash
      <3>3. CASE base # <<>>
        <4>1. Len(base) \in 1..Len(base) /\ i # 1 /\ i - 1 = Len(base)
          BY <2>1, <3>3
        <4>2. after[i - 1] = base[Len(base)]
          <5> HIDE DEF after
          <5> QED
            BY <4>1, <1>4
        <4> HIDE DEF after
        <4> QED
          BY <4>1, <4>2, <3>1, <3>3 DEF HeadHash
      <3> QED
        BY <3>2, <3>3
    <2>2. CASE i # Len(base) + 1
      <3> DEFINE j == i - Len(base)
      <3>1. /\ j \in 1..Len(r.events) /\ j # 1 /\ j - 1 \in 1..Len(r.events) /\ i # 1 /\ i - 1 \in Span(r)
            /\ Len(base) + j - 1 = Len(base) + (j - 1)
            /\ (i - 1) - Len(base) = j - 1
        BY <1>3, <1>5, <2>2 DEF Span
      <3>2. after[i] = new[j] /\ after[i - 1] = new[j - 1]
        <4> HIDE DEF after, new
        <4> QED
          BY <3>1, <1>5
      <3> HIDE DEF after, new, j
      <3>3. after[i].previousHash = Digest(r.command, r.events[j - 1], Len(base) + j - 1, "codeUnit")
        BY <3>1, <3>2, <1>6
      <3>4. after[i - 1].eventHash = Digest(r.command, r.events[j - 1], Len(base) + (j - 1), "codeUnit")
        BY <3>1, <3>2, <1>6
      <3> QED
        BY <3>1, <3>3, <3>4
    <2> QED
      BY <2>1, <2>2
  <1>9. \A i \in 1..Len(after) : i > Len(base) => i \in Span(r)
    <2> HIDE DEF after, new
    <2> QED
      BY <1>2, <1>3 DEF Span
  <1> HIDE DEF after, new
  <1>10. /\ after \in Seq(Events)
         /\ Len(after) = Len(base) + Len(r.events)
         /\ \A i \in 1..Len(base) : after[i] = base[i]
         /\ \A i \in Span(r) :
              /\ i \in 1..Len(after) /\ i > Len(base)
              /\ HoldsEvent(r, i, after[i])
              /\ after[i].version = i
              /\ after[i].eventHash = Digest(after[i].command, after[i].payload, i, "codeUnit")
              /\ after[i].previousHash = IF i = 1 THEN <<>> ELSE after[i - 1].eventHash
         /\ \A i \in 1..Len(after) : i > Len(base) => i \in Span(r)
    BY <1>2, <1>4, <1>5, <1>7, <1>8, <1>9
  <1> QED
    BY <1>10 DEF after, new

(* So an append at the expected version by an identity not used yet keeps  *)
(* a stream whole.                                                         *)
LEMMA AppendKeepsWhole ==
  ASSUME NEW base \in Seq(Events), NEW known \in SUBSET Requests, NEW r \in Requests,
         Whole(base, known),
         r.expectedVersion = Len(base),
         \A q \in known : q.command # r.command
  PROVE  Whole(base \o Envelopes(base, r), known \union {r})
  <1> DEFINE after == base \o Envelopes(base, r)
  <1>1. /\ after \in Seq(Events)
        /\ Len(after) = Len(base) + Len(r.events)
        /\ \A i \in 1..Len(base) : after[i] = base[i]
        /\ \A i \in Span(r) :
             /\ i \in 1..Len(after) /\ i > Len(base)
             /\ HoldsEvent(r, i, after[i])
             /\ after[i].version = i
             /\ after[i].eventHash = Digest(after[i].command, after[i].payload, i, "codeUnit")
             /\ after[i].previousHash = IF i = 1 THEN <<>> ELSE after[i - 1].eventHash
        /\ \A i \in 1..Len(after) : i > Len(base) => i \in Span(r)
    BY AppendedEvents
  <1>2. Len(base) \in Nat /\ Len(r.events) \in Nat
    BY RequestTyped
  <1> HIDE DEF after
  <1>3. InPlace(after, known \union {r})
    <2> SUFFICES ASSUME NEW q \in known \union {r}, NEW i \in Span(q)
                 PROVE  i \in 1..Len(after) /\ HoldsEvent(q, i, after[i])
      BY DEF InPlace
    <2>1. CASE q = r
      BY <1>1, <2>1
    <2>2. CASE q \in known
      <3>1. i \in 1..Len(base) /\ HoldsEvent(q, i, base[i])
        BY <2>2 DEF Whole, InPlace
      <3> QED
        BY <3>1, <1>1, <1>2
    <2> QED
      BY <2>1, <2>2
  <1>4. Accounted(after, known \union {r})
    <2> SUFFICES ASSUME NEW i \in 1..Len(after)
                 PROVE  \E q \in known \union {r} : HoldsEvent(q, i, after[i])
      BY DEF Accounted
    <2>1. CASE i > Len(base)
      BY <1>1, <2>1
    <2>2. CASE i <= Len(base)
      <3>1. i \in 1..Len(base)
        BY <1>2, <2>2
      <3> QED
        BY <3>1, <1>1 DEF Whole, Accounted
    <2> QED
      BY <1>2, <2>1, <2>2
  <1>5. OnePerIdentity(known \union {r})
    BY DEF Whole, OnePerIdentity
  <1>6. Chained(after)
    <2> SUFFICES ASSUME NEW i \in 1..Len(after)
                 PROVE  /\ after[i].version = i
                        /\ after[i].eventHash = Digest(after[i].command, after[i].payload, i, "codeUnit")
                        /\ after[i].previousHash = IF i = 1 THEN <<>> ELSE after[i - 1].eventHash
      BY DEF Chained
    <2>1. CASE i > Len(base)
      BY <1>1, <2>1
    <2>2. CASE i <= Len(base)
      <3>1. i \in 1..Len(base) /\ (i # 1 => i - 1 \in 1..Len(base))
        BY <1>2, <2>2
      <3>2. after[i] = base[i] /\ (i # 1 => after[i - 1] = base[i - 1])
        BY <3>1, <1>1
      <3>3. Chained(base)
        BY DEF Whole
      <3> QED
        BY <3>1, <3>2, <3>3 DEF Chained
    <2> QED
      BY <1>2, <2>1, <2>2
  <1>7. Whole(after, known \union {r})
    BY <1>3, <1>4, <1>5, <1>6 DEF Whole
  <1> QED
    BY <1>7 DEF after

-----------------------------------------------------------------------------
(* The invariant holds at first and is kept by every action.               *)

LEMMA VisibleTyped ==
  ASSUME IInv, NEW c \in Clients, NEW s \in Streams
  PROVE  /\ streams[s] \in Seq(Events) /\ written[c][s] \in Seq(Events)
         /\ Visible(c, s) \in Seq(Events)
         /\ lock[s] # c => Visible(c, s) = streams[s] /\ On(s, commands \union recorded[c]) = On(s, commands)
  <1>1. streams[s] \in Seq(Events) /\ written[c][s] \in Seq(Events)
    BY DEF IInv, Types
  <1>2. Visible(c, s) \in Seq(Events)
    BY <1>1 DEF Visible
  <1>3. ASSUME lock[s] # c
        PROVE  Visible(c, s) = streams[s] /\ On(s, commands \union recorded[c]) = On(s, commands)
    <2>1. written[c][s] = <<>> /\ On(s, recorded[c]) = {}
      BY <1>3 DEF IInv, Owning
    <2>2. streams[s] \o <<>> = streams[s]
      BY <1>1, ConcatEmptySeq
    <2> QED
      BY <2>1, <2>2 DEF Visible, On
  <1> QED
    BY <1>1, <1>2, <1>3

LEMMA EmptyIsWhole == Whole(<<>>, {})
  BY DEF Whole, InPlace, Accounted, OnePerIdentity, Chained

LEMMA Initially == Init => IInv
  <1> SUFFICES ASSUME Init PROVE IInv
    OBVIOUS
  <1> USE DEF Init
  <1>1. Types
    BY DEF Types, Nothing
  <1>2. Progress
    BY DEF Progress
  <1>3. Owning
    BY DEF Owning, Nothing, On
  <1>4. Views
    <2> SUFFICES ASSUME NEW s \in Streams
                 PROVE  /\ Whole(streams[s], On(s, commands))
                        /\ \A c \in Clients : Whole(Visible(c, s), On(s, commands \union recorded[c]))
      BY DEF Views
    <2>1. streams[s] = <<>> /\ On(s, commands) = {}
      BY DEF Nothing, On
    <2>2. ASSUME NEW c \in Clients
          PROVE  Visible(c, s) = <<>> /\ On(s, commands \union recorded[c]) = {}
      <3>1. <<>> \o <<>> = <<>>
        BY ConcatEmptySeq, EmptySeq
      <3> QED
        BY <3>1 DEF Visible, Nothing, On
    <2> QED
      BY <2>1, <2>2, EmptyIsWhole
  <1>5. OutboxMatchesLog
    BY DEF OutboxMatchesLog, Intents, Nothing
  <1> QED
    BY <1>1, <1>2, <1>3, <1>4, <1>5 DEF IInv

LEMMA RollbackKeeps ==
  ASSUME IInv, NEW c \in Clients, Rollback(c)
  PROVE  IInv'
  <1> USE DEF Rollback, tableVars
  <1>1. Types'
    BY DEF IInv, Types, Nothing
  <1>2. Progress'
    BY DEF IInv, Types, Progress
  <1>3. Owning'
    <2> SUFFICES ASSUME NEW d \in Clients, NEW s \in Streams
                 PROVE  /\ lock'[s] # d => written'[d][s] = <<>> /\ On(s, recorded'[d]) = {}
                        /\ \A r \in On(s, recorded'[d]) : r.expectedVersion >= Len(streams'[s])
      BY DEF Owning, On
    <2>1. CASE d = c
      BY <2>1 DEF IInv, Types, Nothing, On
    <2>2. CASE d # c
      <3>1. written'[d] = written[d] /\ recorded'[d] = recorded[d] /\ (lock'[s] # d => lock[s] # d)
        BY <2>2 DEF IInv, Types
      <3> QED
        BY <3>1 DEF IInv, Owning
    <2> QED
      BY <2>1, <2>2
  <1>4. Views'
    <2> SUFFICES ASSUME NEW s \in Streams
                 PROVE  /\ Whole(streams'[s], On(s, commands'))
                        /\ \A d \in Clients : Whole(Visible(d, s)', On(s, commands' \union recorded'[d]))
      BY DEF Views, On
    <2>1. Whole(streams'[s], On(s, commands'))
      BY DEF IInv, Views
    <2>2. ASSUME NEW d \in Clients
          PROVE  Whole(Visible(d, s)', On(s, commands' \union recorded'[d]))
      <3>1. CASE d = c
        <4>1. written'[c][s] = <<>> /\ recorded'[c] = {}
          BY DEF IInv, Types, Nothing
        <4>2. streams[s] \o <<>> = streams[s]
          BY VisibleTyped, ConcatEmptySeq
        <4>3. Visible(c, s)' = streams[s] /\ commands' \union recorded'[c] = commands
          BY <4>1, <4>2 DEF Visible
        <4> QED
          BY <4>3, <3>1 DEF IInv, Views
      <3>2. CASE d # c
        <4>1. Visible(d, s)' = Visible(d, s) /\ recorded'[d] = recorded[d]
          BY <3>2 DEF Visible, IInv, Types
        <4> QED
          BY <4>1 DEF IInv, Views
      <3> QED
        BY <3>1, <3>2
    <2> QED
      BY <2>1, <2>2
  <1>5. OutboxMatchesLog'
    BY DEF IInv, OutboxMatchesLog
  <1> QED
    BY <1>1, <1>2, <1>3, <1>4, <1>5 DEF IInv

(* An action that changes neither tables, locks nor what transactions have *)
(* written keeps what relates them.                                        *)
LEMMA QuietKeeps ==
  ASSUME IInv, UNCHANGED <<tableVars, lock, written, recorded, acked>>, Types', Progress'
  PROVE  IInv'
  <1> USE DEF tableVars
  <1>1. Owning'
    BY DEF IInv, Owning, On
  <1>2. Views'
    BY DEF IInv, Views, Visible, On
  <1>3. OutboxMatchesLog'
    BY DEF IInv, OutboxMatchesLog
  <1> QED
    BY <1>1, <1>2, <1>3 DEF IInv

LEMMA TodoTyped ==
  ASSUME IInv, NEW c \in Clients, pc[c] \in {"prior", "lock"}
  PROVE  /\ todo[c] # <<>> /\ todo[c] \in Seq(Requests)
         /\ Head(todo[c]) \in Requests
         /\ Tail(todo[c]) \in Seq(Requests)
  BY DEF IInv, Types, Progress

LEMMA BeginKeeps ==
  ASSUME IInv, NEW c \in Clients, Begin(c)
  PROVE  IInv'
  <1>1. PICK transaction \in Transactions : todo' = [todo EXCEPT ![c] = transaction]
    BY DEF Begin
  <1>2. transaction \in Seq(Requests) /\ transaction # <<>>
    BY StoreAssumption
  <1>3. Types'
    BY <1>1, <1>2 DEF Begin, IInv, Types, tableVars
  <1>4. Progress'
    BY <1>1, <1>2 DEF Begin, IInv, Types, Progress, tableVars
  <1> QED
    BY <1>3, <1>4, QuietKeeps DEF Begin

LEMMA ReadPriorCommandKeeps ==
  ASSUME IInv, NEW c \in Clients, ReadPriorCommand(c)
  PROVE  IInv'
  <1> DEFINE r == Head(todo[c])
             prior == {q \in commands \union recorded[c] : SameKey(q, r)}
  <1>1. /\ todo[c] # <<>> /\ todo[c] \in Seq(Requests)
        /\ r \in Requests /\ Tail(todo[c]) \in Seq(Requests)
    BY TodoTyped DEF ReadPriorCommand
  <1>2. CASE Rollback(c)
    BY <1>2, RollbackKeeps
  <1>3. CASE /\ prior = {r}
             /\ RequestRan(c)
             /\ UNCHANGED <<tableVars, lock, written, recorded, acked>>
    <2>1. r \in commands \union recorded[c]
      BY <1>3
    <2> HIDE DEF prior
    <2>2. Types'
      BY <1>1, <1>3 DEF RequestRan, IInv, Types, tableVars
    <2>3. Progress'
      <3> SUFFICES ASSUME NEW d \in Clients
                   PROVE  /\ todo'[d] # <<>> <=> pc'[d] \in {"prior", "lock"}
                          /\ recorded'[d] \subseteq done'[d]
                          /\ done'[d] \subseteq commands' \union recorded'[d]
                          /\ pc'[d] = "idle" => done'[d] = {}
        BY DEF Progress
      <3>1. CASE d = c
        BY <1>1, <1>3, <2>1, <3>1 DEF RequestRan, IInv, Types, Progress, tableVars
      <3>2. CASE d # c
        BY <1>3, <3>2 DEF RequestRan, IInv, Types, Progress, tableVars
      <3> QED
        BY <3>1, <3>2
    <2> QED
      BY <1>3, <2>2, <2>3, QuietKeeps
  <1>4. CASE /\ pc' = [pc EXCEPT ![c] = "lock"]
             /\ UNCHANGED <<tableVars, lock, todo, done, written, recorded, acked>>
    <2>1. Types'
      BY <1>4 DEF IInv, Types, tableVars
    <2>2. Progress'
      BY <1>1, <1>4 DEF IInv, Types, Progress, tableVars
    <2> QED
      BY <1>4, <2>1, <2>2, QuietKeeps
  <1> QED
    BY <1>2, <1>3, <1>4 DEF ReadPriorCommand

LEMMA Associates ==
  ASSUME NEW a \in Seq(Events), NEW b \in Seq(Events), NEW e \in Seq(Events)
  PROVE  (a \o b) \o e = a \o (b \o e)
  <1> DEFINE S == Events
  <1>1. a \in Seq(S) /\ b \in Seq(S) /\ e \in Seq(S)
    OBVIOUS
  <1> HIDE DEF S
  <1> QED
    BY <1>1, ConcatAssociative

(* The step by which c writes request r to stream s of which it sees base. *)
Writes(c, r, s, base) ==
  /\ pc[c] = "lock"
  /\ r = Head(todo[c]) /\ r.stream = s /\ base = Visible(c, s)
  /\ lock[s] \in {NoClient, c}
  /\ VersionMatches(c, r) /\ ~CommandTaken(c, r)
  /\ lock' = [lock EXCEPT ![s] = c]
  /\ written' = [written EXCEPT ![c][s] = @ \o Envelopes(base, r)]
  /\ recorded' = [recorded EXCEPT ![c] = @ \union {r}]
  /\ RequestRan(c)
  /\ UNCHANGED <<tableVars, acked>>

LEMMA WriteKeeps ==
  ASSUME IInv, NEW c \in Clients, NEW r \in Requests, NEW s \in Streams, NEW base,
         Writes(c, r, s, base)
  PROVE  IInv'
  <1>w. r.stream = s /\ base = Visible(c, s) /\ r = Head(todo[c]) /\ lock[s] \in {NoClient, c}
    BY DEF Writes
  <1>a. /\ VersionMatches(c, r) /\ ~CommandTaken(c, r)
        /\ lock' = [lock EXCEPT ![s] = c]
        /\ written' = [written EXCEPT ![c][s] = @ \o Envelopes(base, r)]
        /\ recorded' = [recorded EXCEPT ![c] = @ \union {r}]
        /\ RequestRan(c)
        /\ UNCHANGED <<tableVars, acked>>
    BY DEF Writes
  <1>r. /\ todo[c] # <<>> /\ todo[c] \in Seq(Requests)
        /\ r \in Requests /\ Tail(todo[c]) \in Seq(Requests)
        /\ s \in Streams
    BY TodoTyped DEF Writes
  <1>1. /\ base \in Seq(Events) /\ streams[s] \in Seq(Events) /\ written[c][s] \in Seq(Events)
        /\ Envelopes(base, r) \in Seq(Events)
    BY <1>r, <1>w, VisibleTyped, EnvelopesTyped
  <1>2. /\ written[c][s] \o Envelopes(base, r) \in Seq(Events)
        /\ streams[s] \o (written[c][s] \o Envelopes(base, r)) = base \o Envelopes(base, r)
    <2> DEFINE e == Envelopes(base, r)
    <2>1. e \in Seq(Events)
      BY <1>1
    <2> HIDE DEF e
    <2>2. (streams[s] \o written[c][s]) \o e = streams[s] \o (written[c][s] \o e)
      BY <1>1, <2>1, Associates
    <2>3. written[c][s] \o e \in Seq(Events)
      BY <1>1, <2>1
    <2>4. base = streams[s] \o written[c][s]
      BY <1>w DEF Visible
    <2>5. written[c][s] \o e \in Seq(Events) /\ streams[s] \o (written[c][s] \o e) = base \o e
      BY <2>2, <2>3, <2>4
    <2> QED
      BY <2>5 DEF e
  <1>3. /\ written'[c][s] = written[c][s] \o Envelopes(base, r)
        /\ \A t \in Streams \ {s} : written'[c][t] = written[c][t]
        /\ \A d \in Clients \ {c} : written'[d] = written[d] /\ recorded'[d] = recorded[d]
        /\ recorded'[c] = recorded[c] \union {r}
        /\ written' \in [Clients -> [Streams -> Seq(Events)]]
        /\ lock'[s] = c
        /\ \A t \in Streams \ {s} : lock'[t] = lock[t]
        /\ streams' = streams /\ commands' = commands /\ outbox' = outbox /\ acked' = acked
    <2> DEFINE e == Envelopes(base, r)
    <2>1. written[c][s] \o e \in Seq(Events)
      BY <1>2
    <2> HIDE DEF e
    <2>2. written' = [written EXCEPT ![c][s] = @ \o e]
      BY <1>a DEF e
    <2>3. written'[c][s] = written[c][s] \o e
      BY <1>r, <2>2 DEF IInv, Types
    <2>4. written' \in [Clients -> [Streams -> Seq(Events)]]
      BY <1>r, <2>1, <2>2 DEF IInv, Types
    <2> QED
      BY <1>r, <1>a, <2>2, <2>3, <2>4 DEF IInv, Types, tableVars, e
  <1>4. Types'
    BY <1>r, <1>a, <1>w, <1>3 DEF RequestRan, IInv, Types, tableVars
  <1>5. Progress'
    <2> SUFFICES ASSUME NEW d \in Clients
                 PROVE  /\ todo'[d] # <<>> <=> pc'[d] \in {"prior", "lock"}
                        /\ recorded'[d] \subseteq done'[d]
                        /\ done'[d] \subseteq commands' \union recorded'[d]
                        /\ pc'[d] = "idle" => done'[d] = {}
      BY DEF Progress
    <2>1. CASE d = c
      BY <1>r, <1>a, <1>w, <1>3, <2>1 DEF RequestRan, IInv, Types, Progress
    <2>2. CASE d # c
      BY <1>a, <1>3, <2>2 DEF RequestRan, IInv, Types, Progress
    <2> QED
      BY <2>1, <2>2
  <1>6. Owning'
    <2> SUFFICES ASSUME NEW d \in Clients, NEW t \in Streams
                 PROVE  /\ lock'[t] # d => written'[d][t] = <<>> /\ On(t, recorded'[d]) = {}
                        /\ \A q \in On(t, recorded'[d]) : q.expectedVersion >= Len(streams'[t])
      BY DEF Owning, On
    <2>1. CASE d = c /\ t = s
      <3>1. lock'[t] = d
        BY <1>3, <2>1
      <3>2. ASSUME NEW q \in On(s, recorded'[c])
            PROVE  q.expectedVersion >= Len(streams'[s])
        <4>1. CASE q = r
          <5>1. q.expectedVersion = Len(base)
            BY <1>a, <1>w, <4>1 DEF VersionMatches
          <5>2. Len(base) = Len(streams[s]) + Len(written[c][s])
            BY <1>w, <1>1 DEF Visible
          <5>3. Len(streams[s]) \in Nat /\ Len(written[c][s]) \in Nat
            BY <1>1
          <5>4. streams' = streams
            BY <1>3
          <5>5. q.expectedVersion = Len(streams[s]) + Len(written[c][s])
            BY <5>1, <5>2
          <5>6. q.expectedVersion >= Len(streams[s])
            <6> DEFINE m == Len(streams[s])
                       n == Len(written[c][s])
                       v == q.expectedVersion
            <6>1. m \in Nat /\ n \in Nat /\ v = m + n
              BY <5>3, <5>5
            <6> HIDE DEF m, n, v
            <6>2. v >= m
              BY <6>1
            <6> QED
              BY <6>2 DEF m, v
          <5> QED
            BY <5>4, <5>6
        <4>2. CASE q # r
          BY <1>3, <4>2, <3>2, <1>r DEF IInv, Owning, On
        <4> QED
          BY <4>1, <4>2
      <3> QED
        BY <3>1, <3>2, <2>1
    <2>2. CASE d = c /\ t # s
      <3>1. recorded'[c] = recorded[c] \union {r} /\ On(t, {r}) = {}
        BY <1>w, <1>3, <2>2 DEF On
      <3>2. On(t, recorded'[d]) = On(t, recorded[d])
        BY <2>2, <3>1 DEF On
      <3> QED
        BY <1>r, <1>3, <2>2, <3>2 DEF IInv, Owning
    <2>3. CASE d # c
      <3>1. lock[t] = d => lock'[t] = d
        BY <1>w, <1>3, <2>3, StoreAssumption
      <3>2. written'[d] = written[d] /\ recorded'[d] = recorded[d]
        BY <1>3, <2>3
      <3>3. /\ lock[t] # d => written[d][t] = <<>> /\ On(t, recorded[d]) = {}
            /\ \A q \in On(t, recorded[d]) : q.expectedVersion >= Len(streams[t])
        BY DEF IInv, Owning
      <3>4. lock'[t] # d => written'[d][t] = <<>> /\ On(t, recorded'[d]) = {}
        BY <3>1, <3>2, <3>3
      <3>5. streams' = streams
        BY <1>3
      <3>6. \A q \in On(t, recorded'[d]) : q.expectedVersion >= Len(streams'[t])
        BY <3>2, <3>3, <3>5
      <3> QED
        BY <3>4, <3>6
    <2> QED
      BY <2>1, <2>2, <2>3
  <1>7. Views'
    <2> SUFFICES ASSUME NEW t \in Streams, NEW d \in Clients
                 PROVE  /\ Whole(streams'[t], On(t, commands'))
                        /\ Whole(Visible(d, t)', On(t, commands' \union recorded'[d]))
      <3>1. ASSUME NEW t \in Streams
            PROVE  Whole(streams'[t], On(t, commands'))
        BY <1>3 DEF IInv, Views
      <3> QED
        BY <3>1 DEF Views, On
    <2>1. Whole(streams'[t], On(t, commands'))
      BY <1>3 DEF IInv, Views
    <2>2. CASE d = c /\ t = s
      <3> DEFINE known == On(s, commands \union recorded[c])
      <3>1. Whole(base, known)
        BY <1>r, <1>w DEF IInv, Views
      <3>2. known \in SUBSET Requests
        BY DEF On, IInv, Types
      <3>3. \A q \in known : q.command # r.command
        BY <1>a, <1>w DEF CommandTaken, SameKey, On
      <3>4. r.expectedVersion = Len(base)
        BY <1>a, <1>w DEF VersionMatches
      <3>5. Whole(base \o Envelopes(base, r), known \union {r})
        <4> HIDE DEF known
        <4> QED
          BY <1>r, <1>1, <3>1, <3>2, <3>3, <3>4, AppendKeepsWhole
      <3>6. Visible(c, s)' = base \o Envelopes(base, r)
        <4>1. streams' = streams /\ written'[c][s] = written[c][s] \o Envelopes(base, r)
          BY <1>3
        <4>2. streams[s] \o (written[c][s] \o Envelopes(base, r)) = base \o Envelopes(base, r)
          BY <1>2
        <4>3. Visible(c, s)' = streams'[s] \o written'[c][s]
          BY DEF Visible
        <4> QED
          BY <4>1, <4>2, <4>3
      <3>7. On(s, commands' \union recorded'[c]) = known \union {r}
        BY <1>w, <1>3 DEF On
      <3> QED
        BY <2>1, <2>2, <3>5, <3>6, <3>7
    <2>3. CASE d = c /\ t # s
      <3>1. Visible(d, t)' = Visible(d, t)
        BY <1>3, <2>3 DEF Visible
      <3>2. On(t, commands' \union recorded'[d]) = On(t, commands \union recorded[d])
        BY <1>w, <1>3, <2>3 DEF On
      <3> QED
        BY <2>1, <3>1, <3>2 DEF IInv, Views
    <2>4. CASE d # c
      <3>1. Visible(d, t)' = Visible(d, t) /\ recorded'[d] = recorded[d]
        BY <1>3, <2>4 DEF Visible
      <3> QED
        BY <1>3, <2>1, <3>1 DEF IInv, Views
    <2> QED
      BY <2>1, <2>2, <2>3, <2>4
  <1>8. OutboxMatchesLog' /\ acked' \subseteq commands'
    BY <1>3 DEF IInv, OutboxMatchesLog
  <1> QED
    BY <1>4, <1>5, <1>6, <1>7, <1>8 DEF IInv

LEMMA LockAndWriteKeeps ==
  ASSUME IInv, NEW c \in Clients, LockAndWrite(c)
  PROVE  IInv'
  <1>1. PICK r \in Requests : r = Head(todo[c])
    BY TodoTyped DEF LockAndWrite
  <1>2. CASE Rollback(c)
    BY <1>2, RollbackKeeps
  <1>3. CASE ~Rollback(c)
    <2>1. PICK s \in Streams : s = r.stream
      BY RequestTyped
    <2>2. PICK base : base = Visible(c, s)
      OBVIOUS
    <2>3. Writes(c, r, s, base)
      BY <1>1, <1>3, <2>1, <2>2 DEF LockAndWrite, LockFree, Writes
    <2> QED
      BY <1>1, <2>1, <2>2, <2>3, WriteKeeps
  <1> QED
    BY <1>2, <1>3

(* The outbox rows of a sequence of events put together from two.          *)
LEMMA IntentsOfBoth ==
  ASSUME NEW s \in Streams, NEW a \in Seq(Events), NEW b \in Seq(Events)
  PROVE  Intents(s, a \o b) = Intents(s, a) \union Intents(s, b)
  <1>0. Len(a) \in Nat /\ Len(b) \in Nat
    OBVIOUS
  <1>1. /\ a \o b \in Seq(Events)
        /\ Len(a \o b) = Len(a) + Len(b)
        /\ \A i \in 1..Len(a) : (a \o b)[i] = a[i]
        /\ \A i \in 1..Len(b) : (a \o b)[Len(a) + i] = b[i]
    OBVIOUS
  <1>2. ASSUME NEW i \in 1..Len(a \o b), (a \o b)[i].payload \in Publishing
        PROVE  <<s, (a \o b)[i].version>> \in Intents(s, a) \union Intents(s, b)
    <2>1. CASE i <= Len(a)
      BY <1>0, <1>1, <1>2, <2>1 DEF Intents
    <2>2. CASE i > Len(a)
      <3> DEFINE j == i - Len(a)
      <3>1. j \in 1..Len(b) /\ Len(a) + j = i
        BY <1>0, <1>1, <2>2
      <3> HIDE DEF j
      <3>2. (a \o b)[i] = b[j]
        BY <1>1, <3>1
      <3> QED
        BY <1>2, <3>1, <3>2 DEF Intents
    <2> QED
      BY <1>0, <1>1, <2>1, <2>2
  <1>3. ASSUME NEW i \in 1..Len(a), a[i].payload \in Publishing
        PROVE  <<s, a[i].version>> \in Intents(s, a \o b)
    <2>1. i \in 1..Len(a \o b) /\ (a \o b)[i] = a[i]
      BY <1>0, <1>1
    <2> QED
      BY <1>3, <2>1 DEF Intents
  <1>4. ASSUME NEW i \in 1..Len(b), b[i].payload \in Publishing
        PROVE  <<s, b[i].version>> \in Intents(s, a \o b)
    <2>1. Len(a) + i \in 1..Len(a \o b) /\ (a \o b)[Len(a) + i] = b[i]
      BY <1>0, <1>1
    <2> QED
      BY <1>4, <2>1 DEF Intents
  <1> HIDE <1>1
  <1>5. Intents(s, a \o b) \subseteq Intents(s, a) \union Intents(s, b)
    BY <1>2 DEF Intents
  <1>6. Intents(s, a) \subseteq Intents(s, a \o b)
    BY <1>3 DEF Intents
  <1>7. Intents(s, b) \subseteq Intents(s, a \o b)
    BY <1>4 DEF Intents
  <1> QED
    BY <1>5, <1>6, <1>7

LEMMA CommitKeeps ==
  ASSUME IInv, NEW c \in Clients, Commit(c)
  PROVE  IInv'
  <1>1. /\ streams' = [s \in Streams |-> Visible(c, s)]
        /\ commands' = commands \union recorded[c]
        /\ outbox' = outbox \union CommittedIntents(c)
        /\ acked' \in {acked, acked \union done[c]}
        /\ lock' = [s \in Streams |-> IF lock[s] = c THEN NoClient ELSE lock[s]]
        /\ pc[c] = "commit" /\ pc' = [pc EXCEPT ![c] = "idle"]
        /\ done' = [done EXCEPT ![c] = {}]
        /\ written' = [written EXCEPT ![c] = Nothing]
        /\ recorded' = [recorded EXCEPT ![c] = {}]
        /\ todo' = todo
    BY DEF Commit
  <1>2. /\ \A s \in Streams : streams'[s] = Visible(c, s) /\ written'[c][s] = <<>>
        /\ recorded'[c] = {}
        /\ \A d \in Clients \ {c} : written'[d] = written[d] /\ recorded'[d] = recorded[d]
    BY <1>1 DEF IInv, Types, Nothing
  <1>3. Types'
    <2>1. streams' \in [Streams -> Seq(Events)]
      BY <1>1, VisibleTyped
    <2>2. Nothing \in [Streams -> Seq(Events)]
      BY DEF Nothing
    <2>3. written' \in [Clients -> [Streams -> Seq(Events)]]
      BY <1>1, <2>2 DEF IInv, Types
    <2> QED
      BY <1>1, <2>1, <2>3 DEF IInv, Types
  <1>4. Progress'
    <2> SUFFICES ASSUME NEW d \in Clients
                 PROVE  /\ todo'[d] # <<>> <=> pc'[d] \in {"prior", "lock"}
                        /\ recorded'[d] \subseteq done'[d]
                        /\ done'[d] \subseteq commands' \union recorded'[d]
                        /\ pc'[d] = "idle" => done'[d] = {}
      BY DEF Progress
    <2>1. CASE d = c
      BY <1>1, <2>1 DEF IInv, Types, Progress
    <2>2. CASE d # c
      BY <1>1, <2>2 DEF IInv, Types, Progress
    <2> QED
      BY <2>1, <2>2
  <1>5. Owning'
    <2> SUFFICES ASSUME NEW d \in Clients, NEW s \in Streams
                 PROVE  /\ lock'[s] # d => written'[d][s] = <<>> /\ On(s, recorded'[d]) = {}
                        /\ \A r \in On(s, recorded'[d]) : r.expectedVersion >= Len(streams'[s])
      BY DEF Owning, On
    <2>1. CASE d = c
      BY <1>2, <2>1 DEF On
    <2>2. CASE d # c
      <3>1. written'[d] = written[d] /\ recorded'[d] = recorded[d]
        BY <1>2, <2>2
      <3>2. lock'[s] # d => lock[s] # d
        BY <1>1, <2>2
      <3>3. ASSUME NEW r \in On(s, recorded[d])
            PROVE  r.expectedVersion >= Len(streams'[s])
        <4>1. lock[s] = d
          BY <3>3 DEF IInv, Owning
        <4>2. streams'[s] = streams[s]
          BY <1>2, <2>2, <4>1, VisibleTyped
        <4> QED
          BY <3>3, <4>2 DEF IInv, Owning
      <3> QED
        BY <3>1, <3>2, <3>3 DEF IInv, Owning
    <2> QED
      BY <2>1, <2>2
  <1>6. Views'
    <2>1. ASSUME NEW s \in Streams
          PROVE  Whole(streams'[s], On(s, commands'))
      BY <1>1, <1>2 DEF IInv, Views
    <2>2. ASSUME NEW s \in Streams, NEW d \in Clients
          PROVE  Whole(Visible(d, s)', On(s, commands' \union recorded'[d]))
      <3>0. streams'[s] \in Seq(Events)
        BY <1>3 DEF Types
      <3>1. CASE written'[d][s] = <<>> /\ On(s, recorded'[d]) = {}
        <4>1. streams'[s] \o <<>> = streams'[s]
          BY <3>0, ConcatEmptySeq
        <4>2. Visible(d, s)' = streams'[s]
          BY <3>1, <4>1 DEF Visible
        <4>3. On(s, commands' \union recorded'[d]) = On(s, commands')
          BY <3>1 DEF On
        <4> QED
          BY <2>1, <4>2, <4>3
      <3>2. CASE d # c /\ lock[s] = d
        <4>1. streams'[s] = streams[s] /\ On(s, commands') = On(s, commands)
          BY <1>1, <1>2, <3>2, VisibleTyped
        <4>2. written'[d] = written[d] /\ recorded'[d] = recorded[d]
          BY <1>2, <3>2
        <4>3. Visible(d, s)' = Visible(d, s)
          BY <4>1, <4>2 DEF Visible
        <4>4. On(s, commands' \union recorded'[d]) = On(s, commands \union recorded[d])
          BY <4>1, <4>2 DEF On
        <4> QED
          BY <4>3, <4>4 DEF IInv, Views
      <3> QED
        BY <1>2, <3>1, <3>2 DEF IInv, Owning, On
    <2> QED
      BY <2>1, <2>2 DEF Views, On
  <1>7. OutboxMatchesLog'
    <2>1. ASSUME NEW s \in Streams
          PROVE  Intents(s, streams'[s]) = Intents(s, streams[s]) \union Intents(s, written[c][s])
      <3>1. streams'[s] = streams[s] \o written[c][s]
        BY <1>2 DEF Visible
      <3>2. streams[s] \in Seq(Events) /\ written[c][s] \in Seq(Events)
        BY VisibleTyped
      <3>3. Intents(s, streams[s] \o written[c][s]) = Intents(s, streams[s]) \union Intents(s, written[c][s])
        BY <3>2, IntentsOfBoth
      <3> QED
        BY <3>1, <3>3
    <2>2. ASSUME NEW row
          PROVE  row \in outbox' <=> \E s \in Streams : row \in Intents(s, streams'[s])
      <3>1. row \in outbox <=> \E s \in Streams : row \in Intents(s, streams[s])
        BY DEF IInv, OutboxMatchesLog
      <3>2. row \in CommittedIntents(c) <=> \E s \in Streams : row \in Intents(s, written[c][s])
        BY DEF CommittedIntents
      <3> QED
        BY <1>1, <2>1, <3>1, <3>2
    <2>3. ASSUME NEW row
          PROVE  row \in UNION {Intents(s, streams'[s]) : s \in Streams} <=> \E s \in Streams : row \in Intents(s, streams'[s])
      OBVIOUS
    <2>4. outbox' = UNION {Intents(s, streams'[s]) : s \in Streams}
      BY <2>2, <2>3
    <2> QED
      BY <2>4 DEF OutboxMatchesLog, Intents
  <1>8. acked' \subseteq commands'
    BY <1>1 DEF IInv, Progress
  <1> QED
    BY <1>3, <1>4, <1>5, <1>6, <1>7, <1>8 DEF IInv

LEMMA StepKeeps ==
  ASSUME IInv, [Next]_vars
  PROVE  IInv'
  <1>1. CASE UNCHANGED vars
    <2>1. Types' /\ Progress'
      BY <1>1 DEF vars, tableVars, txVars, IInv, Types, Progress
    <2> QED
      BY <1>1, <2>1, QuietKeeps DEF vars, txVars
  <1>2. ASSUME NEW c \in Clients, Begin(c) \/ Step(c) \/ Disconnect(c) \/ DetectDeadlock(c)
        PROVE  IInv'
    BY <1>2, BeginKeeps, ReadPriorCommandKeeps, LockAndWriteKeeps, CommitKeeps, RollbackKeeps
       DEF Step, Disconnect, DetectDeadlock
  <1> QED
    BY <1>1, <1>2 DEF Next

(* The invariant: in every state each committed stream, and each stream as *)
(* an open transaction sees it, fits the requests recorded for it.         *)
THEOREM StoreInvariant == Spec => []IInv
  <1>1. Init => IInv
    BY Initially
  <1>2. IInv /\ [Next]_vars => IInv'
    BY StepKeeps
  <1> QED
    BY <1>1, <1>2, PTL DEF Spec

-----------------------------------------------------------------------------
(* What it says of the committed rows.                                     *)

LEMMA CommittedWhole ==
  ASSUME IInv, NEW s \in Streams
  PROVE  /\ streams[s] \in Seq(Events)
         /\ Whole(streams[s], On(s, commands))
         /\ \A r \in On(s, commands) : r \in commands /\ r \in Requests /\ r.stream = s
  BY DEF IInv, Views, Types, On

(* postgres-event-store.ts, append and appendTransaction: whatever is      *)
(* rolled back or lost between two statements of any number of clients,    *)
(* events, command rows and outbox rows fit together, and what a client    *)
(* was told is stored is stored.                                           *)
THEOREM StoreStaysWhole == Spec => []StoreIsWhole
  <1>1. IInv => StoreIsWhole
    <2> SUFFICES ASSUME IInv PROVE StoreIsWhole
      OBVIOUS
    <2>1. TypeOK
      <3>1. ASSUME NEW s \in Streams, NEW i \in 1..Len(streams[s])
            PROVE  streams[s][i].payload \in Payloads
        <4>1. streams[s][i] \in Events
          BY CommittedWhole
        <4> QED
          BY <4>1 DEF Events
      <3> QED
        BY <3>1 DEF TypeOK, IInv, Types, Progress
    <2>2. EveryEventHasItsCommand
      <3> SUFFICES ASSUME NEW s \in Streams, NEW i \in 1..Len(streams[s])
                   PROVE  \E r \in commands :
                            /\ r.stream = s /\ r.command = streams[s][i].command
                            /\ i \in Span(r) /\ r.events[i - r.expectedVersion] = streams[s][i].payload
                            /\ \A q \in commands : SameKey(q, r) => q = r
        BY DEF EveryEventHasItsCommand
      <3>1. PICK r \in On(s, commands) : HoldsEvent(r, i, streams[s][i])
        BY CommittedWhole DEF Whole, Accounted
      <3>2. r \in commands /\ r.stream = s
        BY <3>1, CommittedWhole
      <3>3. ASSUME NEW q \in commands, SameKey(q, r)
            PROVE  q = r
        <4>1. q \in On(s, commands) /\ q.command = r.command
          BY <3>2, <3>3 DEF SameKey, On
        <4> QED
          BY <4>1, <3>1, CommittedWhole DEF Whole, OnePerIdentity
      <3> QED
        BY <3>1, <3>2, <3>3 DEF HoldsEvent
    <2>3. AckedIsDurable
      <3> SUFFICES ASSUME NEW r \in acked
                   PROVE  /\ r \in commands
                          /\ \A i \in Span(r) : /\ i \in 1..Len(streams[r.stream])
                                                /\ streams[r.stream][i].command = r.command
        BY DEF AckedIsDurable
      <3>1. r \in commands /\ r \in Requests
        BY DEF IInv, Types
      <3>2. r.stream \in Streams /\ r \in On(r.stream, commands)
        BY <3>1, RequestTyped DEF On
      <3>3. InPlace(streams[r.stream], On(r.stream, commands))
        BY <3>2, CommittedWhole DEF Whole
      <3> QED
        BY <3>1, <3>2, <3>3 DEF InPlace, HoldsEvent
    <2>4. OutboxMatchesLog
      BY DEF IInv
    <2> QED
      BY <2>1, <2>2, <2>3, <2>4 DEF StoreIsWhole
  <1> QED
    BY <1>1, StoreInvariant, PTL

(* appendCore: whatever the payloads are, every committed stream numbers   *)
(* its events without a gap and links each to the hash of the one before,  *)
(* all of them computed over the code-unit order.                          *)
StreamsAreChained == \A s \in Streams : Chained(streams[s])

THEOREM StreamsStayChained == Spec => []StreamsAreChained
  <1>1. IInv => StreamsAreChained
    BY CommittedWhole DEF StreamsAreChained, Whole
  <1> QED
    BY <1>1, StoreInvariant, PTL

(* verifyEventChain: whichever payloads have keys that localeCompare and   *)
(* the code-unit order put in different orders, a committed stream is      *)
(* refused if and only if it holds an event with one of them; every other  *)
(* one can be replayed.                                                    *)
THEOREM StreamsReplayUnlessKeyOrderMatters == Spec => []OnlyKeyOrderStopsReplay
  <1>1. ASSUME NEW k, NEW p, NEW v
        PROVE  Digest(k, p, v, "codeUnit") = Digest(k, p, v, "locale") <=> p \notin LocaleSensitive
    BY DEF Digest, Serialise
  <1>2. ASSUME StreamsAreChained, NEW s \in Streams
        PROVE  VerifyEventChain(streams[s]) <=> ~KeyOrderMatters(streams[s])
    <2>1. Chained(streams[s])
      BY <1>2 DEF StreamsAreChained
    <2>2. ASSUME NEW i \in 1..Len(streams[s])
          PROVE  /\ streams[s][i].version = i
                 /\ streams[s][i].previousHash = IF i = 1 THEN <<>> ELSE streams[s][i - 1].eventHash
                 /\ streams[s][i].eventHash = Digest(streams[s][i].command, streams[s][i].payload,
                                                     streams[s][i].version, "locale")
                      <=> streams[s][i].payload \notin LocaleSensitive
      BY <1>1, <2>1 DEF Chained
    <2> QED
      BY <2>2 DEF VerifyEventChain, KeyOrderMatters
  <1>3. StreamsAreChained => OnlyKeyOrderStopsReplay
    BY <1>2 DEF OnlyKeyOrderStopsReplay
  <1> QED
    BY <1>3, StreamsStayChained, PTL

-----------------------------------------------------------------------------
(* The promised log.  Only COMMIT changes it, and in one step of it.       *)

LogOf(events) == [i \in 1..Len(events) |-> [command |-> events[i].command, payload |-> events[i].payload]]
PromisedLog == [s \in Streams |-> LogOf(streams[s])]

LEMMA LogOfFacts ==
  ASSUME NEW events \in Seq(Events)
  PROVE  /\ Len(LogOf(events)) = Len(events) /\ Len(events) \in Nat
         /\ DOMAIN LogOf(events) = 1..Len(events)
         /\ \A i \in 1..Len(events) : LogOf(events)[i] = [command |-> events[i].command, payload |-> events[i].payload]
  BY DEF LogOf

LEMMA ConcatExtends ==
  ASSUME NEW a \in Seq(Events), NEW b \in Seq(Events)
  PROVE  /\ a \o b \in Seq(Events)
         /\ Len(a) <= Len(a \o b)
         /\ \A i \in 1..Len(a) : i \in 1..Len(a \o b) /\ (a \o b)[i] = a[i]
  <1>1. /\ Len(a) \in Nat /\ Len(b) \in Nat
        /\ a \o b \in Seq(Events)
        /\ Len(a \o b) = Len(a) + Len(b)
        /\ \A i \in 1..Len(a) : (a \o b)[i] = a[i]
    OBVIOUS
  <1> QED
    BY <1>1

LEMMA CommitIsOneStep ==
  ASSUME IInv, IInv', NEW c \in Clients, Commit(c)
  PROVE  Log!Apply
  <1> DEFINE fresh == commands' \ commands
  <1>1. /\ \A s \in Streams : streams'[s] = streams[s] \o written[c][s]
        /\ commands' = commands \union recorded[c]
    BY DEF Commit, Visible
  <1>2. ASSUME NEW s \in Streams
        PROVE  /\ streams[s] \in Seq(Events) /\ streams'[s] \in Seq(Events)
               /\ Len(streams[s]) <= Len(streams'[s])
               /\ \A i \in 1..Len(streams[s]) : i \in 1..Len(streams'[s]) /\ streams'[s][i] = streams[s][i]
    <2>1. streams[s] \in Seq(Events) /\ written[c][s] \in Seq(Events)
      BY VisibleTyped
    <2>2. streams'[s] = streams[s] \o written[c][s]
      BY <1>1
    <2>3. /\ streams[s] \o written[c][s] \in Seq(Events)
          /\ Len(streams[s]) <= Len(streams[s] \o written[c][s])
          /\ \A i \in 1..Len(streams[s]) :
               /\ i \in 1..Len(streams[s] \o written[c][s])
               /\ (streams[s] \o written[c][s])[i] = streams[s][i]
      BY <2>1, ConcatExtends
    <2> QED
      BY <2>1, <2>2, <2>3, Zenon
  <1>3. ASSUME NEW s \in Streams
        PROVE  /\ PromisedLog[s] = LogOf(streams[s])
               /\ PromisedLog'[s] = LogOf(streams'[s])
    BY DEF PromisedLog, LogOf
  <1>4. ASSUME NEW r \in fresh
        PROVE  /\ r \in recorded[c] /\ r \in Requests /\ r.stream \in Streams
               /\ r \in On(r.stream, commands')
    BY <1>1, RequestTyped DEF On, IInv, Types
  <1>5. ASSUME NEW s \in Streams
        PROVE  /\ Whole(streams'[s], On(s, commands'))
               /\ Whole(streams[s], On(s, commands))
    <2>1. Whole(streams'[s], On(s, commands'))
      BY DEF IInv, Views, On
    <2> QED
      BY <2>1, CommittedWhole
  <1>6. ASSUME NEW r \in fresh, NEW q \in commands', q.stream = r.stream, q.command = r.command
        PROVE  q = r
    <2>1. q \in On(r.stream, commands')
      BY <1>6 DEF On
    <2> QED
      BY <1>4, <1>5, <1>6, <2>1 DEF Whole, OnePerIdentity
  <1>7. ASSUME NEW r \in fresh
        PROVE  r.expectedVersion >= Len(streams[r.stream])
    <2>1. r \in On(r.stream, recorded[c])
      BY <1>4 DEF On
    <2> QED
      BY <1>4, <2>1 DEF IInv, Owning
  <1>8. ASSUME NEW r \in fresh, NEW i \in Span(r)
        PROVE  /\ i \in 1..Len(streams'[r.stream])
               /\ streams'[r.stream][i].command = r.command
               /\ streams'[r.stream][i].payload = r.events[i - r.expectedVersion]
    BY <1>4, <1>5 DEF Whole, InPlace, HoldsEvent
  <1>9. ASSUME NEW s \in Streams, NEW i \in (Len(streams[s]) + 1)..Len(streams'[s])
        PROVE  \E r \in fresh : r.stream = s /\ i \in Span(r)
    <2>0. Len(streams[s]) \in Nat /\ Len(streams'[s]) \in Nat
      BY <1>2
    <2>1. i \in 1..Len(streams'[s]) /\ i \notin 1..Len(streams[s])
      BY <2>0
    <2>2. PICK r \in On(s, commands') : HoldsEvent(r, i, streams'[s][i])
      BY <2>1, <1>5 DEF Whole, Accounted
    <2>3. r \in commands' /\ r.stream = s /\ i \in Span(r)
      BY <2>2 DEF On, HoldsEvent
    <2>4. ASSUME r \in commands
          PROVE  FALSE
      <3>1. r \in On(s, commands)
        BY <2>3, <2>4 DEF On
      <3>2. i \in 1..Len(streams[s])
        BY <3>1, <2>3, <1>5 DEF Whole, InPlace
      <3> QED
        BY <2>1, <3>2
    <2> QED
      BY <2>3, <2>4
  <1>10. ASSUME NEW r \in fresh
         PROVE  r.expectedVersion >= Len(PromisedLog[r.stream])
    BY <1>2, <1>3, <1>4, <1>7, LogOfFacts
  <1>11. ASSUME NEW r \in fresh, NEW i \in Span(r)
         PROVE  /\ i \in DOMAIN PromisedLog'[r.stream]
                /\ PromisedLog'[r.stream][i] = [command |-> r.command, payload |-> r.events[i - r.expectedVersion]]
    BY <1>2, <1>3, <1>4, <1>8, LogOfFacts
  <1>12. ASSUME NEW s \in Streams
         PROVE  /\ Len(PromisedLog[s]) = Len(streams[s])
                /\ Len(PromisedLog'[s]) = Len(streams'[s])
                /\ Len(PromisedLog[s]) <= Len(PromisedLog'[s])
                /\ \A i \in 1..Len(PromisedLog[s]) : PromisedLog'[s][i] = PromisedLog[s][i]
    <2>1. /\ Len(PromisedLog[s]) = Len(streams[s])
          /\ Len(PromisedLog'[s]) = Len(streams'[s])
      BY <1>2, <1>3, LogOfFacts
    <2>2. ASSUME NEW i \in 1..Len(streams[s])
          PROVE  PromisedLog'[s][i] = PromisedLog[s][i]
      <3>1. i \in 1..Len(streams'[s]) /\ streams'[s][i] = streams[s][i]
        BY <1>2
      <3>2. PromisedLog[s][i] = [command |-> streams[s][i].command, payload |-> streams[s][i].payload]
        BY <1>2, <1>3, LogOfFacts
      <3>3. PromisedLog'[s][i] = [command |-> streams'[s][i].command, payload |-> streams'[s][i].payload]
        BY <1>2, <1>3, <3>1, LogOfFacts
      <3> QED
        BY <3>1, <3>2, <3>3
    <2> QED
      BY <1>2, <2>1, <2>2
  <1> HIDE DEF fresh
  <1>13. /\ commands \subseteq commands'
         /\ \A r \in fresh : \A q \in commands' : Log!SameKey(q, r) => q = r
         /\ \A r \in fresh : r.expectedVersion >= Len(PromisedLog[r.stream])
         /\ \A r \in fresh : \A i \in Log!Span(r) :
              /\ i \in DOMAIN PromisedLog'[r.stream]
              /\ PromisedLog'[r.stream][i] = [command |-> r.command, payload |-> r.events[i - r.expectedVersion]]
         /\ \A s \in Streams :
              /\ Len(PromisedLog[s]) <= Len(PromisedLog'[s])
              /\ \A i \in 1..Len(PromisedLog[s]) : PromisedLog'[s][i] = PromisedLog[s][i]
              /\ \A i \in (Len(PromisedLog[s]) + 1)..Len(PromisedLog'[s]) : \E r \in fresh : r.stream = s /\ i \in Log!Span(r)
    BY <1>1, <1>6, <1>9, <1>10, <1>11, <1>12 DEF Log!SameKey, Log!Span, Span
  <1> QED
    BY <1>13 DEF Log!Apply, Log!InPlace, PromisedLog, LogOf, fresh

LEMMA StepIsPromised ==
  ASSUME IInv, IInv', [Next]_vars
  PROVE  [Log!Apply]_Log!vars
  <1>1. ASSUME UNCHANGED tableVars
        PROVE  UNCHANGED Log!vars
    BY <1>1 DEF tableVars, Log!vars
  <1>2. CASE UNCHANGED vars
    BY <1>1, <1>2 DEF vars
  <1>3. ASSUME NEW c \in Clients, Begin(c) \/ Step(c) \/ Disconnect(c) \/ DetectDeadlock(c)
        PROVE  [Log!Apply]_Log!vars
    <2>1. CASE Begin(c)
      BY <1>1, <2>1 DEF Begin
    <2>2. CASE ReadPriorCommand(c)
      BY <1>1, <2>2 DEF ReadPriorCommand, Rollback
    <2>3. CASE LockAndWrite(c)
      BY <1>1, <2>3 DEF LockAndWrite, Rollback
    <2>4. CASE Commit(c)
      BY <2>4, CommitIsOneStep
    <2>5. CASE Disconnect(c) \/ DetectDeadlock(c)
      BY <1>1, <2>5 DEF Disconnect, DetectDeadlock, Rollback
    <2> QED
      BY <1>3, <2>1, <2>2, <2>3, <2>4, <2>5 DEF Step
  <1> QED
    BY <1>2, <1>3 DEF Next

(* appendTransaction: the store, with all its interleavings, lock waits,   *)
(* rollbacks and lost connections, implements one append-only log per      *)
(* stream to which a transaction is added in one step or not at all.       *)
THEOREM StoreImplementsLog == Spec => ImplementsEventLog
  <1>1. Init => Log!Init
    BY DEF Init, Log!Init, Nothing
  <1> QED
    BY <1>1, StoreInvariant, StepIsPromised, PTL DEF Spec, ImplementsEventLog, Log!Spec

=============================================================================
