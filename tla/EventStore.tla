----------------------------- MODULE EventStore -----------------------------
(***************************************************************************)
(* The transactional event store of                                        *)
(* packages/competition-engine/src/postgres-event-store.ts: append and     *)
(* appendTransaction run appendCore for each request inside one database   *)
(* transaction at READ COMMITTED.  Every SQL statement is awaited, so the  *)
(* transactions of several clients (server processes) interleave at the    *)
(* statements that matter:                                                 *)
(*   - the SELECT of an earlier command, which takes no lock;              *)
(*   - the INSERT / SELECT ... FOR UPDATE of the stream row, which waits   *)
(*     for the transaction that holds it and then sees its outcome;        *)
(*   - COMMIT.                                                             *)
(* Between FOR UPDATE and COMMIT the transaction owns the stream, and its  *)
(* other statements are invisible to everybody else, so they belong to the *)
(* step that takes the lock.  The in-memory store of event-store.ts is the *)
(* special case in which each append runs alone.                           *)
(***************************************************************************)
EXTENDS Integers, Sequences

CONSTANTS
  Clients,
  NoClient,
  Streams,
  Requests,         \* [stream, command, expectedVersion, events]
  Transactions,     \* what clients submit: non-empty sequences of requests
  Payloads,
  Publishing,       \* payloads whose event carries an outbox intent
  LocaleSensitive   \* payloads with keys that String.localeCompare and the
                    \* code-unit order of Array.sort put in different orders

ASSUME StoreAssumption ==
  /\ NoClient \notin Clients
  /\ Publishing \subseteq Payloads
  /\ LocaleSensitive \subseteq Payloads
  /\ \A r \in Requests :
       /\ r.stream \in Streams
       /\ r.expectedVersion \in Nat
       /\ r.events \in Seq(Payloads)
       /\ r.events # <<>>
  /\ Transactions \subseteq Seq(Requests) \ {<<>>}

VARIABLES
  streams,    \* committed tournament_events, per stream
  commands,   \* committed tournament_commands (the request is its fingerprint)
  outbox,     \* committed tournament_outbox rows, by <<stream, version>>
  lock,       \* who holds the row lock of each stream
  pc,         \* the statement each client waits for
  todo,       \* requests of the client's transaction still to run
  done,       \* requests of the transaction that have run
  written,    \* uncommitted events of the transaction, per stream
  recorded,   \* uncommitted command rows of the transaction
  acked       \* requests some client was told are APPENDED or replayed

tableVars == <<streams, commands, outbox>>
txVars == <<pc, todo, done, written, recorded>>
vars == <<tableVars, lock, txVars, acked>>

Nothing == [s \in Streams |-> <<>>]

SameKey(q, r) == q.stream = r.stream /\ q.command = r.command

-----------------------------------------------------------------------------
(* Hashes.  canonicalHash (canonical.ts) and hash (event-store.ts) are     *)
(* SHA-256 over a key-sorted serialisation; the first sorts by code unit,  *)
(* the second by localeCompare.  A digest stands for what was digested;    *)
(* previousHash is compared on its own, so it is left out of the digest.   *)
Serialise(payload, order) ==
  IF payload \in LocaleSensitive THEN <<payload, order>> ELSE <<payload>>

Digest(command, payload, version, order) ==
  <<version, command, Serialise(payload, order)>>

HeadHash(events) == IF events = <<>> THEN <<>> ELSE events[Len(events)].eventHash

(* The envelopes appendCore adds to `base` for request r.                  *)
BugEnvelopes(base, r) ==
  [i \in 1..Len(r.events) |->
     [command |-> r.command, payload |-> r.events[i], version |-> Len(base) + i,
      previousHash |-> HeadHash(base),
      eventHash |-> Digest(r.command, r.events[i], Len(base) + i, "codeUnit")]]

Envelopes(base, r) ==
  [i \in 1..Len(r.events) |->
     [command |-> r.command, payload |-> r.events[i], version |-> Len(base) + i,
      previousHash |-> IF i = 1 THEN HeadHash(base)
                       ELSE Digest(r.command, r.events[i - 1], Len(base) + i - 1, "codeUnit"),
      eventHash |-> Digest(r.command, r.events[i], Len(base) + i, "codeUnit")]]

(* verifyEventChain, the precondition of every replay.                     *)
VerifyEventChain(events) ==
  \A i \in 1..Len(events) :
    /\ events[i].eventHash = Digest(events[i].command, events[i].payload, events[i].version, "locale")
    /\ events[i].previousHash = IF i = 1 THEN <<>> ELSE events[i - 1].eventHash
    /\ events[i].version = i

(* What the transaction of c sees of stream s: committed rows and its own. *)
Visible(c, s) == streams[s] \o written[c][s]

(* The outbox rows an append inserts along with the events.                *)
Intents(s, events) ==
  {<<s, events[i].version>> : i \in {j \in 1..Len(events) : events[j].payload \in Publishing}}

-----------------------------------------------------------------------------
(* Without the ROLLBACK of its catch, `transaction` would give the         *)
(* connection back to the pool with the locks of the transaction held.     *)
BugRollback(c) ==
  /\ pc' = [pc EXCEPT ![c] = "idle"]
  /\ todo' = [todo EXCEPT ![c] = <<>>]
  /\ done' = [done EXCEPT ![c] = {}]
  /\ written' = [written EXCEPT ![c] = Nothing]
  /\ recorded' = [recorded EXCEPT ![c] = {}]
  /\ UNCHANGED <<tableVars, lock, acked>>

(* The transaction ends without effect: an exception (or the loss of the   *)
(* connection) rolls it back and releases its locks.                       *)
Rollback(c) ==
  /\ pc' = [pc EXCEPT ![c] = "idle"]
  /\ todo' = [todo EXCEPT ![c] = <<>>]
  /\ done' = [done EXCEPT ![c] = {}]
  /\ written' = [written EXCEPT ![c] = Nothing]
  /\ recorded' = [recorded EXCEPT ![c] = {}]
  /\ lock' = [s \in Streams |-> IF lock[s] = c THEN NoClient ELSE lock[s]]
  /\ UNCHANGED <<tableVars, acked>>

RequestRan(c) ==
  /\ todo' = [todo EXCEPT ![c] = Tail(@)]
  /\ done' = [done EXCEPT ![c] = @ \union {Head(todo[c])}]
  /\ pc' = [pc EXCEPT ![c] = IF Tail(todo[c]) = <<>> THEN "commit" ELSE "prior"]

(* BEGIN.                                                                  *)
Begin(c) ==
  /\ pc[c] = "idle"
  /\ \E transaction \in Transactions : todo' = [todo EXCEPT ![c] = transaction]
  /\ pc' = [pc EXCEPT ![c] = "prior"]
  /\ UNCHANGED <<tableVars, lock, done, written, recorded, acked>>

(* SELECT ... FROM tournament_commands: an IdempotencyConflictError, an    *)
(* IDEMPOTENT_REPLAY, or on to the stream row.                             *)
ReadPriorCommand(c) ==
  /\ pc[c] = "prior"
  /\ LET r == Head(todo[c])
         prior == {q \in commands \union recorded[c] : SameKey(q, r)} IN
     \/ /\ \E q \in prior : q # r
        /\ Rollback(c)
     \/ /\ prior = {r}
        /\ RequestRan(c)
        /\ UNCHANGED <<tableVars, lock, written, recorded, acked>>
     \/ /\ prior = {}
        /\ pc' = [pc EXCEPT ![c] = "lock"]
        /\ UNCHANGED <<tableVars, lock, todo, done, written, recorded, acked>>

(* INSERT ... ON CONFLICT DO NOTHING; SELECT ... FOR UPDATE; the version   *)
(* check; the event, outbox, stream and command rows.  The command row has *)
(* a primary key, so a command of the same identity that was committed     *)
(* since ReadPriorCommand fails the statement and the transaction.         *)
BugCommandTaken(c, r) == FALSE
CommandTaken(c, r) == \E q \in commands \union recorded[c] : SameKey(q, r)

BugVersionMatches(c, r) == r.expectedVersion <= Len(Visible(c, r.stream))
VersionMatches(c, r) == Len(Visible(c, r.stream)) = r.expectedVersion

LockFree(c, s) == lock[s] \in {NoClient, c}

LockAndWrite(c) ==
  /\ pc[c] = "lock"
  /\ LET r == Head(todo[c]) IN
     /\ LockFree(c, r.stream)
     /\ \/ /\ ~VersionMatches(c, r) \/ CommandTaken(c, r)
           /\ Rollback(c)
        \/ /\ VersionMatches(c, r) /\ ~CommandTaken(c, r)
           /\ lock' = [lock EXCEPT ![r.stream] = c]
           /\ written' = [written EXCEPT ![c][r.stream] = @ \o Envelopes(Visible(c, r.stream), r)]
           /\ recorded' = [recorded EXCEPT ![c] = @ \union {r}]
           /\ RequestRan(c)
           /\ UNCHANGED <<tableVars, acked>>

(* COMMIT makes every row of the transaction visible at once.  The answer  *)
(* may be lost on its way to the client, who then does not know.           *)
CommittedIntents(c) == UNION {Intents(s, written[c][s]) : s \in Streams}

Commit(c) ==
  /\ pc[c] = "commit"
  /\ streams' = [s \in Streams |-> Visible(c, s)]
  /\ commands' = commands \union recorded[c]
  /\ outbox' = outbox \union CommittedIntents(c)
  /\ acked' \in {acked, acked \union done[c]}
  /\ lock' = [s \in Streams |-> IF lock[s] = c THEN NoClient ELSE lock[s]]
  /\ pc' = [pc EXCEPT ![c] = "idle"]
  /\ done' = [done EXCEPT ![c] = {}]
  /\ written' = [written EXCEPT ![c] = Nothing]
  /\ recorded' = [recorded EXCEPT ![c] = {}]
  /\ UNCHANGED todo

(* The connection or the process is lost before COMMIT.                    *)
Disconnect(c) == pc[c] # "idle" /\ Rollback(c)

(* appendTransaction locks streams in request order, so transactions can   *)
(* wait for each other in a circle; PostgreSQL then fails one of them.     *)
Waiting(c) == pc[c] = "lock" /\ lock[Head(todo[c]).stream] \notin {NoClient, c}
WaitCycle(D) == \A c \in D : Waiting(c) /\ lock[Head(todo[c]).stream] \in D

DetectDeadlock(c) ==
  /\ \E D \in SUBSET Clients : c \in D /\ WaitCycle(D)
  /\ Rollback(c)

-----------------------------------------------------------------------------
Init ==
  /\ streams = Nothing
  /\ commands = {}
  /\ outbox = {}
  /\ lock = [s \in Streams |-> NoClient]
  /\ pc = [c \in Clients |-> "idle"]
  /\ todo = [c \in Clients |-> <<>>]
  /\ done = [c \in Clients |-> {}]
  /\ written = [c \in Clients |-> Nothing]
  /\ recorded = [c \in Clients |-> {}]
  /\ acked = {}

Step(c) == ReadPriorCommand(c) \/ LockAndWrite(c) \/ Commit(c)

Next == \E c \in Clients : Begin(c) \/ Step(c) \/ Disconnect(c) \/ DetectDeadlock(c)

Spec == Init /\ [][Next]_vars

(* Statements return; a transaction that waits for a row lock is served    *)
(* when the lock is released over and over (PostgreSQL queues waiters);    *)
(* the deadlock detector runs.  No client has to submit anything.          *)
Fairness == \A c \in Clients : SF_vars(Step(c)) /\ WF_vars(DetectDeadlock(c))

FairSpec == Spec /\ Fairness

-----------------------------------------------------------------------------
(* Properties                                                              *)

(* Every variable has its type; a transaction's uncommitted rows belong to *)
(* a running transaction.                                                  *)
TypeOK ==
  /\ DOMAIN streams = Streams
  /\ \A s \in Streams : \A i \in 1..Len(streams[s]) : streams[s][i].payload \in Payloads
  /\ commands \subseteq Requests
  /\ lock \in [Streams -> Clients \union {NoClient}]
  /\ pc \in [Clients -> {"idle", "prior", "lock", "commit"}]
  /\ \A c \in Clients : todo[c] # <<>> <=> pc[c] \in {"prior", "lock"}
  /\ \A c \in Clients : recorded[c] \subseteq done[c] /\ done[c] \subseteq Requests
  /\ \A c \in Clients : pc[c] = "idle" => done[c] = {}
  /\ acked \subseteq Requests

(* Whatever is appended, lost or rolled back, verifyEventChain refuses a   *)
(* committed stream for one reason only: an event of it has keys that      *)
(* canonicalHash, which append hashes with, and the hash of event-store.ts *)
(* put in different orders.  Such a stream is refused on every replay from *)
(* then on, though every append to it was answered APPENDED; any other     *)
(* stream can be replayed.                                                 *)
KeyOrderMatters(events) == \E i \in 1..Len(events) : events[i].payload \in LocaleSensitive

OnlyKeyOrderStopsReplay ==
  \A s \in Streams : VerifyEventChain(streams[s]) <=> ~KeyOrderMatters(streams[s])

(* One command identity has at most one effect: the events that carry it   *)
(* are exactly those of one recorded request, at the versions its author   *)
(* expected.                                                               *)
Span(r) == (r.expectedVersion + 1)..(r.expectedVersion + Len(r.events))

EveryEventHasItsCommand ==
  \A s \in Streams : \A i \in 1..Len(streams[s]) :
    \E r \in commands :
      /\ r.stream = s /\ r.command = streams[s][i].command
      /\ i \in Span(r) /\ r.events[i - r.expectedVersion] = streams[s][i].payload
      /\ \A q \in commands : SameKey(q, r) => q = r

(* An answer "APPENDED" or "IDEMPOTENT_REPLAY" is true for ever: the       *)
(* request is recorded and its events stand where it expected them.        *)
AckedIsDurable ==
  \A r \in acked :
    /\ r \in commands
    /\ \A i \in Span(r) : /\ i \in 1..Len(streams[r.stream])
                          /\ streams[r.stream][i].command = r.command

(* The outbox holds a row for every committed event with an intent and for *)
(* no other: intents commit with their event, never without it.            *)
OutboxMatchesLog ==
  outbox = UNION {Intents(s, streams[s]) : s \in Streams}

(* Whatever is rolled back or lost between two statements: events, command *)
(* rows and outbox rows fit together, and what a client was told is stored *)
(* is stored.                                                              *)
StoreIsWhole == TypeOK /\ EveryEventHasItsCommand /\ AckedIsDurable /\ OutboxMatchesLog

(* The detailed store implements the promised log.                         *)
Log == INSTANCE EventLog WITH
  log <- [s \in Streams |-> [i \in 1..Len(streams[s]) |->
            [command |-> streams[s][i].command, payload |-> streams[s][i].payload]]],
  applied <- commands

ImplementsEventLog == Log!Spec

(* Every transaction comes to an end: no circle of lock waits lasts.       *)
EveryTransactionEnds == \A c \in Clients : pc[c] # "idle" ~> pc[c] = "idle"
=============================================================================
