-------------------------- MODULE CommandExecution --------------------------
(***************************************************************************)
(* How the platform executes a command: `execute` of                       *)
(* packages/competition-engine/src/platform.ts over the event store.  It   *)
(* awaits the replay of the stream, then the stream itself to look for an  *)
(* earlier command of the same identity, then (for approvals and           *)
(* publications) the artifact resolver, then the append, then a second     *)
(* replay for the answer.  Other requests run at every await.              *)
(*                                                                         *)
(* The append is the store's (module EventStore): it looks for the command *)
(* identity first, then checks the expected version.  A command here       *)
(* appends one entry, standing for all its events, which share its         *)
(* identity and are appended together.                                     *)
(***************************************************************************)
EXTENDS Sequences, Integers

CONSTANTS
  Clients,      \* concurrent requests
  Identities,   \* command identities (idempotency keys)
  Contents,     \* everything the platform's command hash covers
  Times,        \* occurredAt, stamped by the server; not in that hash
  Exclusive,    \* contents that eventsFor refuses once they took effect
  MaxVersion    \* BOUND: appends to the stream

ASSUME ExecutionAssumption == Exclusive \subseteq Contents /\ MaxVersion \in Nat

Submissions == [id : Identities, content : Contents, at : Times]

VARIABLES
  stream,     \* the organization's events: [id, content, at, base]
  pc,         \* what each request waits for
  command,    \* what it submitted
  seen,       \* the version of the state it read, and answers with
  answer      \* what its last command was answered

vars == <<stream, pc, command, seen, answer>>

Answers == {"NONE", "ACCEPTED", "CONFLICT", "REFUSED"}

Points == {"idle", "read", "prior", "load", "append", "reread"}

-----------------------------------------------------------------------------
EntriesOf(id) == {i \in DOMAIN stream : stream[i].id = id}

Permitted(content, version) ==
  content \in Exclusive => \A i \in 1..version : stream[i].content # content

Finish(c, kind) ==
  /\ pc' = [pc EXCEPT ![c] = "idle"]
  /\ answer' = [answer EXCEPT ![c] = kind]
Goto(c, point) == pc' = [pc EXCEPT ![c] = point]

-----------------------------------------------------------------------------
(* A request arrives; the server stamps it.                                *)
Submit(c, s) ==
  /\ pc[c] = "idle"
  /\ command' = [command EXCEPT ![c] = s]
  /\ answer' = [answer EXCEPT ![c] = "NONE"]
  /\ Goto(c, "read")
  /\ UNCHANGED <<stream, seen>>

(* const state = await read(...).                                          *)
ReadState(c) ==
  /\ pc[c] = "read"
  /\ seen' = [seen EXCEPT ![c] = Len(stream)]
  /\ Goto(c, "prior")
  /\ UNCHANGED <<stream, command, answer>>

(* The earlier command of the same identity, in the stream as it is now:   *)
(* another content is a conflict, the same content is answered with the    *)
(* state that was read before.                                             *)
BugSameContent(c, i) == TRUE
SameContent(c, i) == stream[i].content = command[c].content

ReadPrior(c) ==
  /\ pc[c] = "prior"
  /\ \/ /\ EntriesOf(command[c].id) = {}
        /\ Goto(c, "load")
        /\ UNCHANGED answer
     \/ /\ \E i \in EntriesOf(command[c].id) : SameContent(c, i)
        /\ Finish(c, "ACCEPTED")
     \/ /\ \E i \in EntriesOf(command[c].id) : ~SameContent(c, i)
        /\ Finish(c, "CONFLICT")
  /\ UNCHANGED <<stream, command, seen>>

(* await publicationArtifacts.load(...), then eventsFor, which may throw.  *)
LoadArtifacts(c) ==
  /\ pc[c] = "load"
  /\ \/ Permitted(command[c].content, seen[c]) /\ Goto(c, "append") /\ UNCHANGED answer
     \/ ~Permitted(command[c].content, seen[c]) /\ Finish(c, "REFUSED")
  /\ UNCHANGED <<stream, command, seen>>

(* store.append with expectedVersion = state.version: the fingerprint the  *)
(* store compares covers the version and the time as well.                 *)
Entry(c) == [id |-> command[c].id, content |-> command[c].content, at |-> command[c].at, base |-> seen[c]]

BugIsCurrent(c) == TRUE
IsCurrent(c) == seen[c] = Len(stream)

IsNew(c) == EntriesOf(command[c].id) = {}

AppendEvents(c) ==
  /\ pc[c] = "append"
  /\ \/ /\ ~IsNew(c)
        /\ \E i \in EntriesOf(command[c].id) : stream[i] = Entry(c)
        /\ Goto(c, "reread")
        /\ UNCHANGED <<stream, answer>>
     \/ /\ ~IsNew(c)
        /\ \E i \in EntriesOf(command[c].id) : stream[i] # Entry(c)
        /\ Finish(c, "CONFLICT")
        /\ UNCHANGED stream
     \/ /\ IsNew(c) /\ ~IsCurrent(c)
        /\ Finish(c, "REFUSED")
        /\ UNCHANGED stream
     \/ /\ IsNew(c) /\ IsCurrent(c)
        /\ Len(stream) < MaxVersion
        /\ stream' = Append(stream, Entry(c))
        /\ Goto(c, "reread")
        /\ UNCHANGED answer
  /\ UNCHANGED <<command, seen>>

(* return read(...).                                                       *)
ReadBack(c) ==
  /\ pc[c] = "reread"
  /\ seen' = [seen EXCEPT ![c] = Len(stream)]
  /\ Finish(c, "ACCEPTED")
  /\ UNCHANGED <<stream, command>>

(* The process or the connection is lost: no answer, and the client, who   *)
(* cannot know whether the command took effect, may submit it again.       *)
Lose(c) ==
  /\ pc[c] # "idle"
  /\ Finish(c, "NONE")
  /\ UNCHANGED <<stream, command, seen>>

-----------------------------------------------------------------------------
Init ==
  /\ stream = <<>>
  /\ pc = [c \in Clients |-> "idle"]
  /\ \E s \in Submissions : command = [c \in Clients |-> s]
  /\ seen = [c \in Clients |-> 0]
  /\ answer = [c \in Clients |-> "NONE"]

Next ==
  \E c \in Clients :
    \/ \E s \in Submissions : Submit(c, s)
    \/ ReadState(c)
    \/ ReadPrior(c)
    \/ LoadArtifacts(c)
    \/ AppendEvents(c)
    \/ ReadBack(c)
    \/ Lose(c)

Spec == Init /\ [][Next]_vars

-----------------------------------------------------------------------------
(* Properties                                                              *)

(* Every variable has its type, and no request has read a version that is  *)
(* not there yet.                                                          *)
TypeOK ==
  /\ stream \in Seq([id : Identities, content : Contents, at : Times, base : Nat])
  /\ pc \in [Clients -> Points]
  /\ command \in [Clients -> Submissions]
  /\ seen \in [Clients -> Nat]
  /\ \A c \in Clients : seen[c] <= Len(stream)
  /\ answer \in [Clients -> Answers]

(* Two command identities cannot silently overwrite the same expected      *)
(* revision: every entry was decided on exactly the entries before it.     *)
DecidedOnCurrentState == \A i \in 1..Len(stream) : stream[i].base = i - 1

(* One command identity cannot produce two effects.                        *)
OneEffectPerCommand ==
  \A i, j \in 1..Len(stream) : stream[i].id = stream[j].id => i = j

(* What a guard refuses twice happens once, however many requests passed   *)
(* the guard at the same time.                                             *)
GuardsHoldAtAppend ==
  \A i, j \in 1..Len(stream) :
    stream[i].content \in Exclusive /\ stream[i].content = stream[j].content => i = j

(* A command that was answered with 200 did take effect, with the content  *)
(* it was submitted with, whichever of its submissions was answered.       *)
AcceptedTookEffect ==
  \A c \in Clients : answer[c] = "ACCEPTED" =>
    \E i \in 1..Len(stream) : stream[i].id = command[c].id /\ stream[i].content = command[c].content

(* Commands are atomic: the interleaved protocol implements AtomicCommands.*)
History == [i \in 1..Len(stream) |-> [id |-> stream[i].id, content |-> stream[i].content]]

(* Whatever other requests did between its awaits: an entry was decided on *)
(* what is before it, a command takes effect once and what may happen once *)
(* happened once, and an accepted command took effect with its content.    *)
CommandsAreHonest == DecidedOnCurrentState /\ OneEffectPerCommand /\ GuardsHoldAtAppend /\ AcceptedTookEffect

Atomic == INSTANCE AtomicCommands WITH history <- History

ImplementsAtomicCommands == Atomic!Spec
=============================================================================
