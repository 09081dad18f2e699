--------------------------- MODULE AtomicCommands ---------------------------
(***************************************************************************)
(* What the platform promises about commands: each takes effect at most    *)
(* once, at one instant, and is judged by the state at that instant.       *)
(* OrganizationAccess and TournamentLifecycle take this for granted.       *)
(***************************************************************************)
EXTENDS Sequences, Integers

CONSTANTS
  Identities,   \* command identities (idempotency keys)
  Contents,     \* what a command asks for
  Exclusive     \* contents that are refused once they have taken effect

VARIABLE history   \* the commands that took effect, [id, content]

TookEffect(id) == \E i \in DOMAIN history : history[i].id = id

(* The domain's guards, reduced to one that makes concurrency dangerous:   *)
(* "already exists" in its many forms.                                     *)
Permitted(content, past) ==
  content \in Exclusive => \A i \in DOMAIN past : past[i].content # content

Execute(id, content) ==
  /\ ~TookEffect(id)
  /\ Permitted(content, history)
  /\ history' = Append(history, [id |-> id, content |-> content])

Init == history = <<>>
Next == \E id \in Identities, content \in Contents : Execute(id, content)
Spec == Init /\ [][Next]_history
=============================================================================
