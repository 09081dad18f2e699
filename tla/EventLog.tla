------------------------------ MODULE EventLog ------------------------------
(***************************************************************************)
(* What the event store promises, with no transactions, locks or tables:   *)
(* one append-only log per stream and the set of commands that took effect.*)
(* A command takes effect at most once, at exactly the version its author  *)
(* expected, and the commands of one transaction take effect together.     *)
(***************************************************************************)
EXTENDS Integers, Sequences

CONSTANTS Streams, Requests

VARIABLES
  log,      \* per stream, the sequence of [command, payload] entries
  applied   \* the requests that took effect

vars == <<log, applied>>

SameKey(q, r) == q.stream = r.stream /\ q.command = r.command

(* The positions a request's events occupy.                                *)
Span(r) == (r.expectedVersion + 1)..(r.expectedVersion + Len(r.events))

InPlace(l, r) ==
  \A i \in Span(r) :
    /\ i \in DOMAIN l[r.stream]
    /\ l[r.stream][i] = [command |-> r.command, payload |-> r.events[i - r.expectedVersion]]

Init ==
  /\ log = [s \in Streams |-> <<>>]
  /\ applied = {}

(* One transaction takes effect: every new request lands where expected,   *)
(* beyond what was there, and nothing else is written.                     *)
Apply ==
  LET new == applied' \ applied IN
  /\ applied \subseteq applied'
  /\ \A r \in new : \A q \in applied' : SameKey(q, r) => q = r
  /\ \A r \in new : r.expectedVersion >= Len(log[r.stream]) /\ InPlace(log', r)
  /\ \A s \in Streams :
       /\ Len(log[s]) <= Len(log'[s])
       /\ \A i \in 1..Len(log[s]) : log'[s][i] = log[s][i]
       /\ \A i \in (Len(log[s]) + 1)..Len(log'[s]) :
            \E r \in new : r.stream = s /\ i \in Span(r)

Spec == Init /\ [][Apply]_vars
=============================================================================
