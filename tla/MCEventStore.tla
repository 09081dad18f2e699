---------------------------- MODULE MCEventStore ----------------------------
(* Small instances of EventStore for TLC.                                  *)
EXTENDS EventStore

CONSTANTS s1, s2, k1, k2, o, p, q, MaxExpected

MCStreams == {s1, s2}
MCPayloads == {o, p, q}

(* Commands k1 and k2, expecting any version up to MaxExpected, with one   *)
(* event or two, some of them equal in everything but content or version:  *)
(* re-submissions, stale submissions and identities reused for something   *)
(* else.                                                                   *)
MCRequests ==
  [stream : MCStreams, command : {k1, k2}, expectedVersion : 0..MaxExpected, events : {<<o>>, <<p>>, <<q, p>>}]

Request(s, k, v, e) == [stream |-> s, command |-> k, expectedVersion |-> v, events |-> e]

(* Single appends to s1, and transactions over both streams in either      *)
(* order or twice over the same one.  Payload o comes alone, after another *)
(* event and as the first of a stream that others are appended to.         *)
MCTransactions ==
  {<<r>> : r \in {r \in MCRequests : r.stream = s1 /\ (r.events = <<o>> => r.expectedVersion = 0)}} \union
  { <<Request(s1, k1, 0, <<p>>), Request(s2, k1, 0, <<p>>)>>,
    <<Request(s2, k2, 0, <<p>>), Request(s1, k2, 0, <<q, p>>)>>,
    <<Request(s1, k1, 0, <<p>>), Request(s1, k2, 1, <<o>>)>> }
=============================================================================
