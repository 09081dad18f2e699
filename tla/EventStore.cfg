\* Two server processes, two streams, every interleaving of their statements.
SPECIFICATION FairSpec
CONSTANTS
  Clients = {c1, c2}
  NoClient = NoClient
  s1 = s1
  s2 = s2
  k1 = k1
  k2 = k2
  o = o
  p = p
  q = q
  MaxExpected = 2
  Streams <- MCStreams
  Requests <- MCRequests
  Transactions <- MCTransactions
  Payloads <- MCPayloads
  Publishing = {p}
  LocaleSensitive = {o}
INVARIANTS
  OnlyKeyOrderStopsReplay
  StoreIsWhole
PROPERTIES
  ImplementsEventLog
  EveryTransactionEnds
