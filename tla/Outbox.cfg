\* Two workers race for two rows, one of a topic nobody serves; leases run out while runs are still going.
SPECIFICATION FairSpec
CONSTANTS
  Messages = {m1, m2}
  Invalid = {}
  Unroutable = {m2}
  Workers = {w1, w2}
  NoWorker = NoWorker
  LeaseTime = 1
  BatchSize = 2
  MaxAttempts = 2
  BaseDelay = 1
  MaxDelay = 2
  MaxAhead = 0
  MaxRun = 1
  MaxCrashes = 1
INVARIANTS
  DeliveredOnce
PROPERTIES
  LeasesProtect
  EveryIntentSettles
