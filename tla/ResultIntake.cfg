SPECIFICATION Spec
CONSTANTS
  d1 = d1
  d2 = d2
  None = None
  Nil = Nil
  Contests = {"c1", "c2"}
  Entrants = {"a", "b", "x"}
  Rosters <- MCRosters
  Submitted <- MCSubmitted
  Desks = {d1, d2}
  MaxVersion = 6
  Policies = {"AWARD_WALKOVER", "VOID_CONTEST", None}
  MaxEvents = 3
  Configurations <- MCConfigurations
  Truths <- MCTruths
  Names = {"A", "B", "X", "Z", "c1", "c9"}
  Reported <- MCReported
  MessageIds = {1, 2}
  MaxLives = 3
  Hooks = {"k"}
  Ttl = 4
  MaxSkew = 1
  RateLimit = 2
  Window = 3
  Patience = 1
  LastTick = 5
  MaxDeliveries = 3
  MaxRequests = 6
SYMMETRY DeskSymmetry

CHECK_DEADLOCK FALSE
INVARIANTS
  TruthStaysPlayable
  OneLineOfTruth
  AnswersAreTrue
  LedgerShowsItsHistory
  IncomingCountsOnce
