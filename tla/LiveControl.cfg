\* Two members of one club on the day of their tournament: two live commands, two proposals, one repair.
SPECIFICATION EventDaySpec
CONSTANTS
  Users = {u1, u2}
  Clubs = {c1}
  Invitations = {i1}
  Recoveries = {}
  Emails = {e1}
  NoEmail = NoEmail
  NoUser = NoUser
  Roles = {"OWNER", "OPERATOR"}
  Tournaments = {t1}
  NoClub = NoClub
  Definitions = {d1}
  Compilers = {server}
  Server = server
  Contents = {x}
  Certified = {x}
  GuidedSteps = 1
  MaxRevisions = 1
  LiveIds = {l1, l2}
  LiveContents = {"COMPLETE"}
  Contests = {k1}
  Entrants = {n1}
  SettledBy <- SettledByCompletion
  Changes = {p1, p2}
  Repairs = {r1}
  MaxLive = 2
  MaxScores = 1
CONSTRAINT OneKindOfProposal
SYMMETRY LiveSymmetry
INVARIANTS
  LiveCommandOnce
  LiveIsGoverned
PROPERTIES
  DayIsOnRecord
