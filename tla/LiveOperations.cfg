\* Three contests on one court from midday on, with one correction.
SPECIFICATION MiddaySpec
CONSTANTS
  a = a
  b = b
  c = c
  court = court
  official = official
  x = x
  y = y
  Entrants = {x, y}
  NoEntrant = NoEntrant
  Contests = {a, b, c}
  NoContest = NoContest
  Courts = {court}
  NoCourt = NoCourt
  Staff = {official}
  Protests = {p}
  Appeals = {q, r}
  Scores = {s}
  NoScore = NoScore
  Ties = {xy}
  Definition <- Programme
  MaxTime = 2
  Rewrites <- FewRewrites
  Budget <- Plenty
  MaxEvents = 8
VIEW Stories
SYMMETRY DeskSymmetry
CHECK_DEADLOCK FALSE
INVARIANTS
  UncorrectedPlayIsLawful
PROPERTIES
  ProjectionIsTrue
