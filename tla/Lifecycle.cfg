\* Three users found an organization; or two owners of one run two tournaments, compiled by either or by the server.
SPECIFICATION ScenesSpec
CONSTANTS
  Users = {u1, u2, u3}
  Staff = {u1, u2}
  Clubs = {c1}
  Invitations = {i1, i2}
  Recoveries = {r1, r2}
  Emails = {e1}
  NoEmail = NoEmail
  NoUser = NoUser
  Roles = {"OWNER", "VIEWER"}
  Tournaments = {t1, t2}
  NoClub = NoClub
  Definitions = {d1}
  Compilers = {u1, u2, server}
  Contents = {x, bad}
  Certified = {x}
  GuidedSteps = 2
  MaxRevisions = 2
SYMMETRY LifecycleSymmetry
INVARIANTS
  AccessIsKept
  ApprovalGoverns
  SeparationOfDuties
PROPERTIES
  DecisionsAreKept
