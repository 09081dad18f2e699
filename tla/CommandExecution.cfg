\* Two requests at a time: re-submissions, clashes and reused identities.
SPECIFICATION Spec
CONSTANTS
  Clients = {r1, r2}
  Identities = {k1, k2, k3}
  Contents = {x, y}
  Times = {a1, a2}
  Exclusive = {x}
  MaxVersion = 3
SYMMETRY ExecutionSymmetry
INVARIANTS
  CommandsAreHonest
PROPERTIES
  ImplementsAtomicCommands
