SPECIFICATION MCSpec
CONSTANTS
  None = None
  Users = {u1, u2}
  Skills = {s1, s2}
  Proficiencies = {p1}
  Calls = {k1, k2, k3}
  MaxHandlerErrors = 1
  MaxStops = 1
INVARIANTS SnapshotIsOneEvent EventCarriesOwnWrite CommittedWasHandled DriftHasACause
PROPERTIES KeepsContract ConvergesToLastEvent
CHECK_DEADLOCK FALSE
