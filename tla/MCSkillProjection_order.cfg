SPECIFICATION Spec
CONSTANTS
  None = None
  Users = {u1}
  Skills = {s1, s2}
  Proficiencies = {p1}
  Calls = {k1, k2}
  MaxHandlerErrors = 0
  MaxStops = 0
INVARIANT OnlyLossDrifts
CHECK_DEADLOCK FALSE
