SPECIFICATION MCSpec
CONSTANTS
  None = None
  Unusable = Unusable
  Spellings <- MCSpellings
  normalize <- mcNormalize
  Passwords = {p1}
  Calls = {k1, k2, k3, k4}
  Subjects = {g1, g2}
  MaxMoves = 1
  Keys = {key1, key2}
  Requests = {r1, r2}
  NoKey = NoKey
  Interval = 1
  FetchTime = 1
SYMMETRY MCSymmetry
INVARIANTS OneAccountPerEmail RegisteredCanLogIn
PROPERTIES KeepsDirectory GoodTokensRefusedHaveACause RetiredKeysLapse
CHECK_DEADLOCK FALSE
