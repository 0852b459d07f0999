CONSTANTS
  Notifs = {n1, n2}
  u1 = u1
  Users = {u1}
  Pages = {p1}
  Gateways = {g1, g2}
  To <- MCTo
  Owner <- MCOwner
  NoOne = NoOne
  StreamMaxLen = 3
  HistoryLimit = 3
  ListLimit = 2
  MaxTroubles = 0
  Drafts = {}
  Blank = Blank
  NoDraft = NoDraft
  MaxVisits = 0
  MaxQueue = 0
  MaxDraftFaults = 0
SPECIFICATION MCSpec
SYMMETRY MCSymmetry
INVARIANT GapIsCovered
CHECK_DEADLOCK FALSE
