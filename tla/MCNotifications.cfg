CONSTANTS
  Notifs = {n1, n2}
  u1 = u1
  Users = {u1}
  Pages = {p1}
  Gateways = {g1, g2}
  To <- MCTo
  Owner <- MCOwner
  NoOne = NoOne
  StreamMaxLen = 2
  HistoryLimit = 2
  ListLimit = 2
  MaxTroubles = 1
  Drafts = {d1, d2}
  Blank = Blank
  NoDraft = NoDraft
  MaxVisits = 2
  MaxQueue = 3
  MaxDraftFaults = 1
SPECIFICATION MCSpec
INVARIANTS DraftsReturnForACause RepeatsNeedRedelivery MissesHaveACause
PROPERTIES KeepsFeed QueuedIsHandled
CHECK_DEADLOCK FALSE
