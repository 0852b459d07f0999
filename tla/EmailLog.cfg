CONSTANTS
  Messages = {m1, m2, bad}
  Malformed = {bad}
  Service = notifier
  Slots = {s1, s2}
  NoMessage = NoMessage
  MaxFaults = 1
  MaxOutages = 3
  MaxCopies = 1
SPECIFICATION FairSpec
INVARIANT GoneMeansLogged
CHECK_DEADLOCK FALSE
PROPERTIES KeepsLedger QueuedIsSettled
