SPECIFICATION FairLimiterSpec
CONSTANTS
  Anonymous = Anonymous
  ApiRequests = {r1, r2}
  Users = {u1}
  Addresses = {a1}
  Limit = 2
  Window = 3
  MaxLost = 1
INVARIANT BurstAtMostTwice
PROPERTIES RejectionsAreEarned BudgetsReturn
