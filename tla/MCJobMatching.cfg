SPECIFICATION FairSpec
CONSTANTS
  s1 = s1
  s2 = s2
  None = None
  Blank = Blank
  Jobs = {j1}
  Users = {u1, u2}
  Skills = {s1, s2}
  Requests <- MCRequests
  MaxChanges = 2
  MaxStoreErrors = 1
  MaxStops = 2
INVARIANTS MatchesAreEarned  CommittedJobsMatched
PROPERTIES KeepsContract EveryDueMatchHappens
CHECK_DEADLOCK FALSE
