SPECIFICATION MCSpec
CONSTANTS
  HttpRequests = {r1}
  WebSockets = {w1}
  None = None
  Taxonomy = {s1}
  OtherIds = {x}
  Operations <- MCOperations
  u1 = u1
  skill1 = skill1
  skill2 = skill2
  Users = {u1, u2}
  SkillIds = {skill1, skill2}
  JobIds = {j1}
  Pages = {page1}
  Profiles <- MCProfiles
  NoLevel = NoLevel
  Wanted <- MCWanted
  LoggedIn <- MCLoggedIn
  Copies = {c1}
INVARIANTS  GaugeIsExact BellsTellTheTruth
