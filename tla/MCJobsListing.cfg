SPECIFICATION MCSpec
CONSTANTS
  None = None
  All = All
  Jobs = {j1}
  Skills = {s1}
  Readers = {r1, r2}
  MaxRedisErrors = 1
  SkillIds = {k1, k2}
  Names = {n1, n2}
  Listers = {l1, l2}
  NoList = NoList
  MaxSkillFaults = 1
  ProfileCalls = {c1, c2, c3}
  Texts = {t1}
  NoText = NoText
INVARIANTS ShownJobsAreWhole StaleListHasACause StaleTaxonomyHasACause UnsetColumnsSurvive
PROPERTY StaleListExpires
CHECK_DEADLOCK FALSE
