SPECIFICATION MCSpec
CONSTANTS
  None = None
  All = All
  Jobs = {j1}
  Skills = {s1}
  Readers = {r1, r2}
  MaxRedisErrors = 0
SYMMETRY MCSymmetry
INVARIANT CreatedIsListed
CHECK_DEADLOCK FALSE
CONSTANTS
  SkillIds = {}
  Names = {}
  Listers = {}
  NoList = NoList
  MaxSkillFaults = 0
  ProfileCalls = {}
  Texts = {}
  NoText = NoText
