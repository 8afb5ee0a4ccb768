SPECIFICATION ThreadsSpec
CONSTANTS
  Children = {c1, c2}
  Blocks = {b1, b2, b3}
  Stacks = {s1, s2, s3}
  Slots = 2
  None = None
  ClearTid = FALSE
  Owners = {t1, t2}
  Values = {v1, v2}
  KeyCount = 2
  ValueCount = 2
  Iterations = 2
INVARIANTS
  JoinGivesResult
  NoLeak
  RunningIsFound
  GetGivesLastSet
  EndsClean
PROPERTIES
  JoinReturns
  DestructorOncePerValue
CHECK_DEADLOCK FALSE
