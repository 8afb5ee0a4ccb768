CONSTANTS
  Children = {c1, c2}
  Blocks = {b1, b2}
  Stacks = {s1, s2}
  Slots = 2
  None = None
  ClearTid = TRUE
SPECIFICATION Spec
INVARIANT JoinGivesResult
CHECK_DEADLOCK FALSE
