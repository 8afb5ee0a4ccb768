SPECIFICATION Spec
CONSTANTS
  Signals = {INT}
  None = None
  Libcs = {TRUE, FALSE}
  MaxJobs = 2
  MaxProcs = 3
  MaxTraps = 2
  MaxWaits = 2
INVARIANTS
  NoJobForgotten
  TrapNotLost
PROPERTIES
  PromptComesBack
CHECK_DEADLOCK FALSE
