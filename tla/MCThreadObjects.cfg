SPECIFICATION ObjectsSpec
CONSTANTS
  Threads = {t1, t2, t3, t4, t5}
  NoThread = NoThread
  Count = 2
  MaxTrips = 3
INVARIANTS
  ReadersWriterExclusion
  FreeLockIsWatched
  OnceBeforeReturn
  NobodyLeftAsleep
  NobodyPassesEarly
  NobodyLeftBehind
PROPERTIES
  FreeLockIsTaken
  EveryCallReturns
CHECK_DEADLOCK FALSE
