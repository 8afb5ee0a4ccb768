CONSTANTS
  Threads = {t1, t2, t3}
  NoThread = NoThread
  MaxDepth = 2
SPECIFICATION FairSpec
INVARIANTS
  MutualExclusion
  UnlockObeysHolder
  NoLostWakeup
PROPERTIES
  ImplementsLock
  FreeMutexIsTaken
  TimedlockReturns
