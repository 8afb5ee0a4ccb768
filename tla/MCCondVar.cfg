CONSTANTS
  Producers = {p1, p2}
  Consumers = {c1, c2, c3}
  NoThread = NoThread
  SeqSize = 3
  MaxPuts = 2
SPECIFICATION FairSpec
INVARIANTS
  WaitReturnsHolding
  NoLostSignal
PROPERTY ItemsReachSleepers
