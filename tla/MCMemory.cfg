CONSTANTS
  Threads = {t1, t2}
  None = None
  Users = {u1}
  Files = {"main", "a", "b", "c"}
  Main = "main"
  Systems <- LoaderSystems
  Symbols = {"s"}
  MaxLibs = 5
  Modulus = 64
  Align = 2
  Header = 2
  StartBrk = 1
  MaxBrk = 19
  Sizes = {0, 3, 5, 28, 61, 63}
  Counts = {2, 22}
  Huge = FALSE
SPECIFICATION MemorySpec
INVARIANTS
  BlocksInHeap
  HeldAreGood
  ContentKept
  NothingLost
  OneDefinition
  RelocatedBeforeRun
PROPERTY BlocksStay
CHECK_DEADLOCK FALSE
