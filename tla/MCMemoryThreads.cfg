\* Two threads use a thread-local variable of one library.
CONSTANTS
  Threads = {t1}
  None = None
  Users = {u1, u2}
  Files = {"main", "a", "b", "c"}
  Main = "main"
  Systems <- LoaderSystems
  Symbols = {"s"}
  MaxLibs = 5
  Modulus = 64
  Align = 2
  Header = 2
  StartBrk = 1
  MaxBrk = 19
  Sizes = {0}
  Counts = {2}
  Huge = FALSE
SPECIFICATION MemorySpec
INVARIANT OwnStorage
CHECK_DEADLOCK FALSE
