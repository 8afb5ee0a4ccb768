CONSTANTS
  Threads = {t1, t2}
  None = None
  Modulus = 64
  Align = 2
  Header = 2
  StartBrk = 1
  MaxBrk = 19
  Sizes = {0, 3, 5, 28, 58, 61, 63}
  Counts = {2, 22}
  Huge = TRUE
SPECIFICATION Spec
INVARIANT BlocksInHeap
