\* The shell over meuos-libc, whose signal() does not ask for SA_RESTART.
SPECIFICATION Spec
CONSTANTS
  Signals = {INT}
  None = None
  Libcs = {FALSE}
  MaxJobs = 2
  MaxProcs = 3
  MaxTraps = 2
  MaxWaits = 2
PROPERTY
  FgWaits
CHECK_DEADLOCK FALSE

