CONSTANTS
  Jobs = {j1, j2, j3}
  Procs = {daemon, cli}
  Daemon = daemon
  Versions = {v1, v2}
  Names = {n1, n2, n3}
  None = None
  Nobody = Nobody
  MaxFaults = 2
  MaxCrashes = 1
SPECIFICATION Spec
SYMMETRY Symmetry
CHECK_DEADLOCK FALSE
INVARIANT NeverHalfInstalled
INVARIANT AppFilesSurvive
PROPERTY ImplementsCatalog
