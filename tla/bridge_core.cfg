CONSTANTS
  Installed = {a1, a2}
  Frames = {f1, f2}
  Absent = Absent
  MaxCalls = 1
  MaxReloads = 1
SPECIFICATION BridgeFairSpec
CHECK_DEADLOCK FALSE
INVARIANT StampIsSource
PROPERTY EveryCallSettles
PROPERTY ReadySettles
