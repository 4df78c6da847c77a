\* Three notifications, room for two, three connections or daemon starts.
CONSTANTS
  Notes = {n1, n2, n3}
  Cap = 2
  MaxRuns = 3
SPECIFICATION FairSpec
CHECK_DEADLOCK FALSE
INVARIANT TrayIsOfThisLife
PROPERTY EveryNoteAppears
