SPECIFICATION LoopSpec
CONSTANTS
  Windows = {w1}
  Profiles = {round, wide}
  Flag = round
  Levels = {dim, full}
  Default = full
  Missing = Missing
  MaxRuns = 2
  MaxEvents = 2
 
INVARIANT QuietWindowIsCurrent
PROPERTY WindowFollows
CHECK_DEADLOCK FALSE
