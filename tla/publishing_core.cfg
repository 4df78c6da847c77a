CONSTANTS
  Devs = {d1}
  Keys = {k1, k2}
  Ids = {1}
  IdForm <- MCIdForm
  Versions = {1, 2}
  Trees <- MCTrees
  Plain = Plain
  Spoilt = Spoilt
  Size <- MCSize
  Shape <- MCShape
  MaxEntries = 4
  None = None
  Other = Other
  MaxEdits = 1
  MaxSigns = 2
SPECIFICATION Spec
SYMMETRY Symmetry
INVARIANT MergedIsInstallable
INVARIANT StoreAppIsReviewed
INVARIANT ProposalIsInOrder
PROPERTY KeyIsKept
PROPERTY HistoryIsKept
CHECK_DEADLOCK FALSE
