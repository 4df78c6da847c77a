SPECIFICATION Spec
CONSTANTS
  c1 = c1
  c2 = c2
  p1 = p1
  p2 = p2
  t1 = t1
  Calls = {c1, c2}
  Pages = {p1, p2}
  Real = {p1}
  Tools = {t1}
  Maker <- MCMaker
  NoPrompt = NoPrompt
  Ids <- MCIds
  MaxFaults = 1
INVARIANT ConfirmationsAreWaiting
PROPERTY ImplementsConsent
PROPERTY EveryCallEnds
PROPERTY CallersAreTold
