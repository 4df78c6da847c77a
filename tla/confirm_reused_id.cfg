CONSTANTS
  Requests = {r1, r2}
  Shells = {s1}
  NoPrompt = NoPrompt
  NoRequest = NoRequest
  ActivityCap = 1
  Passphrases = {p1}
  NoDoc = NoDoc
  MaxDrops = 0
  MaxRestarts = 1
SPECIFICATION Spec
SYMMETRY Symmetry
INVARIANT SignedOnlyWhatWasApproved
