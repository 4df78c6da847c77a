CONSTANTS
  Calls = {c1, c2}
  Passphrases = {p1, p2}
  NoDoc = NoDoc
  Nobody = Nobody
  MaxCrashes = 2
SPECIFICATION Spec
SYMMETRY Symmetry
INVARIANT KeyFileLoads
INVARIANT IdentityIsStable
INVARIANT LockedIsRecoverable
INVARIANT ProtectedOnDisk
PROPERTY KeepsPromise
