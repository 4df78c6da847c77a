CONSTANTS
  Requests = {r1, r2}
  Shells = {s1}
  NoPrompt = NoPrompt
  NoRequest = NoRequest
  ActivityCap = 1
  Passphrases = {p1}
  NoDoc = NoDoc
  MaxDrops = 1
  MaxRestarts = 1
SPECIFICATION FairSpec
INVARIANT SignatureAnswersTap
INVARIANT ReleasedIsRecorded
INVARIANT DiskIsTornOrCurrent
PROPERTY ImplementsConsent
PROPERTY EveryCallEnds
PROPERTY ExpiredPromptCleared
