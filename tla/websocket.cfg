CONSTANTS
  Short = 2
  Medium = 3
  MaxPayload = 3
  Payloads <- MCPayloads
  Replies <- MCReplies
  Masks <- MCMasks
  MaxFrames = 3
  MaxSends = 1
SPECIFICATION Spec
INVARIANT NothingIsLeft
INVARIANT AnswersAreFramed
PROPERTY ImplementsChannel
CHECK_DEADLOCK FALSE
