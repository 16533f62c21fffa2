CONSTANTS
  Alphabet <- MCAlphabet
  Space = " "
  Start <- MCStart
  End <- MCEnd
  Requests <- MCRequests
  Chunks <- MCChunks
  StableSamples = 2
  Holdback = 1
  MaxRewrite = 2
  MaxLength = 7
  MaxPolls = 4
SPECIFICATION Spec
PROPERTY CompletedTurnIsSaved
CHECK_DEADLOCK FALSE
