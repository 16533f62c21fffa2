CONSTANTS
  Alphabet <- MCAlphabet
  Space = " "
  Start <- MCStart
  End <- MCEnd
  Requests <- MCRequests
  Chunks <- MCChunks
  StableSamples = 2
  Holdback = 1
  MaxRewrite = 2
  MaxLength = 7
  MaxPolls = 4
SPECIFICATION FairSpec
INVARIANTS
  SavedIsSeen
  PrivateMarkerHidden
  WireFollowsProtocol
  ShallowRewritesSurvive
  SavedWhenQuiet
PROPERTY ResponseEnds
CHECK_DEADLOCK FALSE
