CONSTANTS
  Pages = {p1, p2}
  Chats = {c1, c2}
  MaxTurns = 3
  MaxText = 2
  MaxReloads = 2
  FileCounts = {0, 2}
SPECIFICATION Spec
SYMMETRY DriverSymmetry

CHECK_DEADLOCK FALSE
INVARIANTS
  OwnAnswerUnlessTorn
  WholeAnswerUnlessTornAgain
  PromptSentOnce
  SavedChatAnswered
PROPERTY PromptCarriesFiles
