CONSTANTS
  q = q
  a = a
  b = b
  k1 = k1
  k2 = k2
  Bodies = {q, a, b}
  CallIds = {}
  Urls = {u1, u2, u3}
  Contexts = {i}
  Requests = {r1, r2}
  Keys = {x}
  Conversations = {c1, c2, c3}
  Transcripts <- ForkedTranscripts
  Answers = {a, b}
  Affinities = {FALSE}
  MaxSubmits = 3
  MaxCrashes = 1
SPECIFICATION Spec
SYMMETRY EngineSymmetry
CHECK_DEADLOCK FALSE
INVARIANTS
  TypeOK
  CleanMatchesWeb
  UrlExclusive
  OneTurnPerConversation
  OneConversationPerKey
  InFlightWhileUncertain
PROPERTY ImplementsLog
