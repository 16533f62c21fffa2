CONSTANTS
  q = q
  a = a
  b = b
  k1 = k1
  k2 = k2
  Bodies = {q, a, b}
  CallIds = {k1, k2}
  Urls = {u1, u2, u3}
  Contexts = {i}
  Requests = {r1, r2}
  Keys = {x}
  Conversations = {c1, c2, c3}
  Transcripts <- MixedTranscripts
  Answers = {a}
  Affinities = {TRUE, FALSE}
  MaxSubmits = 3
  MaxCrashes = 1
  MaxStuck = 1
SPECIFICATION FairStreamSpec
ACTION_CONSTRAINT Environment
CHECK_DEADLOCK FALSE
INVARIANTS
  PromptDeliversTranscript
  ToolCallsSound
PROPERTY RequestsEnd
