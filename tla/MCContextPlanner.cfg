CONSTANTS
  i1 = i1
  i2 = i2
  u1 = u1
  Bodies <- MCBodies
  Families <- MCFamilies
  Checkpoints <- MCCheckpoints
  Answers <- MCAnswers
  CallIds = {"k1", "k2", "k3"}
  Urls = {u1}
  Contexts = {i1, i2}
  MaxAttachments = 16
  MaxLog = 4
  MaxRequest = 5
  MaxFileLog = 3
  MaxFileRequest = 4
  MaxName = 2
SPECIFICATION Spec
CHECK_DEADLOCK FALSE
INVARIANTS
  PlanReachesTarget
  TargetIsSound
  RefusesOnlyForeignResults
  PromptMatchesUploads
  SavedReadsBack
  AnswersComeBack
