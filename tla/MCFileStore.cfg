CONSTANTS
  Tasks = {t1, t2}
  FileIds = {f1, f2, f3}
  Hashes = {h1, h2}
  Conversations = {c1, c2}
  NoFile = NoFile
  NoHash = NoHash
  NoConv = NoConv
  MaxCrashes = 1
SPECIFICATION Spec
SYMMETRY FileSymmetry
INVARIANTS
  UsedFilesKept
  BlobInsertedOnce
  NothingLeftBehind
PROPERTY OnlyLateRemovalsLose
