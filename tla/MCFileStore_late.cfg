CONSTANTS
  Tasks = {t1, t2}
  FileIds = {f1, f2}
  Hashes = {h1}
  Conversations = {c1, c2}
  NoFile = NoFile
  NoHash = NoHash
  NoConv = NoConv
  MaxCrashes = 1
SPECIFICATION Spec
SYMMETRY FileSymmetry
INVARIANT RowsHaveBytes
