CONSTANTS
  Pages = {p1, p2, p3}
  MaxOpenPages = 2
  Conversations = {c1, c2}
  Users = {}
  Timer = Timer
  NoPage = NoPage
  MaxFailures = 0
  MaxLost = 0
SPECIFICATION Spec
SYMMETRY RegistrySymmetry
INVARIANT BusyPageKept
