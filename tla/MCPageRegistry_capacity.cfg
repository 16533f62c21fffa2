CONSTANTS
  Pages = {p1, p2, p3, p4}
  MaxOpenPages = 2
  Conversations = {c1, c2}
  Users = {d1}
  Timer = Timer
  NoPage = NoPage
  MaxFailures = 0
  MaxLost = 0
SPECIFICATION Spec
SYMMETRY RegistrySymmetry
INVARIANT CapacityBounded
