CONSTANTS
  Pages = {p1, p2, p3, p4, p5}
  MaxOpenPages = 2
  Conversations = {c1, c2}
  Users = {d1}
  Timer = Timer
  NoPage = NoPage
  MaxFailures = 1
  MaxLost = 1
SPECIFICATION FairSpec
ACTION_CONSTRAINT PagesInOrder
INVARIANTS
  PagesNotShared
  LeasesAccounted
PROPERTIES
  KeepsLastPage
  IdlePagesExpire
