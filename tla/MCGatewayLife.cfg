CONSTANTS
  m1 = m1
  m2 = m2
  edited = edited
  Turns = {t1, t2}
  KeyOf <- OneConversation
  Images = {i1}
  Checksums = {m1, m2, edited}
  Deployments <- Releases
  MaxStarts = 3
SPECIFICATION FairSpec
CHECK_DEADLOCK FALSE
INVARIANTS
  SchemaIsDeployed
  ImagesAccounted
  EndsInOrder
  AcceptedAreServed
PROPERTY LostBrowserEnds
