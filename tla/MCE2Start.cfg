SPECIFICATION FairSpec
CONSTANTS
  l1 = l1
  l2 = l2
  NULL = NULL
  Listeners = {l1, l2}
  MaxWrites = 2
INVARIANTS TypeOK NeverAllBlocked ConfigNotLost
PROPERTIES HandshakeEnds LastConfigApplied
