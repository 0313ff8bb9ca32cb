SPECIFICATION FairSpec
CONSTANTS
  a1 = a1
  a2 = a2
  NULL = NULL
  Assocs = {a1, a2}
  Messages <- ThreeMessages
  BufferSize = 4
  SampleSize = 2
  MaxChunks <- ThreeAndTwo
CHECK_DEADLOCK FALSE
INVARIANTS TypeOK BufferOfOneAssociation CommandsEarned
PROPERTIES DataRead LeavesClosed
