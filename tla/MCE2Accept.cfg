SPECIFICATION Spec
CONSTANTS
  c1 = c1
  c2 = c2
  n1 = n1
  Conns = {c1, c2}
  Names = {n1}
  NodeOf <- TwoOfOneNode
  Listeners = {l1, l2}
  MaxPdus = 1
  MaxRmr = 0
  MaxFaults = 0
  NULL = NULL
  NoName = NoName
SYMMETRY ListenerSymmetry
CHECK_DEADLOCK FALSE
INVARIANTS AllAccepted
