SPECIFICATION Spec
CONSTANTS
  c1 = c1
  c2 = c2
  n1 = n1
  Conns = {c1, c2}
  Names = {n1}
  NodeOf <- TwoOfOneNode
  Listeners = {l1, l2}
  MaxPdus = 2
  MaxRmr = 1
  MaxFaults = 1
  NULL = NULL
  NoName = NoName
SYMMETRY ListenerSymmetry
CHECK_DEADLOCK FALSE
INVARIANTS TypeOK RegistrySound UpNodesRegistered FreedPeersReportedDown
