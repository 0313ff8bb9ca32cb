SPECIFICATION Spec
CONSTANTS
  NULL = NULL
  Error = Error
  NRCGIs <- TwoCells
  PLMNs <- TwoPLMNs
  SliceIDs <- TwoSlices
  FiveQIs = {9}
  PRBs = {5}
  Octets <- Counts
  PMCapacity = 2
  MaxContainers = 3
  MaxReports = 2
INVARIANTS TypeOK SummaryOfContainer
