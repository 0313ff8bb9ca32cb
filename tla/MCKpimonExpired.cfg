SPECIFICATION FairSpec
CONSTANTS
  r1 = r1
  r2 = r2
  Rans = {r1, r2}
  RanList <- TwoRans
  MaxAttempts = 2
  MaxMsgs = 1
CHECK_DEADLOCK FALSE
PROPERTIES ExpiredMeansUnanswered
