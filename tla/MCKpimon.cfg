SPECIFICATION FairSpec
CONSTANTS
  r1 = r1
  r2 = r2
  Rans = {r1, r2}
  RanList <- RepeatedRan
  MaxAttempts = 2
  MaxMsgs = 2
CHECK_DEADLOCK FALSE
INVARIANTS TypeOK EntriesWatched AcceptedNotExpired EveryRanRequestedOnce
PROPERTIES EntriesResolved SubscriptionSettles ImplementsProcedure
