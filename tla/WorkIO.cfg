SPECIFICATION FairSpec
CONSTANTS
  t1 = t1  t2 = t2  NULL = NULL
  Threads <- MCThreads
  HaveGbt = TRUE
  AllowGetwork = TRUE
  SwapsGetwork = FALSE
  opt_retries = 1
  Versions = {0, 1}
  MaxTip = 2
  MaxShares = 1
INVARIANTS TypeOK SolvedNotKept ProtocolKept RequestNotLost
PROPERTIES FetchEnds FeedSpec
