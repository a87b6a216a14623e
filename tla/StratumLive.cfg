SPECIFICATION FairSpec
CONSTANTS
  t1 = t1  t2 = t2  pool1 = pool1  pool2 = pool2  a = a  NULL = NULL
  Threads <- OneThread
  Urls <- MCUrls
  StartUrl = pool1
  JobIds <- OneJobId
  Redirects <- NoRedirect
  Extranonce = TRUE
  opt_retries <- Forever
  Xn2Size = 1
  MaxFaults = 2
INVARIANT PoolChangeNotLost
PROPERTIES MinersKeepHashing PoolChangeTakesEffect
