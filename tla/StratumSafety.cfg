SPECIFICATION Spec
CONSTANTS
  t1 = t1  t2 = t2  pool1 = pool1  pool2 = pool2  a = a  NULL = NULL
  Threads <- MCThreads
  Urls <- MCUrls
  StartUrl = pool1
  JobIds <- OneJobId
  Redirects <- ToPool2
  Extranonce = TRUE
  opt_retries = 0
  Xn2Size = 2
  MaxFaults = 1
SYMMETRY Symmetry
INVARIANTS TypeOK StaleScanTold NextWorkIsNew
PROPERTY FeedSpec
