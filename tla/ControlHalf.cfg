SPECIFICATION Spec
CONSTANTS
  t1 = t1  t2 = t2  sha = sha  scrypt = scrypt  n1 = n1  dflt = dflt
  pool1 = pool1  pool2 = pool2  NULL = NULL
  Threads <- OneThread
  Algos <- MCAlgos
  Params <- MCParams
  Unset = dflt
  ParamAlgos <- MCParamAlgos
  Urls <- MCUrls
  Profiles <- SwitchOnly
  StartAlgo = sha
  StartParam = dflt
  StartUrl = pool1
  Faults = {"timeout"}
  MaxEpoch = 1
  MaxGen = 1
INVARIANT NeverHalfSwitched
